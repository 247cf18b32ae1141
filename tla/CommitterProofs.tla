--------------------------- MODULE CommitterProofs ---------------------------
(***************************************************************************)
(* For any number of edits, items, repositories, timers and callers: two   *)
(* commits never run in one repository, a timer never commits a batch      *)
(* whose debounce was started again, and Flush returns when what it had to *)
(* see committed is.  When one goroutine closes the committer, all is      *)
(* quiet once Close has returned.                                          *)
(***************************************************************************)
EXTENDS Committer, FiniteSetTheorems, TLAPS

Writing(p)   == pc[p] \in {"write", "closingWrite"}
Finishing(p) == pc[p] \in {"finish", "closingFinish"}

Places == {"idle", "fire", "commit", "write", "finish", "close",
           "closingCommit", "closingWrite", "closingFinish", "wait", "closed"}

(* Who is committing holds the lock of the repository, and nobody else     *)
(* holds a lock.                                                           *)
Locked == /\ \A p \in Procs : Writing(p) => holder[RepoOf[current[p]]] = p
          /\ \A r \in Repos : holder[r] # NoOne =>
                Writing(holder[r]) /\ RepoOf[current[holder[r]]] = r

(* A goroutine has batches in hand only between taking and finishing them, *)
(* and the one it works on is one of them.  A callback has one at most.    *)
Placed ==
    /\ \A t \in Callbacks :
          /\ pc[t] \in {"idle", "fire", "commit", "write", "finish"}
          /\ \A k \in Keys : taken[t][k] # {} =>
                k = fired[t].key /\ pc[t] \in {"commit", "write", "finish"}
    /\ \A c \in Callers :
          /\ pc[c] # "fire"
          /\ pc[c] \in {"idle", "close", "wait", "closed"} => \A k \in Keys : taken[c][k] = {}
    /\ \A p \in Procs : Writing(p) \/ Finishing(p) => taken[p][current[p]] # {}

(* Committer.inflight counts the batches that somebody has in hand.        *)
InHand == {x \in Procs \X Keys : taken[x[1]][x[2]] # {}}
Counted == inflight = Cardinality(InHand)

(* An edit that somebody took is accepted or done, and done once it is     *)
(* committed; what a Flush has to see committed is done or in hand.        *)
Held(e) == \E p \in Procs, k \in Keys : e \in taken[p][k]
Finished == \A p \in Procs : Finishing(p) => \A e \in taken[p][current[p]] : fate[e] = "done"
Waiting  == \A e \in Edits : fate[e] = "accepted" =>
                (\E k \in Keys : e \in pending[k].edits) \/ Held(e)
Promised == \A c \in Callers : \A e \in due[c] : fate[e] = "done" \/ Held(e)
Followed == Finished /\ Waiting /\ Promised

(* A callback's batch is not younger than the one that is pending, and     *)
(* when it is the same one, armed once, then its timer has expired.        *)
Stamped ==
    /\ \A k \in Keys : pending[k].number <= made[k]
    /\ \A t \in Callbacks : pc[t] = "fire" =>
          LET f == fired[t] IN
          /\ f.number <= made[f.key]
          /\ pending[f.key].edits # {} /\ pending[f.key].number = f.number =>
                /\ f.armed <= pending[f.key].armed
                /\ f.armed = pending[f.key].armed => ~pending[f.key].timer

IInv == TypeOK /\ Locked /\ Placed /\ Counted /\ Followed /\ Stamped

Emptied == pending = [k \in Keys |-> NoBatch]

(* With one closer: nothing is pending once Close has taken what was, and  *)
(* nothing is in hand once it has waited for that.                         *)
Closing(c) == pc[c] \in {"closingCommit", "closingWrite", "closingFinish", "wait", "closed"}
Quieted ==
    /\ \A c \in Callers : Closing(c) \/ pc[c] = "close" => c \in Closers /\ closed
    /\ closed => \E c \in Closers : Closing(c) \/ pc[c] = "close"
    /\ \A c \in Callers : Closing(c) => Emptied
    /\ \A c \in Callers : pc[c] \in {"wait", "closed"} => inflight = 0
    /\ \A c \in Callers : pc[c] = "closed" => \A t \in Callbacks : pc[t] = "idle"

-----------------------------------------------------------------------------
LEMMA InitHolds == Init => IInv /\ Quieted
<1> SUFFICES ASSUME Init PROVE IInv /\ Quieted
  OBVIOUS
<1> USE CommitterAssumption
<1>1. TypeOK
  <2>1. (CHOOSE k \in Keys : TRUE) \in Keys
    OBVIOUS
  <2> QED
    BY <2>1 DEF Init, TypeOK, BatchType, NoBatch
<1>2. Locked
  BY DEF Init, Locked, Writing
<1>3. Placed
  BY DEF Init, Placed, Writing, Finishing, Procs
<1>4. Counted
  <2>1. InHand = {}
    BY DEF Init, InHand
  <2> QED
    BY <2>1, FS_EmptySet DEF Init, Counted
<1>5. Followed
  BY DEF Init, Followed, Finished, Waiting, Promised, Finishing, NoBatch
<1>6. Stamped
  BY DEF Init, Stamped, NoBatch, Procs
<1>7. Quieted
  BY DEF Init, Quieted, Closing, Procs
<1> QED
  BY <1>1, <1>2, <1>3, <1>4, <1>5, <1>6, <1>7 DEF IInv

-----------------------------------------------------------------------------
(* Types.                                                                  *)

(* What is done to a batch leaves a batch.                                 *)
LEMMA BatchUpdates ==
    ASSUME NEW b \in BatchType
    PROVE  /\ b.edits \in SUBSET Edits /\ b.number \in Nat /\ b.armed \in Nat
           /\ [b EXCEPT !.timer = FALSE] \in BatchType
           /\ \A e \in Edits : Joined(b, e) \in BatchType
           /\ NoBatch \in BatchType
           /\ \A n \in Nat : [NoBatch EXCEPT !.number = n] \in BatchType
<1>1. /\ b.edits \in SUBSET Edits /\ b.number \in Nat /\ b.armed \in Nat
      /\ [b EXCEPT !.timer = FALSE] \in BatchType
  BY DEF BatchType
<1>2. NoBatch \in BatchType /\ \A n \in Nat : [NoBatch EXCEPT !.number = n] \in BatchType
  BY DEF BatchType, NoBatch
<1>3. ASSUME NEW e \in Edits PROVE Joined(b, e) \in BatchType
  <2>1. b.edits \cup {e} \in SUBSET Edits /\ b.armed + 1 \in Nat
    BY <1>1
  <2> QED
    BY <2>1 DEF BatchType, Joined
<1> QED
  BY <1>1, <1>2, <1>3

LEMMA TakeAllType ==
    ASSUME TypeOK, NEW c \in Callers, TakeAll(c)
    PROVE  /\ pending' \in [Keys -> BatchType]
           /\ taken' \in [Procs -> [Keys -> SUBSET Edits]]
           /\ due' \in [Callers -> SUBSET Edits]
           /\ inflight' \in Nat
<1> USE DEF TakeAll, TypeOK
<1>1. NoBatch \in BatchType
  BY DEF NoBatch, BatchType
<1>2. [k \in Keys |-> pending[k].edits] \in [Keys -> SUBSET Edits]
  BY DEF BatchType
<1>3. Cardinality(Open) \in Nat
  <2>1. IsFiniteSet(Open)
    BY CommitterAssumption, FS_Subset DEF Open
  <2> QED
    BY <2>1, FS_CardinalityType
<1>4. inflight' \in Nat
  <2>1. inflight' = inflight + Cardinality(Open) /\ inflight \in Nat
    OBVIOUS
  <2> HIDE DEF TakeAll, TypeOK
  <2> QED
    BY <1>3, <2>1
<1>5. pending' \in [Keys -> BatchType]
  BY <1>1
<1>6. taken' \in [Procs -> [Keys -> SUBSET Edits]]
  BY <1>2
<1>7. due' \in [Callers -> SUBSET Edits]
  OBVIOUS
<1> QED
  BY <1>4, <1>5, <1>6, <1>7

LEMMA TypeKeeps == IInv /\ [Next]_vars => TypeOK'
<1> SUFFICES ASSUME IInv, [Next]_vars PROVE TypeOK'
  OBVIOUS
<1>0. TypeOK /\ Callers \subseteq Procs /\ Callbacks \subseteq Procs
  BY DEF IInv, Procs
<1> USE CommitterAssumption
<1>1. ASSUME NEW e \in Edits, Enqueue(e) PROVE TypeOK'
  <2> USE DEF Enqueue, TypeOK, procVars
  <2>1. CASE closed
    BY <1>0, <1>1, <2>1
  <2>2. CASE ~closed
    <3> DEFINE k == KeyOf[e]
    <3>1. k \in Keys
      OBVIOUS
    <3>2. made' \in [Keys -> Nat]
      <4>1. made \in [Keys -> Nat] /\ made' \in {made, [made EXCEPT ![k] = @ + 1]}
        BY <1>0, <1>1, <2>2
      <4> HIDE DEF k
      <4> QED
        BY <3>1, <4>1
    <3>3. pending' \in [Keys -> BatchType]
      <4> DEFINE b == IF k \in Open THEN pending[k] ELSE [NoBatch EXCEPT !.number = made'[k]]
      <4>1. b \in BatchType
        <5>1. pending[k] \in BatchType /\ made'[k] \in Nat
          BY <1>0, <3>1, <3>2 DEF TypeOK
        <5> QED
          BY <5>1, BatchUpdates
      <4>2. Joined(b, e) \in BatchType
        BY <4>1, BatchUpdates
      <4>3. pending' = [pending EXCEPT ![k] = Joined(b, e)]
        BY <1>0, <1>1, <2>2, <3>1
      <4> HIDE DEF b, k
      <4> QED
        BY <1>0, <4>2, <4>3
    <3> QED
      BY <1>0, <1>1, <2>2, <3>2, <3>3
  <2> QED
    BY <2>1, <2>2
<1>2. ASSUME NEW k \in Keys, NEW t \in Callbacks, Expire(k, t) PROVE TypeOK'
  <2>1. pending' \in [Keys -> BatchType]
    <3>1. pending' = [pending EXCEPT ![k] = [pending[k] EXCEPT !.timer = FALSE]]
      BY <1>2 DEF Expire
    <3>2. pending \in [Keys -> BatchType] /\ [pending[k] EXCEPT !.timer = FALSE] \in BatchType
      BY <1>0, BatchUpdates DEF TypeOK
    <3> QED
      BY <3>1, <3>2
  <2>2. fired' \in [Callbacks -> [key: Keys, number: Nat, armed: Nat]]
    <3>1. pending[k].number \in Nat /\ pending[k].armed \in Nat
      BY <1>0, BatchUpdates DEF TypeOK
    <3> QED
      BY <1>0, <1>2, <3>1 DEF Expire, TypeOK
  <2> QED
    BY <1>0, <1>2, <2>1, <2>2 DEF Expire, Goto, TypeOK, histVars
<1>3. ASSUME NEW t \in Callbacks, Fire(t) PROVE TypeOK'
  <2>1. PICK k \in Keys : k = fired[t].key
    BY <1>0 DEF TypeOK
  <2>2. pending' = pending \/ pending' = [pending EXCEPT ![k] = NoBatch]
    BY <1>3, <2>1 DEF Fire
  <2>3. \/ taken' = taken
        \/ taken' = [taken EXCEPT ![t] = [taken[t] EXCEPT ![k] = pending[k].edits]]
    BY <1>3, <2>1 DEF Fire
  <2>4. inflight' \in {inflight, inflight + 1}
    BY <1>3 DEF Fire
  <2>5. pending[k].edits \in SUBSET Edits /\ NoBatch \in BatchType
    BY <1>0, <2>1, BatchUpdates DEF TypeOK
  <2>6. /\ pc' \in [Procs -> Places]
        /\ UNCHANGED <<made, closed, holder, fired, current, fate, due>>
    BY <1>0, <1>3 DEF Fire, Goto, TypeOK, Places, histVars
  <2>7. pending' \in [Keys -> BatchType]
    <3>1. pending \in [Keys -> BatchType]
      BY <1>0 DEF TypeOK
    <3> QED
      BY <2>1, <2>2, <2>5, <3>1
  <2>8. taken' \in [Procs -> [Keys -> SUBSET Edits]]
    <3>1. taken \in [Procs -> [Keys -> SUBSET Edits]] /\ t \in Procs
      BY <1>0 DEF TypeOK
    <3>2. [taken[t] EXCEPT ![k] = pending[k].edits] \in [Keys -> SUBSET Edits]
      BY <2>1, <2>5, <3>1
    <3> QED
      BY <2>3, <3>1, <3>2
  <2>9. inflight' \in Nat
    BY <1>0, <2>4 DEF TypeOK
  <2> QED
    BY <1>0, <2>6, <2>7, <2>8, <2>9 DEF TypeOK, Places
<1>4. ASSUME NEW p \in Procs, NEW k \in Keys, Lock(p, k) PROVE TypeOK'
  BY <1>0, <1>4 DEF Lock, Goto, TypeOK, batchVars, histVars
<1>5. ASSUME NEW p \in Procs, Commit(p) PROVE TypeOK'
  BY <1>0, <1>5 DEF Commit, Goto, TypeOK, batchVars
<1>6. ASSUME NEW p \in Procs, FinishCommit(p) PROVE TypeOK'
  <2>1. inflight # 0
    <3>1. <<p, current[p]>> \in InHand
      BY <1>0, <1>6 DEF FinishCommit, IInv, Placed, Finishing, InHand, TypeOK
    <3>2. IsFiniteSet(InHand)
      BY FS_Product, FS_Subset DEF InHand
    <3> QED
      BY <3>1, <3>2, FS_EmptySet DEF IInv, Counted
  <2>2. inflight' \in Nat
    <3>1. inflight' = inflight - 1 /\ inflight \in Nat
      BY <1>0, <1>6 DEF FinishCommit, TypeOK
    <3> QED
      BY <2>1, <3>1
  <2> QED
    BY <1>0, <1>6, <2>2 DEF FinishCommit, Goto, TypeOK, histVars
<1>7. ASSUME NEW c \in Callers, Flush(c) \/ CloseFlush(c) PROVE TypeOK'
  <2>1. TakeAll(c)
    BY <1>7 DEF Flush, CloseFlush
  <2>2. pc' \in [Procs -> Places]
    BY <1>0, <1>7 DEF Flush, CloseFlush, Goto, TypeOK, Places
  <2>3. UNCHANGED <<closed, made, holder, fired, current, fate>>
    BY <1>7 DEF Flush, CloseFlush, TakeAll
  <2> QED
    BY <1>0, <2>1, <2>2, <2>3, TakeAllType DEF TypeOK, Places
<1>8. ASSUME NEW c \in Callers, WaitIdle(c) PROVE TypeOK'
  BY <1>0, <1>8 DEF WaitIdle, Goto, TypeOK, batchVars, histVars
<1>9. ASSUME NEW c \in Closers, Close(c) \/ WaitTimers(c) PROVE TypeOK'
  BY <1>0, <1>9 DEF Close, WaitTimers, Goto, TypeOK, batchVars, histVars
<1>10. CASE Ended \/ UNCHANGED vars
  BY <1>0, <1>10 DEF Ended, TypeOK, vars, batchVars, procVars, histVars
<1> QED
  BY <1>1, <1>2, <1>3, <1>4, <1>5, <1>6, <1>7, <1>8, <1>9, <1>10 DEF Next, Run

-----------------------------------------------------------------------------
(* The locks of the repositories.                                          *)

LEMMA LockedKeeps == IInv /\ [Next]_vars => Locked'
<1> SUFFICES ASSUME IInv, [Next]_vars PROVE Locked'
  OBVIOUS
<1>0. /\ Locked /\ Callers \subseteq Procs /\ Callbacks \subseteq Procs
      /\ pc \in [Procs -> Places] /\ current \in [Procs -> Keys]
      /\ holder \in [Repos -> Procs \cup {NoOne}]
      /\ RepoOf \in [Keys -> Repos] /\ NoOne \notin Procs /\ Closers \subseteq Callers
  BY CommitterAssumption DEF IInv, Procs, TypeOK, Places
<1>1. ASSUME NEW p \in Procs, NEW k \in Keys, Lock(p, k) PROVE Locked'
  <2>1. /\ pc' = [pc EXCEPT ![p] = IF pc[p] = "commit" THEN "write" ELSE "closingWrite"]
        /\ holder[RepoOf[k]] = NoOne /\ holder' = [holder EXCEPT ![RepoOf[k]] = p]
        /\ current' = [current EXCEPT ![p] = k]
        /\ ~Writing(p)
    BY <1>1 DEF Lock, Goto, Writing
  <2>2. ASSUME NEW q \in Procs, Writing(q)' PROVE holder'[RepoOf[current'[q]]] = q
    BY <1>0, <2>1, <2>2 DEF Locked, Writing
  <2>3. ASSUME NEW r \in Repos, holder'[r] # NoOne
        PROVE  LET q == holder'[r]
               IN  pc'[q] \in {"write", "closingWrite"} /\ RepoOf[current'[q]] = r
    BY <1>0, <2>1, <2>3 DEF Locked, Writing
  <2> QED
    BY <2>2, <2>3 DEF Locked, Writing
<1>2. ASSUME NEW p \in Procs, Commit(p) PROVE Locked'
  <2>1. /\ pc' = [pc EXCEPT ![p] = IF pc[p] = "write" THEN "finish" ELSE "closingFinish"]
        /\ holder' = [holder EXCEPT ![RepoOf[current[p]]] = NoOne]
        /\ current' = current /\ Writing(p)
    BY <1>2 DEF Commit, Goto, Writing
  <2>2. ASSUME NEW q \in Procs, Writing(q)' PROVE holder'[RepoOf[current'[q]]] = q
    BY <1>0, <2>1, <2>2 DEF Locked, Writing
  <2>3. ASSUME NEW r \in Repos, holder'[r] # NoOne
        PROVE  LET q == holder'[r]
               IN  pc'[q] \in {"write", "closingWrite"} /\ RepoOf[current'[q]] = r
    BY <1>0, <2>1, <2>3 DEF Locked, Writing
  <2> QED
    BY <2>2, <2>3 DEF Locked, Writing
<1>3. ASSUME UNCHANGED <<holder, current, pc>> PROVE Locked'
  BY <1>0, <1>3 DEF Locked, Writing
<1>4. ASSUME NEW p \in Procs, NEW there, Goto(p, there), ~Writing(p),
             there \notin {"write", "closingWrite"}, UNCHANGED <<holder, current>>
      PROVE  Locked'
  <2>1. pc' = [pc EXCEPT ![p] = there]
    BY <1>4 DEF Goto
  <2>2. ASSUME NEW q \in Procs, Writing(q)' PROVE Writing(q) /\ q # p
    BY <1>0, <1>4, <2>1, <2>2 DEF Writing
  <2>3. ASSUME NEW q \in Procs, Writing(q) PROVE pc'[q] \in {"write", "closingWrite"}
    BY <1>0, <1>4, <2>1, <2>3 DEF Writing
  <2> QED
    BY <1>0, <1>4, <2>2, <2>3 DEF Locked, Writing
<1>5. ASSUME NEW e \in Edits, Enqueue(e) PROVE Locked'
  BY <1>3, <1>5 DEF Enqueue, procVars
<1>6. ASSUME NEW k \in Keys, NEW t \in Callbacks, Expire(k, t) PROVE Locked'
  BY <1>0, <1>4, <1>6 DEF Expire, Writing
<1>7. ASSUME NEW t \in Callbacks, Fire(t) PROVE Locked'
  BY <1>0, <1>4, <1>7 DEF Fire, Writing
<1>8. ASSUME NEW p \in Procs, FinishCommit(p) PROVE Locked'
  BY <1>0, <1>4, <1>8 DEF FinishCommit, Writing
<1>9. ASSUME NEW c \in Callers, Flush(c) \/ CloseFlush(c) \/ WaitIdle(c) PROVE Locked'
  BY <1>0, <1>4, <1>9 DEF Flush, CloseFlush, WaitIdle, TakeAll, Writing
<1>10. ASSUME NEW c \in Closers, Close(c) \/ WaitTimers(c) PROVE Locked'
  BY <1>0, <1>4, <1>10 DEF Close, WaitTimers, Writing
<1>11. CASE Ended \/ UNCHANGED vars
  BY <1>3, <1>11 DEF Ended, vars, procVars
<1> QED
  BY <1>0, <1>1, <1>2, <1>5, <1>6, <1>7, <1>8, <1>9, <1>10, <1>11 DEF Next, Run

-----------------------------------------------------------------------------
(* Who has what in hand.                                                   *)

LEMMA PlacedKeeps == IInv /\ [Next]_vars => Placed'
<1> SUFFICES ASSUME IInv, [Next]_vars PROVE Placed'
  OBVIOUS
<1>0. /\ Placed /\ Procs = Callbacks \cup Callers /\ Callbacks \cap Callers = {}
      /\ Closers \subseteq Callers
      /\ pc \in [Procs -> Places] /\ current \in [Procs -> Keys]
      /\ taken \in [Procs -> [Keys -> SUBSET Edits]]
      /\ fired \in [Callbacks -> [key: Keys, number: Nat, armed: Nat]]
  BY CommitterAssumption DEF IInv, Procs, TypeOK, Places
<1> USE DEF Placed, Writing, Finishing
<1>1. CASE (\E e \in Edits : Enqueue(e)) \/ Ended \/ UNCHANGED vars
  <2>1. UNCHANGED <<pc, fired, taken, current>>
    BY <1>1 DEF Enqueue, Ended, vars, procVars
  <2> QED
    BY <1>0, <2>1
<1>2. ASSUME NEW k \in Keys, NEW t \in Callbacks, Expire(k, t) PROVE Placed'
  <2>1. /\ pc' = [pc EXCEPT ![t] = "fire"] /\ pc[t] = "idle"
        /\ UNCHANGED <<taken, current>> /\ \A s \in Callbacks \ {t} : fired'[s] = fired[s]
    BY <1>0, <1>2 DEF Expire, Goto
  <2> QED
    BY <1>0, <2>1
<1>3. ASSUME NEW t \in Callbacks, Fire(t) PROVE Placed'
  <2>1. PICK k \in Keys : k = fired[t].key
    BY <1>0
  <2>2. pc[t] = "fire" /\ UNCHANGED <<fired, current>>
    BY <1>3 DEF Fire
  <2>3. CASE IsCurrent(fired[t])
    <3>1. /\ pc' = [pc EXCEPT ![t] = "commit"]
          /\ taken' = [taken EXCEPT ![t] = [taken[t] EXCEPT ![k] = pending[k].edits]]
      BY <1>3, <2>1, <2>3 DEF Fire, Goto
    <3> QED
      BY <1>0, <2>1, <2>2, <3>1
  <2>4. CASE ~IsCurrent(fired[t])
    <3>1. pc' = [pc EXCEPT ![t] = "idle"] /\ taken' = taken
      BY <1>3, <2>4 DEF Fire, Goto
    <3> QED
      BY <1>0, <2>2, <3>1
  <2> QED
    BY <2>3, <2>4
<1>4. ASSUME NEW p \in Procs, NEW k \in Keys, Lock(p, k) PROVE Placed'
  <2>1. /\ pc[p] \in {"commit", "closingCommit"} /\ taken[p][k] # {}
        /\ pc' = [pc EXCEPT ![p] = IF pc[p] = "commit" THEN "write" ELSE "closingWrite"]
        /\ current' = [current EXCEPT ![p] = k] /\ UNCHANGED <<fired, taken>>
    BY <1>4 DEF Lock, Goto
  <2> QED
    BY <1>0, <2>1
<1>5. ASSUME NEW p \in Procs, Commit(p) PROVE Placed'
  <2>1. /\ Writing(p) /\ UNCHANGED <<fired, taken, current>>
        /\ pc' = [pc EXCEPT ![p] = IF pc[p] = "write" THEN "finish" ELSE "closingFinish"]
    BY <1>5 DEF Commit, Goto
  <2> QED
    BY <1>0, <2>1
<1>6. ASSUME NEW p \in Procs, FinishCommit(p) PROVE Placed'
  <2>1. /\ pc[p] \in {"finish", "closingFinish"} /\ UNCHANGED <<fired, current>>
        /\ taken' = [taken EXCEPT ![p] = [taken[p] EXCEPT ![current[p]] = {}]]
    BY <1>6 DEF FinishCommit
  <2>2. CASE p \in Callbacks
    <3>1. pc' = [pc EXCEPT ![p] = "idle"]
      BY <1>6, <2>2 DEF FinishCommit, Goto
    <3> QED
      BY <1>0, <2>1, <2>2, <3>1
  <2>3. CASE p \in Callers
    <3>1. pc' = [pc EXCEPT ![p] = IF pc[p] = "finish" THEN "commit" ELSE "closingCommit"]
      BY <1>0, <1>6, <2>3 DEF FinishCommit, Goto
    <3> QED
      BY <1>0, <2>1, <2>3, <3>1
  <2> QED
    BY <1>0, <2>2, <2>3
<1>7. ASSUME NEW c \in Callers, Flush(c) \/ CloseFlush(c) PROVE Placed'
  <2>1. /\ pc[c] \in {"idle", "close"} /\ UNCHANGED <<fired, current>>
        /\ \/ pc' = [pc EXCEPT ![c] = "commit"]
           \/ pc' = [pc EXCEPT ![c] = "closingCommit"]
        /\ taken' = [taken EXCEPT ![c] = [k \in Keys |-> pending[k].edits]]
    BY <1>7 DEF Flush, CloseFlush, TakeAll, Goto
  <2>2. /\ pc'[c] \in {"commit", "closingCommit"}
        /\ \A q \in Procs \ {c} : pc'[q] = pc[q] /\ taken'[q] = taken[q]
    BY <1>0, <2>1
  <2>3. \A q \in Procs : q # c => pc'[q] = pc[q] /\ taken'[q] = taken[q]
    BY <1>0, <2>1, <2>2
  <2>4. \A t \in Callbacks : t \in Procs /\ t # c
    BY <1>0
  <2>5. \A t \in Callbacks :
           /\ pc'[t] \in {"idle", "fire", "commit", "write", "finish"}
           /\ \A k \in Keys : taken'[t][k] # {} =>
                 k = fired'[t].key /\ pc'[t] \in {"commit", "write", "finish"}
    BY <1>0, <2>1, <2>3, <2>4
  <2>6. ASSUME NEW d \in Callers
        PROVE  /\ pc'[d] # "fire"
               /\ pc'[d] \in {"idle", "close", "wait", "closed"} =>
                     \A k \in Keys : taken'[d][k] = {}
    BY <1>0, <2>1, <2>2, <2>3
  <2>7. ASSUME NEW p \in Procs, Writing(p)' \/ Finishing(p)'
        PROVE  taken'[p][current'[p]] # {}
    BY <1>0, <2>1, <2>2, <2>3, <2>7
  <2> QED
    BY <2>5, <2>6, <2>7
<1>8. ASSUME NEW c \in Callers, WaitIdle(c) PROVE Placed'
  <2>1. /\ pc[c] \in {"commit", "closingCommit"} /\ \A k \in Keys : taken[c][k] = {}
        /\ pc' = [pc EXCEPT ![c] = IF pc[c] = "commit" THEN "idle" ELSE "wait"]
        /\ UNCHANGED <<fired, taken, current>>
    BY <1>8 DEF WaitIdle, Goto
  <2> QED
    BY <1>0, <2>1
<1>9. ASSUME NEW c \in Closers, Close(c) \/ WaitTimers(c) PROVE Placed'
  <2>1. /\ pc[c] \in {"idle", "wait"} /\ c \in Callers
        /\ \/ pc' = [pc EXCEPT ![c] = "closingCommit"]
           \/ pc' = [pc EXCEPT ![c] = "close"]
           \/ pc' = [pc EXCEPT ![c] = "closed"]
        /\ UNCHANGED <<fired, taken, current>>
    BY <1>0, <1>9 DEF Close, WaitTimers, Goto
  <2>2. /\ pc'[c] \in {"closingCommit", "close", "closed"}
        /\ \A q \in Procs \ {c} : pc'[q] = pc[q]
    BY <1>0, <2>1
  <2>3. \A q \in Procs : q # c => pc'[q] = pc[q] /\ taken'[q] = taken[q]
    BY <1>0, <2>1, <2>2
  <2>4. \A t \in Callbacks : t \in Procs /\ t # c
    BY <1>0
  <2>5. \A t \in Callbacks :
           /\ pc'[t] \in {"idle", "fire", "commit", "write", "finish"}
           /\ \A k \in Keys : taken'[t][k] # {} =>
                 k = fired'[t].key /\ pc'[t] \in {"commit", "write", "finish"}
    BY <1>0, <2>1, <2>3, <2>4
  <2>6. ASSUME NEW d \in Callers
        PROVE  /\ pc'[d] # "fire"
               /\ pc'[d] \in {"idle", "close", "wait", "closed"} =>
                     \A k \in Keys : taken'[d][k] = {}
    BY <1>0, <2>1, <2>2, <2>3
  <2>7. ASSUME NEW p \in Procs, Writing(p)' \/ Finishing(p)'
        PROVE  taken'[p][current'[p]] # {}
    BY <1>0, <2>1, <2>2, <2>3, <2>7
  <2> QED
    BY <2>5, <2>6, <2>7
<1> QED
  BY <1>0, <1>1, <1>2, <1>3, <1>4, <1>5, <1>6, <1>7, <1>8, <1>9 DEF Next, Run

(* The batches in hand are finitely many, and one more or one less than    *)
(* before when a goroutine takes or finishes one.                          *)
LEMMA InHandFinite == ASSUME TypeOK PROVE IsFiniteSet(InHand)
  BY CommitterAssumption, FS_Product, FS_Subset DEF InHand

LEMMA TakeAllCounts ==
    ASSUME IInv, NEW c \in Callers, pc[c] \in {"idle", "close"}, TakeAll(c)
    PROVE  Counted'
<1>1. /\ taken' = [taken EXCEPT ![c] = [k \in Keys |-> pending[k].edits]]
      /\ inflight' = inflight + Cardinality(Open)
      /\ taken \in [Procs -> [Keys -> SUBSET Edits]] /\ c \in Procs
      /\ \A k \in Keys : taken[c][k] = {}
  BY DEF IInv, TakeAll, TypeOK, Placed, Procs
<1>2. InHand' = InHand \cup ({c} \X Open) /\ InHand \cap ({c} \X Open) = {}
  BY <1>1 DEF InHand, Open
<1>3. IsFiniteSet(Open) /\ IsFiniteSet({c}) /\ Cardinality({c}) = 1
  BY CommitterAssumption, FS_Subset, FS_Singleton DEF Open
<1>4. /\ IsFiniteSet({c} \X Open)
      /\ Cardinality({c} \X Open) = Cardinality({c}) * Cardinality(Open)
  BY <1>3, FS_Product
<1>5. Cardinality({c} \X Open) = Cardinality(Open)
  BY <1>3, <1>4, FS_CardinalityType
<1>6. /\ Cardinality(InHand \cup ({c} \X Open))
            = Cardinality(InHand) + Cardinality({c} \X Open) - Cardinality(InHand \cap ({c} \X Open))
      /\ Cardinality(InHand \cap ({c} \X Open)) = 0
      /\ Cardinality(InHand) \in Nat /\ Cardinality({c} \X Open) \in Nat
  BY <1>2, <1>4, InHandFinite, FS_Union, FS_EmptySet, FS_CardinalityType DEF IInv
<1> QED
  BY <1>1, <1>2, <1>5, <1>6 DEF Counted, IInv

LEMMA CountedKeeps == IInv /\ [Next]_vars => Counted'
<1> SUFFICES ASSUME IInv, [Next]_vars PROVE Counted'
  OBVIOUS
<1>0. /\ Placed /\ Procs = Callbacks \cup Callers /\ Callbacks \cap Callers = {}
      /\ Closers \subseteq Callers
      /\ current \in [Procs -> Keys] /\ inflight = Cardinality(InHand)
      /\ taken \in [Procs -> [Keys -> SUBSET Edits]]
      /\ IsFiniteSet(InHand) /\ Cardinality(InHand) \in Nat
  BY CommitterAssumption, InHandFinite, FS_CardinalityType DEF IInv, Procs, TypeOK, Counted
<1>1. ASSUME UNCHANGED <<taken, inflight>> PROVE Counted'
  BY <1>1 DEF IInv, Counted, InHand
<1>2. ASSUME NEW t \in Callbacks, Fire(t) PROVE Counted'
  <2>1. CASE ~IsCurrent(fired[t])
    BY <1>1, <1>2, <2>1 DEF Fire
  <2>2. CASE IsCurrent(fired[t])
    <3>1. PICK k \in Keys : k = fired[t].key
      BY DEF IInv, TypeOK
    <3>2. /\ inflight' = inflight + 1 /\ pending[k].edits # {}
          /\ taken' = [taken EXCEPT ![t] = [taken[t] EXCEPT ![k] = pending[k].edits]]
          /\ taken[t][k] = {}
      BY <1>0, <1>2, <2>2, <3>1 DEF Fire, IsCurrent, Placed
    <3>3. InHand' = InHand \cup {<<t, k>>} /\ <<t, k>> \notin InHand
      BY <1>0, <3>2 DEF InHand
    <3>4. Cardinality(InHand') = Cardinality(InHand) + 1
      BY <1>0, <3>3, FS_AddElement
    <3> QED
      BY <1>0, <3>2, <3>4 DEF Counted
  <2> QED
    BY <2>1, <2>2
<1>3. ASSUME NEW p \in Procs, FinishCommit(p) PROVE Counted'
  <2>1. PICK k \in Keys : k = current[p]
    BY <1>0
  <2>2. /\ inflight' = inflight - 1 /\ taken[p][k] # {}
        /\ taken' = [taken EXCEPT ![p] = [taken[p] EXCEPT ![k] = {}]]
    BY <1>0, <1>3, <2>1 DEF FinishCommit, Placed, Finishing
  <2>3. InHand' = InHand \ {<<p, k>>} /\ <<p, k>> \in InHand
    BY <1>0, <2>2 DEF InHand
  <2>4. Cardinality(InHand') = Cardinality(InHand) - 1
    BY <1>0, <2>3, FS_RemoveElement
  <2> QED
    BY <1>0, <2>2, <2>4 DEF Counted
<1>4. ASSUME NEW c \in Callers, Flush(c) \/ CloseFlush(c) PROVE Counted'
  BY <1>4, TakeAllCounts DEF Flush, CloseFlush
<1>5. ASSUME NEW e \in Edits, Enqueue(e) PROVE Counted'
  BY <1>1, <1>5 DEF Enqueue, procVars
<1>6. ASSUME NEW k \in Keys, NEW t \in Callbacks, Expire(k, t) PROVE Counted'
  BY <1>1, <1>6 DEF Expire
<1>7. ASSUME NEW p \in Procs, NEW k \in Keys, Lock(p, k) \/ Commit(p) PROVE Counted'
  BY <1>1, <1>7 DEF Lock, Commit, batchVars
<1>8. ASSUME NEW c \in Callers, WaitIdle(c) PROVE Counted'
  BY <1>1, <1>8 DEF WaitIdle, batchVars
<1>9. ASSUME NEW c \in Closers, Close(c) \/ WaitTimers(c) PROVE Counted'
  BY <1>1, <1>9 DEF Close, WaitTimers, batchVars
<1>10. CASE Ended \/ UNCHANGED vars
  BY <1>1, <1>10 DEF Ended, vars, procVars, batchVars
<1>11. ASSUME NEW p \in Procs, Commit(p) PROVE Counted'
  BY <1>1, <1>11 DEF Commit, batchVars
<1> QED
  BY <1>0, <1>2, <1>3, <1>4, <1>5, <1>6, <1>7, <1>8, <1>9, <1>10, <1>11 DEF Next, Run

-----------------------------------------------------------------------------
(* What became of each edit.                                               *)

LEMMA FollowedKeeps == IInv /\ [Next]_vars => Followed'
<1> SUFFICES ASSUME IInv, [Next]_vars PROVE Followed'
  OBVIOUS
<1>0. /\ Placed /\ Procs = Callbacks \cup Callers /\ KeyOf \in [Edits -> Keys]
      /\ Closers \subseteq Callers
      /\ pc \in [Procs -> Places] /\ current \in [Procs -> Keys]
      /\ taken \in [Procs -> [Keys -> SUBSET Edits]] /\ due \in [Callers -> SUBSET Edits]
      /\ pending \in [Keys -> BatchType]
      /\ fate \in [Edits -> {"none", "accepted", "refused", "done"}]
      /\ \A k \in Keys : pending[k].edits \in SUBSET Edits
  BY CommitterAssumption, BatchUpdates DEF IInv, Procs, TypeOK, Places
<1>a. /\ \A p \in Procs : Finishing(p) => \A e \in taken[p][current[p]] : fate[e] = "done"
      /\ \A e \in Edits : fate[e] = "accepted" =>
            \/ \E k \in Keys : e \in pending[k].edits
            \/ \E p \in Procs, k \in Keys : e \in taken[p][k]
      /\ \A c \in Callers : \A e \in due[c] :
            fate[e] = "done" \/ \E p \in Procs, k \in Keys : e \in taken[p][k]
  BY DEF IInv, Followed, Finished, Waiting, Promised, Held
<1> USE DEF Followed, Finished, Waiting, Promised, Held
<1>1. ASSUME NEW e \in Edits, Enqueue(e) PROVE Followed'
  <2>1. UNCHANGED <<pc, taken, current, due>> /\ fate[e] = "none"
    BY <1>1 DEF Enqueue, procVars
  <2>2. /\ \A f \in Edits \ {e} : fate'[f] = fate[f]
        /\ fate'[e] = "accepted" =>
              /\ e \in pending'[KeyOf[e]].edits
        /\ \A k \in Keys : pending[k].edits \subseteq pending'[k].edits
    <3>1. CASE closed
      BY <1>0, <1>1, <3>1 DEF Enqueue
    <3>2. CASE ~closed
      <4>1. PICK k \in Keys : k = KeyOf[e]
        BY <1>0
      <4>2. PICK b : /\ pending' = [pending EXCEPT ![k] = Joined(b, e)]
                     /\ k \in Open => b = pending[k]
                     /\ k \notin Open => b = [NoBatch EXCEPT !.number = made'[k]]
        BY <1>1, <3>2, <4>1 DEF Enqueue
      <4>3. b \in BatchType \/ b.edits = {}
        BY <1>0, <4>2 DEF NoBatch
      <4>4. Joined(b, e).edits = b.edits \cup {e}
        <5>1. CASE k \in Open
          BY <1>0, <4>2, <5>1 DEF Joined, BatchType
        <5>2. CASE k \notin Open
          BY <4>2, <5>2 DEF Joined, NoBatch
        <5> QED
          BY <5>1, <5>2
      <4>5. pending[k].edits \subseteq b.edits
        BY <4>2 DEF Open
      <4>6. fate' = [fate EXCEPT ![e] = "accepted"]
        BY <1>1, <3>2 DEF Enqueue
      <4> QED
        BY <1>0, <4>1, <4>2, <4>4, <4>5, <4>6
    <3> QED
      BY <3>1, <3>2
  <2>3. Finished'
    BY <1>0, <1>a, <2>1, <2>2 DEF Finishing
  <2>4. Waiting'
    BY <1>0, <1>a, <2>1, <2>2
  <2>5. Promised'
    BY <1>0, <1>a, <2>1, <2>2
  <2> QED
    BY <2>3, <2>4, <2>5
<1>2. ASSUME NEW k \in Keys, NEW t \in Callbacks, Expire(k, t) PROVE Followed'
  <2>1. /\ UNCHANGED <<taken, current, due, fate>> /\ pc' = [pc EXCEPT ![t] = "fire"]
        /\ \A j \in Keys : pending'[j].edits = pending[j].edits
    BY <1>0, <1>2 DEF Expire, Goto, histVars, BatchType
  <2>2. \A q \in Procs : Finishing(q)' => Finishing(q)
    BY <1>0, <2>1 DEF Finishing
  <2>3. Finished'
    BY <1>a, <2>1, <2>2
  <2>4. Waiting'
    BY <1>a, <2>1
  <2>5. Promised'
    BY <1>a, <2>1
  <2> QED
    BY <2>3, <2>4, <2>5
<1>3. ASSUME NEW t \in Callbacks, Fire(t) PROVE Followed'
  <2>1. PICK k \in Keys : k = fired[t].key
    BY DEF IInv, TypeOK
  <2>2. UNCHANGED <<current, due, fate>> /\ pc[t] = "fire"
    BY <1>3 DEF Fire, histVars
  <2>3. CASE IsCurrent(fired[t])
    <3>1. /\ pc' = [pc EXCEPT ![t] = "commit"]
          /\ taken' = [taken EXCEPT ![t] = [taken[t] EXCEPT ![k] = pending[k].edits]]
          /\ pending' = [pending EXCEPT ![k] = NoBatch]
      BY <1>3, <2>1, <2>3 DEF Fire, Goto
    <3>2. taken[t][k] = {}
      BY <1>0, <2>1, <2>2 DEF Placed
    <3>3. /\ taken'[t][k] = pending[k].edits
          /\ \A p \in Procs, j \in Keys : taken[p][j] \subseteq taken'[p][j]
          /\ \A p \in Procs \ {t} : taken'[p] = taken[p]
          /\ \A j \in Keys \ {k} : pending'[j] = pending[j]
      BY <1>0, <3>1, <3>2
    <3>4. Finished'
      BY <1>0, <1>a, <2>2, <3>1, <3>3 DEF Finishing
    <3>5. Waiting'
      <4>1. ASSUME NEW e \in Edits, NEW j \in Keys, e \in pending[j].edits
            PROVE  e \in pending'[j].edits \/ e \in taken'[t][j]
        BY <3>3, <4>1
      <4>2. ASSUME NEW e \in Edits, NEW p \in Procs, NEW j \in Keys, e \in taken[p][j]
            PROVE  e \in taken'[p][j]
        BY <3>3, <4>2
      <4>3. t \in Procs
        BY <1>0
      <4> QED
        BY <1>a, <2>2, <4>1, <4>2, <4>3
    <3>6. Promised'
      BY <1>0, <1>a, <2>2, <3>3
    <3> QED
      BY <3>4, <3>5, <3>6
  <2>4. CASE ~IsCurrent(fired[t])
    <3>1. pc' = [pc EXCEPT ![t] = "idle"] /\ UNCHANGED <<taken, pending>>
      BY <1>3, <2>4 DEF Fire, Goto
    <3> QED
      BY <1>0, <1>a, <2>2, <3>1 DEF Finishing
  <2> QED
    BY <2>3, <2>4
<1>4. ASSUME NEW p \in Procs, NEW k \in Keys, Lock(p, k) PROVE Followed'
  <2>1. /\ pc' = [pc EXCEPT ![p] = IF pc[p] = "commit" THEN "write" ELSE "closingWrite"]
        /\ current' = [current EXCEPT ![p] = k] /\ UNCHANGED <<pending, taken, due, fate>>
    BY <1>4 DEF Lock, Goto, batchVars, histVars
  <2> QED
    BY <1>0, <1>a, <2>1 DEF Finishing
<1>5. ASSUME NEW p \in Procs, Commit(p) PROVE Followed'
  <2>1. /\ pc' = [pc EXCEPT ![p] = IF pc[p] = "write" THEN "finish" ELSE "closingFinish"]
        /\ fate' = [e \in Edits |-> IF e \in taken[p][current[p]] THEN "done" ELSE fate[e]]
        /\ UNCHANGED <<pending, taken, current, due>>
    BY <1>5 DEF Commit, Goto, batchVars
  <2>2. /\ \A e \in Edits : fate[e] = "done" => fate'[e] = "done"
        /\ \A e \in Edits : fate'[e] = "accepted" => fate[e] = "accepted"
        /\ \A e \in taken[p][current[p]] : fate'[e] = "done"
    BY <1>0, <2>1
  <2>3. Finished'
    BY <1>0, <1>a, <2>1, <2>2 DEF Finishing
  <2>4. Waiting'
    BY <1>0, <1>a, <2>1, <2>2
  <2>5. Promised'
    BY <1>0, <1>a, <2>1, <2>2
  <2> QED
    BY <2>3, <2>4, <2>5
<1>6. ASSUME NEW p \in Procs, FinishCommit(p) PROVE Followed'
  <2>1. /\ Finishing(p) /\ UNCHANGED <<pending, current, due, fate>>
        /\ taken' = [taken EXCEPT ![p] = [taken[p] EXCEPT ![current[p]] = {}]]
    BY <1>6 DEF FinishCommit, Finishing, histVars
  <2>2. \A q \in Procs : Finishing(q)' => Finishing(q) /\ q # p
    BY <1>0, <1>6 DEF FinishCommit, Goto, Finishing
  <2>3. \A q \in Procs, k \in Keys : \A e \in taken[q][k] :
           fate[e] = "done" \/ e \in taken'[q][k]
    BY <1>0, <1>a, <2>1
  <2>4. \A q \in Procs, k \in Keys : q # p => taken'[q] = taken[q]
    BY <1>0, <2>1
  <2>5. Finished'
    BY <1>0, <1>a, <2>1, <2>2, <2>4
  <2>6. Waiting'
    BY <1>0, <1>a, <2>1, <2>3
  <2>7. Promised'
    BY <1>0, <1>a, <2>1, <2>3
  <2> QED
    BY <2>5, <2>6, <2>7
<1>7. ASSUME NEW c \in Callers, Flush(c) \/ CloseFlush(c) PROVE Followed'
  <2>1. /\ pc[c] \in {"idle", "close"} /\ c \in Procs
        /\ \/ pc' = [pc EXCEPT ![c] = "commit"]
           \/ pc' = [pc EXCEPT ![c] = "closingCommit"]
        /\ taken' = [taken EXCEPT ![c] = [k \in Keys |-> pending[k].edits]]
        /\ due' = [due EXCEPT ![c] = {e \in Edits : fate[e] \in {"accepted", "done"}}]
        /\ UNCHANGED <<current, fate>>
    BY <1>0, <1>7 DEF Flush, CloseFlush, TakeAll, Goto
  <2>2. /\ \A k \in Keys : taken[c][k] = {} /\ taken'[c][k] = pending[k].edits
        /\ \A p \in Procs, k \in Keys : taken[p][k] \subseteq taken'[p][k]
        /\ \A p \in Procs \ {c} : taken'[p] = taken[p]
    BY <1>0, <2>1 DEF Placed
  <2>3. \A q \in Procs : Finishing(q)' => Finishing(q) /\ q # c
    BY <1>0, <2>1 DEF Finishing
  <2>4. \A e \in Edits : fate[e] = "accepted" => \E p \in Procs, k \in Keys : e \in taken'[p][k]
    <3>1. ASSUME NEW e \in Edits, NEW p \in Procs, NEW k \in Keys, e \in taken[p][k]
          PROVE  e \in taken'[p][k]
      BY <2>2, <3>1
    <3>2. ASSUME NEW e \in Edits, NEW k \in Keys, e \in pending[k].edits
          PROVE  e \in taken'[c][k]
      BY <2>2, <3>2
    <3> QED
      BY <1>a, <2>1, <3>1, <3>2
  <2>5. Finished'
    BY <1>0, <1>a, <2>1, <2>2, <2>3
  <2>6. Waiting'
    BY <2>1, <2>4
  <2>7. Promised'
    <3>1. ASSUME NEW d \in Callers, NEW e \in due'[d]
          PROVE  fate'[e] = "done" \/ \E p \in Procs, k \in Keys : e \in taken'[p][k]
      <4>1. CASE d = c
        BY <1>0, <2>1, <2>4, <3>1, <4>1
      <4>2. CASE d # c
        BY <1>0, <1>a, <2>1, <2>2, <3>1, <4>2
      <4> QED
        BY <4>1, <4>2
    <3> QED
      BY <3>1
  <2> QED
    BY <2>5, <2>6, <2>7
<1>8. ASSUME NEW c \in Callers, WaitIdle(c) PROVE Followed'
  <2>1. /\ pc' = [pc EXCEPT ![c] = IF pc[c] = "commit" THEN "idle" ELSE "wait"]
        /\ UNCHANGED <<pending, taken, current, due, fate>>
    BY <1>8 DEF WaitIdle, Goto, batchVars, histVars
  <2> QED
    BY <1>0, <1>a, <2>1 DEF Finishing
<1>9. ASSUME NEW c \in Closers, Close(c) \/ WaitTimers(c) PROVE Followed'
  <2>1. /\ \/ pc' = [pc EXCEPT ![c] = "closingCommit"]
           \/ pc' = [pc EXCEPT ![c] = "close"]
           \/ pc' = [pc EXCEPT ![c] = "closed"]
        /\ UNCHANGED <<pending, taken, current, due, fate>>
    BY <1>0, <1>9 DEF Close, WaitTimers, Goto, batchVars, histVars
  <2>2. \A q \in Procs : Finishing(q)' => Finishing(q)
    BY <1>0, <2>1 DEF Finishing
  <2> QED
    BY <1>0, <1>a, <2>1, <2>2
<1>10. CASE Ended \/ UNCHANGED vars
  <2>1. UNCHANGED <<pending, pc, taken, current, due, fate>>
    BY <1>10 DEF Ended, vars, procVars, batchVars, histVars
  <2> QED
    BY <1>a, <2>1 DEF Finishing
<1> QED
  BY <1>0, <1>1, <1>2, <1>3, <1>4, <1>5, <1>6, <1>7, <1>8, <1>9, <1>10 DEF Next, Run

-----------------------------------------------------------------------------
(* Timers that lost their batch.                                           *)

LEMMA StampedKeeps == IInv /\ [Next]_vars => Stamped'
<1> SUFFICES ASSUME IInv, [Next]_vars PROVE Stamped'
  OBVIOUS
<1>0. /\ Placed /\ Procs = Callbacks \cup Callers /\ Callbacks \cap Callers = {}
      /\ KeyOf \in [Edits -> Keys] /\ Closers \subseteq Callers
      /\ pc \in [Procs -> Places] /\ made \in [Keys -> Nat]
      /\ pending \in [Keys -> BatchType]
      /\ fired \in [Callbacks -> [key: Keys, number: Nat, armed: Nat]]
      /\ \A k \in Keys : pending[k].number \in Nat /\ pending[k].armed \in Nat
  BY CommitterAssumption, BatchUpdates DEF IInv, Procs, TypeOK, Places
<1>1. ASSUME NEW e \in Edits, Enqueue(e) PROVE Stamped'
  <2>1. UNCHANGED <<pc, fired>>
    BY <1>1 DEF Enqueue, procVars
  <2>2. CASE closed
    BY <1>1, <2>1, <2>2 DEF Enqueue, IInv, Stamped
  <2>3. CASE ~closed
    <3>1. PICK k \in Keys : k = KeyOf[e]
      BY <1>0
    <3>2. CASE k \in Open
      <4>1. made' = made /\ pending' = [pending EXCEPT ![k] = Joined(pending[k], e)]
        BY <1>1, <2>3, <3>1, <3>2 DEF Enqueue
      <4>2. /\ pending'[k].number = pending[k].number
            /\ pending'[k].armed = pending[k].armed + 1
            /\ pending[k].edits # {}
            /\ \A j \in Keys \ {k} : pending'[j] = pending[j]
        BY <1>0, <3>2, <4>1 DEF Joined, BatchType, Open
      <4> QED
        BY <1>0, <2>1, <4>1, <4>2 DEF IInv, Stamped
    <3>3. CASE k \notin Open
      <4>1. /\ made' = [made EXCEPT ![k] = @ + 1]
            /\ pending' = [pending EXCEPT ![k] =
                              Joined([NoBatch EXCEPT !.number = made'[k]], e)]
        BY <1>1, <2>3, <3>1, <3>3 DEF Enqueue
      <4>2. /\ pending'[k].number = made[k] + 1
            /\ made'[k] = made[k] + 1
            /\ \A j \in Keys \ {k} : pending'[j] = pending[j] /\ made'[j] = made[j]
        BY <1>0, <4>1 DEF Joined, NoBatch
      <4> QED
        BY <1>0, <2>1, <4>2 DEF IInv, Stamped
    <3> QED
      BY <3>2, <3>3
  <2> QED
    BY <2>2, <2>3
<1>2. ASSUME NEW k \in Keys, NEW t \in Callbacks, Expire(k, t) PROVE Stamped'
  <2>1. /\ pc' = [pc EXCEPT ![t] = "fire"] /\ made' = made
        /\ pending' = [pending EXCEPT ![k] = [pending[k] EXCEPT !.timer = FALSE]]
        /\ fired' = [fired EXCEPT ![t] = [key |-> k, number |-> pending[k].number,
                                          armed |-> pending[k].armed]]
    BY <1>2 DEF Expire, Goto
  <2>2. /\ \A j \in Keys : /\ pending'[j].edits = pending[j].edits
                           /\ pending'[j].number = pending[j].number
                           /\ pending'[j].armed = pending[j].armed
                           /\ pending'[j].timer => pending[j].timer
        /\ ~pending'[k].timer
    BY <1>0, <2>1 DEF BatchType
  <2>3. \A s \in Callbacks \ {t} : fired'[s] = fired[s] /\ pc'[s] = pc[s]
    BY <1>0, <2>1
  <2>4. /\ fired'[t].key = k /\ fired'[t].number = pending[k].number
        /\ fired'[t].armed = pending[k].armed
    BY <1>0, <2>1
  <2>5. ASSUME NEW s \in Callbacks, pc'[s] = "fire"
        PROVE  LET f == fired'[s] IN
               /\ f.number <= made[f.key]
               /\ pending'[f.key].edits # {} /\ pending'[f.key].number = f.number =>
                     /\ f.armed <= pending'[f.key].armed
                     /\ f.armed = pending'[f.key].armed => ~pending'[f.key].timer
    <3>1. CASE s = t
      BY <1>0, <2>2, <2>4, <3>1 DEF IInv, Stamped
    <3>2. CASE s # t
      BY <1>0, <2>2, <2>3, <2>5, <3>2 DEF IInv, Stamped
    <3> QED
      BY <3>1, <3>2
  <2> QED
    BY <2>1, <2>2, <2>5 DEF IInv, Stamped
<1>3. ASSUME UNCHANGED <<made, fired>>,
             \A t \in Callbacks : pc'[t] = "fire" => pc[t] = "fire",
             \A k \in Keys : pending'[k] = pending[k] \/ pending'[k] = NoBatch
      PROVE  Stamped'
  BY <1>0, <1>3 DEF IInv, Stamped, NoBatch
<1>4. ASSUME NEW t \in Callbacks, Fire(t) PROVE Stamped'
  <2>1. /\ UNCHANGED <<made, fired>>
        /\ \/ pc' = [pc EXCEPT ![t] = "commit"]
           \/ pc' = [pc EXCEPT ![t] = "idle"]
        /\ pending' = pending \/ pending' = [pending EXCEPT ![fired[t].key] = NoBatch]
    BY <1>4 DEF Fire, Goto
  <2> QED
    BY <1>0, <1>3, <2>1
<1>5. ASSUME NEW p \in Procs, NEW there, Goto(p, there), there # "fire",
             UNCHANGED <<made, fired, pending>>
      PROVE  Stamped'
  BY <1>0, <1>3, <1>5 DEF Goto
<1>6. ASSUME NEW p \in Procs, NEW k \in Keys, Lock(p, k) PROVE Stamped'
  BY <1>5, <1>6 DEF Lock, batchVars
<1>7. ASSUME NEW p \in Procs, Commit(p) \/ FinishCommit(p) PROVE Stamped'
  BY <1>5, <1>7 DEF Commit, FinishCommit, batchVars
<1>8. ASSUME NEW c \in Callers, Flush(c) \/ CloseFlush(c) PROVE Stamped'
  <2>1. /\ UNCHANGED <<made, fired>> /\ pending' = [k \in Keys |-> NoBatch]
        /\ \/ pc' = [pc EXCEPT ![c] = "commit"]
           \/ pc' = [pc EXCEPT ![c] = "closingCommit"]
    BY <1>8 DEF Flush, CloseFlush, TakeAll, Goto
  <2> QED
    BY <1>0, <1>3, <2>1
<1>9. ASSUME NEW c \in Callers, WaitIdle(c) PROVE Stamped'
  BY <1>0, <1>5, <1>9 DEF WaitIdle, batchVars
<1>10. ASSUME NEW c \in Closers, Close(c) \/ WaitTimers(c) PROVE Stamped'
  BY <1>0, <1>5, <1>10 DEF Close, WaitTimers, batchVars
<1>11. CASE Ended \/ UNCHANGED vars
  BY <1>3, <1>11 DEF Ended, vars, procVars, batchVars
<1> QED
  BY <1>0, <1>1, <1>2, <1>4, <1>6, <1>7, <1>8, <1>9, <1>10, <1>11 DEF Next, Run

-----------------------------------------------------------------------------
LEMMA IInvKeeps == IInv /\ [Next]_vars => IInv'
  BY TypeKeeps, LockedKeeps, PlacedKeeps, CountedKeeps, FollowedKeeps, StampedKeeps DEF IInv

LEMMA IInvHolds == Spec => []IInv
  BY InitHolds, IInvKeeps, PTL DEF Spec

(* Every reachable state of the committer has the types of TypeOK, for any *)
(* number of edits, items, repositories and goroutines.                    *)
THEOREM CommitterTypeOK == Spec => []TypeOK
<1>1. IInv => TypeOK
  BY DEF IInv
<1> QED
  BY <1>1, IInvHolds, PTL

(* Timers, Flush and Close never run two commits in one repository at the  *)
(* same time (repoLocks).                                                  *)
THEOREM CommitterSerialises == Spec => []OneCommitPerRepo
<1>1. IInv => OneCommitPerRepo
  BY DEF IInv, Locked, Writing, OneCommitPerRepo
<1> QED
  BY <1>1, IInvHolds, PTL

(* The callback of a timer that was armed again commits nothing            *)
(* (fire compares the batch and its count of armings).                     *)
THEOREM CommitterDebounces == Spec => DebounceHonoured
<1>1. ASSUME IInv, [Next]_vars, NEW t \in Callbacks, pc[t] = "fire", pc'[t] = "commit"
      PROVE  ~pending[fired[t].key].timer
  <2>0. /\ Procs = Callbacks \cup Callers /\ Callbacks \cap Callers = {}
        /\ Closers \subseteq Callers /\ pc \in [Procs -> Places]
    BY <1>1, CommitterAssumption DEF IInv, Procs, TypeOK, Places
  <2>1. Fire(t)
    <3>1. ASSUME NEW p \in Procs, NEW there, Goto(p, there), pc[p] # "fire" PROVE p # t /\ FALSE
      BY <1>1, <2>0, <3>1 DEF Goto
    <3>2. ~UNCHANGED pc
      BY <1>1
    <3>3. ASSUME NEW e \in Edits, Enqueue(e) PROVE FALSE
      BY <3>2, <3>3 DEF Enqueue, procVars
    <3>4. ASSUME NEW k \in Keys, NEW s \in Callbacks, Expire(k, s) PROVE FALSE
      BY <2>0, <3>1, <3>4 DEF Expire
    <3>5. ASSUME NEW s \in Callbacks, Fire(s) PROVE s = t
      BY <1>1, <2>0, <3>5 DEF Fire, Goto
    <3>6. ASSUME NEW p \in Procs, Run(p) PROVE FALSE
      BY <3>1, <3>6 DEF Run, Lock, Commit, FinishCommit
    <3>7. ASSUME NEW c \in Callers, Flush(c) \/ WaitIdle(c) \/ CloseFlush(c) PROVE FALSE
      BY <2>0, <3>1, <3>7 DEF Flush, WaitIdle, CloseFlush
    <3>8. ASSUME NEW c \in Closers, Close(c) \/ WaitTimers(c) PROVE FALSE
      BY <2>0, <3>1, <3>8 DEF Close, WaitTimers
    <3>9. ~Ended /\ ~UNCHANGED vars
      BY <3>2 DEF Ended, vars, procVars
    <3> QED
      BY <1>1, <2>0, <3>3, <3>4, <3>5, <3>6, <3>7, <3>8, <3>9 DEF Next
  <2>2. IsCurrent(fired[t])
    BY <1>1, <2>0, <2>1 DEF Fire, Goto
  <2> QED
    BY <1>1, <2>2 DEF IInv, Stamped, IsCurrent
<1>2. IInv /\ [Next]_vars =>
         [\A t \in Callbacks : pc[t] = "fire" /\ pc'[t] = "commit" =>
              ~pending[fired[t].key].timer]_vars
  BY <1>1
<1> QED
  BY <1>2, IInvHolds, PTL DEF Spec, DebounceHonoured

(* With inflight at zero nobody has a batch in hand.                       *)
LEMMA NothingInFlight ==
    ASSUME IInv, inflight = 0
    PROVE  /\ \A p \in Procs, k \in Keys : taken[p][k] = {}
           /\ \A p \in Procs : ~Writing(p) /\ ~Finishing(p)
<1>1. InHand = {}
  BY InHandFinite, FS_EmptySet DEF IInv, Counted
<1>2. ASSUME NEW p \in Procs, NEW k \in Keys PROVE taken[p][k] = {}
  <2>1. <<p, k>> \notin InHand /\ <<p, k>> \in Procs \X Keys
    BY <1>1
  <2> QED
    BY <2>1 DEF InHand
<1> QED
  BY <1>2 DEF IInv, Placed, TypeOK

(* Flush returns when every edit that was accepted before it is committed, *)
(* whoever committed it, and nothing is being written (waitIdle).          *)
THEOREM CommitterFlushes == Spec => FlushCommits
<1>1. ASSUME IInv, [Next]_vars, NEW c \in Callers,
             pc[c] \in {"commit", "closingCommit"}, pc'[c] \in {"idle", "wait"}
      PROVE  /\ \A e \in due[c] : fate[e] = "done"
             /\ \A p \in Procs : pc[p] \notin {"write", "closingWrite"}
  <2>0. /\ Procs = Callbacks \cup Callers /\ Callbacks \cap Callers = {}
        /\ Closers \subseteq Callers /\ pc \in [Procs -> Places]
    BY <1>1, CommitterAssumption DEF IInv, Procs, TypeOK, Places
  <2>1. WaitIdle(c)
    <3>1. ~UNCHANGED pc
      BY <1>1
    <3>2. ASSUME NEW p \in Procs, NEW there, Goto(p, there),
                 p \in Callbacks \/ there \notin {"idle", "wait"} PROVE FALSE
      BY <1>1, <2>0, <3>2 DEF Goto
    <3>3. ASSUME NEW e \in Edits, Enqueue(e) PROVE FALSE
      BY <3>1, <3>3 DEF Enqueue, procVars
    <3>4. ASSUME NEW k \in Keys, NEW t \in Callbacks, Expire(k, t) \/ Fire(t) PROVE FALSE
      BY <2>0, <3>2, <3>4 DEF Expire, Fire
    <3>5. ASSUME NEW t \in Callbacks, Fire(t) PROVE FALSE
      BY <2>0, <3>2, <3>5 DEF Fire
    <3>6. ASSUME NEW p \in Procs, Run(p) PROVE FALSE
      BY <3>2, <3>6 DEF Run, Lock, Commit, FinishCommit
    <3>7. ASSUME NEW d \in Callers, Flush(d) \/ CloseFlush(d) PROVE FALSE
      BY <2>0, <3>2, <3>7 DEF Flush, CloseFlush
    <3>8. ASSUME NEW d \in Callers, WaitIdle(d) PROVE d = c
      BY <1>1, <2>0, <3>8 DEF WaitIdle, Goto
    <3>9. ASSUME NEW d \in Closers, Close(d) \/ WaitTimers(d) PROVE FALSE
      BY <2>0, <3>2, <3>9 DEF Close, WaitTimers
    <3>10. ~Ended /\ ~UNCHANGED vars
      BY <3>1 DEF Ended, vars, procVars
    <3> QED
      BY <1>1, <2>0, <3>3, <3>4, <3>5, <3>6, <3>7, <3>8, <3>9, <3>10 DEF Next
  <2>2. inflight = 0
    BY <2>1 DEF WaitIdle
  <2> QED
    BY <1>1, <2>2, NothingInFlight DEF IInv, Followed, Promised, Held, Writing
<1>2. IInv /\ [Next]_vars =>
         [\A c \in Callers :
             pc[c] \in {"commit", "closingCommit"} /\ pc'[c] \in {"idle", "wait"} =>
                 /\ \A e \in due[c] : fate[e] = "done"
                 /\ \A p \in Procs : pc[p] \notin {"write", "closingWrite"}]_vars
  BY <1>1
<1> QED
  BY <1>2, IInvHolds, PTL DEF Spec, FlushCommits

-----------------------------------------------------------------------------
(* Close, when one goroutine closes.  serve calls Close once; what a second*)
(* call may see is another matter.                                         *)

LEMMA QuietedKeeps ==
    ASSUME \A c, d \in Closers : c = d, IInv, Quieted, [Next]_vars PROVE Quieted'
<1>0. /\ Placed /\ Procs = Callbacks \cup Callers /\ Callbacks \cap Callers = {}
      /\ Closers \subseteq Callers /\ pc \in [Procs -> Places]
      /\ \A k \in Keys : NoBatch.edits = {} /\ NoBatch.timer = FALSE
  BY CommitterAssumption DEF IInv, Procs, TypeOK, Places, NoBatch
<1>a. \A c \in Callers : pc[c] \in {"wait", "closed"} => ~\E p \in Procs : Finishing(p)
  BY NothingInFlight DEF Quieted
<1> USE DEF Quieted, Closing
<1>1. ASSUME UNCHANGED <<pc, pending, inflight, closed>> PROVE Quieted'
  BY <1>1 DEF Emptied
<1>2. ASSUME NEW e \in Edits, Enqueue(e) PROVE Quieted'
  <2>1. UNCHANGED <<pc, inflight, closed>>
    BY <1>2 DEF Enqueue, procVars
  <2>2. CASE closed
    BY <1>1, <1>2, <2>1, <2>2 DEF Enqueue
  <2>3. CASE ~closed
    <3>1. \A c \in Callers : ~(Closing(c) \/ pc[c] = "close")
      BY <2>3
    <3> QED
      BY <2>1, <2>3, <3>1
  <2> QED
    BY <2>2, <2>3
<1>3. ASSUME NEW k \in Keys, NEW t \in Callbacks, Expire(k, t) PROVE Quieted'
  <2>1. /\ pc' = [pc EXCEPT ![t] = "fire"] /\ UNCHANGED <<inflight, closed>>
        /\ pending[k].timer
    BY <1>3 DEF Expire, Goto
  <2>2. ~Emptied
    BY <1>0, <2>1 DEF Emptied
  <2>3. \A c \in Callers : pc'[c] = pc[c] /\ ~Closing(c)
    BY <1>0, <2>1, <2>2
  <2> QED
    BY <1>0, <2>1, <2>2, <2>3
<1>4. ASSUME NEW t \in Callbacks, Fire(t) PROVE Quieted'
  <2>1. \A c \in Callers : pc'[c] = pc[c]
    BY <1>0, <1>4 DEF Fire, Goto
  <2>2. closed' = closed
    BY <1>4 DEF Fire
  <2>3. CASE IsCurrent(fired[t])
    <3>1. ~Emptied
      BY <1>0, <2>3 DEF Emptied, IsCurrent, IInv, TypeOK
    <3>2. \A c \in Callers : ~Closing(c)
      BY <3>1
    <3> QED
      BY <1>0, <2>1, <2>2, <3>2
  <2>4. CASE ~IsCurrent(fired[t])
    <3>1. pc' = [pc EXCEPT ![t] = "idle"] /\ UNCHANGED <<pending, inflight>>
      BY <1>4, <2>4 DEF Fire, Goto
    <3> QED
      BY <1>0, <2>1, <2>2, <3>1 DEF Emptied
  <2> QED
    BY <2>3, <2>4
<1>5. ASSUME NEW p \in Procs, (\E k \in Keys : Lock(p, k)) \/ Commit(p) PROVE Quieted'
  <2>1. /\ UNCHANGED <<pending, inflight, closed>>
        /\ pc[p] \in {"commit", "closingCommit", "write", "closingWrite"}
        /\ pc' = [pc EXCEPT ![p] = CASE pc[p] = "commit" -> "write"
                                     [] pc[p] = "closingCommit" -> "closingWrite"
                                     [] pc[p] = "write" -> "finish"
                                     [] pc[p] = "closingWrite" -> "closingFinish"]
    BY <1>5 DEF Lock, Commit, Goto, batchVars
  <2> QED
    BY <1>0, <2>1 DEF Emptied
<1>6. ASSUME NEW p \in Procs, FinishCommit(p) PROVE Quieted'
  <2>1. /\ UNCHANGED <<pending, closed>> /\ pc[p] \in {"finish", "closingFinish"}
        /\ pc' = [pc EXCEPT ![p] = IF p \in Callbacks THEN "idle"
                                   ELSE IF pc[p] = "finish" THEN "commit" ELSE "closingCommit"]
    BY <1>6 DEF FinishCommit, Goto
  <2>2. \A c \in Callers : pc[c] \notin {"wait", "closed"}
    BY <1>a, <2>1 DEF Finishing
  <2> QED
    BY <1>0, <2>1, <2>2 DEF Emptied
<1>7. ASSUME NEW c \in Callers, Flush(c) \/ (c \in Closers /\ CloseFlush(c)) PROVE Quieted'
  <2>1. /\ Emptied' /\ closed' = closed /\ inflight' = inflight + Cardinality(Open)
        /\ \/ pc[c] = "idle" /\ pc' = [pc EXCEPT ![c] = "commit"]
           \/ pc[c] = "close" /\ pc' = [pc EXCEPT ![c] = "closingCommit"]
    BY <1>7 DEF Flush, CloseFlush, TakeAll, Goto, Emptied
  <2>2. ASSUME NEW d \in Callers, pc[d] \in {"wait", "closed"} PROVE inflight' = 0
    <3>1. Emptied /\ inflight = 0
      BY <2>2
    <3>2. Open = {}
      BY <1>0, <3>1 DEF Open, Emptied
    <3> QED
      BY <2>1, <3>1, <3>2, FS_EmptySet
  <2> QED
    BY <1>0, <2>1, <2>2
<1>8. ASSUME NEW c \in Callers, WaitIdle(c) PROVE Quieted'
  <2>1. /\ UNCHANGED <<pending, inflight, closed>> /\ inflight = 0
        /\ pc[c] \in {"commit", "closingCommit"}
        /\ pc' = [pc EXCEPT ![c] = IF pc[c] = "commit" THEN "idle" ELSE "wait"]
    BY <1>8 DEF WaitIdle, Goto, batchVars
  <2> QED
    BY <1>0, <2>1 DEF Emptied
<1>9. ASSUME NEW c \in Closers, Close(c) PROVE Quieted'
  <2>1. pc[c] = "idle" /\ UNCHANGED <<pending, inflight>> /\ closed'
        /\ pc' = [pc EXCEPT ![c] = IF closed THEN "closingCommit" ELSE "close"]
    BY <1>9 DEF Close, Goto
  <2>2. ~closed
    BY <1>0, <2>1
  <2> QED
    BY <1>0, <2>1, <2>2 DEF Emptied
<1>10. ASSUME NEW c \in Closers, WaitTimers(c) PROVE Quieted'
  <2>1. /\ pc[c] = "wait" /\ UNCHANGED <<pending, inflight, closed>> /\ TimersGone
        /\ pc' = [pc EXCEPT ![c] = "closed"]
    BY <1>10 DEF WaitTimers, Goto, batchVars
  <2> QED
    BY <1>0, <2>1 DEF Emptied, TimersGone
<1>11. CASE Ended \/ UNCHANGED vars
  BY <1>1, <1>11 DEF Ended, vars, procVars, batchVars
<1> QED
  BY <1>0, <1>2, <1>3, <1>4, <1>5, <1>6, <1>7, <1>8, <1>9, <1>10, <1>11 DEF Next, Run

(* When one goroutine closes the committer and its Close has returned, no  *)
(* timer is left, nothing is pending or in flight and no repository is     *)
(* locked, so the process may exit (Committer.Close).                      *)
THEOREM CommitterClosesQuietly ==
    ASSUME \A c, d \in Closers : c = d
    PROVE  Spec => []CloseIsQuiet
<1>1. Spec => [](IInv /\ Quieted)
  <2>1. IInv /\ Quieted /\ [Next]_vars => Quieted'
    BY QuietedKeeps
  <2> QED
    BY <2>1, InitHolds, IInvKeeps, PTL DEF Spec
<1>2. IInv /\ Quieted => CloseIsQuiet
  <2> SUFFICES ASSUME IInv, Quieted, NEW c \in Closers, pc[c] = "closed"
               PROVE  /\ TimersGone /\ Open = {} /\ inflight = 0
                      /\ \A r \in Repos : holder[r] = NoOne
    BY DEF CloseIsQuiet
  <2>1. Emptied /\ inflight = 0 /\ \A t \in Callbacks : pc[t] = "idle"
    BY CommitterAssumption DEF Quieted, Closing
  <2>2. TimersGone /\ Open = {}
    BY <2>1 DEF Emptied, NoBatch, TimersGone, Open
  <2>3. \A r \in Repos : holder[r] = NoOne
    BY <2>1, NothingInFlight DEF IInv, Locked, TypeOK
  <2> QED
    BY <2>1, <2>2, <2>3
<1> QED
  BY <1>1, <1>2, PTL
=============================================================================
