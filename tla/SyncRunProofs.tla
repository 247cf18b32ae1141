--------------------------- MODULE SyncRunProofs ---------------------------
(***************************************************************************)
(* Proofs about the sync run.                                              *)
(*                                                                         *)
(* NothingLost is not inductive: continuing a rebase replaces the branch   *)
(* by what was replayed, and aborting an integration forgets what is left  *)
(* to replay.  Backed says that neither loses anything: what is to be      *)
(* replayed is on the branch or the remote, and what is on the branch is,  *)
(* while a rebase is stopped, replayed, to be replayed or published.       *)
(*                                                                         *)
(* For ReportsAreTrue the invariant follows a run that is alone: nobody    *)
(* else moves the branch back (OnwardOnly), and what the run has counted   *)
(* so far the branch has moved since the preflight (Counting).             *)
(***************************************************************************)
EXTENDS SyncRun, FiniteSetTheorems, FunctionTheorems, SequenceTheorems, TLAPS

Places == {"idle", "flush", "preflight", "fetch", "status", "integrate", "classify", "reset",
           "ahead", "target", "send", "finish"}

Results == [phase : {"none", "done", "conflicts", "failed"}, pulled : Nat, pushed : Nat,
            retries : 0..MaxRetries, after : [ahead : Nat, behind : Nat]]

Opens == [op : {"none", "rebase", "merge"}, onto : Nat, done : Seq(Changes),
          todo : Seq(Changes), unmerged : SUBSET Paths]

GitInv == /\ remote \in Seq(Changes) /\ protected \in BOOLEAN /\ backend \in {"system", "go-git"}
          /\ tracked \in 0..Len(remote)
          /\ branch \in Branches /\ branch.base <= tracked
          /\ open \in Opens /\ open.onto <= tracked
          /\ open.op = "none" => open = Settled

TreeInv == /\ saved \subseteq Edits /\ dirty \subseteq saved /\ staged \subseteq dirty
           /\ queued \subseteq saved /\ stray \subseteq Paths

RunsInv == /\ pc \in [Runs -> Places] /\ opts \in [Runs -> Options] /\ result \in [Runs -> Results]
           /\ began \in [Runs -> Branches] /\ alone \in [Runs -> BOOLEAN]
           /\ \A r \in Runs : pc[r] = "idle" \/ result[r].phase = "none"

UsersInv == /\ at \in [Users -> {"idle", "write", "resume"}] /\ picked \in [Users -> SUBSET Paths]
            /\ calls \in [Runs \cup Users -> Nat]
            /\ \A u \in Users : (at[u] = "write") = (picked[u] # {})

TypeInv == GitInv /\ TreeInv /\ RunsInv /\ UsersInv

Backed == /\ Range(open.todo) \subseteq Range(branch.own) \cup Range(remote) \cup discarded
          /\ open.op = "rebase" => Range(branch.own) \ {Merge}
                                     \subseteq Range(remote) \cup Range(open.done) \cup Range(open.todo)
          /\ open.op = "merge" => open.done = <<>>

LossInv == Backed /\ NothingLost

OnwardOnly == /\ open.op # "none" => backend = "system"
              /\ \A r \in Runs : pc[r] = "reset" => backend = "go-git"
              /\ open.op = "rebase" => branch.base <= open.onto

(* What was on the branch of run r when it began and is not published.     *)
Unpublished(r) == Range(began[r].own) \ ({Merge} \cup Range(remote))

Moved(r) == began[r].base + result[r].pulled + result[r].pushed

(* A run that is alone, at each of its steps.                              *)
Counting(r) ==
    /\ Busy \subseteq {r} /\ \A u \in Users : at[u] = "idle"
    /\ pc[r] \in {"flush", "preflight"} => result[r].pulled = 0 /\ result[r].pushed = 0
    /\ pc[r] \notin {"flush", "preflight", "classify"} =>
         /\ open.op = "none" /\ Moved(r) <= branch.base
         /\ Unpublished(r) \subseteq Range(branch.own)
    /\ pc[r] \in {"integrate", "reset"} => result[r].after.behind = tracked - branch.base
    /\ pc[r] = "send" => result[r].after.ahead <= Len(branch.own)
    /\ pc[r] = "reset" \/ (pc[r] = "finish" /\ opts[r].push) => Unpublished(r) = {}

(* A run that is over and was alone.                                       *)
Reported(r) == result[r].phase = "done" =>
    /\ Moved(r) <= branch.base
    /\ opts[r].push /\ ~opts[r].dry => Unpublished(r) = {}

ReportInv == /\ OnwardOnly
             /\ \A r \in Runs : alone[r] => /\ pc[r] # "idle" => Counting(r)
                                            /\ pc[r] = "idle" => Reported(r)

-----------------------------------------------------------------------------
(* Sequences and the commits they hold.                                    *)
LEMMA EntriesAre ==
  ASSUME NEW S, NEW s \in Seq(S)
  PROVE  /\ DOMAIN s = 1..Len(s) /\ Len(s) \in Nat
         /\ \A i \in 1..Len(s) : s[i] \in S /\ s[i] \in Range(s)
         /\ Range(s) \subseteq S
         /\ Range(s) = {s[i] : i \in 1..Len(s)}
  BY DEF Range

LEMMA EmptyHasNone == <<>> \in Seq(Changes) /\ Range(<<>>) = {}
  BY DEF Range

LEMMA AppendHas ==
  ASSUME NEW S, NEW s \in Seq(S), NEW e \in S
  PROVE  Append(s, e) \in Seq(S) /\ Range(Append(s, e)) = Range(s) \cup {e}
<1>1. /\ Append(s, e) \in Seq(S) /\ Len(Append(s, e)) = Len(s) + 1
      /\ \A i \in 1..Len(s) : Append(s, e)[i] = s[i]
      /\ Append(s, e)[Len(s) + 1] = e
  BY AppendProperties
<1>2. Len(s) \in Nat /\ \A i \in 1..Len(s) + 1 : i \in 1..Len(s) \/ i = Len(s) + 1
  BY EntriesAre
<1>3. \A i \in 1..Len(s) + 1 : Append(s, e)[i] \in Range(s) \cup {e}
  BY <1>1, <1>2, EntriesAre
<1>4. \A i \in 1..Len(s) + 1 : Append(s, e)[i] \in Range(Append(s, e))
  BY <1>1, EntriesAre
<1>5. Range(Append(s, e)) \subseteq Range(s) \cup {e}
  <2>1. Range(Append(s, e)) = {Append(s, e)[i] : i \in 1..Len(s) + 1}
    BY <1>1, EntriesAre
  <2> QED
    BY <1>3, <2>1
<1>6. Range(s) \subseteq Range(Append(s, e))
  <2>1. \A i \in 1..Len(s) : i \in 1..Len(s) + 1
    BY <1>2
  <2>2. \A i \in 1..Len(s) : s[i] \in Range(Append(s, e))
    BY <1>1, <1>4, <2>1
  <2> QED
    BY <2>2, EntriesAre
<1>7. e \in Range(Append(s, e))
  BY <1>1, <1>2, <1>4
<1> QED
  BY <1>1, <1>5, <1>6, <1>7

LEMMA ConcatHas ==
  ASSUME NEW S, NEW s \in Seq(S), NEW t \in Seq(S)
  PROVE  /\ s \o t \in Seq(S) /\ Range(s \o t) = Range(s) \cup Range(t)
         /\ Len(s \o t) = Len(s) + Len(t)
         /\ IsPrefix(s, s \o t)
<1>1. /\ s \o t \in Seq(S) /\ Len(s \o t) = Len(s) + Len(t)
      /\ \A i \in 1..Len(s) + Len(t) : (s \o t)[i] = IF i <= Len(s) THEN s[i] ELSE t[i - Len(s)]
  BY ConcatProperties
<1>2. /\ \A i \in 1..Len(s) : i \in 1..Len(s) + Len(t)
      /\ \A i \in 1..Len(t) : i + Len(s) \in 1..Len(s) + Len(t) /\ ~(i + Len(s) <= Len(s))
      /\ \A i \in 1..Len(t) : (i + Len(s)) - Len(s) = i
      /\ \A i \in 1..Len(s) + Len(t) : i <= Len(s) => i \in 1..Len(s)
      /\ \A i \in 1..Len(s) + Len(t) : ~(i <= Len(s)) => i - Len(s) \in 1..Len(t)
  BY EntriesAre
<1>3. Range(s \o t) \subseteq Range(s) \cup Range(t)
  <2>1. Range(s \o t) = {(s \o t)[i] : i \in 1..Len(s) + Len(t)}
    BY <1>1, EntriesAre
  <2>2. ASSUME NEW i \in 1..Len(s) + Len(t) PROVE (s \o t)[i] \in Range(s) \cup Range(t)
    BY <1>1, <1>2, EntriesAre
  <2> QED
    BY <2>1, <2>2
<1>4. Range(s) \subseteq Range(s \o t)
  <2>1. \A i \in 1..Len(s) : (s \o t)[i] = s[i] /\ i \in 1..Len(s \o t)
    BY <1>1, <1>2
  <2>2. \A i \in 1..Len(s \o t) : (s \o t)[i] \in Range(s \o t)
    BY <1>1, EntriesAre
  <2>3. \A i \in 1..Len(s) : s[i] \in Range(s \o t)
    BY <2>1, <2>2
  <2> QED
    BY <2>3, EntriesAre
<1>5. Range(t) \subseteq Range(s \o t)
  <2>1. \A i \in 1..Len(t) : (s \o t)[i + Len(s)] = t[i] /\ i + Len(s) \in 1..Len(s \o t)
    BY <1>1, <1>2
  <2>2. \A i \in 1..Len(s \o t) : (s \o t)[i] \in Range(s \o t)
    BY <1>1, EntriesAre
  <2>3. \A i \in 1..Len(t) : t[i] \in Range(s \o t)
    BY <2>1, <2>2
  <2> QED
    BY <2>3, EntriesAre
<1>6. IsPrefix(s, s \o t)
  <2>1. SubSeq(s, 1, Len(s)) = s /\ SubSeq(s \o t, 1, Len(s)) = s
    BY <1>1, SubSeqProperties, ConcatProperties
  <2> QED
    BY <1>1, <2>1, EntriesAre DEF IsPrefix
<1> QED
  BY <1>1, <1>3, <1>4, <1>5, <1>6

LEMMA SplitHas ==
  ASSUME NEW S, NEW s \in Seq(S), NEW n \in 0..Len(s)
  PROVE  /\ SubSeq(s, 1, n) \in Seq(S) /\ SubSeq(s, n + 1, Len(s)) \in Seq(S)
         /\ Range(s) = Range(SubSeq(s, 1, n)) \cup Range(SubSeq(s, n + 1, Len(s)))
<1> DEFINE a == SubSeq(s, 1, n)
           b == SubSeq(s, n + 1, Len(s))
<1>0. Len(s) \in Nat /\ n \in Nat /\ n <= Len(s)
  BY EntriesAre
<1>1. a \in Seq(S) /\ Len(a) = n /\ \A i \in 1..n : a[i] = s[i]
  BY <1>0, SubSeqProperties
<1>2. b \in Seq(S) /\ Len(b) = Len(s) - n /\ \A i \in 1..Len(s) - n : b[i] = s[n + i]
  BY <1>0, SubSeqProperties
<1> HIDE DEF a, b
<1>3. Range(a) \subseteq Range(s)
  <2>1. \A i \in 1..n : i \in 1..Len(s)
    BY <1>0
  <2> QED
    BY <1>1, <2>1, EntriesAre
<1>4. Range(b) \subseteq Range(s)
  <2>1. \A i \in 1..Len(s) - n : n + i \in 1..Len(s)
    BY <1>0
  <2> QED
    BY <1>2, <2>1, EntriesAre
<1>5. Range(s) \subseteq Range(a) \cup Range(b)
  <2> SUFFICES ASSUME NEW i \in 1..Len(s) PROVE s[i] \in Range(a) \cup Range(b)
    BY EntriesAre
  <2>1. CASE i <= n
    <3>1. i \in 1..Len(a) /\ a[i] = s[i]
      BY <1>0, <1>1, <2>1
    <3> QED
      BY <1>1, <3>1, EntriesAre
  <2>2. CASE i > n
    <3>1. i - n \in 1..Len(b) /\ n + (i - n) = i
      BY <1>0, <1>2, <2>2
    <3>2. b[i - n] = s[i]
      BY <1>2, <3>1
    <3> QED
      BY <1>2, <3>1, <3>2, EntriesAre
  <2> QED
    BY <1>0, <2>1, <2>2
<1> QED
  BY <1>1, <1>2, <1>3, <1>4, <1>5 DEF a, b

(* A finite set of numbers has one at every place.                         *)
LEMMA NthIs ==
  ASSUME NEW n \in Nat, NEW I \in SUBSET (1..n)
  PROVE  /\ Cardinality(I) \in Nat
         /\ \A k \in 1..Cardinality(I) : Nth(I, k) \in I
         /\ \A i \in I : \E k \in 1..Cardinality(I) : Nth(I, k) = i
<1> DEFINE N == Cardinality(I)
           Upto(i) == {j \in I : j <= i}
           r == [i \in I |-> Cardinality(Upto(i))]
<1>0. IsFiniteSet(I) /\ N \in Nat /\ I \subseteq Int
  <2>1. IsFiniteSet(1..n)
    BY FS_Interval
  <2>2. IsFiniteSet(I)
    BY <2>1, FS_Subset
  <2>3. N \in Nat
    BY <2>2, FS_CardinalityType
  <2> QED
    BY <2>2, <2>3
<1>1. ASSUME NEW i \in I
      PROVE  IsFiniteSet(Upto(i)) /\ Cardinality(Upto(i)) \in 1..N
  <2>1. Upto(i) \in SUBSET I /\ i \in Upto(i)
    BY <1>0
  <2>2. IsFiniteSet(Upto(i)) /\ Cardinality(Upto(i)) <= N
    BY <1>0, <2>1, FS_Subset
  <2>3. Cardinality(Upto(i)) \in Nat /\ Cardinality(Upto(i)) # 0
    BY <2>1, <2>2, FS_CardinalityType, FS_EmptySet
  <2> QED
    BY <1>0, <2>2, <2>3
<1>2. ASSUME NEW i \in I, NEW j \in I, i < j
      PROVE  Cardinality(Upto(i)) # Cardinality(Upto(j))
  <2>0. j <= j /\ ~(j <= i) /\ \A k \in I : k <= i => k <= j
    BY <1>0, <1>2
  <2>1. Upto(i) \in SUBSET Upto(j) /\ j \in Upto(j) /\ j \notin Upto(i)
    BY <2>0
  <2>2. IsFiniteSet(Upto(j))
    BY <1>1
  <2> HIDE DEF Upto
  <2> QED
    BY <2>1, <2>2, FS_Subset
<1> HIDE DEF Upto
<1>3. \A i, j \in I : i # j => r[i] # r[j]
  <2> SUFFICES ASSUME NEW i \in I, NEW j \in I, i # j PROVE Cardinality(Upto(i)) # Cardinality(Upto(j))
    OBVIOUS
  <2>1. i < j \/ j < i
    BY <1>0
  <2> QED
    BY <1>2, <2>1
<1>4. r \in [I -> 1..N]
  BY <1>1
<1>5. \A k \in 1..N : \E i \in I : Cardinality(Upto(i)) = k
  <2>1. r \in Injection(I, 1..N)
    BY <1>3, <1>4 DEF Injection, IsInjective
  <2>2. IsFiniteSet(1..N) /\ Cardinality(1..N) = N
    BY <1>0, FS_Interval
  <2>3. r \in Surjection(I, 1..N)
    BY <1>0, <2>1, <2>2, FS_Injection
  <2> QED
    BY <2>3 DEF Surjection
<1>6. \A k \in 1..N : Nth(I, k) \in I /\ Cardinality(Upto(Nth(I, k))) = k
  BY <1>5 DEF Nth, Upto
<1>7. \A i \in I : Nth(I, Cardinality(Upto(i))) = i
  <2> SUFFICES ASSUME NEW i \in I PROVE Nth(I, Cardinality(Upto(i))) = i
    OBVIOUS
  <2>1. Cardinality(Upto(i)) \in 1..N
    BY <1>1
  <2>2. Nth(I, Cardinality(Upto(i))) \in I /\ r[Nth(I, Cardinality(Upto(i)))] = r[i]
    BY <1>6, <2>1
  <2> QED
    BY <1>3, <2>2
<1> QED
  BY <1>0, <1>1, <1>6, <1>7

(* What a rebase replays is what is on the branch and not published.       *)
LEMMA ReplayedIs ==
  ASSUME GitInv
  PROVE  /\ Replayed \in Seq(Changes)
         /\ Range(Replayed) \subseteq Range(branch.own)
         /\ Range(branch.own) \ {Merge} \subseteq Range(Replayed) \cup Range(remote)
         /\ Len(Replayed) \in Nat
<1>0. branch.own \in Seq(Changes) /\ remote \in Seq(Changes) /\ tracked \in 0..Len(remote)
  BY DEF GitInv, Branches
<1> DEFINE own == branch.own
<1>1. Len(own) \in Nat /\ DOMAIN own = 1..Len(own) /\ Kept \in SUBSET (1..Len(own))
  BY <1>0, EntriesAre DEF Kept
<1>2. /\ Cardinality(Kept) \in Nat
      /\ \A k \in 1..Cardinality(Kept) : Nth(Kept, k) \in Kept
      /\ \A i \in Kept : \E k \in 1..Cardinality(Kept) : Nth(Kept, k) = i
  BY <1>1, NthIs
<1>3. \A i \in Kept : own[i] \in Changes /\ own[i] \in Range(own)
  BY <1>0, <1>1, EntriesAre
<1>4. Replayed \in Seq(Changes) /\ Len(Replayed) = Cardinality(Kept)
  <2>1. Replayed \in [1..Cardinality(Kept) -> Changes]
    BY <1>2, <1>3 DEF Replayed
  <2> QED
    BY <1>2, <2>1
<1>5. \A k \in 1..Len(Replayed) : Replayed[k] = own[Nth(Kept, k)]
  BY <1>4 DEF Replayed
<1>6. Range(Replayed) \subseteq Range(own)
  BY <1>2, <1>3, <1>4, <1>5, EntriesAre
<1>7. Range(SubSeq(remote, 1, tracked)) \subseteq Range(remote)
  BY <1>0, SplitHas
<1>8. ASSUME NEW i \in 1..Len(own), own[i] # Merge
      PROVE  own[i] \in Range(Replayed) \cup Range(remote)
  <2>1. CASE i \in Kept
    <3>1. PICK k \in 1..Cardinality(Kept) : Nth(Kept, k) = i
      BY <1>2, <2>1
    <3>2. Replayed[k] = own[i] /\ Replayed[k] \in Range(Replayed)
      BY <1>4, <1>5, <3>1, EntriesAre
    <3> QED
      BY <3>2
  <2>2. CASE i \notin Kept
    BY <1>1, <1>7, <1>8, <2>2 DEF Kept
  <2> QED
    BY <2>1, <2>2
<1>9. Range(own) \ {Merge} \subseteq Range(Replayed) \cup Range(remote)
  BY <1>0, <1>8, EntriesAre
<1> QED
  BY <1>2, <1>4, <1>6, <1>9

(* An integration that stops after n commits of those it replays.          *)
LEMMA StoppedIs ==
  ASSUME GitInv, NEW op \in {"rebase", "merge"}, NEW n \in 0..Len(Replayed),
         NEW paths \in SUBSET Paths
  PROVE  LET stopped == Stopped(op, n, paths)
         IN  /\ stopped \in Opens /\ stopped.op = op /\ stopped.onto = tracked
             /\ Range(Replayed) = Range(stopped.done) \cup Range(stopped.todo)
             /\ n = 0 => stopped.done = <<>>
<1>1. tracked \in Nat
  BY EntriesAre DEF GitInv
<1>2. /\ SubSeq(Replayed, 1, n) \in Seq(Changes) /\ SubSeq(Replayed, n + 1, Len(Replayed)) \in Seq(Changes)
      /\ Range(Replayed) = Range(SubSeq(Replayed, 1, n)) \cup Range(SubSeq(Replayed, n + 1, Len(Replayed)))
  BY ReplayedIs, SplitHas
<1>3. n = 0 => SubSeq(Replayed, 1, n) = <<>>
  BY ReplayedIs, SubSeqProperties, EmptySeq
<1> QED
  BY <1>1, <1>2, <1>3 DEF Stopped, Opens

(* A finite set of commits as a sequence of them, such as the index that a *)
(* merge commits.                                                          *)
LEMMA ListedAll ==
  ASSUME NEW S \in SUBSET Changes, IsFiniteSet(S)
  PROVE  SetToSeq(S) \in Seq(Changes) /\ S \subseteq Range(SetToSeq(S))
<1> DEFINE N == Cardinality(S)
<1>2. N \in Nat /\ IsFiniteSet(1..N) /\ Cardinality(1..N) = N
  BY FS_CardinalityType, FS_Interval
<1>3. \E f \in [1..N -> S] : IsInjective(f)
  <2>1. PICK f : f \in Bijection(1..N, S)
    BY FS_CardinalityType DEF ExistsBijection
  <2> QED
    BY <2>1 DEF Bijection, Injection, Surjection, IsInjective
<1>4. SetToSeq(S) \in [1..N -> S] /\ IsInjective(SetToSeq(S))
  BY <1>3 DEF SetToSeq
<1>5. SetToSeq(S) \in Surjection(1..N, S)
  <2>1. SetToSeq(S) \in Injection(1..N, S)
    BY <1>4 DEF Injection
  <2> QED
    BY <1>2, <2>1, FS_Injection
<1>6. SetToSeq(S) \in Seq(Changes)
  BY <1>2, <1>4
<1> QED
  BY <1>4, <1>5, <1>6 DEF Surjection, Range

LEMMA StagedAre ==
  ASSUME TreeInv
  PROVE  SetToSeq(staged) \in Seq(Changes) /\ staged \subseteq Range(SetToSeq(staged))
<1>1. IsFiniteSet(staged) /\ staged \subseteq Changes
  BY SyncRunAssumption, FS_Subset DEF TreeInv, Changes
<1> QED
  BY <1>1, ListedAll

-----------------------------------------------------------------------------
(* What a run changes: nothing of anybody else's.                          *)
StatusType == [ahead : Nat, behind : Nat]

LEMMA StatusIs == GitInv => SyncStatus \in StatusType /\ NoStatus \in StatusType
<1> SUFFICES ASSUME GitInv PROVE SyncStatus \in StatusType /\ NoStatus \in StatusType
  OBVIOUS
<1>1. Len(branch.own) \in Nat
  BY EntriesAre DEF GitInv, Branches
<1>2. tracked - branch.base \in Nat
  BY EntriesAre DEF GitInv, Branches
<1> QED
  BY <1>1, <1>2 DEF SyncStatus, NoStatus, StatusType

(* The results a step may leave.                                           *)
LEMMA ResultsAre ==
  ASSUME RunsInv, NEW r \in Runs, NEW st \in StatusType
  PROVE  /\ result[r] \in Results /\ result[r].after \in StatusType
         /\ result[r].pulled \in Nat /\ result[r].pushed \in Nat
         /\ \A phase \in {"done", "conflicts", "failed"} :
               [result[r] EXCEPT !.phase = phase, !.retries = 0, !.after = st] \in Results
         /\ [result[r] EXCEPT !.after = st] \in Results
         /\ \A n \in Nat : [result[r] EXCEPT !.pulled = n] \in Results
         /\ \A n \in Nat : [result[r] EXCEPT !.pushed = n] \in Results
         /\ \A n \in 0..MaxRetries : [result[r] EXCEPT !.retries = n] \in Results
<1>1. result[r] \in Results
  BY DEF RunsInv
<1>2. 0 \in 0..MaxRetries
  BY SyncRunAssumption
<1> QED
  BY <1>1, <1>2 DEF Results, StatusType

(* End: the run is idle, and its result keeps what it has counted.         *)
LEMMA EndIs ==
  ASSUME TypeInv, NEW r \in Runs, NEW phase \in {"done", "conflicts", "failed"}, End(r, phase)
  PROVE  /\ pc' = [pc EXCEPT ![r] = "idle"]
         /\ result' = [result EXCEPT ![r] = result'[r]] /\ result'[r] \in Results
         /\ result'[r].phase = phase
         /\ result'[r].pulled = result[r].pulled /\ result'[r].pushed = result[r].pushed
<1> DEFINE x == [result[r] EXCEPT !.phase = phase, !.retries = 0, !.after = NoStatus]
<1>1. result \in [Runs -> Results] /\ RunsInv /\ NoStatus \in StatusType
  BY StatusIs DEF TypeInv, RunsInv
<1>2. x \in Results
  BY <1>1, ResultsAre
<1>3. result[r] \in Results
  BY <1>1
<1>4. x.phase = phase /\ x.pulled = result[r].pulled /\ x.pushed = result[r].pushed
  BY <1>3 DEF Results
<1>5. result' = [result EXCEPT ![r] = x] /\ pc' = [pc EXCEPT ![r] = "idle"]
  BY DEF End, Goto
<1> HIDE DEF x
<1>6. result'[r] = x
  BY <1>1, <1>5
<1> QED
  BY <1>2, <1>4, <1>5, <1>6

LEMMA PulledIs ==
  ASSUME TypeInv, NEW r \in Runs, Pulled(r)
  PROVE  /\ pc' = [pc EXCEPT ![r] = IF opts[r].push THEN "ahead" ELSE "finish"]
         /\ result' = [result EXCEPT ![r] = result'[r]] /\ result'[r] \in Results
         /\ result'[r].phase = result[r].phase
         /\ result'[r].pulled = result[r].pulled + result[r].after.behind
         /\ result'[r].pushed = result[r].pushed
<1> DEFINE n == result[r].pulled + result[r].after.behind
           x == [result[r] EXCEPT !.pulled = n]
<1>1. result \in [Runs -> Results] /\ RunsInv /\ NoStatus \in StatusType /\ result[r] \in Results
  BY StatusIs DEF TypeInv, RunsInv
<1>2. n \in Nat
  BY <1>1 DEF Results
<1>3. x \in Results
  BY <1>1, <1>2, ResultsAre
<1>4. x.phase = result[r].phase /\ x.pulled = n /\ x.pushed = result[r].pushed
  BY <1>1 DEF Results
<1>5. result' = [result EXCEPT ![r] = x]
  BY DEF Pulled
<1>6. result'[r] = x
  BY <1>1, <1>5
<1> HIDE DEF x
<1> QED
  BY <1>3, <1>4, <1>5, <1>6 DEF Pulled, Goto

LEMMA ReadsIs ==
  ASSUME TypeInv, NEW r \in Runs, Reads(r)
  PROVE  /\ result' = [result EXCEPT ![r] = result'[r]] /\ result'[r] \in Results
         /\ result'[r].phase = result[r].phase
         /\ result'[r].pulled = result[r].pulled /\ result'[r].pushed = result[r].pushed
         /\ result'[r].after = SyncStatus
<1> DEFINE x == [result[r] EXCEPT !.after = SyncStatus]
<1>1. result \in [Runs -> Results] /\ RunsInv /\ SyncStatus \in StatusType /\ result[r] \in Results
  BY StatusIs DEF TypeInv, RunsInv
<1>2. x \in Results
  BY <1>1, ResultsAre
<1>3. x.phase = result[r].phase /\ x.pulled = result[r].pulled /\ x.pushed = result[r].pushed
      /\ x.after = SyncStatus
  BY <1>1 DEF Results
<1>4. result' = [result EXCEPT ![r] = x]
  BY DEF Reads
<1>5. result'[r] = x
  BY <1>1, <1>4
<1> HIDE DEF x
<1> QED
  BY <1>2, <1>3, <1>4, <1>5

(* A push that went through, and one that is tried again.                  *)
LEMMA PushIs ==
  ASSUME TypeInv, NEW r \in Runs, Push(r)
  PROVE  /\ pc' = [pc EXCEPT ![r] = "finish"]
         /\ result' = [result EXCEPT ![r] = result'[r]] /\ result'[r] \in Results
         /\ result'[r].phase = result[r].phase
         /\ result'[r].pulled = result[r].pulled
         /\ result'[r].pushed = result[r].pushed + result[r].after.ahead
<1> DEFINE n == result[r].pushed + result[r].after.ahead
           x == [result[r] EXCEPT !.pushed = n]
<1>1. result \in [Runs -> Results] /\ RunsInv /\ NoStatus \in StatusType /\ result[r] \in Results
  BY StatusIs DEF TypeInv, RunsInv
<1>2. n \in Nat
  BY <1>1 DEF Results
<1>3. x \in Results
  BY <1>1, <1>2, ResultsAre
<1>4. x.phase = result[r].phase /\ x.pulled = result[r].pulled /\ x.pushed = n
  BY <1>1 DEF Results
<1>5. result' = [result EXCEPT ![r] = x]
  BY DEF Push
<1>6. result'[r] = x
  BY <1>1, <1>5
<1> HIDE DEF x
<1> QED
  BY <1>3, <1>4, <1>5, <1>6 DEF Push, Goto

LEMMA RejectedIs ==
  ASSUME TypeInv, NEW r \in Runs, PushRejected(r), ~GivesUp(r)
  PROVE  /\ pc' = [pc EXCEPT ![r] = "fetch"]
         /\ result' = [result EXCEPT ![r] = result'[r]] /\ result'[r] \in Results
         /\ result'[r].phase = result[r].phase
         /\ result'[r].pulled = result[r].pulled /\ result'[r].pushed = result[r].pushed
<1> DEFINE n == IF result[r].retries < MaxRetries THEN result[r].retries + 1 ELSE result[r].retries
           x == [result[r] EXCEPT !.retries = n]
<1>1. result \in [Runs -> Results] /\ RunsInv /\ NoStatus \in StatusType /\ result[r] \in Results
  BY StatusIs DEF TypeInv, RunsInv
<1>2. n \in 0..MaxRetries
  BY <1>1, SyncRunAssumption DEF Results
<1>3. x \in Results
  BY <1>1, <1>2, ResultsAre
<1>4. x.phase = result[r].phase /\ x.pulled = result[r].pulled /\ x.pushed = result[r].pushed
  BY <1>1 DEF Results
<1>5. result' = [result EXCEPT ![r] = x]
  BY DEF PushRejected
<1>6. result'[r] = x
  BY <1>1, <1>5
<1> HIDE DEF x
<1> QED
  BY <1>3, <1>4, <1>5, <1>6 DEF PushRejected, Goto

RunKeeps == <<backend, protected, opts, calls, at, picked, saved, alone>>

Stepping(r) == Run(r) \/ Fails(r) \/ Killed(r)

(* A step of run r moves r alone, and leaves a result.                     *)
Step(r) ==
    /\ UNCHANGED RunKeeps
    /\ pc[r] # "idle" /\ pc' = [pc EXCEPT ![r] = pc'[r]] /\ pc'[r] \in Places
    /\ result' = [result EXCEPT ![r] = result'[r]] /\ result'[r] \in Results
    /\ pc'[r] = "idle" \/ result'[r].phase = "none"
    /\ began' = began \/ began' = [began EXCEPT ![r] = branch]

LEMMA StepIs ==
  ASSUME TypeInv, NEW r \in Runs, Stepping(r)
  PROVE  Step(r)
<1>0. /\ pc \in [Runs -> Places] /\ result \in [Runs -> Results] /\ result[r] \in Results
      /\ pc[r] # "idle" => result[r].phase = "none"
      /\ result = [result EXCEPT ![r] = result[r]]
  BY DEF TypeInv, RunsInv
<1> DEFINE Framed == UNCHANGED RunKeeps /\ pc[r] # "idle"
<1>1. ASSUME NEW phase \in {"done", "conflicts", "failed"}, End(r, phase), Framed,
             began' = began \/ began' = [began EXCEPT ![r] = branch]
      PROVE  Step(r)
  <2>1. pc' = [pc EXCEPT ![r] = "idle"] /\ pc'[r] = "idle" /\ pc'[r] \in Places
    BY <1>0, <1>1, EndIs DEF Places
  <2>2. result' = [result EXCEPT ![r] = result'[r]] /\ result'[r] \in Results
    BY <1>1, EndIs
  <2> QED
    BY <1>1, <2>1, <2>2 DEF Step
<1>2. ASSUME NEW code \in {"conflict", "other"}, Fail(r, code), Framed,
             began' = began \/ began' = [began EXCEPT ![r] = branch]
      PROVE  Step(r)
  BY <1>1, <1>2 DEF Fail
<1>3. ASSUME NEW there \in Places \ {"idle"}, pc' = [pc EXCEPT ![r] = there],
             result' = [result EXCEPT ![r] = result'[r]], result'[r] \in Results,
             result'[r].phase = result[r].phase, Framed,
             began' = began \/ began' = [began EXCEPT ![r] = branch]
      PROVE  Step(r)
  <2>1. pc'[r] = there /\ pc' = [pc EXCEPT ![r] = pc'[r]]
    BY <1>0, <1>3
  <2> QED
    BY <1>0, <1>3, <2>1 DEF Step
<1>4. ASSUME NEW there \in Places \ {"idle"}, pc' = [pc EXCEPT ![r] = there],
             result' = result, Framed, began' = began \/ began' = [began EXCEPT ![r] = branch]
      PROVE  Step(r)
  BY <1>0, <1>3, <1>4
<1> HIDE DEF Framed
<1>5. CASE Flushed(r)
  <2>1. Framed /\ "preflight" \in Places \ {"idle"}
    BY <1>5 DEF Flushed, Framed, RunKeeps, userVars, histVars, gitVars, Places
  <2> QED
    BY <1>4, <1>5, <2>1 DEF Flushed, Goto, histVars
<1>6. CASE Preflight(r)
  <2>1. Framed /\ "fetch" \in Places \ {"idle"} /\ began' = [began EXCEPT ![r] = branch]
    BY <1>6 DEF Preflight, Framed, RunKeeps, userVars, gitVars, Places
  <2> QED
    BY <1>1, <1>4, <1>6, <2>1 DEF Preflight, Goto, Fail
<1>7. CASE Fetch(r)
  <2>1. Framed /\ "status" \in Places \ {"idle"}
    BY <1>7 DEF Fetch, Framed, RunKeeps, userVars, histVars, Places
  <2> QED
    BY <1>4, <1>7, <2>1 DEF Fetch, Goto, histVars
<1>8. CASE Status(r)
  <2>1. Framed /\ {"integrate", "ahead", "finish"} \subseteq Places \ {"idle"} /\ began' = began
    BY <1>8 DEF Status, Framed, RunKeeps, userVars, histVars, gitVars, Places
  <2>2. CASE opts[r].dry
    BY <1>1, <1>8, <2>1, <2>2 DEF Status
  <2>3. CASE ~opts[r].dry
    <3>1. Reads(r) /\ \E there \in {"integrate", "ahead", "finish"} : Goto(r, there)
      BY <1>8, <2>3 DEF Status
    <3>2. PICK there \in {"integrate", "ahead", "finish"} : Goto(r, there)
      BY <3>1
    <3>3. /\ result' = [result EXCEPT ![r] = result'[r]] /\ result'[r] \in Results
          /\ result'[r].phase = result[r].phase
      BY <3>1, ReadsIs
    <3>4. pc' = [pc EXCEPT ![r] = there] /\ there \in Places \ {"idle"}
      BY <2>1, <3>2 DEF Goto
    <3> QED
      BY <1>3, <2>1, <3>3, <3>4
  <2> QED
    BY <2>2, <2>3
<1>9. ASSUME Pulled(r), Framed, began' = began PROVE Step(r)
  <2>1. /\ pc' = [pc EXCEPT ![r] = IF opts[r].push THEN "ahead" ELSE "finish"]
        /\ result' = [result EXCEPT ![r] = result'[r]] /\ result'[r] \in Results
        /\ result'[r].phase = result[r].phase
    BY <1>9, PulledIs
  <2>2. (IF opts[r].push THEN "ahead" ELSE "finish") \in Places \ {"idle"}
    BY DEF Places
  <2> QED
    BY <1>3, <1>9, <2>1, <2>2
<1>10. CASE Integrate(r)
  <2>1. Framed /\ "classify" \in Places \ {"idle"} /\ began' = began
    BY <1>10 DEF Integrate, Framed, RunKeeps, userVars, histVars, Places
  <2>2. Pulled(r) \/ (Goto(r, "classify") /\ result' = result)
    BY <1>10 DEF Integrate
  <2> QED
    BY <1>4, <1>9, <2>1, <2>2 DEF Goto
<1>11. CASE IntegrateFailure(r)
  <2>1. Framed /\ began' = began
    BY <1>11 DEF IntegrateFailure, Framed, RunKeeps, userVars, histVars, gitVars
  <2>2. \E code \in {"conflict", "integrate_failed"} : Fail(r, code)
    BY <1>11 DEF IntegrateFailure
  <2> QED
    BY <1>1, <2>1, <2>2 DEF Fail
<1>12. CASE GoGitCheck(r)
  <2>1. Framed /\ "reset" \in Places \ {"idle"} /\ began' = began
    BY <1>12 DEF GoGitCheck, Framed, RunKeeps, userVars, histVars, gitVars, Places
  <2>2. \/ \E code \in {"unsupported", "dirty_tree"} : Fail(r, code)
        \/ Pulled(r)
        \/ Goto(r, "reset") /\ result' = result
    BY <1>12 DEF GoGitCheck
  <2> QED
    BY <1>1, <1>4, <1>9, <2>1, <2>2 DEF Fail, Goto
<1>13. CASE HardReset(r)
  <2>1. Framed /\ began' = began
    BY <1>13 DEF HardReset, Framed, RunKeeps, userVars
  <2> QED
    BY <1>9, <1>13, <2>1 DEF HardReset
<1>14. CASE Ahead(r) \/ Target(r)
  <2>1. Framed /\ {"finish", "target", "send"} \subseteq Places \ {"idle"} /\ began' = began
    BY <1>14 DEF Ahead, Target, Framed, RunKeeps, userVars, histVars, gitVars, Places
  <2>2. CASE Fail(r, "push_failed")
    BY <1>1, <2>1, <2>2 DEF Fail
  <2>3. CASE ~Fail(r, "push_failed")
    <3>1. Reads(r) /\ \E there \in {"finish", "target", "send"} : Goto(r, there)
      BY <1>14, <2>3 DEF Ahead, Target
    <3>2. PICK there \in {"finish", "target", "send"} : Goto(r, there)
      BY <3>1
    <3>3. /\ result' = [result EXCEPT ![r] = result'[r]] /\ result'[r] \in Results
          /\ result'[r].phase = result[r].phase
      BY <3>1, ReadsIs
    <3>4. pc' = [pc EXCEPT ![r] = there] /\ there \in Places \ {"idle"}
      BY <2>1, <3>2 DEF Goto
    <3> QED
      BY <1>3, <2>1, <3>3, <3>4
  <2> QED
    BY <2>2, <2>3
<1>15. CASE Push(r)
  <2>1. Framed /\ "finish" \in Places \ {"idle"} /\ began' = began
    BY <1>15 DEF Push, Framed, RunKeeps, userVars, histVars, Places
  <2> QED
    BY <1>3, <1>15, <2>1, PushIs
<1>16. CASE PushRejected(r)
  <2>1. Framed /\ "fetch" \in Places \ {"idle"} /\ began' = began
    BY <1>16 DEF PushRejected, Framed, RunKeeps, userVars, histVars, gitVars, Places
  <2>2. CASE GivesUp(r)
    BY <1>1, <1>16, <2>1, <2>2 DEF PushRejected, Fail
  <2>3. CASE ~GivesUp(r)
    BY <1>3, <1>16, <2>1, <2>3, RejectedIs
  <2> QED
    BY <2>2, <2>3
<1>17. CASE Finish(r)
  <2>1. Framed /\ began' = began
    BY <1>17 DEF Finish, Framed, RunKeeps, userVars, histVars, gitVars
  <2> QED
    BY <1>1, <1>17, <2>1 DEF Finish
<1>18. CASE Fails(r) \/ Killed(r)
  <2>1. Framed /\ began' = began /\ Fail(r, "failed")
    BY <1>18 DEF Fails, Killed, Framed, RunKeeps, userVars, histVars, gitVars
  <2> QED
    BY <1>1, <2>1 DEF Fail
<1> QED
  BY <1>5, <1>6, <1>7, <1>8, <1>10, <1>11, <1>12, <1>13, <1>14, <1>15, <1>16, <1>17, <1>18
     DEF Stepping, Run

(* So the runs and the users stay what they are.                           *)
LEMMA StepTypes ==
  ASSUME TypeInv, NEW r \in Runs, Step(r)
  PROVE  RunsInv' /\ UsersInv'
<1>1. /\ pc \in [Runs -> Places] /\ result \in [Runs -> Results] /\ began \in [Runs -> Branches]
      /\ branch \in Branches /\ opts' = opts /\ alone' = alone
      /\ \A s \in Runs : pc[s] = "idle" \/ result[s].phase = "none"
  BY DEF TypeInv, GitInv, RunsInv, Step, RunKeeps
<1>2. pc' \in [Runs -> Places] /\ result' \in [Runs -> Results] /\ began' \in [Runs -> Branches]
  BY <1>1 DEF Step
<1>3. \A s \in Runs : pc'[s] = "idle" \/ result'[s].phase = "none"
  BY <1>1 DEF Step
<1>4. RunsInv'
  BY <1>1, <1>2, <1>3 DEF TypeInv, RunsInv
<1> QED
  BY <1>4 DEF TypeInv, UsersInv, Step, RunKeeps

-----------------------------------------------------------------------------
(* The branch that is checked out, and what a push makes of the remote.    *)
LEMMA TipIs ==
  ASSUME GitInv
  PROVE  /\ Tip \in Branches /\ Tip.own \in Seq(Changes) /\ Tip.base \in Nat
         /\ branch.own \in Seq(Changes) /\ branch.base \in Nat /\ Len(branch.own) \in Nat
         /\ open.done \in Seq(Changes) /\ open.todo \in Seq(Changes) /\ open.onto \in Nat
         /\ remote \in Seq(Changes) /\ Len(remote) \in Nat /\ tracked \in Nat /\ tracked <= Len(remote)
<1>1. /\ branch.own \in Seq(Changes) /\ branch.base \in Nat /\ branch \in Branches
      /\ open.done \in Seq(Changes) /\ open.todo \in Seq(Changes) /\ open.onto \in Nat
      /\ remote \in Seq(Changes)
  BY DEF GitInv, Branches, Opens
<1>2. [base |-> open.onto, own |-> open.done] \in Branches
  BY <1>1 DEF Branches
<1>3. Tip \in Branches
  BY <1>1, <1>2 DEF Tip
<1>4. Len(remote) \in Nat /\ Len(branch.own) \in Nat
  BY <1>1, EntriesAre
<1>5. tracked \in Nat /\ tracked <= Len(remote)
  BY <1>4 DEF GitInv
<1> QED
  BY <1>1, <1>3, <1>4, <1>5 DEF Branches

LEMMA SentIs ==
  ASSUME GitInv, Sent
  PROVE  /\ remote' \in Seq(Changes) /\ Range(remote') = Range(remote) \cup Range(Tip.own)
         /\ Len(remote') = Len(remote) + Len(Tip.own) /\ Len(remote') \in Nat
         /\ Len(remote') >= Len(remote) /\ Tip.base = Len(remote)
         /\ IsPrefix(remote, remote')
<1>1. remote' = remote \o Tip.own /\ Tip.base = Len(remote)
  BY DEF Sent, Accepts
<1>2. Len(Tip.own) \in Nat
  BY TipIs, EntriesAre
<1> QED
  BY <1>1, <1>2, TipIs, ConcatHas

(* git: how a run's steps move the branches.                               *)
LEMMA StepGit ==
  ASSUME TypeInv, NEW r \in Runs, Stepping(r)
  PROVE  GitInv' /\ TreeInv'
<1>0. GitInv /\ TreeInv /\ Step(r)
  BY StepIs DEF TypeInv
<1>1. backend' = backend /\ protected' = protected /\ saved' = saved
  BY <1>0 DEF Step, RunKeeps
<1>2. ASSUME remote' \in Seq(Changes), tracked' \in 0..Len(remote'), branch' \in Branches,
             branch'.base <= tracked', open' \in Opens, open'.onto <= tracked',
             open'.op = "none" => open' = Settled
      PROVE  GitInv'
  BY <1>0, <1>1, <1>2 DEF GitInv
<1>3. CASE UNCHANGED <<gitVars, treeVars>>
  BY <1>0, <1>1, <1>3 DEF GitInv, TreeInv, gitVars, treeVars
<1>4. CASE Fetch(r)
  <2>1. tracked' = Len(remote) /\ UNCHANGED <<remote, branch, open, treeVars>>
    BY <1>4 DEF Fetch
  <2>2. Len(remote) \in 0..Len(remote) /\ branch.base <= Len(remote) /\ open.onto <= Len(remote)
    BY <1>0, TipIs DEF GitInv
  <2>3. GitInv'
    BY <1>0, <1>2, <2>1, <2>2 DEF GitInv
  <2> QED
    BY <1>0, <1>1, <2>1, <2>3 DEF TreeInv, treeVars
<1>5. CASE Integrate(r)
  <2>1. UNCHANGED <<remote, tracked, treeVars>>
    BY <1>5 DEF Integrate
  <2>2. TreeInv'
    BY <1>0, <1>1, <2>1 DEF TreeInv, treeVars
  <2>3. Rebased \in Branches /\ Joined \in Branches /\ Rebased.base = tracked /\ Joined.base = tracked
    <3>1. Append(branch.own, Merge) \in Seq(Changes)
      BY <1>0, TipIs, AppendHas DEF Changes
    <3> QED
      BY <1>0, <3>1, TipIs, ReplayedIs DEF Rebased, Joined, Branches
  <2>4. CASE UNCHANGED <<branch, open>>
    BY <1>0, <1>2, <2>1, <2>2, <2>4 DEF GitInv
  <2>5. CASE open' = open /\ branch' \in {Rebased, Joined}
    BY <1>0, <1>2, <2>1, <2>2, <2>3, <2>5, TipIs DEF GitInv
  <2>6. CASE /\ branch' = branch
             /\ \E op \in {"rebase", "merge"}, n \in 0..Len(Replayed), paths \in SUBSET Paths :
                   open' = Stopped(op, n, paths)
    <3>1. open' \in Opens /\ open'.op # "none" /\ open'.onto = tracked
      BY <1>0, <2>6, StoppedIs
    <3> QED
      BY <1>0, <1>2, <2>1, <2>2, <2>6, <3>1, TipIs DEF GitInv
  <2>7. 0 \in 0..Len(Replayed) /\ 0..Len(Replayed) - 1 \subseteq 0..Len(Replayed)
    BY <1>0, ReplayedIs
  <2> QED
    BY <1>5, <2>4, <2>5, <2>6, <2>7 DEF Integrate
<1>6. CASE HardReset(r)
  <2>1. /\ branch' = [base |-> tracked, own |-> <<>>] /\ UNCHANGED <<remote, tracked, open, queued>>
        /\ dirty' = {} /\ staged' = {} /\ stray' = {}
    BY <1>6 DEF HardReset
  <2>2. branch' \in Branches /\ branch'.base = tracked
    BY <1>0, <2>1, TipIs, EmptyHasNone DEF Branches
  <2>3. GitInv'
    BY <1>0, <1>2, <2>1, <2>2, TipIs DEF GitInv
  <2> QED
    BY <1>0, <1>1, <2>1, <2>3 DEF TreeInv
<1>7. CASE Push(r)
  <2>1. Landed /\ UNCHANGED treeVars
    BY <1>7 DEF Push
  <2>2. TreeInv'
    BY <1>0, <1>1, <2>1 DEF TreeInv, treeVars
  <2>3. /\ remote' \in Seq(Changes) /\ Len(remote') \in Nat /\ Len(remote') >= Len(remote)
        /\ tracked' = Len(remote')
    BY <1>0, <2>1, SentIs DEF Landed
  <2>4. tracked' \in 0..Len(remote') /\ tracked' \in Nat
    BY <2>3
  <2>5. CASE Detached
    <3>1. open' = [open EXCEPT !.onto = Len(remote'), !.done = <<>>] /\ branch' = branch
      BY <2>1, <2>5 DEF Landed
    <3>2. open' \in Opens /\ open'.onto = Len(remote') /\ open'.op = "rebase"
      BY <1>0, <2>3, <2>5, <3>1, EmptyHasNone DEF GitInv, Opens, Detached
    <3>3. branch \in Branches /\ branch.base <= Len(remote')
      BY <1>0, <2>3, TipIs DEF GitInv
    <3> QED
      BY <1>2, <2>2, <2>3, <2>4, <3>1, <3>2, <3>3
  <2>6. CASE ~Detached
    <3>1. branch' = [base |-> Len(remote'), own |-> <<>>] /\ open' = open
      BY <2>1, <2>6 DEF Landed
    <3>2. branch' \in Branches /\ branch'.base = Len(remote')
      BY <2>3, <3>1, EmptyHasNone DEF Branches
    <3>3. open \in Opens /\ open.onto <= Len(remote') /\ (open.op = "none" => open = Settled)
      BY <1>0, <2>3, TipIs DEF GitInv
    <3> QED
      BY <1>2, <2>2, <2>3, <2>4, <3>1, <3>2, <3>3
  <2> QED
    BY <2>5, <2>6
<1>8. CASE Killed(r)
  <2>1. UNCHANGED treeVars
    BY <1>8 DEF Killed
  <2>2. TreeInv'
    BY <1>0, <1>1, <2>1 DEF TreeInv, treeVars
  <2>3. CASE /\ UNCHANGED <<remote, tracked, branch>>
             /\ \E n \in 0..Len(Replayed) - 1 : open' = Stopped("rebase", n, {})
    <3>1. 0..Len(Replayed) - 1 \subseteq 0..Len(Replayed)
      BY <1>0, ReplayedIs
    <3>2. open' \in Opens /\ open'.op # "none" /\ open'.onto = tracked
      BY <1>0, <2>3, <3>1, StoppedIs
    <3> QED
      BY <1>0, <1>2, <2>2, <2>3, <3>2, TipIs DEF GitInv
  <2>4. CASE Sent /\ UNCHANGED <<tracked, branch, open>>
    <3>1. remote' \in Seq(Changes) /\ tracked \in 0..Len(remote')
      BY <1>0, <2>4, SentIs, TipIs
    <3> QED
      BY <1>0, <1>2, <2>2, <2>4, <3>1 DEF GitInv
  <2> QED
    BY <1>8, <2>3, <2>4 DEF Killed
<1>9. CASE Flushed(r) \/ Preflight(r) \/ Status(r) \/ IntegrateFailure(r) \/ GoGitCheck(r)
           \/ Ahead(r) \/ Target(r) \/ PushRejected(r) \/ Finish(r) \/ Fails(r)
  BY <1>3, <1>9 DEF Flushed, Preflight, Status, IntegrateFailure, GoGitCheck, Ahead, Target,
     PushRejected, Finish, Fails
<1> QED
  BY <1>4, <1>5, <1>6, <1>7, <1>8, <1>9 DEF Stepping, Run

-----------------------------------------------------------------------------
(* The others: saves, commits, the other clone, who calls and who resolves.*)
LEMMA SaveTypes ==
  ASSUME TypeInv, NEW e \in Edits, Save(e)
  PROVE  TypeInv'
BY DEF Save, TypeInv, GitInv, TreeInv, RunsInv, UsersInv, gitVars, treeVars, runVars, userVars

(* A commit goes on the branch, or on the HEAD of a rebase that stopped.   *)
LEMMA CommittedIs ==
  ASSUME TypeInv, NEW e \in Edits, Committed(e)
  PROVE  /\ UNCHANGED <<remote, backend, protected, tracked, stray, runVars, calls, userVars, histVars>>
         /\ staged' \subseteq dirty'
         /\ \/ UNCHANGED <<branch, open, dirty>>
            \/ /\ e \notin dirty /\ UNCHANGED <<branch, open>> /\ dirty' = dirty
            \/ /\ e \in dirty /\ Detached /\ branch' = branch /\ dirty' = dirty \ {e}
               /\ open' = [open EXCEPT !.done = Append(open.done, e)]
            \/ /\ e \in dirty /\ open.op = "none" /\ open' = open /\ dirty' = dirty \ {e}
               /\ branch' = [branch EXCEPT !.own = Append(branch.own, e)]
<1>1. staged \subseteq dirty /\ open.op \in {"none", "rebase", "merge"}
  BY DEF TypeInv, TreeInv, GitInv, Opens
<1>2. UNCHANGED <<remote, backend, protected, tracked, stray, runVars, calls, userVars, histVars>>
  BY DEF Committed
<1>3. CASE e \in dirty /\ open.op = "merge"
  BY <1>1, <1>2, <1>3 DEF Committed
<1>4. CASE e \in dirty /\ open.op # "merge"
  BY <1>1, <1>2, <1>4 DEF Committed, Detached
<1>5. CASE e \notin dirty
  BY <1>1, <1>2, <1>5 DEF Committed
<1> QED
  BY <1>3, <1>4, <1>5

LEMMA CommitTypes ==
  ASSUME TypeInv, NEW e \in Edits, Committed(e), queued' \subseteq queued
  PROVE  TypeInv'
<1>0. GitInv /\ TreeInv /\ e \in Changes
  BY DEF TypeInv, Changes
<1>1. /\ UNCHANGED <<remote, backend, protected, tracked, stray, runVars, calls, userVars, histVars>>
      /\ staged' \subseteq dirty'
  BY CommittedIs
<1>2. dirty' \subseteq dirty
  BY CommittedIs
<1>3. TreeInv'
  BY <1>0, <1>1, <1>2 DEF TreeInv, histVars
<1>4. RunsInv' /\ UsersInv'
  BY <1>1 DEF TypeInv, RunsInv, UsersInv, runVars, userVars, histVars
<1>5. CASE UNCHANGED <<branch, open>>
  BY <1>0, <1>1, <1>3, <1>4, <1>5 DEF TypeInv, GitInv
<1>6. CASE branch' = branch /\ open' = [open EXCEPT !.done = Append(open.done, e)] /\ Detached
  <2>1. Append(open.done, e) \in Seq(Changes)
    BY <1>0, TipIs, AppendHas
  <2>2. open' \in Opens /\ open'.onto = open.onto /\ open'.op = "rebase"
    BY <1>0, <1>6, <2>1 DEF GitInv, Opens, Detached
  <2> QED
    BY <1>0, <1>1, <1>3, <1>4, <1>6, <2>2 DEF TypeInv, GitInv
<1>7. CASE open' = open /\ branch' = [branch EXCEPT !.own = Append(branch.own, e)]
  <2>1. Append(branch.own, e) \in Seq(Changes)
    BY <1>0, TipIs, AppendHas
  <2>2. branch' \in Branches /\ branch'.base = branch.base
    BY <1>0, <1>7, <2>1 DEF GitInv, Branches
  <2> QED
    BY <1>0, <1>1, <1>3, <1>4, <1>7, <2>2 DEF TypeInv, GitInv
<1> QED
  BY <1>5, <1>6, <1>7, CommittedIs

LEMMA PublishTypes ==
  ASSUME TypeInv, NEW o \in Others, Publish(o)
  PROVE  TypeInv'
<1>0. GitInv /\ TreeInv /\ o \in Changes
  BY DEF TypeInv, Changes
<1>1. /\ UNCHANGED <<backend, protected, tracked, branch, open, treeVars, runVars, calls, userVars, histVars>>
      /\ remote' = Append(remote, o)
  BY DEF Publish
<1>2. remote' \in Seq(Changes) /\ Len(remote') = Len(remote) + 1
  BY <1>0, <1>1, TipIs, AppendProperties
<1>3. tracked \in 0..Len(remote')
  BY <1>0, <1>2, TipIs
<1>4. GitInv'
  BY <1>0, <1>1, <1>2, <1>3 DEF GitInv
<1> QED
  BY <1>1, <1>4 DEF TypeInv, TreeInv, RunsInv, UsersInv, treeVars, runVars, userVars, histVars

(* A call of a run, and one of a user.                                     *)
LEMMA DisturbsTypes ==
  ASSUME NEW c, Disturbs(c), alone \in [Runs -> BOOLEAN]
  PROVE  alone' \in [Runs -> BOOLEAN]
<1>1. \A r \in Runs : (IF r = c THEN AloneIs(c) ELSE alone[r] /\ r \notin Busy) \in BOOLEAN
  BY DEF AloneIs
<1> QED
  BY <1>1, Zenon DEF Disturbs

LEMMA SyncTypes ==
  ASSUME TypeInv, NEW r \in Runs, Sync(r)
  PROVE  TypeInv'
<1>1. UNCHANGED <<gitVars, treeVars, userVars, saved, discarded, began>>
  BY DEF Sync
<1>2. PICK o \in Asks[r] : /\ opts' = [opts EXCEPT ![r] = o]
                           /\ Goto(r, IF o.dry THEN "preflight" ELSE "flush")
  BY DEF Sync
<1>3. o \in Options
  BY SyncRunAssumption
<1>4. opts' \in [Runs -> Options] /\ pc' \in [Runs -> Places]
  BY <1>2, <1>3 DEF TypeInv, RunsInv, Goto, Places
<1>5. NoResult \in Results /\ NoResult.phase = "none"
  BY SyncRunAssumption DEF NoResult, NoStatus, Results
<1>6. result' = [result EXCEPT ![r] = NoResult]
  BY DEF Sync
<1>7. result' \in [Runs -> Results] /\ \A s \in Runs : pc'[s] = "idle" \/ result'[s].phase = "none"
  BY <1>2, <1>5, <1>6 DEF TypeInv, RunsInv, Goto
<1>8. alone' \in [Runs -> BOOLEAN]
  BY DisturbsTypes DEF Sync, TypeInv, RunsInv
<1>9. calls' \in [Runs \cup Users -> Nat]
  BY DEF Sync, TypeInv, UsersInv
<1> QED
  BY <1>1, <1>4, <1>7, <1>8, <1>9
     DEF TypeInv, GitInv, TreeInv, RunsInv, UsersInv, gitVars, treeVars, userVars

LEMMA CalledTypes ==
  ASSUME TypeInv, NEW u \in Users, Called(u)
  PROVE  calls' \in [Runs \cup Users -> Nat] /\ alone' \in [Runs -> BOOLEAN]
<1>1. calls' \in [Runs \cup Users -> Nat]
  BY DEF Called, TypeInv, UsersInv
<1>2. alone' \in [Runs -> BOOLEAN]
  BY DisturbsTypes DEF Called, TypeInv, RunsInv
<1> QED
  BY <1>1, <1>2

LEMMA ResolveTypes ==
  ASSUME TypeInv, NEW u \in Users, NEW p \in Paths, Resolve(u, p)
  PROVE  TypeInv'
<1>1. UNCHANGED <<gitVars, treeVars, runVars, saved, discarded, began>>
  BY DEF Resolve
<1>2. calls' \in [Runs \cup Users -> Nat] /\ alone' \in [Runs -> BOOLEAN]
  BY CalledTypes DEF Resolve
<1>3. picked' = [picked EXCEPT ![u] = {p}] /\ at' = [at EXCEPT ![u] = "write"]
  BY DEF Resolve
<1>4. UsersInv'
  BY <1>2, <1>3 DEF TypeInv, UsersInv
<1> QED
  BY <1>1, <1>2, <1>4 DEF TypeInv, GitInv, TreeInv, RunsInv, gitVars, treeVars, runVars

LEMMA WriteTypes ==
  ASSUME TypeInv, NEW u \in Users, WriteResolution(u)
  PROVE  TypeInv'
<1>0. GitInv /\ TreeInv /\ UsersInv /\ picked[u] \subseteq Paths
  BY DEF TypeInv, UsersInv
<1>1. UNCHANGED <<remote, backend, protected, tracked, branch, dirty, staged, queued, runVars, calls, histVars>>
  BY DEF WriteResolution
<1>2. GitInv'
  <2>1. CASE open.op # "none"
    <3>1. open' = [open EXCEPT !.unmerged = open.unmerged \ picked[u]]
      BY <2>1 DEF WriteResolution
    <3>2. open' \in Opens /\ open'.op = open.op /\ open'.onto = open.onto
      BY <1>0, <3>1 DEF GitInv, Opens
    <3> QED
      BY <1>0, <1>1, <2>1, <3>2 DEF GitInv
  <2>2. CASE open.op = "none"
    BY <1>0, <1>1, <2>2 DEF GitInv, WriteResolution
  <2> QED
    BY <2>1, <2>2
<1>3. TreeInv'
  <2>1. stray' \subseteq Paths
    BY <1>0 DEF WriteResolution, TreeInv
  <2> QED
    BY <1>0, <1>1, <2>1 DEF TreeInv, histVars
<1>4. UsersInv'
  <2>1. picked' = [picked EXCEPT ![u] = {}]
    BY DEF WriteResolution
  <2>2. \E there \in {"resume", "idle"} : at' = [at EXCEPT ![u] = there]
    BY DEF WriteResolution
  <2>3. PICK there \in {"resume", "idle"} : at' = [at EXCEPT ![u] = there]
    BY <2>2
  <2> QED
    BY <1>0, <1>1, <2>1, <2>3 DEF UsersInv
<1> QED
  BY <1>1, <1>2, <1>3, <1>4 DEF TypeInv, RunsInv, runVars, histVars

(* What a continued integration leaves.                                    *)
LEMMA ContinuedIs ==
  ASSUME TypeInv, ContinueRebase \/ ContinueMerge
  PROVE  /\ branch' \in Branches /\ open' \in Opens
         /\ \/ /\ open.op = "rebase" /\ branch'.base = open.onto /\ open' = Settled
               /\ Range(branch'.own) = Range(open.done) \cup Range(open.todo)
               /\ UNCHANGED <<dirty, staged>>
            \/ /\ open.op = "rebase" /\ branch' = branch /\ open'.op = "rebase" /\ open'.onto = open.onto
               /\ Range(open'.done) \cup Range(open'.todo) = Range(open.done) \cup Range(open.todo)
               /\ Range(open'.todo) \subseteq Range(open.todo)
               /\ UNCHANGED <<dirty, staged>>
            \/ /\ open.op = "merge" /\ open' = Settled
               /\ branch'.base = IF open.onto > branch.base THEN open.onto ELSE branch.base
               /\ Range(branch.own) \cup staged \subseteq Range(branch'.own)
               /\ dirty' = dirty \ staged /\ staged' = {}
<1>0. GitInv /\ TreeInv
  BY DEF TypeInv
<1>1. Settled \in Opens /\ open \in Opens
  BY <1>0, EmptyHasNone, TipIs DEF Settled, Opens, GitInv
<1>2. CASE /\ ContinueRebase /\ open' = Settled
           /\ branch' = [base |-> open.onto, own |-> open.done \o Rest]
  <2>1. /\ open.done \o open.todo \in Seq(Changes)
        /\ Range(open.done \o open.todo) = Range(open.done) \cup Range(open.todo)
    BY <1>0, TipIs, ConcatHas
  <2>2. branch' \in Branches /\ branch'.base = open.onto /\ branch'.own = open.done \o open.todo
    BY <1>0, <1>2, <2>1, TipIs DEF Branches, Rest
  <2> QED
    BY <1>1, <1>2, <2>1, <2>2 DEF ContinueRebase
<1>3. CASE /\ ContinueRebase /\ branch' = branch
           /\ \E n \in 1..Len(open.todo) - 1, paths \in (SUBSET Paths) \ {{}} :
                open' = [open EXCEPT !.done = @ \o SubSeq(Rest, 1, n),
                                     !.todo = SubSeq(Rest, n + 1, Len(Rest)),
                                     !.unmerged = paths]
  <2>1. PICK n \in 1..Len(open.todo) - 1, paths \in (SUBSET Paths) \ {{}} :
                open' = [open EXCEPT !.done = @ \o SubSeq(Rest, 1, n),
                                     !.todo = SubSeq(Rest, n + 1, Len(Rest)),
                                     !.unmerged = paths]
    BY <1>3
  <2> DEFINE a == SubSeq(open.todo, 1, n)
             b == SubSeq(open.todo, n + 1, Len(open.todo))
  <2>2. n \in 0..Len(open.todo)
    BY <1>0, TipIs, EntriesAre
  <2>3. /\ a \in Seq(Changes) /\ b \in Seq(Changes)
        /\ Range(open.todo) = Range(a) \cup Range(b)
    BY <1>0, <2>2, TipIs, SplitHas
  <2>4. open' = [open EXCEPT !.done = open.done \o a, !.todo = b, !.unmerged = paths]
    BY <2>1 DEF Rest
  <2> HIDE DEF a, b
  <2>5. open.done \o a \in Seq(Changes) /\ Range(open.done \o a) = Range(open.done) \cup Range(a)
    BY <1>0, <2>3, TipIs, ConcatHas
  <2>6. /\ open' \in Opens /\ open'.op = open.op /\ open'.onto = open.onto
        /\ open'.done = open.done \o a /\ open'.todo = b
    BY <1>1, <2>3, <2>4, <2>5 DEF Opens
  <2>7. branch' \in Branches /\ open.op = "rebase" /\ UNCHANGED <<dirty, staged>>
    BY <1>0, <1>3 DEF GitInv, ContinueRebase
  <2> QED
    BY <1>3, <2>3, <2>5, <2>6, <2>7
<1>4. CASE ContinueMerge
  <2> DEFINE q == SetToSeq(staged)
             m == <<Merge>>
             t == q \o m
             own == branch.own \o t
  <2>1. q \in Seq(Changes) /\ m \in Seq(Changes) /\ staged \subseteq Range(q)
    BY <1>0, StagedAre DEF Changes
  <2> HIDE DEF q, m
  <2>2. t \in Seq(Changes) /\ Range(q) \subseteq Range(t)
    BY <2>1, ConcatHas
  <2> HIDE DEF t
  <2>3. own \in Seq(Changes) /\ Range(own) = Range(branch.own) \cup Range(t)
    BY <1>0, <2>2, TipIs, ConcatHas
  <2>4. (branch.own \o q) \o m = own
    <3>1. branch.own \in Seq(Changes)
      BY <1>0, TipIs
    <3>2. \A s1, s2, s3 \in Seq(Changes) : (s1 \o s2) \o s3 = s1 \o (s2 \o s3)
      BY ConcatAssociative
    <3> QED
      BY <2>1, <3>1, <3>2, Zenon DEF t
  <2>5. branch' = [base |-> IF open.onto > branch.base THEN open.onto ELSE branch.base, own |-> own]
    BY <1>4, <2>4 DEF ContinueMerge, q, m
  <2>6. (IF open.onto > branch.base THEN open.onto ELSE branch.base) \in Nat
    BY <1>0, TipIs
  <2> HIDE DEF own
  <2>7. /\ branch' \in Branches /\ branch'.own = own
        /\ branch'.base = IF open.onto > branch.base THEN open.onto ELSE branch.base
    BY <2>3, <2>5, <2>6 DEF Branches
  <2>8. staged \subseteq Range(own)
    BY <2>1, <2>2, <2>3
  <2> QED
    BY <1>1, <1>4, <2>3, <2>7, <2>8 DEF ContinueMerge
<1> QED
  BY <1>2, <1>3, <1>4 DEF ContinueRebase

(* Resume, from resolve or from another tab.                               *)
LEMMA ResumeIs ==
  ASSUME TypeInv, NEW u \in Users, Resume(u)
  PROVE  /\ UNCHANGED <<remote, backend, protected, tracked, stray, queued, runVars, picked,
                        saved, discarded, began>>
         /\ at' = at \/ (at[u] = "resume" /\ at' = [at EXCEPT ![u] = "idle"])
         /\ calls' \in [Runs \cup Users -> Nat] /\ alone' \in [Runs -> BOOLEAN]
         /\ ContinueRebase \/ ContinueMerge \/ UNCHANGED <<branch, open, dirty, staged>>
<1>1. UNCHANGED <<remote, backend, protected, tracked, stray, queued, runVars, picked,
                  saved, discarded, began>>
  BY DEF Resume
<1>2. CASE at[u] = "resume" /\ UNCHANGED <<calls, alone>> /\ at' = [at EXCEPT ![u] = "idle"]
  BY <1>1, <1>2 DEF Resume, Resumes, TypeInv, UsersInv, RunsInv
<1>3. CASE Called(u) /\ UNCHANGED at
  BY <1>1, <1>3, CalledTypes DEF Resume, Resumes
<1> QED
  BY <1>2, <1>3 DEF Resume

LEMMA ResumeTypes ==
  ASSUME TypeInv, NEW u \in Users, Resume(u)
  PROVE  TypeInv'
<1>0. GitInv /\ TreeInv /\ UsersInv
  BY DEF TypeInv
<1>1. /\ UNCHANGED <<remote, backend, protected, tracked, stray, queued, runVars, picked,
                     saved, discarded, began>>
      /\ calls' \in [Runs \cup Users -> Nat] /\ alone' \in [Runs -> BOOLEAN]
  BY ResumeIs
<1>2. UsersInv'
  BY <1>0, <1>1, ResumeIs DEF UsersInv
<1>3. RunsInv'
  BY <1>1 DEF TypeInv, RunsInv, runVars
<1>4. CASE UNCHANGED <<branch, open, dirty, staged>>
  BY <1>0, <1>1, <1>2, <1>3, <1>4 DEF TypeInv, GitInv, TreeInv
<1>5. CASE ContinueRebase \/ ContinueMerge
  <2>1. /\ branch' \in Branches /\ open' \in Opens /\ branch'.base <= tracked /\ open'.onto <= tracked
        /\ open'.op = "none" => open' = Settled
    <3>1. Settled.onto = 0 /\ 0 <= tracked
      BY <1>0, TipIs DEF Settled
    <3>2. branch.base <= tracked /\ open.onto <= tracked
      BY <1>0 DEF GitInv
    <3> QED
      BY <1>5, <3>1, <3>2, ContinuedIs
  <2>2. dirty' \subseteq dirty /\ staged' \subseteq dirty'
    BY <1>0, <1>5, ContinuedIs DEF TreeInv
  <2>3. GitInv'
    BY <1>0, <1>1, <2>1 DEF GitInv
  <2>4. TreeInv'
    BY <1>0, <1>1, <2>2 DEF TreeInv
  <2> QED
    BY <1>2, <1>3, <2>3, <2>4 DEF TypeInv
<1> QED
  BY <1>4, <1>5, ResumeIs

LEMMA UndoTypes ==
  ASSUME TypeInv, NEW u \in Users, Undo(u)
  PROVE  TypeInv'
<1>0. GitInv /\ TreeInv /\ UsersInv
  BY DEF TypeInv
<1>1. /\ UNCHANGED <<remote, backend, protected, tracked, branch, queued, runVars, userVars, saved, began>>
      /\ open' = Settled /\ staged' = {} /\ dirty' \subseteq dirty /\ stray' \subseteq stray
  BY DEF Undo
<1>2. calls' \in [Runs \cup Users -> Nat] /\ alone' \in [Runs -> BOOLEAN]
  BY CalledTypes DEF Undo
<1>3. Settled \in Opens /\ Settled.onto = 0 /\ 0 <= tracked
  BY <1>0, EmptyHasNone, TipIs DEF Settled, Opens
<1>4. GitInv'
  BY <1>0, <1>1, <1>3 DEF GitInv
<1>5. TreeInv'
  BY <1>0, <1>1 DEF TreeInv
<1> QED
  BY <1>1, <1>2, <1>4, <1>5 DEF TypeInv, RunsInv, UsersInv, runVars, userVars


LEMMA TypesStay ==
  ASSUME TypeInv, [Next]_vars
  PROVE  TypeInv'
<1>1. CASE UNCHANGED vars
  BY <1>1 DEF TypeInv, GitInv, TreeInv, RunsInv, UsersInv, vars, gitVars, treeVars, runVars,
     userVars, histVars
<1>2. ASSUME NEW e \in Edits, Save(e) \/ CommitOnSave(e) \/ CommitPath(e) PROVE TypeInv'
  <2>1. CASE CommitOnSave(e) \/ CommitPath(e)
    BY <2>1, CommitTypes DEF CommitOnSave, CommitPath
  <2> QED
    BY <1>2, <2>1, SaveTypes
<1>3. ASSUME NEW o \in Others, Publish(o) PROVE TypeInv'
  BY <1>3, PublishTypes
<1>4. ASSUME NEW r \in Runs, Stepping(r) PROVE TypeInv'
  BY <1>4, StepIs, StepTypes, StepGit DEF TypeInv
<1>5. ASSUME NEW r \in Runs, Sync(r) PROVE TypeInv'
  BY <1>5, SyncTypes
<1>6. ASSUME NEW u \in Users,
             (\E p \in Paths : Resolve(u, p)) \/ WriteResolution(u) \/ Resume(u) \/ Undo(u)
      PROVE  TypeInv'
  BY <1>6, ResolveTypes, WriteTypes, ResumeTypes, UndoTypes
<1> QED
  BY <1>1, <1>2, <1>3, <1>4, <1>5, <1>6 DEF Next, Stepping

-----------------------------------------------------------------------------
(* Nothing is lost.                                                        *)
LEMMA LossStays ==
  ASSUME LossInv, UNCHANGED <<remote, branch, open, dirty, saved, discarded>>
  PROVE  LossInv'
BY DEF LossInv, Backed, NothingLost

LEMMA SaveLoses ==
  ASSUME TypeInv, LossInv, NEW e \in Edits, Save(e)
  PROVE  LossInv'
BY DEF Save, gitVars, LossInv, Backed, NothingLost

LEMMA CommitLoses ==
  ASSUME TypeInv, LossInv, NEW e \in Edits, Committed(e)
  PROVE  LossInv'
<1>0. GitInv /\ e \in Changes /\ remote' = remote /\ saved' = saved /\ discarded' = discarded
  BY CommittedIs DEF TypeInv, Changes, histVars
<1>1. CASE UNCHANGED <<branch, open, dirty>>
  BY <1>0, <1>1, LossStays
<1>2. CASE /\ e \in dirty /\ Detached /\ branch' = branch /\ dirty' = dirty \ {e}
           /\ open' = [open EXCEPT !.done = Append(open.done, e)]
  <2>1. Range(Append(open.done, e)) = Range(open.done) \cup {e}
    BY <1>0, TipIs, AppendHas
  <2>2. open'.done = Append(open.done, e) /\ open'.todo = open.todo /\ open'.op = open.op
        /\ open.op = "rebase"
    BY <1>0, <1>2 DEF GitInv, Opens, Detached
  <2> QED
    BY <1>0, <1>2, <2>1, <2>2 DEF LossInv, Backed, NothingLost
<1>3. CASE /\ e \in dirty /\ open.op = "none" /\ open' = open /\ dirty' = dirty \ {e}
           /\ branch' = [branch EXCEPT !.own = Append(branch.own, e)]
  <2>1. Range(Append(branch.own, e)) = Range(branch.own) \cup {e}
    BY <1>0, TipIs, AppendHas
  <2>2. branch'.own = Append(branch.own, e)
    BY <1>0, <1>3 DEF GitInv, Branches
  <2> QED
    BY <1>0, <1>3, <2>1, <2>2 DEF LossInv, Backed, NothingLost
<1> QED
  BY <1>1, <1>2, <1>3, CommittedIs

LEMMA PublishLoses ==
  ASSUME TypeInv, LossInv, NEW o \in Others, Publish(o)
  PROVE  LossInv'
<1>0. GitInv /\ o \in Changes
  BY DEF TypeInv, Changes
<1>1. /\ UNCHANGED <<branch, open, dirty, saved, discarded>> /\ remote' = Append(remote, o)
  BY DEF Publish, treeVars, histVars
<1>2. Range(remote) \subseteq Range(remote')
  BY <1>0, <1>1, TipIs, AppendHas
<1> QED
  BY <1>1, <1>2 DEF LossInv, Backed, NothingLost

(* What a step of a run takes off a branch is on another one, published or *)
(* in what the go-git backend is known to discard.                         *)
LEMMA StepLoses ==
  ASSUME TypeInv, LossInv, NEW r \in Runs, Stepping(r)
  PROVE  LossInv'
<1>0. GitInv /\ TreeInv /\ saved' = saved /\ Step(r)
  BY StepIs DEF TypeInv, Step, RunKeeps
<1>1. Merge \notin saved
  BY <1>0, SyncRunAssumption DEF TreeInv
<1>2. CASE Integrate(r)
  <2>1. UNCHANGED <<remote, dirty, discarded>>
    BY <1>2 DEF Integrate, treeVars, histVars
  <2>2. CASE UNCHANGED <<branch, open>>
    BY <1>0, <2>1, <2>2, LossStays
  <2>3. CASE open.op = "none" /\ open' = open /\ branch' \in {Rebased, Joined}
    <3>1. open = Settled
      BY <1>0, <2>3 DEF GitInv
    <3>2. open.todo = <<>> /\ Range(open.todo) = {} /\ Range(open.done) = {}
      BY <3>1, EmptyHasNone DEF Settled
    <3>3. Range(branch.own) \ {Merge} \subseteq Range(Rebased.own) \cup Range(remote)
      BY <1>0, ReplayedIs DEF Rebased
    <3>4. Range(branch.own) \subseteq Range(Joined.own)
      <4>1. branch.own \in Seq(Changes) /\ Merge \in Changes
        BY <1>0, TipIs DEF Changes
      <4>2. Range(Append(branch.own, Merge)) = Range(branch.own) \cup {Merge}
        BY <4>1, AppendHas
      <4> QED
        BY <4>2 DEF Joined
    <3> QED
      BY <1>0, <1>1, <2>1, <2>3, <3>2, <3>3, <3>4 DEF LossInv, Backed, NothingLost
  <2>4. CASE /\ open.op = "none" /\ branch' = branch
             /\ \/ \E n \in 0..Len(Replayed), paths \in SUBSET Paths : open' = Stopped("rebase", n, paths)
                \/ \E paths \in SUBSET Paths : open' = Stopped("merge", 0, paths)
    <3>1. 0 \in 0..Len(Replayed)
      BY <1>0, ReplayedIs
    <3>2. /\ Range(Replayed) = Range(open'.done) \cup Range(open'.todo)
          /\ open'.op = "merge" => open'.done = <<>>
      <4>1. CASE \E n \in 0..Len(Replayed), paths \in SUBSET Paths : open' = Stopped("rebase", n, paths)
        BY <1>0, <4>1, StoppedIs
      <4>2. CASE \E paths \in SUBSET Paths : open' = Stopped("merge", 0, paths)
        BY <1>0, <3>1, <4>2, StoppedIs
      <4> QED
        BY <2>4, <4>1, <4>2
    <3>3. open = Settled
      BY <1>0, <2>4 DEF GitInv
    <3>4. Range(open.todo) = {} /\ Range(open.done) = {}
      BY <3>3, EmptyHasNone DEF Settled
    <3>5. /\ Range(Replayed) \subseteq Range(branch.own)
          /\ Range(branch.own) \ {Merge} \subseteq Range(Replayed) \cup Range(remote)
      BY <1>0, ReplayedIs
    <3> QED
      BY <1>0, <2>1, <2>4, <3>2, <3>4, <3>5 DEF LossInv, Backed, NothingLost
  <2>5. 0..Len(Replayed) - 1 \subseteq 0..Len(Replayed)
    BY <1>0, ReplayedIs
  <2> QED
    BY <1>2, <2>2, <2>3, <2>4, <2>5 DEF Integrate
<1>3. CASE HardReset(r)
  <2>1. /\ branch' = [base |-> tracked, own |-> <<>>] /\ UNCHANGED <<remote, open>> /\ dirty' = {}
        /\ discarded' = discarded \cup dirty \cup (Range(branch.own) \ Range(remote))
    BY <1>3 DEF HardReset
  <2>2. branch'.own = <<>> /\ Range(branch'.own) = {}
    BY <2>1, EmptyHasNone
  <2> QED
    BY <1>0, <2>1, <2>2 DEF LossInv, Backed, NothingLost
<1>4. CASE Push(r)
  <2>1. Landed /\ UNCHANGED <<dirty, discarded>>
    BY <1>4 DEF Push, treeVars, histVars
  <2>2. Range(remote') = Range(remote) \cup Range(Tip.own)
    BY <1>0, <2>1, SentIs DEF Landed
  <2>3. CASE Detached
    <3>1. open' = [open EXCEPT !.onto = Len(remote'), !.done = <<>>] /\ branch' = branch
      BY <2>1, <2>3 DEF Landed
    <3>2. open'.done = <<>> /\ Range(open'.done) = {} /\ open'.todo = open.todo /\ open'.op = open.op
          /\ open.op = "rebase"
      BY <1>0, <2>3, <3>1, EmptyHasNone DEF GitInv, Opens, Detached
    <3>3. Range(remote') = Range(remote) \cup Range(open.done)
      BY <2>2, <2>3 DEF Tip
    <3> QED
      BY <1>0, <2>1, <3>1, <3>2, <3>3 DEF LossInv, Backed, NothingLost
  <2>4. CASE ~Detached
    <3>1. branch' = [base |-> Len(remote'), own |-> <<>>] /\ open' = open
      BY <2>1, <2>4 DEF Landed
    <3>2. branch'.own = <<>> /\ Range(branch'.own) = {}
      BY <3>1, EmptyHasNone
    <3>3. Range(remote') = Range(remote) \cup Range(branch.own)
      BY <2>2, <2>4 DEF Tip
    <3> QED
      BY <1>0, <2>1, <3>1, <3>2, <3>3 DEF LossInv, Backed, NothingLost
  <2> QED
    BY <2>3, <2>4
<1>5. CASE Killed(r)
  <2>1. UNCHANGED <<dirty, discarded>>
    BY <1>5 DEF Killed, treeVars, histVars
  <2>2. CASE /\ open.op = "none" /\ UNCHANGED <<remote, branch>>
             /\ \E n \in 0..Len(Replayed) - 1 : open' = Stopped("rebase", n, {})
    <3>1. 0..Len(Replayed) - 1 \subseteq 0..Len(Replayed)
      BY <1>0, ReplayedIs
    <3>2. Range(Replayed) = Range(open'.done) \cup Range(open'.todo) /\ open'.op = "rebase"
      BY <1>0, <2>2, <3>1, StoppedIs
    <3>3. open = Settled
      BY <1>0, <2>2 DEF GitInv
    <3>4. Range(open.todo) = {} /\ Range(open.done) = {}
      BY <3>3, EmptyHasNone DEF Settled
    <3>5. /\ Range(Replayed) \subseteq Range(branch.own)
          /\ Range(branch.own) \ {Merge} \subseteq Range(Replayed) \cup Range(remote)
      BY <1>0, ReplayedIs
    <3> QED
      BY <1>0, <2>1, <2>2, <3>2, <3>4, <3>5 DEF LossInv, Backed, NothingLost
  <2>3. CASE Sent /\ UNCHANGED <<branch, open>>
    <3>1. Range(remote) \subseteq Range(remote')
      BY <1>0, <2>3, SentIs
    <3> QED
      BY <1>0, <2>1, <2>3, <3>1 DEF LossInv, Backed, NothingLost
  <2> QED
    BY <1>5, <2>2, <2>3 DEF Killed
<1>6. CASE Fetch(r) \/ Flushed(r) \/ Preflight(r) \/ Status(r) \/ IntegrateFailure(r) \/ GoGitCheck(r)
           \/ Ahead(r) \/ Target(r) \/ PushRejected(r) \/ Finish(r) \/ Fails(r)
  BY <1>0, <1>6, LossStays DEF Fetch, Flushed, Preflight, Status, IntegrateFailure, GoGitCheck, Ahead,
     Target, PushRejected, Finish, Fails, gitVars, treeVars, histVars
<1> QED
  BY <1>2, <1>3, <1>4, <1>5, <1>6 DEF Stepping, Run

LEMMA ResumeLoses ==
  ASSUME TypeInv, LossInv, NEW u \in Users, Resume(u)
  PROVE  LossInv'
<1>0. GitInv /\ TreeInv /\ UNCHANGED <<remote, saved, discarded>>
  BY ResumeIs DEF TypeInv
<1>1. Merge \notin saved
  BY <1>0, SyncRunAssumption DEF TreeInv
<1>2. Range(Settled.todo) = {} /\ Range(Settled.done) = {} /\ Settled.op = "none"
  BY EmptyHasNone DEF Settled
<1>3. CASE UNCHANGED <<branch, open, dirty, staged>>
  BY <1>0, <1>3, LossStays
<1>4. CASE ContinueRebase \/ ContinueMerge
  BY <1>0, <1>1, <1>2, <1>4, ContinuedIs, EmptyHasNone DEF LossInv, Backed, NothingLost
<1> QED
  BY <1>3, <1>4, ResumeIs

LEMMA UndoLoses ==
  ASSUME TypeInv, LossInv, NEW u \in Users, Undo(u)
  PROVE  LossInv'
<1>0. GitInv
  BY DEF TypeInv
<1>1. /\ UNCHANGED <<remote, branch, saved>> /\ open' = Settled /\ open.op # "none"
      /\ discarded' = discarded \cup (dirty \ dirty')
                                \cup (Range(open.done) \ (Range(branch.own) \cup Range(remote)))
  BY DEF Undo
<1>2. Range(Settled.todo) = {} /\ Settled.op = "none"
  BY EmptyHasNone DEF Settled
<1> QED
  BY <1>0, <1>1, <1>2 DEF LossInv, Backed, NothingLost

LEMMA WriteLoses ==
  ASSUME TypeInv, LossInv, NEW u \in Users, WriteResolution(u)
  PROVE  LossInv'
<1>1. UNCHANGED <<remote, branch, dirty, saved, discarded>>
  BY DEF WriteResolution, histVars
<1>2. open'.op = open.op /\ open'.done = open.done /\ open'.todo = open.todo
  BY DEF WriteResolution, TypeInv, GitInv, Opens
<1> QED
  BY <1>1, <1>2 DEF LossInv, Backed, NothingLost

LEMMA LossKeeps ==
  ASSUME TypeInv, LossInv, [Next]_vars
  PROVE  LossInv'
<1>1. CASE UNCHANGED vars
  BY <1>1, LossStays DEF vars, gitVars, treeVars, histVars
<1>2. ASSUME NEW e \in Edits, Save(e) \/ CommitOnSave(e) \/ CommitPath(e) PROVE LossInv'
  <2>1. CASE CommitOnSave(e) \/ CommitPath(e)
    BY <2>1, CommitLoses DEF CommitOnSave, CommitPath
  <2> QED
    BY <1>2, <2>1, SaveLoses
<1>3. ASSUME NEW o \in Others, Publish(o) PROVE LossInv'
  BY <1>3, PublishLoses
<1>4. ASSUME NEW r \in Runs, Stepping(r) PROVE LossInv'
  BY <1>4, StepLoses
<1>5. ASSUME NEW r \in Runs, Sync(r) PROVE LossInv'
  BY <1>5, LossStays DEF Sync, gitVars, treeVars
<1>6. ASSUME NEW u \in Users,
             (\E p \in Paths : Resolve(u, p)) \/ WriteResolution(u) \/ Resume(u) \/ Undo(u)
      PROVE  LossInv'
  <2>1. CASE \E p \in Paths : Resolve(u, p)
    BY <2>1, LossStays DEF Resolve, gitVars, treeVars
  <2> QED
    BY <1>6, <2>1, WriteLoses, ResumeLoses, UndoLoses
<1> QED
  BY <1>1, <1>2, <1>3, <1>4, <1>5, <1>6 DEF Next, Stepping

-----------------------------------------------------------------------------
(* The branches go forward.                                                *)
Forward == /\ branch.base <= branch'.base /\ IsPrefix(remote, remote')
           /\ Range(remote) \subseteq Range(remote')

LEMMA SamePrefix == ASSUME GitInv PROVE IsPrefix(remote, remote) /\ branch.base <= branch.base
<1>1. Len(remote) \in Nat /\ branch.base \in Nat
  BY TipIs
<1> QED
  BY <1>1 DEF IsPrefix

LEMMA OnwardStays ==
  ASSUME TypeInv, OnwardOnly, UNCHANGED <<remote, branch, backend, pc>>,
         open'.op = open.op, open'.onto = open.onto
  PROVE  OnwardOnly' /\ Forward
<1>1. IsPrefix(remote, remote') /\ branch.base <= branch'.base
  BY SamePrefix DEF TypeInv
<1> QED
  BY <1>1 DEF OnwardOnly, Forward

LEMMA StepOnward ==
  ASSUME TypeInv, OnwardOnly, NEW r \in Runs, Stepping(r)
  PROVE  OnwardOnly' /\ Forward
<1>0. /\ GitInv /\ Step(r) /\ backend' = backend /\ pc \in [Runs -> Places]
      /\ branch.base \in Nat /\ tracked \in Nat /\ branch.base <= tracked
  BY StepIs, TipIs DEF TypeInv, GitInv, RunsInv, Step, RunKeeps
<1>1. \A s \in Runs : pc'[s] = "reset" => backend = "go-git"
  <2>1. pc'[r] = "reset" => backend = "go-git"
    <3>1. CASE GoGitCheck(r)
      BY <3>1 DEF GoGitCheck
    <3>2. CASE Status(r)
      BY <1>0, <3>2, EndIs DEF Status, Goto, End
    <3>3. CASE Integrate(r)
      BY <1>0, <3>3, PulledIs DEF Integrate, Goto
    <3>4. CASE HardReset(r)
      BY <1>0, <3>4, PulledIs DEF HardReset
    <3>5. CASE Push(r)
      BY <1>0, <3>5, PushIs
    <3>6. CASE Flushed(r) \/ Preflight(r) \/ Fetch(r) \/ IntegrateFailure(r) \/ Ahead(r) \/ Target(r)
               \/ PushRejected(r) \/ Finish(r) \/ Fails(r) \/ Killed(r)
      BY <1>0, <3>6 DEF Flushed, Preflight, Fetch, IntegrateFailure, Ahead, Target, PushRejected,
         Finish, Fails, Killed, Fail, End, Goto
    <3> QED
      BY <3>1, <3>2, <3>3, <3>4, <3>5, <3>6 DEF Stepping, Run
  <2>2. \A s \in Runs : s # r => pc'[s] = pc[s]
    BY <1>0 DEF Step
  <2> QED
    BY <2>1, <2>2 DEF OnwardOnly
<1>2. ASSUME UNCHANGED <<branch, open, remote>> PROVE OnwardOnly' /\ Forward
  <2>1. IsPrefix(remote, remote') /\ branch.base <= branch'.base
    BY <1>0, <1>2, SamePrefix
  <2> QED
    BY <1>0, <1>1, <1>2, <2>1 DEF OnwardOnly, Forward
<1>3. ASSUME remote' = remote, open' = open, branch'.base = tracked,
             open.op = "none" \/ backend = "go-git"
      PROVE  OnwardOnly' /\ Forward
  <2>1. IsPrefix(remote, remote') /\ branch.base <= branch'.base
    BY <1>0, <1>3, SamePrefix
  <2> QED
    BY <1>0, <1>1, <1>3, <2>1 DEF OnwardOnly, Forward
<1>4. ASSUME UNCHANGED <<branch, remote>>, open'.onto = tracked, backend = "system"
      PROVE  OnwardOnly' /\ Forward
  <2>1. IsPrefix(remote, remote') /\ branch.base <= branch'.base
    BY <1>0, <1>4, SamePrefix
  <2> QED
    BY <1>0, <1>1, <1>4, <2>1 DEF OnwardOnly, Forward
<1>5. CASE Integrate(r)
  <2>1. backend = "system" /\ remote' = remote
    BY <1>5 DEF Integrate
  <2>2. Rebased.base = tracked /\ Joined.base = tracked
    BY DEF Rebased, Joined
  <2>3. ASSUME NEW op, NEW n, NEW paths, open' = Stopped(op, n, paths), branch' = branch
        PROVE  OnwardOnly' /\ Forward
    BY <1>4, <2>1, <2>3 DEF Stopped
  <2> QED
    BY <1>2, <1>3, <1>5, <2>1, <2>2, <2>3 DEF Integrate
<1>6. CASE HardReset(r)
  <2>1. branch'.base = tracked /\ remote' = remote /\ open' = open /\ backend = "go-git"
    BY <1>6 DEF HardReset, OnwardOnly
  <2> QED
    BY <1>3, <2>1
<1>7. ASSUME Sent PROVE /\ IsPrefix(remote, remote') /\ Range(remote) \subseteq Range(remote')
                        /\ Len(remote') \in Nat /\ tracked <= Len(remote')
  BY <1>0, <1>7, SentIs, TipIs
<1>8. CASE Push(r)
  <2>1. Landed
    BY <1>8 DEF Push
  <2>2. Sent
    BY <2>1 DEF Landed
  <2>3. CASE Detached
    <3>1. open' = [open EXCEPT !.onto = Len(remote'), !.done = <<>>] /\ branch' = branch
      BY <2>1, <2>3 DEF Landed
    <3>2. open'.op = open.op /\ open'.onto = Len(remote')
      BY <1>0, <3>1 DEF GitInv, Opens
    <3>3. branch.base <= Len(remote') /\ branch.base <= branch.base
      BY <1>0, <1>7, <2>2
    <3> QED
      BY <1>0, <1>1, <1>7, <2>2, <3>1, <3>2, <3>3 DEF OnwardOnly, Forward
  <2>4. CASE ~Detached
    <3>1. branch'.base = Len(remote') /\ open' = open
      BY <2>1, <2>4 DEF Landed
    <3>2. branch.base <= Len(remote')
      BY <1>0, <1>7, <2>2
    <3> QED
      BY <1>0, <1>1, <1>7, <2>2, <2>4, <3>1, <3>2 DEF OnwardOnly, Forward, Detached
  <2> QED
    BY <2>3, <2>4
<1>9. CASE Killed(r)
  <2>1. CASE /\ UNCHANGED <<remote, branch>> /\ backend = "system"
             /\ \E n \in 0..Len(Replayed) - 1 : open' = Stopped("rebase", n, {})
    BY <1>4, <2>1 DEF Stopped
  <2>2. CASE Sent /\ UNCHANGED <<branch, open>>
    <3>1. branch.base <= branch.base
      BY <1>0
    <3> QED
      BY <1>0, <1>1, <1>7, <2>2, <3>1 DEF OnwardOnly, Forward
  <2> QED
    BY <1>9, <2>1, <2>2 DEF Killed
<1>10. CASE Fetch(r) \/ Flushed(r) \/ Preflight(r) \/ Status(r) \/ IntegrateFailure(r) \/ GoGitCheck(r)
            \/ Ahead(r) \/ Target(r) \/ PushRejected(r) \/ Finish(r) \/ Fails(r)
  BY <1>2, <1>10 DEF Fetch, Flushed, Preflight, Status, IntegrateFailure, GoGitCheck, Ahead,
     Target, PushRejected, Finish, Fails, gitVars
<1> QED
  BY <1>5, <1>6, <1>8, <1>9, <1>10 DEF Stepping, Run

LEMMA CommitOnward ==
  ASSUME TypeInv, OnwardOnly, NEW e \in Edits, Committed(e)
  PROVE  OnwardOnly' /\ Forward /\ (open.op = "none" => open' = open)
         /\ Range(branch.own) \subseteq Range(branch'.own) /\ Len(branch.own) <= Len(branch'.own)
<1>0. GitInv /\ UNCHANGED <<remote, backend, pc>> /\ branch.base \in Nat /\ e \in Changes
      /\ Len(branch.own) \in Nat
  BY CommittedIs, TipIs DEF TypeInv, runVars, Changes
<1>1. CASE UNCHANGED <<branch, open>>
  BY <1>0, <1>1, OnwardStays
<1>2. CASE Detached /\ branch' = branch /\ open' = [open EXCEPT !.done = Append(open.done, e)]
  <2>1. open'.op = open.op /\ open'.onto = open.onto
    BY <1>0, <1>2 DEF GitInv, Opens
  <2> QED
    BY <1>0, <1>2, <2>1, OnwardStays DEF Detached
<1>3. CASE open' = open /\ branch' = [branch EXCEPT !.own = Append(branch.own, e)]
  <2>1. branch'.own = Append(branch.own, e) /\ branch'.base = branch.base
    BY <1>0, <1>3 DEF GitInv, Branches
  <2>2. /\ Range(Append(branch.own, e)) = Range(branch.own) \cup {e}
        /\ Len(Append(branch.own, e)) = Len(branch.own) + 1
    BY <1>0, TipIs, AppendHas, AppendProperties
  <2>3. IsPrefix(remote, remote) /\ branch.base <= branch'.base
    BY <1>0, <2>1, SamePrefix
  <2>4. OnwardOnly' /\ Forward
    BY <1>0, <1>3, <2>1, <2>3 DEF OnwardOnly, Forward
  <2> QED
    BY <1>0, <1>3, <2>1, <2>2, <2>4
<1> QED
  BY <1>1, <1>2, <1>3, CommittedIs

LEMMA PublishOnward ==
  ASSUME TypeInv, OnwardOnly, NEW o \in Others, Publish(o)
  PROVE  OnwardOnly' /\ Forward
<1>0. GitInv /\ o \in Changes /\ UNCHANGED <<branch, open, backend, pc>> /\ remote' = Append(remote, o)
  BY DEF TypeInv, Changes, Publish, runVars
<1>1. Range(remote) \subseteq Range(remote')
  BY <1>0, TipIs, AppendHas
<1>2. IsPrefix(remote, remote')
  <2>1. remote' = remote \o <<o>>
    BY <1>0, TipIs
  <2>2. <<o>> \in Seq(Changes)
    BY <1>0
  <2> QED
    BY <1>0, <2>1, <2>2, TipIs, ConcatHas
<1>3. branch.base <= branch'.base
  BY <1>0, SamePrefix
<1> QED
  BY <1>0, <1>1, <1>2, <1>3 DEF OnwardOnly, Forward

LEMMA UserOnward ==
  ASSUME TypeInv, OnwardOnly, NEW u \in Users,
         (\E p \in Paths : Resolve(u, p)) \/ WriteResolution(u) \/ Resume(u) \/ Undo(u)
  PROVE  OnwardOnly' /\ Forward
<1>0. GitInv /\ branch.base \in Nat /\ open.onto \in Nat
  BY TipIs DEF TypeInv
<1>1. CASE \E p \in Paths : Resolve(u, p)
  BY <1>1, OnwardStays DEF Resolve, gitVars, runVars
<1>2. CASE WriteResolution(u)
  <2>1. UNCHANGED <<remote, backend, branch, pc>> /\ open'.op = open.op /\ open'.onto = open.onto
    BY <1>0, <1>2 DEF WriteResolution, runVars, GitInv, Opens
  <2> QED
    BY <2>1, OnwardStays
<1>3. CASE Resume(u)
  <2>1. UNCHANGED <<remote, backend, pc>>
    BY <1>3, ResumeIs DEF runVars
  <2>2. IsPrefix(remote, remote')
    BY <1>0, <2>1, SamePrefix
  <2>3. CASE UNCHANGED <<branch, open>>
    BY <2>1, <2>3, OnwardStays
  <2>4. CASE ContinueRebase \/ ContinueMerge
    <3>1. branch.base <= branch'.base
      BY <1>0, <2>4, ContinuedIs DEF OnwardOnly
    <3>2. OnwardOnly'
      BY <1>0, <2>1, <2>4, ContinuedIs DEF OnwardOnly, Settled
    <3> QED
      BY <2>1, <2>2, <3>1, <3>2 DEF Forward
  <2> QED
    BY <1>3, <2>3, <2>4, ResumeIs
<1>4. CASE Undo(u)
  <2>1. UNCHANGED <<remote, backend, branch, pc>> /\ open'.op = "none"
    BY <1>4 DEF Undo, Settled, runVars
  <2>2. IsPrefix(remote, remote') /\ branch.base <= branch'.base
    BY <1>0, <2>1, SamePrefix
  <2> QED
    BY <2>1, <2>2 DEF OnwardOnly, Forward
<1> QED
  BY <1>1, <1>2, <1>3, <1>4

-----------------------------------------------------------------------------
(* Reports.                                                                *)
Told == \A r \in Runs : alone[r] => /\ pc[r] # "idle" => Counting(r)
                                    /\ pc[r] = "idle" => Reported(r)

(* What a run has reported stays true.                                     *)
LEMMA ReportedStays ==
  ASSUME TypeInv, Forward, GitInv', NEW r \in Runs, Reported(r), began'[r] = began[r],
         opts'[r] = opts[r],
         result'[r].phase = result[r].phase, result'[r].pulled = result[r].pulled,
         result'[r].pushed = result[r].pushed
  PROVE  Reported(r)'
<1>1. Unpublished(r)' \subseteq Unpublished(r)
  BY DEF Unpublished, Forward
<1>2. branch.base \in Nat /\ branch'.base \in Nat
  BY DEF TypeInv, GitInv, Branches
<1>3. Moved(r) \in Nat /\ Moved(r)' = Moved(r)
  <2>1. began[r] \in Branches /\ result[r] \in Results
    BY DEF TypeInv, RunsInv
  <2> QED
    BY <2>1 DEF Moved, Branches, Results
<1>4. result[r].phase = "done" => Moved(r) <= branch'.base
  BY <1>2, <1>3 DEF Forward, Reported
<1> QED
  BY <1>1, <1>3, <1>4 DEF Reported

(* A run that is alone counts on while others save, commit and publish.    *)
LEMMA CountingStays ==
  ASSUME TypeInv, Forward, GitInv', NEW r \in Runs, Counting(r),
         UNCHANGED <<pc, at, result, opts, began, tracked>>, branch'.base = branch.base,
         open.op = "none" => open'.op = "none",
         Range(branch.own) \subseteq Range(branch'.own), Len(branch.own) <= Len(branch'.own)
  PROVE  Counting(r)'
<1>1. Unpublished(r)' \subseteq Unpublished(r)
  BY DEF Unpublished, Forward
<1>2. Moved(r)' = Moved(r) /\ Busy' = Busy
  BY DEF Moved, Busy
<1>3. Len(branch.own) \in Nat /\ Len(branch'.own) \in Nat
  BY EntriesAre DEF TypeInv, GitInv, Branches
<1>4. result[r].after.ahead \in Nat
  BY DEF TypeInv, RunsInv, Results
<1>5. pc[r] = "send" => result[r].after.ahead <= Len(branch'.own)
  BY <1>3, <1>4 DEF Counting
<1> QED
  BY <1>1, <1>2, <1>5 DEF Counting

(* While a run is alone no other one moves.                                *)
LEMMA OthersTold ==
  ASSUME TypeInv, GitInv', Forward, Told, NEW r \in Runs, Step(r), NEW s \in Runs, s # r, alone'[s]
  PROVE  pc'[s] = "idle" /\ Reported(s)'
<1>1. /\ alone[s] /\ pc[r] # "idle" /\ pc'[s] = pc[s] /\ result'[s] = result[s]
      /\ began'[s] = began[s] /\ opts' = opts
  BY DEF TypeInv, RunsInv, Step, RunKeeps
<1>2. pc[s] = "idle"
  BY <1>1 DEF Told, Counting, Busy
<1>3. Reported(s)
  BY <1>1, <1>2 DEF Told
<1> QED
  BY <1>1, <1>2, <1>3, ReportedStays

(* What is to be shown of the run that moves.                              *)
Alone(r) == Busy' \subseteq {r} /\ \A u \in Users : at'[u] = "idle"

Going(r) == /\ open'.op = "none" /\ Moved(r)' <= branch'.base
            /\ Unpublished(r)' \subseteq Range(branch'.own)

LEMMA StepAlone ==
  ASSUME TypeInv, NEW r \in Runs, Step(r), Counting(r)
  PROVE  Alone(r)
<1>1. \A s \in Runs : s # r => pc'[s] = pc[s]
  BY DEF TypeInv, RunsInv, Step
<1> QED
  BY <1>1 DEF Counting, Busy, Alone, Step, RunKeeps

Middle == Places \ {"idle", "flush", "preflight", "classify"}

(* The step leaves the run in the middle.                                  *)
LEMMA MiddleCounts ==
  ASSUME NEW r \in Runs, Alone(r), Going(r), pc'[r] \in Middle,
         pc'[r] \in {"integrate", "reset"} => result'[r].after.behind = tracked' - branch'.base,
         pc'[r] = "send" => result'[r].after.ahead <= Len(branch'.own),
         pc'[r] = "reset" \/ (pc'[r] = "finish" /\ opts'[r].push) => Unpublished(r)' = {}
  PROVE  Counting(r)'
BY DEF Counting, Alone, Going, Middle, Places

LEMMA StepTold ==
  ASSUME TypeInv, TypeInv', OnwardOnly, NEW r \in Runs, Stepping(r), Counting(r)
  PROVE  /\ pc'[r] # "idle" => Counting(r)'
         /\ pc'[r] = "idle" => Reported(r)'
<1> DEFINE Goal == /\ pc'[r] # "idle" => Counting(r)'
                   /\ pc'[r] = "idle" => Reported(r)'
<1>0. /\ GitInv /\ GitInv' /\ Step(r) /\ Forward /\ Alone(r) /\ opts' = opts
      /\ pc \in [Runs -> Places] /\ result \in [Runs -> Results] /\ began \in [Runs -> Branches]
      /\ result[r] \in Results /\ began[r] \in Branches /\ began[r].base \in Nat
      /\ result[r].pulled \in Nat /\ result[r].pushed \in Nat
      /\ result[r].after.behind \in Nat /\ result[r].after.ahead \in Nat
  <2>1. Step(r)
    BY StepIs
  <2>2. result[r] \in Results /\ began[r] \in Branches
    BY DEF TypeInv, RunsInv
  <2> QED
    BY <2>1, <2>2, StepOnward, StepAlone
       DEF TypeInv, RunsInv, Step, RunKeeps, Results, Branches
<1>1. /\ branch.base \in Nat /\ tracked \in Nat /\ Len(branch.own) \in Nat /\ branch.base <= tracked
      /\ branch'.base \in Nat /\ Len(branch'.own) \in Nat
  BY <1>0, TipIs, EntriesAre DEF GitInv, Branches
<1>2. \/ /\ Unpublished(r) \subseteq Range(branch.own)
         /\ Moved(r) \in Nat /\ Moved(r) <= branch.base
         /\ open.op = "none"
      \/ pc[r] \in {"flush", "preflight", "classify"}
  BY <1>0 DEF Counting, Moved
<1>3. began' = began => Unpublished(r)' \subseteq Unpublished(r)
  BY <1>0 DEF Unpublished, Forward
<1>4. ASSUME NEW phase \in {"conflicts", "failed"}, End(r, phase) PROVE Goal
  BY <1>0, <1>4, EndIs DEF Reported
<1>5. ASSUME NEW code, Fail(r, code) PROVE Goal
  BY <1>4, <1>5 DEF Fail
<1> HIDE DEF Goal
<1>6. CASE Flushed(r)
  <2>1. pc'[r] = "preflight" /\ result' = result /\ pc[r] = "flush"
    BY <1>0, <1>6 DEF Flushed, Goto
  <2> QED
    BY <1>0, <2>1 DEF Goal, Counting, Alone
<1>7. CASE Preflight(r)
  <2>1. CASE \E code : Fail(r, code)
    BY <1>5, <2>1 DEF Goal
  <2>2. CASE ~ \E code : Fail(r, code)
    <3>1. /\ open.op = "none" /\ Goto(r, "fetch") /\ result' = result /\ pc[r] = "preflight"
          /\ began' = [began EXCEPT ![r] = branch] /\ UNCHANGED <<branch, open>>
      BY <1>7, <2>2 DEF Preflight, gitVars
    <3>2. pc'[r] = "fetch" /\ began'[r] = branch
      BY <1>0, <3>1 DEF Goto
    <3>3. result[r].pulled = 0 /\ result[r].pushed = 0
      BY <3>1 DEF Counting
    <3>4. Moved(r)' = branch.base
      BY <1>1, <3>1, <3>2, <3>3 DEF Moved
    <3>5. Going(r)
      BY <1>1, <3>1, <3>2, <3>4 DEF Going, Unpublished
    <3> QED
      BY <1>0, <3>2, <3>5, MiddleCounts DEF Goal, Middle, Places
  <2> QED
    BY <2>1, <2>2
<1>8. ASSUME began' = began, UNCHANGED <<branch, open>>, pc[r] \notin {"flush", "preflight", "classify"},
             result'[r].pulled = result[r].pulled, result'[r].pushed = result[r].pushed
      PROVE  Going(r)
  <2>1. Moved(r)' = Moved(r)
    BY <1>8 DEF Moved
  <2> QED
    BY <1>1, <1>2, <1>3, <1>8, <2>1 DEF Going
<1>9. CASE Fetch(r)
  <2>1. pc'[r] = "status" /\ result' = result /\ pc[r] = "fetch" /\ UNCHANGED <<branch, open, began>>
    BY <1>0, <1>9 DEF Fetch, Goto, histVars
  <2>2. Going(r)
    BY <1>8, <2>1
  <2> QED
    BY <1>0, <2>1, <2>2, MiddleCounts DEF Goal, Middle, Places
<1>10. CASE Status(r)
  <2>1. pc[r] = "status" /\ UNCHANGED <<branch, open, began, tracked, remote>>
    BY <1>10 DEF Status, gitVars, histVars
  <2>2. open.op = "none" /\ SyncStatus = [ahead |-> Len(branch.own), behind |-> tracked - branch.base]
    BY <1>2, <2>1 DEF SyncStatus, Detached
  <2>3. CASE opts[r].dry
    <3>1. End(r, "done")
      BY <1>10, <2>3 DEF Status
    <3>2. /\ pc'[r] = "idle" /\ result'[r].pulled = result[r].pulled
          /\ result'[r].pushed = result[r].pushed
      BY <1>0, <3>1, EndIs
    <3>3. Going(r)
      BY <1>8, <2>1, <3>2
    <3> QED
      BY <1>0, <2>3, <3>2, <3>3 DEF Goal, Reported, Going
  <2>4. CASE ~opts[r].dry
    <3>1. /\ Reads(r)
          /\ Goto(r, IF SyncStatus.behind > 0 THEN "integrate"
                     ELSE IF opts[r].push THEN "ahead" ELSE "finish")
      BY <1>10, <2>4 DEF Status
    <3>2. /\ result'[r].pulled = result[r].pulled /\ result'[r].pushed = result[r].pushed
          /\ result'[r].after = SyncStatus
      BY <3>1, ReadsIs
    <3>3. pc'[r] \in {"integrate", "ahead", "finish"} /\ (pc'[r] = "finish" => ~opts[r].push)
      BY <1>0, <3>1 DEF Goto
    <3>4. Going(r)
      BY <1>8, <2>1, <3>2
    <3>5. result'[r].after.behind = tracked' - branch'.base
      BY <2>1, <2>2, <3>2
    <3> QED
      BY <1>0, <3>3, <3>4, <3>5, MiddleCounts DEF Goal, Middle, Places
  <2> QED
    BY <2>3, <2>4
(* The branch is at the upstream after an integration.                     *)
<1>11. ASSUME Pulled(r), pc[r] \in {"integrate", "reset"}, began' = began, open' = open, remote' = remote,
              branch'.base = tracked, Unpublished(r) \subseteq Range(branch'.own) 
       PROVE  Goal
  <2>1. /\ pc'[r] = IF opts[r].push THEN "ahead" ELSE "finish"
        /\ result'[r].pulled = result[r].pulled + result[r].after.behind
        /\ result'[r].pushed = result[r].pushed
    BY <1>0, <1>11, PulledIs
  <2>2. result[r].after.behind = tracked - branch.base
    BY <1>11 DEF Counting
  <2>3. Moved(r)' = Moved(r) + (tracked - branch.base)
    <3>1. Moved(r)' = began[r].base + (result[r].pulled + (tracked - branch.base)) + result[r].pushed
      BY <1>11, <2>1, <2>2 DEF Moved
    <3>2. Moved(r) = began[r].base + result[r].pulled + result[r].pushed
      BY DEF Moved
    <3> QED
      BY <1>0, <1>1, <3>1, <3>2
  <2>4. Moved(r)' <= tracked
    BY <1>1, <1>2, <1>11, <2>3
  <2>5. Going(r)
    BY <1>2, <1>3, <1>11, <2>4 DEF Going
  <2> QED
    BY <1>0, <2>1, <2>5, MiddleCounts DEF Goal, Middle, Places
<1>12. CASE Integrate(r)
  <2>1. pc[r] = "integrate" /\ began' = began /\ remote' = remote
    BY <1>12 DEF Integrate, histVars
  <2>2. Unpublished(r) \subseteq Range(branch.own)
    BY <1>2, <2>1
  <2>3. CASE Pulled(r) /\ UNCHANGED <<branch, open>> /\ branch.base = tracked
    BY <1>11, <2>1, <2>2, <2>3 DEF Goal
  <2>4. CASE Pulled(r) /\ open' = open /\ branch' \in {Rebased, Joined}
    <3>1. Range(branch.own) \ {Merge} \subseteq Range(Rebased.own) \cup Range(remote)
      BY <1>0, ReplayedIs DEF Rebased
    <3>2. Range(branch.own) \subseteq Range(Joined.own)
      <4>1. branch.own \in Seq(Changes) /\ Merge \in Changes
        BY <1>0, TipIs DEF Changes
      <4>2. Range(Append(branch.own, Merge)) = Range(branch.own) \cup {Merge}
        BY <4>1, AppendHas
      <4> QED
        BY <4>2 DEF Joined
    <3>3. Unpublished(r) \subseteq Range(branch'.own)
      BY <2>2, <2>4, <3>1, <3>2 DEF Unpublished
    <3>4. branch'.base = tracked
      BY <2>4 DEF Rebased, Joined
    <3> QED
      BY <1>11, <2>1, <2>4, <3>3, <3>4 DEF Goal
  <2>5. CASE Goto(r, "classify")
    <3>1. pc'[r] = "classify"
      BY <1>0, <2>5 DEF Goto
    <3> QED
      BY <1>0, <3>1 DEF Goal, Counting, Alone
  <2> QED
    BY <1>12, <2>3, <2>4, <2>5 DEF Integrate
<1>13. CASE IntegrateFailure(r) \/ Fails(r) \/ Killed(r)
  BY <1>5, <1>13 DEF IntegrateFailure, Fails, Killed, Goal
<1>14. CASE GoGitCheck(r)
  <2>1. pc[r] = "integrate" /\ UNCHANGED <<branch, open, began, tracked, remote>>
    BY <1>14 DEF GoGitCheck, gitVars, histVars
  <2>2. open.op = "none" /\ SyncStatus = [ahead |-> Len(branch.own), behind |-> tracked - branch.base]
    BY <1>2, <2>1 DEF SyncStatus, Detached
  <2>3. CASE \E code : Fail(r, code)
    BY <1>5, <2>3 DEF Goal
  <2>4. CASE ~ \E code : Fail(r, code)
    <3>1. ~(SyncStatus.ahead > 0)
      BY <1>14, <2>4 DEF GoGitCheck
    <3>2. Len(branch.own) = 0
      BY <1>1, <2>2, <3>1
    <3>3. branch.own = <<>> /\ Range(branch.own) = {}
      BY <1>0, <3>2, TipIs, EmptySeq, EmptyHasNone
    <3>4. Unpublished(r) = {} /\ Unpublished(r)' = {}
      BY <1>2, <1>3, <2>1, <3>3
    <3>5. CASE Pulled(r) /\ SyncStatus.behind = 0
      <4>1. branch.base = tracked
        BY <1>1, <2>2, <3>5
      <4> QED
        BY <1>11, <2>1, <3>4, <3>5, <4>1 DEF Goal
    <3>6. CASE Goto(r, "reset") /\ UNCHANGED result
      <4>1. pc'[r] = "reset"
        BY <1>0, <3>6 DEF Goto
      <4>2. Going(r)
        BY <1>8, <2>1, <3>6
      <4>3. result'[r].after.behind = tracked' - branch'.base
        BY <2>1, <3>6 DEF Counting
      <4> QED
        BY <1>0, <3>4, <4>1, <4>2, <4>3, MiddleCounts DEF Goal, Middle, Places
    <3> QED
      BY <1>14, <2>4, <3>5, <3>6 DEF GoGitCheck
  <2> QED
    BY <2>3, <2>4
<1>15. CASE HardReset(r)
  <2>1. /\ pc[r] = "reset" /\ Pulled(r) /\ began' = began /\ open' = open /\ remote' = remote
        /\ branch'.base = tracked
    BY <1>15 DEF HardReset
  <2>2. Unpublished(r) = {}
    BY <2>1 DEF Counting
  <2> QED
    BY <1>11, <2>1, <2>2 DEF Goal
<1>16. CASE Ahead(r) \/ Target(r)
  <2>1. pc[r] \in {"ahead", "target"} /\ UNCHANGED <<branch, open, began, tracked, remote>>
    BY <1>16 DEF Ahead, Target, gitVars, histVars
  <2>2. open.op = "none" /\ SyncStatus = [ahead |-> Len(branch.own), behind |-> tracked - branch.base]
    BY <1>2, <2>1 DEF SyncStatus, Detached
  <2>3. Reads(r) /\ \E there \in {"finish", "target", "send"} :
           Goto(r, there) /\ (there = "finish" => SyncStatus.ahead = 0)
    BY <1>16, <2>2 DEF Ahead, Target, Detached
  <2>4. /\ result'[r].pulled = result[r].pulled /\ result'[r].pushed = result[r].pushed
        /\ result'[r].after = SyncStatus
    BY <2>3, ReadsIs
  <2>5. Going(r)
    BY <1>8, <2>1, <2>4
  <2>6. pc'[r] \in {"finish", "target", "send"} /\ (pc'[r] = "finish" => Len(branch.own) = 0)
    BY <1>0, <2>2, <2>3 DEF Goto
  <2>7. pc'[r] = "finish" => Unpublished(r)' = {}
    <3>1. Len(branch.own) = 0 => Range(branch.own) = {}
      BY <1>0, TipIs, EmptySeq, EmptyHasNone
    <3> QED
      BY <2>1, <2>5, <2>6, <3>1 DEF Going
  <2>8. result'[r].after.ahead <= Len(branch'.own)
    BY <1>1, <2>1, <2>2, <2>4
  <2> QED
    BY <1>0, <2>5, <2>6, <2>7, <2>8, MiddleCounts DEF Goal, Middle, Places
<1>17. CASE Push(r)
  <2>1. pc[r] = "send" /\ Landed /\ began' = began
    BY <1>17 DEF Push, histVars
  <2>2. open.op = "none" /\ ~Detached /\ result[r].after.ahead <= Len(branch.own)
    BY <1>2, <2>1 DEF Detached, Counting
  <2>3. /\ Range(remote') = Range(remote) \cup Range(branch.own)
        /\ Len(remote') = branch.base + Len(branch.own)
    BY <1>0, <2>1, <2>2, SentIs DEF Landed, Tip
  <2>4. branch'.base = Len(remote') /\ open' = open
    BY <2>1, <2>2 DEF Landed
  <2>5. /\ pc'[r] = "finish" /\ result'[r].pulled = result[r].pulled
        /\ result'[r].pushed = result[r].pushed + result[r].after.ahead
    BY <1>0, <1>17, PushIs
  <2>6. Moved(r)' = Moved(r) + result[r].after.ahead
    BY <1>0, <2>1, <2>5 DEF Moved
  <2>7. Moved(r)' <= branch'.base
    BY <1>0, <1>1, <1>2, <2>1, <2>2, <2>3, <2>4, <2>6
  <2>8. Unpublished(r)' = {}
    BY <1>2, <2>1, <2>3 DEF Unpublished
  <2>9. Going(r)
    BY <2>2, <2>4, <2>7, <2>8 DEF Going
  <2> QED
    BY <1>0, <2>5, <2>8, <2>9, MiddleCounts DEF Goal, Middle, Places
<1>18. CASE PushRejected(r)
  <2>1. CASE GivesUp(r)
    BY <1>5, <1>18, <2>1 DEF PushRejected, Goal
  <2>2. CASE ~GivesUp(r)
    <3>1. pc[r] = "send" /\ UNCHANGED <<branch, open, began>>
      BY <1>18 DEF PushRejected, gitVars, histVars
    <3>2. /\ pc'[r] = "fetch" /\ result'[r].pulled = result[r].pulled
          /\ result'[r].pushed = result[r].pushed
      BY <1>0, <1>18, <2>2, RejectedIs
    <3>3. Going(r)
      BY <1>8, <3>1, <3>2
    <3> QED
      BY <1>0, <3>2, <3>3, MiddleCounts DEF Goal, Middle, Places
  <2> QED
    BY <2>1, <2>2
<1>19. CASE Finish(r)
  <2>1. pc[r] = "finish" /\ UNCHANGED <<branch, open, began>> /\ End(r, "done")
    BY <1>19 DEF Finish, gitVars, histVars
  <2>2. /\ pc'[r] = "idle" /\ result'[r].pulled = result[r].pulled
        /\ result'[r].pushed = result[r].pushed
    BY <1>0, <2>1, EndIs
  <2>3. Going(r)
    BY <1>8, <2>1, <2>2
  <2>4. opts[r].push => Unpublished(r)' = {}
    BY <1>3, <2>1 DEF Counting
  <2> QED
    BY <1>0, <2>2, <2>3, <2>4 DEF Goal, Reported, Going
<1> QED
  BY <1>6, <1>7, <1>9, <1>10, <1>12, <1>13, <1>14, <1>15, <1>16, <1>17, <1>18, <1>19
     DEF Stepping, Run, Goal

(* Whoever calls disturbs the runs under way.                              *)
LEMMA IdleStaysTold ==
  ASSUME TypeInv, GitInv', Forward, Told, NEW r \in Runs, alone[r], pc[r] = "idle", pc' = pc,
         UNCHANGED <<result, opts, began>>
  PROVE  Reported(r)'
<1>1. Reported(r)
  BY DEF Told
<1> QED
  BY <1>1, ReportedStays

LEMMA SyncTold ==
  ASSUME TypeInv, TypeInv', Told, NEW c \in Runs, Sync(c)
  PROVE  Told' /\ Forward
<1>0. /\ UNCHANGED <<remote, branch, open, at, began>> /\ Disturbs(c) /\ pc[c] = "idle"
      /\ result' = [result EXCEPT ![c] = NoResult] /\ c \notin Users
      /\ \E o \in Asks[c] : /\ opts' = [opts EXCEPT ![c] = o]
                            /\ Goto(c, IF o.dry THEN "preflight" ELSE "flush")
  BY SyncRunAssumption DEF Sync, gitVars, userVars
<1>1. PICK o \in Asks[c] : /\ opts' = [opts EXCEPT ![c] = o]
                           /\ Goto(c, IF o.dry THEN "preflight" ELSE "flush")
  BY <1>0
<1>2. /\ pc \in [Runs -> Places] /\ result \in [Runs -> Results] /\ opts \in [Runs -> Options]
      /\ GitInv /\ GitInv'
  BY DEF TypeInv, RunsInv
<1>3. pc'[c] \in {"flush", "preflight"} /\ result'[c].pulled = 0 /\ result'[c].pushed = 0
  BY <1>0, <1>1, <1>2 DEF Goto, NoResult
<1>4. \A s \in Runs : s # c => pc'[s] = pc[s] /\ result'[s] = result[s] /\ opts'[s] = opts[s]
  BY <1>0, <1>1, <1>2 DEF Goto
<1>5. Forward
  BY <1>0, <1>2, SamePrefix DEF Forward
<1>6. ASSUME NEW r \in Runs, alone'[r] PROVE /\ pc'[r] # "idle" => Counting(r)'
                                             /\ pc'[r] = "idle" => Reported(r)'
  <2>1. CASE r = c
    <3>1. AloneIs(c)
      BY <1>0, <1>6, <2>1 DEF Disturbs
    <3>2. Busy' \subseteq {c} /\ \A u \in Users : at'[u] = "idle"
      BY <1>0, <1>4, <3>1 DEF AloneIs, Busy
    <3> QED
      BY <1>3, <2>1, <3>2 DEF Counting
  <2>2. CASE r # c
    <3>1. alone[r] /\ r \notin Busy
      BY <1>0, <1>6, <2>2 DEF Disturbs
    <3>2. pc[r] = "idle" /\ pc'[r] = "idle" /\ Reported(r)
      BY <1>4, <2>2, <3>1 DEF Busy, Told
    <3>3. Reported(r)'
      BY <1>0, <1>2, <1>4, <1>5, <2>2, <3>2, ReportedStays
    <3> QED
      BY <3>2, <3>3
  <2> QED
    BY <2>1, <2>2
<1> QED
  BY <1>5, <1>6 DEF Told

LEMMA UserTold ==
  ASSUME TypeInv, TypeInv', OnwardOnly, Told, NEW u \in Users,
         (\E p \in Paths : Resolve(u, p)) \/ WriteResolution(u) \/ Resume(u) \/ Undo(u)
  PROVE  Told'
<1>0. UNCHANGED <<pc, result, opts, began>>
  <2>1. CASE Resume(u)
    BY <2>1, ResumeIs DEF runVars
  <2> QED
    BY <2>1 DEF Resolve, WriteResolution, Undo, runVars, histVars
<1>1. Forward /\ GitInv'
  BY UserOnward DEF TypeInv
<1>2. Called(u) \/ (at[u] # "idle" /\ alone' = alone)
  BY DEF Resolve, WriteResolution, Resume, Undo, histVars
<1>3. u \notin Runs
  BY SyncRunAssumption
<1>4. ASSUME NEW r \in Runs, alone'[r] PROVE alone[r] /\ pc[r] = "idle"
  <2>1. CASE Called(u)
    BY <1>3, <1>4, <2>1 DEF Called, Disturbs, Busy
  <2>2. CASE at[u] # "idle" /\ alone' = alone
    BY <1>4, <2>2 DEF Told, Counting
  <2> QED
    BY <1>2, <2>1, <2>2
<1>5. ASSUME NEW r \in Runs, alone'[r] PROVE Reported(r)'
  BY <1>0, <1>1, <1>4, <1>5, IdleStaysTold
<1> QED
  BY <1>0, <1>4, <1>5 DEF Told

(* A save, a commit, the other clone: nobody's run.                        *)
LEMMA EnvironmentTold ==
  ASSUME TypeInv, TypeInv', Forward, Told,
         UNCHANGED <<pc, at, result, opts, began, alone, tracked>>, branch'.base = branch.base,
         open.op = "none" => open'.op = "none",
         Range(branch.own) \subseteq Range(branch'.own), Len(branch.own) <= Len(branch'.own)
  PROVE  Told'
<1>1. GitInv'
  BY DEF TypeInv
<1>2. ASSUME NEW r \in Runs, alone'[r], pc'[r] = "idle" PROVE Reported(r)'
  BY <1>1, <1>2, IdleStaysTold
<1>3. ASSUME NEW r \in Runs, alone'[r], pc'[r] # "idle" PROVE Counting(r)'
  BY <1>1, <1>3, CountingStays DEF Told
<1> QED
  BY <1>2, <1>3 DEF Told

LEMMA ReportKeeps ==
  ASSUME TypeInv, TypeInv', ReportInv, [Next]_vars
  PROVE  ReportInv' /\ Forward
<1>0. OnwardOnly /\ Told /\ GitInv /\ GitInv' /\ Len(branch.own) \in Nat
  BY TipIs DEF ReportInv, Told, TypeInv
<1>1. ASSUME OnwardOnly', Told', Forward PROVE ReportInv' /\ Forward
  BY <1>1 DEF ReportInv, Told
<1>2. CASE UNCHANGED vars
  <2>1. UNCHANGED <<remote, branch, backend, pc, open, at, result, opts, began, alone, tracked>>
    BY <1>2 DEF vars, gitVars, runVars, userVars, histVars
  <2>2. OnwardOnly' /\ Forward
    BY <1>0, <2>1, OnwardStays
  <2>3. Len(branch.own) <= Len(branch.own)
    BY <1>0
  <2> QED
    BY <1>0, <1>1, <2>1, <2>2, <2>3, EnvironmentTold
<1>3. ASSUME NEW e \in Edits, Save(e) PROVE ReportInv' /\ Forward
  <2>1. UNCHANGED <<remote, branch, backend, pc, open, at, result, opts, began, alone, tracked>>
    BY <1>3 DEF Save, gitVars, runVars, userVars
  <2>2. OnwardOnly' /\ Forward
    BY <1>0, <2>1, OnwardStays
  <2>3. Len(branch.own) <= Len(branch.own)
    BY <1>0
  <2> QED
    BY <1>0, <1>1, <2>1, <2>2, <2>3, EnvironmentTold
<1>4. ASSUME NEW e \in Edits, Committed(e) PROVE ReportInv' /\ Forward
  <2>1. UNCHANGED <<pc, at, result, opts, began, alone, tracked>>
    BY <1>4, CommittedIs DEF runVars, userVars, histVars
  <2>2. /\ OnwardOnly' /\ Forward /\ (open.op = "none" => open'.op = "none")
        /\ Range(branch.own) \subseteq Range(branch'.own) /\ Len(branch.own) <= Len(branch'.own)
    BY <1>0, <1>4, CommitOnward
  <2>3. branch'.base = branch.base
    BY <1>0, <1>4, CommittedIs DEF GitInv, Branches
  <2> QED
    BY <1>0, <1>1, <2>1, <2>2, <2>3, EnvironmentTold
<1>5. ASSUME NEW o \in Others, Publish(o) PROVE ReportInv' /\ Forward
  <2>1. UNCHANGED <<branch, pc, open, at, result, opts, began, alone, tracked>>
    BY <1>5 DEF Publish, runVars, userVars, histVars
  <2>2. OnwardOnly' /\ Forward
    BY <1>0, <1>5, PublishOnward
  <2>3. Len(branch.own) <= Len(branch.own)
    BY <1>0
  <2> QED
    BY <1>0, <1>1, <2>1, <2>2, <2>3, EnvironmentTold
<1>6. ASSUME NEW r \in Runs, Stepping(r) PROVE ReportInv' /\ Forward
  <2>1. OnwardOnly' /\ Forward /\ Step(r)
    BY <1>0, <1>6, StepOnward, StepIs
  <2>2. ASSUME NEW s \in Runs, alone'[s] PROVE /\ pc'[s] # "idle" => Counting(s)'
                                               /\ pc'[s] = "idle" => Reported(s)'
    <3>1. CASE s # r
      BY <1>0, <2>1, <2>2, <3>1, OthersTold
    <3>2. CASE s = r
      <4>1. Counting(r)
        BY <1>0, <2>1, <2>2, <3>2 DEF Told, Step, RunKeeps
      <4> QED
        BY <1>0, <1>6, <3>2, <4>1, StepTold
    <3> QED
      BY <3>1, <3>2
  <2>3. Told'
    BY <2>2 DEF Told
  <2> QED
    BY <1>1, <2>1, <2>3
<1>7. ASSUME NEW r \in Runs, Sync(r) PROVE ReportInv' /\ Forward
  <2>1. Told' /\ Forward
    BY <1>0, <1>7, SyncTold
  <2>2. OnwardOnly'
    <3>1. UNCHANGED <<branch, open, backend>> /\ \A s \in Runs : pc'[s] = "reset" => pc[s] = "reset"
      BY <1>7 DEF Sync, gitVars, Goto, TypeInv, RunsInv
    <3> QED
      BY <1>0, <3>1 DEF OnwardOnly
  <2> QED
    BY <1>1, <2>1, <2>2
<1>8. ASSUME NEW u \in Users,
             (\E p \in Paths : Resolve(u, p)) \/ WriteResolution(u) \/ Resume(u) \/ Undo(u)
      PROVE  ReportInv' /\ Forward
  BY <1>0, <1>1, <1>8, UserTold, UserOnward
<1> QED
  BY <1>2, <1>3, <1>4, <1>5, <1>6, <1>7, <1>8 DEF Next, Stepping, CommitOnSave, CommitPath

-----------------------------------------------------------------------------
(* At the start everything is committed or nothing was saved.              *)
LEMMA InitKeeps == Init => TypeInv /\ LossInv /\ ReportInv
<1> SUFFICES ASSUME Init PROVE TypeInv /\ LossInv /\ ReportInv
  OBVIOUS
<1> DEFINE q == SetToSeq(Before)
<1>1. q \in Seq(Changes) /\ Before \subseteq Range(q)
  <2>1. IsFiniteSet(Before) /\ Before \subseteq Changes
    BY SyncRunAssumption, FS_Subset DEF Changes
  <2> QED
    BY <2>1, ListedAll
<1>2. Settled \in Opens /\ Range(Settled.todo) = {} /\ Settled.op = "none" /\ Settled.onto = 0
  BY EmptyHasNone DEF Settled, Opens
<1> HIDE DEF q
<1>3. GitInv
  <2>1. branch \in Branches /\ branch.base = 0
    BY <1>1 DEF Init, Branches, q
  <2>2. <<>> \in Seq(Changes) /\ Len(<<>>) = 0 /\ backend \in {"system", "go-git"}
    BY SyncRunAssumption DEF Init
  <2> QED
    BY <1>2, <2>1, <2>2 DEF Init, GitInv
<1>4. TreeInv
  BY SyncRunAssumption DEF Init, TreeInv
<1>5. RunsInv
  <2>1. NoResult \in Results /\ NoResult.phase = "none"
    BY SyncRunAssumption DEF NoResult, NoStatus, Results
  <2>2. ASSUME NEW r \in Runs PROVE (CHOOSE o \in Asks[r] : TRUE) \in Options
    <3>0. Asks[r] \in (SUBSET Options) \ {{}}
      BY SyncRunAssumption, Zenon
    <3>1. Asks[r] \subseteq Options
      BY <3>0
    <3>2. \E o \in Asks[r] : TRUE
      BY <3>0
    <3>3. (CHOOSE o \in Asks[r] : TRUE) \in Asks[r]
      BY <3>2
    <3> QED
      BY <3>1, <3>3
  <2>3. opts \in [Runs -> Options]
    BY <2>2 DEF Init
  <2>4. branch \in Branches
    BY <1>3 DEF GitInv
  <2> QED
    BY <2>1, <2>3, <2>4 DEF Init, RunsInv, Places
<1>6. UsersInv
  BY DEF Init, UsersInv
<1>7. LossInv
  BY <1>1, <1>2, EmptyHasNone DEF Init, LossInv, Backed, NothingLost, q
<1>8. ReportInv
  BY <1>2 DEF Init, ReportInv, OnwardOnly
<1> QED
  BY <1>3, <1>4, <1>5, <1>6, <1>7, <1>8 DEF TypeInv

LEMMA Running == Spec => [](TypeInv /\ LossInv /\ ReportInv)
<1>1. (TypeInv /\ LossInv /\ ReportInv) /\ [Next]_vars => (TypeInv /\ LossInv /\ ReportInv)'
  BY TypesStay, LossKeeps, ReportKeeps
<1> QED
  BY InitKeeps, <1>1, PTL DEF Spec

(* The shape of the branches, the working tree, the runs and their results.*)
THEOREM SyncRunTypeOK == Spec => []TypeOK
<1>1. TypeInv => TypeOK
  <2> SUFFICES ASSUME TypeInv PROVE TypeOK
    OBVIOUS
  <2>1. open \in [op : {"none", "rebase", "merge"}, onto : 0..tracked, done : Seq(Changes),
                  todo : Seq(Changes), unmerged : SUBSET Paths]
    <3>1. open \in Opens /\ open.onto \in 0..tracked
      BY TipIs DEF TypeInv, GitInv
    <3> QED
      BY <3>1 DEF Opens
  <2>2. \A r \in Runs : /\ result[r].retries \in 0..MaxRetries
                        /\ result[r].after \in [ahead : Nat, behind : Nat]
                        /\ began[r] \in Branches
    BY DEF TypeInv, RunsInv, Results
  <2> QED
    BY <2>1, <2>2 DEF TypeOK, TypeInv, GitInv, TreeInv, RunsInv, UsersInv
<1> QED
  BY Running, <1>1, PTL

(* gitops/sync.go: "Nothing here is destructive".  Whatever runs, resolves *)
(* and aborts beside it, what was saved is somewhere, but for what an abort*)
(* or the hard reset is known to have thrown away.                         *)
THEOREM SyncRunLosesNothing == Spec => []NothingLost
<1>1. LossInv => NothingLost
  BY DEF LossInv
<1> QED
  BY Running, <1>1, PTL

(* SyncResult: a run that was alone and says it is done has published what *)
(* it had, and has pulled and pushed at least as much as it says.          *)
THEOREM SyncRunTellsTheTruth == Spec => []ReportsAreTrue
<1>1. TypeInv /\ ReportInv => ReportsAreTrue
  <2> SUFFICES ASSUME TypeInv, ReportInv, NEW r \in Runs, result[r].phase = "done", alone[r]
               PROVE  /\ opts[r].push /\ ~opts[r].dry
                           => Range(began[r].own) \ {Merge} \subseteq Range(remote)
                      /\ result[r].pulled + result[r].pushed <= branch.base - began[r].base
    BY DEF ReportsAreTrue, DonePublished, NothingOverstated
  <2>1. pc[r] = "idle" /\ Reported(r)
    BY DEF TypeInv, RunsInv, ReportInv
  <2>2. Moved(r) <= branch.base /\ (opts[r].push /\ ~opts[r].dry => Unpublished(r) = {})
    BY <2>1 DEF Reported
  <2>3. /\ result[r].pulled \in Nat /\ result[r].pushed \in Nat
        /\ began[r].base \in Nat /\ branch.base \in Nat
    BY DEF TypeInv, GitInv, RunsInv, Results, Branches
  <2>4. result[r].pulled + result[r].pushed <= branch.base - began[r].base
    BY <2>2, <2>3 DEF Moved
  <2> QED
    BY <2>2, <2>4 DEF Unpublished
<1> QED
  BY Running, <1>1, PTL

(* docs/06-git-sync.md, section 4.2: nothing is ever force-pushed.         *)
THEOREM RemoteIsKept == Spec => RemoteOnlyGrows
<1>1. (TypeInv /\ ReportInv) /\ TypeInv' /\ [Next]_vars => [IsPrefix(remote, remote')]_vars
  BY ReportKeeps DEF Forward
<1> QED
  BY Running, <1>1, PTL DEF Spec, RemoteOnlyGrows
==============================================================================
