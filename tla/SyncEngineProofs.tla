-------------------------- MODULE SyncEngineProofs --------------------------
(***************************************************************************)
(* What the job engine promises, for any number of jobs, keys, workers and *)
(* crashes.  In three layers, each an inductive invariant on top of the    *)
(* one before:                                                             *)
(*   - IInv, of every engine: TypeOK, NoJobStranded, DrainedMeansSettled;  *)
(*   - StartedInv, of an engine that nobody calls until Start has returned *)
(*     (StartAlone): PoolHasItsSize, ClosedIsQuiet, ReplayLosesNothing;    *)
(*     Until the first death also AttemptsWithinBudget (Budget);           *)
(*   - OnceInv, when moreover an id is used again only once its last job   *)
(*     is done with (CarefulReuse): DeadListExact, ResultsFenced and the   *)
(*     refinement of JobLifecycle.                                         *)
(* TLC shows that the hypotheses are needed: without them it finds the     *)
(* property of each layer violated (see the README).                       *)
(***************************************************************************)
EXTENDS SyncEngine, FiniteSetTheorems, SequenceTheorems, WellFoundedInduction, TLAPS

-----------------------------------------------------------------------------
(* Sequences and batches.                                                  *)

(* Sequences without repetitions.                                          *)
Distinct(s) == \A i, j \in DOMAIN s : s[i] = s[j] => i = j

LEMMA AppendDistinct ==
  ASSUME NEW S, NEW s \in Seq(S), NEW e \in S, Distinct(s), e \notin ToSet(s)
  PROVE  /\ Distinct(Append(s, e)) /\ Append(s, e) \in Seq(S)
         /\ ToSet(Append(s, e)) = ToSet(s) \cup {e}
         /\ Len(Append(s, e)) = Len(s) + 1
<1> DEFINE t == Append(s, e)
<1>1. /\ t \in Seq(S) /\ Len(t) = Len(s) + 1 /\ t[Len(s) + 1] = e
      /\ \A i \in 1..Len(s) : t[i] = s[i]
  BY AppendProperties
<1>2. /\ Len(s) \in Nat /\ DOMAIN s = 1..Len(s) /\ DOMAIN t = 1..(Len(s) + 1)
  BY <1>1, LenProperties
<1> HIDE DEF t
<1>3. \A i \in DOMAIN s : s[i] # e
  BY DEF ToSet
<1>4. Distinct(t)
  BY <1>1, <1>2, <1>3 DEF Distinct
<1>5. ToSet(t) = ToSet(s) \cup {e}
  <2>1. \A i \in DOMAIN t : t[i] \in ToSet(s) \cup {e}
    BY <1>1, <1>2 DEF ToSet
  <2>2. \A i \in DOMAIN s : \E j \in DOMAIN t : t[j] = s[i]
    BY <1>1, <1>2
  <2>3. \E j \in DOMAIN t : t[j] = e
    BY <1>1, <1>2
  <2> QED
    BY <2>1, <2>2, <2>3 DEF ToSet
<1> QED
  BY <1>1, <1>4, <1>5 DEF t

(* Taking out the entry at k of a sequence without repetitions.            *)
LEMMA WithoutDistinct ==
  ASSUME NEW S, NEW s \in Seq(S), NEW t \in Seq(S), NEW k \in 1..Len(s), Distinct(s),
         Len(t) = Len(s) - 1,
         \A i \in 1..Len(t) : t[i] = IF i < k THEN s[i] ELSE s[i + 1]
  PROVE  Distinct(t) /\ ToSet(t) = ToSet(s) \ {s[k]}
<1>1. /\ Len(s) \in Nat /\ DOMAIN s = 1..Len(s) /\ DOMAIN t = 1..(Len(s) - 1)
  BY LenProperties
<1>1a. \A i, j \in 1..Len(s) : s[i] = s[j] => i = j
  BY <1>1 DEF Distinct
<1>1b. \A i \in 1..(Len(s) - 1) : /\ i < k => t[i] = s[i]
                                  /\ i >= k => t[i] = s[i + 1]
  <2>1. \A i \in 1..(Len(s) - 1) : t[i] = IF i < k THEN s[i] ELSE s[i + 1]
    OBVIOUS
  <2> QED
    BY <1>1, <2>1
<1>1c. \A i \in 1..(Len(s) - 1) : i \in 1..Len(s) /\ i + 1 \in 1..Len(s)
  BY <1>1
<1>2. Distinct(t)
  <2> SUFFICES ASSUME NEW i \in 1..(Len(s) - 1), NEW j \in 1..(Len(s) - 1), t[i] = t[j]
               PROVE  i = j
    BY <1>1 DEF Distinct
  <2>1. CASE i < k /\ j < k
    BY <1>1, <1>1a, <1>1b, <1>1c, <2>1
  <2>2. CASE i < k /\ j >= k
    BY <1>1, <1>1a, <1>1b, <1>1c, <2>2
  <2>3. CASE i >= k /\ j < k
    BY <1>1, <1>1a, <1>1b, <1>1c, <2>3
  <2>4. CASE i >= k /\ j >= k
    BY <1>1, <1>1a, <1>1b, <1>1c, <2>4
  <2> QED
    BY <1>1, <2>1, <2>2, <2>3, <2>4
<1>3. ASSUME NEW e \in ToSet(t) PROVE e \in ToSet(s) \ {s[k]}
  <2>1. PICK i \in 1..(Len(s) - 1) : e = t[i]
    BY <1>1, <1>3 DEF ToSet
  <2>2. CASE i < k
    BY <1>1, <1>1a, <1>1b, <1>1c, <2>1, <2>2 DEF ToSet
  <2>3. CASE i >= k
    <3>1. i + 1 \in DOMAIN s /\ i + 1 # k /\ e = s[i + 1]
      BY <1>1, <1>1b, <1>1c, <2>1, <2>3
    <3> QED
      BY <1>1, <1>1a, <3>1 DEF ToSet
  <2> QED
    BY <1>1, <2>2, <2>3
<1>4. ASSUME NEW e \in ToSet(s) \ {s[k]} PROVE e \in ToSet(t)
  <2>1. PICK i \in 1..Len(s) : e = s[i] /\ i # k
    BY <1>1, <1>4 DEF ToSet
  <2>2. CASE i < k
    BY <1>1, <2>1, <2>2 DEF ToSet
  <2>3. CASE i > k
    <3>1. i - 1 \in DOMAIN t /\ e = t[i - 1]
      BY <1>1, <2>1, <2>3
    <3> QED
      BY <3>1 DEF ToSet
  <2> QED
    BY <1>1, <2>1, <2>2, <2>3
<1> QED
  BY <1>2, <1>3, <1>4

LEMMA TailDistinct ==
  ASSUME NEW S, NEW s \in Seq(S), s # <<>>, Distinct(s)
  PROVE  /\ Distinct(Tail(s)) /\ Tail(s) \in Seq(S)
         /\ ToSet(Tail(s)) = ToSet(s) \ {Head(s)}
         /\ Len(Tail(s)) = Len(s) - 1
<1>1. /\ Tail(s) \in Seq(S) /\ Len(Tail(s)) = Len(s) - 1 /\ Head(s) = s[1]
      /\ Len(s) \in Nat \ {0}
      /\ \A i \in 1..Len(Tail(s)) : Tail(s)[i] = s[i + 1]
  BY HeadTailProperties, EmptySeq
<1>2. PICK k \in 1..Len(s) : k = 1
  BY <1>1
<1>3. PICK t \in Seq(S) : t = Tail(s)
  BY <1>1
<1>4. Len(t) = Len(s) - 1 /\ \A i \in 1..Len(t) : t[i] = IF i < k THEN s[i] ELSE s[i + 1]
  BY <1>1, <1>2, <1>3
<1>5. Distinct(t) /\ ToSet(t) = ToSet(s) \ {s[k]}
  <2>1. t \in Seq(S) /\ k \in 1..Len(s) /\ Distinct(s)
    OBVIOUS
  <2> QED
    BY <1>4, <2>1, WithoutDistinct, ZenonT(30)
<1> QED
  BY <1>1, <1>2, <1>3, <1>5

LEMMA RemoveFirstAt ==
  ASSUME NEW S, NEW s \in Seq(S), NEW e \in ToSet(s)
  PROVE  \E k \in 1..Len(s) :
           /\ s[k] = e /\ RemoveFirst(s, e) \in Seq(S) /\ Len(RemoveFirst(s, e)) = Len(s) - 1
           /\ \A i \in 1..Len(RemoveFirst(s, e)) :
                 RemoveFirst(s, e)[i] = IF i < k THEN s[i] ELSE s[i + 1]
<1> DEFINE I == {i \in 1..Len(s) : s[i] = e}
           k == SelectInSeq(s, LAMBDA v : v = e)
<1>0. Len(s) \in Nat /\ \E i \in 1..Len(s) : s[i] = e
  BY LenProperties DEF ToSet
<1>1. I \subseteq Nat /\ I # {}
  BY <1>0
<1>2. \E m \in I : \A n \in I : m <= n
  <2>1. PICK m \in I : \A n \in I : <<n, m>> \notin OpToRel(<, Nat)
    BY <1>1, NatLessThanWellFounded, WFMin
  <2>2. \A n \in I : ~(n < m)
    BY <1>1, <2>1 DEF OpToRel
  <2> QED
    BY <1>1, <2>2
<1>3. k = Min(I)
  BY <1>1 DEF SelectInSeq
<1>4. k \in 1..Len(s) /\ s[k] = e
  BY <1>2, <1>3 DEF Min
<1> HIDE DEF k
<1> DEFINE a == SubSeq(s, 1, k - 1)
           b == SubSeq(s, k + 1, Len(s))
<1>5. a \in Seq(S) /\ Len(a) = k - 1 /\ \A i \in 1..(k - 1) : a[i] = s[i]
  BY <1>0, <1>4, SubSeqProperties
<1>6. /\ b \in Seq(S) /\ Len(b) = Len(s) - k
      /\ \A i \in 1..(Len(s) - k) : b[i] = s[k + i]
  BY <1>0, <1>4, SubSeqProperties
<1>7. RemoveFirst(s, e) = a \o b
  BY <1>0 DEF RemoveFirst, RemoveAt, k
<1> HIDE DEF a, b
<1>8. /\ a \o b \in Seq(S) /\ Len(a \o b) = Len(s) - 1
      /\ \A i \in 1..(Len(s) - 1) : (a \o b)[i] = IF i <= k - 1 THEN a[i] ELSE b[i - (k - 1)]
  <2>1. Len(a) + Len(b) = Len(s) - 1
    BY <1>0, <1>4, <1>5, <1>6
  <2> QED
    BY <1>5, <1>6, <2>1, ConcatProperties
<1>8a. PICK c : c = a \o b
  OBVIOUS
<1>9. ASSUME NEW i \in 1..(Len(s) - 1) PROVE c[i] = IF i < k THEN s[i] ELSE s[i + 1]
  <2>1. CASE i < k
    <3>1. i <= k - 1 /\ i \in 1..(k - 1)
      BY <1>0, <1>4, <2>1
    <3> QED
      BY <1>5, <1>8, <1>8a, <2>1, <3>1
  <2>2. CASE i >= k
    <3>1. /\ i - (k - 1) \in 1..(Len(s) - k) /\ k + (i - (k - 1)) = i + 1
          /\ ~(i <= k - 1) /\ ~(i < k)
      BY <1>0, <1>4, <2>2
    <3> QED
      BY <1>6, <1>8, <1>8a, <3>1
  <2>3. k \in Nat /\ i \in Nat
    BY <1>0, <1>4
  <2> QED
    BY <2>1, <2>2, <2>3
<1> QED
  BY <1>4, <1>7, <1>8, <1>8a, <1>9

LEMMA RemoveFirstDistinct ==
  ASSUME NEW S, NEW s \in Seq(S), Distinct(s), NEW e \in ToSet(s)
  PROVE  /\ Distinct(RemoveFirst(s, e)) /\ RemoveFirst(s, e) \in Seq(S)
         /\ ToSet(RemoveFirst(s, e)) = ToSet(s) \ {e}
         /\ Len(RemoveFirst(s, e)) = Len(s) - 1
BY RemoveFirstAt, WithoutDistinct

(* The length of a sequence without repetitions is the number of its       *)
(* elements.                                                               *)
LEMMA DistinctLength ==
  ASSUME NEW S, NEW s \in Seq(S), Distinct(s)
  PROVE  IsFiniteSet(ToSet(s)) /\ Cardinality(ToSet(s)) = Len(s)
<1>1. Len(s) \in Nat /\ DOMAIN s = 1..Len(s) /\ s \in [1..Len(s) -> ToSet(s)]
  BY LenProperties DEF ToSet
<1>2. s \in Surjection(1..Len(s), ToSet(s)) /\ s \in Injection(1..Len(s), ToSet(s))
  BY <1>1 DEF Surjection, Injection, IsInjective, Distinct, ToSet
<1>3. IsFiniteSet(1..Len(s)) /\ Cardinality(1..Len(s)) = Len(s)
  BY <1>1, FS_Interval
<1> QED
  BY <1>1, <1>2, <1>3, FS_Surjection

(* Removing an element from a sequence leaves a sequence.                  *)
LEMMA RemoveFirstType ==
  ASSUME NEW S, NEW s \in Seq(S), NEW e
  PROVE  RemoveFirst(s, e) \in Seq(S)
<1>1. CASE e \in ToSet(s)
  BY <1>1, RemoveFirstAt
<1>2. CASE e \notin ToSet(s)
  <2>1. ~ \E i \in 1..Len(s) : s[i] = e
    BY <1>2, LenProperties DEF ToSet
  <2> QED
    BY <2>1 DEF RemoveFirst
<1> QED
  BY <1>1, <1>2

(* The types of the batches, and being in one that no worker has taken.    *)
BatchType == pending \in [Keys -> SUBSET Ids] /\ queue \in Seq(SUBSET Ids)

InBatch(id) == id \in pending[KeyOf[id]] \/ \E i \in DOMAIN queue : id \in queue[i]

LEMMA AddToBatchKeeps ==
  ASSUME BatchType, NEW id \in Ids, AddToBatch(id)
  PROVE  /\ BatchType'
         /\ InBatch(id)'
         /\ \A j \in Ids : InBatch(j) => InBatch(j)'
<1> DEFINE k == KeyOf[id]
           ids == pending[k] \cup {id}
<1>0. k \in Keys /\ KeyOf \in [Ids -> Keys] /\ ids \in SUBSET Ids
  BY SyncEngineAssumption DEF BatchType
<1>1. CASE pending' = [pending EXCEPT ![k] = {}] /\ queue' = Append(queue, ids)
  <2>1. /\ queue' \in Seq(SUBSET Ids)
        /\ Len(queue') = Len(queue) + 1
        /\ \A i \in 1..Len(queue) : queue'[i] = queue[i]
        /\ queue'[Len(queue) + 1] = ids
    BY <1>0, <1>1, AppendProperties DEF BatchType
  <2>2. /\ Len(queue) \in Nat /\ DOMAIN queue = 1..Len(queue)
        /\ DOMAIN queue' = 1..(Len(queue) + 1)
    BY <2>1, LenProperties DEF BatchType
  <2>3. BatchType'
    BY <1>1, <2>1 DEF BatchType
  <2>4. \A j \in ids : InBatch(j)'
    BY <2>1, <2>2 DEF InBatch
  <2>5. ASSUME NEW j \in Ids, InBatch(j) PROVE InBatch(j)'
    <3>1. CASE j \in pending[KeyOf[j]] /\ KeyOf[j] = k
      BY <2>4, <3>1
    <3>2. CASE j \in pending[KeyOf[j]] /\ KeyOf[j] # k
      BY <1>0, <1>1, <3>2 DEF InBatch, BatchType
    <3>3. CASE \E i \in DOMAIN queue : j \in queue[i]
      BY <2>1, <2>2, <3>3 DEF InBatch
    <3> QED
      BY <2>5, <3>1, <3>2, <3>3 DEF InBatch
  <2> QED
    BY <2>3, <2>4, <2>5
<1>2. CASE pending' = [pending EXCEPT ![k] = ids] /\ UNCHANGED queue
  BY <1>0, <1>2 DEF BatchType, InBatch
<1> QED
  BY <1>1, <1>2 DEF AddToBatch

(* FireAll moves every open batch to the queue.                            *)
LEMMA FireAllKeeps ==
  ASSUME BatchType, FireAll
  PROVE  /\ BatchType'
         /\ \A j \in Ids : InBatch(j) => InBatch(j)'
<1> DEFINE open == {k \in Keys : pending[k] # {}}
           n == Cardinality(open)
<1>1. IsFiniteSet(open) /\ n \in Nat
  BY SyncEngineAssumption, FS_Subset, FS_CardinalityType
<1>2. PICK ks \in SetToSeqs(open) :
             /\ queue' = queue \o [i \in DOMAIN ks |-> pending[ks[i]]]
             /\ pending' = [k \in Keys |-> {}]
  BY DEF FireAll
<1>3. ks \in [1..n -> open] /\ \A i, j \in 1..n : i # j => ks[i] # ks[j]
  BY <1>2 DEF SetToSeqs
<1>4. ASSUME NEW k \in open PROVE \E i \in 1..n : ks[i] = k
  <2>1. ks \in Injection(1..n, open)
    BY <1>3 DEF Injection, IsInjective
  <2>2. Cardinality(1..n) = Cardinality(open)
    BY <1>1, FS_Interval
  <2>3. ks \in Surjection(1..n, open)
    BY <1>1, <2>1, <2>2, FS_Injection
  <2> QED
    BY <2>3 DEF Surjection
<1> DEFINE fired == [i \in 1..n |-> pending[ks[i]]]
<1>5. fired \in Seq(SUBSET Ids) /\ Len(fired) = n /\ \A i \in 1..n : fired[i] = pending[ks[i]]
  <2>1. \A i \in 1..n : pending[ks[i]] \in SUBSET Ids
    BY <1>3 DEF BatchType
  <2> HIDE DEF n, open
  <2> QED
    BY <1>1, <2>1
<1>6. queue' = queue \o fired
  BY <1>2, <1>3
<1> HIDE DEF fired, n, open
<1>7. /\ queue' \in Seq(SUBSET Ids) /\ Len(queue') = Len(queue) + n
      /\ \A i \in 1..(Len(queue) + n) :
            queue'[i] = IF i <= Len(queue) THEN queue[i] ELSE fired[i - Len(queue)]
  BY <1>5, <1>6, ConcatProperties DEF BatchType
<1>8. /\ Len(queue) \in Nat /\ DOMAIN queue = 1..Len(queue)
      /\ DOMAIN queue' = 1..(Len(queue) + n)
  BY <1>7, LenProperties DEF BatchType
<1>9. BatchType'
  BY <1>2, <1>7 DEF BatchType
<1>10. ASSUME NEW j \in Ids, InBatch(j) PROVE InBatch(j)'
  <2>1. CASE j \in pending[KeyOf[j]]
    <3>1. KeyOf[j] \in open
      BY <2>1, SyncEngineAssumption DEF open
    <3>2. PICK i \in 1..n : ks[i] = KeyOf[j]
      BY <1>4, <3>1
    <3>3. Len(queue) + i \in DOMAIN queue' /\ queue'[Len(queue) + i] = pending[KeyOf[j]]
      BY <1>1, <1>5, <1>7, <1>8, <3>2
    <3> QED
      BY <2>1, <3>3 DEF InBatch
  <2>2. CASE \E i \in DOMAIN queue : j \in queue[i]
    BY <1>1, <1>7, <1>8, <2>2 DEF InBatch
  <2> QED
    BY <1>10, <2>1, <2>2 DEF InBatch
<1> QED
  BY <1>9, <1>10

-----------------------------------------------------------------------------
(* The inductive invariant.                                                *)

(* A job that waits for a retry is queued and has a timer.                 *)
Timed == \A id \in Ids : jobs[id].retry => jobs[id].state = "queued" /\ timers[id] > 0

(* A job that is running has spent an attempt, which Abandon gives back.   *)
Tried == \A id \in Ids : jobs[id].state = "running" => jobs[id].attempts > 0

(* A job that has a record is listed, so that the sweep can unlist it.     *)
Listed == \A id \in Ids : jobs[id].state # "absent" \/ jobs[id].dead => order[id] > 0

TableOK == /\ jobs \in [Ids -> JobType] /\ order \in [Ids -> Nat] /\ dead \in Seq(Ids)
           /\ timers \in [Ids -> Nat]
           /\ Timed /\ Tried /\ Listed

(* Engine.running counts the workers that hold a batch.                    *)
BusyWorkers == {w \in Workers : Busy(w)}

PoolOK == /\ workers \in [Workers -> WorkType] /\ running \in Nat /\ generation \in Nat
          /\ running = Cardinality(BusyWorkers)

RestType == /\ used \in [Ids -> Nat]
            /\ poolSize \in PoolSizes /\ batchSize \in BatchSizes
            /\ life \in {"new", "loading", "replaying", "replayed", "up"}
            /\ todo \subseteq Ids
            /\ closing \in {"open", "flush", "drain", "retire", "cancel", "wait", "closed"}
            /\ cancels \subseteq Workers
            /\ pruner \in BOOLEAN
            /\ disk \in DocType /\ dirty \in BOOLEAN /\ crashes \in Nat

(* The worker is in the handler call that the running job belongs to.      *)
Holds(w, id) == /\ workers[w].pc \in {"handling", "completing"}
                /\ id \in workers[w].jobs
                /\ workers[w].stamps[id] = jobs[id].gen

(* A job that is running is held by a worker.                              *)
Held == \A id \in Ids : jobs[id].state = "running" => \E w \in Workers : Holds(w, id)

IInv == TableOK /\ PoolOK /\ BatchType /\ RestType /\ Held /\ NoJobStranded

(* The invariant gives what the runs check.                                *)
LEMMA IInvGivesTypeOK == IInv => TypeOK
BY DEF IInv, TypeOK, TableOK, PoolOK, BatchType, RestType

LEMMA BusyWorkersFinite ==
  /\ IsFiniteSet(BusyWorkers)
  /\ Cardinality(BusyWorkers) \in Nat
  /\ Cardinality(BusyWorkers) = 0 <=> BusyWorkers = {}
BY SyncEngineAssumption, FS_Subset, FS_CardinalityType, FS_EmptySet DEF BusyWorkers

LEMMA IInvGivesDrainedMeansSettled == IInv => DrainedMeansSettled
<1> SUFFICES ASSUME IInv, Drained, NEW id \in Ids
             PROVE  /\ jobs[id].state # "running"
                    /\ jobs[id].state = "queued" => jobs[id].retry \/ Closed
  BY DEF DrainedMeansSettled
<1>1. BusyWorkers = {}
  BY BusyWorkersFinite DEF Drained, IInv, PoolOK
<1>2. jobs[id].state # "running"
  BY <1>1 DEF BusyWorkers, Busy, IInv, Held, Holds
<1>3. ~Waiting(id)
  <2>1. pending[KeyOf[id]] = {}
    BY SyncEngineAssumption DEF Drained
  <2>2. DOMAIN queue = {}
    BY DEF Drained
  <2> QED
    BY <1>1, <2>1, <2>2 DEF Waiting, BusyWorkers, Busy
<1> QED
  BY <1>2, <1>3 DEF IInv, NoJobStranded

-----------------------------------------------------------------------------
(* What keeps each part of the invariant.                                  *)

LEMMA TableFrame ==
  ASSUME TableOK, UNCHANGED <<jobs, order, dead, timers>>
  PROVE  TableOK'
BY DEF TableOK, Timed, Tried, Listed

LEMMA PoolFrame ==
  ASSUME PoolOK, UNCHANGED <<workers, running>>, generation' \in Nat
  PROVE  PoolOK'
BY DEF PoolOK, BusyWorkers, Busy

LEMMA BatchFrame ==
  ASSUME BatchType, UNCHANGED <<pending, queue>>
  PROVE  /\ BatchType'
         /\ \A j \in Ids : InBatch(j) => InBatch(j)'
BY DEF BatchType, InBatch

LEMMA HeldFrame ==
  ASSUME Held, UNCHANGED <<jobs, workers>>
  PROVE  Held'
BY DEF Held, Holds

(* Removing a worker from its batch, or giving it one, is counted.         *)
LEMMA PoolStep ==
  ASSUME PoolOK, NEW w \in Workers, NEW r \in WorkType,
         workers' = [workers EXCEPT ![w] = r], generation' = generation,
         \/ running' = running /\ (Busy(w) <=> r.pc \notin {"absent", "idle"})
         \/ running' = running + 1 /\ ~Busy(w) /\ r.pc \notin {"absent", "idle"}
         \/ running' = running - 1 /\ Busy(w) /\ r.pc \in {"absent", "idle"}
  PROVE  PoolOK'
<1>1. workers' \in [Workers -> WorkType] /\ workers'[w] = r
  BY DEF PoolOK
<1>2. \A v \in Workers : v # w => workers'[v] = workers[v]
  BY DEF PoolOK
<1>3. CASE running' = running /\ (Busy(w) <=> r.pc \notin {"absent", "idle"})
  <2>1. BusyWorkers' = BusyWorkers
    BY <1>1, <1>2, <1>3 DEF BusyWorkers, Busy
  <2> QED
    BY <1>1, <1>3, <2>1 DEF PoolOK
<1>4. CASE running' = running + 1 /\ ~Busy(w) /\ r.pc \notin {"absent", "idle"}
  <2>1. BusyWorkers' = BusyWorkers \cup {w} /\ w \notin BusyWorkers
    BY <1>1, <1>2, <1>4 DEF BusyWorkers, Busy
  <2>2. Cardinality(BusyWorkers') = Cardinality(BusyWorkers) + 1
    BY <2>1, BusyWorkersFinite, FS_AddElement
  <2> QED
    BY <1>1, <1>4, <2>2 DEF PoolOK
<1>5. CASE running' = running - 1 /\ Busy(w) /\ r.pc \in {"absent", "idle"}
  <2>1. BusyWorkers' = BusyWorkers \ {w} /\ w \in BusyWorkers
    BY <1>1, <1>2, <1>5 DEF BusyWorkers, Busy
  <2>2. Cardinality(BusyWorkers') = Cardinality(BusyWorkers) - 1
    BY <2>1, BusyWorkersFinite, FS_RemoveElement
  <2>3. running' \in Nat
    BY <1>5, <2>1, BusyWorkersFinite DEF PoolOK
  <2> QED
    BY <1>1, <1>5, <2>2, <2>3 DEF PoolOK
<1> QED
  BY <1>3, <1>4, <1>5

(* A step strands no job when every job that is queued after it is in a    *)
(* batch, waits for a retry, or was queued before it in a batch that it    *)
(* leaves alone.                                                           *)
LEMMA StrandedStep ==
  ASSUME NoJobStranded, Timed', Closed => Closed',
         \A j \in Ids : ~Closed' /\ jobs'[j].state = "queued" =>
            \/ Waiting(j)'
            \/ jobs'[j].retry
            \/ jobs[j].state = "queued" /\ ~jobs[j].retry /\ (Waiting(j) => Waiting(j)')
  PROVE  NoJobStranded'
BY DEF NoJobStranded, Timed

LEMMA StrandedFrame ==
  ASSUME NoJobStranded, UNCHANGED <<jobs, timers, workers>>, Closed => Closed',
         \A j \in Ids : InBatch(j) => InBatch(j)'
  PROVE  NoJobStranded'
BY DEF NoJobStranded, Waiting, InBatch

-----------------------------------------------------------------------------
(* Each action keeps the invariant.                                        *)

(* Steps that leave the jobs, the batches and the workers alone.           *)
LEMMA QuietKeeps ==
  ASSUME IInv, UNCHANGED <<tableVars, timers, batchVars, poolVars>>, RestType',
         Closed => Closed'
  PROVE  IInv'
<1>1. TableOK' /\ PoolOK' /\ BatchType' /\ Held'
  BY TableFrame, PoolFrame, BatchFrame, HeldFrame
     DEF IInv, tableVars, batchVars, poolVars, PoolOK
<1>2. NoJobStranded'
  BY BatchFrame, StrandedFrame DEF IInv, tableVars, batchVars, poolVars
<1> QED
  BY <1>1, <1>2 DEF IInv

LEMMA SetBatchSizeKeeps ==
  ASSUME IInv, NEW n \in BatchSizes, SetBatchSize(n)
  PROVE  IInv'
<1>1. RestType' /\ (Closed => Closed')
  BY DEF SetBatchSize, IInv, RestType, lifeVars, diskVars, Closed
<1> QED
  BY <1>1, QuietKeeps DEF SetBatchSize

LEMMA StartBeginKeeps ==
  ASSUME IInv, StartBegin
  PROVE  IInv'
<1>1. RestType' /\ (Closed => Closed')
  BY DEF StartBegin, IInv, RestType, optVars, diskVars, Closed
<1> QED
  BY <1>1, QuietKeeps DEF StartBegin

LEMMA ReplayBeginKeeps ==
  ASSUME IInv, ReplayBegin
  PROVE  IInv'
<1>1. RestType' /\ (Closed => Closed')
  BY DEF ReplayBegin, IInv, RestType, optVars, diskVars, Closed
<1> QED
  BY <1>1, QuietKeeps DEF ReplayBegin

LEMMA ReplayEndKeeps ==
  ASSUME IInv, ReplayEnd
  PROVE  IInv'
<1>1. RestType' /\ (Closed => Closed')
  BY SyncEngineAssumption DEF ReplayEnd, MarkDirty, IInv, RestType, optVars, diskVars, Closed
<1> QED
  BY <1>1, QuietKeeps DEF ReplayEnd

(* The steps of Close that only move Close on.                             *)
LEMMA ClosingKeeps ==
  ASSUME IInv, CloseBegin \/ CloseDrained \/ CloseExpired
  PROVE  IInv'
<1>1. /\ closing' \in {"flush", "retire"}
      /\ UNCHANGED <<tableVars, timers, used, batchVars, poolVars, optVars,
                     life, todo, cancels, pruner, diskVars>>
  BY DEF CloseBegin, CloseDrained, CloseExpired
<1>2. RestType' /\ (Closed => Closed')
  BY <1>1 DEF IInv, RestType, optVars, diskVars, Closed
<1> QED
  BY <1>1, <1>2, QuietKeeps

LEMMA SnapshotType ==
  ASSUME IInv
  PROVE  Snapshot \in DocType
BY DEF IInv, TableOK, JobType, Snapshot, DocType

LEMMA CloseWaitKeeps ==
  ASSUME IInv, CloseWait
  PROVE  IInv'
<1>1. RestType' /\ (Closed => Closed')
  BY SnapshotType DEF CloseWait, IInv, RestType, optVars, diskVars, Closed
<1> QED
  BY <1>1, QuietKeeps DEF CloseWait

LEMMA PersistKeeps ==
  ASSUME IInv, Persist
  PROVE  IInv'
<1>1. RestType' /\ (Closed => Closed')
  BY SnapshotType DEF Persist, IInv, RestType, optVars, lifeVars, diskVars, Closed
<1> QED
  BY <1>1, QuietKeeps DEF Persist

(* Steps that only move jobs from an open batch to the queue.              *)
LEMMA BatchMoveKeeps ==
  ASSUME IInv, UNCHANGED <<tableVars, timers, poolVars>>, RestType', Closed => Closed',
         BatchType', \A j \in Ids : InBatch(j) => InBatch(j)'
  PROVE  IInv'
<1>1. TableOK' /\ PoolOK' /\ Held'
  BY TableFrame, PoolFrame, HeldFrame DEF IInv, tableVars, poolVars, PoolOK
<1>2. NoJobStranded'
  BY StrandedFrame DEF IInv, tableVars, poolVars
<1> QED
  BY <1>1, <1>2 DEF IInv

LEMMA FireKeeps ==
  ASSUME IInv, NEW k \in Keys, Fire(k)
  PROVE  IInv'
<1>1. RestType' /\ (Closed => Closed')
  BY DEF Fire, IInv, RestType, optVars, lifeVars, diskVars, Closed
<1>2. /\ queue' \in Seq(SUBSET Ids)
      /\ Len(queue') = Len(queue) + 1
      /\ \A i \in 1..Len(queue) : queue'[i] = queue[i]
      /\ queue'[Len(queue) + 1] = pending[k]
  BY AppendProperties DEF Fire, IInv, BatchType
<1>3. /\ Len(queue) \in Nat /\ DOMAIN queue = 1..Len(queue)
      /\ DOMAIN queue' = 1..(Len(queue) + 1)
  BY <1>2, LenProperties DEF IInv, BatchType
<1>4. BatchType'
  BY <1>2 DEF Fire, IInv, BatchType
<1>5. \A j \in Ids : InBatch(j) => InBatch(j)'
  BY <1>2, <1>3, SyncEngineAssumption DEF Fire, IInv, BatchType, InBatch
<1> QED
  BY <1>1, <1>4, <1>5, BatchMoveKeeps DEF Fire

LEMMA FlushKeeps ==
  ASSUME IInv, Flush
  PROVE  IInv'
<1>1. RestType' /\ (Closed => Closed')
  BY DEF Flush, IInv, RestType, optVars, lifeVars, diskVars, Closed
<1>2. BatchType' /\ \A j \in Ids : InBatch(j) => InBatch(j)'
  BY FireAllKeeps DEF Flush, IInv
<1> QED
  BY <1>1, <1>2, BatchMoveKeeps DEF Flush

LEMMA CloseFlushKeeps ==
  ASSUME IInv, CloseFlush
  PROVE  IInv'
<1>1. RestType' /\ (Closed => Closed')
  BY DEF CloseFlush, IInv, RestType, optVars, diskVars, Closed
<1>2. BatchType' /\ \A j \in Ids : InBatch(j) => InBatch(j)'
  BY FireAllKeeps DEF CloseFlush, IInv
<1> QED
  BY <1>1, <1>2, BatchMoveKeeps DEF CloseFlush

(* The worker pool.                                                        *)
LEMMA RetireWorkerKeeps ==
  ASSUME IInv, NEW w \in Workers, RetireWorker(w)
  PROVE  IInv'
<1>1. NoWork \in WorkType
  BY DEF NoWork, WorkType, Outcomes
<1>2. PoolOK'
  BY <1>1, PoolStep DEF RetireWorker, IInv, Busy, NoWork
<1>3. TableOK' /\ BatchType' /\ (\A j \in Ids : InBatch(j) => InBatch(j)')
  BY TableFrame, BatchFrame DEF RetireWorker, IInv, tableVars, batchVars
<1>4. RestType' /\ (Closed => Closed')
  BY DEF RetireWorker, IInv, RestType, optVars, lifeVars, diskVars, Closed
<1>5. \A v \in Workers : v # w => workers'[v] = workers[v]
  BY DEF RetireWorker, IInv, PoolOK
<1>6. Held'
  BY <1>5 DEF RetireWorker, IInv, Held, Holds, tableVars
<1>7. \A j \in Ids : Waiting(j) => Waiting(j)'
  BY <1>3, <1>5 DEF RetireWorker, Waiting, InBatch
<1>8. NoJobStranded'
  BY <1>3, <1>4, <1>7, StrandedStep DEF RetireWorker, IInv, NoJobStranded, TableOK, tableVars
<1> QED
  BY <1>2, <1>3, <1>4, <1>6, <1>8 DEF IInv

LEMMA NextBatchKeeps ==
  ASSUME IInv, NEW w \in Workers, NextBatch(w)
  PROVE  IInv'
<1> DEFINE r == [workers[w] EXCEPT !.pc = "popped", !.batch = Head(queue)]
<1>0. /\ queue \in Seq(SUBSET Ids) /\ queue # <<>>
      /\ Head(queue) \in SUBSET Ids /\ Tail(queue) \in Seq(SUBSET Ids)
      /\ Len(queue) \in Nat \ {0} /\ Head(queue) = queue[1]
      /\ Len(Tail(queue)) = Len(queue) - 1
      /\ \A i \in 1..Len(Tail(queue)) : Tail(queue)[i] = queue[i + 1]
  BY HeadTailProperties, EmptySeq DEF NextBatch, IInv, BatchType
<1>1. r \in WorkType /\ r.pc = "popped" /\ r.batch = Head(queue)
  BY <1>0 DEF WorkType, IInv, PoolOK
<1>2. workers' = [workers EXCEPT ![w] = r]
  BY DEF NextBatch, IInv, PoolOK
<1> HIDE DEF r
<1>3. PoolOK'
  BY <1>1, <1>2, PoolStep DEF NextBatch, IInv, Busy
<1>4. TableOK' /\ BatchType'
  BY <1>0, TableFrame DEF NextBatch, IInv, tableVars, BatchType
<1>5. RestType' /\ (Closed => Closed')
  BY DEF NextBatch, IInv, RestType, optVars, lifeVars, diskVars, Closed
<1>6. workers'[w] = r /\ \A v \in Workers : v # w => workers'[v] = workers[v]
  BY <1>2 DEF IInv, PoolOK
<1>7. Held'
  BY <1>6 DEF NextBatch, IInv, Held, Holds, tableVars
<1>8. ASSUME NEW j \in Ids, Waiting(j) PROVE Waiting(j)'
  <2>1. CASE j \in pending[KeyOf[j]]
    BY <2>1 DEF NextBatch, Waiting
  <2>2. CASE \E i \in DOMAIN queue : j \in queue[i]
    <3>1. PICK i \in 1..Len(queue) : j \in queue[i]
      BY <1>0, <2>2, LenProperties
    <3>2. CASE i = 1
      BY <1>0, <1>1, <1>6, <3>1, <3>2 DEF Waiting
    <3>3. CASE i # 1
      <4>1. i - 1 \in 1..Len(Tail(queue)) /\ j \in Tail(queue)[i - 1]
        BY <1>0, <3>1, <3>3
      <4>2. i - 1 \in DOMAIN queue' /\ queue' = Tail(queue)
        BY <1>0, <4>1, LenProperties DEF NextBatch
      <4> QED
        BY <4>1, <4>2 DEF Waiting
    <3> QED
      BY <3>2, <3>3
  <2>3. CASE \E v \in Workers : workers[v].pc = "popped" /\ j \in workers[v].batch
    BY <1>6, <2>3 DEF NextBatch, Waiting
  <2> QED
    BY <1>8, <2>1, <2>2, <2>3 DEF Waiting
<1>9. NoJobStranded'
  BY <1>4, <1>5, <1>8, StrandedStep DEF NextBatch, IInv, NoJobStranded, TableOK, tableVars
<1> QED
  BY <1>3, <1>4, <1>5, <1>7, <1>9 DEF IInv

LEMMA StartedType ==
  ASSUME NEW j \in JobType, NEW w \in Workers
  PROVE  /\ Started(j, w) \in JobType
         /\ Started(j, w).state = "running" /\ Started(j, w).attempts > 0
         /\ Started(j, w).gen = j.gen /\ Started(j, w).retry = j.retry
<1>1. j.attempts \in Nat /\ j.attempts + 1 \in Nat /\ j.attempts + 1 > 0
  BY DEF JobType
<1>2. Started(j, w) \in JobType
  BY <1>1 DEF JobType, Started, States
<1>3. /\ Started(j, w).state = "running" /\ Started(j, w).attempts = j.attempts + 1
      /\ Started(j, w).gen = j.gen /\ Started(j, w).retry = j.retry
  BY DEF JobType, Started
<1> QED
  BY <1>1, <1>2, <1>3

LEMMA StartBatchKeeps ==
  ASSUME IInv, NEW w \in Workers, StartBatch(w)
  PROVE  IInv'
<1> DEFINE start == Startable(workers[w].batch)
           stamps == [id \in Ids |-> IF id \in start THEN jobs[id].gen ELSE 0]
           r == [workers[w] EXCEPT !.pc = IF start = {} THEN "finishing" ELSE "handling",
                                   !.batch = {}, !.jobs = start, !.stamps = stamps]
<1>0. start \subseteq Ids /\ stamps \in [Ids -> Nat] /\ workers[w].pc = "popped"
  BY DEF StartBatch, Startable, IInv, PoolOK, WorkType, TableOK, JobType
<1>1. /\ jobs' = [id \in Ids |-> IF id \in start THEN Started(jobs[id], w) ELSE jobs[id]]
      /\ workers' = [workers EXCEPT ![w] = r]
  BY DEF StartBatch
<1>2. \A id \in start : jobs[id].state = "queued" /\ ~jobs[id].retry
  BY DEF Startable
<1>3. \A id \in workers[w].batch :
         jobs[id].state = "queued" /\ ~jobs[id].retry => id \in start
  BY DEF Startable
<1> HIDE DEF start, stamps
<1>4. /\ r \in WorkType /\ r.pc \in {"finishing", "handling"}
      /\ start # {} => r.pc = "handling"
      /\ r.jobs = start /\ r.stamps = stamps
  BY <1>0 DEF IInv, PoolOK, WorkType
<1> HIDE DEF r
<1>5. PoolOK'
  BY <1>0, <1>1, <1>4, PoolStep DEF StartBatch, IInv, Busy
<1>6. ASSUME NEW id \in Ids
      PROVE  /\ id \notin start => jobs'[id] = jobs[id]
             /\ id \in start => /\ jobs'[id] \in JobType /\ jobs'[id].state = "running"
                                /\ jobs'[id].attempts > 0 /\ jobs'[id].gen = jobs[id].gen
                                /\ ~jobs'[id].retry
  <2>1. jobs[id] \in JobType
    BY DEF IInv, TableOK
  <2>2. CASE id \in start
    BY <1>1, <1>2, <2>1, <2>2, StartedType
  <2>3. CASE id \notin start
    BY <1>1, <2>3
  <2> QED
    BY <2>2, <2>3
<1>7. TableOK'
  <2>1. jobs' \in [Ids -> JobType]
    BY <1>1, <1>6 DEF IInv, TableOK
  <2>2. Timed' /\ Tried'
    BY <1>6 DEF StartBatch, IInv, TableOK, Timed, Tried
  <2>3. Listed'
    BY <1>2, <1>6 DEF StartBatch, IInv, TableOK, Listed
  <2> QED
    BY <2>1, <2>2, <2>3 DEF StartBatch, IInv, TableOK
<1>8. BatchType' /\ (\A j \in Ids : InBatch(j) => InBatch(j)')
  BY BatchFrame DEF StartBatch, IInv, batchVars
<1>9. RestType' /\ (Closed => Closed')
  BY DEF StartBatch, IInv, RestType, optVars, lifeVars, diskVars, Closed
<1>10. workers'[w] = r /\ \A v \in Workers : v # w => workers'[v] = workers[v]
  BY <1>1 DEF IInv, PoolOK
<1>11. ASSUME NEW id \in Ids, jobs'[id].state = "running"
       PROVE  \E v \in Workers : Holds(v, id)'
  <2>1. CASE id \in start
    BY <1>4, <1>6, <1>10, <2>1 DEF Holds, stamps
  <2>2. CASE id \notin start
    <3>1. PICK v \in Workers : Holds(v, id)
      BY <1>6, <1>11, <2>2 DEF IInv, Held
    <3> QED
      BY <1>0, <1>6, <1>10, <2>2, <3>1 DEF Holds
  <2> QED
    BY <2>1, <2>2
<1>12. ASSUME NEW j \in Ids, ~Closed', jobs'[j].state = "queued"
       PROVE  \/ jobs'[j].retry
              \/ jobs[j].state = "queued" /\ ~jobs[j].retry /\ (Waiting(j) => Waiting(j)')
  <2>1. j \notin start /\ jobs'[j] = jobs[j]
    BY <1>6, <1>12
  <2>2. CASE jobs[j].retry
    BY <2>1, <2>2
  <2>3. CASE ~jobs[j].retry
    <3>1. j \notin workers[w].batch
      BY <1>3, <1>12, <2>1, <2>3
    <3>2. Waiting(j) => Waiting(j)'
      BY <1>8, <1>10, <3>1 DEF Waiting, InBatch
    <3> QED
      BY <1>12, <2>1, <2>3, <3>2
  <2>4. jobs[j].retry \in BOOLEAN
    BY DEF IInv, TableOK, JobType
  <2> QED
    BY <2>2, <2>3
<1>13. NoJobStranded'
  BY <1>7, <1>9, <1>12, StrandedStep DEF IInv, TableOK
<1> QED
  BY <1>5, <1>7, <1>8, <1>9, <1>11, <1>13 DEF IInv, Held

LEMMA HandlerReturnsKeeps ==
  ASSUME IInv, NEW w \in Workers, HandlerReturns(w)
  PROVE  IInv'
<1>1. PICK o \in Outcomes :
         workers' = [workers EXCEPT ![w].pc = "completing", ![w].outcome = o]
  BY DEF HandlerReturns
<1> DEFINE r == [workers[w] EXCEPT !.pc = "completing", !.outcome = o]
<1>2. r \in WorkType /\ workers[w].pc = "handling"
  BY <1>1 DEF HandlerReturns, IInv, PoolOK, WorkType
<1>2a. r.pc = "completing" /\ r.jobs = workers[w].jobs /\ r.stamps = workers[w].stamps
  BY DEF IInv, PoolOK, WorkType
<1>3. workers' = [workers EXCEPT ![w] = r]
  BY <1>1 DEF IInv, PoolOK
<1> HIDE DEF r
<1>4. PoolOK'
  BY <1>2, <1>2a, <1>3, PoolStep DEF HandlerReturns, IInv, Busy
<1>5. TableOK' /\ BatchType' /\ (\A j \in Ids : InBatch(j) => InBatch(j)')
  BY TableFrame, BatchFrame DEF HandlerReturns, IInv, tableVars, batchVars
<1>6. RestType' /\ (Closed => Closed')
  BY DEF HandlerReturns, IInv, RestType, optVars, lifeVars, diskVars, Closed
<1>7. workers'[w] = r /\ \A v \in Workers : v # w => workers'[v] = workers[v]
  BY <1>3 DEF IInv, PoolOK
<1>8. Held'
  <2>1. \A v \in Workers, id \in Ids : Holds(v, id) => Holds(v, id)'
    BY <1>2a, <1>7 DEF HandlerReturns, Holds, tableVars
  <2> QED
    BY <2>1 DEF HandlerReturns, IInv, Held, tableVars
<1>9. \A j \in Ids : Waiting(j) => Waiting(j)'
  BY <1>2, <1>2a, <1>5, <1>7 DEF Waiting, InBatch
<1>10. NoJobStranded'
  BY <1>5, <1>6, <1>9, StrandedStep DEF HandlerReturns, IInv, NoJobStranded, TableOK, tableVars
<1> QED
  BY <1>4, <1>5, <1>6, <1>8, <1>10 DEF IInv

LEMMA CompleteEndKeeps ==
  ASSUME IInv, NEW w \in Workers, CompleteEnd(w)
  PROVE  IInv'
<1> DEFINE r == [workers[w] EXCEPT !.pc = "finishing"]
<1>1. r \in WorkType /\ workers[w].pc = "completing" /\ r.pc = "finishing"
  BY DEF CompleteEnd, IInv, PoolOK, WorkType
<1>2. workers' = [workers EXCEPT ![w] = r]
  BY DEF CompleteEnd, IInv, PoolOK
<1> HIDE DEF r
<1>3. PoolOK'
  BY <1>1, <1>2, PoolStep DEF CompleteEnd, IInv, Busy
<1>4. TableOK' /\ BatchType' /\ (\A j \in Ids : InBatch(j) => InBatch(j)')
  BY TableFrame, BatchFrame DEF CompleteEnd, IInv, tableVars, batchVars
<1>5. RestType' /\ (Closed => Closed')
  BY SyncEngineAssumption
     DEF CompleteEnd, MarkDirty, IInv, RestType, optVars, lifeVars, diskVars, Closed
<1>6. workers'[w] = r /\ \A v \in Workers : v # w => workers'[v] = workers[v]
  BY <1>2 DEF IInv, PoolOK
<1>7. \A id \in Ids : ~Holds(w, id)
  BY DEF CompleteEnd, Holds
<1>8. Held'
  BY <1>6, <1>7 DEF CompleteEnd, IInv, Held, Holds, tableVars
<1>9. \A j \in Ids : Waiting(j) => Waiting(j)'
  BY <1>1, <1>4, <1>6 DEF Waiting, InBatch
<1>10. NoJobStranded'
  BY <1>4, <1>5, <1>9, StrandedStep DEF CompleteEnd, IInv, NoJobStranded, TableOK, tableVars
<1> QED
  BY <1>3, <1>4, <1>5, <1>8, <1>10 DEF IInv

LEMMA FinishBatchKeeps ==
  ASSUME IInv, NEW w \in Workers, FinishBatch(w)
  PROVE  IInv'
<1> DEFINE r == Idle(workers[w].gen)
<1>1. r \in WorkType /\ workers[w].pc = "finishing" /\ r.pc = "idle"
  BY DEF FinishBatch, IInv, PoolOK, WorkType, Idle, NoWork, Outcomes
<1>2. workers' = [workers EXCEPT ![w] = r]
  BY DEF FinishBatch, IInv, PoolOK
<1> HIDE DEF r
<1>3. PoolOK'
  BY <1>1, <1>2, PoolStep DEF FinishBatch, IInv, Busy
<1>4. TableOK' /\ BatchType' /\ (\A j \in Ids : InBatch(j) => InBatch(j)')
  BY TableFrame, BatchFrame DEF FinishBatch, IInv, tableVars, batchVars
<1>5. RestType' /\ (Closed => Closed')
  BY DEF FinishBatch, IInv, RestType, optVars, lifeVars, diskVars, Closed
<1>6. workers'[w] = r /\ \A v \in Workers : v # w => workers'[v] = workers[v]
  BY <1>2 DEF IInv, PoolOK
<1>7. Held'
  BY <1>1, <1>6 DEF FinishBatch, IInv, Held, Holds, tableVars
<1>8. \A j \in Ids : Waiting(j) => Waiting(j)'
  BY <1>1, <1>4, <1>6 DEF Waiting, InBatch
<1>9. NoJobStranded'
  BY <1>4, <1>5, <1>8, StrandedStep DEF FinishBatch, IInv, NoJobStranded, TableOK, tableVars
<1> QED
  BY <1>3, <1>4, <1>5, <1>7, <1>9 DEF IInv

-----------------------------------------------------------------------------
(* What an outcome does to a job.                                          *)

(* One record changes: the parts of the invariant that look at records.    *)
LEMMA OneRecord ==
  ASSUME TableOK, NEW id \in Ids, NEW r \in JobType, jobs' = [jobs EXCEPT ![id] = r],
         dead' \in Seq(Ids), timers' \in [Ids -> Nat], order' \in [Ids -> Nat],
         \A j \in Ids : j # id => timers'[j] = timers[j] /\ order'[j] = order[j],
         r.retry => r.state = "queued" /\ timers'[id] > 0,
         r.state # "running", order'[id] > 0
  PROVE  /\ TableOK'
         /\ jobs'[id] = r /\ \A j \in Ids : j # id => jobs'[j] = jobs[j]
<1>1. jobs'[id] = r /\ \A j \in Ids : j # id => jobs'[j] = jobs[j]
  BY DEF TableOK
<1>2. jobs' \in [Ids -> JobType]
  BY DEF TableOK
<1>3. Timed' /\ Tried' /\ Listed'
  BY <1>1 DEF TableOK, Timed, Tried, Listed
<1> QED
  BY <1>1, <1>2, <1>3 DEF TableOK

LEMMA SettleType ==
  ASSUME TableOK, NEW id \in Ids, NEW s \in States
  PROVE  /\ Settle(id, s) \in JobType
         /\ Settle(id, s).state = s /\ Settle(id, s).retry = jobs[id].retry
         /\ Settle(id, s).attempts = jobs[id].attempts
         /\ Settle(id, s).gen = jobs[id].gen
BY DEF TableOK, JobType, Settle

(* What the loop of complete does to a job that is running: the table      *)
(* stays well formed, only finished records change besides this one, and   *)
(* the job itself is not running any more and, if it is queued, in a batch *)
(* or waiting for its retry, unless the engine is closed.                  *)
Applied(id) ==
  /\ TableOK' /\ BatchType'
  /\ \A j \in Ids : InBatch(j) => InBatch(j)'
  /\ \A j \in Ids : j # id => jobs'[j] = jobs[j] \/ jobs'[j] = NoJob
  /\ jobs'[id].state # "running"
  /\ jobs'[id].state = "queued" => Closed \/ InBatch(id)' \/ jobs'[id].retry

LEMMA SucceedApplies ==
  ASSUME IInv, NEW id \in Ids, jobs[id].state = "running", Succeed(id)
  PROVE  Applied(id)
<1> DEFINE r == Settle(id, "done")
<1>1. r \in JobType /\ r.state = "done" /\ ~r.retry
  BY SettleType DEF IInv, TableOK, Timed, States
<1> HIDE DEF r
<1>2. /\ TableOK'
      /\ jobs'[id] = r /\ \A j \in Ids : j # id => jobs'[j] = jobs[j]
  BY <1>1, OneRecord DEF Succeed, r, IInv, TableOK, Listed
<1> QED
  BY <1>1, <1>2, BatchFrame DEF Applied, Succeed, batchVars, IInv

LEMMA AbandonApplies ==
  ASSUME IInv, NEW id \in Ids, jobs[id].state = "running", Abandon(id)
  PROVE  Applied(id)
<1> DEFINE q == Settle(id, "queued")
           r == [q EXCEPT !.attempts = @ - 1]
<1>1. q \in JobType /\ q.state = "queued" /\ ~q.retry /\ q.attempts > 0
  BY SettleType DEF IInv, TableOK, Timed, Tried, States
<1> HIDE DEF q
<1>2. r \in JobType /\ r.state = "queued" /\ ~r.retry
  BY <1>1 DEF JobType
<1> HIDE DEF r
<1>3. /\ TableOK'
      /\ jobs'[id] = r /\ \A j \in Ids : j # id => jobs'[j] = jobs[j]
  BY <1>2, OneRecord DEF Abandon, q, r, IInv, TableOK, Listed
<1>4. /\ BatchType' /\ \A j \in Ids : InBatch(j) => InBatch(j)'
      /\ Closed \/ InBatch(id)'
  BY BatchFrame, AddToBatchKeeps DEF Abandon, batchVars, IInv
<1> QED
  BY <1>2, <1>3, <1>4 DEF Applied

LEMMA ScheduleRetryApplies ==
  ASSUME IInv, NEW id \in Ids, jobs[id].state = "running", ScheduleRetry(id)
  PROVE  Applied(id)
<1> DEFINE q == Settle(id, "queued")
           r == [q EXCEPT !.retry = TRUE]
<1>1. q \in JobType /\ q.state = "queued"
  BY SettleType DEF IInv, States
<1> HIDE DEF q
<1>2. r \in JobType /\ r.state = "queued" /\ r.retry
  BY <1>1 DEF JobType
<1> HIDE DEF r
<1>3. /\ timers' \in [Ids -> Nat] /\ timers'[id] > 0
      /\ \A j \in Ids : j # id => timers'[j] = timers[j]
  BY DEF ScheduleRetry, IInv, TableOK
<1>4. /\ TableOK'
      /\ jobs'[id] = r /\ \A j \in Ids : j # id => jobs'[j] = jobs[j]
  BY <1>2, <1>3, OneRecord DEF ScheduleRetry, q, r, IInv, TableOK, Listed
<1> QED
  BY <1>2, <1>4, BatchFrame DEF Applied, ScheduleRetry, batchVars, IInv

LEMMA ParkApplies ==
  ASSUME IInv, NEW id \in Ids, jobs[id].state = "running", Closed, Park(id)
  PROVE  Applied(id)
<1> DEFINE r == Settle(id, "queued")
<1>1. r \in JobType /\ r.state = "queued" /\ ~r.retry
  BY SettleType DEF IInv, TableOK, Timed, States
<1> HIDE DEF r
<1>2. /\ TableOK'
      /\ jobs'[id] = r /\ \A j \in Ids : j # id => jobs'[j] = jobs[j]
  BY <1>1, OneRecord DEF Park, r, IInv, TableOK, Listed
<1> QED
  BY <1>1, <1>2, BatchFrame DEF Applied, Park, batchVars, IInv

LEMMA NoJobType == NoJob \in JobType /\ NoJob.state = "absent" /\ ~NoJob.retry /\ ~NoJob.dead
BY DEF NoJob, JobType, States

(* The eviction of the oldest dead letter forgets one more record.         *)
LEMMA GiveUpApplies ==
  ASSUME IInv, NEW id \in Ids, jobs[id].state = "running", GiveUp(id)
  PROVE  Applied(id)
<1> DEFINE q == Settle(id, "failed")
           r == [q EXCEPT !.dead = TRUE]
           failed == [jobs EXCEPT ![id] = r]
           list == Append(dead, id)
           oldest == Head(list)
<1>1. q \in JobType /\ q.state = "failed" /\ ~q.retry
  BY SettleType DEF IInv, TableOK, Timed, States
<1> HIDE DEF q
<1>2. r \in JobType /\ r.state = "failed" /\ ~r.retry
  BY <1>1 DEF JobType
<1>3. \/ dead' = list /\ jobs' = failed /\ UNCHANGED order
      \/ /\ dead' = Tail(list)
         /\ jobs' = [failed EXCEPT ![oldest] = NoJob]
         /\ order' = IF failed[oldest].state = "absent" THEN order
                     ELSE Unlisted(order, oldest)
  BY DEF GiveUp, q
<1>4. UNCHANGED <<timers, pending, queue>>
  BY DEF GiveUp, batchVars
<1> HIDE DEF r
<1>5. /\ failed \in [Ids -> JobType] /\ failed[id] = r
      /\ \A j \in Ids : j # id => failed[j] = jobs[j]
  BY <1>2 DEF IInv, TableOK
<1>6. /\ list \in Seq(Ids) /\ list # <<>> /\ oldest \in Ids /\ Tail(list) \in Seq(Ids)
  BY AppendProperties, HeadTailProperties, EmptySeq DEF IInv, TableOK
<1> HIDE DEF failed, list, oldest
<1>7. CASE dead' = list /\ jobs' = failed /\ UNCHANGED order
  <2>1. TableOK'
    <3>1. Timed' /\ Tried' /\ Listed'
      BY <1>2, <1>4, <1>5, <1>7 DEF IInv, TableOK, Timed, Tried, Listed
    <3> QED
      BY <1>4, <1>5, <1>6, <1>7, <3>1 DEF IInv, TableOK
  <2> QED
    BY <1>2, <1>4, <1>5, <1>7, <2>1, BatchFrame DEF Applied, IInv
<1>8. CASE /\ dead' = Tail(list)
           /\ jobs' = [failed EXCEPT ![oldest] = NoJob]
           /\ order' = IF failed[oldest].state = "absent" THEN order
                       ELSE Unlisted(order, oldest)
  <2>1. /\ jobs' \in [Ids -> JobType] /\ jobs'[oldest] = NoJob
        /\ \A j \in Ids : j # oldest => jobs'[j] = failed[j]
    BY <1>5, <1>6, <1>8, NoJobType
  <2>2. /\ order' \in [Ids -> Nat]
        /\ \A j \in Ids : j # oldest => order'[j] = order[j]
    BY <1>6, <1>8 DEF IInv, TableOK, Unlisted
  <2>3. Timed' /\ Tried'
    BY <1>2, <1>4, <1>5, <2>1, NoJobType DEF IInv, TableOK, Timed, Tried
  <2>4. Listed'
    BY <1>2, <1>5, <2>1, <2>2, NoJobType DEF IInv, TableOK, Listed
  <2>5. TableOK'
    BY <1>4, <1>6, <1>8, <2>1, <2>2, <2>3, <2>4 DEF IInv, TableOK
  <2> QED
    BY <1>2, <1>4, <1>5, <1>6, <2>1, <2>5, NoJobType, BatchFrame DEF Applied, IInv
<1> QED
  BY <1>3, <1>7, <1>8

LEMMA ApplyApplies ==
  ASSUME IInv, NEW id \in Ids, NEW o \in Outcomes, jobs[id].state = "running", Apply(id, o)
  PROVE  Applied(id)
BY SucceedApplies, AbandonApplies, ScheduleRetryApplies, ParkApplies, GiveUpApplies
   DEF Apply, Outcomes

LEMMA CompleteJobKeeps ==
  ASSUME IInv, NEW w \in Workers, NEW id \in Ids, CompleteJob(w, id)
  PROVE  IInv'
<1> DEFINE r == [workers[w] EXCEPT !.jobs = @ \ {id}]
<1>1. /\ r \in WorkType /\ workers[w].pc = "completing" /\ r.pc = "completing"
      /\ r.jobs = workers[w].jobs \ {id} /\ r.stamps = workers[w].stamps
  BY DEF CompleteJob, IInv, PoolOK, WorkType
<1>2. workers' = [workers EXCEPT ![w] = r]
  BY DEF CompleteJob, IInv, PoolOK
<1> HIDE DEF r
<1>3. PoolOK'
  BY <1>1, <1>2, PoolStep DEF CompleteJob, IInv, Busy
<1>4. RestType' /\ (Closed => Closed') /\ (Closed' => Closed)
  BY DEF CompleteJob, IInv, RestType, optVars, lifeVars, diskVars, Closed
<1>5. workers'[w] = r /\ \A v \in Workers : v # w => workers'[v] = workers[v]
  BY <1>2 DEF IInv, PoolOK
<1>6. \A v \in Workers, j \in Ids : Holds(v, j) /\ jobs'[j].gen = jobs[j].gen
                                    => Holds(v, j)' \/ (v = w /\ j = id)
  BY <1>1, <1>5 DEF Holds
<1>7. CASE Superseded(w, id)
  <2>1. UNCHANGED <<jobs, order, dead, timers, pending, queue>>
    BY <1>7 DEF CompleteJob, tableVars, batchVars
  <2>2. TableOK' /\ BatchType' /\ (\A j \in Ids : InBatch(j) => InBatch(j)')
    BY <2>1, TableFrame, BatchFrame DEF IInv
  <2>3. jobs[id].state = "running" => ~Holds(w, id)
    BY <1>7 DEF Superseded, Holds
  <2>4. Held'
    BY <1>6, <2>1, <2>3 DEF IInv, Held
  <2>5. \A j \in Ids : Waiting(j) => Waiting(j)'
    BY <1>1, <1>5, <2>2 DEF Waiting, InBatch
  <2>6. NoJobStranded'
    BY <1>4, <2>1, <2>2, <2>5, StrandedStep DEF IInv, NoJobStranded, TableOK
  <2> QED
    BY <1>3, <1>4, <2>2, <2>4, <2>6 DEF IInv
<1>8. CASE ~Superseded(w, id)
  <2>1. Applied(id)
    <3>1. workers[w].outcome \in Outcomes
      BY DEF IInv, PoolOK, WorkType
    <3> QED
      BY <1>8, <3>1, ApplyApplies DEF CompleteJob, Superseded
  <2>2. Held'
    BY <1>6, <2>1, NoJobType DEF IInv, Held, Applied
  <2>3. \A j \in Ids : Waiting(j) => Waiting(j)'
    BY <1>1, <1>5, <2>1 DEF Waiting, InBatch, Applied
  <2>4. InBatch(id)' => Waiting(id)'
    BY DEF InBatch, Waiting
  <2>5. ASSUME NEW j \in Ids, ~Closed', jobs'[j].state = "queued"
        PROVE  Waiting(j)' \/ jobs'[j].retry
    <3>1. CASE j = id
      BY <1>4, <2>1, <2>4, <2>5, <3>1 DEF Applied
    <3>2. CASE j # id
      <4>1. jobs'[j] = jobs[j] /\ ~Closed
        BY <1>4, <2>1, <2>5, <3>2, NoJobType DEF Applied
      <4> QED
        BY <2>3, <2>5, <4>1 DEF IInv, NoJobStranded
    <3> QED
      BY <3>1, <3>2
  <2>6. NoJobStranded'
    BY <1>4, <2>1, <2>5, StrandedStep DEF IInv, TableOK, Applied
  <2> QED
    BY <1>3, <1>4, <2>1, <2>2, <2>6 DEF IInv, Applied
<1> QED
  BY <1>7, <1>8

-----------------------------------------------------------------------------
(* The calls of a user and the timers.                                     *)

(* One record changes and its job may join a batch; the workers go on.     *)
LEMMA OneJobKeeps ==
  ASSUME IInv, NEW id \in Ids, TableOK', BatchType', PoolOK', RestType', Closed => Closed',
         \A j \in Ids : InBatch(j) => InBatch(j)',
         \A j \in Ids : j # id => jobs'[j] = jobs[j],
         jobs'[id].state # "running",
         jobs'[id].state = "queued" => Closed' \/ InBatch(id)' \/ jobs'[id].retry,
         \A w \in Workers : /\ workers'[w].pc = workers[w].pc
                            /\ workers'[w].batch = workers[w].batch
                            /\ workers'[w].jobs = workers[w].jobs
                            /\ workers'[w].stamps = workers[w].stamps
  PROVE  IInv'
<1>1. Held'
  <2>1. \A v \in Workers, j \in Ids : j # id /\ Holds(v, j) => Holds(v, j)'
    BY DEF Holds
  <2> QED
    BY <2>1 DEF IInv, Held
<1>2. \A j \in Ids : Waiting(j) => Waiting(j)'
  BY DEF Waiting, InBatch
<1>3. InBatch(id)' => Waiting(id)'
  BY DEF Waiting, InBatch
<1>4. NoJobStranded'
  <2>1. ASSUME NEW j \in Ids, ~Closed', jobs'[j].state = "queued"
        PROVE  Waiting(j)' \/ jobs'[j].retry
    <3>1. CASE j = id
      BY <1>3, <2>1, <3>1
    <3>2. CASE j # id
      BY <1>2, <2>1, <3>2 DEF IInv, NoJobStranded
    <3> QED
      BY <3>1, <3>2
  <2> QED
    BY <2>1, StrandedStep DEF IInv, TableOK
<1> QED
  BY <1>1, <1>4 DEF IInv

LEMMA NewJobType == NewJob \in JobType /\ NewJob.state = "queued" /\ ~NewJob.retry
BY DEF NewJob, NoJob, JobType, States

LEMMA EnqueueKeeps ==
  ASSUME IInv, NEW id \in Ids, Enqueue(id)
  PROVE  IInv'
<1>1. /\ order' \in [Ids -> Nat] /\ order'[id] > 0
      /\ \A j \in Ids : j # id => order'[j] = order[j]
  BY DEF Enqueue, IInv, TableOK
<1>2. /\ TableOK'
      /\ jobs'[id] = NewJob /\ \A j \in Ids : j # id => jobs'[j] = jobs[j]
  BY <1>1, NewJobType, OneRecord DEF Enqueue, IInv, TableOK
<1>3. PoolOK'
  BY PoolFrame DEF Enqueue, IInv, poolVars, PoolOK
<1>4. BatchType' /\ InBatch(id)' /\ \A j \in Ids : InBatch(j) => InBatch(j)'
  BY AddToBatchKeeps DEF Enqueue, IInv
<1>5. RestType' /\ (Closed => Closed')
  BY SyncEngineAssumption
     DEF Enqueue, MarkDirty, IInv, RestType, optVars, lifeVars, diskVars, Closed
<1> QED
  BY <1>2, <1>3, <1>4, <1>5, NewJobType, OneJobKeeps DEF Enqueue, poolVars

(* A callback that finds a retry scheduled puts the job in a batch; any    *)
(* other only ends.                                                        *)
LEMMA RetryFireKeeps ==
  ASSUME IInv, NEW id \in Ids, RetryFire(id)
  PROVE  IInv'
<1> DEFINE r == [jobs[id] EXCEPT !.retry = FALSE]
<1>1. /\ timers' \in [Ids -> Nat]
      /\ \A j \in Ids : j # id => timers'[j] = timers[j]
  BY DEF RetryFire, IInv, TableOK
<1>2. PoolOK'
  BY PoolFrame DEF RetryFire, IInv, poolVars, PoolOK
<1>3. RestType' /\ (Closed => Closed') /\ (Closed' => Closed)
  BY SyncEngineAssumption
     DEF RetryFire, MarkDirty, IInv, RestType, optVars, lifeVars, diskVars, Closed
<1>4. UNCHANGED <<order, dead, workers>>
  BY DEF RetryFire, poolVars
<1>5. CASE jobs[id].retry /\ jobs[id].state = "queued"
  <2>1. r \in JobType /\ r.state = "queued" /\ ~r.retry
    BY <1>5 DEF IInv, TableOK, JobType
  <2>2. jobs' = [jobs EXCEPT ![id] = r]
    BY <1>5 DEF RetryFire, IInv, TableOK
  <2> HIDE DEF r
  <2>3. /\ TableOK'
        /\ jobs'[id] = r /\ \A j \in Ids : j # id => jobs'[j] = jobs[j]
    BY <1>1, <1>4, <1>5, <2>1, <2>2, OneRecord DEF IInv, TableOK, Listed
  <2>4. /\ BatchType' /\ \A j \in Ids : InBatch(j) => InBatch(j)'
        /\ Closed \/ InBatch(id)'
    BY <1>5, BatchFrame, AddToBatchKeeps DEF RetryFire, batchVars, IInv
  <2> QED
    BY <1>2, <1>3, <1>4, <2>1, <2>3, <2>4, OneJobKeeps
<1>6. CASE ~(jobs[id].retry /\ jobs[id].state = "queued")
  <2>1. UNCHANGED <<jobs, pending, queue>>
    BY <1>6 DEF RetryFire, batchVars
  <2>2. TableOK'
    <3>1. Timed' /\ Tried' /\ Listed'
      BY <1>1, <1>4, <1>6, <2>1 DEF IInv, TableOK, Timed, Tried, Listed
    <3> QED
      BY <1>1, <1>4, <2>1, <3>1 DEF IInv, TableOK
  <2>3. BatchType' /\ Held' /\ \A j \in Ids : InBatch(j) => InBatch(j)'
    BY <1>4, <2>1, BatchFrame, HeldFrame DEF IInv
  <2>4. \A j \in Ids : Waiting(j) => Waiting(j)'
    BY <1>4, <2>1 DEF Waiting
  <2>5. NoJobStranded'
    BY <1>3, <2>1, <2>2, <2>4, StrandedStep DEF IInv, NoJobStranded, TableOK
  <2> QED
    BY <1>2, <1>3, <2>2, <2>3, <2>5 DEF IInv
<1> QED
  BY <1>5, <1>6

LEMMA CancelledType ==
  ASSUME TableOK, NEW id \in Ids
  PROVE  /\ Cancelled(jobs[id]) \in JobType
         /\ Cancelled(jobs[id]).state = "cancelled" /\ ~Cancelled(jobs[id]).retry
<1>1. jobs[id] \in JobType /\ jobs[id].gen + 1 \in Nat
  BY DEF TableOK, JobType
<1> QED
  BY <1>1 DEF JobType, Cancelled, States

LEMMA CancelContextsType ==
  ASSUME PoolOK, NEW W
  PROVE  /\ CancelContexts(W) \in [Workers -> WorkType]
         /\ \A w \in Workers : /\ CancelContexts(W)[w].pc = workers[w].pc
                               /\ CancelContexts(W)[w].batch = workers[w].batch
                               /\ CancelContexts(W)[w].jobs = workers[w].jobs
                               /\ CancelContexts(W)[w].stamps = workers[w].stamps
<1>1. ASSUME NEW w \in Workers
      PROVE  LET r == [workers[w] EXCEPT !.cancelled = TRUE]
             IN  /\ r \in WorkType /\ r.pc = workers[w].pc /\ r.batch = workers[w].batch
                 /\ r.jobs = workers[w].jobs /\ r.stamps = workers[w].stamps
  BY DEF PoolOK, WorkType
<1> QED
  BY <1>1 DEF CancelContexts, PoolOK

LEMMA CancelContextsKeeps ==
  ASSUME PoolOK, NEW W, workers' = CancelContexts(W), UNCHANGED <<running, generation>>
  PROVE  PoolOK'
<1>1. BusyWorkers' = BusyWorkers
  BY CancelContextsType DEF BusyWorkers, Busy
<1> QED
  BY <1>1, CancelContextsType DEF PoolOK

(* The batch that keeps the other jobs of the key is the one Cancel leaves.*)
LEMMA CancelQueuedKeeps ==
  ASSUME IInv, NEW id \in Ids, CancelQueued(id)
  PROVE  IInv'
<1>1. PICK stopped \in IF jobs[id].retry THEN {0, 1} ELSE {0} :
         timers' = [timers EXCEPT ![id] = @ - stopped]
  BY DEF CancelQueued
<1>2. /\ timers' \in [Ids -> Nat]
      /\ \A j \in Ids : j # id => timers'[j] = timers[j]
  BY <1>1 DEF IInv, TableOK, Timed
<1>3. /\ TableOK'
      /\ jobs'[id] = Cancelled(jobs[id]) /\ \A j \in Ids : j # id => jobs'[j] = jobs[j]
  BY <1>2, CancelledType, OneRecord DEF CancelQueued, IInv, TableOK, Listed
<1>4. PoolOK'
  BY PoolFrame DEF CancelQueued, IInv, poolVars, PoolOK
<1>5. RestType' /\ (Closed => Closed')
  BY SyncEngineAssumption
     DEF CancelQueued, MarkDirty, IInv, RestType, optVars, lifeVars, diskVars, Closed
<1>6. BatchType' /\ \A j \in Ids : j # id /\ InBatch(j) => InBatch(j)'
  BY SyncEngineAssumption DEF CancelQueued, IInv, BatchType, InBatch
<1>7. UNCHANGED workers
  BY DEF CancelQueued, poolVars
<1>8. Held'
  BY <1>3, <1>7, CancelledType DEF IInv, Held, Holds
<1>9. NoJobStranded'
  <2>1. \A j \in Ids : j # id /\ Waiting(j) => Waiting(j)'
    BY <1>6, <1>7 DEF Waiting, InBatch
  <2>2. ASSUME NEW j \in Ids, ~Closed', jobs'[j].state = "queued"
        PROVE  Waiting(j)' \/ jobs'[j].retry
    <3>1. j # id
      BY <1>3, <2>2, CancelledType DEF IInv
    <3> QED
      BY <1>3, <1>5, <2>1, <2>2, <3>1 DEF IInv, NoJobStranded
  <2> QED
    BY <1>3, <1>5, <2>2, StrandedStep DEF IInv, TableOK
<1> QED
  BY <1>3, <1>4, <1>5, <1>6, <1>8, <1>9 DEF IInv

LEMMA CancelRunningKeeps ==
  ASSUME IInv, NEW id \in Ids, CancelRunning(id)
  PROVE  IInv'
<1>1. /\ TableOK'
      /\ jobs'[id] = Cancelled(jobs[id]) /\ \A j \in Ids : j # id => jobs'[j] = jobs[j]
  BY CancelledType, OneRecord DEF CancelRunning, IInv, TableOK, Listed
<1>2. PoolOK'
  BY CancelContextsKeeps DEF CancelRunning, IInv
<1>3. BatchType' /\ \A j \in Ids : InBatch(j) => InBatch(j)'
  BY BatchFrame DEF CancelRunning, batchVars, IInv
<1>4. RestType' /\ (Closed => Closed')
  BY SyncEngineAssumption
     DEF CancelRunning, MarkDirty, IInv, RestType, optVars, lifeVars, diskVars, Closed
<1> QED
  BY <1>1, <1>2, <1>3, <1>4, CancelledType, CancelContextsType, OneJobKeeps
     DEF CancelRunning, IInv

LEMMA RequeuedType ==
  ASSUME TableOK, NEW id \in Ids
  PROVE  /\ Requeued(jobs[id]) \in JobType /\ Requeued(jobs[id]).state = "queued"
         /\ Requeued(jobs[id]).retry = jobs[id].retry
<1>1. jobs[id] \in JobType /\ jobs[id].gen + 1 \in Nat
  BY DEF TableOK, JobType
<1> QED
  BY <1>1 DEF JobType, Requeued, States

LEMMA RetryDeadLetterKeeps ==
  ASSUME IInv, NEW id \in Ids, RetryDeadLetter(id)
  PROVE  IInv'
<1> DEFINE r == Requeued(jobs[id])
<1>1. r \in JobType /\ r.state = "queued" /\ r.retry = jobs[id].retry
  BY RequeuedType DEF IInv
<1>2. jobs' = [jobs EXCEPT ![id] = r]
  BY DEF RetryDeadLetter
<1> HIDE DEF r
<1>3. dead' \in Seq(Ids)
  BY RemoveFirstType DEF RetryDeadLetter, IInv, TableOK
<1>4. /\ TableOK'
      /\ jobs'[id] = r /\ \A j \in Ids : j # id => jobs'[j] = jobs[j]
  BY <1>1, <1>2, <1>3, OneRecord DEF RetryDeadLetter, IInv, TableOK, Timed, Listed
<1>5. PoolOK'
  BY PoolFrame DEF RetryDeadLetter, IInv, poolVars, PoolOK
<1>6. BatchType' /\ InBatch(id)' /\ \A j \in Ids : InBatch(j) => InBatch(j)'
  BY AddToBatchKeeps DEF RetryDeadLetter, IInv
<1>7. RestType' /\ (Closed => Closed')
  BY SyncEngineAssumption
     DEF RetryDeadLetter, MarkDirty, IInv, RestType, optVars, lifeVars, diskVars, Closed
<1> QED
  BY <1>1, <1>4, <1>5, <1>6, <1>7, OneJobKeeps DEF RetryDeadLetter, poolVars

LEMMA ClearDeadLetterKeeps ==
  ASSUME IInv, ClearDeadLetter
  PROVE  IInv'
<1> DEFINE listed == ToSet(dead)
           times(id) == Cardinality({i \in DOMAIN dead : dead[i] = id})
<1>1. /\ jobs' = [id \in Ids |-> IF id \in listed THEN NoJob ELSE jobs[id]]
      /\ order' = [id \in Ids |-> IF times(id) > order[id] THEN 0 ELSE order[id] - times(id)]
      /\ dead' = <<>>
      /\ UNCHANGED <<timers, pending, queue, workers, running, generation>>
  BY DEF ClearDeadLetter, batchVars, poolVars
<1>2. ASSUME NEW id \in Ids
      PROVE  times(id) \in Nat /\ (id \notin listed => times(id) = 0)
  <2>1. IsFiniteSet(DOMAIN dead)
    BY LenProperties, FS_Interval DEF IInv, TableOK
  <2>2. times(id) \in Nat
    BY <2>1, FS_Subset, FS_CardinalityType
  <2>3. id \notin listed => {i \in DOMAIN dead : dead[i] = id} = {}
    BY DEF ToSet
  <2> QED
    BY <2>2, <2>3, FS_EmptySet
<1> HIDE DEF listed, times
<1>3. \A id \in Ids : jobs'[id] = jobs[id] \/ jobs'[id] = NoJob
  BY <1>1
<1>4. TableOK'
  <2>1. jobs' \in [Ids -> JobType]
    BY <1>1, NoJobType DEF IInv, TableOK
  <2>2. order' \in [Ids -> Nat]
    BY <1>1, <1>2 DEF IInv, TableOK
  <2>3. Timed' /\ Tried'
    BY <1>1, <1>3, NoJobType DEF IInv, TableOK, Timed, Tried
  <2>4. Listed'
    <3>1. ASSUME NEW id \in Ids, jobs'[id].state # "absent" \/ jobs'[id].dead
          PROVE  order'[id] > 0
      <4>1. id \notin listed /\ jobs'[id] = jobs[id]
        BY <1>1, <3>1, NoJobType
      <4>2. order[id] \in Nat /\ order[id] > 0 /\ times(id) = 0
        BY <1>2, <3>1, <4>1 DEF IInv, TableOK, Listed
      <4> QED
        BY <1>1, <4>2
    <3> QED
      BY <3>1 DEF Listed
  <2> QED
    BY <1>1, <2>1, <2>2, <2>3, <2>4 DEF IInv, TableOK
<1>5. PoolOK' /\ BatchType'
  BY <1>1, PoolFrame, BatchFrame DEF IInv, PoolOK
<1>6. RestType' /\ (Closed => Closed')
  BY SyncEngineAssumption
     DEF ClearDeadLetter, MarkDirty, IInv, RestType, optVars, lifeVars, diskVars, Closed
<1>7. Held'
  BY <1>1, <1>3, NoJobType DEF IInv, Held, Holds
<1>8. NoJobStranded'
  <2>1. \A j \in Ids : Waiting(j) => Waiting(j)'
    BY <1>1 DEF Waiting
  <2> QED
    BY <1>3, <1>4, <1>6, <2>1, NoJobType, StrandedStep DEF IInv, NoJobStranded, TableOK
<1> QED
  BY <1>4, <1>5, <1>6, <1>7, <1>8 DEF IInv

LEMMA PruneKeeps ==
  ASSUME IInv, Prune
  PROVE  IInv'
<1>1. PICK old \in SUBSET {id \in Ids : jobs[id].state \in {"done", "cancelled"}} :
         /\ jobs' = [id \in Ids |-> IF id \in old THEN NoJob ELSE jobs[id]]
         /\ order' = [id \in Ids |-> IF id \in old THEN order[id] - 1 ELSE order[id]]
         /\ IF old # {} THEN MarkDirty ELSE UNCHANGED diskVars
  BY DEF Prune
<1>2. UNCHANGED <<dead, timers, pending, queue, workers, running, generation>>
  BY DEF Prune, batchVars, poolVars
<1>3. \A id \in Ids : jobs'[id] = jobs[id] \/ jobs'[id] = NoJob
  BY <1>1
<1>4. TableOK'
  <2>1. jobs' \in [Ids -> JobType]
    BY <1>1, NoJobType DEF IInv, TableOK
  <2>2. order' \in [Ids -> Nat]
    <3>1. \A id \in old : order[id] > 0
      BY DEF IInv, TableOK, Listed
    <3>2. \A id \in Ids : order[id] \in Nat /\ (id \in old => order[id] - 1 \in Nat)
      BY <3>1 DEF IInv, TableOK
    <3> QED
      BY <1>1, <3>2
  <2>3. Timed' /\ Tried' /\ Listed'
    BY <1>1, <1>2, <1>3, NoJobType DEF IInv, TableOK, Timed, Tried, Listed
  <2> QED
    BY <1>2, <2>1, <2>2, <2>3 DEF IInv, TableOK
<1>5. PoolOK' /\ BatchType'
  BY <1>2, PoolFrame, BatchFrame DEF IInv, PoolOK
<1>6. RestType' /\ (Closed => Closed')
  BY <1>1, SyncEngineAssumption
     DEF Prune, MarkDirty, IInv, RestType, optVars, lifeVars, diskVars, Closed
<1>7. Held'
  BY <1>2, <1>3, NoJobType DEF IInv, Held, Holds
<1>8. NoJobStranded'
  <2>1. \A j \in Ids : Waiting(j) => Waiting(j)'
    BY <1>2 DEF Waiting
  <2> QED
    BY <1>2, <1>3, <1>4, <1>6, <2>1, NoJobType, StrandedStep
       DEF IInv, NoJobStranded, TableOK
<1> QED
  BY <1>4, <1>5, <1>6, <1>7, <1>8 DEF IInv

-----------------------------------------------------------------------------
(* The pool comes up, Start replays, and Close.                            *)

(* Goroutines that come up are idle; nothing else about the pool changes.  *)
LEMMA StartWorkersKeeps ==
  ASSUME IInv, NEW gen \in Nat, NEW n \in Nat, StartWorkers(gen, n),
         UNCHANGED <<tableVars, timers, batchVars, running>>, generation' \in Nat,
         RestType', Closed => Closed'
  PROVE  IInv'
<1>1. PICK W \in SUBSET {w \in Workers : workers[w].pc = "absent"} :
         workers' = [w \in Workers |-> IF w \in W THEN Idle(gen) ELSE workers[w]]
  BY DEF StartWorkers
<1>2. Idle(gen) \in WorkType /\ Idle(gen).pc = "idle"
  BY DEF Idle, NoWork, WorkType, Outcomes
<1>3. \A w \in Workers : \/ workers'[w] = workers[w]
                         \/ workers'[w].pc = "idle" /\ workers[w].pc = "absent"
  BY <1>1, <1>2
<1>4. PoolOK'
  <2>1. BusyWorkers' = BusyWorkers
    BY <1>3 DEF BusyWorkers, Busy
  <2>2. workers' \in [Workers -> WorkType]
    BY <1>1, <1>2 DEF IInv, PoolOK
  <2> QED
    BY <2>1, <2>2 DEF IInv, PoolOK
<1>5. TableOK' /\ BatchType'
  BY TableFrame, BatchFrame DEF IInv, tableVars, batchVars
<1>6. Held'
  <2>1. \A v \in Workers, id \in Ids : Holds(v, id) => Holds(v, id)'
    BY <1>3 DEF Holds, tableVars
  <2> QED
    BY <2>1 DEF IInv, Held, tableVars
<1>7. NoJobStranded'
  <2>1. \A j \in Ids : Waiting(j) => Waiting(j)'
    BY <1>3 DEF Waiting, batchVars
  <2> QED
    BY <1>5, <2>1, StrandedStep DEF IInv, NoJobStranded, TableOK, tableVars
<1> QED
  BY <1>4, <1>5, <1>6, <1>7 DEF IInv

LEMMA StartPoolKeeps ==
  ASSUME IInv, StartPool
  PROVE  IInv'
<1>1. RestType' /\ (Closed => Closed')
  BY DEF StartPool, IInv, RestType, optVars, diskVars, Closed
<1>2. generation \in Nat /\ poolSize \in Nat
  BY SyncEngineAssumption DEF IInv, RestType, PoolOK
<1> QED
  BY <1>1, <1>2, StartWorkersKeeps DEF StartPool

LEMMA SetWorkersKeeps ==
  ASSUME IInv, NEW n \in PoolSizes, SetWorkers(n)
  PROVE  IInv'
<1>1. RestType' /\ (Closed => Closed')
  BY DEF SetWorkers, IInv, RestType, lifeVars, diskVars, Closed
<1>2. generation \in Nat /\ generation + 1 \in Nat /\ n \in Nat
  BY SyncEngineAssumption DEF IInv, PoolOK
<1>3. CASE life = "new"
  BY <1>1, <1>3, QuietKeeps DEF SetWorkers, poolVars
<1>4. CASE life # "new"
  BY <1>1, <1>2, <1>4, StartWorkersKeeps DEF SetWorkers
<1> QED
  BY <1>3, <1>4

LEMMA CloseRetireKeeps ==
  ASSUME IInv, CloseRetire
  PROVE  IInv'
<1>1. PICK stopped \in SUBSET {id \in Ids : jobs[id].retry} :
         timers' = [id \in Ids |-> IF id \in stopped THEN timers[id] - 1 ELSE timers[id]]
  BY DEF CloseRetire
<1>2. /\ jobs' = [id \in Ids |-> [jobs[id] EXCEPT !.retry = FALSE, !.cancel = NoWorker]]
      /\ pending' = [k \in Keys |-> {}] /\ Closed /\ Closed'
      /\ cancels' = {jobs[id].cancel : id \in Ids} \ {NoWorker}
      /\ UNCHANGED <<order, dead, queue, workers, running>>
  BY DEF CloseRetire, Closed
<1>3. ASSUME NEW id \in Ids
      PROVE  /\ jobs'[id] \in JobType /\ ~jobs'[id].retry
             /\ jobs'[id].state = jobs[id].state /\ jobs'[id].attempts = jobs[id].attempts
             /\ jobs'[id].gen = jobs[id].gen /\ jobs'[id].dead = jobs[id].dead
  <2>1. jobs[id] \in JobType
    BY DEF IInv, TableOK
  <2>2. jobs'[id] = [jobs[id] EXCEPT !.retry = FALSE, !.cancel = NoWorker]
    BY <1>2
  <2> QED
    BY <2>1, <2>2 DEF JobType
<1>4. timers' \in [Ids -> Nat]
  <2>1. \A id \in stopped : timers[id] > 0
    BY DEF IInv, TableOK, Timed
  <2>2. \A id \in Ids : timers[id] \in Nat /\ (id \in stopped => timers[id] - 1 \in Nat)
    BY <2>1 DEF IInv, TableOK
  <2> QED
    BY <1>1, <2>2
<1>5. TableOK'
  <2>1. jobs' \in [Ids -> JobType]
    BY <1>2, <1>3
  <2>2. Timed' /\ Tried' /\ Listed'
    BY <1>2, <1>3 DEF IInv, TableOK, Timed, Tried, Listed
  <2> QED
    BY <1>2, <1>4, <2>1, <2>2 DEF IInv, TableOK
<1>6. PoolOK'
  <2>1. generation \in Nat /\ generation' = generation + 1
    BY DEF CloseRetire, IInv, PoolOK
  <2>2. generation' \in Nat
    BY <2>1
  <2>3. UNCHANGED <<workers, running>>
    BY <1>2
  <2> QED
    BY <2>2, <2>3, PoolFrame DEF IInv
<1>7. BatchType'
  BY <1>2 DEF IInv, BatchType
<1>8. RestType'
  <2>1. \A id \in Ids : jobs[id].cancel \in Workers \cup {NoWorker}
    BY DEF IInv, TableOK, JobType
  <2>2. cancels' \subseteq Workers
    BY <1>2, <2>1
  <2>3. /\ closing' = "cancel" /\ pruner' \in {FALSE, pruner}
        /\ UNCHANGED <<used, poolSize, batchSize, life, todo, disk, dirty, crashes>>
    BY DEF CloseRetire, optVars, diskVars
  <2> QED
    BY <2>2, <2>3 DEF IInv, RestType
<1>9. Held'
  <2>1. \A v \in Workers, id \in Ids : Holds(v, id) => Holds(v, id)'
    BY <1>2, <1>3 DEF Holds
  <2> QED
    BY <1>3, <2>1 DEF IInv, Held
<1>10. NoJobStranded'
  BY <1>2 DEF NoJobStranded
<1> QED
  BY <1>5, <1>6, <1>7, <1>8, <1>9, <1>10 DEF IInv

LEMMA CloseCancelKeeps ==
  ASSUME IInv, CloseCancel
  PROVE  IInv'
<1>1. PoolOK'
  BY CancelContextsKeeps DEF CloseCancel, IInv
<1>2. TableOK' /\ BatchType'
  BY TableFrame, BatchFrame DEF CloseCancel, tableVars, batchVars, IInv
<1>3. RestType' /\ Closed'
  BY DEF CloseCancel, IInv, RestType, optVars, diskVars, Closed
<1>4. Held'
  <2>1. \A v \in Workers, id \in Ids : Holds(v, id) => Holds(v, id)'
    BY CancelContextsType DEF CloseCancel, IInv, Holds, tableVars
  <2> QED
    BY <2>1 DEF CloseCancel, IInv, Held, tableVars
<1>5. NoJobStranded'
  BY <1>3 DEF NoJobStranded
<1> QED
  BY <1>1, <1>2, <1>3, <1>4, <1>5 DEF IInv

LEMMA ReplayedType ==
  ASSUME disk \in DocType, NEW id \in Ids
  PROVE  /\ Replayed(id) \in JobType /\ ~Replayed(id).retry
         /\ Replayed(id).state # "running"
<1> DEFINE s == IF disk[id].state = "running" THEN "queued" ELSE disk[id].state
           d == disk[id].state = "failed" /\ disk[id].listed
<1>1. s \in States /\ s # "running" /\ d \in BOOLEAN /\ disk[id].attempts \in Nat
  BY DEF DocType, States
<1>2. Replayed(id) = [NewJob EXCEPT !.state = s, !.attempts = disk[id].attempts, !.dead = d]
  BY DEF Replayed
<1> HIDE DEF s, d
<1>3. /\ Replayed(id).state = s /\ Replayed(id).retry = FALSE
      /\ Replayed(id) \in JobType
  <2>1. /\ NewJob \in JobType /\ NewJob.retry = FALSE
    BY NewJobType DEF JobType
  <2> QED
    BY <1>1, <1>2, <2>1 DEF JobType
<1> QED
  BY <1>1, <1>3

LEMMA ReplayJobKeeps ==
  ASSUME IInv, NEW id \in Ids, ReplayJob(id)
  PROVE  IInv'
<1>1. UNCHANGED <<timers, workers, running, generation>> /\ (Closed => Closed')
  BY DEF ReplayJob, poolVars, Closed
<1>2. RestType'
  BY DEF ReplayJob, IInv, RestType, optVars, diskVars
<1>3. PoolOK'
  BY <1>1, PoolFrame DEF IInv, PoolOK
<1>4. CASE UNCHANGED <<tableVars, used, batchVars>>
  BY <1>1, <1>2, <1>4, QuietKeeps DEF poolVars
<1>5. CASE /\ jobs[id].state = "absent"
           /\ jobs' = [jobs EXCEPT ![id] = Replayed(id)]
           /\ order' = [order EXCEPT ![id] = @ + 1]
           /\ used' = [used EXCEPT ![id] = @ + 1]
           /\ dead' = IF Replayed(id).dead THEN Append(dead, id) ELSE dead
           /\ IF Replayed(id).state = "queued" THEN AddToBatch(id) ELSE UNCHANGED batchVars
  <2>1. /\ Replayed(id) \in JobType /\ ~Replayed(id).retry
        /\ Replayed(id).state # "running"
    BY ReplayedType DEF IInv, RestType
  <2>2. /\ order' \in [Ids -> Nat] /\ order'[id] > 0
        /\ \A j \in Ids : j # id => order'[j] = order[j]
    BY <1>5 DEF IInv, TableOK
  <2>3. dead' \in Seq(Ids)
    BY <1>5, AppendProperties DEF IInv, TableOK
  <2>4. /\ TableOK'
        /\ jobs'[id] = Replayed(id) /\ \A j \in Ids : j # id => jobs'[j] = jobs[j]
    BY <1>1, <1>5, <2>1, <2>2, <2>3, OneRecord DEF IInv, TableOK
  <2>5. /\ BatchType' /\ \A j \in Ids : InBatch(j) => InBatch(j)'
        /\ Replayed(id).state = "queued" => InBatch(id)'
    BY <1>5, AddToBatchKeeps, BatchFrame DEF batchVars, IInv
  <2> QED
    BY <1>1, <1>2, <1>3, <2>1, <2>4, <2>5, OneJobKeeps
<1> QED
  BY <1>4, <1>5 DEF ReplayJob

(* A process that begins has no job, no batch and no worker.               *)
Fresh == /\ jobs = [id \in Ids |-> NoJob] /\ order = [id \in Ids |-> 0] /\ dead = <<>>
         /\ timers = [id \in Ids |-> 0]
         /\ pending = [k \in Keys |-> {}] /\ queue = <<>>
         /\ workers = [w \in Workers |-> NoWork] /\ running = 0 /\ generation = 0

LEMMA FreshHolds ==
  ASSUME Fresh, RestType
  PROVE  IInv
<1>1. TableOK
  BY NoJobType DEF Fresh, TableOK, Timed, Tried, Listed, NoJob
<1>2. PoolOK
  <2>1. NoWork \in WorkType /\ NoWork.pc = "absent"
    BY DEF NoWork, WorkType, Outcomes
  <2>2. BusyWorkers = {}
    BY <2>1 DEF Fresh, BusyWorkers, Busy
  <2> QED
    BY <2>1, <2>2, FS_EmptySet DEF Fresh, PoolOK
<1>3. BatchType
  BY DEF Fresh, BatchType
<1>4. Held /\ NoJobStranded
  BY NoJobType DEF Fresh, Held, NoJobStranded
<1> QED
  BY <1>1, <1>2, <1>3, <1>4 DEF IInv

LEMMA InitHolds == Init => IInv
<1> SUFFICES ASSUME Init PROVE IInv
  OBVIOUS
<1>1. Fresh
  BY DEF Init, Fresh
<1>2. RestType
  BY DEF Init, RestType, DocType, NotWritten, States
<1> QED
  BY <1>1, <1>2, FreshHolds

LEMMA CrashKeeps ==
  ASSUME IInv, Crash
  PROVE  IInv'
<1>1. TableOK'
  BY NoJobType DEF Crash, TableOK, Timed, Tried, Listed
<1>2. PoolOK'
  <2>1. NoWork \in WorkType /\ NoWork.pc = "absent"
    BY DEF NoWork, WorkType, Outcomes
  <2>2. BusyWorkers' = {}
    BY <2>1 DEF Crash, BusyWorkers, Busy
  <2> QED
    BY <2>1, <2>2, FS_EmptySet DEF Crash, PoolOK
<1>3. BatchType'
  BY DEF Crash, BatchType
<1>4. RestType'
  <2>1. crashes' \in Nat /\ used' \in [Ids -> Nat]
    BY DEF Crash, IInv, RestType
  <2>2. /\ life' = "new" /\ todo' = {} /\ closing' = "open" /\ cancels' = {}
        /\ pruner' = FALSE /\ dirty' = FALSE /\ UNCHANGED <<poolSize, batchSize, disk>>
    BY DEF Crash, optVars
  <2> QED
    BY <2>1, <2>2 DEF IInv, RestType
<1>5. Held' /\ NoJobStranded'
  BY NoJobType DEF Crash, Held, NoJobStranded
<1> QED
  BY <1>1, <1>2, <1>3, <1>4, <1>5 DEF IInv

-----------------------------------------------------------------------------
(* The theorems.                                                           *)

LEMMA NextKeeps == IInv /\ [Next]_vars => IInv'
<1> SUFFICES ASSUME IInv, [Next]_vars PROVE IInv'
  OBVIOUS
<1>1. ASSUME NEW w \in Workers, WorkerStep(w) PROVE IInv'
  BY <1>1, RetireWorkerKeeps, NextBatchKeeps, StartBatchKeeps, HandlerReturnsKeeps,
     CompleteJobKeeps, CompleteEndKeeps, FinishBatchKeeps DEF WorkerStep
<1>2. ASSUME UserStep PROVE IInv'
  BY <1>2, EnqueueKeeps, CancelQueuedKeeps, CancelRunningKeeps, RetryDeadLetterKeeps,
     ClearDeadLetterKeeps, FlushKeeps, SetWorkersKeeps, SetBatchSizeKeeps DEF UserStep
<1>3. ASSUME StartStep PROVE IInv'
  BY <1>3, StartBeginKeeps, ReplayBeginKeeps, ReplayJobKeeps, ReplayEndKeeps,
     StartPoolKeeps DEF StartStep
<1>4. ASSUME CloseStep PROVE IInv'
  BY <1>4, ClosingKeeps, CloseFlushKeeps, CloseRetireKeeps, CloseCancelKeeps,
     CloseWaitKeeps DEF CloseStep
<1>5. ASSUME TimerStep PROVE IInv'
  BY <1>5, FireKeeps, RetryFireKeeps, PruneKeeps, PersistKeeps DEF TimerStep
<1>6. ASSUME UNCHANGED vars PROVE IInv'
  <2>1. UNCHANGED <<tableVars, timers, batchVars, poolVars>> /\ (Closed => Closed')
    BY <1>6 DEF vars, lifeVars, Closed
  <2>2. RestType'
    BY <1>6 DEF vars, optVars, lifeVars, diskVars, IInv, RestType
  <2> QED
    BY <2>1, <2>2, QuietKeeps
<1> QED
  BY <1>1, <1>2, <1>3, <1>4, <1>5, <1>6, CrashKeeps DEF Next, Ended

LEMMA Invariant == Spec => []IInv
BY InitHolds, NextKeeps, PTL DEF Spec

(* The variables of the engine have their types: no counter of attempts,   *)
(* of running batches or of timers ever falls below zero.                  *)
THEOREM EngineTypeOK == Spec => []TypeOK
BY Invariant, IInvGivesTypeOK, PTL

(* While the engine is open no queued job is stranded: it is in a batch    *)
(* that a worker will start or has a retry timer that will put it in one.  *)
THEOREM EngineStrandsNoJob == Spec => []NoJobStranded
<1>1. IInv => NoJobStranded
  BY DEF IInv
<1> QED
  BY <1>1, Invariant, PTL

(* When Flush finds nothing left, no job is running and a queued job waits *)
(* for a scheduled retry or for the next run of a closing engine.          *)
THEOREM EngineDrainedMeansSettled == Spec => []DrainedMeansSettled
BY Invariant, IInvGivesDrainedMeansSettled, PTL

-----------------------------------------------------------------------------
(* Start has the engine to itself.  The rest supposes that no other method *)
(* is called until Start has returned (StartAlone): PoolHasItsSize and     *)
(* CloseReturns fail without it.                                           *)

(* Until the pool is up there is no worker, and no Close was called.       *)
Alone == life # "up" => /\ ~Closed /\ ~pruner
                        /\ \A w \in Workers : workers[w].pc = "absent"

(* What a worker's step leaves alone, and what becomes of the worker.      *)
LEMMA WorkerMoves ==
  ASSUME IInv, NEW w \in Workers, WorkerStep(w)
  PROVE  /\ workers[w].pc # "absent"
         /\ \A v \in Workers : v # w => workers'[v] = workers[v]
         /\ UNCHANGED <<used, generation, poolSize, batchSize, life, todo, closing,
                        pruner, disk, crashes>>
         /\ \/ workers'[w].gen = workers[w].gen /\ workers'[w].pc # "absent"
            \/ workers'[w] = NoWork /\ workers[w].gen # generation
<1>0. workers \in [Workers -> WorkType] /\ workers[w] \in WorkType
  BY DEF IInv, PoolOK
<1>1. CASE RetireWorker(w)
  BY <1>0, <1>1 DEF RetireWorker, optVars, lifeVars, diskVars
<1>2. CASE NextBatch(w)
  BY <1>0, <1>2 DEF NextBatch, optVars, lifeVars, diskVars, WorkType
<1>3. CASE StartBatch(w)
  BY <1>0, <1>3 DEF StartBatch, optVars, lifeVars, diskVars, WorkType
<1>4. CASE HandlerReturns(w)
  BY <1>0, <1>4 DEF HandlerReturns, optVars, lifeVars, diskVars, WorkType
<1>5. ASSUME NEW id \in Ids, CompleteJob(w, id)
      PROVE  /\ workers[w].pc = "completing"
             /\ workers' = [workers EXCEPT ![w].jobs = @ \ {id}]
             /\ UNCHANGED <<used, generation, optVars, lifeVars, diskVars>>
  BY <1>5 DEF CompleteJob
<1>6. CASE \E id \in Ids : CompleteJob(w, id)
  BY <1>0, <1>5, <1>6 DEF optVars, lifeVars, diskVars, WorkType
<1>7. CASE CompleteEnd(w)
  BY <1>0, <1>7 DEF CompleteEnd, MarkDirty, optVars, lifeVars, WorkType
<1>8. CASE FinishBatch(w)
  BY <1>0, <1>8 DEF FinishBatch, Idle, NoWork, optVars, lifeVars, diskVars, WorkType
<1> QED
  BY <1>1, <1>2, <1>3, <1>4, <1>6, <1>7, <1>8 DEF WorkerStep

(* While the pool is not up only Start moves, besides timers and deaths.   *)
LEMMA OnlyStart ==
  ASSUME StartAlone, IInv, Alone, life # "up", Next
  PROVE  \/ StartStep \/ Crash
         \/ UNCHANGED <<life, closing, pruner, workers, generation, todo, crashes>> /\ TimerStep
<1>1. ASSUME NEW w \in Workers, WorkerStep(w) PROVE FALSE
  BY <1>1, WorkerMoves DEF Alone
<1>2. ~UserStep
  BY DEF UserStep, Enqueue, CancelQueued, CancelRunning, RetryDeadLetter,
     ClearDeadLetter, Flush, SetWorkers, SetBatchSize, Callable
<1>3. ~CloseStep /\ ~Ended
  BY DEF CloseStep, CloseBegin, CloseFlush, CloseDrained, CloseExpired, CloseRetire,
     CloseCancel, CloseWait, Ended, Callable, Alone, Closed
<1>4. CASE TimerStep
  <2>1. ~Prune
    BY DEF Prune, Alone
  <2>2. ASSUME NEW k \in Keys, Fire(k)
        PROVE  UNCHANGED <<life, closing, pruner, workers, generation, todo, crashes>>
    BY <2>2 DEF Fire, poolVars, lifeVars, diskVars
  <2>3. ASSUME NEW id \in Ids, RetryFire(id)
        PROVE  UNCHANGED <<life, closing, pruner, workers, generation, todo, crashes>>
    BY <2>3 DEF RetryFire, poolVars, lifeVars, diskVars, MarkDirty
  <2>4. ASSUME Persist
        PROVE  UNCHANGED <<life, closing, pruner, workers, generation, todo, crashes>>
    BY <2>4 DEF Persist, poolVars, lifeVars
  <2> QED
    BY <1>4, <2>1, <2>2, <2>3, <2>4 DEF TimerStep
<1> QED
  BY <1>1, <1>2, <1>3, <1>4 DEF Next

(* Once it is up it stays so until the process dies.                       *)
LEMMA StaysUp ==
  ASSUME IInv, life = "up", [Next]_vars
  PROVE  life' = "up" \/ Crash
<1>1. ASSUME NEW w \in Workers, WorkerStep(w) PROVE life' = life
  BY <1>1, WorkerMoves
<1>2. CASE UserStep
  BY <1>2 DEF UserStep, Enqueue, CancelQueued, CancelRunning, RetryDeadLetter,
     ClearDeadLetter, Flush, SetWorkers, SetBatchSize, lifeVars
<1>3. ~StartStep
  BY DEF StartStep, StartBegin, ReplayBegin, ReplayJob, ReplayEnd, StartPool
<1>4. CASE CloseStep
  BY <1>4 DEF CloseStep, CloseBegin, CloseFlush, CloseDrained, CloseExpired, CloseRetire,
     CloseCancel, CloseWait
<1>5. CASE TimerStep
  BY <1>5 DEF TimerStep, Fire, RetryFire, Prune, Persist, lifeVars
<1>6. CASE UNCHANGED vars
  BY <1>6 DEF vars, lifeVars
<1> QED
  BY <1>1, <1>2, <1>3, <1>4, <1>5, <1>6 DEF Next, Ended

LEMMA AloneKeeps ==
  ASSUME StartAlone, IInv, Alone, [Next]_vars
  PROVE  Alone'
<1>1. CASE Crash
  BY <1>1 DEF Crash, Alone, Closed, NoWork
<1>2. CASE life = "up"
  BY <1>1, <1>2, StaysUp DEF Alone
<1>3. CASE life # "up" /\ Next
  <2>1. CASE StartStep
    BY <1>3, <2>1 DEF Alone, StartStep, StartBegin, ReplayBegin, ReplayJob, ReplayEnd,
       StartPool, poolVars, lifeVars, Closed
  <2> QED
    BY <1>1, <1>3, <2>1, OnlyStart DEF Alone, Closed
<1>4. CASE UNCHANGED vars
  BY <1>4 DEF vars, lifeVars, poolVars, Alone, Closed
<1> QED
  BY <1>2, <1>3, <1>4

-----------------------------------------------------------------------------
(* The pool has its size.                                                  *)

(* The workers that serve the current generation.                          *)
Serving(w) == workers[w].pc # "absent" /\ workers[w].gen = generation

(* No worker is of a generation that is yet to come.                       *)
Young == \A w \in Workers : workers[w].gen <= generation

Sized == Young /\ PoolHasItsSize

(* The phases of Close before it retires the pool.                         *)
Retained == closing \in {"open", "flush", "drain", "retire"}

LEMMA ServingSame ==
  ASSUME PoolHasItsSize, life' = life, poolSize' = poolSize, Retained' => Retained,
         \A w \in Workers : Serving(w)' <=> Serving(w)
  PROVE  PoolHasItsSize'
<1>1. {w \in Workers : workers[w].pc # "absent" /\ workers[w].gen = generation}'
        = {w \in Workers : workers[w].pc # "absent" /\ workers[w].gen = generation}
  BY DEF Serving
<1> QED
  BY <1>1 DEF PoolHasItsSize, Retained

(* A new generation, of which no worker exists yet, gets its workers.      *)
LEMMA StartWorkersSizes ==
  ASSUME IInv, NEW n \in Nat, StartWorkers(generation', n), generation' \in Nat,
         generation <= generation', poolSize' = n,
         \A w \in Workers : workers[w].pc # "absent" => workers[w].gen < generation',
         Young
  PROVE  Sized'
<1>1. PICK W \in SUBSET {w \in Workers : workers[w].pc = "absent"} :
         /\ Cardinality(W) = n
         /\ workers' = [w \in Workers |-> IF w \in W THEN Idle(generation') ELSE workers[w]]
  BY DEF StartWorkers
<1>2. Idle(generation').pc = "idle" /\ Idle(generation').gen = generation'
  BY DEF Idle, NoWork
<1>3. Young'
  BY <1>1, <1>2 DEF Young, IInv, PoolOK, WorkType
<1>4. {w \in Workers : workers'[w].pc # "absent" /\ workers'[w].gen = generation'} = W
  BY <1>1, <1>2 DEF IInv, PoolOK, WorkType
<1> QED
  BY <1>1, <1>3, <1>4 DEF Sized, PoolHasItsSize

LEMMA SizedKeeps ==
  ASSUME StartAlone, IInv, Alone, Sized, [Next]_vars
  PROVE  Sized'
<1>0. /\ generation \in Nat /\ workers \in [Workers -> WorkType]
      /\ \A w \in Workers : workers[w].gen \in Nat
  BY DEF IInv, PoolOK, WorkType
<1>1. ASSUME NEW w \in Workers, WorkerStep(w) PROVE Sized'
  <2>1. NoWork.gen = 0 /\ NoWork.pc = "absent"
    BY DEF NoWork
  <2>2. Young'
    BY <1>0, <1>1, <2>1, WorkerMoves DEF Sized, Young
  <2>3. \A v \in Workers : Serving(v)' <=> Serving(v)
    BY <1>1, <2>1, WorkerMoves DEF Serving
  <2> QED
    BY <1>1, <2>2, <2>3, WorkerMoves, ServingSame DEF Sized, Retained
<1>2. ASSUME UNCHANGED <<workers, generation, life, poolSize>>, Retained' => Retained
      PROVE  Sized'
  <2>1. \A v \in Workers : Serving(v)' <=> Serving(v)
    BY <1>2 DEF Serving
  <2> QED
    BY <1>2, <2>1, ServingSame DEF Sized, Young
<1>3. ASSUME NEW W, workers' = CancelContexts(W), Retained' => Retained,
             UNCHANGED <<generation, life, poolSize>>
      PROVE  Sized'
  <2>1. \A v \in Workers : /\ workers'[v].pc = workers[v].pc
                           /\ workers'[v].gen = workers[v].gen
    BY <1>0, <1>3 DEF CancelContexts, WorkType
  <2>2. \A v \in Workers : Serving(v)' <=> Serving(v)
    BY <1>3, <2>1 DEF Serving
  <2> QED
    BY <1>3, <2>1, <2>2, ServingSame DEF Sized, Young
<1>4. CASE UserStep
  <2>1. ASSUME NEW id \in Ids, Enqueue(id) \/ CancelQueued(id) \/ RetryDeadLetter(id)
        PROVE  Sized'
    BY <1>2, <2>1 DEF Enqueue, CancelQueued, RetryDeadLetter, poolVars, optVars, lifeVars, Retained
  <2>2. ASSUME NEW id \in Ids, CancelRunning(id) PROVE Sized'
    BY <1>3, <2>2 DEF CancelRunning, optVars, lifeVars, Retained
  <2>3. CASE ClearDeadLetter \/ Flush
    BY <1>2, <2>3 DEF ClearDeadLetter, Flush, poolVars, optVars, lifeVars, Retained
  <2>4. ASSUME NEW n \in PoolSizes, SetWorkers(n) PROVE Sized'
    <3>1. life = "up" /\ poolSize' = n /\ n \in Nat
      BY <2>4, SyncEngineAssumption DEF SetWorkers, Callable
    <3>2. generation' = generation + 1 /\ StartWorkers(generation', n)
      BY <2>4, <3>1 DEF SetWorkers
    <3>3. \A w \in Workers : workers[w].gen < generation'
      BY <1>0, <3>2 DEF Sized, Young
    <3> QED
      BY <1>0, <3>1, <3>2, <3>3, StartWorkersSizes DEF Sized
  <2>5. ASSUME NEW n \in BatchSizes, SetBatchSize(n) PROVE Sized'
    BY <1>2, <2>5 DEF SetBatchSize, poolVars, lifeVars, Retained
  <2> QED
    BY <1>4, <2>1, <2>2, <2>3, <2>4, <2>5 DEF UserStep
<1>5. CASE StartStep
  <2>1. CASE StartPool
    <3>1. /\ poolSize \in Nat /\ UNCHANGED <<generation, poolSize>>
          /\ StartWorkers(generation', poolSize) /\ life # "up"
      BY <2>1, SyncEngineAssumption DEF StartPool, IInv, RestType, optVars
    <3>2. \A w \in Workers : workers[w].pc = "absent"
      BY <3>1 DEF Alone
    <3> QED
      BY <1>0, <3>1, <3>2, StartWorkersSizes DEF Sized
  <2>2. CASE StartBegin \/ ReplayBegin \/ ReplayEnd \/ \E id \in Ids : ReplayJob(id)
    <3>1. UNCHANGED <<workers, generation>> /\ life' # "up"
      BY <2>2 DEF StartBegin, ReplayBegin, ReplayEnd, ReplayJob, poolVars
    <3> QED
      BY <3>1 DEF Sized, Young, PoolHasItsSize
  <2> QED
    BY <1>5, <2>1, <2>2 DEF StartStep
<1>6. CASE CloseStep
  <2>1. CASE CloseBegin \/ CloseFlush \/ CloseDrained \/ CloseExpired \/ CloseWait
    BY <1>2, <2>1 DEF CloseBegin, CloseFlush, CloseDrained, CloseExpired, CloseWait,
       poolVars, optVars, Retained
  <2>2. CASE CloseRetire
    <3>1. closing' = "cancel" /\ generation' = generation + 1 /\ workers' = workers
      BY <2>2 DEF CloseRetire
    <3>2. \A w \in Workers : workers'[w].gen <= generation'
      BY <1>0, <3>1 DEF Sized, Young
    <3> QED
      BY <3>1, <3>2 DEF Sized, Young, PoolHasItsSize
  <2>3. CASE CloseCancel
    BY <1>3, <2>3 DEF CloseCancel, optVars, Retained
  <2> QED
    BY <1>6, <2>1, <2>2, <2>3 DEF CloseStep
<1>7. CASE TimerStep
  <2>1. ASSUME NEW k \in Keys, Fire(k) PROVE Sized'
    BY <1>2, <2>1 DEF Fire, poolVars, optVars, lifeVars, Retained
  <2>2. ASSUME NEW id \in Ids, RetryFire(id) PROVE Sized'
    BY <1>2, <2>2 DEF RetryFire, poolVars, optVars, lifeVars, Retained
  <2>3. CASE Prune \/ Persist
    BY <1>2, <2>3 DEF Prune, Persist, poolVars, optVars, lifeVars, Retained
  <2> QED
    BY <1>7, <2>1, <2>2, <2>3 DEF TimerStep
<1>8. CASE Crash
  BY <1>8 DEF Crash, NoWork, Sized, Young, PoolHasItsSize
<1>9. CASE UNCHANGED vars
  BY <1>2, <1>9 DEF vars, poolVars, optVars, lifeVars, Retained
<1> QED
  BY <1>1, <1>4, <1>5, <1>6, <1>7, <1>8, <1>9 DEF Next, Ended

-----------------------------------------------------------------------------
(* A closed engine is quiet.                                               *)

Quiet == closing = "closed" =>
           /\ \A w \in Workers : workers[w].pc = "absent"
           /\ \A id \in Ids : timers[id] = 0
           /\ \A k \in Keys : pending[k] = {}
           /\ ~pruner

LEMMA QuietStep ==
  ASSUME StartAlone, IInv, Alone, Quiet, [Next]_vars
  PROVE  Quiet'
<1>1. CASE closing # "closed"
  <2>1. CASE CloseWait
    BY <2>1 DEF CloseWait, Quiet, poolVars, batchVars
  <2>2. ASSUME Next, ~CloseWait PROVE closing' # "closed"
    <3>1. ASSUME NEW w \in Workers, WorkerStep(w) PROVE closing' = closing
      BY <3>1, WorkerMoves
    <3>2. CASE UserStep
      BY <1>1, <3>2 DEF UserStep, Enqueue, CancelQueued, CancelRunning, RetryDeadLetter,
         ClearDeadLetter, Flush, SetWorkers, SetBatchSize, lifeVars
    <3>3. CASE StartStep
      BY <1>1, <3>3 DEF StartStep, StartBegin, ReplayBegin, ReplayJob, ReplayEnd, StartPool
    <3>4. CASE CloseStep
      BY <2>2, <3>4 DEF CloseStep, CloseBegin, CloseFlush, CloseDrained, CloseExpired,
         CloseRetire, CloseCancel
    <3>5. CASE TimerStep
      BY <1>1, <3>5 DEF TimerStep, Fire, RetryFire, Prune, Persist, lifeVars
    <3>6. CASE Crash
      BY <3>6 DEF Crash
    <3> QED
      BY <1>1, <2>2, <3>1, <3>2, <3>3, <3>4, <3>5, <3>6 DEF Next, Ended
  <2>3. CASE UNCHANGED vars
    BY <1>1, <2>3 DEF vars, lifeVars, Quiet
  <2> QED
    BY <2>1, <2>2, <2>3 DEF Quiet
<1>2. CASE closing = "closed"
  <2>0. /\ \A w \in Workers : workers[w].pc = "absent"
        /\ \A id \in Ids : timers[id] = 0 /\ ~jobs[id].retry /\ jobs[id].state # "running"
        /\ \A k \in Keys : pending[k] = {}
        /\ ~pruner /\ life = "up" /\ Closed
    BY <1>2 DEF Quiet, Alone, Closed, IInv, TableOK, Timed, Held, Holds
  <2>1. ASSUME NEW w \in Workers, WorkerStep(w) PROVE FALSE
    BY <2>0, <2>1, WorkerMoves
  <2>2. ASSUME NEW id \in Ids, CancelQueued(id) PROVE Quiet'
    <3>1. UNCHANGED <<workers, pruner>>
      BY <2>2 DEF CancelQueued, poolVars, lifeVars
    <3>2. PICK stopped \in {0} : timers' = [timers EXCEPT ![id] = @ - stopped]
      BY <2>0, <2>2 DEF CancelQueued
    <3>3. \A j \in Ids : timers'[j] = 0
      BY <2>0, <3>2 DEF IInv, TableOK
    <3>4. \A k \in Keys : pending'[k] = {}
      BY <2>0, <2>2 DEF CancelQueued, IInv, BatchType
    <3> QED
      BY <2>0, <3>1, <3>3, <3>4 DEF Quiet
  <2>3. ASSUME UNCHANGED <<timers, pending, workers, pruner>> PROVE Quiet'
    BY <2>0, <2>3 DEF Quiet
  <2>4. CASE UserStep
    <3>1. /\ \A id \in Ids : ~Enqueue(id) /\ ~CancelRunning(id) /\ ~RetryDeadLetter(id)
          /\ ~Flush /\ \A n : ~SetWorkers(n) /\ ~SetBatchSize(n)
      BY <2>0 DEF Enqueue, CancelRunning, RetryDeadLetter, Flush, SetWorkers, SetBatchSize
    <3>2. CASE ClearDeadLetter
      BY <2>3, <3>2 DEF ClearDeadLetter, batchVars, poolVars, lifeVars
    <3> QED
      BY <2>2, <2>4, <3>1, <3>2 DEF UserStep
  <2>5. ~StartStep
    BY <2>0 DEF StartStep, StartBegin, ReplayBegin, ReplayJob, ReplayEnd, StartPool
  <2>6. ~CloseStep
    BY <1>2 DEF CloseStep, CloseBegin, CloseFlush, CloseDrained, CloseExpired,
       CloseRetire, CloseCancel, CloseWait
  <2>7. CASE TimerStep
    <3>1. /\ \A k \in Keys : ~Fire(k)
          /\ \A id \in Ids : ~RetryFire(id)
          /\ ~Prune
      BY <2>0 DEF Fire, RetryFire, Prune
    <3> QED
      BY <2>3, <2>7, <3>1 DEF TimerStep, Persist, batchVars, poolVars, lifeVars
  <2>8. CASE Crash
    BY <2>8 DEF Crash, Quiet
  <2>9. CASE UNCHANGED vars
    BY <2>3, <2>9 DEF vars, batchVars, poolVars, lifeVars
  <2> QED
    BY <2>1, <2>4, <2>5, <2>6, <2>7, <2>8, <2>9 DEF Next, Ended
<1> QED
  BY <1>1, <1>2

-----------------------------------------------------------------------------
(* A restart loses nothing the journal holds.                              *)

(* Before the journal is replayed the job table is empty.                  *)
Untouched == life \in {"new", "loading"} =>
               jobs = [id \in Ids |-> NoJob] /\ dead = <<>>

(* What the journal holds of the job has come back.                        *)
Recovered(id) ==
    /\ disk[id].state \in {"queued", "running"} => jobs[id].state = "queued" /\ InBatch(id)
    /\ disk[id].state = "failed" /\ disk[id].listed => jobs[id].dead

(* The replay loop has put back the jobs it has looked at, and no other.   *)
Replaying == life = "replaying" =>
    /\ \A id \in todo : disk[id].state # "absent" /\ jobs[id].state = "absent"
    /\ \A id \in Ids \ todo : Recovered(id)
    /\ \A id \in Ids : jobs[id].dead => disk[id].listed

Reading == Untouched /\ Replaying

(* What ReplayJob does to the record of the job.                           *)
LEMMA ReplayedFrom ==
  ASSUME NEW id \in Ids
  PROVE  /\ Replayed(id).state = IF disk[id].state = "running" THEN "queued"
                                 ELSE disk[id].state
         /\ Replayed(id).dead = (disk[id].state = "failed" /\ disk[id].listed)
         /\ Replayed(id).cancel = NoWorker /\ Replayed(id).gen = 0
         /\ Replayed(id).attempts = disk[id].attempts
BY DEF Replayed, NewJob, NoJob

(* While the journal is replayed nothing else moves.                       *)
LEMMA OnlyReplay ==
  ASSUME StartAlone, IInv, Alone, life = "replaying", Next
  PROVE  (\E id \in Ids : ReplayJob(id)) \/ ReplayEnd \/ Crash
<1>1. ~TimerStep
  BY DEF TimerStep, Fire, RetryFire, Prune, Persist, Unlocked
<1>2. ~StartBegin /\ ~ReplayBegin /\ ~StartPool
  BY DEF StartBegin, ReplayBegin, StartPool
<1> QED
  BY <1>1, <1>2, OnlyStart DEF StartStep

LEMMA ReplayJobReads ==
  ASSUME IInv, life = "replaying", Replaying, NEW id \in Ids, ReplayJob(id)
  PROVE  Reading'
<1>0. /\ id \in todo /\ todo' = todo \ {id} /\ life' = life /\ disk' = disk
      /\ jobs[id].state = "absent"
  BY DEF ReplayJob, Replaying, diskVars
<1>1. \A j \in Ids : InBatch(j) => InBatch(j)'
  BY AddToBatchKeeps, BatchFrame DEF ReplayJob, batchVars, IInv
<1>2. CASE disk[id].state \in {"done", "cancelled"} /\ UNCHANGED <<tableVars, used, batchVars>>
  <2>1. jobs' = jobs
    BY <1>2 DEF tableVars
  <2>2. \A j \in Ids \ todo' : Recovered(j)'
    BY <1>0, <1>1, <1>2, <2>1 DEF Replaying, Recovered
  <2> QED
    BY <1>0, <2>1, <2>2 DEF Reading, Untouched, Replaying
<1>3. CASE /\ jobs' = [jobs EXCEPT ![id] = Replayed(id)]
           /\ IF Replayed(id).state = "queued" THEN AddToBatch(id) ELSE UNCHANGED batchVars
  <2>1. jobs'[id] = Replayed(id) /\ \A j \in Ids : j # id => jobs'[j] = jobs[j]
    BY <1>3 DEF IInv, TableOK
  <2>2. Replayed(id).state = "queued" => InBatch(id)'
    BY <1>3, AddToBatchKeeps DEF IInv
  <2>3. \A j \in Ids \ todo' : Recovered(j)'
    <3>1. Recovered(id)'
      BY <1>0, <2>1, <2>2, ReplayedFrom DEF Recovered
    <3>2. \A j \in Ids \ todo : j # id => Recovered(j)'
      BY <1>0, <1>1, <2>1 DEF Replaying, Recovered
    <3> QED
      BY <1>0, <3>1, <3>2
  <2>4. \A j \in todo' : disk'[j].state # "absent" /\ jobs'[j].state = "absent"
    <3>1. todo \subseteq Ids
      BY DEF IInv, RestType
    <3> QED
      BY <1>0, <2>1, <3>1 DEF Replaying
  <2>5. \A j \in Ids : jobs'[j].dead => disk'[j].listed
    <3>1. Replayed(id).dead => disk[id].listed
      BY ReplayedFrom, Zenon
    <3>2. \A j \in Ids : jobs[j].dead => disk[j].listed
      BY DEF Replaying
    <3>3. ASSUME NEW j \in Ids, jobs'[j].dead PROVE disk[j].listed
      BY <2>1, <3>1, <3>2, <3>3
    <3> QED
      BY <1>0, <3>3
  <2> QED
    BY <1>0, <2>3, <2>4, <2>5 DEF Reading, Untouched, Replaying
<1> QED
  BY <1>0, <1>2, <1>3 DEF ReplayJob

LEMMA ReadingKeeps ==
  ASSUME StartAlone, IInv, Alone, Reading, [Next]_vars
  PROVE  Reading'
<1>1. CASE Crash
  BY <1>1 DEF Crash, Reading, Untouched, Replaying
<1>2. CASE life = "up"
  BY <1>1, <1>2, StaysUp DEF Reading, Untouched, Replaying
<1>3. CASE UNCHANGED vars
  <2>1. UNCHANGED <<life, todo, jobs, dead, disk, pending, queue>>
    BY <1>3 DEF vars, tableVars, batchVars, lifeVars, diskVars
  <2>2. \A id \in Ids : Recovered(id) => Recovered(id)'
    BY <2>1 DEF Recovered, InBatch
  <2> QED
    BY <2>1, <2>2 DEF Reading, Untouched, Replaying
<1>4. CASE life = "replaying" /\ Next
  <2>1. CASE ReplayEnd
    BY <2>1 DEF ReplayEnd, Reading, Untouched, Replaying
  <2> QED
    BY <1>1, <1>4, <2>1, OnlyReplay, ReplayJobReads DEF Reading
<1>5. CASE life \notin {"up", "replaying"} /\ Next
  <2>1. CASE StartBegin
    BY <2>1 DEF StartBegin, Reading, Untouched, Replaying, tableVars
  <2>2. CASE ReplayBegin
    <3>1. /\ life' = "replaying" /\ UNCHANGED <<jobs, disk>>
          /\ todo' = {id \in Ids : disk[id].state # "absent"}
          /\ jobs = [id \in Ids |-> NoJob]
      BY <2>2 DEF ReplayBegin, Reading, Untouched, tableVars, diskVars
    <3>2. \A id \in Ids \ todo' : Recovered(id)'
      BY <3>1 DEF Recovered
    <3> QED
      BY <3>1, <3>2, NoJobType DEF Reading, Untouched, Replaying
  <2>3. CASE StartPool
    BY <2>3 DEF StartPool, Reading, Untouched, Replaying
  <2>4. CASE TimerStep /\ life' = life
    <3>1. CASE life \in {"new", "loading"}
      <4>1. \A id \in Ids : ~jobs[id].retry
        BY <3>1, NoJobType DEF Reading, Untouched
      <4>2. UNCHANGED <<jobs, dead>>
        <5>1. ASSUME NEW id \in Ids, RetryFire(id) PROVE UNCHANGED <<jobs, dead>>
          BY <4>1, <5>1 DEF RetryFire
        <5>2. ~Prune
          BY <1>5 DEF Prune, Alone
        <5> QED
          BY <2>4, <5>1, <5>2 DEF TimerStep, Fire, Persist, tableVars
      <4> QED
        BY <2>4, <3>1, <4>2 DEF Reading, Untouched, Replaying
    <3> QED
      BY <1>5, <2>4, <3>1 DEF Reading, Untouched, Replaying
  <2>5. ~ReplayEnd /\ \A id \in Ids : ~ReplayJob(id)
    BY <1>5 DEF ReplayEnd, ReplayJob
  <2> QED
    BY <1>1, <1>5, <2>1, <2>2, <2>3, <2>4, <2>5, OnlyStart DEF StartStep
<1> QED
  BY <1>2, <1>3, <1>4, <1>5

-----------------------------------------------------------------------------

(* What holds of an engine that is started by itself.                      *)
StartedInv == IInv /\ Alone /\ Sized /\ Quiet /\ Reading

LEMMA StartedInit == Init => Alone /\ Sized /\ Quiet /\ Reading
BY DEF Init, Alone, Closed, Sized, Young, PoolHasItsSize, Quiet, Reading, Untouched,
       Replaying, NoWork

LEMMA StartedInvariant ==
  ASSUME StartAlone
  PROVE  Spec => []StartedInv
<1>1. Init => StartedInv
  BY InitHolds, StartedInit DEF StartedInv
<1>2. StartedInv /\ [Next]_vars => StartedInv'
  BY NextKeeps, AloneKeeps, SizedKeeps, QuietStep, ReadingKeeps DEF StartedInv
<1> QED
  BY <1>1, <1>2, PTL DEF Spec

(* While the engine serves, as many workers as the pool's size serve the   *)
(* current generation, however often SetWorkers replaced the pool.         *)
THEOREM EnginePoolHasItsSize ==
  ASSUME StartAlone
  PROVE  Spec => []PoolHasItsSize
<1>1. StartedInv => PoolHasItsSize
  BY DEF StartedInv, Sized
<1> QED
  BY <1>1, StartedInvariant, PTL

(* When Close has returned no worker, timer, open batch or running job is  *)
(* left, and none comes back while the process lives.                      *)
THEOREM EngineClosesQuietly ==
  ASSUME StartAlone
  PROVE  Spec => []ClosedIsQuiet
<1>1. StartedInv => ClosedIsQuiet
  BY DEF StartedInv, Quiet, ClosedIsQuiet, IInv, Held, Holds
<1> QED
  BY <1>1, StartedInvariant, PTL

(* After a restart every job the journal held as queued or running is      *)
(* queued in a batch, and every listed dead letter can be retried.         *)
THEOREM EngineReplayLosesNothing ==
  ASSUME StartAlone
  PROVE  Spec => ReplayLosesNothing
<1>1. StartedInv /\ [Next]_vars =>
        [life = "replaying" /\ life' = "replayed" =>
         \A id \in Ids :
            /\ disk[id].state \in {"queued", "running"} =>
                  jobs[id].state = "queued" /\ Waiting(id)
            /\ disk[id].state = "failed" /\ disk[id].listed => jobs[id].dead]_vars
  <2> SUFFICES ASSUME StartedInv, Next, life = "replaying", life' = "replayed", NEW id \in Ids
               PROVE  /\ disk[id].state \in {"queued", "running"} =>
                            jobs[id].state = "queued" /\ Waiting(id)
                      /\ disk[id].state = "failed" /\ disk[id].listed => jobs[id].dead
    OBVIOUS
  <2>1. ReplayEnd
    BY OnlyReplay DEF StartedInv, Crash, ReplayJob
  <2>2. Recovered(id)
    BY <2>1 DEF StartedInv, Reading, Replaying, ReplayEnd
  <2> QED
    BY <2>2 DEF Recovered, InBatch, Waiting
<1> QED
  BY <1>1, StartedInvariant, PTL DEF Spec, ReplayLosesNothing

-----------------------------------------------------------------------------
(* The ways in which one step changes the record of a job, and whether the *)
(* dead-letter list still names it.                                        *)

SameListing(id) == id \in ToSet(dead') <=> id \in ToSet(dead)

(* Only its retry flag and its cancel function may change.                 *)
Stays(id) ==
    /\ jobs'[id].state = jobs[id].state /\ jobs'[id].attempts = jobs[id].attempts
    /\ jobs'[id].gen = jobs[id].gen /\ jobs'[id].dead = jobs[id].dead
    /\ jobs'[id].cancel \in {jobs[id].cancel, NoWorker}
    /\ SameListing(id)

Starts(id) ==
    /\ \E w \in Workers : StartBatch(w)
    /\ jobs[id].state = "queued" /\ jobs'[id].state = "running"
    /\ jobs'[id].attempts = jobs[id].attempts + 1
    /\ jobs'[id].gen = jobs[id].gen /\ jobs'[id].dead = jobs[id].dead
    /\ SameListing(id)

(* The result of a handler call is applied.                                *)
Ends(id) ==
    /\ \E w \in Workers : CompleteJob(w, id) /\ ~Superseded(w, id)
    /\ jobs[id].state = "running" /\ jobs'[id].gen = jobs[id].gen
    /\ jobs'[id].attempts \in {jobs[id].attempts, jobs[id].attempts - 1}
    /\ \/ /\ jobs'[id].state \in {"done", "queued"} /\ jobs'[id].dead = jobs[id].dead
          /\ jobs'[id].state = "queued" =>
               jobs'[id].attempts = jobs[id].attempts - 1 \/ jobs[id].attempts < MaxAttempts
          /\ SameListing(id)
       \/ /\ jobs'[id].state = "failed" /\ jobs'[id].dead = TRUE
          /\ id \in ToSet(dead')

IsCancelled(id) ==
    /\ jobs[id].state \in {"queued", "running"} /\ jobs'[id].state = "cancelled"
    /\ jobs'[id].gen = jobs[id].gen + 1 /\ jobs'[id].attempts = jobs[id].attempts
    /\ jobs'[id].dead = jobs[id].dead
    /\ SameListing(id)

IsRetried(id) ==
    /\ jobs[id].dead = TRUE
    /\ jobs'[id].state = "queued" /\ jobs'[id].dead = FALSE /\ jobs'[id].attempts = 0
    /\ jobs'[id].gen = jobs[id].gen + 1
    /\ id \notin ToSet(dead')

(* The record is forgotten.                                                *)
Goes(id) ==
    /\ jobs[id].state \in {"done", "cancelled", "failed"}
    /\ jobs'[id] = NoJob
    /\ id \notin ToSet(dead')

IsEnqueued(id) == Enqueue(id) /\ jobs'[id] = NewJob /\ SameListing(id)

IsReplayed(id) ==
    /\ ReplayJob(id)
    /\ jobs[id].state = "absent" /\ jobs'[id] = Replayed(id)
    /\ id \in ToSet(dead') <=> Replayed(id).dead

RecordStep(id) ==
    \/ Stays(id) \/ Starts(id) \/ Ends(id) \/ IsCancelled(id) \/ IsRetried(id)
    \/ Goes(id) \/ IsEnqueued(id) \/ IsReplayed(id)

RecordSteps == \A id \in Ids : RecordStep(id)

LEMMA SameRecords ==
  ASSUME TableOK, UNCHANGED <<jobs, dead>>
  PROVE  RecordSteps
BY DEF RecordSteps, RecordStep, Stays, SameListing

LEMMA StartBatchRecords ==
  ASSUME IInv, NEW w \in Workers, StartBatch(w)
  PROVE  RecordSteps
<1>1. dead' = dead
  BY DEF StartBatch
<1>2. ASSUME NEW id \in Ids PROVE RecordStep(id)
  <2>1. CASE id \in Startable(workers[w].batch)
    <3>1. jobs'[id] = Started(jobs[id], w) /\ jobs[id] \in JobType
      BY <2>1 DEF StartBatch, IInv, TableOK
    <3>2. /\ Started(jobs[id], w).state = "running"
          /\ Started(jobs[id], w).attempts = jobs[id].attempts + 1
          /\ Started(jobs[id], w).gen = jobs[id].gen
          /\ Started(jobs[id], w).dead = jobs[id].dead
      BY <3>1 DEF JobType, Started
    <3> QED
      BY <1>1, <2>1, <3>1, <3>2 DEF RecordStep, Starts, SameListing, Startable
  <2>2. CASE id \notin Startable(workers[w].batch)
    BY <1>1, <2>2 DEF StartBatch, RecordStep, Stays, SameListing
  <2> QED
    BY <2>1, <2>2
<1> QED
  BY <1>2 DEF RecordSteps

(* One record changes and the dead-letter list does not.                   *)
LEMMA OneRecordSteps ==
  ASSUME IInv, NEW id \in Ids, NEW r, jobs' = [jobs EXCEPT ![id] = r], dead' = dead,
         jobs'[id] = r => RecordStep(id)
  PROVE  RecordSteps
<1>1. jobs'[id] = r /\ \A j \in Ids : j # id => jobs'[j] = jobs[j]
  BY DEF IInv, TableOK
<1>2. \A j \in Ids : j # id => RecordStep(j)
  BY <1>1 DEF RecordStep, Stays, SameListing
<1> QED
  BY <1>1, <1>2 DEF RecordSteps

(* The result of a handler call but the last that may fail.                *)
LEMMA SettledFields ==
  ASSUME TableOK, NEW id \in Ids, NEW s \in States
  PROVE  LET q == Settle(id, s)
             r == [q EXCEPT !.attempts = @ - 1]
             t == [q EXCEPT !.retry = TRUE]
             f == [q EXCEPT !.dead = TRUE]
         IN  /\ q.state = s /\ q.gen = jobs[id].gen /\ q.dead = jobs[id].dead
             /\ q.attempts = jobs[id].attempts
             /\ r.state = s /\ r.gen = jobs[id].gen /\ r.dead = jobs[id].dead
             /\ r.attempts = jobs[id].attempts - 1
             /\ t.state = s /\ t.gen = jobs[id].gen /\ t.dead = jobs[id].dead
             /\ t.attempts = jobs[id].attempts
             /\ f.state = s /\ f.gen = jobs[id].gen /\ f.dead = TRUE
             /\ f.attempts = jobs[id].attempts
BY DEF TableOK, JobType, Settle

(* The eviction takes the record of the oldest entry with it.              *)
LEMMA GiveUpRecords ==
  ASSUME IInv, DeadListExact, NEW w \in Workers, NEW id \in Ids, CompleteJob(w, id),
         ~Superseded(w, id), GiveUp(id)
  PROVE  /\ RecordSteps /\ Distinct(dead') /\ Len(dead') <= DeadLetterMax
<1> DEFINE q == Settle(id, "failed")
           f == [q EXCEPT !.dead = TRUE]
           failed == [jobs EXCEPT ![id] = f]
<1>0. /\ jobs[id].state = "running" /\ dead \in Seq(Ids) /\ Distinct(dead)
      /\ id \notin ToSet(dead) /\ Len(dead) <= DeadLetterMax /\ Len(dead) \in Nat
      /\ DeadLetterMax \in Nat \ {0}
  BY LenProperties, SyncEngineAssumption DEF Superseded, IInv, TableOK, DeadListExact, Distinct
<1>1. /\ f.state = "failed" /\ f.gen = jobs[id].gen /\ f.dead = TRUE
      /\ f.attempts = jobs[id].attempts
  BY SettledFields DEF IInv, States
<1>2. PICK list \in Seq(Ids) : list = Append(dead, id)
  BY <1>0, AppendProperties
<1>3. /\ Distinct(list) /\ ToSet(list) = ToSet(dead) \cup {id} /\ Len(list) = Len(dead) + 1
  BY <1>0, <1>2, AppendDistinct
<1>4. PICK g : g = f
  OBVIOUS
<1>5. \/ /\ Len(list) <= DeadLetterMax
         /\ dead' = list /\ jobs' = [jobs EXCEPT ![id] = g]
      \/ /\ ~(Len(list) <= DeadLetterMax)
         /\ dead' = Tail(list) /\ jobs' = [[jobs EXCEPT ![id] = g] EXCEPT ![Head(list)] = NoJob]
  BY <1>2, <1>4 DEF GiveUp
<1> HIDE DEF f
<1>6. CASE dead' = list /\ jobs' = [jobs EXCEPT ![id] = g] /\ Len(list) <= DeadLetterMax
  <2>1. jobs'[id] = g /\ \A j \in Ids : j # id => jobs'[j] = jobs[j]
    BY <1>6 DEF IInv, TableOK
  <2>2. RecordStep(id)
    BY <1>0, <1>1, <1>3, <1>4, <1>6, <2>1 DEF RecordStep, Ends
  <2>3. \A j \in Ids : j # id => RecordStep(j)
    BY <1>3, <1>6, <2>1 DEF RecordStep, Stays, SameListing
  <2> QED
    BY <1>3, <1>6, <2>2, <2>3 DEF RecordSteps
<1>7. CASE /\ dead' = Tail(list) /\ ~(Len(list) <= DeadLetterMax)
           /\ jobs' = [[jobs EXCEPT ![id] = g] EXCEPT ![Head(list)] = NoJob]
  <2>1. dead # <<>> /\ list # <<>>
    BY <1>0, <1>3, <1>7, EmptySeq
  <2>2. Head(list) = dead[1] /\ dead[1] \in ToSet(dead) /\ dead[1] \in Ids
    <3>1. 1 \in 1..Len(dead) /\ DOMAIN dead = 1..Len(dead)
      BY <1>0, <2>1, EmptySeq, LenProperties
    <3>2. list[1] = dead[1]
      BY <1>0, <1>2, <3>1, AppendProperties
    <3> QED
      BY <1>0, <2>1, <3>1, <3>2, HeadTailProperties, ElementOfSeq DEF ToSet
  <2>3. PICK o \in Ids : o = Head(list) /\ o \in ToSet(dead) /\ o # id
    BY <1>0, <2>2
  <2>4. /\ jobs'[id] = g /\ jobs'[o] = NoJob
        /\ \A j \in Ids : j \notin {id, o} => jobs'[j] = jobs[j]
    BY <1>7, <2>3 DEF IInv, TableOK
  <2>5. /\ Distinct(dead') /\ ToSet(dead') = (ToSet(dead) \cup {id}) \ {o}
        /\ Len(dead') = Len(dead)
    <3>1. /\ Distinct(Tail(list)) /\ ToSet(Tail(list)) = ToSet(list) \ {Head(list)}
          /\ Len(Tail(list)) = Len(list) - 1
      BY <1>3, <2>1, TailDistinct
    <3> QED
      BY <1>0, <1>3, <1>7, <2>3, <3>1
  <2>6. RecordStep(id)
    BY <1>0, <1>1, <1>4, <2>3, <2>4, <2>5 DEF RecordStep, Ends
  <2>7. RecordStep(o)
    BY <2>3, <2>4, <2>5 DEF RecordStep, Goes, DeadListExact
  <2>8. \A j \in Ids : j \notin {id, o} => RecordStep(j)
    BY <2>4, <2>5 DEF RecordStep, Stays, SameListing
  <2> QED
    BY <1>0, <2>5, <2>6, <2>7, <2>8 DEF RecordSteps
<1> QED
  BY <1>5, <1>6, <1>7

LEMMA CompleteJobRecords ==
  ASSUME IInv, DeadListExact, NEW w \in Workers, NEW id \in Ids, CompleteJob(w, id)
  PROVE  /\ RecordSteps /\ Distinct(dead') /\ Len(dead') <= DeadLetterMax
<1>0. dead' = dead => Distinct(dead') /\ Len(dead') <= DeadLetterMax
  BY DEF DeadListExact, Distinct
<1>1. CASE Superseded(w, id)
  BY <1>0, <1>1, SameRecords DEF CompleteJob, tableVars, IInv
<1>2. CASE ~Superseded(w, id)
  <2>1. workers[w].outcome \in Outcomes /\ Apply(id, workers[w].outcome)
        /\ jobs[id].state = "running"
    BY <1>2 DEF CompleteJob, Superseded, IInv, PoolOK, WorkType
  <2>2. CASE Succeed(id)
    <3>1. dead' = dead /\ jobs' = [jobs EXCEPT ![id] = Settle(id, "done")]
      BY <2>2 DEF Succeed
    <3>2. jobs'[id] = Settle(id, "done") => RecordStep(id)
      BY <1>2, <2>1, <3>1, SettledFields DEF RecordStep, Ends, SameListing, IInv, States
    <3> QED
      BY <1>0, <3>1, <3>2, OneRecordSteps
  <2>3. CASE Abandon(id)
    <3>1. PICK r : r = [Settle(id, "queued") EXCEPT !.attempts = @ - 1]
      OBVIOUS
    <3>2. dead' = dead /\ jobs' = [jobs EXCEPT ![id] = r]
      BY <2>3, <3>1 DEF Abandon
    <3>3a. /\ r.state = "queued" /\ r.gen = jobs[id].gen /\ r.dead = jobs[id].dead
             /\ r.attempts = jobs[id].attempts - 1
      BY <3>1, SettledFields DEF IInv, States
    <3>3. jobs'[id] = r => RecordStep(id)
      BY <1>2, <2>1, <3>2, <3>3a DEF RecordStep, Ends, SameListing
    <3> QED
      BY <1>0, <3>2, <3>3, OneRecordSteps
  <2>4. CASE ScheduleRetry(id) /\ ~Exhausted(id)
    <3>1. PICK r : r = [Settle(id, "queued") EXCEPT !.retry = TRUE]
      OBVIOUS
    <3>2. dead' = dead /\ jobs' = [jobs EXCEPT ![id] = r]
      BY <2>4, <3>1 DEF ScheduleRetry
    <3>3. jobs[id].attempts < MaxAttempts
      BY <2>4, SyncEngineAssumption DEF Exhausted, IInv, TableOK, JobType
    <3>4a. /\ r.state = "queued" /\ r.gen = jobs[id].gen /\ r.dead = jobs[id].dead
             /\ r.attempts = jobs[id].attempts
      BY <3>1, SettledFields DEF IInv, States
    <3>4. jobs'[id] = r => RecordStep(id)
      BY <1>2, <2>1, <3>2, <3>3, <3>4a DEF RecordStep, Ends, SameListing
    <3> QED
      BY <1>0, <3>2, <3>4, OneRecordSteps
  <2>5. CASE Park(id) /\ ~Exhausted(id)
    <3>1. dead' = dead /\ jobs' = [jobs EXCEPT ![id] = Settle(id, "queued")]
      BY <2>5 DEF Park
    <3>2. jobs[id].attempts < MaxAttempts
      BY <2>5, SyncEngineAssumption DEF Exhausted, IInv, TableOK, JobType
    <3>3. jobs'[id] = Settle(id, "queued") => RecordStep(id)
      BY <1>2, <2>1, <3>1, <3>2, SettledFields DEF RecordStep, Ends, SameListing, IInv, States
    <3> QED
      BY <1>0, <3>1, <3>3, OneRecordSteps
  <2> QED
    BY <1>2, <2>1, <2>2, <2>3, <2>4, <2>5, GiveUpRecords DEF Apply, Outcomes
<1> QED
  BY <1>1, <1>2

LEMMA EnqueueRecords ==
  ASSUME IInv, NEW id \in Ids, Enqueue(id)
  PROVE  RecordSteps
<1>1. dead' = dead /\ jobs' = [jobs EXCEPT ![id] = NewJob]
  BY DEF Enqueue
<1> QED
  BY <1>1, OneRecordSteps DEF RecordStep, IsEnqueued, SameListing

LEMMA RetryFireRecords ==
  ASSUME IInv, NEW id \in Ids, RetryFire(id)
  PROVE  RecordSteps
<1>0. dead' = dead
  BY DEF RetryFire
<1>1. CASE jobs' = jobs
  BY <1>0, <1>1, SameRecords DEF IInv
<1>2. CASE jobs' = [jobs EXCEPT ![id].retry = FALSE]
  <2>1. PICK r : r = [jobs[id] EXCEPT !.retry = FALSE]
    OBVIOUS
  <2>2. /\ r.state = jobs[id].state /\ r.attempts = jobs[id].attempts
        /\ r.gen = jobs[id].gen /\ r.dead = jobs[id].dead /\ r.cancel = jobs[id].cancel
    BY <2>1 DEF IInv, TableOK, JobType
  <2>3. jobs' = [jobs EXCEPT ![id] = r]
    BY <1>2, <2>1 DEF IInv, TableOK
  <2>4. jobs'[id] = r => RecordStep(id)
    BY <1>0, <2>2 DEF RecordStep, Stays, SameListing
  <2> QED
    BY <1>0, <2>3, <2>4, OneRecordSteps
<1> QED
  BY <1>1, <1>2 DEF RetryFire

LEMMA CancelRecords ==
  ASSUME IInv, NEW id \in Ids, CancelQueued(id) \/ CancelRunning(id)
  PROVE  RecordSteps
<1>1. /\ dead' = dead /\ jobs' = [jobs EXCEPT ![id] = Cancelled(jobs[id])]
      /\ jobs[id].state \in {"queued", "running"}
  BY DEF CancelQueued, CancelRunning
<1>2. LET r == Cancelled(jobs[id])
      IN  /\ r.state = "cancelled" /\ r.gen = jobs[id].gen + 1
          /\ r.attempts = jobs[id].attempts /\ r.dead = jobs[id].dead
  BY DEF IInv, TableOK, JobType, Cancelled
<1>3. jobs'[id] = Cancelled(jobs[id]) => RecordStep(id)
  BY <1>1, <1>2 DEF RecordStep, IsCancelled, SameListing
<1> QED
  BY <1>1, <1>3, OneRecordSteps

LEMMA RetryDeadLetterRecords ==
  ASSUME IInv, DeadListExact, NEW id \in Ids, RetryDeadLetter(id)
  PROVE  /\ RecordSteps /\ Distinct(dead') /\ Len(dead') <= DeadLetterMax
<1>0. /\ dead \in Seq(Ids) /\ Distinct(dead) /\ id \in ToSet(dead) /\ Len(dead) \in Nat
      /\ Len(dead) <= DeadLetterMax /\ DeadLetterMax \in Nat
  BY LenProperties, SyncEngineAssumption
     DEF IInv, TableOK, DeadListExact, Distinct, RetryDeadLetter
<1>1. /\ Distinct(dead') /\ ToSet(dead') = ToSet(dead) \ {id} /\ Len(dead') = Len(dead) - 1
  BY <1>0, RemoveFirstDistinct DEF RetryDeadLetter
<1>2. /\ jobs'[id] = Requeued(jobs[id]) /\ jobs[id] \in JobType
      /\ \A j \in Ids : j # id => jobs'[j] = jobs[j]
  BY DEF RetryDeadLetter, IInv, TableOK
<1>3. /\ Requeued(jobs[id]).state = "queued" /\ Requeued(jobs[id]).dead = FALSE
      /\ Requeued(jobs[id]).attempts = 0 /\ Requeued(jobs[id]).gen = jobs[id].gen + 1
  BY <1>2 DEF JobType, Requeued
<1>4. jobs[id].dead = TRUE
  BY <1>2 DEF RetryDeadLetter, JobType
<1>5. RecordStep(id)
  BY <1>1, <1>2, <1>3, <1>4 DEF RecordStep, IsRetried
<1>6. \A j \in Ids : j # id => RecordStep(j)
  BY <1>1, <1>2 DEF RecordStep, Stays, SameListing
<1> QED
  BY <1>0, <1>1, <1>5, <1>6 DEF RecordSteps

LEMMA ClearDeadLetterRecords ==
  ASSUME IInv, DeadListExact, ClearDeadLetter
  PROVE  /\ RecordSteps /\ Distinct(dead') /\ Len(dead') <= DeadLetterMax
<1>1. dead' = <<>> /\ jobs' = [id \in Ids |-> IF id \in ToSet(dead) THEN NoJob ELSE jobs[id]]
  BY DEF ClearDeadLetter
<1>2. ToSet(dead') = {} /\ Distinct(dead') /\ Len(dead') = 0
  BY <1>1 DEF ToSet, Distinct
<1>3. ASSUME NEW id \in Ids PROVE RecordStep(id)
  <2>1. CASE id \in ToSet(dead)
    BY <1>1, <1>2, <2>1 DEF RecordStep, Goes, DeadListExact
  <2>2. CASE id \notin ToSet(dead)
    BY <1>1, <1>2, <2>2 DEF RecordStep, Stays, SameListing
  <2> QED
    BY <2>1, <2>2
<1> QED
  BY <1>2, <1>3, SyncEngineAssumption DEF RecordSteps

LEMMA PruneRecords ==
  ASSUME IInv, DeadListExact, Prune
  PROVE  RecordSteps
<1>1. PICK old \in SUBSET {id \in Ids : jobs[id].state \in {"done", "cancelled"}} :
         jobs' = [id \in Ids |-> IF id \in old THEN NoJob ELSE jobs[id]]
  BY DEF Prune
<1>2. dead' = dead
  BY DEF Prune
<1>3. ASSUME NEW id \in Ids PROVE RecordStep(id)
  <2>1. CASE id \in old
    BY <1>1, <1>2, <2>1 DEF RecordStep, Goes, DeadListExact
  <2>2. CASE id \notin old
    BY <1>1, <1>2, <2>2 DEF RecordStep, Stays, SameListing
  <2> QED
    BY <2>1, <2>2
<1> QED
  BY <1>3 DEF RecordSteps

LEMMA CloseRetireRecords ==
  ASSUME IInv, CloseRetire
  PROVE  RecordSteps
<1>1. /\ jobs' = [id \in Ids |-> [jobs[id] EXCEPT !.retry = FALSE, !.cancel = NoWorker]]
      /\ dead' = dead
  BY DEF CloseRetire
<1>2. ASSUME NEW id \in Ids PROVE RecordStep(id)
  <2>1. PICK r : r = [jobs[id] EXCEPT !.retry = FALSE, !.cancel = NoWorker]
    OBVIOUS
  <2>2. /\ r.state = jobs[id].state /\ r.attempts = jobs[id].attempts
        /\ r.gen = jobs[id].gen /\ r.dead = jobs[id].dead /\ r.cancel = NoWorker
    BY <2>1 DEF IInv, TableOK, JobType
  <2>3. jobs'[id] = r
    BY <1>1, <2>1
  <2> QED
    BY <1>1, <2>2, <2>3 DEF RecordStep, Stays, SameListing
<1> QED
  BY <1>2 DEF RecordSteps

(* What the journal knows of the dead-letter list.                         *)
OnDisk == {id \in Ids : disk[id].listed}

DiskExact == /\ \A id \in Ids : disk[id].listed <=> disk[id].state = "failed"
             /\ IsFiniteSet(OnDisk) /\ Cardinality(OnDisk) <= DeadLetterMax

LEMMA ReplayJobRecords ==
  ASSUME IInv, DeadListExact, DiskExact, Replaying, NEW id \in Ids, ReplayJob(id)
  PROVE  /\ RecordSteps /\ Distinct(dead') /\ Len(dead') <= DeadLetterMax
<1>0. /\ dead \in Seq(Ids) /\ Distinct(dead) /\ Len(dead) <= DeadLetterMax
      /\ life = "replaying"
  BY DEF IInv, TableOK, DeadListExact, Distinct, ReplayJob
<1>1. CASE UNCHANGED tableVars
  BY <1>0, <1>1, SameRecords DEF tableVars, IInv
<1>2. CASE /\ jobs[id].state = "absent"
           /\ jobs' = [jobs EXCEPT ![id] = Replayed(id)]
           /\ dead' = IF Replayed(id).dead THEN Append(dead, id) ELSE dead
  <2>1. jobs'[id] = Replayed(id) /\ \A j \in Ids : j # id => jobs'[j] = jobs[j]
    BY <1>2 DEF IInv, TableOK
  <2>2. id \notin ToSet(dead)
    BY <1>2 DEF DeadListExact
  <2>3. CASE ~Replayed(id).dead
    <3>1. dead' = dead
      BY <1>2, <2>3
    <3>2. RecordStep(id)
      BY <1>2, <2>1, <2>2, <2>3, <3>1 DEF RecordStep, IsReplayed
    <3>3. \A j \in Ids : j # id => RecordStep(j)
      BY <2>1, <3>1 DEF RecordStep, Stays, SameListing
    <3> QED
      BY <1>0, <3>1, <3>2, <3>3 DEF RecordSteps
  <2>4. CASE Replayed(id).dead
    <3>1. dead' = Append(dead, id)
      BY <1>2, <2>4
    <3>2. /\ Distinct(dead') /\ ToSet(dead') = ToSet(dead) \cup {id} /\ dead' \in Seq(Ids)
      BY <1>0, <2>2, <3>1, AppendDistinct
    <3>3. RecordStep(id)
      BY <1>2, <2>1, <2>4, <3>2 DEF RecordStep, IsReplayed
    <3>4. \A j \in Ids : j # id => RecordStep(j)
      BY <2>1, <3>2 DEF RecordStep, Stays, SameListing
    <3>5. ToSet(dead') \subseteq OnDisk
      <4>1. disk[id].listed
        BY <2>4, ReplayedFrom, Zenon
      <4>2. ToSet(dead) \subseteq Ids
        BY <1>0, LenProperties DEF ToSet
      <4>3. \A j \in ToSet(dead) : disk[j].listed
        BY <1>0, <4>2 DEF DeadListExact, Replaying
      <4> QED
        BY <3>2, <4>1, <4>2, <4>3 DEF OnDisk
    <3>6. /\ Cardinality(ToSet(dead')) = Len(dead')
          /\ Cardinality(ToSet(dead')) <= Cardinality(OnDisk)
      BY <3>2, <3>5, DistinctLength, FS_Subset DEF DiskExact
    <3>7. Len(dead') \in Nat /\ Cardinality(OnDisk) \in Nat /\ DeadLetterMax \in Nat
      BY <3>2, LenProperties, FS_CardinalityType, SyncEngineAssumption DEF DiskExact
    <3> QED
      BY <3>2, <3>3, <3>4, <3>6, <3>7 DEF RecordSteps, DiskExact
  <2> QED
    BY <2>3, <2>4
<1> QED
  BY <1>1, <1>2 DEF ReplayJob

(* Every step but a death changes each record in one of these ways, and    *)
(* leaves the dead-letter list without repetitions and within its size.    *)
LEMMA NextRecords ==
  ASSUME IInv, DeadListExact, DiskExact, Replaying, [Next]_vars, ~Crash
  PROVE  /\ RecordSteps /\ Distinct(dead') /\ Len(dead') <= DeadLetterMax
<1>0. dead' = dead => Distinct(dead') /\ Len(dead') <= DeadLetterMax
  BY DEF DeadListExact, Distinct
<1>1. ASSUME UNCHANGED <<jobs, dead>>
      PROVE  /\ RecordSteps /\ Distinct(dead') /\ Len(dead') <= DeadLetterMax
  BY <1>0, <1>1, SameRecords DEF IInv
<1>2. ASSUME NEW w \in Workers, WorkerStep(w)
      PROVE  /\ RecordSteps /\ Distinct(dead') /\ Len(dead') <= DeadLetterMax
  <2>1. CASE RetireWorker(w) \/ NextBatch(w) \/ HandlerReturns(w) \/ CompleteEnd(w)
             \/ FinishBatch(w)
    BY <1>1, <2>1 DEF RetireWorker, NextBatch, HandlerReturns, CompleteEnd, FinishBatch,
       tableVars
  <2>2. CASE StartBatch(w)
    BY <1>0, <2>2, StartBatchRecords DEF StartBatch
  <2> QED
    BY <1>2, <2>1, <2>2, CompleteJobRecords DEF WorkerStep
<1>3. CASE UserStep
  <2>1. ASSUME NEW id \in Ids, Enqueue(id) \/ CancelQueued(id) \/ CancelRunning(id)
        PROVE  /\ RecordSteps /\ dead' = dead
    BY <2>1, EnqueueRecords, CancelRecords DEF Enqueue, CancelQueued, CancelRunning
  <2>2. CASE \/ Flush \/ (\E n \in PoolSizes : SetWorkers(n))
             \/ (\E n \in BatchSizes : SetBatchSize(n))
    BY <1>1, <2>2 DEF Flush, SetWorkers, SetBatchSize, tableVars
  <2> QED
    BY <1>0, <1>3, <2>1, <2>2, RetryDeadLetterRecords, ClearDeadLetterRecords DEF UserStep
<1>4. CASE StartStep
  <2>1. CASE StartBegin \/ ReplayBegin \/ ReplayEnd \/ StartPool
    BY <1>1, <2>1 DEF StartBegin, ReplayBegin, ReplayEnd, StartPool, tableVars
  <2> QED
    BY <1>4, <2>1, ReplayJobRecords DEF StartStep
<1>5. CASE CloseStep
  <2>1. CASE CloseBegin \/ CloseFlush \/ CloseDrained \/ CloseExpired \/ CloseCancel
             \/ CloseWait
    BY <1>1, <2>1 DEF CloseBegin, CloseFlush, CloseDrained, CloseExpired, CloseCancel,
       CloseWait, tableVars
  <2>2. CASE CloseRetire
    BY <1>0, <2>2, CloseRetireRecords DEF CloseRetire
  <2> QED
    BY <1>5, <2>1, <2>2 DEF CloseStep
<1>6. CASE TimerStep
  <2>1. ASSUME NEW id \in Ids, RetryFire(id) PROVE RecordSteps /\ dead' = dead
    BY <2>1, RetryFireRecords DEF RetryFire
  <2>2. CASE Persist \/ \E k \in Keys : Fire(k)
    BY <1>1, <2>2 DEF Persist, Fire, tableVars
  <2>3. CASE Prune
    BY <1>0, <2>3, PruneRecords DEF Prune
  <2> QED
    BY <1>0, <1>6, <2>1, <2>2, <2>3 DEF TimerStep
<1>7. CASE UNCHANGED vars
  BY <1>1, <1>7 DEF vars, tableVars
<1> QED
  BY <1>2, <1>3, <1>4, <1>5, <1>6, <1>7 DEF Next, Ended

-----------------------------------------------------------------------------
(* Ids that are never enqueued twice.                                      *)

(* An id that was never handed out has no record and is in no batch, and   *)
(* a worker that does not exist has none.                                  *)
Unused == /\ \A id \in Ids : used[id] = 0 =>
                jobs[id].state = "absent" /\ \A w \in Workers : id \notin workers[w].jobs
          /\ \A w \in Workers : workers[w].pc = "absent" => workers[w].jobs = {}

(* A worker takes jobs up only when it starts a batch.                     *)
LEMMA WorkerHolds ==
  ASSUME IInv, NEW w \in Workers, WorkerStep(w)
  PROVE  /\ \A v \in Workers : v # w => workers'[v] = workers[v]
         /\ \/ /\ StartBatch(w) /\ workers'[w].jobs = Startable(workers[w].batch)
               /\ \A id \in workers'[w].jobs : workers'[w].stamps[id] = jobs[id].gen
            \/ /\ workers'[w].jobs \subseteq workers[w].jobs
               /\ \A id \in workers'[w].jobs : workers'[w].stamps[id] = workers[w].stamps[id]
<1>0. workers \in [Workers -> WorkType] /\ workers[w] \in WorkType
  BY DEF IInv, PoolOK
<1>1. CASE RetireWorker(w)
  BY <1>0, <1>1 DEF RetireWorker, NoWork
<1>2. CASE NextBatch(w)
  BY <1>0, <1>2 DEF NextBatch, WorkType
<1>3. CASE StartBatch(w)
  <2> DEFINE start == Startable(workers[w].batch)
             stamps == [id \in Ids |-> IF id \in start THEN jobs[id].gen ELSE 0]
  <2>1. start \subseteq Ids
    BY <1>0 DEF Startable, WorkType
  <2>2. /\ workers'[w].jobs = start /\ workers'[w].stamps = stamps
        /\ \A v \in Workers : v # w => workers'[v] = workers[v]
    BY <1>0, <1>3 DEF StartBatch, WorkType
  <2> QED
    BY <1>3, <2>1, <2>2
<1>4. CASE HandlerReturns(w)
  BY <1>0, <1>4 DEF HandlerReturns, WorkType
<1>5. CASE \E id \in Ids : CompleteJob(w, id)
  <2>1. PICK id \in Ids : workers' = [workers EXCEPT ![w].jobs = @ \ {id}]
    BY <1>5 DEF CompleteJob
  <2> QED
    BY <1>0, <2>1 DEF WorkType
<1>6. CASE CompleteEnd(w)
  BY <1>0, <1>6 DEF CompleteEnd, WorkType
<1>7. CASE FinishBatch(w)
  BY <1>0, <1>7 DEF FinishBatch, Idle, NoWork, WorkType
<1> QED
  BY <1>1, <1>2, <1>3, <1>4, <1>5, <1>6, <1>7 DEF WorkerStep

(* No other step gives a worker jobs.                                      *)
LEMMA OthersHold ==
  ASSUME IInv, [Next]_vars, ~Crash, \A w \in Workers : ~WorkerStep(w), NEW w \in Workers
  PROVE  \/ /\ workers'[w].jobs = workers[w].jobs
            /\ workers'[w].stamps = workers[w].stamps
            /\ workers'[w].pc = workers[w].pc
         \/ workers'[w].jobs = {}
<1>0. workers \in [Workers -> WorkType] /\ workers[w] \in WorkType
  BY DEF IInv, PoolOK
<1>1. ASSUME NEW W, workers' = CancelContexts(W)
      PROVE  /\ workers'[w].jobs = workers[w].jobs
             /\ workers'[w].stamps = workers[w].stamps
             /\ workers'[w].pc = workers[w].pc
  BY <1>1, CancelContextsType DEF IInv
<1>2. ASSUME NEW gen, NEW n, StartWorkers(gen, n)
      PROVE  workers'[w] = workers[w] \/ workers'[w].jobs = {}
  BY <1>2 DEF StartWorkers, Idle, NoWork
<1>3. CASE UserStep
  <2>1. CASE \E n \in PoolSizes : SetWorkers(n)
    BY <1>2, <2>1 DEF SetWorkers
  <2>2. CASE \E id \in Ids : CancelRunning(id)
    BY <1>1, <2>2 DEF CancelRunning
  <2> QED
    BY <1>3, <2>1, <2>2 DEF UserStep, Enqueue, CancelQueued, RetryDeadLetter, ClearDeadLetter,
       Flush, SetBatchSize, poolVars
<1>4. CASE StartStep
  <2>1. CASE StartPool
    BY <1>2, <2>1 DEF StartPool
  <2> QED
    BY <1>4, <2>1 DEF StartStep, StartBegin, ReplayBegin, ReplayJob, ReplayEnd, poolVars
<1>5. CASE CloseStep
  <2>1. CASE CloseCancel
    BY <1>1, <2>1 DEF CloseCancel
  <2> QED
    BY <1>5, <2>1 DEF CloseStep, CloseBegin, CloseFlush, CloseDrained, CloseExpired,
       CloseRetire, CloseWait, poolVars
<1>6. CASE TimerStep
  BY <1>6 DEF TimerStep, Fire, RetryFire, Prune, Persist, poolVars
<1>7. CASE UNCHANGED vars
  BY <1>7 DEF vars, poolVars
<1> QED
  BY <1>3, <1>4, <1>5, <1>6, <1>7 DEF Next, Ended

(* Ids are handed out and never taken back.                                *)
LEMMA UsedGrows ==
  ASSUME IInv, [Next]_vars, ~Crash, NEW id \in Ids
  PROVE  /\ used'[id] \in {used[id], used[id] + 1}
         /\ Enqueue(id) \/ (ReplayJob(id) /\ jobs' # jobs) => used'[id] = used[id] + 1
<1>0. used \in [Ids -> Nat]
  BY DEF IInv, RestType
<1>1. ASSUME NEW j \in Ids, Enqueue(j)
      PROVE  used' = [used EXCEPT ![j] = @ + 1]
  BY <1>1 DEF Enqueue
<1>2. ASSUME NEW j \in Ids, ReplayJob(j)
      PROVE  used' = [used EXCEPT ![j] = @ + 1] \/ (used' = used /\ jobs' = jobs)
  BY <1>2 DEF ReplayJob, tableVars
<1>3. \/ used' = used
      \/ \E j \in Ids : Enqueue(j) \/ ReplayJob(j)
  <2>1. ASSUME NEW w \in Workers, WorkerStep(w) PROVE used' = used
    BY <2>1, WorkerMoves
  <2>2. CASE UserStep
    BY <2>2 DEF UserStep, CancelQueued, CancelRunning, RetryDeadLetter, ClearDeadLetter,
       Flush, SetWorkers, SetBatchSize
  <2>3. CASE StartStep
    BY <2>3 DEF StartStep, StartBegin, ReplayBegin, ReplayEnd, StartPool
  <2>4. CASE CloseStep
    BY <2>4 DEF CloseStep, CloseBegin, CloseFlush, CloseDrained, CloseExpired, CloseRetire,
       CloseCancel, CloseWait
  <2>5. CASE TimerStep
    BY <2>5 DEF TimerStep, Fire, RetryFire, Prune, Persist
  <2>6. CASE UNCHANGED vars
    BY <2>6 DEF vars
  <2> QED
    BY <2>1, <2>2, <2>3, <2>4, <2>5, <2>6 DEF Next, Ended
<1> QED
  BY <1>0, <1>1, <1>2, <1>3

LEMMA UnusedKeeps ==
  ASSUME IInv, Unused, DeadListExact, DiskExact, Replaying, [Next]_vars
  PROVE  Unused'
<1>1. CASE Crash
  BY <1>1 DEF Crash, Unused, NoJob, NoWork
<1>2. CASE ~Crash
  <2>1. ASSUME NEW id \in Ids, used'[id] = 0 PROVE jobs'[id].state = "absent"
    <3>1. used[id] = 0 /\ ~Enqueue(id) /\ (ReplayJob(id) => jobs' = jobs)
      BY <1>2, <2>1, UsedGrows DEF IInv, RestType
    <3>2. jobs[id].state = "absent" /\ ~jobs[id].dead
      BY <3>1 DEF Unused, DeadListExact
    <3>3. RecordStep(id)
      BY <1>2, NextRecords DEF RecordSteps
    <3> QED
      BY <3>1, <3>2, <3>3 DEF RecordStep, Stays, Starts, Ends, IsCancelled, IsRetried, Goes,
         IsEnqueued, IsReplayed
  <2>2. ASSUME NEW id \in Ids, used'[id] = 0, NEW w \in Workers PROVE id \notin workers'[w].jobs
    <3>1. used[id] = 0
      BY <1>2, <2>2, UsedGrows DEF IInv, RestType
    <3>2. jobs[id].state = "absent" /\ \A v \in Workers : id \notin workers[v].jobs
      BY <3>1 DEF Unused
    <3>3. ASSUME NEW v \in Workers, WorkerStep(v) PROVE id \notin workers'[w].jobs
      BY <3>2, <3>3, WorkerHolds DEF Startable
    <3> QED
      BY <1>2, <3>2, <3>3, OthersHold
  <2>3. ASSUME NEW w \in Workers, workers'[w].pc = "absent" PROVE workers'[w].jobs = {}
    <3>1. ASSUME NEW v \in Workers, WorkerStep(v) PROVE workers'[w].jobs = {}
      BY <2>3, <3>1, WorkerMoves DEF Unused, NoWork
    <3> QED
      BY <1>2, <2>3, <3>1, OthersHold DEF Unused
  <2> QED
    BY <2>1, <2>2, <2>3 DEF Unused
<1> QED
  BY <1>1, <1>2

(* A job of a careful caller replaces nothing that is still to be heard of.*)
LEMMA EnqueuedIsNew ==
  ASSUME Careful, IInv, Unused, DeadListExact, NEW id \in Ids, Enqueue(id)
  PROVE  /\ id \notin ToSet(dead) /\ jobs[id].dead = FALSE
         /\ \A w \in Workers : id \notin workers[w].jobs
         /\ jobs[id].state \in {"absent", "done", "cancelled"}
         /\ jobs[id].state # "absent" => id \in StableIds
<1>1. id \notin ToSet(dead) /\ \A w \in Workers : id \notin workers[w].jobs
  BY DEF Careful
<1>2. jobs[id].state \in States /\ jobs[id].dead \in BOOLEAN /\ used[id] \in Nat
  BY DEF IInv, TableOK, JobType, RestType
<1>3. ~jobs[id].dead /\ jobs[id].state # "failed"
  BY <1>1 DEF DeadListExact
<1>4. jobs[id].state \notin {"queued", "running"}
      /\ used[id] < IF id \in StableIds THEN MaxEnqueues ELSE 1
  BY DEF Enqueue
<1>5. id \notin StableIds => used[id] = 0
  BY <1>2, <1>4
<1> QED
  BY <1>1, <1>2, <1>3, <1>4, <1>5 DEF Unused, States

LEMMA DeadListKeeps ==
  ASSUME Careful, IInv, Unused, DeadListExact, DiskExact, Replaying, [Next]_vars
  PROVE  DeadListExact'
<1>1. CASE Crash
  <2>1. dead' = <<>> /\ jobs' = [id \in Ids |-> NoJob]
    BY <1>1 DEF Crash
  <2>2. ToSet(dead') = {} /\ Len(dead') = 0 /\ DOMAIN dead' = {}
    BY <2>1 DEF ToSet
  <2> QED
    BY <2>1, <2>2, NoJobType, SyncEngineAssumption DEF DeadListExact
<1>2. CASE ~Crash
  <2>1. /\ RecordSteps /\ Distinct(dead') /\ Len(dead') <= DeadLetterMax
    BY <1>2, NextRecords
  <2>2. ASSUME NEW id \in Ids
        PROVE  /\ id \in ToSet(dead') <=> jobs'[id].dead
               /\ jobs'[id].dead <=> jobs'[id].state = "failed"
    <3>1. /\ id \in ToSet(dead) <=> jobs[id].dead
          /\ jobs[id].dead <=> jobs[id].state = "failed"
      BY DEF DeadListExact
    <3>2. CASE Stays(id) \/ Starts(id) \/ IsCancelled(id)
      BY <3>1, <3>2 DEF Stays, Starts, IsCancelled, SameListing
    <3>3. CASE Ends(id)
      BY <3>1, <3>3 DEF Ends, SameListing
    <3>4. CASE IsRetried(id) \/ Goes(id)
      BY <3>4, NoJobType DEF IsRetried, Goes
    <3>5. CASE IsEnqueued(id)
      <4>1. id \notin ToSet(dead)
        BY <3>5, EnqueuedIsNew DEF IsEnqueued
      <4>2. NewJob.state = "queued" /\ NewJob.dead = FALSE
        BY DEF NewJob, NoJob
      <4> QED
        BY <3>1, <3>5, <4>1, <4>2 DEF IsEnqueued, SameListing
    <3>6. CASE IsReplayed(id)
      <4>1. Replayed(id).dead <=> (disk[id].state = "failed" /\ disk[id].listed)
        BY ReplayedFrom, Zenon
      <4>2. Replayed(id).state = "failed" <=> disk[id].state = "failed"
        BY ReplayedFrom
      <4>3. disk[id].listed <=> disk[id].state = "failed"
        BY DEF DiskExact
      <4>4. Replayed(id).dead <=> Replayed(id).state = "failed"
        BY <4>1, <4>2, <4>3
      <4> QED
        BY <3>6, <4>4 DEF IsReplayed
    <3> QED
      BY <2>1, <3>2, <3>3, <3>4, <3>5, <3>6 DEF RecordSteps, RecordStep
  <2> QED
    BY <2>1, <2>2 DEF DeadListExact, Distinct
<1> QED
  BY <1>1, <1>2

(* The journal file changes only to a snapshot of the table.               *)
LEMMA DiskMoves ==
  ASSUME IInv, [Next]_vars
  PROVE  disk' = disk \/ disk' = Snapshot
<1>1. ASSUME NEW w \in Workers, WorkerStep(w) PROVE disk' = disk
  BY <1>1, WorkerMoves
<1>2. CASE UserStep
  BY <1>2 DEF UserStep, Enqueue, CancelQueued, CancelRunning, RetryDeadLetter, ClearDeadLetter,
     Flush, SetWorkers, SetBatchSize, MarkDirty, diskVars
<1>3. CASE StartStep
  BY <1>3 DEF StartStep, StartBegin, ReplayBegin, ReplayJob, ReplayEnd, StartPool, MarkDirty,
     diskVars
<1>4. CASE CloseStep
  BY <1>4 DEF CloseStep, CloseBegin, CloseFlush, CloseDrained, CloseExpired, CloseRetire,
     CloseCancel, CloseWait, diskVars
<1>5. CASE TimerStep
  BY <1>5 DEF TimerStep, Fire, RetryFire, Prune, Persist, MarkDirty, diskVars
<1>6. CASE Crash \/ UNCHANGED vars
  BY <1>6 DEF Crash, vars, diskVars
<1> QED
  BY <1>1, <1>2, <1>3, <1>4, <1>5, <1>6 DEF Next, Ended

LEMMA DiskKeeps ==
  ASSUME IInv, DeadListExact, DiskExact, [Next]_vars
  PROVE  DiskExact'
<1>1. CASE disk' = disk
  BY <1>1 DEF DiskExact, OnDisk
<1>2. CASE disk' = Snapshot
  <2>1. /\ dead \in Seq(Ids) /\ Distinct(dead) /\ Len(dead) <= DeadLetterMax
        /\ ToSet(dead) \subseteq Ids
    BY LenProperties DEF IInv, TableOK, DeadListExact, Distinct, ToSet
  <2>2. \A id \in Ids : /\ disk'[id].state = jobs[id].state
                        /\ disk'[id].listed <=> id \in ToSet(dead)
    BY <1>2 DEF Snapshot
  <2>3. OnDisk' = ToSet(dead)
    BY <2>1, <2>2 DEF OnDisk
  <2>4. IsFiniteSet(ToSet(dead)) /\ Cardinality(ToSet(dead)) = Len(dead)
    BY <2>1, DistinctLength
  <2> QED
    BY <2>1, <2>2, <2>3, <2>4 DEF DiskExact, DeadListExact
<1> QED
  BY <1>1, <1>2, DiskMoves

(* A call that began an older attempt than the newest is fenced off, and   *)
(* the one that began the newest is the only one of its kind.              *)
Guards(w, id) == jobs[id].state # "absent" =>
    \/ workers[w].stamps[id] < jobs[id].gen
    \/ /\ workers[w].stamps[id] = jobs[id].gen
       /\ jobs[id].state = "running" /\ jobs[id].cancel \in {w, NoWorker}
       /\ \A v \in Workers : v # w /\ id \in workers[v].jobs =>
                                workers[v].stamps[id] < jobs[id].gen

Fenced == \A w \in Workers : \A id \in workers[w].jobs : Guards(w, id)

LEMMA FencedKeeps ==
  ASSUME Careful, IInv, Alone, Unused, DeadListExact, DiskExact, Replaying, Fenced,
         [Next]_vars
  PROVE  Fenced'
<1>0. /\ \A w \in Workers : workers[w].jobs \subseteq Ids /\ workers[w].stamps \in [Ids -> Nat]
      /\ \A id \in Ids : jobs[id].gen \in Nat
  BY DEF IInv, PoolOK, WorkType, TableOK, JobType
<1>1. CASE Crash
  BY <1>1 DEF Crash, NoWork, Fenced
<1>2. ASSUME NEW w \in Workers, StartBatch(w) PROVE Fenced'
  <2> DEFINE start == Startable(workers[w].batch)
  <2>1. /\ \A v \in Workers : v # w => workers'[v] = workers[v]
        /\ workers'[w].jobs = start /\ start \subseteq Ids
        /\ \A id \in start : workers'[w].stamps[id] = jobs[id].gen
    <3>1. workers \in [Workers -> WorkType] /\ workers[w] \in WorkType
      BY DEF IInv, PoolOK
    <3>2. start \subseteq Ids
      BY <3>1 DEF Startable, WorkType
    <3>3. /\ workers'[w].jobs = start
          /\ workers'[w].stamps = [id \in Ids |-> IF id \in start THEN jobs[id].gen ELSE 0]
          /\ \A v \in Workers : v # w => workers'[v] = workers[v]
      BY <1>2, <3>1 DEF StartBatch, WorkType
    <3> QED
      BY <3>2, <3>3
  <2>2. ASSUME NEW id \in start
        PROVE  /\ jobs[id].state = "queued"
               /\ jobs'[id].state = "running" /\ jobs'[id].gen = jobs[id].gen
               /\ jobs'[id].cancel = w
    <3>1. jobs'[id] = Started(jobs[id], w) /\ jobs[id] \in JobType
      BY <1>2, <2>1, <2>2 DEF StartBatch, IInv, TableOK
    <3> QED
      BY <2>2, <3>1 DEF JobType, Started, Startable
  <2>3. \A id \in Ids : id \notin start => jobs'[id] = jobs[id]
    BY <1>2 DEF StartBatch
  <2> HIDE DEF start
  <2>4. ASSUME NEW v \in Workers, NEW id \in start, id \in workers[v].jobs
        PROVE  workers[v].stamps[id] < jobs[id].gen
    BY <2>2, <2>4 DEF Fenced, Guards
  <2>5. ASSUME NEW id \in start PROVE Guards(w, id)'
    BY <2>1, <2>2, <2>4, <2>5 DEF Guards
  <2>6. ASSUME NEW v \in Workers, v # w, NEW id \in workers'[v].jobs PROVE Guards(v, id)'
    <3>1. id \in workers[v].jobs /\ id \in Ids /\ workers'[v].stamps[id] = workers[v].stamps[id]
      BY <1>0, <2>1, <2>6
    <3>2. CASE id \in start
      BY <2>2, <2>4, <3>1, <3>2 DEF Guards
    <3>3. CASE id \notin start
      BY <2>1, <2>3, <3>1, <3>3 DEF Fenced, Guards
    <3> QED
      BY <3>2, <3>3
  <2> QED
    BY <2>1, <2>5, <2>6 DEF Fenced
<1>3. CASE ~Crash /\ \A w \in Workers : ~StartBatch(w)
  <2>1. ASSUME NEW w \in Workers
        PROVE  /\ workers'[w].jobs \subseteq workers[w].jobs
               /\ \A id \in workers'[w].jobs : workers'[w].stamps[id] = workers[w].stamps[id]
    <3>1. ASSUME NEW v \in Workers, WorkerStep(v)
          PROVE  /\ workers'[w].jobs \subseteq workers[w].jobs
                 /\ \A id \in workers'[w].jobs : workers'[w].stamps[id] = workers[w].stamps[id]
      BY <1>3, <3>1, WorkerHolds
    <3> QED
      BY <1>3, <3>1, OthersHold
  <2>2. ASSUME NEW w \in Workers, NEW id \in workers'[w].jobs, jobs'[id].state # "absent"
        PROVE  Guards(w, id)'
    <3>1. id \in workers[w].jobs /\ id \in Ids /\ workers'[w].stamps[id] = workers[w].stamps[id]
      BY <1>0, <2>1, <2>2
    <3>2. RecordStep(id)
      BY <1>3, <3>1, NextRecords DEF RecordSteps
    <3>3. ~IsEnqueued(id)
      BY <3>1, EnqueuedIsNew DEF IsEnqueued
    <3>4. ~IsReplayed(id)
      BY <3>1 DEF IsReplayed, ReplayJob, Alone, Unused
    <3>5. ~Starts(id) /\ ~Goes(id)
      BY <1>3, <2>2, NoJobType DEF Starts, Goes
    <3>6. jobs[id].state # "absent"
      <4>1. IsRetried(id) => jobs[id].state = "failed"
        BY <3>1 DEF IsRetried, DeadListExact
      <4> QED
        BY <2>2, <3>2, <3>3, <3>4, <3>5, <4>1 DEF RecordStep, Stays, Ends, IsCancelled
    <3>7. jobs'[id].gen \in {jobs[id].gen, jobs[id].gen + 1}
      BY <3>2, <3>3, <3>4, <3>5 DEF RecordStep, Stays, Ends, IsCancelled, IsRetried
    <3>8. CASE workers[w].stamps[id] < jobs[id].gen
      BY <1>0, <3>1, <3>7, <3>8 DEF Guards
    <3>9. CASE /\ workers[w].stamps[id] = jobs[id].gen
               /\ jobs[id].state = "running" /\ jobs[id].cancel \in {w, NoWorker}
               /\ \A v \in Workers : v # w /\ id \in workers[v].jobs =>
                                        workers[v].stamps[id] < jobs[id].gen
      <4>1. CASE Stays(id)
        <5>1. \A v \in Workers : v # w /\ id \in workers'[v].jobs =>
                                    workers'[v].stamps[id] < jobs[id].gen
          BY <2>1, <3>9
        <5> QED
          BY <3>1, <3>9, <4>1, <5>1 DEF Stays, Guards
      <4>2. ~Ends(id)
        <5> SUFFICES ASSUME Ends(id) PROVE FALSE
          OBVIOUS
        <5>1. PICK v \in Workers : CompleteJob(v, id) /\ ~Superseded(v, id)
          BY DEF Ends
        <5>2. id \in workers[v].jobs /\ workers[v].stamps[id] = jobs[id].gen
          BY <5>1 DEF CompleteJob, Superseded
        <5>3. v = w
          BY <1>0, <3>1, <3>9, <5>2
        <5>4. id \notin workers'[w].jobs
          BY <5>1, <5>3 DEF CompleteJob, IInv, PoolOK, WorkType
        <5> QED
          BY <5>4
      <4>3. CASE IsCancelled(id) \/ IsRetried(id)
        BY <1>0, <3>1, <3>9, <4>3 DEF IsCancelled, IsRetried, Guards
      <4> QED
        BY <3>2, <3>3, <3>4, <3>5, <4>1, <4>2, <4>3 DEF RecordStep
    <3> QED
      BY <3>1, <3>6, <3>8, <3>9 DEF Fenced, Guards
  <2> QED
    BY <2>2 DEF Fenced, Guards
<1> QED
  BY <1>1, <1>2, <1>3

-----------------------------------------------------------------------------
(* Until a process has died the engine knows only its own attempts.        *)
Budget == crashes = 0 =>
            /\ AttemptsWithinBudget
            /\ life # "up" => jobs = [id \in Ids |-> NoJob] /\ disk = NotWritten /\ ~dirty

InBudget(id) ==
    /\ jobs[id].attempts <= MaxAttempts
    /\ jobs[id].state = "queued" => jobs[id].attempts < MaxAttempts

(* What a result does to the attempts of the jobs.                         *)
LEMMA ApplyInBudget ==
  ASSUME IInv, NEW w \in Workers, NEW id \in Ids, Apply(id, workers[w].outcome),
         workers[w].outcome \in Outcomes, NEW i \in Ids, InBudget(i)
  PROVE  InBudget(i)'
<1>0. /\ MaxAttempts \in Nat \ {0} /\ jobs \in [Ids -> JobType]
      /\ jobs[i].attempts \in Nat /\ jobs[id].attempts \in Nat
  BY SyncEngineAssumption DEF IInv, TableOK, JobType
<1>1. \A s : /\ Settle(id, s).attempts = jobs[id].attempts
             /\ Settle(id, s).state = s
  BY <1>0 DEF Settle, JobType
<1>2. NoJob.attempts = 0 /\ NoJob.state = "absent"
  BY DEF NoJob
<1>3. CASE Succeed(id)
  BY <1>0, <1>1, <1>3 DEF Succeed, InBudget
<1>4. CASE Abandon(id)
  <2>1. jobs' = [jobs EXCEPT ![id] = [Settle(id, "queued") EXCEPT !.attempts = @ - 1]]
    BY <1>4 DEF Abandon
  <2>2. i = id => jobs'[i].attempts = jobs[i].attempts - 1
    BY <1>0, <1>1, <2>1 DEF Settle, JobType
  <2>3. i # id => jobs'[i] = jobs[i]
    BY <1>0, <2>1
  <2> QED
    BY <1>0, <2>2, <2>3 DEF InBudget
<1>5. CASE GiveUp(id)
  <2> DEFINE lost == [Settle(id, "failed") EXCEPT !.dead = TRUE]
  <2>1. lost.attempts = jobs[id].attempts /\ lost.state = "failed"
    BY <1>0 DEF Settle, JobType
  <2>2. jobs'[i] \in {jobs[i], NoJob} \/ (i = id /\ jobs'[i] = lost)
    BY <1>0, <1>5 DEF GiveUp
  <2> HIDE DEF lost
  <2> QED
    BY <1>0, <1>2, <2>1, <2>2 DEF InBudget
<1>6. CASE ~Exhausted(id) /\ (Park(id) \/ ScheduleRetry(id))
  <2>1. jobs[id].attempts < MaxAttempts
    BY <1>0, <1>6 DEF Exhausted
  <2>2. jobs'[i] = jobs[i] \/ (i = id /\ jobs'[i].attempts = jobs[i].attempts)
    <3> DEFINE again == [Settle(id, "queued") EXCEPT !.retry = TRUE]
    <3>1. again.attempts = jobs[id].attempts
      BY <1>0 DEF Settle, JobType
    <3> HIDE DEF again
    <3>2. CASE Park(id)
      BY <1>0, <1>1, <3>2 DEF Park
    <3>3. CASE ScheduleRetry(id)
      BY <1>0, <3>1, <3>3 DEF ScheduleRetry, again
    <3> QED
      BY <1>6, <3>2, <3>3
  <2> QED
    BY <1>0, <2>1, <2>2 DEF InBudget
<1> QED
  BY <1>3, <1>4, <1>5, <1>6 DEF Apply, Outcomes

(* Every step but a replay and a death keeps the budget of every job.      *)
LEMMA StaysInBudget ==
  ASSUME IInv, [Next]_vars, ~Crash, \A j \in Ids : ~ReplayJob(j), NEW i \in Ids, InBudget(i)
  PROVE  InBudget(i)'
<1>0. /\ MaxAttempts \in Nat \ {0} /\ jobs \in [Ids -> JobType] /\ workers \in [Workers -> WorkType]
      /\ jobs[i].attempts \in Nat
  BY SyncEngineAssumption DEF IInv, TableOK, JobType, PoolOK
<1>1. /\ NoJob.attempts = 0 /\ NoJob.state = "absent"
      /\ NewJob.attempts = 0 /\ NewJob.state = "queued"
  BY DEF NoJob, NewJob
<1>2. jobs'[i] = jobs[i] => InBudget(i)'
  BY DEF InBudget
<1>3. jobs'[i] \in {NoJob, NewJob} => InBudget(i)'
  BY <1>0, <1>1 DEF InBudget
<1>4. ASSUME NEW w \in Workers, WorkerStep(w) PROVE InBudget(i)'
  <2>1. CASE StartBatch(w)
    <3>1. jobs'[i] = jobs[i] \/ (jobs[i].state = "queued" /\ jobs'[i] = Started(jobs[i], w))
      BY <2>1 DEF StartBatch, Startable
    <3>2. Started(jobs[i], w).attempts = jobs[i].attempts + 1
          /\ Started(jobs[i], w).state = "running"
      BY <1>0 DEF Started, JobType
    <3> QED
      BY <1>0, <1>2, <3>1, <3>2 DEF InBudget
  <2>2. ASSUME NEW id \in Ids, CompleteJob(w, id) PROVE InBudget(i)'
    <3>1. CASE Superseded(w, id)
      BY <1>2, <2>2, <3>1 DEF CompleteJob, tableVars
    <3>2. CASE ~Superseded(w, id)
      BY <1>0, <2>2, <3>2, ApplyInBudget DEF CompleteJob, WorkType
    <3> QED
      BY <3>1, <3>2
  <2>3. CASE RetireWorker(w) \/ NextBatch(w) \/ HandlerReturns(w) \/ CompleteEnd(w)
             \/ FinishBatch(w)
    BY <1>2, <2>3 DEF RetireWorker, NextBatch, HandlerReturns, CompleteEnd, FinishBatch, tableVars
  <2> QED
    BY <1>4, <2>1, <2>2, <2>3 DEF WorkerStep
<1>5. CASE UserStep
  <2>1. ASSUME NEW id \in Ids, Enqueue(id) PROVE InBudget(i)'
    BY <1>0, <1>2, <1>3, <2>1 DEF Enqueue
  <2>2. ASSUME NEW id \in Ids, CancelQueued(id) \/ CancelRunning(id) PROVE InBudget(i)'
    <3>1. jobs'[i] = jobs[i] \/ jobs'[i] = Cancelled(jobs[i])
      BY <1>0, <2>2 DEF CancelQueued, CancelRunning
    <3>2. Cancelled(jobs[i]).attempts = jobs[i].attempts /\ Cancelled(jobs[i]).state = "cancelled"
      BY <1>0 DEF Cancelled, JobType
    <3> QED
      BY <1>2, <3>1, <3>2 DEF InBudget
  <2>3. ASSUME NEW id \in Ids, RetryDeadLetter(id) PROVE InBudget(i)'
    <3>1. jobs'[i] = jobs[i] \/ jobs'[i] = Requeued(jobs[i])
      BY <1>0, <2>3 DEF RetryDeadLetter
    <3>2. Requeued(jobs[i]).attempts = 0
      BY <1>0 DEF Requeued, JobType
    <3> QED
      BY <1>0, <1>2, <3>1, <3>2 DEF InBudget
  <2>4. CASE ClearDeadLetter
    <3>1. jobs'[i] \in {jobs[i], NoJob}
      BY <1>0, <2>4 DEF ClearDeadLetter
    <3> QED
      BY <1>2, <1>3, <3>1
  <2>5. CASE Flush \/ (\E n \in PoolSizes : SetWorkers(n)) \/ (\E n \in BatchSizes : SetBatchSize(n))
    BY <1>2, <2>5 DEF Flush, SetWorkers, SetBatchSize, tableVars
  <2> QED
    BY <1>5, <2>1, <2>2, <2>3, <2>4, <2>5 DEF UserStep
<1>6. CASE StartStep
  BY <1>2, <1>6 DEF StartStep, StartBegin, ReplayBegin, ReplayEnd, StartPool, tableVars
<1>7. CASE CloseStep
  <2>1. CASE CloseRetire
    <3>1. jobs'[i] = [jobs[i] EXCEPT !.retry = FALSE, !.cancel = NoWorker]
      BY <2>1 DEF CloseRetire
    <3>2. jobs'[i].attempts = jobs[i].attempts /\ jobs'[i].state = jobs[i].state
      BY <1>0, <3>1 DEF JobType
    <3> QED
      BY <3>2 DEF InBudget
  <2>2. CASE CloseBegin \/ CloseFlush \/ CloseDrained \/ CloseExpired
    BY <1>2, <2>2 DEF CloseBegin, CloseFlush, CloseDrained, CloseExpired, tableVars
  <2>3. CASE CloseCancel \/ CloseWait
    BY <1>2, <2>3 DEF CloseCancel, CloseWait, tableVars
  <2> QED
    BY <1>7, <2>1, <2>2, <2>3 DEF CloseStep
<1>8. CASE TimerStep
  <2>1. ASSUME NEW id \in Ids, RetryFire(id) PROVE InBudget(i)'
    <3>1. \/ jobs'[i] = jobs[i]
          \/ jobs'[i] = [jobs[i] EXCEPT !.retry = FALSE]
      BY <1>0, <2>1 DEF RetryFire
    <3>2. /\ [jobs[i] EXCEPT !.retry = FALSE].attempts = jobs[i].attempts
          /\ [jobs[i] EXCEPT !.retry = FALSE].state = jobs[i].state
      BY <1>0 DEF JobType
    <3> QED
      BY <1>2, <3>1, <3>2 DEF InBudget
  <2>2. CASE Prune
    <3>1. jobs'[i] \in {jobs[i], NoJob}
      BY <1>0, <2>2 DEF Prune
    <3> QED
      BY <1>2, <1>3, <3>1
  <2>3. CASE Persist \/ \E k \in Keys : Fire(k)
    BY <1>2, <2>3 DEF Persist, Fire, tableVars
  <2> QED
    BY <1>8, <2>1, <2>2, <2>3 DEF TimerStep
<1>9. CASE UNCHANGED vars
  BY <1>2, <1>9 DEF vars, tableVars
<1> QED
  BY <1>4, <1>5, <1>6, <1>7, <1>8, <1>9 DEF Next, Ended

LEMMA BudgetKeeps ==
  ASSUME StartAlone, IInv, Alone, Replaying, Budget, [Next]_vars
  PROVE  Budget'
<1> SUFFICES ASSUME crashes' = 0 PROVE Budget'
  BY DEF Budget
<1>1. ~Crash
  BY DEF Crash, IInv, RestType
<1>2. crashes = 0
  <2>1. ASSUME NEW w \in Workers, WorkerStep(w) PROVE crashes' = crashes
    BY <2>1, WorkerMoves
  <2>2. CASE UserStep
    BY <2>2 DEF UserStep, Enqueue, CancelQueued, CancelRunning, RetryDeadLetter,
       ClearDeadLetter, Flush, SetWorkers, SetBatchSize, MarkDirty, diskVars
  <2>3. CASE StartStep
    BY <2>3 DEF StartStep, StartBegin, ReplayBegin, ReplayJob, ReplayEnd, StartPool, MarkDirty,
       diskVars
  <2>4. CASE CloseStep
    BY <2>4 DEF CloseStep, CloseBegin, CloseFlush, CloseDrained, CloseExpired, CloseRetire,
       CloseCancel, CloseWait, diskVars
  <2>5. CASE TimerStep
    BY <2>5 DEF TimerStep, Fire, RetryFire, Prune, Persist, MarkDirty, diskVars
  <2>6. CASE UNCHANGED vars
    BY <2>6 DEF vars, diskVars
  <2> QED
    BY <1>1, <2>1, <2>2, <2>3, <2>4, <2>5, <2>6 DEF Next, Ended
<1>3. /\ \A id \in Ids : jobs[id].attempts \in Nat
      /\ MaxAttempts \in Nat \ {0}
  BY SyncEngineAssumption DEF IInv, TableOK, JobType
<1>4. life # "up" => todo = {} \/ life # "replaying"
  BY <1>2 DEF Budget, Replaying, NotWritten, IInv, RestType
<1>5. ASSUME NEW id \in Ids
      PROVE  /\ jobs'[id].attempts <= MaxAttempts
             /\ jobs'[id].state = "queued" => jobs'[id].attempts < MaxAttempts
  <2>1. InBudget(id)
    BY <1>2 DEF Budget, AttemptsWithinBudget, CallsWithinBudget, InBudget
  <2>2. \A j \in Ids : ~ReplayJob(j)
    BY <1>4 DEF ReplayJob, Alone
  <2> QED
    BY <1>1, <2>1, <2>2, StaysInBudget DEF InBudget
<1>6. ASSUME life' # "up"
      PROVE  jobs' = [id \in Ids |-> NoJob] /\ disk' = NotWritten /\ ~dirty'
  <2>1. life # "up"
    BY <1>1, <1>6, StaysUp
  <2>2. jobs = [id \in Ids |-> NoJob] /\ disk = NotWritten /\ ~dirty /\ ~pruner
    BY <1>2, <2>1 DEF Budget, Alone
  <2>3. CASE UNCHANGED vars
    BY <2>2, <2>3 DEF vars, tableVars, diskVars
  <2>4. CASE StartStep
    <3>1. \A id \in Ids : ~ReplayJob(id)
      BY <1>4, <2>1 DEF ReplayJob
    <3>2. ~(\E id \in Ids : disk[id].state # "absent")
      BY <2>2 DEF NotWritten
    <3> QED
      BY <1>6, <2>2, <2>4, <3>1, <3>2 DEF StartStep, StartBegin, ReplayBegin, ReplayEnd,
         StartPool, tableVars, diskVars
  <2>5. CASE TimerStep
    <3>1. \A id \in Ids : ~jobs[id].retry
      BY <2>2, NoJobType
    <3> QED
      BY <2>2, <2>5, <3>1 DEF TimerStep, Fire, RetryFire, Prune, Persist, tableVars, diskVars
  <2> QED
    BY <1>1, <2>1, <2>3, <2>4, <2>5, OnlyStart
<1> QED
  BY <1>5, <1>6 DEF Budget, AttemptsWithinBudget, CallsWithinBudget

-----------------------------------------------------------------------------
(* The life of a job.                                                      *)

LEMMA LifecycleStep ==
  ASSUME Careful, IInv, Unused, DeadListExact, DiskExact, Replaying, [Next]_vars, ~Crash
  PROVE  [Lifecycle!Next]_([id \in Ids |-> jobs[id].state])
<1>1. ASSUME NEW id \in Ids
      PROVE  /\ jobs'[id].state \in {"absent", "queued", "running"} \cup Lifecycle!Finished
             /\ \/ jobs'[id].state = jobs[id].state
                \/ Lifecycle!Edge(id, jobs[id].state, jobs'[id].state)
  <2>0. jobs[id].state \in States /\ disk[id].state \in States
    BY DEF IInv, TableOK, JobType, RestType, DocType
  <2>1. CASE Stays(id)
    BY <2>0, <2>1 DEF Stays, States, Lifecycle!Finished
  <2>2. CASE Starts(id) \/ Ends(id) \/ IsCancelled(id)
    BY <2>2 DEF Starts, Ends, IsCancelled, Lifecycle!Edge, Lifecycle!Transitions,
       Lifecycle!Finished
  <2>3. CASE IsRetried(id)
    <3>1. jobs[id].state = "failed"
      BY <2>3 DEF IsRetried, DeadListExact
    <3> QED
      BY <2>3, <3>1 DEF IsRetried, Lifecycle!Edge, Lifecycle!Transitions
  <2>4. CASE Goes(id)
    BY <2>4, NoJobType DEF Goes, Lifecycle!Edge, Lifecycle!Forgotten, Lifecycle!Finished
  <2>5. CASE IsEnqueued(id)
    <3>1. /\ jobs'[id].state = "queued" /\ jobs[id].state \in {"absent", "done", "cancelled"}
          /\ jobs[id].state # "absent" => id \in StableIds
      BY <2>5, EnqueuedIsNew, NewJobType DEF IsEnqueued
    <3> QED
      BY <3>1 DEF Lifecycle!Edge, Lifecycle!Appears, Lifecycle!Replaced, Lifecycle!Finished
  <2>6. CASE IsReplayed(id)
    <3>1. jobs[id].state = "absent" /\ disk[id].state # "absent"
      BY <2>6 DEF IsReplayed, ReplayJob, Replaying
    <3>2. jobs'[id].state \in {"queued"} \cup {"done", "failed", "cancelled"}
      BY <2>0, <2>6, <3>1, ReplayedFrom DEF IsReplayed, States
    <3> QED
      BY <3>1, <3>2 DEF Lifecycle!Edge, Lifecycle!Appears, Lifecycle!Finished
  <2> QED
    BY <2>1, <2>2, <2>3, <2>4, <2>5, <2>6, NextRecords DEF RecordSteps, RecordStep
<1> DEFINE now == [id \in Ids |-> jobs[id].state]
<1>2. \A id \in Ids : now[id] = jobs[id].state /\ now'[id] = jobs'[id].state
  OBVIOUS
<1>3. now' \in [Ids -> {"absent", "queued", "running"} \cup Lifecycle!Finished]
  BY <1>1
<1> QED
  BY <1>1, <1>2, <1>3 DEF Lifecycle!Next

(* However often its ids are used again, until the process has died once   *)
(* no job counts more attempts than MaxAttempts, and a queued job has one  *)
(* left.                                                                   *)
THEOREM EngineKeepsBudget ==
  ASSUME StartAlone
  PROVE  Spec => [](crashes = 0 => AttemptsWithinBudget)
<1>1. Init => Budget
  BY SyncEngineAssumption DEF Init, Budget, AttemptsWithinBudget, CallsWithinBudget, NoJob
<1>2. StartedInv /\ Budget /\ [Next]_vars => Budget'
  BY BudgetKeeps DEF StartedInv, Reading
<1>3. Budget => (crashes = 0 => AttemptsWithinBudget)
  BY DEF Budget
<1> QED
  BY <1>1, <1>2, <1>3, StartedInvariant, PTL DEF Spec

-----------------------------------------------------------------------------
(* The invariant of an engine whose ids are used again with care.          *)
OnceInv == StartedInv /\ Unused /\ DeadListExact /\ DiskExact /\ Fenced

LEMMA OnceInit == Init => Unused /\ DeadListExact /\ DiskExact /\ Fenced
<1> SUFFICES ASSUME Init PROVE Unused /\ DeadListExact /\ DiskExact /\ Fenced
  OBVIOUS
<1>1. Unused /\ Fenced
  BY NoJobType DEF Init, Unused, Fenced, NoWork
<1>2. DeadListExact
  <2>1. ToSet(dead) = {} /\ Len(dead) = 0 /\ DOMAIN dead = {}
    BY DEF Init, ToSet
  <2> QED
    BY <2>1, NoJobType, SyncEngineAssumption DEF Init, DeadListExact
<1>3. DiskExact
  <2>1. OnDisk = {} /\ \A id \in Ids : disk[id].state = "absent" /\ disk[id].listed = FALSE
    BY DEF Init, NotWritten, OnDisk
  <2> QED
    BY <2>1, FS_EmptySet, SyncEngineAssumption DEF DiskExact
<1> QED
  BY <1>1, <1>2, <1>3

(* A step that changes nothing enqueues nothing.                           *)
LEMMA CarefulStep ==
  ASSUME IInv, [Careful]_vars
  PROVE  Careful
<1> SUFFICES ASSUME UNCHANGED vars, NEW id \in Ids, Enqueue(id) PROVE FALSE
  BY DEF Careful
<1>1. used[id] \in Nat /\ used'[id] = used[id] + 1
  BY DEF Enqueue, IInv, RestType
<1>2. used' = used
  BY DEF vars
<1> QED
  BY <1>1, <1>2

LEMMA OnceInvariant ==
  ASSUME StartAlone
  PROVE  Spec /\ CarefulReuse => []OnceInv
<1>1. Init => OnceInv
  BY InitHolds, StartedInit, OnceInit DEF OnceInv, StartedInv
<1>2. OnceInv /\ [Next]_vars /\ [Careful]_vars => OnceInv'
  <2> SUFFICES ASSUME OnceInv, [Next]_vars, [Careful]_vars PROVE OnceInv'
    OBVIOUS
  <2>1. Careful
    BY CarefulStep DEF OnceInv, StartedInv
  <2>2. StartedInv'
    BY NextKeeps, AloneKeeps, SizedKeeps, QuietStep, ReadingKeeps DEF OnceInv, StartedInv, Reading
  <2> QED
    BY <2>1, <2>2, UnusedKeeps, DeadListKeeps, DiskKeeps, FencedKeeps
       DEF OnceInv, StartedInv, Reading
<1> QED
  BY <1>1, <1>2, PTL DEF Spec, CarefulReuse

(* The dead-letter list names exactly the failed jobs, each once, and      *)
(* never more than its size, across evictions, retries and restarts and    *)
(* with ids that are used again, as long as that is done with care.        *)
THEOREM EngineDeadListIsExact ==
  ASSUME StartAlone
  PROVE  Spec /\ CarefulReuse => []DeadListExact
<1>1. OnceInv => DeadListExact
  BY DEF OnceInv
<1> QED
  BY <1>1, OnceInvariant, PTL

(* With the same care a result is applied only by the handler call that    *)
(* began the newest attempt, which is the call that Cancel would cancel.   *)
THEOREM EngineFencesResults ==
  ASSUME StartAlone
  PROVE  Spec /\ CarefulReuse => []ResultsFenced
<1>1. OnceInv => ResultsFenced
  <2> SUFFICES ASSUME OnceInv, NEW w \in Workers, NEW id \in workers[w].jobs, ~Superseded(w, id)
               PROVE  jobs[id].cancel \in {w, NoWorker}
    BY DEF ResultsFenced
  <2>1. workers[w].stamps[id] = jobs[id].gen /\ jobs[id].state = "running"
    BY DEF Superseded
  <2>2. id \in Ids /\ jobs[id].gen \in Nat
    BY DEF OnceInv, StartedInv, IInv, PoolOK, WorkType, TableOK, JobType
  <2> QED
    BY <2>1, <2>2 DEF OnceInv, Fenced, Guards
<1> QED
  BY <1>1, OnceInvariant, PTL

(* With the same care and no death, every step of the engine is, for each  *)
(* job, a step of the life drawn in job.go or none: the engine implements  *)
(* JobLifecycle.                                                           *)
THEOREM EngineRefinesLifecycle ==
  ASSUME StartAlone, MaxCrashes = 0
  PROVE  Spec /\ CarefulReuse => LifecycleRefined
<1>1. Init => Lifecycle!Init
  BY NoJobType DEF Init, Lifecycle!Init
<1>2. OnceInv /\ [Next]_vars /\ [Careful]_vars
        => [Lifecycle!Next]_([id \in Ids |-> jobs[id].state])
  <2>1. OnceInv => ~Crash
    BY DEF OnceInv, StartedInv, IInv, RestType, Crash
  <2> QED
    BY <2>1, LifecycleStep, CarefulStep DEF OnceInv, StartedInv, Reading
<1> QED
  BY <1>1, <1>2, OnceInvariant, PTL DEF Spec, CarefulReuse, LifecycleRefined, Lifecycle!Spec
=============================================================================
