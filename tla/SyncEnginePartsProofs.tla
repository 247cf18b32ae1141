----------------------- MODULE SyncEnginePartsProofs ------------------------
(***************************************************************************)
(* The three parts beside the queue of the job engine.  Each has a state   *)
(* of its own and is proved about by itself, for any values of its         *)
(* constants:                                                              *)
(*   - the announcer: OnJob is called by one goroutine at a time, no turn  *)
(*     is lost, and the observer hears the changes in their order;         *)
(*   - the journal: it is never left unreadable, and no announced change   *)
(*     is forgotten;                                                       *)
(*   - the limiter: the rate is kept, because what got through and what    *)
(*     the bucket could still give at once never exceed the burst and what *)
(*     the window earned.                                                  *)
(***************************************************************************)
EXTENDS Announcer, SyncJournal, RateLimiter, SequenceTheorems, TLAPS

-----------------------------------------------------------------------------
(* THE ANNOUNCER                                                           *)
-----------------------------------------------------------------------------
(* The shape of the state the argument needs.                              *)
Shape == /\ issued \in Nat
         /\ next \in Nat
         /\ next <= issued
         /\ pc \in [Procs -> {"idle", "waiting", "announcing"}]
         /\ turn \in [Procs -> Nat]
         /\ DOMAIN jobs = Procs

(* A goroutine that is not idle holds a turn of its own that is still to   *)
(* be passed on, and the one that announces holds the current turn.        *)
TurnsApart ==
    /\ \A p \in Procs : pc[p] # "idle" => turn[p] \in next..(issued - 1)
    /\ \A p \in Procs : pc[p] = "announcing" => turn[p] = next
    /\ \A p, q \in Procs :
          pc[p] # "idle" /\ pc[q] # "idle" /\ turn[p] = turn[q] => p = q

TurnHeld == \A t \in next..(issued - 1) : \E p \in Procs : Holds(p, t)

IInv == Shape /\ TurnsApart /\ TurnHeld

LEMMA IInvInit == Init => IInv
  BY DEF Init, IInv, Shape, TurnsApart, TurnHeld

LEMMA ReserveKeepsIInv ==
  ASSUME IInv, NEW p \in Procs, ReserveLocked(p)
  PROVE  IInv'
<1> USE DEF IInv
<1>1. Shape'
  BY DEF Shape, ReserveLocked
<1>2. TurnsApart'
  BY DEF Shape, TurnsApart, ReserveLocked
<1>3. TurnHeld'
  <2>1. \A t \in next..(issued - 1) : \E q \in Procs : q # p /\ Holds(q, t)
    BY DEF Shape, TurnHeld, Holds, ReserveLocked
  <2>2. SUFFICES ASSUME NEW t \in next..issued
                PROVE  \E q \in Procs : Holds(q, t)'
    BY DEF Shape, TurnHeld, ReserveLocked
  <2>3. CASE t = issued
    <3>1. Holds(p, t)'
      BY <2>3 DEF Shape, Holds, ReserveLocked
    <3> QED
      BY <3>1
  <2>4. CASE t # issued
    <3>1. t \in next..(issued - 1)
      BY <2>2, <2>4 DEF Shape
    <3>2. PICK q \in Procs : q # p /\ Holds(q, t)
      BY <2>1, <3>1
    <3>3. Holds(q, t)'
      BY <3>2 DEF Shape, Holds, ReserveLocked
    <3> QED
      BY <3>3
  <2> QED
    BY <2>3, <2>4
<1> QED
  BY <1>1, <1>2, <1>3

LEMMA AwaitKeepsIInv ==
  ASSUME IInv, NEW p \in Procs, AwaitTurn(p)
  PROVE  IInv'
  BY DEF IInv, Shape, TurnsApart, TurnHeld, Holds, AwaitTurn

LEMMA OnJobKeepsIInv ==
  ASSUME IInv, NEW p \in Procs, OnJob(p)
  PROVE  IInv'
  BY DEF IInv, Shape, TurnsApart, TurnHeld, Holds, OnJob

LEMMA PassKeepsIInv ==
  ASSUME IInv, NEW p \in Procs, PassTurn(p)
  PROVE  IInv'
<1> USE DEF IInv
<1>1. next = turn[p] /\ next < issued
  BY DEF Shape, TurnsApart, PassTurn
<1>2. Shape'
  BY <1>1 DEF Shape, PassTurn
<1>3. TurnsApart'
  BY <1>1 DEF Shape, TurnsApart, PassTurn
<1>4. TurnHeld'
  BY <1>1 DEF Shape, TurnHeld, Holds, PassTurn
<1> QED
  BY <1>2, <1>3, <1>4

LEMMA IInvStep == IInv /\ [Next]_vars => IInv'
<1> SUFFICES ASSUME IInv, [Next]_vars PROVE IInv'
  OBVIOUS
<1>1. CASE \E p \in Procs : ReserveLocked(p) \/ AwaitTurn(p) \/ OnJob(p) \/ PassTurn(p)
  BY <1>1, ReserveKeepsIInv, AwaitKeepsIInv, OnJobKeepsIInv, PassKeepsIInv
<1>2. CASE Quiet \/ UNCHANGED vars
  BY <1>2 DEF Quiet, vars, IInv, Shape, TurnsApart, TurnHeld, Holds
<1> QED
  BY <1>1, <1>2 DEF Next

LEMMA IInvSuffices == IInv => OneAtATime
  BY DEF IInv, Shape, TurnsApart, TurnHeld, OneAtATime, NeverTwoAnnouncing,
         EveryTurnHeld, Holds

(* In every run, however many goroutines announce however many changes, at *)
(* most one of them is inside OnJob and every turn still to come is held   *)
(* by exactly one goroutine.                                               *)
THEOREM AnnounceOneAtATime == Spec => []OneAtATime
  BY IInvInit, IInvStep, IInvSuffices, PTL DEF Spec
-----------------------------------------------------------------------------
(* The refinement.  Turn t ends in made at off[t + 1]; what a goroutine    *)
(* has still to announce is a part of made, and the one whose turn it is   *)
(* goes on where heard ends.                                               *)
Job == (0..MaxTurns) \X (1..MaxJobs)

Rest(p, from, to) ==
    /\ jobs[p] \in Seq(Job)
    /\ from \in Nat /\ to = from + Len(jobs[p]) /\ to <= Len(made)
    /\ \A i \in 1..Len(jobs[p]) : jobs[p][i] = made[from + i]

Placed(off) ==
    /\ off \in [Nat -> Nat]
    /\ off[issued] = Len(made)
    /\ \A p \in Procs : pc[p] = "waiting" => Rest(p, off[turn[p]], off[turn[p] + 1])
    /\ \A p \in Procs : pc[p] = "announcing" => Rest(p, Len(heard), off[next + 1])
    /\ (\A p \in Procs : pc[p] # "announcing") => Len(heard) = off[next]

OInv == /\ IInv
        /\ issued <= MaxTurns
        /\ made \in Seq(Job) /\ heard \in Seq(Job)
        /\ \E off : Placed(off)

LEMMA ChangeIsSeq ==
  ASSUME NEW n \in 0..MaxJobs, NEW t \in 0..MaxTurns
  PROVE  ChangeOf(t, n) \in Seq(Job) /\ Len(ChangeOf(t, n)) = n
<1>1. n \in Nat /\ \A i \in 1..n : <<t, i>> \in Job
  BY AnnouncerAssumption DEF Job
<1>2. ChangeOf(t, n) \in [1..n -> Job]
  BY <1>1 DEF ChangeOf
<1> HIDE DEF ChangeOf
<1> QED
  BY <1>1, <1>2

LEMMA ConcatFacts ==
  ASSUME NEW s \in Seq(Job), NEW c \in Seq(Job)
  PROVE  /\ s \o c \in Seq(Job)
         /\ Len(s \o c) = Len(s) + Len(c)
         /\ \A i \in 1..Len(s) : (s \o c)[i] = s[i]
         /\ \A i \in 1..Len(c) : (s \o c)[Len(s) + i] = c[i]
<1>1. s \o c \in Seq(Job) /\ Len(s \o c) = Len(s) + Len(c)
  BY ConcatProperties
<1>2. \A i \in 1..(Len(s) + Len(c)) :
         (s \o c)[i] = IF i <= Len(s) THEN s[i] ELSE c[i - Len(s)]
  BY ConcatProperties
<1>3. Len(s) \in Nat /\ Len(c) \in Nat
  OBVIOUS
<1>4. ASSUME NEW i \in 1..Len(c) PROVE (s \o c)[Len(s) + i] = c[i]
  <2>1. /\ Len(s) + i \in 1..(Len(s) + Len(c)) /\ ~(Len(s) + i <= Len(s))
        /\ (Len(s) + i) - Len(s) = i
    BY <1>3
  <2> QED
    BY <1>2, <2>1
<1>5. \A i \in 1..Len(s) : (s \o c)[i] = s[i]
  BY <1>2, <1>3
<1> QED
  BY <1>1, <1>4, <1>5

LEMMA OInvInit == Init => OInv
<1> SUFFICES ASSUME Init PROVE OInv
  OBVIOUS
<1>1. Placed([t \in Nat |-> 0])
  BY DEF Init, Placed
<1> QED
  BY <1>1, IInvInit, AnnouncerAssumption DEF Init, OInv

(* What every step can use of the state.                                   *)
LEMMA TurnFacts ==
  ASSUME OInv
  PROVE  /\ issued \in Nat /\ next \in Nat /\ next <= issued
         /\ \A q \in Procs : pc[q] # "idle" =>
               turn[q] \in Nat /\ next <= turn[q] /\ turn[q] + 1 <= issued
         /\ \A q \in Procs : pc[q] = "announcing" => turn[q] = next
  BY DEF OInv, IInv, Shape, TurnsApart

LEMMA OFacts ==
  ASSUME OInv
  PROVE  /\ \A p, q \in Procs : pc[p] # "idle" /\ pc[q] # "idle" /\ turn[p] = turn[q] => p = q
         /\ \A q \in Procs : pc[q] = "announcing" => turn[q] = next
         /\ pc \in [Procs -> {"idle", "waiting", "announcing"}]
         /\ turn \in [Procs -> Nat]
         /\ DOMAIN jobs = Procs
  BY DEF OInv, IInv, Shape, TurnsApart

LEMMA SeqFacts ==
  ASSUME OInv
  PROVE  /\ made \in Seq(Job) /\ heard \in Seq(Job)
         /\ issued <= MaxTurns /\ MaxTurns \in Nat /\ issued \in Nat
  BY AnnouncerAssumption DEF OInv, IInv, Shape

LEMMA LenFacts == OInv => Len(made) \in Nat /\ Len(heard) \in Nat
  BY SeqFacts

(* A change that is made moves nothing that was made before it.            *)
LEMMA RestStays ==
  ASSUME NEW q \in Procs, NEW CONSTANT from, NEW CONSTANT to, Rest(q, from, to),
         jobs'[q] = jobs[q], Len(made) \in Nat, Len(made') \in Nat,
         Len(made) <= Len(made'),
         \A i \in 1..Len(made) : made'[i] = made[i]
  PROVE  Rest(q, from, to)'
<1>1. /\ jobs[q] \in Seq(Job)
      /\ from \in Nat /\ to = from + Len(jobs[q]) /\ to <= Len(made)
      /\ \A i \in 1..Len(jobs[q]) : jobs[q][i] = made[from + i]
  BY DEF Rest
<1>2. Len(jobs[q]) \in Nat
  BY <1>1
<1>3. to <= Len(made')
  BY <1>1, <1>2
<1>4. ASSUME NEW i \in 1..Len(jobs[q]) PROVE jobs[q][i] = made'[from + i]
  <2>1. from + i \in 1..Len(made)
    BY <1>1, <1>2
  <2> QED
    BY <1>1, <2>1
<1> QED
  BY <1>1, <1>3, <1>4 DEF Rest

(* The part may begin where heard ends, which such a change leaves alone.  *)
LEMMA RestFromHeardStays ==
  ASSUME NEW q \in Procs, NEW CONSTANT to, Rest(q, Len(heard), to), UNCHANGED heard,
         jobs'[q] = jobs[q], Len(made) \in Nat, Len(made') \in Nat,
         Len(made) <= Len(made'),
         \A i \in 1..Len(made) : made'[i] = made[i]
  PROVE  Rest(q, Len(heard), to)'
<1>1. /\ jobs[q] \in Seq(Job)
      /\ Len(heard) \in Nat /\ to = Len(heard) + Len(jobs[q]) /\ to <= Len(made)
      /\ \A i \in 1..Len(jobs[q]) : jobs[q][i] = made[Len(heard) + i]
  BY DEF Rest
<1>2. Len(jobs[q]) \in Nat
  BY <1>1
<1>3. to <= Len(made')
  BY <1>1, <1>2
<1>4. ASSUME NEW i \in 1..Len(jobs[q]) PROVE jobs[q][i] = made'[Len(heard) + i]
  <2>1. Len(heard) + i \in 1..Len(made)
    BY <1>1, <1>2
  <2> QED
    BY <1>1, <2>1
<1> QED
  BY <1>1, <1>3, <1>4 DEF Rest

LEMMA ReserveKeepsOInv ==
  ASSUME OInv, NEW p \in Procs, ReserveLocked(p)
  PROVE  OInv'
<1>1. IInv'
  BY ReserveKeepsIInv DEF OInv
<1>2. PICK n \in 0..MaxJobs : /\ jobs' = [jobs EXCEPT ![p] = ChangeOf(issued, n)]
                              /\ made' = made \o ChangeOf(issued, n)
  BY DEF ReserveLocked
<1>3. /\ issued < MaxTurns /\ issued' = issued + 1 /\ UNCHANGED <<next, heard>>
      /\ pc[p] = "idle" /\ pc' = [pc EXCEPT ![p] = "waiting"]
      /\ turn' = [turn EXCEPT ![p] = issued]
  BY DEF ReserveLocked
<1>4. /\ ChangeOf(issued, n) \in Seq(Job) /\ Len(ChangeOf(issued, n)) = n /\ n \in Nat
  BY <1>3, SeqFacts, ChangeIsSeq, AnnouncerAssumption
<1>4a. Len(made) \in Nat
  BY LenFacts
<1>4b. /\ made \o ChangeOf(issued, n) \in Seq(Job)
       /\ Len(made \o ChangeOf(issued, n)) = Len(made) + n
       /\ \A i \in 1..Len(made) : (made \o ChangeOf(issued, n))[i] = made[i]
       /\ \A i \in 1..n : (made \o ChangeOf(issued, n))[Len(made) + i] = ChangeOf(issued, n)[i]
  <2> DEFINE change == ChangeOf(issued, n)
  <2>1. made \in Seq(Job) /\ change \in Seq(Job) /\ Len(change) = n
    BY <1>4, SeqFacts
  <2> HIDE DEF change
  <2>2. /\ made \o change \in Seq(Job)
        /\ Len(made \o change) = Len(made) + Len(change)
        /\ \A i \in 1..Len(made) : (made \o change)[i] = made[i]
        /\ \A i \in 1..Len(change) : (made \o change)[Len(made) + i] = change[i]
    BY <2>1, ConcatFacts, Zenon
  <2>3. /\ made \o change \in Seq(Job)
        /\ Len(made \o change) = Len(made) + n
        /\ \A i \in 1..Len(made) : (made \o change)[i] = made[i]
        /\ \A i \in 1..n : (made \o change)[Len(made) + i] = change[i]
    BY <2>1, <2>2, Zenon
  <2> QED
    BY <2>3 DEF change
<1>5. /\ made' \in Seq(Job)
      /\ Len(made') = Len(made) + n
      /\ \A i \in 1..Len(made) : made'[i] = made[i]
      /\ \A i \in 1..n : made'[Len(made) + i] = ChangeOf(issued, n)[i]
  BY <1>2, <1>4b
<1>5a. Len(made') \in Nat /\ Len(made) <= Len(made')
  BY <1>4, <1>4a, <1>5
<1>6. PICK off : Placed(off)
  BY DEF OInv
<1>7. PICK new \in [Nat -> Nat] : /\ new[issued + 1] = Len(made) + n
                                /\ \A t \in 0..issued : new[t] = off[t]
  <2>1. /\ off \in [Nat -> Nat] /\ issued + 1 \in Nat /\ Len(made) + n \in Nat
        /\ \A t \in 0..issued : t \in Nat /\ t # issued + 1
    <3>1. off \in [Nat -> Nat]
      BY <1>6 DEF Placed
    <3>2. issued \in Nat
      BY TurnFacts
    <3>3. n \in Nat
      BY <1>4
    <3>4. Len(made) + n \in Nat
      BY <1>4a, <3>3
    <3> QED
      BY <3>1, <3>2, <3>4
  <2> DEFINE moved == [off EXCEPT ![issued + 1] = Len(made) + n]
  <2>2. /\ moved \in [Nat -> Nat] /\ moved[issued + 1] = Len(made) + n
        /\ \A t \in 0..issued : moved[t] = off[t]
    BY <2>1
  <2> QED
    BY <2>2
<1>8. ASSUME NEW q \in Procs, pc'[q] = "waiting"
      PROVE  Rest(q, new[turn[q]], new[turn[q] + 1])'
  <2>1. CASE q = p
    <3>1. turn'[q] = issued /\ jobs'[q] = ChangeOf(issued, n)
      BY <1>2, <1>3, <2>1, OFacts
    <3>2. new[issued] = Len(made)
      <4>1. off[issued] = Len(made)
        BY <1>6 DEF Placed
      <4>2. issued \in 0..issued
        BY TurnFacts
      <4> QED
        BY <1>7, <4>1, <4>2
    <3>3. \A i \in 1..n : jobs'[q][i] = made'[Len(made) + i]
      BY <1>5, <3>1
    <3>4. /\ jobs'[q] \in Seq(Job) /\ Len(jobs'[q]) = n /\ n \in Nat
          /\ new[turn'[q]] = Len(made) /\ new[turn'[q] + 1] = Len(made')
      BY <1>4, <1>5, <1>7, <3>1, <3>2
    <3> QED
      BY <1>4a, <1>5, <3>3, <3>4 DEF Rest
  <2>2. CASE q # p
    <3>1. pc[q] = "waiting" /\ turn'[q] = turn[q] /\ jobs'[q] = jobs[q]
      BY <1>2, <1>3, <1>8, <2>2, OFacts
    <3>2. turn[q] \in 0..issued /\ turn[q] + 1 \in 0..issued
      BY <3>1, TurnFacts
    <3>3. Rest(q, off[turn[q]], off[turn[q] + 1])
      BY <1>6, <3>1 DEF Placed
    <3>4. new[turn[q]] = off[turn[q]] /\ new[turn[q] + 1] = off[turn[q] + 1]
      BY <1>7, <3>2
    <3>5. Rest(q, off[turn[q]], off[turn[q] + 1])'
      BY <1>4a, <1>5a, <1>5, <3>1, <3>3, RestStays
    <3> QED
      BY <3>1, <3>4, <3>5 DEF Rest
  <2> QED
    BY <2>1, <2>2
<1>9. ASSUME NEW q \in Procs, pc'[q] = "announcing"
      PROVE  Rest(q, Len(heard), new[next + 1])'
  <2>1. q # p /\ pc[q] = "announcing" /\ jobs'[q] = jobs[q]
    BY <1>2, <1>3, <1>9, OFacts
  <2>2. next + 1 \in 0..issued
    BY <2>1, TurnFacts
  <2>3. Rest(q, Len(heard), off[next + 1])
    BY <1>6, <2>1 DEF Placed
  <2>4. new[next + 1] = off[next + 1] /\ UNCHANGED <<next, heard>>
    BY <1>3, <1>7, <2>2
  <2>5. Rest(q, Len(heard), off[next + 1])'
    BY <1>4a, <1>5a, <1>5, <2>1, <2>3, <2>4, RestFromHeardStays
  <2> QED
    BY <2>4, <2>5 DEF Rest
<1>10. (\A q \in Procs : pc'[q] # "announcing") => Len(heard') = new[next']
  <2>1. ASSUME \A q \in Procs : pc'[q] # "announcing"
        PROVE  \A q \in Procs : pc[q] # "announcing"
    BY <1>3, <2>1, OFacts
  <2>2. next \in 0..issued
    BY TurnFacts
  <2> QED
    BY <1>3, <1>6, <1>7, <2>1, <2>2 DEF Placed
<1>11. Placed(new)'
  BY <1>3, <1>5, <1>7, <1>8, <1>9, <1>10 DEF Placed
<1>12. issued' <= MaxTurns /\ heard' \in Seq(Job)
  BY <1>3, SeqFacts
<1> QED
  BY <1>1, <1>5, <1>11, <1>12 DEF OInv

LEMMA AwaitKeepsOInv ==
  ASSUME OInv, NEW p \in Procs, AwaitTurn(p)
  PROVE  OInv'
<1>1. IInv'
  BY AwaitKeepsIInv DEF OInv
<1>2. /\ pc[p] = "waiting" /\ next = turn[p] /\ pc' = [pc EXCEPT ![p] = "announcing"]
      /\ UNCHANGED <<issued, next, turn, jobs, made, heard>>
  BY DEF AwaitTurn
<1>3. PICK off : Placed(off)
  BY DEF OInv
<1>4. \A q \in Procs : pc[q] # "announcing"
  BY <1>2, OFacts
<1>5. Len(heard) = off[turn[p]] /\ Rest(p, off[turn[p]], off[turn[p] + 1])
  BY <1>2, <1>3, <1>4 DEF Placed
<1>6. ASSUME NEW q \in Procs, pc'[q] = "announcing"
      PROVE  Rest(q, Len(heard), off[next + 1])'
  <2>1. q = p
    BY <1>2, <1>4, <1>6, OFacts
  <2> QED
    BY <1>2, <1>5, <2>1 DEF Rest
<1>7. ASSUME NEW q \in Procs, pc'[q] = "waiting"
      PROVE  Rest(q, off[turn[q]], off[turn[q] + 1])'
  <2>1. pc[q] = "waiting"
    BY <1>2, <1>7, OFacts
  <2> QED
    BY <1>2, <1>3, <2>1 DEF Placed, Rest
<1>8. pc'[p] = "announcing"
  BY <1>2, OFacts
<1>9. Placed(off)'
  BY <1>2, <1>3, <1>6, <1>7, <1>8 DEF Placed
<1> QED
  BY <1>1, <1>2, <1>9, SeqFacts DEF OInv

LEMMA OnJobKeepsOInv ==
  ASSUME OInv, NEW p \in Procs, OnJob(p)
  PROVE  /\ OInv'
         /\ Len(heard) < Len(made)
         /\ heard' = Append(heard, made[Len(heard) + 1])
<1>1. IInv'
  BY OnJobKeepsIInv DEF OInv
<1>2. /\ pc[p] = "announcing" /\ jobs[p] # <<>>
      /\ heard' = Append(heard, Head(jobs[p])) /\ jobs' = [jobs EXCEPT ![p] = Tail(jobs[p])]
      /\ UNCHANGED <<issued, next, pc, turn, made>>
  BY DEF OnJob
<1>3. PICK off : Placed(off)
  BY DEF OInv
<1>4. Rest(p, Len(heard), off[next + 1])
  BY <1>2, <1>3 DEF Placed
<1>5. /\ jobs[p] \in Seq(Job) /\ Len(jobs[p]) \in Nat \ {0} /\ Len(heard) \in Nat
      /\ Len(made) \in Nat
  BY <1>2, <1>4, SeqFacts DEF Rest
<1>6. /\ Len(heard) < Len(made)
      /\ Head(jobs[p]) = made[Len(heard) + 1] /\ Head(jobs[p]) \in Job
      /\ Tail(jobs[p]) \in Seq(Job) /\ Len(Tail(jobs[p])) = Len(jobs[p]) - 1
      /\ \A i \in 1..(Len(jobs[p]) - 1) : Tail(jobs[p])[i] = jobs[p][i + 1]
  BY <1>4, <1>5 DEF Rest
<1>7. heard' \in Seq(Job) /\ Len(heard') = Len(heard) + 1
  BY <1>2, <1>5, <1>6, SeqFacts
<1>8. ASSUME NEW q \in Procs, pc'[q] = "announcing"
      PROVE  Rest(q, Len(heard), off[next + 1])'
  <2>1. q = p
    BY <1>2, <1>8, OFacts
  <2>2. jobs'[q] = Tail(jobs[p])
    BY <1>2, <2>1, OFacts
  <2>3. /\ off[next + 1] = Len(heard) + Len(jobs[p]) /\ off[next + 1] <= Len(made)
        /\ \A i \in 1..Len(jobs[p]) : jobs[p][i] = made[Len(heard) + i]
    BY <1>4 DEF Rest
  <2>4. off[next + 1] = Len(heard') + Len(jobs'[q]) /\ Len(heard') \in Nat
    <3>1. Len(jobs'[q]) = Len(jobs[p]) - 1
      BY <1>6, <2>2
    <3>2. off[next + 1] = Len(heard) + Len(jobs[p])
      BY <2>3
    <3>3. PICK a \in Nat, b \in Nat : a = Len(heard) /\ b = Len(jobs[p])
      BY <1>5
    <3>4. Len(heard') = a + 1 /\ Len(jobs'[q]) = b - 1 /\ off[next + 1] = a + b
      BY <1>7, <3>1, <3>2, <3>3
    <3>5. a + b = (a + 1) + (b - 1) /\ a + 1 \in Nat
      OBVIOUS
    <3> QED
      BY <3>4, <3>5
  <2>5. ASSUME NEW i \in 1..Len(jobs'[q]) PROVE jobs'[q][i] = made[Len(heard') + i]
    <3>1. /\ i \in 1..(Len(jobs[p]) - 1) /\ i + 1 \in 1..Len(jobs[p])
          /\ Len(heard') + i = Len(heard) + (i + 1)
      BY <1>5, <1>6, <1>7, <2>2
    <3> QED
      BY <1>6, <2>2, <2>3, <3>1
  <2> QED
    BY <1>2, <1>6, <2>2, <2>3, <2>4, <2>5 DEF Rest
<1>9. ASSUME NEW q \in Procs, pc'[q] = "waiting"
      PROVE  Rest(q, off[turn[q]], off[turn[q] + 1])'
  <2>1. pc[q] = "waiting" /\ jobs'[q] = jobs[q]
    BY <1>2, <1>9, OFacts
  <2> QED
    BY <1>2, <1>3, <2>1 DEF Placed, Rest
<1>10. Placed(off)'
  BY <1>2, <1>3, <1>8, <1>9 DEF Placed
<1> QED
  BY <1>1, <1>2, <1>6, <1>7, <1>10, SeqFacts DEF OInv

LEMMA PassKeepsOInv ==
  ASSUME OInv, NEW p \in Procs, PassTurn(p)
  PROVE  OInv'
<1>1. IInv'
  BY PassKeepsIInv DEF OInv
<1>2. /\ pc[p] = "announcing" /\ jobs[p] = <<>> /\ next' = next + 1
      /\ pc' = [pc EXCEPT ![p] = "idle"]
      /\ UNCHANGED <<issued, turn, jobs, made, heard>>
  BY DEF PassTurn
<1>3. PICK off : Placed(off)
  BY DEF OInv
<1>4. Len(heard) = off[next + 1]
  <2>1. Rest(p, Len(heard), off[next + 1])
    BY <1>2, <1>3 DEF Placed
  <2>2. Len(jobs[p]) = 0
    BY <1>2
  <2> QED
    BY <2>1, <2>2, SeqFacts DEF Rest
<1>5. \A q \in Procs : pc'[q] # "announcing"
  BY <1>2, OFacts
<1>6. ASSUME NEW q \in Procs, pc'[q] = "waiting"
      PROVE  Rest(q, off[turn[q]], off[turn[q] + 1])'
  <2>1. pc[q] = "waiting"
    BY <1>2, <1>6, OFacts
  <2> QED
    BY <1>2, <1>3, <2>1 DEF Placed, Rest
<1>7. Placed(off)'
  BY <1>2, <1>3, <1>4, <1>5, <1>6 DEF Placed
<1> QED
  BY <1>1, <1>2, <1>7, SeqFacts DEF OInv

LEMMA StutterKeepsOInv == OInv /\ UNCHANGED vars => OInv'
<1> SUFFICES ASSUME OInv, UNCHANGED vars PROVE OInv'
  OBVIOUS
<1>1. IInv'
  BY IInvStep DEF OInv
<1>2. PICK off : Placed(off)
  BY DEF OInv
<1>3. Placed(off)'
  BY <1>2 DEF Placed, Rest, vars
<1> QED
  BY <1>1, <1>3 DEF OInv, vars

(* Every step of the announcer is a step of the log, or none.              *)
LEMMA OInvStep == OInv /\ [Next]_vars => OInv' /\ [Ordered!Next]_<<made, heard>>
<1> SUFFICES ASSUME OInv, [Next]_vars PROVE OInv' /\ [Ordered!Next]_<<made, heard>>
  OBVIOUS
<1>1. CASE \E p \in Procs : ReserveLocked(p)
  <2>1. PICK p \in Procs : ReserveLocked(p)
    BY <1>1
  <2>2. issued \in 0..MaxTurns
    BY SeqFacts
  <2>3. Ordered!Make
    BY <2>1, <2>2 DEF ReserveLocked, Ordered!Make
  <2> QED
    BY <2>1, <2>3, ReserveKeepsOInv DEF Ordered!Next
<1>2. CASE \E p \in Procs : AwaitTurn(p)
  <2>1. PICK p \in Procs : AwaitTurn(p)
    BY <1>2
  <2> QED
    BY <2>1, AwaitKeepsOInv DEF AwaitTurn
<1>3. CASE \E p \in Procs : OnJob(p)
  <2>1. PICK p \in Procs : OnJob(p)
    BY <1>3
  <2>2. Ordered!Hear
    BY <2>1, OnJobKeepsOInv DEF OnJob, Ordered!Hear
  <2> QED
    BY <2>1, <2>2, OnJobKeepsOInv DEF Ordered!Next
<1>4. CASE \E p \in Procs : PassTurn(p)
  <2>1. PICK p \in Procs : PassTurn(p)
    BY <1>4
  <2> QED
    BY <2>1, PassKeepsOInv DEF PassTurn
<1>5. CASE Quiet \/ UNCHANGED vars
  BY <1>5, StutterKeepsOInv DEF Quiet, vars
<1> QED
  BY <1>1, <1>2, <1>3, <1>4, <1>5 DEF Next

(* However many goroutines announce however many changes, the observer     *)
(* hears exactly the changes made, one by one and in their order: the      *)
(* announcer implements OrderedLog.                                        *)
THEOREM AnnouncedInOrder == Spec => HeardInOrder
<1>1. Init => Ordered!Init
  BY DEF Init, Ordered!Init
<1> QED
  BY <1>1, OInvInit, OInvStep, PTL DEF Spec, HeardInOrder, Ordered!Spec

-----------------------------------------------------------------------------
(* THE JOURNAL                                                             *)
-----------------------------------------------------------------------------
(* A writer that is at the files holds the lock, and what it is about to   *)
(* rename is the document it wrote.                                        *)
Exclusive == /\ \A p \in Writers : stage[p] \in {"create", "fill", "rename"} => mu = p
             /\ \A p \in Writers : stage[p] = "rename" => tmp = doc[p]

(* While the journal is open, armed means that a timer or a callback that  *)
(* has not let go of it is on its way.                                     *)
ArmedIsReal == stage[Closer] = "idle" /\ armed =>
                   timer \/ \E c \in Callbacks : stage[c] = "disarm"

ClosedLast == closed => stage[Closer] = "closed"

JournalIInv == JournalTypeOK /\ Exclusive /\ JournalReadable /\ ClosedLast /\ ArmedIsReal
        /\ NoChangeForgotten

LEMMA JournalInitHolds == JournalInit => JournalIInv
<1> SUFFICES ASSUME JournalInit PROVE JournalIInv
  OBVIOUS
<1>1. JournalTypeOK
  BY DEF JournalInit, JournalTypeOK
<1>2. Exclusive /\ ArmedIsReal /\ ClosedLast
  BY DEF JournalInit, Exclusive, ArmedIsReal, ClosedLast
<1>3. JournalReadable /\ NoChangeForgotten
  BY SyncJournalAssumption DEF JournalInit, JournalReadable, NoChangeForgotten
<1> QED
  BY <1>1, <1>2, <1>3 DEF JournalIInv

-----------------------------------------------------------------------------
(* Types and the lock.                                                     *)

LEMMA JournalTypeKeeps == JournalIInv /\ [JournalNext]_journalVars => JournalTypeOK'
<1> SUFFICES ASSUME JournalIInv, [JournalNext]_journalVars PROVE JournalTypeOK'
  OBVIOUS
<1> USE SyncJournalAssumption
    DEF JournalIInv, JournalTypeOK, Writers, tableVars, markVars, fileVars
<1>1. ASSUME Change \/ MarkDirty PROVE JournalTypeOK'
  <2>1. version' \in Nat /\ unmarked' \in Nat
    BY <1>1 DEF Change, MarkDirty
  <2>2. armed' \in BOOLEAN /\ timer' \in BOOLEAN
    BY <1>1 DEF Change, MarkDirty
  <2>3. UNCHANGED <<mu, stage, doc, tmp, disk, closed, failed, seen, crashes>>
    BY <1>1 DEF Change, MarkDirty
  <2> QED
    BY <2>1, <2>2, <2>3
<1>2. ASSUME CloseStop \/ CloseMark PROVE JournalTypeOK'
  BY <1>2 DEF CloseStop, CloseMark, Goto
<1>3. ASSUME Crash PROVE JournalTypeOK'
  <2>1. version' \in Nat /\ seen' \in Nat /\ unmarked' \in Nat /\ crashes' \in Nat
    BY <1>3 DEF Crash
  <2>2. stage' = [p \in Writers |-> "idle"] /\ doc' = [p \in Writers |-> 0] /\ mu' = NoOne
    BY <1>3 DEF Crash
  <2>3. /\ armed' = FALSE /\ timer' = FALSE /\ closed' = FALSE /\ failed' = FALSE
        /\ UNCHANGED <<tmp, disk>>
    BY <1>3 DEF Crash
  <2> QED
    BY <2>1, <2>2, <2>3
<1>4. ASSUME NEW c \in Callbacks, TimerFires(c) \/ Disarm(c) PROVE JournalTypeOK'
  BY <1>4 DEF TimerFires, Disarm, Goto
<1>5. ASSUME NEW p \in Writers, Snapshot(p) PROVE JournalTypeOK'
  BY <1>5 DEF Snapshot, Goto
<1>6. ASSUME NEW p \in Writers, Lock(p) PROVE JournalTypeOK'
  BY <1>6 DEF Lock, Return, Goto
<1>7. ASSUME NEW p \in Writers, Create(p) \/ Fill(p) PROVE JournalTypeOK'
  BY <1>7 DEF Create, Fill, Goto
<1>8. ASSUME NEW p \in Writers, Rename(p) \/ WriteFails(p) PROVE JournalTypeOK'
  BY <1>8 DEF Rename, WriteFails, Return, Goto
<1>9. ASSUME UNCHANGED journalVars PROVE JournalTypeOK'
  BY <1>9 DEF journalVars
<1> QED
  BY <1>1, <1>2, <1>3, <1>4, <1>5, <1>6, <1>7, <1>8, <1>9 DEF JournalNext, Write, Ended

LEMMA LockKeeps == JournalIInv /\ [JournalNext]_journalVars => (Exclusive /\ JournalReadable)'
<1> SUFFICES ASSUME JournalIInv, [JournalNext]_journalVars PROVE (Exclusive /\ JournalReadable)'
  OBVIOUS
<1> USE SyncJournalAssumption
    DEF JournalIInv, JournalTypeOK, Exclusive, JournalReadable, Writers, tableVars, markVars, fileVars
<1>1. ASSUME Change \/ MarkDirty PROVE (Exclusive /\ JournalReadable)'
  BY <1>1 DEF Change, MarkDirty
<1>2. ASSUME CloseStop \/ CloseMark PROVE (Exclusive /\ JournalReadable)'
  BY <1>2 DEF CloseStop, CloseMark, Goto
<1>3. ASSUME Crash PROVE (Exclusive /\ JournalReadable)'
  BY <1>3 DEF Crash
<1>4. ASSUME NEW c \in Callbacks, TimerFires(c) \/ Disarm(c)
      PROVE  (Exclusive /\ JournalReadable)'
  BY <1>4 DEF TimerFires, Disarm, Goto
<1>5. ASSUME NEW p \in Writers, Snapshot(p) PROVE (Exclusive /\ JournalReadable)'
  BY <1>5 DEF Snapshot, Goto
<1>6. ASSUME NEW p \in Writers, Lock(p) PROVE (Exclusive /\ JournalReadable)'
  BY <1>6 DEF Lock, Return, Goto
<1>7. ASSUME NEW p \in Writers, Create(p) \/ Fill(p) PROVE (Exclusive /\ JournalReadable)'
  BY <1>7 DEF Create, Fill, Goto
<1>8. ASSUME NEW p \in Writers, Rename(p) PROVE (Exclusive /\ JournalReadable)'
  BY <1>8 DEF Rename, Return, Goto
<1>9. ASSUME NEW p \in Writers, WriteFails(p) PROVE (Exclusive /\ JournalReadable)'
  BY <1>9 DEF WriteFails, Return, Goto
<1>10. ASSUME UNCHANGED journalVars PROVE (Exclusive /\ JournalReadable)'
  BY <1>10 DEF journalVars
<1> QED
  BY <1>1, <1>2, <1>3, <1>4, <1>5, <1>6, <1>7, <1>8, <1>9, <1>10 DEF JournalNext, Write, Ended

-----------------------------------------------------------------------------
(* Announced changes.                                                      *)

LEMMA MarksKeep ==
  JournalIInv /\ [JournalNext]_journalVars => (ClosedLast /\ ArmedIsReal /\ NoChangeForgotten)'
<1> DEFINE Goal == ClosedLast /\ ArmedIsReal /\ NoChangeForgotten
<1> SUFFICES ASSUME JournalIInv, [JournalNext]_journalVars PROVE Goal'
  OBVIOUS
<1> USE SyncJournalAssumption
    DEF JournalIInv, JournalTypeOK, ClosedLast, ArmedIsReal, NoChangeForgotten, Writers,
        tableVars, markVars, fileVars
<1>1. ASSUME Change PROVE Goal'
  BY <1>1 DEF Change
<1>2. ASSUME MarkDirty PROVE Goal'
  BY <1>2 DEF MarkDirty
<1>3. ASSUME CloseStop \/ CloseMark PROVE Goal'
  BY <1>3 DEF CloseStop, CloseMark, Goto
<1>4. ASSUME Crash PROVE Goal'
  BY <1>4 DEF Crash
<1>5. ASSUME NEW c \in Callbacks, TimerFires(c) PROVE Goal'
  BY <1>5 DEF TimerFires, Goto
<1>6. ASSUME NEW c \in Callbacks, Disarm(c) PROVE Goal'
  BY <1>6 DEF Disarm, Goto
<1>7. ASSUME NEW p \in Writers, Snapshot(p) PROVE Goal'
  BY <1>7 DEF Snapshot, Goto
<1>8. ASSUME NEW p \in Writers, Lock(p) PROVE Goal'
  BY <1>8 DEF Lock, Return, Goto
<1>9. ASSUME NEW p \in Writers, Create(p) \/ Fill(p) PROVE Goal'
  BY <1>9 DEF Create, Fill, Goto
<1>10. ASSUME NEW p \in Writers, Rename(p) \/ WriteFails(p) PROVE Goal'
  BY <1>10 DEF Rename, WriteFails, Return, Goto
<1>11. ASSUME UNCHANGED journalVars PROVE Goal'
  BY <1>11 DEF journalVars
<1> QED
  BY <1>1, <1>2, <1>3, <1>4, <1>5, <1>6, <1>7, <1>8, <1>9, <1>10, <1>11
     DEF JournalNext, Write, Ended

LEMMA JournalInvariant == JournalSpec => []JournalIInv
<1>1. JournalIInv /\ [JournalNext]_journalVars => JournalIInv'
  BY JournalTypeKeeps, LockKeeps, MarksKeep DEF JournalIInv
<1> QED
  BY <1>1, JournalInitHolds, PTL DEF JournalSpec

(* However writers, crashes and failing writes interleave, the file that   *)
(* the next start reads is a whole document.                               *)
THEOREM JournalIsReadable == JournalSpec => []JournalReadable
<1>1. JournalIInv => JournalReadable
  BY DEF JournalIInv
<1> QED
  BY <1>1, JournalInvariant, PTL

(* While the journal is open, an announced change that no snapshot was     *)
(* taken of has a timer or a callback that is going to take one.           *)
THEOREM JournalForgetsNoChange == JournalSpec => []NoChangeForgotten
<1>1. JournalIInv => NoChangeForgotten
  BY DEF JournalIInv
<1> QED
  BY <1>1, JournalInvariant, PTL

-----------------------------------------------------------------------------
(* THE LIMITER                                                             *)
-----------------------------------------------------------------------------
(* What is in the bucket is part of what the window allows.  A window is   *)
(* open only while there is a limit.                                       *)
BucketCovered ==
    window >= 0 => /\ rate > 0
                   /\ batches * Unit + Refilled <= burst * Unit + window * rate

LimiterIInv == LimiterTypeOK /\ BucketCovered

-----------------------------------------------------------------------------
(* Arithmetic that the SMT solver does not do by itself: products of two   *)
(* variables, and division.                                                *)

(* A product of natural numbers is one, and grows by a factor when the     *)
(* other grows by one.                                                     *)
LEMMA Products ==
    ASSUME NEW a \in Nat, NEW b \in Nat
    PROVE  /\ a * b \in Nat
           /\ (a + 1) * b = a * b + b
           /\ b > 0 => a * b >= a
  OBVIOUS

(* A larger factor makes a larger product.                                 *)
LEMMA Monotone ==
    ASSUME NEW a \in Nat, NEW b \in Nat, NEW c \in Nat, a <= b
    PROVE  a * c <= b * c
  OBVIOUS

(* A quotient lies between zero and what was divided.                      *)
LEMMA Quotient ==
    ASSUME NEW a \in Nat, NEW b \in Nat \ {0}
    PROVE  a \div b \in 0..a
  OBVIOUS

(* What the bucket holds, the time since, and what a refill makes of them. *)
LEMMA RefilledFits ==
    ASSUME LimiterTypeOK
    PROVE  /\ rate \in Nat /\ burst \in Nat \ {0} /\ Unit \in Nat \ {0}
           /\ burst * Unit \in Nat /\ idle * rate \in Nat
           /\ Refilled \in 0..(burst * Unit)
           /\ Refilled <= tokens + idle * rate
<1>1. rate \in Nat /\ burst \in Nat \ {0} /\ Unit \in Nat \ {0}
  BY RateLimiterAssumption DEF LimiterTypeOK
<1>2. burst * Unit \in Nat
  BY <1>1, Products
<1>3. idle \in Nat /\ tokens \in 0..(burst * Unit)
  BY <1>2 DEF LimiterTypeOK, Horizon
<1>4. idle * rate \in Nat
  BY <1>1, <1>3, Products
<1>5. Refilled \in 0..(burst * Unit) /\ Refilled <= tokens + idle * rate
  BY <1>2, <1>3, <1>4 DEF Refilled, Least
<1> QED
  BY <1>1, <1>2, <1>4, <1>5

(* A sleep is never longer than a token takes at the lowest rate.          *)
LEMMA SleepFits ==
    ASSUME LimiterTypeOK, rate > 0, Refilled < Unit
    PROVE  (LET d == (Unit - Refilled) \div rate IN IF d = 0 THEN 1 ELSE d) \in 0..Unit
<1>1. rate \in Nat \ {0} /\ Unit \in Nat \ {0} /\ Unit - Refilled \in 0..Unit
  BY RefilledFits
<1>2. (Unit - Refilled) \div rate \in 0..(Unit - Refilled)
  BY <1>1, Quotient
<1> QED
  BY <1>1, <1>2

-----------------------------------------------------------------------------
LEMMA LimiterInitHolds == LimiterInit => LimiterIInv
<1> SUFFICES ASSUME LimiterInit PROVE LimiterIInv
  OBVIOUS
<1>1. burst * Unit \in Nat
  BY RateLimiterAssumption, Products DEF LimiterInit
<1>2. LimiterTypeOK
  BY <1>1, RateLimiterAssumption DEF LimiterInit, LimiterTypeOK, Horizon
<1>3. BucketCovered
  BY DEF LimiterInit, BucketCovered
<1> QED
  BY <1>2, <1>3 DEF LimiterIInv

LEMMA LimiterTypeKeeps == LimiterTypeOK /\ [LimiterNext]_limiterVars => LimiterTypeOK'
<1> SUFFICES ASSUME LimiterTypeOK, [LimiterNext]_limiterVars PROVE LimiterTypeOK'
  OBVIOUS
<1> USE DEF LimiterTypeOK, Horizon
<1>0. /\ burst * Unit \in Nat /\ Refilled \in 0..(burst * Unit)
      /\ Unit \in Nat \ {0} /\ WindowLength \in Nat
  BY RefilledFits, RateLimiterAssumption
<1>1. CASE Tick
  <2>1. idle' \in 0..(burst * Unit)
    BY <1>0, <1>1 DEF Tick, Least
  <2>2. sleep' \in [Callers -> 0..Unit]
    BY <1>0, <1>1 DEF Tick
  <2>3. window' \in -1..WindowLength
    BY <1>0, <1>1 DEF Tick
  <2> QED
    BY <1>1, <2>1, <2>2, <2>3 DEF Tick
<1>2. ASSUME NEW c \in Callers, Wait(c) \/ Wake(c) \/ ComeRound(c) PROVE LimiterTypeOK'
  BY <1>2 DEF Wait, Wake, ComeRound, bucketVars, windowVars
<1>3. ASSUME NEW c \in Callers, Reserve(c) PROVE LimiterTypeOK'
  <2>1. tokens' \in 0..(burst * Unit) /\ idle' \in 0..(burst * Unit)
    BY <1>0, <1>3 DEF Reserve
  <2>2. batches' \in Nat /\ admitted' \in Nat
    <3>1. BatchSizes \subseteq Nat
      BY RateLimiterAssumption
    <3> QED
      BY <1>3, <3>1 DEF Reserve, Granted
  <2> QED
    BY <1>3, <2>1, <2>2 DEF Reserve, Granted
<1>4. ASSUME NEW c \in Callers, ReserveLater(c) PROVE LimiterTypeOK'
  <2>1. tokens' \in 0..(burst * Unit) /\ idle' \in 0..(burst * Unit)
    BY <1>0, <1>4 DEF ReserveLater
  <2>2. sleep' \in [Callers -> 0..Unit]
    <3>1. (LET d == (Unit - Refilled) \div rate IN IF d = 0 THEN 1 ELSE d) \in 0..Unit
      BY <1>4, SleepFits DEF ReserveLater
    <3> QED
      BY <1>4, <3>1 DEF ReserveLater
  <2> QED
    BY <1>4, <2>1, <2>2 DEF ReserveLater, windowVars
<1>5. ASSUME NEW c \in Callers, Abandon(c) PROVE LimiterTypeOK'
  BY <1>0, <1>5 DEF Abandon, bucketVars, windowVars
<1>6. ASSUME NEW r \in Rates, NEW b \in Bursts, SetRate(r, b) PROVE LimiterTypeOK'
  <2>1. b * Unit \in Nat
    BY RateLimiterAssumption, Products
  <2>2. tokens' \in 0..(b * Unit)
    BY <1>0, <1>6, <2>1 DEF SetRate, Least
  <2> QED
    BY <1>0, <1>6, <2>1, <2>2 DEF SetRate, callVars
<1>7. CASE Observe
  BY <1>0, <1>7 DEF Observe, bucketVars, callVars
<1>8. CASE UNCHANGED limiterVars
  BY <1>8 DEF limiterVars, bucketVars, callVars, windowVars
<1> QED
  BY <1>1, <1>2, <1>3, <1>4, <1>5, <1>6, <1>7, <1>8 DEF LimiterNext

(* A tick adds the rate to the window, and to the bucket at most that.     *)
LEMMA TickCovers == LimiterIInv /\ Tick => BucketCovered'
<1> SUFFICES ASSUME LimiterIInv, Tick, window' >= 0 PROVE BucketCovered'
  BY DEF BucketCovered
<1> USE DEF LimiterIInv, LimiterTypeOK, Horizon
<1>1. window \in 0..(WindowLength - 1) /\ window' = window + 1
  BY DEF Tick
<1>2. /\ window \in Nat /\ rate \in Nat /\ burst * Unit \in Nat
      /\ tokens \in 0..(burst * Unit) /\ idle \in 0..(burst * Unit)
  BY <1>1, RateLimiterAssumption, RefilledFits
<1>3. window' * rate = window * rate + rate /\ window * rate \in Nat
  BY <1>1, <1>2, Products
<1>4. /\ batches * Unit \in Nat /\ rate > 0
      /\ batches * Unit + Refilled <= burst * Unit + window * rate
  BY <1>1, Products, RateLimiterAssumption DEF BucketCovered
<1>5. Refilled \in Nat /\ Refilled' \in Nat /\ Refilled' <= Refilled + rate
  <2>1. idle' \in 0..(idle + 1)
    BY <1>2 DEF Tick, Least
  <2>2. idle' * rate <= idle * rate + rate /\ idle' * rate \in Nat
    <3>1. idle \in Nat /\ idle' \in Nat /\ idle + 1 \in Nat /\ idle' <= idle + 1
      BY <1>2, <2>1
    <3>2. idle' * rate <= (idle + 1) * rate /\ idle' * rate \in Nat
      BY <1>2, <3>1, Monotone, Products
    <3>3. (idle + 1) * rate = idle * rate + rate
      BY <1>2, <3>1, Products
    <3> QED
      BY <3>2, <3>3
  <2>3. idle * rate \in Nat
    BY RefilledFits
  <2>4. Refilled' = Least(tokens + idle' * rate, burst * Unit)
    BY DEF Tick, Refilled
  <2> HIDE DEF LimiterTypeOK
  <2> QED
    BY <1>2, <2>2, <2>3, <2>4 DEF Refilled, Least
<1>6. UNCHANGED <<rate, burst, batches>>
  BY DEF Tick
<1>7. batches * Unit + Refilled' <= burst * Unit + window' * rate
  BY <1>2, <1>3, <1>4, <1>5
<1> QED
  BY <1>4, <1>6, <1>7 DEF BucketCovered

(* What a refill gives, when the time since was set to zero.               *)
LEMMA RefilledAtZero ==
    ASSUME NEW x \in Nat, NEW r \in Nat, NEW full \in Nat, x <= full
    PROVE  Least(x + 0 * r, full) = x
  BY DEF Least

(* A token leaves the bucket with each batch that gets through.            *)
LEMMA ReserveCovers ==
    ASSUME LimiterIInv, NEW c \in Callers, Reserve(c) PROVE BucketCovered'
<1> SUFFICES ASSUME window' >= 0 PROVE BucketCovered'
  BY DEF BucketCovered
<1>1. window >= 0 /\ window' = window /\ UNCHANGED <<rate, burst>>
  BY DEF Reserve, Granted
<1>2. rate > 0 /\ batches * Unit + Refilled <= burst * Unit + window * rate
  BY <1>1 DEF LimiterIInv, BucketCovered
<1>3. tokens' = Refilled - Unit /\ idle' = 0 /\ Refilled >= Unit
  BY <1>2 DEF Reserve
<1>4. batches' = batches + 1
  BY <1>1 DEF Reserve, Granted, LimiterIInv, LimiterTypeOK
<1>5. /\ rate \in Nat /\ burst * Unit \in Nat /\ Unit \in Nat
      /\ Refilled \in 0..(burst * Unit)
  BY RefilledFits DEF LimiterIInv
<1>6. Refilled' = Refilled - Unit
  <2>1. Refilled' = Least(tokens' + idle' * rate, burst * Unit)
    BY <1>1 DEF Refilled
  <2> QED
    BY <1>3, <1>5, <2>1, RefilledAtZero
<1>7. batches' * Unit = batches * Unit + Unit /\ batches * Unit \in Nat
  BY <1>4, <1>5, Products DEF LimiterIInv, LimiterTypeOK
<1>8. window * rate \in Nat
  BY <1>1, <1>5, Products DEF LimiterIInv, LimiterTypeOK
<1> QED
  BY <1>1, <1>2, <1>5, <1>6, <1>7, <1>8 DEF BucketCovered

(* Who has to come back leaves what the bucket has as it is.               *)
LEMMA ReserveLaterCovers ==
    ASSUME LimiterIInv, NEW c \in Callers, ReserveLater(c) PROVE BucketCovered'
<1>1. /\ rate \in Nat /\ burst * Unit \in Nat
      /\ Refilled \in 0..(burst * Unit)
  BY RefilledFits DEF LimiterIInv
<1>2. Refilled' = Least(tokens' + idle' * rate, burst * Unit)
  BY DEF ReserveLater, Refilled
<1>3. Refilled' = Refilled
  BY <1>1, <1>2, RefilledAtZero DEF ReserveLater
<1> QED
  BY <1>3 DEF LimiterIInv, BucketCovered, ReserveLater, windowVars

LEMMA CoveredKeeps == LimiterIInv /\ [LimiterNext]_limiterVars => BucketCovered'
<1> SUFFICES ASSUME LimiterIInv, [LimiterNext]_limiterVars PROVE BucketCovered'
  OBVIOUS
<1>1. CASE Tick
  BY <1>1, TickCovers
<1>2. ASSUME NEW c \in Callers, Wait(c) \/ Wake(c) \/ ComeRound(c) \/ Abandon(c)
      PROVE  BucketCovered'
  BY <1>2
     DEF Wait, Wake, ComeRound, Abandon, bucketVars, windowVars, BucketCovered,
         LimiterIInv, Refilled
<1>3. ASSUME NEW c \in Callers, Reserve(c) \/ ReserveLater(c) PROVE BucketCovered'
  BY <1>3, ReserveCovers, ReserveLaterCovers
<1>4. ASSUME NEW r \in Rates, NEW b \in Bursts, SetRate(r, b) PROVE BucketCovered'
  BY <1>4 DEF SetRate, BucketCovered
<1>5. CASE Observe
  <2>1. Refilled' = Refilled
    BY <1>5 DEF Observe, bucketVars, Refilled
  <2>2. /\ rate \in Nat /\ burst * Unit \in Nat /\ Unit \in Nat
        /\ Refilled \in 0..(burst * Unit)
    BY RefilledFits DEF LimiterIInv
  <2>3. 0 * Unit = 0 /\ 0 * rate = 0
    BY <2>2
  <2> QED
    BY <1>5, <2>1, <2>2, <2>3 DEF Observe, bucketVars, BucketCovered
<1>6. CASE UNCHANGED limiterVars
  BY <1>6
     DEF limiterVars, bucketVars, callVars, windowVars, BucketCovered, LimiterIInv, Refilled
<1> QED
  BY <1>1, <1>2, <1>3, <1>4, <1>5, <1>6 DEF LimiterNext

-----------------------------------------------------------------------------
LEMMA LimiterIInvHolds == LimiterSpec => []LimiterIInv
<1>1. LimiterIInv /\ [LimiterNext]_limiterVars => LimiterIInv'
  BY LimiterTypeKeeps, CoveredKeeps DEF LimiterIInv
<1> QED
  BY <1>1, LimiterInitHolds, PTL DEF LimiterSpec

(* Whatever workers wait, sleep, give up and return, and however often the *)
(* rate is changed: from any moment on until the next change no more       *)
(* batches get through than the burst and what the rate earned (limiter).  *)
THEOREM LimiterKeepsRate == LimiterSpec => []RateKept
<1>1. LimiterIInv => RateKept
  <2> SUFFICES ASSUME LimiterIInv, window >= 0
               PROVE  batches * Unit <= burst * Unit + window * rate
    BY DEF RateKept
  <2>1. batches * Unit + Refilled <= burst * Unit + window * rate
    BY DEF LimiterIInv, BucketCovered
  <2>2. /\ Refilled \in Nat /\ burst * Unit \in Nat /\ rate \in Nat /\ Unit \in Nat
        /\ batches \in Nat /\ window \in Nat
    BY RefilledFits DEF LimiterIInv, LimiterTypeOK
  <2>3. batches * Unit \in Nat /\ window * rate \in Nat
    BY <2>2, Products
  <2> QED
    BY <2>1, <2>2, <2>3
<1> QED
  BY <1>1, LimiterIInvHolds, PTL
=============================================================================
