----------------------------- MODULE Announcer ------------------------------
(***************************************************************************)
(* The announcer of internal/syncengine/announce.go.  A goroutine changes  *)
(* jobs under the engine lock and takes a turn in the same critical        *)
(* section; it then releases the lock and, whenever it gets there, waits   *)
(* for its turn, calls OnJob once per changed job and passes the turn on.  *)
(*                                                                         *)
(* A change is the pair <<turn, i>>: the i-th job of the change that took  *)
(* that turn.  What the job looks like is not modelled.                    *)
(***************************************************************************)
EXTENDS Naturals, Sequences

CONSTANTS Procs,      \* goroutines that change jobs: callers, workers, timers
          MaxTurns,   \* bound: how many changes a run makes
          MaxJobs     \* bound: how many jobs one change may touch

ASSUME AnnouncerAssumption == MaxTurns \in Nat /\ MaxJobs \in Nat

VARIABLES issued,     \* announcer.issued, guarded by the engine lock
          next,       \* announcer.next, guarded by the announcer's lock
          pc,         \* where each goroutine is
          turn,       \* the turn each goroutine took
          jobs,       \* the changed jobs it still has to hand to OnJob
          made,       \* history: every changed job, in the order of the changes
          heard       \* history: every OnJob call, in the order of the calls

vars == <<issued, next, pc, turn, jobs, made, heard>>

(* The changed jobs of the change that took turn t, n of them.  A batch    *)
(* that was cancelled while it waited changes no job and takes a turn.     *)
ChangeOf(t, n) == [i \in 1..n |-> <<t, i>>]

Init == /\ issued = 0
        /\ next = 0
        /\ pc = [p \in Procs |-> "idle"]
        /\ turn = [p \in Procs |-> 0]
        /\ jobs = [p \in Procs |-> <<>>]
        /\ made = <<>>
        /\ heard = <<>>

(* Mutant: no turn is run for a change that touched no job.                *)
ReserveLockedSkipsEmpty(p) ==
    /\ pc[p] = "idle"
    /\ issued < MaxTurns
    /\ \E n \in 0..MaxJobs :
          /\ jobs' = [jobs EXCEPT ![p] = ChangeOf(issued, n)]
          /\ made' = made \o ChangeOf(issued, n)
          /\ pc' = [pc EXCEPT ![p] = IF n = 0 THEN "idle" ELSE "waiting"]
    /\ turn' = [turn EXCEPT ![p] = issued]
    /\ issued' = issued + 1
    /\ UNCHANGED <<next, heard>>

(* reserveLocked, in the critical section that made the change.            *)
ReserveLocked(p) ==
    /\ pc[p] = "idle"
    /\ issued < MaxTurns
    /\ \E n \in 0..MaxJobs :
          /\ jobs' = [jobs EXCEPT ![p] = ChangeOf(issued, n)]
          /\ made' = made \o ChangeOf(issued, n)
    /\ turn' = [turn EXCEPT ![p] = issued]
    /\ issued' = issued + 1
    /\ pc' = [pc EXCEPT ![p] = "waiting"]
    /\ UNCHANGED <<next, heard>>

(* Mutant: the announcement does not wait for its turn.                    *)
AwaitTurnUnordered(p) ==
    /\ pc[p] = "waiting"
    /\ pc' = [pc EXCEPT ![p] = "announcing"]
    /\ UNCHANGED <<issued, next, turn, jobs, made, heard>>

(* run: the wait ends when the turn comes.  No lock is held afterwards.    *)
AwaitTurn(p) ==
    /\ pc[p] = "waiting"
    /\ next = turn[p]
    /\ pc' = [pc EXCEPT ![p] = "announcing"]
    /\ UNCHANGED <<issued, next, turn, jobs, made, heard>>

(* run: one OnJob call.                                                    *)
OnJob(p) ==
    /\ pc[p] = "announcing"
    /\ jobs[p] # <<>>
    /\ heard' = Append(heard, Head(jobs[p]))
    /\ jobs' = [jobs EXCEPT ![p] = Tail(@)]
    /\ UNCHANGED <<issued, next, pc, turn, made>>

(* run: the deferred hand-over of the turn, which wakes every waiter.      *)
PassTurn(p) ==
    /\ pc[p] = "announcing"
    /\ jobs[p] = <<>>
    /\ next' = next + 1
    /\ pc' = [pc EXCEPT ![p] = "idle"]
    /\ UNCHANGED <<issued, turn, jobs, made, heard>>

(* The run is over: every change this bounded run makes was announced.     *)
Quiet == /\ issued = MaxTurns
         /\ \A p \in Procs : pc[p] = "idle"
         /\ UNCHANGED vars

Next == \/ \E p \in Procs : ReserveLocked(p) \/ AwaitTurn(p) \/ OnJob(p) \/ PassTurn(p)
        \/ Quiet

(* A goroutine that took a turn keeps running: every caller of             *)
(* reserveLocked goes on to run, and OnJob returns.                        *)
Fairness == \A p \in Procs : WF_vars(AwaitTurn(p) \/ OnJob(p) \/ PassTurn(p))

Spec == Init /\ [][Next]_vars
FairSpec == Spec /\ Fairness

-----------------------------------------------------------------------------
TypeOK ==
    /\ issued \in 0..MaxTurns
    /\ next \in 0..MaxTurns
    /\ pc \in [Procs -> {"idle", "waiting", "announcing"}]
    /\ turn \in [Procs -> 0..MaxTurns]
    /\ \A p \in Procs : Len(jobs[p]) <= MaxJobs

(* A turn that was taken and not passed on is held by exactly one          *)
(* goroutine, so nothing waits for a turn nobody will pass on.             *)
Holds(p, t) == pc[p] # "idle" /\ turn[p] = t

EveryTurnHeld ==
    \A t \in next..(issued - 1) :
        \E p \in Procs : Holds(p, t) /\ \A q \in Procs : Holds(q, t) => q = p

(* Calls to OnJob "are made one at a time" (engine.go, Options.OnJob): two *)
(* goroutines are never past the wait of run together.                     *)
NeverTwoAnnouncing ==
    \A p, q \in Procs : pc[p] = "announcing" /\ pc[q] = "announcing" => p = q

(* Both: whoever announces is the only one, and every later turn will come.*)
OneAtATime == NeverTwoAnnouncing /\ EveryTurnHeld

(* The observer hears the changes one by one in the order they were made,  *)
(* although nothing orders the goroutines that announce them.              *)
Ordered == INSTANCE OrderedLog WITH
               Changes <- {ChangeOf(t, n) : t \in 0..MaxTurns, n \in 0..MaxJobs}
HeardInOrder == Ordered!Spec

(* Every turn that is taken is run, so that no later announcement waits    *)
(* forever: the observer eventually hears every change that was made.      *)
EveryChangeHeard == \A n \in 1..(MaxTurns * MaxJobs) :
                        (Len(made) >= n) ~> (Len(heard) >= n)
=============================================================================
