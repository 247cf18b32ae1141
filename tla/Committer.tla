------------------------------ MODULE Committer ------------------------------
(***************************************************************************)
(* Commit-on-save: internal/gitops/committer.go.  Writes to the same item  *)
(* of a repository are coalesced into one batch; a debounce timer, a Flush *)
(* or a Close takes the batch and commits it.                              *)
(*                                                                         *)
(* One action is one critical section of Committer.mu, or one acquisition  *)
(* of a repository's lock.  A key is a repository and an item.  A pending  *)
(* batch carries its number, which is the identity the callback of a timer *)
(* compares (the pointer want).  Commit messages, and the synchronous mode *)
(* of a negative Debounce, which only tests use, are left out; whether the *)
(* repository takes a commit or refuses it makes no difference here, both  *)
(* are reported and end the batch.                                         *)
(***************************************************************************)
EXTENDS Naturals, FiniteSets

CONSTANTS Edits,      \* the writes that are enqueued, each of them once
          Keys,       \* coalescing keys
          KeyOf,      \* the key of each edit
          Repos,      \* repositories
          RepoOf,     \* the repository of each key
          Callbacks,  \* goroutines that run the callback of a timer
          Callers,    \* goroutines that call Flush, again and again
          Closers,    \* those of them that also call Close
          NoOne       \* the lock of a repository is free

Procs == Callbacks \cup Callers

ASSUME CommitterAssumption ==
    /\ KeyOf \in [Edits -> Keys] /\ RepoOf \in [Keys -> Repos]
    /\ IsFiniteSet(Keys) /\ IsFiniteSet(Procs) /\ Keys # {}
    /\ Callbacks \cap Callers = {} /\ Closers \subseteq Callers /\ NoOne \notin Procs

VARIABLES pending,   \* Committer.pending
          made,      \* batches that were made under each key, which numbers them
          closed,    \* Committer.closed
          inflight,  \* Committer.inflight
          holder,    \* who holds the lock of each repository
          pc,        \* where each goroutine is
          fired,     \* the timer whose callback a goroutine runs
          taken,     \* the batches a goroutine has taken and not finished yet
          current,   \* the key of the batch a goroutine is committing
          fate,      \* history: what became of each edit
          due        \* history: the edits a call of Flush has to see committed

batchVars == <<pending, made, closed, inflight>>
procVars  == <<pc, fired, taken, current>>
histVars  == <<fate, due>>
vars == <<batchVars, holder, procVars, histVars>>

NoBatch == [edits |-> {}, number |-> 0, armed |-> 0, timer |-> FALSE]

Open == {k \in Keys : pending[k].edits # {}}

(* Committer.wg: the timers that are armed and the callbacks that run.     *)
TimersGone == /\ \A k \in Keys : ~pending[k].timer
              /\ \A t \in Callbacks : pc[t] = "idle"

Init == /\ pending = [k \in Keys |-> NoBatch] /\ made = [k \in Keys |-> 0]
        /\ closed = FALSE /\ inflight = 0
        /\ holder = [r \in Repos |-> NoOne]
        /\ pc = [p \in Procs |-> "idle"]
        /\ fired = [t \in Callbacks |-> [key |-> CHOOSE k \in Keys : TRUE, number |-> 0, armed |-> 0]]
        /\ taken = [p \in Procs |-> [k \in Keys |-> {}]]
        /\ current = [p \in Procs |-> CHOOSE k \in Keys : TRUE]
        /\ fate = [e \in Edits |-> "none"] /\ due = [c \in Callers |-> {}]

Goto(p, there) == pc' = [pc EXCEPT ![p] = there]

(* Mutant: an edit that joins a batch stops its timer and starts no other. *)
JoinedUnarmed(b, e) == [b EXCEPT !.edits = @ \cup {e}, !.armed = @ + 1, !.timer = FALSE]

(* merge and arm: the timer of the batch starts again under a new count.   *)
Joined(b, e) == [b EXCEPT !.edits = @ \cup {e}, !.armed = @ + 1, !.timer = TRUE]

(* Enqueue.                                                                *)
Enqueue(e) ==
    LET k == KeyOf[e] IN
    /\ fate[e] = "none"
    /\ IF closed
       THEN fate' = [fate EXCEPT ![e] = "refused"] /\ UNCHANGED <<pending, made>>
       ELSE /\ fate' = [fate EXCEPT ![e] = "accepted"]
            /\ made' = IF k \in Open THEN made ELSE [made EXCEPT ![k] = @ + 1]
            /\ pending' = [pending EXCEPT ![k] =
                  Joined(IF k \in Open THEN @ ELSE [NoBatch EXCEPT !.number = made'[k]], e)]
    /\ UNCHANGED <<closed, inflight, holder, procVars, due>>

(* A timer expires: from now on stopping it fails.                         *)
Expire(k, t) ==
    /\ pending[k].timer
    /\ pc[t] = "idle"
    /\ pending' = [pending EXCEPT ![k].timer = FALSE]
    /\ fired' = [fired EXCEPT ![t] = [key |-> k, number |-> pending[k].number,
                                      armed |-> pending[k].armed]]
    /\ Goto(t, "fire")
    /\ UNCHANGED <<made, closed, inflight, holder, taken, current, histVars>>

(* Mutant: the callback takes whatever batch is pending under its key.     *)
IsCurrentAny(f) == pending[f.key].edits # {}

(* The batch is still there and this is still its current timer.           *)
IsCurrent(f) == /\ pending[f.key].edits # {}
                /\ pending[f.key].number = f.number
                /\ pending[f.key].armed = f.armed

(* Mutant: a batch counts as in flight only from the commit on.            *)
FireUncounted(t) ==
    LET k == fired[t].key IN
    /\ pc[t] = "fire"
    /\ IF IsCurrent(fired[t])
       THEN /\ taken' = [taken EXCEPT ![t][k] = pending[k].edits]
            /\ pending' = [pending EXCEPT ![k] = NoBatch]
            /\ Goto(t, "commit")
       ELSE UNCHANGED <<taken, pending>> /\ Goto(t, "idle")
    /\ UNCHANGED <<made, closed, inflight, holder, fired, current, histVars>>

(* fire: the batch leaves pending and counts as in flight in one section.  *)
Fire(t) ==
    LET k == fired[t].key IN
    /\ pc[t] = "fire"
    /\ IF IsCurrent(fired[t])
       THEN /\ taken' = [taken EXCEPT ![t][k] = pending[k].edits]
            /\ pending' = [pending EXCEPT ![k] = NoBatch]
            /\ inflight' = inflight + 1
            /\ Goto(t, "commit")
       ELSE UNCHANGED <<taken, pending, inflight>> /\ Goto(t, "idle")
    /\ UNCHANGED <<made, closed, holder, fired, current, histVars>>

(* Flush, its first section: every batch is taken and its timer stopped.   *)
TakeAll(c) ==
    /\ taken' = [taken EXCEPT ![c] = [k \in Keys |-> pending[k].edits]]
    /\ pending' = [k \in Keys |-> NoBatch]
    /\ inflight' = inflight + Cardinality(Open)
    /\ due' = [due EXCEPT ![c] = {e \in Edits : fate[e] \in {"accepted", "done"}}]
    /\ UNCHANGED <<made, holder, fired, current, fate>>

Flush(c) == /\ pc[c] = "idle"
            /\ TakeAll(c)
            /\ Goto(c, "commit")
            /\ UNCHANGED closed

(* Mutant: the repository's lock is not taken.                             *)
LockNot(p, k) ==
    /\ pc[p] \in {"commit", "closingCommit"}
    /\ taken[p][k] # {}
    /\ holder' = [holder EXCEPT ![RepoOf[k]] = p]
    /\ current' = [current EXCEPT ![p] = k]
    /\ Goto(p, IF pc[p] = "commit" THEN "write" ELSE "closingWrite")
    /\ UNCHANGED <<batchVars, fired, taken, histVars>>

(* commitTracked: the lock of the repository.                              *)
Lock(p, k) ==
    /\ pc[p] \in {"commit", "closingCommit"}
    /\ taken[p][k] # {}
    /\ holder[RepoOf[k]] = NoOne
    /\ holder' = [holder EXCEPT ![RepoOf[k]] = p]
    /\ current' = [current EXCEPT ![p] = k]
    /\ Goto(p, IF pc[p] = "commit" THEN "write" ELSE "closingWrite")
    /\ UNCHANGED <<batchVars, fired, taken, histVars>>

(* commit: the repository took the commit or refused it, which is reported,*)
(* and the lock is released.                                               *)
Commit(p) ==
    /\ pc[p] \in {"write", "closingWrite"}
    /\ fate' = [e \in Edits |-> IF e \in taken[p][current[p]] THEN "done" ELSE fate[e]]
    /\ holder' = [holder EXCEPT ![RepoOf[current[p]]] = NoOne]
    /\ Goto(p, IF pc[p] = "write" THEN "finish" ELSE "closingFinish")
    /\ UNCHANGED <<batchVars, fired, taken, current, due>>

(* finishCommit.                                                           *)
FinishCommit(p) ==
    /\ pc[p] \in {"finish", "closingFinish"}
    /\ inflight' = inflight - 1
    /\ taken' = [taken EXCEPT ![p][current[p]] = {}]
    /\ Goto(p, IF p \in Callbacks THEN "idle"
               ELSE IF pc[p] = "finish" THEN "commit" ELSE "closingCommit")
    /\ UNCHANGED <<pending, made, closed, holder, fired, current, histVars>>

(* waitIdle, at the end of Flush.                                          *)
WaitIdle(c) ==
    /\ pc[c] \in {"commit", "closingCommit"}
    /\ \A k \in Keys : taken[c][k] = {}
    /\ inflight = 0
    /\ Goto(c, IF pc[c] = "commit" THEN "idle" ELSE "wait")
    /\ UNCHANGED <<batchVars, holder, fired, taken, current, histVars>>

(* Close: a second call only waits.                                        *)
Close(c) ==
    /\ pc[c] = "idle"
    /\ closed' = TRUE
    /\ Goto(c, IF closed THEN "closingCommit" ELSE "close")
    /\ UNCHANGED <<pending, made, inflight, holder, fired, taken, current, histVars>>

CloseFlush(c) == /\ pc[c] = "close"
                 /\ TakeAll(c)
                 /\ Goto(c, "closingCommit")
                 /\ UNCHANGED closed

(* Mutant: Close does not wait for the timers.                             *)
WaitTimersNot(c) == /\ pc[c] = "wait"
                    /\ Goto(c, "closed")
                    /\ UNCHANGED <<batchVars, holder, fired, taken, current, histVars>>

(* Close: no timer and no callback is left, and it returns.                *)
WaitTimers(c) == /\ pc[c] = "wait"
                 /\ TimersGone
                 /\ Goto(c, "closed")
                 /\ UNCHANGED <<batchVars, holder, fired, taken, current, histVars>>

(* What a goroutine does on its own once it was started.                   *)
Run(p) == (\E k \in Keys : Lock(p, k)) \/ Commit(p) \/ FinishCommit(p)

Ended == /\ \A c \in Closers : pc[c] = "closed"
         /\ \A e \in Edits : fate[e] \in {"done", "refused"}
         /\ UNCHANGED vars

Next == \/ \E e \in Edits : Enqueue(e)
        \/ \E t \in Callbacks : (\E k \in Keys : Expire(k, t)) \/ Fire(t)
        \/ \E p \in Procs : Run(p)
        \/ \E c \in Callers : Flush(c) \/ WaitIdle(c)
        \/ \E c \in Closers : Close(c) \/ CloseFlush(c) \/ WaitTimers(c)
        \/ Ended

Spec == Init /\ [][Next]_vars

(* Goroutines run, timers expire and a repository's lock is fair (a        *)
(* sync.Mutex hands itself to a waiter that it has starved).               *)
Fairness ==
    /\ \A k \in Keys : WF_vars(\E t \in Callbacks : Expire(k, t))
    /\ \A t \in Callbacks : WF_vars(Fire(t))
    /\ \A p \in Procs : WF_vars(Commit(p)) /\ WF_vars(FinishCommit(p))
    /\ \A p \in Procs : SF_vars(\E k \in Keys : Lock(p, k))
    /\ \A c \in Callers : WF_vars(WaitIdle(c) \/ CloseFlush(c) \/ WaitTimers(c))

FairSpec == Spec /\ Fairness

-----------------------------------------------------------------------------
BatchType == [edits: SUBSET Edits, number: Nat, armed: Nat, timer: BOOLEAN]

TypeOK == /\ pending \in [Keys -> BatchType] /\ made \in [Keys -> Nat]
          /\ closed \in BOOLEAN /\ inflight \in Nat
          /\ holder \in [Repos -> Procs \cup {NoOne}]
          /\ pc \in [Procs -> {"idle", "fire", "commit", "write", "finish", "close",
                               "closingCommit", "closingWrite", "closingFinish",
                               "wait", "closed"}]
          /\ fired \in [Callbacks -> [key: Keys, number: Nat, armed: Nat]]
          /\ taken \in [Procs -> [Keys -> SUBSET Edits]]
          /\ current \in [Procs -> Keys]
          /\ fate \in [Edits -> {"none", "accepted", "refused", "done"}]
          /\ due \in [Callers -> SUBSET Edits]

(* Two commits never run in the same repository at the same time: the git  *)
(* backends are not safe for that (repoLocks).                             *)
OneCommitPerRepo ==
    \A p, q \in Procs :
        /\ pc[p] \in {"write", "closingWrite"} /\ pc[q] \in {"write", "closingWrite"}
        /\ RepoOf[current[p]] = RepoOf[current[q]]
        => p = q

(* When Flush returns, every edit that was accepted before the call is     *)
(* committed, whoever committed it, and nothing is being written.          *)
FlushCommits ==
    [][\A c \in Callers :
          pc[c] \in {"commit", "closingCommit"} /\ pc'[c] \in {"idle", "wait"} =>
              /\ \A e \in due[c] : fate[e] = "done"
              /\ \A p \in Procs : pc[p] \notin {"write", "closingWrite"}]_vars

(* An edit that re-arms the timer of its batch postpones the commit, even  *)
(* when the old timer has expired already: only a Flush commits a batch    *)
(* whose timer is still running (batch.armed).                             *)
DebounceHonoured ==
    [][\A t \in Callbacks : pc[t] = "fire" /\ pc'[t] = "commit" =>
           ~pending[fired[t].key].timer]_vars

(* When Close returns "no commit is in flight and no timer is left armed,  *)
(* so the process may exit or the repository may be removed".              *)
CloseIsQuiet ==
    (\E c \in Closers : pc[c] = "closed") =>
        /\ TimersGone /\ Open = {} /\ inflight = 0
        /\ \A r \in Repos : holder[r] = NoOne

(* Every edit that was accepted is committed, or its failure reported; and *)
(* Close, which waits for that, returns.                                   *)
EditsAreCommitted ==
    /\ \A e \in Edits : fate[e] = "accepted" ~> fate[e] = "done"
    /\ \A c \in Closers : pc[c] = "close" ~> pc[c] = "closed"
=============================================================================
