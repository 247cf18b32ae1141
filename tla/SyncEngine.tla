----------------------------- MODULE SyncEngine -----------------------------
(***************************************************************************)
(* The background job engine of internal/syncengine/engine.go: the job     *)
(* table, the coalescing batches, the worker pool, the retry timers, the   *)
(* dead-letter list, Start with its replay of the journal, and Close.      *)
(*                                                                         *)
(* One action is one critical section of Engine.mu.  The two loops that    *)
(* run under the lock and change one job after another, the loop of        *)
(* complete and the loop of replay, take one step per job, and no other    *)
(* critical section is entered meanwhile (see Unlocked).                   *)
(*                                                                         *)
(* Time is abstracted: a timer that is armed may fire at any moment.  A    *)
(* batch is the set of its jobs.  jobRecord.batchKey is not a variable: it *)
(* is set exactly while the id is in pending[KeyOf[id]].  Payloads, error  *)
(* texts, counters that only reports read, and the observers (Announcer)   *)
(* are left out; the journal is the document on the disk, written from a   *)
(* snapshot taken in one critical section (SyncJournal has the details).   *)
(***************************************************************************)
EXTENDS Naturals, Sequences, FiniteSets, SequencesExt

CONSTANTS
    Ids,            \* job ids
    StableIds,      \* ids a caller chooses itself and enqueues again and again
    Keys, KeyOf,    \* coalescing keys (kind and key together), and a job's key
    Workers,        \* worker goroutines that may exist at one time
    NoWorker,       \* the nil of jobRecord.cancel
    PoolSizes,      \* values of Options.Workers and SetWorkers
    BatchSizes,     \* values of Options.BatchSize and SetBatchSize
    MaxAttempts,    \* RetryPolicy.MaxAttempts
    DeadLetterMax,  \* Options.DeadLetterMax
    Persistent,     \* Options.CacheDir is not empty
    StartAlone,     \* no other method is called until Start has returned
    MaxEnqueues,    \* bound: enqueues of one stable id
    MaxGen,         \* bound: cancels and user retries of one job record
    MaxGeneration,  \* bound: SetWorkers calls on a running engine
    MaxCrashes      \* bound: crashes and restarts of the process

ASSUME SyncEngineAssumption ==
    /\ StableIds \subseteq Ids
    /\ IsFiniteSet(Keys) /\ KeyOf \in [Ids -> Keys]
    /\ IsFiniteSet(Workers) /\ NoWorker \notin Workers
    /\ PoolSizes \subseteq Nat \ {0} /\ BatchSizes \subseteq Nat \ {0}
    /\ MaxAttempts \in Nat \ {0} /\ DeadLetterMax \in Nat \ {0}
    /\ Persistent \in BOOLEAN /\ StartAlone \in BOOLEAN
    /\ {MaxEnqueues, MaxGen, MaxGeneration, MaxCrashes} \subseteq Nat

VARIABLES
    jobs,       \* Engine.jobs, with the state "absent" for an id that has no record
    order,      \* Engine.order: how many times it lists each id
    dead,       \* Engine.dead, the dead-letter list, oldest first
    timers,     \* retry callbacks of each id that are armed or about to run
    used,       \* how often each id was handed out by nextIDLocked or enqueued
    pending,    \* Engine.pending: the open batch of each key, {} when there is none
    queue,      \* Engine.queue: the batches ready for a worker
    workers,    \* what each worker goroutine is doing
    running,    \* Engine.running
    generation, \* Engine.generation
    poolSize,   \* opts.Workers
    batchSize,  \* opts.BatchSize
    life,       \* how far Start has come
    todo,       \* ids the replay loop has not looked at yet
    closing,    \* how far Close has come
    cancels,    \* workers whose batch context Close has collected to cancel
    pruner,     \* the prune timer is armed
    disk,       \* the journal file, by id
    dirty,      \* a change was made that the journal has been told to write
    crashes     \* how often the process died or was restarted

tableVars == <<jobs, order, dead>>
batchVars == <<pending, queue>>
poolVars  == <<workers, running, generation>>
optVars   == <<poolSize, batchSize>>
lifeVars  == <<life, todo, closing, cancels, pruner>>
diskVars  == <<disk, dirty, crashes>>
vars == <<tableVars, timers, used, batchVars, poolVars, optVars, lifeVars, diskVars>>

States   == {"absent", "queued", "running", "done", "failed", "cancelled"}
Outcomes == {"ok", "retryable", "terminal", "cancelled"}

(* A record that does not exist, and the record Enqueue makes.             *)
NoJob == [state |-> "absent", attempts |-> 0, gen |-> 0, cancel |-> NoWorker,
          retry |-> FALSE, dead |-> FALSE]
NewJob == [NoJob EXCEPT !.state = "queued"]

(* A worker goroutine that does not exist, and one between two batches.    *)
NoWork == [pc |-> "absent", gen |-> 0, batch |-> {}, jobs |-> {},
           stamps |-> [id \in Ids |-> 0], cancelled |-> FALSE, outcome |-> "ok"]
Idle(gen) == [NoWork EXCEPT !.pc = "idle", !.gen = gen]

NotWritten == [id \in Ids |-> [state |-> "absent", attempts |-> 0, listed |-> FALSE]]

Closed == closing # "open"

(* Engine.mu is not held by the loop of complete nor by the loop of replay.*)
Unlocked == life # "replaying" /\ \A w \in Workers : workers[w].pc # "completing"

(* The engine's methods may be called by goroutines that do not know       *)
(* whether Start has returned, unless the program sees to it.              *)
Callable == Unlocked /\ (StartAlone => life = "up")

(* journal.markDirty; after Close the journal is closed and ignores it.    *)
MarkDirty == /\ dirty' = (Persistent /\ closing # "closed")
             /\ UNCHANGED <<disk, crashes>>

(* New.                                                                    *)
Init == /\ jobs = [id \in Ids |-> NoJob] /\ order = [id \in Ids |-> 0] /\ dead = <<>>
        /\ timers = [id \in Ids |-> 0] /\ used = [id \in Ids |-> 0]
        /\ pending = [k \in Keys |-> {}] /\ queue = <<>>
        /\ workers = [w \in Workers |-> NoWork] /\ running = 0 /\ generation = 0
        /\ life = "new" /\ todo = {}
        /\ closing = "open" /\ cancels = {}
        /\ pruner = FALSE /\ dirty = FALSE
        /\ poolSize \in PoolSizes
        /\ batchSize \in BatchSizes
        /\ disk = NotWritten
        /\ crashes = 0

-----------------------------------------------------------------------------
(* Batches.  These operators fix pending' and queue' and nothing else.     *)

(* addToBatchLocked: the job joins the open batch of its key, and the      *)
(* batch fires at once when it is full.  b.ids may list a job twice, which *)
(* only makes it look full earlier.                                        *)
AddToBatch(id) ==
    LET k == KeyOf[id]
        ids == pending[k] \cup {id}
    IN  \/ /\ Cardinality(ids) >= batchSize \/ id \in pending[k]
           /\ pending' = [pending EXCEPT ![k] = {}]
           /\ queue' = Append(queue, ids)
        \/ /\ Cardinality(ids) < batchSize
           /\ pending' = [pending EXCEPT ![k] = ids]
           /\ UNCHANGED queue

(* Fire every open batch, in the order of a map iteration.                 *)
FireAll == \E ks \in SetToSeqs({k \in Keys : pending[k] # {}}) :
              /\ queue' = queue \o [i \in DOMAIN ks |-> pending[ks[i]]]
              /\ pending' = [k \in Keys |-> {}]

(* fire: the debounce timer of an open batch.                              *)
Fire(k) ==
    /\ Unlocked
    /\ pending[k] # {}
    /\ pending' = [pending EXCEPT ![k] = {}]
    /\ queue' = Append(queue, pending[k])
    /\ UNCHANGED <<tableVars, timers, used, poolVars, optVars, lifeVars, diskVars>>

(* Flush: what it changes.  When it may return is a matter of the state    *)
(* (see Drained).                                                          *)
Flush ==
    /\ Callable
    /\ life # "new"
    /\ \E k \in Keys : pending[k] # {}
    /\ FireAll
    /\ UNCHANGED <<tableVars, timers, used, poolVars, optVars, lifeVars, diskVars>>

(* Enqueue.  An id that is queued or running is returned as it is, which   *)
(* changes nothing; any other id gets a fresh record, in place of the one  *)
(* it may have, and one more entry in order.                               *)
Enqueue(id) ==
    /\ Callable
    /\ ~Closed
    /\ jobs[id].state \notin {"queued", "running"}
    /\ used[id] < IF id \in StableIds THEN MaxEnqueues ELSE 1
    /\ jobs' = [jobs EXCEPT ![id] = NewJob]
    /\ order' = [order EXCEPT ![id] = @ + 1]
    /\ used' = [used EXCEPT ![id] = @ + 1]
    /\ AddToBatch(id)
    /\ MarkDirty
    /\ UNCHANGED <<dead, timers, poolVars, optVars, lifeVars>>

-----------------------------------------------------------------------------
(* The worker pool.                                                        *)

(* Mutant: a worker goes away with a batch it has taken.                   *)
RetireWorkerBusy(w) ==
    /\ Unlocked
    /\ workers[w].pc \in {"idle", "popped"}
    /\ workers[w].gen # generation
    /\ workers' = [workers EXCEPT ![w] = NoWork]
    /\ running' = IF workers[w].pc = "idle" THEN running ELSE running - 1
    /\ UNCHANGED <<tableVars, timers, used, batchVars, generation, optVars,
                   lifeVars, diskVars>>

(* worker: a worker whose generation is no longer current goes away.       *)
RetireWorker(w) ==
    /\ Unlocked
    /\ workers[w].pc = "idle"
    /\ workers[w].gen # generation
    /\ workers' = [workers EXCEPT ![w] = NoWork]
    /\ UNCHANGED <<tableVars, timers, used, batchVars, running, generation,
                   optVars, lifeVars, diskVars>>

(* Mutant: the batch is counted as running once it has started.            *)
NextBatchUncounted(w) ==
    /\ Unlocked
    /\ workers[w].pc = "idle"
    /\ workers[w].gen = generation
    /\ queue # <<>>
    /\ workers' = [workers EXCEPT ![w].pc = "popped", ![w].batch = Head(queue)]
    /\ queue' = Tail(queue)
    /\ UNCHANGED <<tableVars, timers, used, pending, running, generation, optVars,
                   lifeVars, diskVars>>

(* nextBatch: the oldest batch leaves the queue and counts as running in   *)
(* the same critical section.                                              *)
NextBatch(w) ==
    /\ Unlocked
    /\ workers[w].pc = "idle"
    /\ workers[w].gen = generation
    /\ queue # <<>>
    /\ workers' = [workers EXCEPT ![w].pc = "popped", ![w].batch = Head(queue)]
    /\ queue' = Tail(queue)
    /\ running' = running + 1
    /\ UNCHANGED <<tableVars, timers, used, pending, generation, optVars,
                   lifeVars, diskVars>>

(* The jobs of a batch that start: still queued, and not waiting for a     *)
(* retry of their own.                                                     *)
Startable(batch) == {id \in batch : jobs[id].state = "queued" /\ ~jobs[id].retry}

(* What startBatch does to one record.                                     *)
Started(j, w) == [j EXCEPT !.state = "running", !.cancel = w, !.attempts = @ + 1]

(* startBatch: the jobs become running under one fresh context; a batch    *)
(* with nothing left to start is finished at once.                         *)
StartBatch(w) ==
    LET start == Startable(workers[w].batch) IN
    /\ Unlocked
    /\ workers[w].pc = "popped"
    /\ jobs' = [id \in Ids |-> IF id \in start THEN Started(jobs[id], w) ELSE jobs[id]]
    /\ workers' = [workers EXCEPT ![w] =
          [@ EXCEPT !.pc = IF start = {} THEN "finishing" ELSE "handling",
                    !.batch = {},
                    !.jobs = start,
                    !.stamps = [id \in Ids |-> IF id \in start THEN jobs[id].gen ELSE 0]]]
    /\ UNCHANGED <<order, dead, timers, used, batchVars, running, generation, optVars,
                   lifeVars, diskVars>>

(* runBatch: the limiter's wait and the handler are over and complete gets *)
(* the lock.  A handler may ignore its context; only a batch whose context *)
(* is cancelled reports the cancellation (a handler's contract).  A panic  *)
(* and an unregistered kind are terminal errors.                           *)
HandlerReturns(w) ==
    /\ Unlocked
    /\ workers[w].pc = "handling"
    /\ \E o \in Outcomes :
          /\ o = "cancelled" => workers[w].cancelled
          /\ workers' = [workers EXCEPT ![w].pc = "completing", ![w].outcome = o]
    /\ UNCHANGED <<tableVars, timers, used, batchVars, running, generation, optVars,
                   lifeVars, diskVars>>

-----------------------------------------------------------------------------
(* complete: what an outcome does to one job of the batch.  Each operator  *)
(* fixes the table, the timers and the batches.                            *)

Settle(id, state) == [jobs[id] EXCEPT !.state = state, !.cancel = NoWorker]

Succeed(id) ==
    /\ jobs' = [jobs EXCEPT ![id] = Settle(id, "done")]
    /\ UNCHANGED <<order, dead, timers, batchVars>>

(* Mutant: an abandoned job is put back in no batch.                       *)
AbandonForgotten(id) ==
    /\ jobs' = [jobs EXCEPT ![id] = [Settle(id, "queued") EXCEPT !.attempts = @ - 1]]
    /\ UNCHANGED <<order, dead, timers, batchVars>>

(* The batch was abandoned: the job goes back without spending an attempt. *)
Abandon(id) ==
    /\ jobs' = [jobs EXCEPT ![id] = [Settle(id, "queued") EXCEPT !.attempts = @ - 1]]
    /\ IF Closed THEN UNCHANGED batchVars ELSE AddToBatch(id)
    /\ UNCHANGED <<order, dead, timers>>

(* removeLocked, on order: one entry of the id goes.                       *)
Unlisted(o, id) == [o EXCEPT ![id] = IF @ = 0 THEN 0 ELSE @ - 1]

(* deadLetterLocked: the job joins the dead-letter list; when the list is  *)
(* full its oldest entry is evicted, and with it whatever job the table    *)
(* holds under that id.                                                    *)
GiveUp(id) ==
    LET failed == [jobs EXCEPT ![id] = [Settle(id, "failed") EXCEPT !.dead = TRUE]]
        list   == Append(dead, id)
        oldest == Head(list)
    IN  /\ IF Len(list) <= DeadLetterMax
           THEN dead' = list /\ jobs' = failed /\ UNCHANGED order
           ELSE /\ dead' = Tail(list)
                /\ jobs' = [failed EXCEPT ![oldest] = NoJob]
                /\ order' = IF failed[oldest].state = "absent" THEN order
                            ELSE Unlisted(order, oldest)
        /\ UNCHANGED <<timers, batchVars>>

(* scheduleRetryLocked.                                                    *)
ScheduleRetry(id) ==
    /\ jobs' = [jobs EXCEPT ![id] = [Settle(id, "queued") EXCEPT !.retry = TRUE]]
    /\ timers' = [timers EXCEPT ![id] = @ + 1]
    /\ UNCHANGED <<order, dead, batchVars>>

(* Shutting down: the job waits for the next run of the program.           *)
Park(id) ==
    /\ jobs' = [jobs EXCEPT ![id] = Settle(id, "queued")]
    /\ UNCHANGED <<order, dead, timers, batchVars>>

(* Mutant: the ladder allows one attempt too many.                         *)
ExhaustedLate(id) == jobs[id].attempts > MaxAttempts

Exhausted(id) == jobs[id].attempts >= MaxAttempts

Apply(id, outcome) ==
    CASE outcome = "ok"        -> Succeed(id)
      [] outcome = "cancelled" -> Abandon(id)
      [] outcome = "terminal"  -> GiveUp(id)
      [] outcome = "retryable" -> IF Exhausted(id) THEN GiveUp(id)
                                  ELSE IF Closed THEN Park(id) ELSE ScheduleRetry(id)

(* Mutant: a result is applied whatever happened to the job meanwhile.     *)
SupersededNever(w, id) == jobs[id].state = "absent"

(* The job was cancelled, re-queued or forgotten while the handler was     *)
(* inside it, and that decision is the newer one.                          *)
Superseded(w, id) == \/ jobs[id].state # "running"
                     \/ jobs[id].gen # workers[w].stamps[id]

(* complete, for one job of the batch.                                     *)
CompleteJob(w, id) ==
    /\ workers[w].pc = "completing"
    /\ id \in workers[w].jobs
    /\ IF Superseded(w, id) THEN UNCHANGED <<tableVars, timers, batchVars>>
       ELSE Apply(id, workers[w].outcome)
    /\ workers' = [workers EXCEPT ![w].jobs = @ \ {id}]
    /\ UNCHANGED <<used, running, generation, optVars, lifeVars, diskVars>>

(* complete releases the lock; the journal is marked and the observers     *)
(* hear of the changes before the batch is released.                       *)
CompleteEnd(w) ==
    /\ workers[w].pc = "completing"
    /\ workers[w].jobs = {}
    /\ workers' = [workers EXCEPT ![w].pc = "finishing"]
    /\ MarkDirty
    /\ UNCHANGED <<tableVars, timers, used, batchVars, running, generation, optVars,
                   lifeVars>>

(* finishBatch.                                                            *)
FinishBatch(w) ==
    /\ Unlocked
    /\ workers[w].pc = "finishing"
    /\ workers' = [workers EXCEPT ![w] = Idle(@.gen)]
    /\ running' = running - 1
    /\ UNCHANGED <<tableVars, timers, used, batchVars, generation, optVars,
                   lifeVars, diskVars>>

-----------------------------------------------------------------------------
(* Timers and the calls of a user.                                         *)

(* retryFire: a callback that finds no retry scheduled does nothing.       *)
RetryFire(id) ==
    /\ Unlocked
    /\ timers[id] > 0
    /\ timers' = [timers EXCEPT ![id] = @ - 1]
    /\ IF jobs[id].retry /\ jobs[id].state = "queued"
       THEN /\ jobs' = [jobs EXCEPT ![id].retry = FALSE]
            /\ IF Closed THEN UNCHANGED <<batchVars, diskVars>>
               ELSE AddToBatch(id) /\ MarkDirty
       ELSE UNCHANGED <<jobs, batchVars, diskVars>>
    /\ UNCHANGED <<order, dead, used, poolVars, optVars, lifeVars>>

Cancelled(j) == [j EXCEPT !.state = "cancelled", !.gen = @ + 1, !.retry = FALSE,
                          !.cancel = NoWorker]

(* Mutant: the whole open batch leaves with the job.                       *)
CancelQueuedBatch(id) ==
    /\ Callable
    /\ jobs[id].state = "queued"
    /\ jobs[id].gen < MaxGen
    /\ jobs' = [jobs EXCEPT ![id] = Cancelled(@)]
    /\ timers' = [timers EXCEPT ![id] = IF jobs[id].retry THEN @ - 1 ELSE @]
    /\ pending' = [pending EXCEPT ![KeyOf[id]] = IF id \in @ THEN {} ELSE @]
    /\ MarkDirty
    /\ UNCHANGED <<order, dead, used, queue, poolVars, optVars, lifeVars>>

(* Cancel of a queued job: it leaves its retry timer and its open batch,   *)
(* not a batch that is already in the queue.  Stopping the timer fails     *)
(* when its callback has begun and is waiting for the lock.                *)
CancelQueued(id) ==
    /\ Callable
    /\ jobs[id].state = "queued"
    /\ jobs[id].gen < MaxGen
    /\ jobs' = [jobs EXCEPT ![id] = Cancelled(@)]
    /\ \E stopped \in IF jobs[id].retry THEN {0, 1} ELSE {0} :
          timers' = [timers EXCEPT ![id] = @ - stopped]
    /\ pending' = [pending EXCEPT ![KeyOf[id]] = @ \ {id}]
    /\ MarkDirty
    /\ UNCHANGED <<order, dead, used, queue, poolVars, optVars, lifeVars>>

(* The cancel functions of a set of workers are called.                    *)
CancelContexts(W) ==
    [w \in Workers |-> IF w \in W /\ workers[w].pc \in {"handling", "completing"}
                       THEN [workers[w] EXCEPT !.cancelled = TRUE] ELSE workers[w]]

(* Cancel of a running job: the context its batch shares is cancelled.     *)
(* The code does that after it has released the lock; a handler may ignore *)
(* its context, so one that returns in between is among those that may.    *)
CancelRunning(id) ==
    /\ Callable
    /\ jobs[id].state = "running"
    /\ jobs[id].gen < MaxGen
    /\ jobs' = [jobs EXCEPT ![id] = Cancelled(@)]
    /\ workers' = CancelContexts({jobs[id].cancel})
    /\ MarkDirty
    /\ UNCHANGED <<order, dead, timers, used, batchVars, running, generation, optVars,
                   lifeVars>>

Requeued(j) == [j EXCEPT !.state = "queued", !.dead = FALSE, !.attempts = 0, !.gen = @ + 1]

(* Mutant: the id stays in the dead-letter list.                           *)
RetryDeadLetterListed(id) ==
    /\ Callable /\ ~Closed
    /\ jobs[id].dead
    /\ jobs[id].gen < MaxGen
    /\ jobs' = [jobs EXCEPT ![id] = Requeued(@)]
    /\ AddToBatch(id)
    /\ MarkDirty
    /\ UNCHANGED <<dead, order, timers, used, poolVars, optVars, lifeVars>>

(* RetryDeadLetter.                                                        *)
RetryDeadLetter(id) ==
    /\ Callable /\ ~Closed
    /\ jobs[id].dead
    /\ jobs[id].gen < MaxGen
    /\ jobs' = [jobs EXCEPT ![id] = Requeued(@)]
    /\ dead' = RemoveFirst(dead, id)
    /\ AddToBatch(id)
    /\ MarkDirty
    /\ UNCHANGED <<order, timers, used, poolVars, optVars, lifeVars>>

(* ClearDeadLetter: every listed id is forgotten, and with it the job the  *)
(* table holds under that id.                                              *)
ClearDeadLetter ==
    LET listed == ToSet(dead)
        times(id) == Cardinality({i \in DOMAIN dead : dead[i] = id})
    IN  /\ Callable
        /\ dead # <<>>
        /\ jobs' = [id \in Ids |-> IF id \in listed THEN NoJob ELSE jobs[id]]
        /\ order' = [id \in Ids |-> IF times(id) > order[id] THEN 0
                                    ELSE order[id] - times(id)]
        /\ dead' = <<>>
        /\ MarkDirty
        /\ UNCHANGED <<timers, used, batchVars, poolVars, optVars, lifeVars>>

(* pruneLocked, for the finished jobs that are old enough, and the next    *)
(* sweep is armed unless the engine is closed.                             *)
Prune ==
    /\ Unlocked
    /\ pruner
    /\ \E old \in SUBSET {id \in Ids : jobs[id].state \in {"done", "cancelled"}} :
          /\ jobs' = [id \in Ids |-> IF id \in old THEN NoJob ELSE jobs[id]]
          /\ order' = [id \in Ids |-> IF id \in old THEN order[id] - 1 ELSE order[id]]
          /\ IF old # {} THEN MarkDirty ELSE UNCHANGED diskVars
    /\ pruner' = ~Closed
    /\ UNCHANGED <<dead, timers, used, batchVars, poolVars, optVars,
                   life, todo, closing, cancels>>

(* startWorkersLocked: n goroutines of the given generation come up.       *)
StartWorkers(gen, n) ==
    \E W \in SUBSET {w \in Workers : workers[w].pc = "absent"} :
        /\ Cardinality(W) = n
        /\ workers' = [w \in Workers |-> IF w \in W THEN Idle(gen) ELSE workers[w]]

(* Mutant: the new workers join the old ones.                              *)
SetWorkersAdded(n) ==
    /\ Callable /\ ~Closed
    /\ poolSize' = n
    /\ StartWorkers(generation, n)
    /\ UNCHANGED <<tableVars, timers, used, batchVars, running, generation, batchSize,
                   lifeVars, diskVars>>

(* SetWorkers: on a running engine a new generation replaces the pool.     *)
SetWorkers(n) ==
    /\ Callable /\ ~Closed
    /\ poolSize' = n
    /\ IF life = "new" THEN UNCHANGED <<generation, workers>>
       ELSE /\ generation < MaxGeneration
            /\ generation' = generation + 1
            /\ StartWorkers(generation + 1, n)
    /\ UNCHANGED <<tableVars, timers, used, batchVars, running, batchSize,
                   lifeVars, diskVars>>

(* SetBatchSize.                                                           *)
SetBatchSize(n) ==
    /\ Callable /\ ~Closed
    /\ batchSize' = n
    /\ UNCHANGED <<tableVars, timers, used, batchVars, poolVars, poolSize,
                   lifeVars, diskVars>>

-----------------------------------------------------------------------------
(* Start.                                                                  *)

StartBegin ==
    /\ Unlocked
    /\ ~Closed /\ life = "new"
    /\ life' = "loading"
    /\ UNCHANGED <<tableVars, timers, used, batchVars, poolVars, optVars,
                   todo, closing, cancels, pruner, diskVars>>

(* replay: the document is read and the lock taken.                        *)
ReplayBegin ==
    /\ Unlocked
    /\ life = "loading"
    /\ life' = "replaying"
    /\ todo' = {id \in Ids : disk[id].state # "absent"}
    /\ UNCHANGED <<tableVars, timers, used, batchVars, poolVars, optVars,
                   closing, cancels, pruner, diskVars>>

(* Mutant: a job that was running when the process died is not queued.     *)
ReplayedAsIs(id) ==
    [NewJob EXCEPT !.state = disk[id].state,
                   !.attempts = disk[id].attempts,
                   !.dead = (disk[id].state = "failed" /\ disk[id].listed)]

(* replay: the record a journalled job comes back as.  One that was        *)
(* running is queued, with the attempts it had.                            *)
Replayed(id) ==
    [NewJob EXCEPT !.state = IF disk[id].state = "running" THEN "queued" ELSE disk[id].state,
                   !.attempts = disk[id].attempts,
                   !.dead = (disk[id].state = "failed" /\ disk[id].listed)]

(* replay, for one job: it is skipped when its id is taken already, and    *)
(* when it finished too long ago.                                          *)
ReplayJob(id) ==
    /\ life = "replaying"
    /\ id \in todo
    /\ todo' = todo \ {id}
    /\ \/ /\ jobs[id].state # "absent" \/ disk[id].state \in {"done", "cancelled"}
          /\ UNCHANGED <<tableVars, used, batchVars>>
       \/ /\ jobs[id].state = "absent"
          /\ jobs' = [jobs EXCEPT ![id] = Replayed(id)]
          /\ order' = [order EXCEPT ![id] = @ + 1]
          /\ used' = [used EXCEPT ![id] = @ + 1]
          /\ dead' = IF Replayed(id).dead THEN Append(dead, id) ELSE dead
          /\ IF Replayed(id).state = "queued" THEN AddToBatch(id) ELSE UNCHANGED batchVars
    /\ UNCHANGED <<timers, poolVars, optVars, life, closing, cancels, pruner, diskVars>>

(* The file is marked dirty when the replay restored a job; here also when *)
(* Start found every job of the file in memory already, one write more.    *)
ReplayEnd ==
    /\ life = "replaying"
    /\ todo = {}
    /\ life' = "replayed"
    /\ IF \E id \in Ids : disk[id].state # "absent" THEN MarkDirty ELSE UNCHANGED diskVars
    /\ UNCHANGED <<tableVars, timers, used, batchVars, poolVars, optVars,
                   todo, closing, cancels, pruner>>

(* The pool of the generation that is current now comes up, and the sweep  *)
(* of old jobs is armed.  Whether Close was called meanwhile is not asked. *)
StartPool ==
    /\ Unlocked
    /\ life = "replayed"
    /\ life' = "up"
    /\ StartWorkers(generation, poolSize)
    /\ pruner' = ~Closed
    /\ UNCHANGED <<tableVars, timers, used, batchVars, running, generation, optVars,
                   todo, closing, cancels, diskVars>>

-----------------------------------------------------------------------------
(* Close.                                                                  *)

(* Nothing is left for Flush to wait for.                                  *)
Drained == queue = <<>> /\ running = 0 /\ \A k \in Keys : pending[k] = {}

(* Everything the journal records of the job table.                        *)
Snapshot == [id \in Ids |-> [state |-> jobs[id].state, attempts |-> jobs[id].attempts,
                             listed |-> id \in ToSet(dead)]]

(* shutdown: no further enqueue is accepted; an engine that never started  *)
(* has nothing to drain.                                                   *)
CloseBegin ==
    /\ Callable
    /\ closing = "open"
    /\ closing' = IF life = "new" THEN "retire" ELSE "flush"
    /\ UNCHANGED <<tableVars, timers, used, batchVars, poolVars, optVars,
                   life, todo, cancels, pruner, diskVars>>

(* shutdown: its Flush fires every open batch.                             *)
CloseFlush ==
    /\ Unlocked
    /\ closing = "flush"
    /\ closing' = "drain"
    /\ FireAll
    /\ UNCHANGED <<tableVars, timers, used, poolVars, optVars,
                   life, todo, cancels, pruner, diskVars>>

(* shutdown: its Flush returns, because the queue is drained or because    *)
(* the deadline of Close has passed.                                       *)
CloseDrained ==
    /\ Unlocked
    /\ closing = "drain"
    /\ Drained
    /\ closing' = "retire"
    /\ UNCHANGED <<tableVars, timers, used, batchVars, poolVars, optVars,
                   life, todo, cancels, pruner, diskVars>>

CloseExpired ==
    /\ Unlocked
    /\ closing = "drain"
    /\ ~Drained
    /\ closing' = "retire"
    /\ UNCHANGED <<tableVars, timers, used, batchVars, poolVars, optVars,
                   life, todo, cancels, pruner, diskVars>>

(* Mutant: the pool is not retired.                                        *)
CloseRetireSamePool ==
    /\ Unlocked
    /\ closing = "retire"
    /\ closing' = "cancel"
    /\ timers' = [id \in Ids |-> IF jobs[id].retry THEN timers[id] - 1 ELSE timers[id]]
    /\ cancels' = {jobs[id].cancel : id \in Ids} \ {NoWorker}
    /\ jobs' = [id \in Ids |-> [jobs[id] EXCEPT !.retry = FALSE, !.cancel = NoWorker]]
    /\ pending' = [k \in Keys |-> {}]
    /\ pruner' = FALSE
    /\ UNCHANGED <<order, dead, used, queue, workers, running, generation, optVars,
                   life, todo, diskVars>>

(* shutdown: the pool is retired, the timers are stopped unless their      *)
(* callbacks have begun, the contexts of the running jobs are collected    *)
(* and the open batches dropped.                                           *)
CloseRetire ==
    LET waiting == {id \in Ids : jobs[id].retry} IN
    /\ Unlocked
    /\ closing = "retire"
    /\ closing' = "cancel"
    /\ generation' = generation + 1
    /\ \E stopped \in SUBSET waiting :
          timers' = [id \in Ids |-> IF id \in stopped THEN timers[id] - 1 ELSE timers[id]]
    /\ cancels' = {jobs[id].cancel : id \in Ids} \ {NoWorker}
    /\ jobs' = [id \in Ids |-> [jobs[id] EXCEPT !.retry = FALSE, !.cancel = NoWorker]]
    /\ pending' = [k \in Keys |-> {}]
    /\ pruner' \in {FALSE, pruner}
    /\ UNCHANGED <<order, dead, used, queue, workers, running, optVars,
                   life, todo, diskVars>>

(* shutdown: the collected contexts are cancelled, without the lock.       *)
CloseCancel ==
    /\ closing = "cancel"
    /\ closing' = "wait"
    /\ workers' = CancelContexts(cancels)
    /\ cancels' = {}
    /\ UNCHANGED <<tableVars, timers, used, batchVars, running, generation, optVars,
                   life, todo, pruner, diskVars>>

(* Mutant: the journal is closed before the workers are gone.              *)
CloseWaitNot ==
    /\ Unlocked
    /\ closing = "wait"
    /\ closing' = "closed"
    /\ disk' = IF Persistent THEN Snapshot ELSE disk
    /\ dirty' = FALSE
    /\ UNCHANGED <<tableVars, timers, used, batchVars, poolVars, optVars,
                   life, todo, cancels, pruner, crashes>>

(* shutdown: every worker and every timer is gone, and the journal is      *)
(* written one last time.                                                  *)
CloseWait ==
    /\ Unlocked
    /\ closing = "wait"
    /\ \A w \in Workers : workers[w].pc = "absent"
    /\ \A id \in Ids : timers[id] = 0
    /\ ~pruner
    /\ \A k \in Keys : pending[k] = {}
    /\ closing' = "closed"
    /\ disk' = IF Persistent THEN Snapshot ELSE disk
    /\ dirty' = FALSE
    /\ UNCHANGED <<tableVars, timers, used, batchVars, poolVars, optVars,
                   life, todo, cancels, pruner, crashes>>

-----------------------------------------------------------------------------
(* The journal and the death of the process.                               *)

(* The journal's timer writes the table as it is now.                      *)
Persist ==
    /\ Unlocked
    /\ dirty
    /\ disk' = Snapshot
    /\ dirty' = FALSE
    /\ UNCHANGED <<tableVars, timers, used, batchVars, poolVars, optVars, lifeVars, crashes>>

(* The process dies, or has ended, and another one is started.             *)
Crash ==
    /\ crashes < MaxCrashes
    /\ crashes' = crashes + 1
    /\ jobs' = [id \in Ids |-> NoJob] /\ order' = [id \in Ids |-> 0] /\ dead' = <<>>
    /\ timers' = [id \in Ids |-> 0] /\ used' = [id \in Ids |-> 0]
    /\ pending' = [k \in Keys |-> {}] /\ queue' = <<>>
    /\ workers' = [w \in Workers |-> NoWork] /\ running' = 0 /\ generation' = 0
    /\ life' = "new" /\ todo' = {}
    /\ closing' = "open" /\ cancels' = {}
    /\ pruner' = FALSE /\ dirty' = FALSE
    /\ UNCHANGED <<optVars, disk>>

-----------------------------------------------------------------------------
WorkerStep(w) ==
    \/ RetireWorker(w) \/ NextBatch(w) \/ StartBatch(w) \/ HandlerReturns(w)
    \/ (\E id \in Ids : CompleteJob(w, id)) \/ CompleteEnd(w) \/ FinishBatch(w)

UserStep ==
    \/ \E id \in Ids : Enqueue(id) \/ CancelQueued(id) \/ CancelRunning(id)
                       \/ RetryDeadLetter(id)
    \/ ClearDeadLetter \/ Flush
    \/ \E n \in PoolSizes : SetWorkers(n)
    \/ \E n \in BatchSizes : SetBatchSize(n)

StartStep == StartBegin \/ ReplayBegin \/ (\E id \in Ids : ReplayJob(id))
             \/ ReplayEnd \/ StartPool

CloseStep == CloseBegin \/ CloseFlush \/ CloseDrained \/ CloseExpired
             \/ CloseRetire \/ CloseCancel \/ CloseWait

TimerStep == (\E k \in Keys : Fire(k)) \/ (\E id \in Ids : RetryFire(id)) \/ Prune
             \/ Persist

(* The program is over.                                                    *)
Ended == closing = "closed" /\ UNCHANGED vars

Next == (\E w \in Workers : WorkerStep(w)) \/ UserStep \/ StartStep \/ CloseStep
        \/ TimerStep \/ Crash \/ Ended

Spec == Init /\ [][Next]_vars

(* The goroutines run, timers fire, handlers return and Start and Close go *)
(* on once they were called: none of them waits for a call of the user.    *)
Fairness ==
    /\ \A w \in Workers : WF_vars(WorkerStep(w))
    /\ \A k \in Keys : WF_vars(Fire(k))
    /\ \A id \in Ids : WF_vars(RetryFire(id))
    /\ WF_vars(Prune)
    /\ WF_vars(StartStep)
    /\ WF_vars(CloseFlush \/ CloseDrained \/ CloseRetire \/ CloseCancel \/ CloseWait)

FairSpec == Spec /\ Fairness

-----------------------------------------------------------------------------
JobType == [state: States, attempts: Nat, gen: Nat, cancel: Workers \cup {NoWorker},
            retry: BOOLEAN, dead: BOOLEAN]

WorkType == [pc: {"absent", "idle", "popped", "handling", "completing", "finishing"},
             gen: Nat, batch: SUBSET Ids, jobs: SUBSET Ids, stamps: [Ids -> Nat],
             cancelled: BOOLEAN, outcome: Outcomes]

DocType == [Ids -> [state: States, attempts: Nat, listed: BOOLEAN]]

TypeOK ==
    /\ jobs \in [Ids -> JobType]
    /\ order \in [Ids -> Nat]
    /\ dead \in Seq(Ids)
    /\ timers \in [Ids -> Nat]
    /\ used \in [Ids -> Nat]
    /\ pending \in [Keys -> SUBSET Ids]
    /\ queue \in Seq(SUBSET Ids)
    /\ workers \in [Workers -> WorkType]
    /\ running \in Nat /\ generation \in Nat
    /\ poolSize \in PoolSizes /\ batchSize \in BatchSizes
    /\ life \in {"new", "loading", "replaying", "replayed", "up"}
    /\ todo \subseteq Ids
    /\ closing \in {"open", "flush", "drain", "retire", "cancel", "wait", "closed"}
    /\ cancels \subseteq Workers
    /\ pruner \in BOOLEAN
    /\ disk \in DocType /\ dirty \in BOOLEAN /\ crashes \in Nat

Busy(w) == workers[w].pc \notin {"absent", "idle"}

(* The job is in a batch that some worker will start.                      *)
Waiting(id) == \/ id \in pending[KeyOf[id]]
               \/ \E i \in DOMAIN queue : id \in queue[i]
               \/ \E w \in Workers : workers[w].pc = "popped" /\ id \in workers[w].batch

(* "Losing it would be the one thing a queue must never do" (engine.go,    *)
(* complete): while the engine is open, a queued job is in a batch that a  *)
(* worker will start or has a retry timer that will put it in one, whatever *)
(* Cancel, a timer or a worker did to the batch it was in.                 *)
NoJobStranded ==
    ~Closed => \A id \in Ids : jobs[id].state = "queued" =>
                  Waiting(id) \/ (jobs[id].retry /\ timers[id] > 0)

(* What Flush promises when it returns: no job is running, and a job that  *)
(* is still queued waits for a scheduled retry, or for the next run of an  *)
(* engine that is closing.                                                 *)
DrainedMeansSettled ==
    Drained => \A id \in Ids :
        /\ jobs[id].state # "running"
        /\ jobs[id].state = "queued" => jobs[id].retry \/ Closed

(* A job that is running is inside exactly the handler call whose context  *)
(* Cancel would cancel, so its result is applied at most once and only by  *)
(* the call that took the newest attempt (jobRecord.gen).                  *)
ResultsFenced ==
    \A w \in Workers : \A id \in workers[w].jobs :
        ~Superseded(w, id) => jobs[id].cancel \in {w, NoWorker}

(* The dead-letter list is exactly the failed jobs, each of them once:     *)
(* what the list shows can be retried, and clearing it drops nothing else. *)
DeadListExact ==
    /\ \A i, j \in DOMAIN dead : dead[i] = dead[j] => i = j
    /\ \A id \in Ids : /\ id \in ToSet(dead) <=> jobs[id].dead
                       /\ jobs[id].dead <=> jobs[id].state = "failed"
    /\ Len(dead) <= DeadLetterMax

(* A caller that uses an id again waits until the last job of that name is *)
(* done with: off the dead-letter list and out of every handler.  Nothing  *)
(* in the engine asks for it, and the callers of Enqueue that name their   *)
(* jobs themselves do not wait (README, section 6).                        *)
Careful == \A id \in Ids : Enqueue(id) =>
               id \notin ToSet(dead) /\ \A w \in Workers : id \notin workers[w].jobs

CarefulReuse == [][Careful]_vars

(* MaxAttempts "is how many handler calls a job may take part in before it *)
(* is dead-lettered" (retry.go, RetryPolicy).                              *)
CallsWithinBudget == \A id \in Ids : jobs[id].attempts <= MaxAttempts

(* However cancelled siblings, retries and user retries interleave, a job  *)
(* stays within its budget and one that is queued has an attempt left.     *)
AttemptsWithinBudget ==
    /\ CallsWithinBudget
    /\ \A id \in Ids : jobs[id].state = "queued" => jobs[id].attempts < MaxAttempts

(* Close "retires every worker and timer" and nothing moves afterwards.    *)
ClosedIsQuiet ==
    closing = "closed" =>
        /\ \A w \in Workers : workers[w].pc = "absent"
        /\ \A id \in Ids : timers[id] = 0 /\ jobs[id].state # "running"
        /\ \A k \in Keys : pending[k] = {}
        /\ ~pruner

(* Once Close has cancelled what runs, every handler that is still running *)
(* has been told so (Handler: its context is cancelled "when the engine is *)
(* closed with an expired deadline").                                      *)
HandlersToldOfClose ==
    closing \in {"wait", "closed"} =>
        \A w \in Workers : workers[w].pc = "handling" => workers[w].cancelled

(* Options.Workers "is the size of the pool": however often the pool is    *)
(* resized while batches run, as many workers as it says serve the current *)
(* generation, and the others take no further batch.                       *)
PoolHasItsSize ==
    life = "up" /\ closing \in {"open", "flush", "drain", "retire"} =>
        Cardinality({w \in Workers : workers[w].pc # "absent"
                                      /\ workers[w].gen = generation}) = poolSize

(* The snapshot lists a job once: "Jobs is every job the engine remembers" *)
(* and Counts, which counts the table, "summarizes Jobs by state" (job.go).*)
SnapshotListsOnce ==
    \A id \in Ids : jobs[id].state # "absent" => order[id] = 1

(* No job is accepted before Start (ErrNotStarted "is returned when a job  *)
(* is enqueued before Start", errors.go).                                  *)
EnqueueNeedsStart == [][life = "new" /\ crashes' = crashes => used' = used]_vars

(* A queued or running job is never forgotten, and no job ever takes a     *)
(* step that the life of a job does not have.                              *)
Lifecycle == INSTANCE JobLifecycle WITH state <- [id \in Ids |-> jobs[id].state]
LifecycleRefined == Lifecycle!Spec

(* A restart loses nothing the journal holds: a job that was queued or     *)
(* running when it was written is queued again, in a batch, and a          *)
(* dead-lettered job can still be retried.                                 *)
ReplayLosesNothing ==
    [][life = "replaying" /\ life' = "replayed" =>
         \A id \in Ids :
            /\ disk[id].state \in {"queued", "running"} =>
                  jobs[id].state = "queued" /\ Waiting(id)
            /\ disk[id].state = "failed" /\ disk[id].listed => jobs[id].dead]_vars

(* Every job that is queued is eventually done, failed, cancelled or       *)
(* forgotten, unless the engine is closed.                                 *)
EveryJobSettles ==
    \A id \in Ids : (jobs[id].state \in {"queued", "running"})
                       ~> (jobs[id].state \notin {"queued", "running"} \/ Closed)

(* Close returns: its drain ends, every worker retires and every timer is  *)
(* gone, whatever was running or waiting when it was called.               *)
CloseReturns == Closed ~> (closing = "closed")
=============================================================================
