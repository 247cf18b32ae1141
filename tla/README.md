# git-in-track: models, checks and proofs

git-in-track keeps a project's items (tasks, epics, comments, specifications) as
Markdown files in Git repositories. A companion process, `gintrack serve`, serves them
to a web application, to agents over MCP and to a command line, commits what is
edited, syncs repositories, publishes the workspace through a tunnel and talks to
YouTrack. Much of it is sequential code over files. This development is about the part
where goroutines, timers, processes, crashes, files and connections meet: the background
job engine, commit-on-save, the live event stream, the public tunnel, the watcher and the
index it feeds, the files and numbers of the backlog, the sync of a repository, and the
Pando process that is kept running beside it.

Contents: [1 inventory](#1-inventory) · [2 modules and code](#2-modules-and-code) ·
[3 runs and bounds](#3-runs-and-bounds) · [4 fairness](#4-fairness) ·
[5 proofs](#5-proofs) · [6 where code and words disagree](#6-where-code-and-words-disagree) ·
[7 what is not modelled](#7-what-is-not-modelled) · [8 plan](#8-plan)

Run a check with `tlc -workers 2 -config X.cfg M` and a proof with `tlapm M.tla`.
Paths below are relative to the repository.

## 1. Inventory

| Component | State it keeps | Operations | What is hard | What makes it correct |
|---|---|---|---|---|
| **Job engine** `internal/syncengine/engine.go`, `job.go`, `retry.go` | job table, open batches, queue, dead-letter list, retry timers, workers, generation | Enqueue, Cancel, RetryDeadLetter, ClearDeadLetter, Flush, SetWorkers, SetBatchSize, Start, Close; worker loop; batch, retry and prune timers | a job is in one of five places and each operation must move it whole; a cancel hits a whole batch; retry callbacks outlive their Stop; Start replays without the lock; Close has a deadline | no queued job is stranded; drained means settled; the dead-letter list is exact; the budget of attempts is kept; Close returns and leaves nothing behind; a job's life is the one `job.go` draws |
| **Announcer** `announce.go` | turns issued, turn served | reserveLocked, run | a change is made under the lock and told after it | observers hear changes in order, one at a time, and all of them |
| **Journal** `journal.go` | armed, timer, closed, last error; the file and its temporary file | markDirty, write, close, load | snapshot and lock are taken separately; a write may fail or be cut by a death | the file is always whole; each change gets there |
| **Rate limiter** `limiter.go` | rate, burst, tokens, last refill | wait, setRate | waiters race after sleeping; the rate changes under them | the rate is kept; waiters are served |
| **Commit-on-save** `internal/gitops/committer.go` | pending batches, timers, in-flight count, repository locks, wait group | Enqueue, fire, Flush, Close | a timer whose Stop lost the race; a batch between pending and in flight; a second Close | no edit is lost or committed early; Flush and Close wait for all they promise |
| **Event stream** `internal/server/hub.go`, `events.go`; `web/src/api/companion-provider.ts` | sequence number, replay ring, clients with two queues and an overflow mark; the tab's cursor | Publish, since, resume, the pumps, reconnect | numbering and delivery are two steps; back-pressure; replay and live events on one socket; restart | Publish never waits; a stream is complete or the tab is told to refetch; a resume loses nothing |
| **Tunnel** `internal/tunnel/tunnel.go`, `internal/server/tunnel.go` | generation, running, stopping, connections, status; the goroutine of each round; the server's toggle | enable, disable; the round's death and end; events of cloudflared; the status callback | Stop during Start; a Stop that gives up; events of an older round; callbacks outside the lock | one tunnel; what is up can be closed; a settled status is true; a death is reported |
| **File watcher** `internal/watcher` | buffer of paths, debounce timer, window, polling snapshot, channel of batches | record, arm, fire, send, adopt a directory, degrade, poll, Close | events of a path are merged; a directory fills before it is watched; the kernel's queue overflows; a consumer stops reading | what changed is delivered; the window is bounded; Close returns |
| **Live index** `internal/core/index.go`, `freshness.go`, `internal/server/watch.go`, `internal/vault` (Reload, ApplyEvents, freshen, commit) | the entries per path and the lookups computed from them | build, apply a batch, freshen on read, write and delete through the vault | batches are older than what reads have seen; a batch may break off | nothing falls between disk and index; reads are fresh |
| **Backlog store and id allocator** `internal/core/store.go`, `allocator.go` | item files, temporary files, counter and redirects in `project.yaml`; each process's reservation | create, update, rename, delete, allocate, rediscover | several processes, no lock between them; find, compare and write are steps of their own; crashes | no own write is lost; no number is given twice by one writer |
| **Renumbering** `internal/core/doctor.go` | a plan, a file transaction | plan, ask, apply, roll back | failure half way, also of the rollback; writers beside it, with the same temporary names | done or not done; old ids still lead somewhere |
| **Sync run** `internal/gitops/sync.go`, `sync_system.go`, `sync_gogit.go`, `conflicts_system.go`; `internal/server/sync.go`, `conflicts.go` | the repository: working tree, index, branch, remote-tracking branch, stopped integration | preflight, fetch, integrate, push with retries; resolve, continue, abort | no lock across git's commands; the caller goes away in the middle; the remote moves | no commit is lost; what is reported is true; every run ends |
| Sync-job observer, handlers, REST `internal/server/sync*.go`, `youtrackjobs.go` | throttle per group | observe, enqueue a coalesced id | ids that are enqueued again and again | every last state reaches the hub |
| **Pando supervisor** `internal/pando/supervisor`, `internal/server/search_managed*.go`, `search_discovered.go` | child process, instance directory with lock and state file; per server the slot of the repository | Start, Stop, Restart, the loop with crashes and backoff; start, stop, reset, opt-in, opt-out, shutdown | the server is killed and leaves a child; an enable meets a stop; Stop comes during Start; several servers share the directory | one child per directory; no child that nobody can stop; every request ends |
| Core model, vault operations, REST, MCP, trace, impact, config, CLI, self-update, web application | files; a store per view | request-sized, sequential | parsing and merging | unit tests throughout |

How they interact. An HTTP or MCP handler edits items through the **vault**: it allocates
a number, writes the **store**'s files, brings the **index** up to date, enqueues an edit in
the **committer**, and publishes an event in the **hub**, which hands it to one WebSocket
connection per tab. Editors and git change the same files behind its back; the **watcher**
tells the watch loop, which applies the batch to the index. A **sync run** moves commits
between the clone and its remote while the committer commits and editors save; git alone
keeps order between their commands. YouTrack and sync work goes to the **job
engine**, from handlers and schedulers; its workers pass the **limiter** before each
batch, each change of a job is told to an observer through the **announcer**, and to
the **journal** through `markDirty`; the observer publishes it in the hub. So does the
**tunnel**, whose status callback is the hub's `tunnel.changed`. The engine,
the committer and the hub share no lock: the engine calls the announcer and the journal
outside `Engine.mu`, and the journal calls back for a snapshot. That is why each is a
module of its own, whose environment is any caller at any moment. Where parts do share
state they are composed: watcher and index over one disk (`LiveIndex`), allocator, store
and renumbering over one folder (`Renumber`), sync, conflict handlers and
commit-on-save over one clone (`SyncRun`), hub, pumps and tab over one connection
(`EventStream`).

## 2. Modules and code

An action is one critical section of the component's mutex (or one step between two of
them), because that is the grain at which goroutines interleave. Each definition's
source lines are in `PROJECT.json` under `map`. Some modules hold, before the definition
of an action, a variant marked *Mutant*: a plausible bug, used to show that a property
fails when the code has it. No specification uses a variant.

**`SyncEngine`** is `engine.go`. `jobs` is `Engine.jobs` (an id without a record has the
state `absent`); `order`, `dead`, `pending`, `queue`, `running`, `generation` have the
code's names. A batch is the set of its jobs. `jobRecord.batchKey` is not a variable: it
is set exactly while the id is in `pending[KeyOf[id]]`. `timers` counts the retry
callbacks of an id that are armed or have begun, since `Stop` may come too late;
`stamps` of a worker are the `gen` numbers it took the jobs with. The one critical
section that loops over a batch (`complete`) and the replay loop take a step per job,
and `Unlocked` keeps everybody else out meanwhile. The order of the actions in a worker
is the code's: `RetireWorker | NextBatch`, `StartBatch`, `HandlerReturns`, `CompleteJob`*,
`CompleteEnd`, `FinishBatch`. `Start` is `StartBegin`, `ReplayBegin`, `ReplayJob`*,
`ReplayEnd`, `StartPool`; `Close` is `CloseBegin`, `CloseFlush`, `CloseDrained |
CloseExpired`, `CloseRetire`, `CloseCancel`, `CloseWait`. With `StartAlone` nothing else is
called until Start has returned, the order that `errors.go` asks of callers; without it,
anything may be. `Persist` writes the table in one step; what is between is in `SyncJournal`.

**`JobLifecycle`** is the abstract engine: the edges of `transitions` in `job.go`, how a
record appears, and that it disappears only when the job is finished.
`LifecycleRefined` states that `SyncEngine` implements it.

**`Announcer`** is `announce.go`, **`OrderedLog`** what it promises; `HeardInOrder` is the
refinement. A change may touch no job and still takes a turn.

**`SyncJournal`** is `journal.go`. The table is a version number. The write of the
temporary file is two steps, so that a death or a failure may leave it `Torn`; the
rename is one, as POSIX says. A callback of the timer is a goroutine that has fired, so
several may be under way. The names that each module has (`Init`, `TypeOK`) carry a prefix here and in
`RateLimiter`, since one proof module extends both and `Announcer`.

**`RateLimiter`** is `limiter.go` with `Engine.SetRate`. Time is ticks and tokens are
whole units, so that a `float64` bucket is exact here; rounding is not modelled.

**`Committer`** is `committer.go`. A pending batch has a number (the identity that a
callback compares as a pointer), a count of armings, and whether its timer runs. `Expire`
is the moment after which `Stop` returns false.

**`EventStream`** composes `hub.go`, the two pumps of `events.go` and the reconnecting
tab. `Publish`, `List`, `Deliver`, `MarkOverflow` are the code's four critical sections. An event
is its `seq`, and a number of the model's own that survives a restart. `overtaken` is the
history behind `ResumeComplete`: what a connection had been handed after a later event when
its socket died.

**`Tunnel`** is `tunnel.Manager` and the server's toggle over it. A round is one run of
cloudflared, named by its generation. A toggle takes the steps `Enable`, `SetStarting`,
`Provisioned | NotProvisioned`, `Launch`, or `Disable`, `Cancel`, `Waited | GiveUp`, `SetOff`,
`Stopped`; the goroutine of a round `Exit | Fail`, `SetError`, `Close`. `Set` stores a
status under the lock and leaves the thread in `outbox` until its callback has run, since
the callback is called outside it. `observed`, `events` and `dispatch` are an event's way
from cloudflared to `applyEvent`, whose two critical sections are `ApplyEvent` and `StoreEvent`.

**`Watcher`** is `watcher.go` over one repository; **`LiveIndex`** composes it with the tree
of files, the server's watch loop and the index. `kernel` is the inotify queue, `pending` the
buffer of the window, `batch` what `flush` is sending, `events` the
channel. A batch has one event for a path and gives each path its op; the order of its events
matters only to a pass that breaks off, which leaves open what it had read (`ApplyFails`).
`Merge` is `mergeOps`. Time is ticks. A file is the number of its last edit, so the
index is right about a path when `primary` and `disk` have the same number there; `twins`
are files whose size and time did not change with their content.

**`Allocation`** is the arithmetic of `allocator.go`, **`Backlog`** the store and the allocator
of several processes over one folder, one file access a step; **`Renumber`** adds
`gintrack doctor --renumber`. A file is a record of its number, title, item and revision,
and of who made it and who wrote it last. `ReadChecked` (find and compare), `Stage`, `Guard` and
`Land` follow a write from the read to the rename; `ReadCounter`, `StageCounter` and `LandCounter` are the
read-modify-write of `project.yaml`. `tmps` and `ytmp` are the files `<path>.tmp` and `project.yaml.tmp`, which all
processes share. The doctor's run goes `Open`, `FindDuplicates`, `GiveNumber`*, `GiveUp | Prepare`; `fileTx.commit`
is `CommitRead`, `CommitStage`, `CommitLand` per file, then the same three for `project.yaml` (`Config...`), then `RemoveRead` and
`CommitRemove` per old path, then `Applied`. Each access may fail (`CommitFails`, or the rename that finds its temporary file gone),
and then `fileTx.rollback` goes back access by access, in the order of the code: `UndoReplaced`*, `UndoConfig`, `UndoRemoved`*,
`UndoCreated`*, `RolledBack`. An access of the rollback may fail too (`ok`), and the next one is tried; the doctor may die at any step.

**`SyncRun`** is a sync of one clone. `remote` is the sequence of commits both clones know,
`branch` the part of it the local branch has and its own commits after it, `open` a rebase
or merge that stopped. A run goes `Preflight`, `Fetch`, `Status`, `Integrate` (or `GoGitCheck`
and `HardReset`), `Ahead`, `Push | PushRejected`, `Finish`, one git command a step; `Fails` and
`Killed` may end each of them. `Resolve`, `WriteResolution`, `Resume` and `Undo` are the
conflict handlers, `CommitOnSave` the committer.

**`Supervisor`** is `supervisor.Supervisor` and the slot that `search_managed.go` keeps of it in each
`gintrack serve`. `sup` holds the supervisors and where their goroutine is; Start is `Acquire`, `Check`,
`Launch`, the loop `Spawn | NoSpawn`, `Record`, `Ready`, `Unhealthy | Bounce`, `ForceEnd`, `Ended`, and `Retry`,
`Revive`, `Leave`, `End` between children. A request is `Ask`, `Remove`, `StopCall`, `Waited` and `Clean` or
`Again`; a shutdown `Shutdown`, `StopCall`, `Waited`, `Exit`. `Die` is the end of a process: the kernel
gives its locks back and tells its children to end, which they may ignore. `lockfile` is what the name
`supervisor.lock` stands for, since a lock stays on a file whose name was removed.

## 3. Runs and bounds

| Run (cfg) | Asks | Instance |
|---|---|---|
| `announcer` (`MCAnnouncer`) | refinement of `OrderedLog`, all heard | 3 goroutines, 4 turns of 0 to 2 jobs |
| `engine` (`MCSyncEngine`) | four safety properties of the engine, the refinement of `JobLifecycle`, every job settles, Close returns | 2 jobs, 1 worker, batches of 1 to 3, 2 attempts, 1 dead letter, a cancel or user retry per record (292 158 states) |
| `restart` (`MCSyncRestart`) | pool resizing and crash recovery | 2 jobs, 3 workers, pools of 1 and 2, one resize, one crash |
| `journal` (`MCSyncJournal`) | the file is whole, no change is forgotten, each gets to the disk | 2 callbacks and Close, 3 changes, 1 death, any failures |
| `limiter` (`MCRateLimiter`) | the rate is kept, waiters are served | 2 workers, rates 0, 1, 2, 4 of a token of 3 units, bursts 1, 2, windows of 3 ticks |
| `committer` (`MCCommitter`) | every edit committed, one commit per repository, what Flush and Close promise | 3 edits of 2 items of one repository, 1 timer goroutine, 2 callers of Flush, 1 of them of Close |
| `events` (`MCEventStream`) | complete streams, complete resumes, Publish returns | 2 publishers, 4 events, ring of 2, queues of 1, 2 connections, 1 restart (875 382 states) |
| `tunnel` (`MCTunnel`) | nothing is out of hand, a settled status is true, nothing ends in silence | 2 requests, 3 generations, 1 connection per round, 2 events, a channel of 1 (339 016 states) |
| `live_index` (`MCLiveIndex`) | nothing falls between disk and index, reads are fresh, the index follows | an item and a page in a directory that appears late, 3 edits, kernel queue of 2, channel of 1, window of 2 ticks (146 272 states) |
| `renumber` (`MCRenumber`) | duplicates need two writers until a renumbering is rolled back, no own write lost, renumbering is atomic, old ids resolve | a server and a doctor, 4 backlogs to begin with, 2 titles, numbers to 4, 6 revisions, 3 arrivals, a pull or a death or failure of the rollback, failing accesses (378 382 states) |
| `sync_run` (`MCSyncRun`) | no commit lost, reports are true, runs end | a tab and a command line, both backends, 2 saves (one committed before), 1 commit of others, 1 conflicted path, 1 retry, 2 calls of a user (558 771 states) |
| `supervisor` (`MCSupervisor`) | one child per directory, none out of hand | 2 servers, 1 request at a time (reset, opt-out with deletion, shutdown), 2 supervisors, 3 children, crash limit 2, 2 mishaps (3 398 400 states) |

What the properties say:

- `NoJobStranded`: a queued job is in a batch that a worker will start or has an armed
  retry timer, whatever Cancel, timers, workers and resizing did to its batch.
- `DrainedMeansSettled`: when `Flush` sees the engine drained, nothing runs, and what is
  still queued waits for its retry. It fails if a popped batch is counted late.
- `DeadListExact`, `ClosedIsQuiet`, `PoolHasItsSize`: the list and the records agree; a
  closed engine has no worker, timer or batch left; the pool that serves is as large as
  asked. `EveryJobSettles`, `CloseReturns`: a job that was accepted gets to an end, and so
  does Close, whatever it meets.
- `HeardInOrder`, `EveryChangeHeard`: the observer hears the changes in the order they were
  made, and all of them.
- `LifecycleRefined`: no job takes an edge its life does not have, and none that is queued
  or running is ever forgotten.
- `ReplayLosesNothing`: after a restart each unfinished job of the journal is queued and in
  a batch, and each listed dead letter can be retried.
- `JournalReadable`, `NoChangeForgotten`, `ChangeReachesDisk`: the file is
  never torn; a change that was announced and that no snapshot has is on its way; the
  change gets to the disk unless the disk refuses, the process dies or Close begins.
- `RateKept`: in any window during which the rate is not changed, no more batches get
  through than the burst and what the rate earned. `WaitersServed`: while a limit stays on,
  waiting workers are served, however often its value is changed.
- `OneCommitPerRepo`, `FlushCommits`, `DebounceHonoured`, `CloseIsQuiet`,
  `EditsAreCommitted`: two commits never run in one repository; Flush returns when all it
  was due is committed and nothing is being written; a stale timer never commits a batch
  whose debounce was started again; when Close returns all is quiet; every accepted edit is
  committed, and Close, which waits for that, returns.
- `StreamComplete`: on a connection that stays up, once nothing is under way, the tab was
  told of every event after its cursor or was made to refetch. `ResumeComplete`: over all
  its connections a tab misses only an event that a later one had overtaken when its socket
  died. `PublishReturns`: whatever the pumps do.
- `NothingOutOfHand` (`OneTunnel`, `UpIsStoppable`, `ClosedIsClosed`): one tunnel at a time but for
  one whose Stop gave up; a tunnel that runs uncancelled is the one a DELETE would close; after
  a close nothing is up but what was cancelled and outlives its Stop. `SettledTruth`: once every
  event and callback has been handled, the status has the state and the connections the tunnel
  has, but for the three accidents that `astray` names. `DeathReported`: a tunnel that dies is
  reported, or a later toggle has taken over, and every toggle returns.
- `NothingFallsBetween`: where the index differs from the disk, news is on its way to it, unless
  it is one of the losses that `lost` and `voided` name (section 7). `ReadsAreFresh`: after a pass
  that ended well the index's halves agree, and reading a known item or a page answers what the
  disk holds. `IndexFollows`: a difference disappears, and Close ends the loop even while a
  consumer that stopped reading holds up a batch.
- `NoClashOfItsOwn`: until a renumbering is rolled back (`undone`), two files with one number come from
  two processes, or from git (`ClashesNeedTwoWriters`); section 5 says what a rollback does to it.
  `NoOwnLoss`: a process never loses its own earlier write to its own later one.
  `RenumberIsAtomic`: an applied plan leaves no clash, keeps every item and leaves a redirect for
  each file it moved; one that failed has put every file and `project.yaml` back, when nobody disturbed it and no access of
  the rollback failed too.
  `OldIdsResolve`: until it is hard-deleted, an item is there, and the redirects lead to it from every
  number it was ever written with, except while a rollback is under way, and unless a redirect or a write was lost, a rollback failed or was cut by a death, or a
  renumbering that was disturbed ended half way (`trampled`, `clobbered`).
  That is what `project.yaml` keeps, not what a lookup makes of it: see `OldLinksResolve` in section 6.
- `NothingLost`: every save is in the working tree, on the branch, in the stopped integration or
  on the remote, or was thrown away by an abort. `ReportsAreTrue`: a run that is `done` has published
  what it set out to, and has moved at least what it says it pulled and pushed, when it was alone.
  `RunsEnd`: however often its push is rejected.
- `OneChild`: two children live at once in one directory only if one lost its server before it
  was on record, and that one was told to end; it is claimed until somebody removes the
  directory under a lock or a child. `InHand`: the supervisor of a child that is up is in
  its server's slot, or being stopped, or about to be; the exception is a Stop during Start
  (section 6).

Type invariants are part of the modules (`TypeOK`); those of the engine, committer,
tunnel, supervisor, backlog, sync run, live index and event stream are proved (section 5), and TLC finds none of the others
violated on the instances above.

Why the bounds are enough. Every race named in `PROJECT.json` (`hazards`) needs at most
two jobs of one batch and one actor of each kind: a worker, a timer, a user and Close.
Batches of one, two and three jobs make a batch leave alone, fill, or stay open, so that one
job of an open batch is cancelled and the other stays; one dead letter
of capacity makes the list evict; two attempts make a job be retried and then die. The wider
`MCSyncWide.cfg` (3 jobs, a full batch and an open one at once, 785 715 states) has the safety
properties, `AttemptsWithinBudget` among them, and checks for deadlock.
Every counter bound (`MaxGen`, `MaxEnqueues`, `MaxCrashes`, ...) is a guard of the action it
bounds. In `engine` no id is enqueued twice and the pool keeps its size; that
`NoJobStranded`, `DrainedMeansSettled` and the types hold with ids that are enqueued again,
any number of workers, resizes and crashes is proved (section 5). With two timer
goroutines the committer's run passes as well (312 584 states, five minutes).
In the ring's run four events pass a ring of two and overflow a queue of one.
`StreamComplete` is stated for a run of the server without a restart, where a cursor is a
number of events; a restart is among the run's steps and stops the claim.
Three generations let a tunnel be opened, closed by a Stop that gives up, and opened again while
the first round still drains and its events are still queued; with three events the safety
properties hold too. Two paths are what the watcher tells apart (a file in a new directory and
one that was always watched; an item and a page); a write, a removal and a second write of one
path is the longest history `Merge` folds, and with four edits the safety properties hold as well
(2 957 902 states). The seeds of `renumber` hold one number claimed twice and two numbers claimed
twice, so that a renumbered number may collide with the next. One pull is enough to disturb a plan
at any of its steps; the constraint `Faults` gives a behaviour one pull, or one death or failing access of a rollback, since what a pull has
disturbed the properties excuse already, and brings the pull to the three smaller backlogs, where two new
numbers are given, and while one of the two processes is idle. Accesses of the commit fail without a bound. In `sync_run` one commit of others makes a push be rejected once, and one
retry is the most it may then take; two calls of a user resolve and continue, or abort.
In `supervisor` two servers and two supervisors are what one directory needs for a lock to be
refused, for an orphan to be found and for a stop to meet a start, and a child that was killed may still be
there when the next is spawned; `MaxMishaps` bounds together the deaths, hangs, failures,
kills and restarts. `Kinds` leaves the opt-out without deletion away, whose steps are those of
the other two without their end. The constraint `Whole` cuts a run once a directory in use
was removed: what is possible then is told in section 6.
Ids, workers and callbacks are symmetric; symmetry is used in `restart` and `MCSyncWide.cfg`
only, never with a liveness property.

Deadlock is checked in `restart`, `MCSyncWide.cfg`, `journal` and `limiter`, whose modules have an
explicit final step (`Quiet`, `Ended`) for the state in which the program is over. The others
stop when a bound is used up; a run of theirs that stops half-way is what their liveness
properties report, and in `renumber` a process that waits for nothing is a command that has
ended.

## 4. Fairness

- Weak fairness on the steps of a goroutine that has been started: Go's scheduler runs
  every runnable goroutine. A handler returns, as the contract of `Handler` has it;
  the engine sets it no timeout, and no liveness property survives one that hangs.
- Weak fairness on a timer that is armed: it fires. A timer that is re-armed for ever need
  not, which is why `EditsAreCommitted` holds only since a run has finitely many edits.
- Strong fairness on taking a mutex for which others compete (`SyncJournal!Lock` and
  `Disarm`, `Committer!Lock`): a `sync.Mutex` goes into starvation mode after a
  millisecond and is then handed to the longest waiter.
- `Tunnel!Work`: every step of a goroutine or request that is under way, `GiveUp` among them,
  since Stop waits with a timeout of its own; not the toggles, the deaths and the events.
- `LiveIndex!Running` is the watcher's loop, and `Take \/ Apply` the server's; a batch may fail,
  but not every time (a file that cannot be read stays unread until somebody changes it, and is
  an excuse of `IndexFollows`).
- `SyncRun!Run(r)`: a git command that was started ends, well or not. `CommitOnSave`: the
  committer's timer fires, which a run that waits for it (`Flushed`) depends on.
- `Supervisor`: every step of Start, of the loop and of a request that has begun, not what starts
  them; a child need not react to SIGTERM. Its liveness, `EverythingIsAnswered` (a request ends, an
  instance that is switched on gets ready or says why not, a restart is taken up), is checked with one server
  by `MCSupervisorLive.cfg`, apart from the runs (443 012 states, four minutes).
- None on calls of users, on failures, on deaths, on `CloseExpired` (the deadline need not
  pass), and none on the pumps of a connection: the network may hold them up, and
  `PublishReturns` must hold then too.
- `StartStep` is weakly fair: `serve` calls Start.

## 5. Proofs

TLAPS checks, for all values of the constants that satisfy each module's `ASSUME`:

| Theorem | Says |
|---|---|
| `SyncEnginePartsProofs!AnnounceOneAtATime` | no two announcements overlap and every turn not yet served has exactly one holder |
| `SyncEnginePartsProofs!AnnouncedInOrder` | `HeardInOrder`: the announcer implements `OrderedLog` |
| `SyncEngineProofs!EngineTypeOK` | types |
| `SyncEngineProofs!EngineStrandsNoJob` | `NoJobStranded` |
| `SyncEngineProofs!EngineDrainedMeansSettled` | `DrainedMeansSettled` |
| `SyncEngineProofs!EnginePoolHasItsSize`, `EngineClosesQuietly`, `EngineReplayLosesNothing` | `PoolHasItsSize`, `ClosedIsQuiet`, `ReplayLosesNothing`, when Start is called alone |
| `SyncEngineProofs!EngineKeepsBudget` | `AttemptsWithinBudget` until the first death, when Start is called alone, however ids are used again |
| `SyncEngineProofs!EngineDeadListIsExact`, `EngineFencesResults` | `DeadListExact` and `ResultsFenced` in every such behaviour in which ids are used again with care (`CarefulReuse`) |
| `SyncEngineProofs!EngineRefinesLifecycle` | `LifecycleRefined`: with that care and without deaths the engine implements `JobLifecycle` |
| `SyncEnginePartsProofs!JournalIsReadable` | `JournalReadable` |
| `SyncEnginePartsProofs!JournalForgetsNoChange` | `NoChangeForgotten` |
| `SyncEnginePartsProofs!LimiterKeepsRate` | `RateKept` |
| `CommitterProofs!CommitterTypeOK` | types |
| `CommitterProofs!CommitterSerialises`, `CommitterDebounces`, `CommitterFlushes` | `OneCommitPerRepo`, `DebounceHonoured`, `FlushCommits` |
| `CommitterProofs!CommitterClosesQuietly` | `CloseIsQuiet`, when one goroutine closes the committer |
| `TunnelProofs!TunnelTypeOK` | types |
| `TunnelProofs!TunnelIsInHand`, `TunnelTellsTheTruth` | `NothingOutOfHand`, `SettledTruth` |
| `TunnelProofs!TunnelStaysOff` | `OffIsFinal`: what is "off" stays off until somebody opens the tunnel |
| `SupervisorProofs!SupervisorTypeOK` | types |
| `SupervisorProofs!SupervisorOneChild`, `SupervisorInHand` | `OneChild`, `InHand` |
| `BacklogProofs!BacklogTypeOK` | types |
| `BacklogProofs!BacklogNumbersAreFresh` | a number an allocator hands out is above every number on disk, in the redirects, the hint and what it handed out before, and in no block, for any number of processes |
| `BacklogProofs!BacklogNoOwnLoss` | `NoOwnLoss`, when one process keeps the backlog |
| `BacklogProofs!BacklogClashesNeedTwoWriters` | `ClashesNeedTwoWriters`, when one process keeps the backlog and no doctor renumbers it, whatever fails |
| `BacklogProofs!RenumberTypeOK` | types, with a doctor that renumbers among the processes (`RSpec`) |
| `BacklogProofs!RenumberingIsAtomic` | `RenumberIsAtomic`, for any number of other writers, wherever an access fails and wherever anybody dies |
| `BacklogProofs!OldIdsLead` | `OldIdsResolve`, with its excuses, for any number of other writers and renumberings, wherever an access fails and wherever anybody dies |
| `SyncRunProofs!SyncRunTypeOK` | types |
| `SyncRunProofs!SyncRunLosesNothing`, `SyncRunTellsTheTruth` | `NothingLost`, `ReportsAreTrue` |
| `SyncRunProofs!RemoteIsKept` | `RemoteOnlyGrows`: the remote branch only grows at its end |
| `LiveViewProofs!LiveIndexTypeOK`, `StreamTypesHold` | types |
| `LiveViewProofs!NothingIsForgotten`, `ReadsAnswerTheDisk` | `NothingFallsBetween`, `ReadsAreFresh` |
| `LiveViewProofs!StreamIsComplete`, `ResumeIsComplete` | `StreamComplete`, `ResumeComplete` |

The assumptions are small: keys, workers and processes are finite sets, sizes and budgets are
positive, sentinels are not members of the sets they stand outside. In `SyncRun` a caller of Sync
is no user of the conflict handlers, and each has at least one combination of options to call with.

*Engine.* `NoJobStranded` is not inductive. A running job that a cancelled handler gives
back (`Abandon`) is put in a batch and its attempt taken back, so a running job must have
spent one (`Tried`); a retry that fires must find the job queued (`Timed`); the sweep of
old records takes one entry of `order` away per record (`Listed`); and a job that is running
must be one a worker holds with its current stamp (`Held`), for otherwise nobody would
complete it. With the count `running = Cardinality(BusyWorkers)` (`PoolOK`) these form

    IInv == TableOK /\ PoolOK /\ BatchType /\ RestType /\ Held /\ NoJobStranded

There is one lemma per action. Most actions change one job, or move batches:
`OneJobKeeps` and `BatchMoveKeeps` do the common part, and `AddToBatchKeeps` and
`FireAllKeeps` say that a batch that fires or fills loses nobody. `DrainedMeansSettled`
follows from `IInv` alone: `running = 0` leaves no busy worker, so by `Held` nothing runs,
and with the queue and the open batches empty a queued job can only have its timer.

Two more layers stand on `IInv`, each with a hypothesis that TLC shows to be needed. `StartedInv`
assumes `StartAlone`: nobody calls the engine before Start has returned. `serve` keeps to that, and
`MCSyncCloseStart` shows what happens otherwise. It adds that until the pool is up there is no worker and no Close (`Alone`),
that no worker is of a generation to come and the newest one is complete (`Sized`), that nothing
is left of a closed engine (`Quiet`), and that what the replay has looked at is in a batch and the rest
is as the file says (`Reading`). On it stands the budget, for ids that are used again in any way: no step
but a replay takes an attempt count above the budget (`StaysInBudget`), until the first death
(`MCSyncCrashLoop`: after it one more call is made).

`OnceInv` is about ids that are used again. The ids of `youtrackjobs.go` are, and nothing in the engine
limits when: `MCSyncStaleDead` and `MCSyncFencing` show what happens when an id is enqueued
while it is on the dead-letter list, or while a handler still has its last job. `CarefulReuse` says that
a behaviour has no such call, which is a hypothesis on the callers and not on the constants: `StableIds` is
any set, and an id whose last job is done with may be enqueued as often as one likes. A behaviour has
the properties up to its first careless call. The invariant adds that an unused id is nowhere
(`Unused`), that the dead-letter list is exact in memory and on disk, and that of the handler calls with
a job one has the newest stamp (`Fenced`). The refinement is proved for `MaxCrashes = 0`, since a death
takes running jobs back to "queued" or away, which `job.go` does not draw.

*Limiter.* `RateKept` bounds what got through in a window; it is not inductive, because a full bucket
may let more through at once. `BucketCovered` counts the bucket in: what got through and what
the bucket holds, refilled to now, are together at most the burst and what was earned.

*Committer.* Who commits holds the lock of the repository (`Locked`); batches are in hand only between
taking and finishing them (`Placed`), and `inflight` counts those (`Counted`); what is accepted is pending or in hand,
and what a Flush has to see committed is in hand or done (`Followed`). For
`DebounceHonoured`, the batch of a callback is not younger than the pending one, and when it is the
same and was armed once, its timer has expired (`Stamped`). `CloseIsQuiet` is proved for
one caller of Close, which is what the code has (`internal/server/git.go:232`); with two it
fails (`MCCommitterClose`).

*Tunnel.* `IInv` follows the toggle: one request holds the toggle lock, `running`, `stopping` and the round are
as far as its `pc` says (`Placed`, `Rested`), and every round but the current one is over, or
was given up on (`Passed`). For `SettledTruth` a second invariant says where the last word on
each connection is: in `observed`, else in `events`, else already in `conns` (`InStep`); and that
the status shows the count or the dispatcher is about to store it (`Shown`). `astray` excuses
the three accidents of `SettledTruth` and no more.

*Supervisor.* While the directory was not removed, every lock is on the file that the name stands for, so one is
held (`OneLock`), and its holder owns the only child that is not an orphan. An orphan is stray or on record
(`Orphans`); it stays on record until somebody takes the lock, and that Start ends it first.
For `InHand`, a supervisor that has begun is in the slot, in a request that will call Stop, or a
Stop has met it (`Tended`); a slot and a request refer only to supervisors of their own server
(`Owners`), so the end of a server takes the supervisor with whatever referred to it.

*Journal.* `Exclusive` says that whoever is at the files holds the lock and that what it is
about to rename is the document it wrote; `ArmedIsReal` that `armed` means a timer or a
callback that has not disarmed yet. Without the second a lost flag would make
`markDirty` skip arming.

*Announcer.* Turns taken and not passed on are held, each by one goroutine, and whoever
announces has the turn being served. For the refinement the invariant adds where each turn's
changes are in `made`: there are places `off` such that what the goroutine of turn t has still to
announce is the part of `made` from its place to that of turn t + 1, and the one
that announces goes on exactly where `heard` ends (`Placed`). So the next call is the next change.

*Backlog.* The files a process works on are in a record whose fields mean something only at
certain steps, so the type invariant gives each value of `pc` the operations it may carry.
A new number is one more than the largest of what is taken, the hint and the ends of the blocks; that
a finite set of numbers has a largest is a well-founded minimum (`NextNumberIsNew`). For a process `p`
that alone keeps the backlog, `KeeperInv(p)` says that what `p` has read of the folder is still there unless
somebody else put something in its place (`Foreseen`), and that what was lost of `p`'s was not lost to `p`; `MakersInv(p)` that
clashes need two writers. The first is what makes the other two inductive: between the comparison and the
rename nobody but git may come.

*Renumbering.* Two things carry `RenumberIsAtomic`. The plan: the tie-break is a strict order on the files of one
id, so the losers can be listed by rank (`Losers` is a `CHOOSE`, and the list has to be shown to exist),
every loser once, and the i-th gets the i-th number above everything taken. And the
transaction: while nobody disturbs it, the files are those that were there, with the losers whose
removal is done taken away and the copies whose write is done added, what is staged is what is about to land, and `created`, `saved`
and `removed` are exactly what a rollback needs to come back from there (`UnderWay`); so it settles when it gets to
the end. While it is undone, every file from before stands with its content or is still to be put back, and every other file is
still to be removed (`Undoing`); no path of the one kind is of the other, because the new numbers are above all there was. So when nothing is left to undo
and every access went well, all is as before. An access that fails, of the rollback, is noted in `outcome`, and nothing is claimed from there on; `Outcomes` says what
was reported. Whoever touches a file, `project.yaml` or a temporary name meanwhile takes the claim away (`before`).

*Old ids.* While the doctor commits, an item may stand under two numbers or only under the new one, so
`LeadInv` says which files are there to stay: those no rename and no commit under way will remove (`Kept`), and
of each item that has to be found one of them is led to (`AllLed`). A file the doctor has read may go once its
copy has landed, since the redirect to come leads past it (`MovedLed`). A rollback that goes well comes back to files and
redirects that led from every number written before the plan (`BeforeLed`, with `Undoing` above), and the numbers of the plan
are no longer promised when it begins. All of it rests on revisions: one is of one item and on its way at one
place only (`RevsOK`), so that what a rename unlinks is the file it has replaced, and never
another writer's that is still to land (`QuotesOK`); and whoever stages a file signs it (`OwnWrites`), so that a file which lands under
another's rename counts as lost. The invariant is claimed only while nothing was lost, and what is lost stays lost
(`ClearBefore`). Its steps are proved once for everybody else (`OthersLead`) and access by access for the doctor.
`SeedsAssumption` says of the
files a run starts with that a revision is of one item and was counted.

*A renumbering and numbers given again.* `NoClashOfItsOwn` needs `~undone`, and that is a fact about the code: `rollback` (`doctor.go:511`)
writes back the files it had removed and looks at nothing. In an instance one revision larger than the run's, without blocks, with three files to begin with and the order of the steps
partly fixed to keep the search small, TLC finds the way there: the doctor has moved a file of the server's away from number 1;
the server, which has read no redirects yet, deletes all that is left and creates an item, which gets number 1; then the
doctor's next removal fails, the rollback puts the old file back, and the server's create, past its guard, lands beside it.

*Sync run.* Continuing a rebase replaces the branch by what was replayed, and aborting an integration
forgets what is still to be replayed, so `NothingLost` alone does not carry over. `Backed` says why neither
loses a commit: what is to be replayed is still on the branch, on the remote or thrown away already, and
what the branch has is, while a rebase is stopped, replayed, to be replayed or published. For `ReportsAreTrue` the
invariant follows a run that is alone from its preflight on (`Counting`): what it has counted as pulled and pushed the branch
has moved since, what it began with is on the branch until it is published, and the status it read is still true.
Whoever is not alone may still move the branch, but only forward (`OnwardOnly`). What a rebase
replays is listed by rank, so that its length and its elements can be spoken of (`Kept`, `Nth`).

*Live index.* `NothingFallsBetween` alone does not carry over an `Apply`: a removal that is old news makes the
index forget a file that is there again, and then somebody must still tell it. `OldNews` is that promise, stage
by stage: behind the news that a file is gone comes, further back in the same stage or in an earlier
one (queue, buffer, batch, channel), an event that has it read again, unless a poll or the listing of a new
directory will find it (`Ordered`). `Merge` keeps it because a return replaces what it is merged with and only a
removal, or a chmod that leaves a removal, makes a removal. It is stated outside
`lost` and `voided`, so the theorem shows that the code has no losses but those the two name.
`Flow` keeps what the stages rely on: an unwatched or degraded repository has an empty queue, and while a
new directory is not watched, no stage has anything of its files, unless the watcher polls. For `ReadsAreFresh` it is enough that
the two halves agree, since staleness is read off the file.

*Event stream.* An event the tab has to know of is `Covered`: it was told of it, it refetched later, or the event is
`Coming`, that is, with a publisher that has yet to hand it to this connection, in the replay, a queue, behind the cursor
of a resume still on its way, or made up for by an overflow. Each step passes an event from one of these
to the next. `RingOK` (the ring is the last events in their order) makes the answer of `since` exactly what came
after the cursor, `FramesOK` keeps every cursor behind the hub, so that a resume never asks for more than
there is, and `ConnOK` says that the connection is registered when a publisher lists the clients, for an event stamped
before that is in the ring, or behind the cursor. For `ResumeComplete` the same is said of all events, and while no
connection is up, of those up to the cursor; `overtaken` is what a drop may take from that.

Checked by TLC only: liveness (`EveryJobSettles`, `CloseReturns`, `ChangeReachesDisk`,
`EveryChangeHeard`, `WaitersServed`, `EditsAreCommitted`, `PublishReturns`, `DeathReported`,
`IndexFollows`, `RunsEnd`), which is out of the prover's reach; and `NoClashOfItsOwn` and `NoOwnLoss` beside a
doctor, of which the theorems on the backlog show only the part without one.

## 6. Where code and words disagree

The runs keep what the code does. What a document or a comment of the repository says and
the code does not do is stated too, in a definition no run checks, and TLC refutes it. Where the
instance differs from a run's there is a configuration for it:

| cfg (module) | Property | What happens |
|---|---|---|
| `MCSyncStaleDead` (`MCSyncEngine`) | `LifecycleRefined` | `engine.go:392`: Enqueue of a dead-lettered id replaces its record and leaves the id in `dead`; clearing the list, or its eviction, then deletes a queued or running job. Ids of this kind are those of `youtrackjobs.go` |
| `MCSyncFencing` (`MCSyncEngine`) | `ResultsFenced` | `engine.go:383`: the record of an id that is enqueued again after a cancel starts at generation 0 again, so the result of the older handler call is taken for the newer one's |
| `MCSyncCrashLoop` (`MCSyncEngine`) | `CallsWithinBudget` | `engine.go:1213`: a job whose last attempt is cut by a death is tried once more after the restart |
| `MCSyncCloseStart` (`MCSyncEngine`) | `CloseReturns` | `engine.go:342`: Close during the replay of Start; the pool that Start then starts is never retired |
| `MCSyncJournalClose` (`MCSyncJournal`) | `CleanShutdown` | `journal.go:114`: a timer's write that has its snapshot and waits for the lock stores it over the newer one of Close |
| `MCCommitterClose` (`MCCommitter`) | `CloseIsQuiet` | `committer.go:311`: a second Close between the first one's mark and its Flush returns while the first one commits |
| `MCEventStreamOrder` (`MCEventStream`) | `ResumeCatchesUp` | `hub.go:193`: events are numbered under the lock and handed out after it; the cursor passes an event that was overtaken, and a resume skips it |
| `MCBacklogGuard` (`MCBacklog`) | `NothingIsOverwritten` | `store.go:389` and `1246`: the revision is compared before the write and not with it, and two processes share the name `<path>.tmp`; a write of the other process in between is replaced, against `docs/11-roadmap.md:229` |

The others fail on a run's own instance, or on one that differs as the table says: put
`SPECIFICATION Spec` (`LimiterSpec` for `MCRateLimiter`, `StreamSpec` for `MCEventStream`, `RSpec` for `MCRenumber`) and only this property in its configuration.

| Module (cfg) | Property | What happens |
|---|---|---|
| `SyncEngine` (`MCSyncEngine`) | `HandlersToldOfClose` | `engine.go:888`: a batch that was popped and not yet started when Close cancels is never cancelled |
| `SyncEngine` (`MCSyncCloseStart`, two workers, `MaxGeneration = 1`) | `PoolHasItsSize` | `engine.go:1070`: SetWorkers during the replay of Start |
| `SyncEngine` (`MCSyncFencing`) | `SnapshotListsOnce` | `engine.go:393`: an id that is enqueued again is listed twice |
| `SyncEngine` (`MCSyncCloseStart`) | `EnqueueNeedsStart` | `engine.go:354`: a job is accepted before Start, against `errors.go:19`; it may take the sequential id of a journalled job, which the replay then skips |
| `RateLimiter` (`MCRateLimiter`, batches of one and two) | `JobRateKept` | `engine.go:552`: the limit is documented in jobs and the limiter is asked once per batch |
| `EventStream` (`MCEventStream`, one publisher) | `ResumeCatchesUp` | `hub.go:245`: after a restart a cursor of the old numbering is taken for one of the new |
| `EventStream` (`MCEventStream`) | `ReconnectCatchesUp` | `companion-provider.ts:3667`: a tab that has no cursor yet reconnects without resume and misses what happened meanwhile |
| `Tunnel` (`MCTunnel`, three events) | `ConnectedIsConnected` | `tunnel.go:485`: an event is stamped with the generation that is current when it is queued, so one of the last round can pass for one of this, against the comment at line 179; and `tunnel.go:516`: a count that is stored after the round has failed makes a dead tunnel "connected", which a DELETE then takes for already closed |
| `Tunnel` (`MCTunnel`) | `DeleteAnswersOff` | `internal/server/tunnel.go`: DELETE of a tunnel that died answers "error" with its url, against `docs/07-cli-and-api.md:3595` |
| `Tunnel` (`MCTunnel`) | `TabsAreTold` | `tunnel.go:442`: two changes are handed to the callback in either order, and a tab keeps the older (`docs/07-cli-and-api.md:5121`) |
| `LiveIndex` (`MCLiveIndex`) | `NoGhosts` | `watcher.go:769`: a file the vault wrote and somebody else removed within a window cancels out; the deleted item stays in the index (`docs/07-cli-and-api.md:5331`) |
| `LiveIndex` (`MCLiveIndex`) | `ReadsAreAlwaysFresh` | `index.go:902`: a batch that breaks off leaves the lookups as they were until the next |
| `LiveIndex` (`MCLiveIndex`) | `ReadsSeeTwins` | `freshness.go:38`, `model.go:263`: modification times are compared by the second, so a further change within it that keeps the size is not seen |
| `Renumber` (`MCRenumber`) | `RedirectsAreForever` | `allocator.go`: `project.yaml` is read, changed and written without a lock, so the redirects of a renumbering are lost to a counter written by a server that had read it before (`docs/03-data-model.md:439`) |
| `Renumber` (`MCRenumber`) | `AnyFailureChangesNothing` | `doctor.go:511`: the rollback goes on after an access that failed, and removes the new file of an item whose old file it could not write back, against `doctor.go:187`, "a failure leaves the vault unchanged" |
| `Renumber` (`MCRenumber`, `Seeds <- MCDatedSeeds`, `SeedWrites = 3`, `MaxFailures = 0`) | `OldLinksResolve` | `store.go:907`: a lookup follows the redirects to the last number of the chain, past numbers a file claims; an item that was renumbered once, and whose new number another item then lost, is out of reach of its old id once the files at both ends of the chain are deleted, against `store.go:822`, "so that a link written before a renumber still resolves" |
| `SyncRun` (`MCSyncRun`) | `UndoKeepsSaves` | `conflicts_system.go`: a save made while a rebase is stopped, and staged or committed by commit-on-save, is thrown away by an abort (`docs/06-git-sync.md`, section 5.7); `sync_gogit.go:370`: a save between the check and the hard reset is overwritten |
| `SyncRun` (`MCSyncRun`, system backend) | `NothingPushedHalfway` | a sync of a second caller publishes the commits a stopped rebase has already put on its base (`docs/06-git-sync.md`, section 4.1) |
| `SyncRun` (`MCSyncRun`, system backend) | `DoneMeansPublished` | a run beside another one reports "done" for commits that are still in the other one's rebase |
| `SyncRun` (`MCSyncRun`, system backend) | `LeftAsFound` | `sync_system.go:262`: a failed integration whose conflict was resolved meanwhile is reported as failed and left stopped |
| `Supervisor` (`MCSupervisor`, no constraint) | `EveryStopStops` | `supervisor.go:402`: a Stop that comes while Start is checking the binary finds no cancel and returns; Start goes on, and the child it spawns is in no slot and runs until the server ends, against "Stop ends the child" (line 395) |
| `Supervisor` (`MCSupervisor`, no constraint) | `ForeignIsElsewhere` | `search_managed.go:388`: an enable while the instance taken out of the slot is still stopping finds its lock held, and the slot becomes an instance "supervised by another gintrack", though it is this one, against `doc.go:38`; no command starts it again while it stays in the slot |
| `Supervisor` (`MCSupervisor`, no constraint) | `NothingIsTorn`, `OneUp` | `search_managed_optin.go:103`: an opt-out with `deleteIndex` removes the directory, lock file and all, when this server has no slot but another one runs the instance, or when an enable came between; the next Start locks a new file and a second child runs, against `doc.go:23`, a lock "held while a Supervisor owns the directory", and `docs/07-cli-and-api.md:3949`, the directory of an instance another `serve` supervises "is left alone" |

Smaller remarks, read off the code while it was modelled: lowering the batch size leaves larger
open batches as they are (`engine.go:1100`); cancelling the context of a tunnel's Start leaves
`running` set, though `tunnel.go:274` promises what Stop does; the comment at
`internal/server/tunnel.go:306` says that the callback is called under the lock; nobody calls the allocator's
`SetUser`, so the ranges of `docs/03-data-model.md:391` are never used; a process with an old
counter writes it back over a higher one; a title change that dies between its write and its removal
leaves the item in two files, and `doctor` then gives it two numbers; `doctor` removes the old path of a
file as it finds it, with any edit made since it read it; a push that a policy of the remote
rejects is retried, and reported, as "someone else pushed first"; a commit that is refused during a stopped
merge leaves its edit staged and no longer queued, and the next sync calls the clone dirty;
what a run reports as pushed is counted from a status read before the push; a restart of an
instance whose Start was refused answers 200 and does nothing; a restart that came in while the child
was being bounced stays in the channel and bounces the next one; the lock that serialises
go-git holds within one process only.

These describe what the code does, not how often it matters: most need a call at a moment
the program does not make by itself.

## 7. What is not modelled

- *Engine and journal:* payloads, error texts, progress counters, backoff arithmetic
  (a delay is any delay), the order of jobs inside a batch, moving a damaged journal
  aside. `Flush` of the engine waits for `Drained`; a user's waiting call is not a process of the
  model, only Close's wait is. The replay marks the file dirty also when it restored nothing.
- *Limiter:* `float64` rounding. *Committer:* the inline mode of a negative debounce (tests only),
  commit messages; Close waits for the timers there are (`TimersGone`), not for the count the code
  keeps of them by hand (`committer.go:230`, 278, 312, 319), so a wrong count would not show.
  *Event stream:* topics, pings, authentication; what a tab shows when it first connects is up to date.
- *Tunnel:* provisioning and cloudflared itself (they succeed, fail, or end), the access gate, the
  allow-list, `Since` and the error's text.
- *Watcher and index:* `RemoveRepo`, which the server never calls, ignored paths, nested directories and
  their watch budget; boards, sprints and specifications, which the index treats as it does pages.
  Losses the model leaves in and names: what happens between the first build and the start of
  the watcher, an overflow of the kernel's queue (logged only), the queue dropped on degradation,
  a removal that arrives after a re-creation that was dropped, and a file removed from a
  directory that was not yet adopted.
- *Backlog:* what is inside an item, its type and folder, boards and comments; the ranges of a
  user; `Reconcile` of the counters. Pulls that rename an item in one step (a removal and an arrival are two) or change
  `project.yaml`. A death in the middle of a `WriteFile` leaves a part of the file: of a temporary file nobody reads it, but the rollback writes the files
  themselves. `Prepare` reads what the plan names in one step, and the references other items make to a renumbered one are left out: they are
  further writes of the same transaction.
- *Sync run:* the jj backend, credentials, history and branch queries, and what git does
  inside one command.
- *Supervisor:* the AG-UI adapter (a second instance of the same code), ports, the watchdog of systems without
  `Pdeathsig`, the tail of the log, the code project that `watch` registers, the MCP client, `maxInstances`.
- *Not yet:* the sync-job observer. It is in the plan.
- *Not at all:* parsing and formatting of items, the vault's operations, REST and MCP handlers,
  YouTrack mapping, tracing, impact analysis, configuration, self-update, the command line
  and the user interface: sequential, without state across requests, unit-tested, or a
  conversion of data. They are most of the code, which is why the share of it that
  `map` covers stays small.

## 8. Plan

Order: what can lose a user's work first. Done: engine, announcer, journal, limiter,
committer, event stream; tunnel; watcher and index; backlog, allocator and renumbering; sync run;
supervisor.

1. `JobObserver`: the throttled observer between Announcer and EventStream.
