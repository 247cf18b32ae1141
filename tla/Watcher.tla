------------------------------ MODULE Watcher ------------------------------
(***************************************************************************)
(* The file watcher (internal/watcher/watcher.go) over one repository: raw *)
(* events of the kernel are merged path by path inside a debounce window,  *)
(* and each window is delivered as one batch.                              *)
(*                                                                         *)
(* A file is the number of its last edit, 0 when it is absent.  Ignored    *)
(* paths, the watch budget and directories other than one that appears     *)
(* late (the one the Nested paths live in) are left out.  Time is counted  *)
(* in ticks, and a timer that is due fires before the next tick.           *)
(*                                                                         *)
(* A batch, buffered, sent or taken, has one event for a path: it gives    *)
(* each path its op, "none" when it says nothing of it.  The order of its  *)
(* events tells no more than what a pass that breaks off had read, which   *)
(* LiveIndex leaves open.                                                  *)
(***************************************************************************)
EXTENDS Integers, Sequences

CONSTANTS Paths,      \* the files of the repository
          Nested,     \* those in a directory that does not exist at first
          Debounce,   \* Watcher.debounce, in ticks
          MaxWindow,  \* Watcher.maxWindow, in ticks
          KernelQueue,\* capacity of the inotify queue
          EventCap    \* capacity of Watcher.events (eventBuffer)

ASSUME WatcherAssumption ==
    /\ Nested \subseteq Paths /\ "dir" \notin Paths
    /\ Debounce \in Nat \ {0} /\ MaxWindow \in Nat /\ Debounce <= MaxWindow
    /\ KernelQueue \in Nat /\ EventCap \in Nat

VARIABLES disk,     \* the files
          dir,      \* directory of the Nested paths: "absent", "made", "watched"
          kernel,   \* queue of raw events
          watching, \* startWatch has registered the repository
          degraded, \* Watcher.degraded
          snap,     \* repoWatch.snap, the last polling snapshot
          pending,  \* Watcher.pending, a batch
          timer,    \* ticks until the debounce timer fires, Stopped when not armed
          age,      \* ticks since windowStart
          loop,     \* the run goroutine: "select", "sending", "gone"
          batch,    \* the batch flush is sending
          events,   \* Watcher.events
          closed    \* Watcher.done is closed

watcherVars == <<dir, kernel, watching, degraded, snap, pending, timer, age, loop, batch, events, closed>>

Stopped == -1
Smaller(a, b) == IF a < b THEN a ELSE b
Ev(p, op) == [path |-> p, op |-> op]
PathsOf(s) == {s[i].path : i \in DOMAIN s}

Ops == {"create", "write", "remove", "rename", "chmod"}
Gone == {"remove", "rename"}

(* A batch without events, and the paths a batch is about.                 *)
Nothing == [p \in Paths |-> "none"]
In(b) == {p \in Paths : b[p] # "none"}

WatcherInit ==
    /\ dir = IF Nested = {} THEN "watched" ELSE "absent"
    /\ kernel = <<>> /\ watching = FALSE /\ degraded = FALSE
    /\ snap = disk
    /\ pending = Nothing /\ timer = Stopped /\ age = 0
    /\ loop = "select" /\ batch = Nothing /\ events = <<>> /\ closed = FALSE

(* Whether the kernel has a watch on the directory of a path.              *)
Heard(p) == watching /\ ~degraded /\ ~closed /\ (p \in Nested => dir = "watched")

(* The kernel queues the events somebody listens to; when its queue is     *)
(* full they are gone, and the error that says so is only logged.  A       *)
(* change raises one event, or two when it is a rename.                    *)
Listened(e) == IF Heard(e.path) THEN <<e>> ELSE <<>>
Noted(s) == LET heard == IF Len(s) = 1 THEN Listened(s[1]) ELSE Listened(s[1]) \o Listened(s[2])
            IN  IF Len(kernel) + Len(heard) <= KernelQueue THEN heard ELSE <<>>

Raise(s) == kernel' = kernel \o Noted(s)

-----------------------------------------------------------------------------
(* Mutant: a file that comes back inside the window stays removed.         *)
MergeForgetsReturn(old, new) ==
    IF new = "chmod" THEN old
    ELSE IF old = "chmod" THEN new
    ELSE IF old = "create" THEN IF new \in Gone THEN "none" ELSE "create"
    ELSE IF old \in Gone /\ new \in {"create", "write"} THEN old
    ELSE new

(* mergeOps: "none" when the pair cancels out.                          *)
Merge(old, new) ==
    IF new = "chmod" THEN old
    ELSE IF old = "chmod" THEN new
    ELSE IF old = "create" THEN IF new \in Gone THEN "none" ELSE "create"
    ELSE IF old \in Gone /\ new \in {"create", "write"} THEN "write"
    ELSE IF old = "write" /\ new = "create" THEN "write"
    ELSE new

(* recordLocked: one slot for a path.                                      *)
Recorded(b, new) ==
    [p \in Paths |-> IF new[p] = "none" THEN b[p]
                     ELSE IF b[p] = "none" THEN new[p] ELSE Merge(b[p], new[p])]

(* What the buffer forgets when the events of new are recorded in it.      *)
Cancelled(b, new) == (In(b) \cup In(new)) \ In(Recorded(b, new))

(* arm, in run: every event slides the window, which has a cap.            *)
Arm(buffer) ==
    IF buffer = Nothing THEN UNCHANGED <<timer, age>>
    ELSE IF timer = Stopped THEN timer' = Debounce /\ age' = 0
    ELSE timer' = Smaller(Debounce, MaxWindow - age) /\ UNCHANGED age

Tick == /\ timer > 0
        /\ timer' = timer - 1 /\ age' = age + 1
        /\ UNCHANGED <<disk, dir, kernel, watching, degraded, snap, pending, loop, batch, events, closed>>

(* startWatch and AddRepoScoped.  A system without inotify is polled.      *)
StartWatch == /\ ~watching /\ ~closed
              /\ watching' = TRUE
              /\ degraded' \in BOOLEAN
              /\ snap' = disk
              /\ dir' = IF dir = "made" THEN "watched" ELSE dir
              /\ UNCHANGED <<disk, kernel, pending, timer, age, loop, batch, events, closed>>

(* Mutant: a new directory is watched and what it holds is not listed.     *)
AdoptedBlind == Nothing

(* adoptDirLocked: what the new directory already holds is reported.       *)
Adopted == [p \in Paths |-> IF p \in Nested /\ disk[p] # 0 THEN "create" ELSE "none"]

(* What the event at the head of the queue adds to the buffer.             *)
News == IF Head(kernel).op = "mkdir" THEN Adopted
        ELSE [Nothing EXCEPT ![Head(kernel).path] = Head(kernel).op]

(* handleFSEvent, for a file and for a new directory.                      *)
Handle ==
    /\ loop = "select" /\ ~closed /\ kernel # <<>>
    /\ kernel' = Tail(kernel)
    /\ pending' = Recorded(pending, News)
    /\ dir' = IF Head(kernel).op = "mkdir" THEN "watched" ELSE dir
    /\ Arm(Recorded(pending, News))
    /\ UNCHANGED <<disk, watching, degraded, snap, loop, batch, events, closed>>

(* handleFSEvent and degradeLocked: the new directory cannot be watched.   *)
(* The queue goes with its watcher, and the disk as it is is the snapshot  *)
(* to start from.                                                          *)
Degrade ==
    /\ loop = "select" /\ ~closed /\ kernel # <<>> /\ Head(kernel).op = "mkdir"
    /\ degraded' = TRUE
    /\ kernel' = <<>>
    /\ snap' = disk
    /\ Arm(pending)
    /\ UNCHANGED <<disk, dir, watching, pending, loop, batch, events, closed>>

(* The difference of two scans, as events.                                 *)
Differences ==
    [p \in Paths |-> IF disk[p] = snap[p] THEN "none" ELSE IF disk[p] = 0 THEN "remove"
                     ELSE IF snap[p] = 0 THEN "create" ELSE "write"]

PollOnce == /\ watching /\ degraded /\ ~closed /\ loop = "select"
            /\ snap # disk
            /\ snap' = disk
            /\ pending' = Recorded(pending, Differences)
            /\ Arm(Recorded(pending, Differences))
            /\ UNCHANGED <<disk, dir, kernel, watching, degraded, loop, batch, events, closed>>

(* The timer fires, and flush drains the buffer into a batch.              *)
Fire == /\ loop = "select" /\ ~closed /\ timer = 0
        /\ timer' = Stopped /\ age' = 0
        /\ batch' = pending /\ pending' = Nothing
        /\ loop' = IF pending = Nothing THEN "select" ELSE "sending"
        /\ UNCHANGED <<disk, dir, kernel, watching, degraded, snap, events, closed>>

(* flush: the send waits for room in the channel.                          *)
Send == /\ loop = "sending" /\ Len(events) < EventCap
        /\ events' = Append(events, batch) /\ batch' = Nothing
        /\ loop' = "select"
        /\ UNCHANGED <<disk, dir, kernel, watching, degraded, snap, pending, timer, age, closed>>

Close == /\ watching /\ ~closed
         /\ closed' = TRUE
         /\ kernel' = <<>>
         /\ UNCHANGED <<disk, dir, watching, degraded, snap, pending, timer, age, loop, batch, events>>

(* run and flush both listen to done.                                      *)
Leave == /\ loop # "gone" /\ closed
         /\ loop' = "gone"
         /\ batch' = Nothing
         /\ UNCHANGED <<disk, dir, kernel, watching, degraded, snap, pending, timer, age, events, closed>>

Run == Handle \/ Degrade \/ PollOnce \/ Fire \/ Send \/ Leave

(* News of a path is on its way to the consumer: an event, a difference    *)
(* the next poll will find, or the listing of a directory that is new.     *)
Underway(p) ==
    \/ p \in PathsOf(kernel) \cup In(pending) \cup In(batch)
    \/ \E i \in DOMAIN events : p \in In(events[i])
    \/ watching /\ degraded /\ snap[p] # disk[p]
    \/ /\ p \in Nested /\ dir = "made" /\ disk[p] # 0
       /\ \E i \in DOMAIN kernel : kernel[i].op = "mkdir"

Raws == [path : Paths, op : Ops] \cup {Ev("dir", "mkdir")}
Batches == [Paths -> Ops \cup {"none"}]

WatcherTypeOK ==
    /\ dir \in {"absent", "made", "watched"}
    /\ kernel \in Seq(Raws) /\ Len(kernel) <= KernelQueue
    /\ events \in Seq(Batches \ {Nothing}) /\ Len(events) <= EventCap
    /\ {pending, batch} \subseteq Batches
    /\ timer \in {Stopped} \cup 0..Debounce /\ age \in 0..MaxWindow
    /\ loop \in {"select", "sending", "gone"} /\ (loop = "sending") = (batch # Nothing)
    /\ <<watching, degraded, closed>> \in BOOLEAN \X BOOLEAN \X BOOLEAN

(* A busy tree does not put a batch off for ever: what is buffered leaves  *)
(* no later than MaxWindow after the first event of its window, whatever   *)
(* comes in meanwhile, and a buffer that holds something has its timer     *)
(* running.                                                                *)
WindowIsBounded == /\ timer # Stopped => age + timer <= MaxWindow
                   /\ pending # Nothing /\ loop # "gone" => timer # Stopped
=============================================================================
