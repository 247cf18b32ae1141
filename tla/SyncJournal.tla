----------------------------- MODULE SyncJournal -----------------------------
(***************************************************************************)
(* How the job table reaches the disk: internal/syncengine/journal.go.     *)
(* The table is a version number that every change increments; a change is *)
(* made under the engine's lock and announced to the journal (markDirty)   *)
(* after that lock is released.  A timer coalesces the announcements; its  *)
(* callback, a goroutine of its own, takes a snapshot of the table and     *)
(* then the journal's lock, under which it writes the temporary file and   *)
(* renames it over the journal.  Close writes the same way, a last time.   *)
(***************************************************************************)
EXTENDS Naturals, FiniteSets

CONSTANTS Callbacks,   \* goroutines that run a callback of the timer
          Closer,      \* the goroutine that calls close
          NoOne,       \* the lock is free
          Torn,        \* the content of a file that was written in part
          MaxChanges,  \* bound: changes of the table
          MaxCrashes   \* bound: deaths of the process

Writers == Callbacks \cup {Closer}

ASSUME SyncJournalAssumption ==
    /\ Closer \notin Callbacks /\ NoOne \notin Writers
    /\ Torn \notin Nat /\ MaxChanges \in Nat /\ MaxCrashes \in Nat

VARIABLES version,   \* the job table: how many changes were made to it
          unmarked,  \* changes whose goroutine has not called markDirty yet
          armed,     \* journal.armed
          timer,     \* journal.timer is going to fire
          mu,        \* who holds journal.mu across the write
          stage,     \* where each writer is
          doc,       \* the snapshot each writer took
          tmp,       \* the file jobs.json.tmp
          disk,      \* the file jobs.json
          closed,    \* journal.closed
          failed,    \* journal.lastErr is set
          seen,      \* history: the newest version a snapshot was taken of
          crashes    \* how often the process died

tableVars == <<version, unmarked>>
markVars  == <<armed, timer>>
fileVars  == <<tmp, disk>>
journalVars == <<tableVars, markVars, mu, stage, doc, fileVars, closed, failed, seen, crashes>>

JournalInit == /\ version = 0 /\ unmarked = 0
               /\ armed = FALSE /\ timer = FALSE
               /\ mu = NoOne
               /\ stage = [p \in Writers |-> "idle"] /\ doc = [p \in Writers |-> 0]
               /\ tmp = 0 /\ disk = 0
               /\ closed = FALSE /\ failed = FALSE
               /\ seen = 0 /\ crashes = 0

Goto(p, there) == stage' = [stage EXCEPT ![p] = there]

(* The engine changes jobs under its own lock.  When close is called the   *)
(* workers and timers are gone: there are no more changes of theirs.       *)
Change == /\ stage[Closer] = "idle"
          /\ version < MaxChanges
          /\ version' = version + 1 /\ unmarked' = unmarked + 1
          /\ UNCHANGED <<markVars, mu, stage, doc, fileVars, closed, failed, seen, crashes>>

(* markDirty, for any of the changes that were made.                       *)
MarkDirty == /\ mu = NoOne
             /\ unmarked > 0
             /\ unmarked' = unmarked - 1
             /\ IF closed \/ armed THEN UNCHANGED markVars
                ELSE armed' = TRUE /\ timer' = TRUE
             /\ UNCHANGED <<version, mu, stage, doc, fileVars, closed, failed, seen, crashes>>

(* The timer fires: its callback begins and waits for the journal's lock.  *)
TimerFires(c) == /\ timer
                 /\ stage[c] = "idle"
                 /\ timer' = FALSE
                 /\ Goto(c, "disarm")
                 /\ UNCHANGED <<tableVars, armed, mu, doc, fileVars, closed, failed,
                                seen, crashes>>

(* Mutant: the journal stays armed.                                        *)
DisarmForgotten(c) == /\ mu = NoOne
                      /\ stage[c] = "disarm"
                      /\ Goto(c, "snapshot")
                      /\ UNCHANGED <<tableVars, markVars, mu, doc, fileVars, closed, failed,
                                     seen, crashes>>

(* The callback takes the lock for a moment: a change that is announced    *)
(* from now on arms another timer.                                         *)
Disarm(c) == /\ mu = NoOne
             /\ stage[c] = "disarm"
             /\ armed' = FALSE
             /\ Goto(c, "snapshot")
             /\ UNCHANGED <<tableVars, timer, mu, doc, fileVars, closed, failed,
                            seen, crashes>>

(* close, up to its write.                                                 *)
CloseStop == /\ mu = NoOne
             /\ stage[Closer] = "idle"
             /\ armed' = FALSE /\ timer' = FALSE
             /\ Goto(Closer, "snapshot")
             /\ UNCHANGED <<tableVars, mu, doc, fileVars, closed, failed, seen, crashes>>

(* write: the snapshot, under the engine's lock and not the journal's.     *)
Snapshot(p) == /\ stage[p] = "snapshot"
               /\ doc' = [doc EXCEPT ![p] = version]
               /\ seen' = IF version > seen THEN version ELSE seen
               /\ Goto(p, "lock")
               /\ UNCHANGED <<tableVars, markVars, mu, fileVars, closed, failed, crashes>>

(* Where write returns to.                                                 *)
Return(p) == Goto(p, IF p = Closer THEN "mark" ELSE "idle")

(* write: the journal's lock, and nothing more when it is closed.          *)
Lock(p) == /\ mu = NoOne
           /\ stage[p] = "lock"
           /\ IF closed THEN UNCHANGED mu /\ Return(p)
              ELSE mu' = p /\ Goto(p, "create")
           /\ UNCHANGED <<tableVars, markVars, doc, fileVars, closed, failed,
                          seen, crashes>>

(* writeDoc: the temporary file is created, and then holds the document.   *)
Create(p) == /\ stage[p] = "create"
             /\ tmp' = Torn
             /\ Goto(p, "fill")
             /\ UNCHANGED <<tableVars, markVars, mu, doc, disk, closed, failed,
                            seen, crashes>>

(* Mutant: the lock is let go as soon as the document is written.          *)
FillUnlocks(p) == /\ stage[p] = "fill"
                  /\ tmp' = doc[p]
                  /\ mu' = NoOne
                  /\ Goto(p, "rename")
                  /\ UNCHANGED <<tableVars, markVars, doc, disk, closed, failed,
                                 seen, crashes>>

Fill(p) == /\ stage[p] = "fill"
           /\ tmp' = doc[p]
           /\ Goto(p, "rename")
           /\ UNCHANGED <<tableVars, markVars, mu, doc, disk, closed, failed,
                          seen, crashes>>

(* writeDoc: the rename, which replaces the journal in one step.           *)
Rename(p) == /\ stage[p] = "rename"
             /\ disk' = tmp
             /\ mu' = NoOne
             /\ Return(p)
             /\ UNCHANGED <<tableVars, markVars, doc, tmp, closed, failed, seen, crashes>>

(* Any of the three may fail; the error is kept and nobody tries again.    *)
WriteFails(p) == /\ stage[p] \in {"create", "fill", "rename"}
                 /\ failed' = TRUE
                 /\ mu' = NoOne
                 /\ Return(p)
                 /\ UNCHANGED <<tableVars, markVars, doc, fileVars, closed, seen, crashes>>

(* close: the end.                                                         *)
CloseMark == /\ mu = NoOne
             /\ stage[Closer] = "mark"
             /\ closed' = TRUE
             /\ Goto(Closer, "closed")
             /\ UNCHANGED <<tableVars, markVars, mu, doc, fileVars, failed, seen, crashes>>

(* The process dies and another one loads the journal; one that it cannot  *)
(* read is moved aside, and the table is empty.                            *)
Crash == /\ crashes < MaxCrashes
         /\ crashes' = crashes + 1
         /\ version' = IF disk = Torn THEN 0 ELSE disk
         /\ seen' = version'
         /\ unmarked' = 0
         /\ armed' = FALSE /\ timer' = FALSE
         /\ mu' = NoOne
         /\ stage' = [p \in Writers |-> "idle"] /\ doc' = [p \in Writers |-> 0]
         /\ closed' = FALSE /\ failed' = FALSE
         /\ UNCHANGED fileVars

(* What write does, by whoever called it.                                  *)
Write(p) == Snapshot(p) \/ Lock(p) \/ Create(p) \/ Fill(p) \/ Rename(p)

(* The journal is closed and nobody is at work.                            *)
Ended == /\ stage[Closer] = "closed" /\ unmarked = 0 /\ ~timer
         /\ \A c \in Callbacks : stage[c] = "idle"
         /\ UNCHANGED journalVars

JournalNext == \/ Change \/ MarkDirty \/ CloseStop \/ CloseMark \/ Crash \/ Ended
               \/ \E c \in Callbacks : TimerFires(c) \/ Disarm(c)
               \/ \E p \in Writers : Write(p) \/ WriteFails(p)

JournalSpec == JournalInit /\ [][JournalNext]_journalVars

(* The goroutines run and the timer fires: a callback has a goroutine.     *)
JournalFairness == /\ WF_journalVars(MarkDirty)
                   /\ WF_journalVars(\E c \in Callbacks : TimerFires(c))
                   /\ \A c \in Callbacks : SF_journalVars(Disarm(c))
                   /\ \A p \in Writers : WF_journalVars(Write(p)) /\ SF_journalVars(Lock(p))

JournalFairSpec == JournalSpec /\ JournalFairness

-----------------------------------------------------------------------------
JournalTypeOK == /\ version \in Nat /\ unmarked \in Nat
                 /\ armed \in BOOLEAN /\ timer \in BOOLEAN
                 /\ mu \in Writers \cup {NoOne}
                 /\ stage \in [Writers -> {"idle", "disarm", "snapshot", "lock", "create", "fill",
                                        "rename", "mark", "closed"}]
                 /\ doc \in [Writers -> Nat]
                 /\ tmp \in Nat \cup {Torn} /\ disk \in Nat \cup {Torn}
                 /\ closed \in BOOLEAN /\ failed \in BOOLEAN
                 /\ seen \in Nat /\ crashes \in Nat

(* A crash "can never leave an unreadable journal behind", and two writers *)
(* do not meet in the temporary file (journal.go, journal and write).      *)
JournalReadable == disk # Torn

(* Once every change has been announced, one that no snapshot was taken of *)
(* has a timer or a callback that will take one, unless close was called.  *)
NoChangeForgotten ==
    stage[Closer] = "idle" /\ unmarked = 0 /\ version > seen =>
        timer \/ \E c \in Callbacks : stage[c] \in {"disarm", "snapshot"}

(* "A clean shutdown never loses the transitions of the last window"       *)
(* (journal.go, close).                                                    *)
CleanShutdown == closed /\ ~failed => disk = version

(* Every change that no snapshot was taken of yet reaches the disk, alone  *)
(* or with later ones, unless the disk refuses a write, the journal is     *)
(* closed or the process dies.                                             *)
ChangeReachesDisk ==
    \A v \in 1..MaxChanges :
        (version >= v /\ seen < v) ~> (disk # Torn /\ disk >= v) \/ failed \/ stage[Closer] # "idle"
                       \/ crashes > 0
=============================================================================
