----------------------------- MODULE Supervisor -----------------------------
(***************************************************************************)
(* The managed Pando of one repository: supervisor.Supervisor              *)
(* (internal/pando/supervisor) and the slot of the repository in each      *)
(* gintrack serve that has it mounted (internal/server/search_managed.go). *)
(*                                                                         *)
(* A supervisor is a number, given by Enable and used again when nothing   *)
(* refers to it; pc is where its Start, and then its loop, is.  A child is *)
(* a number too, its pid; it is up, told to end, or gone.  A child told to *)
(* end is stray if its server died before it was on record, else term.     *)
(* disk is the pid in state.json.  RemoveAll and MkdirAll give the         *)
(* directory a new lock file, so a lock is on a file and not on a name.    *)
(* Ports, the bearer token, the log, the AG-UI adapter and the code        *)
(* project that watch registers are left out.                              *)
(***************************************************************************)
EXTENDS Integers, FiniteSets

CONSTANTS Procs,       \* gintrack serve processes
          Users,       \* requests
          Kinds,       \* what is asked for
          None,        \* not a process
          CrashLimit,  \* Options.MaxCrashes
          MaxSups,     \* bound: supervisors at one time
          MaxPid,      \* bound: children at one time
          MaxMishaps   \* bound: children that die, do not answer or do not start, writes that
                       \* fail, processes killed and calls of Restart, together

ASSUME SupervisorAssumption ==
    /\ CrashLimit \in Nat \ {0} /\ None \notin Procs
    /\ Kinds \subseteq {"off", "delete", "reset"}
    /\ {MaxSups, MaxPid, MaxMishaps} \subseteq Nat

VARIABLES sup,      \* the supervisors
          dropped,  \* supervisors whose context of Start was cancelled
          stopped,  \* supervisors whose runCtx was cancelled
          token,    \* supervisors with an element in the channel restart
          child,    \* the child processes
          dir,      \* the instance directory exists
          disk,     \* the pid in state.json, 0 for none
          lockfile, \* the file the name supervisor.lock stands for
          slot,     \* byRepo[repo] of each process, 0 for none
          phase,    \* of each process: up, closing or down
          req,      \* the requests
          mishaps,  \* bound
          hasty,    \* history: supervisors Stop found without a cancel
          torn      \* history: the directory was removed under a lock or a child

supVars  == <<sup, dropped, stopped, token>>
fileVars == <<child, dir, disk, lockfile>>
srvVars  == <<slot, phase, req>>
history  == <<hasty, torn>>
vars == <<supVars, fileVars, srvVars, mishaps, history>>

Sups == 1..MaxSups
Pids == 1..MaxPid
Live == {k \in Pids : child[k] # "gone"}
(* A pid is used again only when nobody remembers it.                      *)
FreePids == {k \in Pids \ Live : k # disk /\ \A s \in Sups : sup[s].kid # k}

Over == {"refused", "foreign", "gone"}
Starting == {"begin", "reaped", "checked"}
Watching == {"waiting", "ready"}
Stopping == {"crashing", "bouncing"}
Looping == {"top", "spawned", "backoff", "failed", "ending"} \cup Watching \cup Stopping
(* s.cancel is not nil.                                                    *)
Stoppable(s) == sup[s].pc \in Looping
Started == {s \in Sups : sup[s].pc \in Starting}
Foreign(s) == s # 0 /\ sup[s].pc = "foreign"
Locked(file) == \E s \in Sups : sup[s].held = file

NoSup == [owner |-> None, pc |-> "gone", held |-> 0, kid |-> 0, crashes |-> 0]
Idle == [pc |-> "idle", proc |-> None, sup |-> 0, kind |-> "start", foreign |-> FALSE]

Init == /\ sup = [s \in Sups |-> NoSup]
        /\ dropped = {} /\ stopped = {} /\ token = {}
        /\ child = [k \in Pids |-> "gone"]
        /\ dir = FALSE /\ disk = 0 /\ lockfile = 1
        /\ slot = [p \in Procs |-> 0] /\ phase = [p \in Procs |-> "up"]
        /\ req = [u \in Users |-> Idle]
        /\ mishaps = 0 /\ hasty = {} /\ torn = FALSE

(* Supervisors that are no more: with done closed, or with their process.  *)
Forget(S) == /\ sup' = [s \in Sups |-> IF s \in S THEN NoSup ELSE sup[s]]
             /\ dropped' = dropped \ S /\ stopped' = stopped \ S /\ token' = token \ S
             /\ hasty' = hasty \ S

Mishap == mishaps < MaxMishaps /\ mishaps' = mishaps + 1

(* signalGroup: the child is told to end.                                  *)
Told(k) == [child EXCEPT ![k] = IF @ = "up" THEN "term" ELSE @]

(* update: the status, and state.json beside it; a write that fails is     *)
(* logged only, and every write fails while the directory is not there.    *)
Update(pid) == \/ dir /\ disk' = pid /\ UNCHANGED mishaps
               \/ ~dir /\ UNCHANGED <<disk, mishaps>>
               \/ dir /\ Mishap /\ UNCHANGED disk

-----------------------------------------------------------------------------
(* Start, in the goroutine run of the server.                              *)

(* MkdirAll and acquireLock; ErrLocked puts a foreignInstance in the slot. *)
(* Under the lock an orphan is ended: reap is what becomes of the children.*)
Acquires(s, reap) ==
    /\ sup[s].pc = "begin"
    /\ \/ /\ Locked(lockfile)
          /\ sup' = [sup EXCEPT ![s].pc = "foreign"]
          /\ dir' = TRUE /\ UNCHANGED <<child, mishaps>>
       \/ /\ ~Locked(lockfile)
          /\ sup' = [sup EXCEPT ![s].pc = "reaped", ![s].held = lockfile]
          /\ dir' = TRUE /\ child' = reap /\ UNCHANGED mishaps
       \/ /\ Mishap
          /\ sup' = [sup EXCEPT ![s].pc = "refused"]
          /\ UNCHANGED <<dir, child>>
    /\ UNCHANGED <<dropped, stopped, token, disk, lockfile, srvVars, history>>

(* Mutant: an orphan is told to end and not waited for.                    *)
ReapAndGoOn(s) == Acquires(s, IF disk \in Live THEN Told(disk) ELSE child)

(* reapOrphan: the child on record is ended, by force after StopTimeout.   *)
Acquire(s) == Acquires(s, IF disk \in Live THEN [child EXCEPT ![disk] = "gone"] ELSE child)

(* checkBinary, which runs under the context of Start, and the writes of   *)
(* the token and the log: any of them may fail.                            *)
Check(s) ==
    /\ sup[s].pc = "reaped"
    /\ \/ /\ s \notin dropped /\ dir
          /\ sup' = [sup EXCEPT ![s].pc = "checked"] /\ UNCHANGED <<disk, mishaps>>
       \/ /\ sup' = [sup EXCEPT ![s].pc = "refused", ![s].held = 0]
          /\ IF s \in dropped \/ ~dir THEN Update(0) ELSE Mishap /\ disk' \in {0, disk}
    /\ UNCHANGED <<dropped, stopped, token, child, dir, lockfile, srvVars, history>>

(* From here on a Stop finds a cancel, and the loop runs.                  *)
Launch(s) ==
    /\ sup[s].pc = "checked"
    /\ sup' = [sup EXCEPT ![s].pc = "top", ![s].crashes = 0]
    /\ Update(0)
    /\ UNCHANGED <<dropped, stopped, token, child, dir, lockfile, srvVars, history>>

StartStep(s) == Acquire(s) \/ Check(s) \/ Launch(s)

-----------------------------------------------------------------------------
(* The loop.                                                               *)

(* recordCrash: of the crashes so far those of the window count.  Between  *)
(* attempts that fail at once, as they do without the directory, only      *)
(* backoffs pass and no crash gets old.                                    *)
RecordCrash(s) ==
    \E kept \in IF dir THEN 0..sup[s].crashes ELSE {sup[s].crashes} :
       LET n == IF kept < CrashLimit THEN kept + 1 ELSE kept
       IN sup' = [sup EXCEPT ![s].crashes = n, ![s].kid = 0,
                             ![s].pc = IF n >= CrashLimit THEN "failed" ELSE "backoff"]

(* choosePort, prepareRun, prepareCmd and cmd.Start, when they succeed; a  *)
(* Stop may come too late for this child ...                               *)
Spawn(s) ==
    /\ sup[s].pc = "top" /\ dir
    /\ \E k \in FreePids :
          /\ \A j \in FreePids : k <= j
          /\ child' = [child EXCEPT ![k] = "up"]
          /\ sup' = [sup EXCEPT ![s].pc = "spawned", ![s].kid = k]
    /\ UNCHANGED <<dropped, stopped, token, dir, disk, lockfile, srvVars, mishaps, history>>

(* ... and when one of them does not.                                      *)
NoSpawn(s) ==
    /\ sup[s].pc = "top" /\ s \notin stopped
    /\ IF dir THEN Mishap /\ disk' \in {0, disk} ELSE UNCHANGED <<disk, mishaps>>
    /\ RecordCrash(s)
    /\ UNCHANGED <<dropped, stopped, token, child, dir, lockfile, srvVars, history>>

(* Between cmd.Start and this a death leaves a child that is on no record. *)
Record(s) ==
    /\ sup[s].pc = "spawned"
    /\ sup' = [sup EXCEPT ![s].pc = "waiting"]
    /\ Update(sup[s].kid)
    /\ UNCHANGED <<dropped, stopped, token, child, dir, lockfile, srvVars, history>>

Ready(s) ==
    /\ sup[s].pc = "waiting" /\ child[sup[s].kid] = "up"
    /\ sup' = [sup EXCEPT ![s].pc = "ready"]
    /\ Update(sup[s].kid)
    /\ UNCHANGED <<dropped, stopped, token, child, dir, lockfile, srvVars, history>>

(* The deadline of ReadyTimeout, or HealthFailures checks in a row.        *)
Unhealthy(s) ==
    /\ sup[s].pc \in Watching /\ Mishap
    /\ sup' = [sup EXCEPT ![s].pc = "crashing"]
    /\ child' = Told(sup[s].kid)
    /\ UNCHANGED <<dropped, stopped, token, dir, disk, lockfile, srvVars, history>>

(* Restart, and Stop, end a child without counting a crash.                *)
Bounce(s) ==
    /\ sup[s].pc \in Watching
    /\ \/ s \in token /\ token' = token \ {s}
       \/ s \in stopped /\ UNCHANGED token
    /\ sup' = [sup EXCEPT ![s].pc = "bouncing"]
    /\ child' = Told(sup[s].kid)
    /\ UNCHANGED <<dropped, stopped, dir, disk, lockfile, srvVars, mishaps, history>>

(* stop: SIGKILL after StopTimeout.                                        *)
ForceEnd(s) ==
    /\ sup[s].pc \in Stopping /\ child[sup[s].kid] = "term"
    /\ child' = [child EXCEPT ![sup[s].kid] = "gone"]
    /\ UNCHANGED <<supVars, dir, disk, lockfile, srvVars, mishaps, history>>

(* runOnce returns: the child is gone.                                     *)
Ended(s) ==
    /\ sup[s].pc \in Watching \cup Stopping /\ child[sup[s].kid] = "gone"
    /\ CASE s \in stopped ->
              sup' = [sup EXCEPT ![s].pc = "ending"] /\ UNCHANGED <<disk, mishaps>>
         [] s \notin stopped /\ sup[s].pc = "bouncing" ->
              /\ sup' = [sup EXCEPT ![s].pc = "top", ![s].kid = 0]
              /\ Update(sup[s].kid)
         [] OTHER -> RecordCrash(s) /\ Update(0)
    /\ UNCHANGED <<dropped, stopped, token, child, dir, lockfile, srvVars, history>>

(* The backoff is over.                                                    *)
Retry(s) ==
    /\ sup[s].pc = "backoff" /\ s \notin stopped
    /\ sup' = [sup EXCEPT ![s].pc = "top"]
    /\ UNCHANGED <<dropped, stopped, token, fileVars, srvVars, mishaps, history>>

(* Restart cuts a backoff short and revives an instance that had failed.   *)
Revive(s) ==
    /\ sup[s].pc \in {"backoff", "failed"} /\ s \in token
    /\ token' = token \ {s}
    /\ IF sup[s].pc = "backoff"
       THEN sup' = [sup EXCEPT ![s].pc = "top", ![s].crashes = 0] /\ UNCHANGED <<disk, mishaps>>
       ELSE sup' = [sup EXCEPT ![s].pc = "top"] /\ Update(0)
    /\ UNCHANGED <<dropped, stopped, child, dir, lockfile, srvVars, history>>

Leave(s) ==
    /\ sup[s].pc \in {"top", "backoff", "failed"} /\ s \in stopped
    /\ sup' = [sup EXCEPT ![s].pc = "ending"]
    /\ UNCHANGED <<dropped, stopped, token, fileVars, srvVars, mishaps, history>>

(* The deferred end of the loop: the record, then the lock, then done.     *)
End(s) ==
    /\ sup[s].pc = "ending"
    /\ Forget({s}) /\ Update(0)
    /\ UNCHANGED <<child, dir, lockfile, srvVars, torn>>

LoopStep(s) == \/ Spawn(s) \/ NoSpawn(s) \/ Record(s) \/ Ready(s) \/ Unhealthy(s) \/ Bounce(s)
               \/ ForceEnd(s) \/ Ended(s) \/ Retry(s) \/ Revive(s) \/ Leave(s) \/ End(s)

(* A child dies by itself, or because it was told to.                      *)
ChildEnds(k) ==
    /\ k \in Live
    /\ IF child[k] = "up" THEN Mishap ELSE UNCHANGED mishaps
    /\ child' = [child EXCEPT ![k] = "gone"]
    /\ UNCHANGED <<supVars, dir, disk, lockfile, srvVars, history>>

-----------------------------------------------------------------------------
(* The server: search_managed.go, search_managed_optin.go.                 *)

(* Supervisors nothing refers to.                                          *)
Unused == {s \in Sups : /\ sup[s].pc \in Over
                        /\ \A p \in Procs : slot[p] # s
                        /\ \A u \in Users : req[u].sup # s}

(* The bound: a reset will need one more.                                  *)
Spare == Cardinality(Unused) > Cardinality({u \in Users : req[u].kind = "reset"})

(* newInstance into the slot of p; a closing server has cancelled runCtx.  *)
NewInstance(p) ==
    \E s \in Unused :
       /\ \A r \in Unused : s <= r
       /\ sup' = [sup EXCEPT ![s] = [NoSup EXCEPT !.owner = p, !.pc = "begin"]]
       /\ slot' = [slot EXCEPT ![p] = s]
       /\ dropped' = IF phase[p] = "closing" THEN dropped \cup {s} ELSE dropped \ {s}
       /\ hasty' = hasty \ {s}

(* Mutant: Enable without the look at the slot.                            *)
EnableAnyway(p) ==
    /\ phase[p] = "up" /\ Spare
    /\ NewInstance(p)
    /\ UNCHANGED <<stopped, token, fileVars, phase, req, mishaps, torn>>

(* begin, start and an opt-in: an instance for a slot that has none.       *)
Enable(p) ==
    /\ phase[p] = "up" /\ slot[p] = 0 /\ Spare
    /\ NewInstance(p)
    /\ UNCHANGED <<stopped, token, fileVars, phase, req, mishaps, torn>>

(* restart: a token for the loop, if there is a loop.                      *)
Restart(p) ==
    LET s == slot[p] IN
    /\ phase[p] = "up" /\ s # 0 /\ Stoppable(s)
    /\ Mishap
    /\ sup' = [sup EXCEPT ![s].crashes = 0]
    /\ token' = token \cup {s}
    /\ UNCHANGED <<dropped, stopped, fileVars, srvVars, history>>

(* stop and opt-out (off), opt-out with deleteIndex (delete), reset; a     *)
(* reset is refused for a foreign slot.                                    *)
Ask(u, p, kind) ==
    LET s == slot[p] IN
    /\ req[u].pc = "idle" /\ phase[p] = "up"
    /\ kind = "reset" => Spare /\ ~Foreign(s)
    /\ kind = "off" => s # 0
    /\ req' = [req EXCEPT ![u] = [pc |-> "remove", proc |-> p, sup |-> 0, kind |-> kind,
                                  foreign |-> Foreign(s)]]
    /\ UNCHANGED <<supVars, fileVars, slot, phase, mishaps, history>>

(* stopAll: the context of the server ends; the slots keep what they have. *)
Shutdown(u, p) ==
    LET s == slot[p] IN
    /\ req[u].pc = "idle" /\ phase[p] = "up"
    /\ phase' = [phase EXCEPT ![p] = "closing"]
    /\ dropped' = dropped \cup {r \in Started : sup[r].owner = p}
    /\ req' = [req EXCEPT ![u] = [pc |-> IF s = 0 \/ Foreign(s) THEN "clean" ELSE "stop", proc |-> p, sup |-> s,
                                  kind |-> "shutdown", foreign |-> FALSE]]
    /\ UNCHANGED <<sup, stopped, token, fileVars, slot, mishaps, history>>

(* Disable: the slot is emptied; stopSlot then ends its context, and calls *)
(* Stop unless it is foreign.                                              *)
Remove(u) ==
    LET s == slot[req[u].proc] IN
    /\ req[u].pc = "remove"
    /\ slot' = [slot EXCEPT ![req[u].proc] = 0]
    /\ dropped' = dropped \cup ({s} \cap Started)
    /\ req' = [req EXCEPT ![u].sup = s, ![u].pc = IF s = 0 \/ Foreign(s) THEN "clean" ELSE "stop"]
    /\ UNCHANGED <<sup, stopped, token, fileVars, phase, mishaps, history>>

(* Stop: nothing is stopped while there is no cancel.                      *)
StopCall(u) ==
    LET s == req[u].sup IN
    /\ req[u].pc = "stop"
    /\ stopped' = IF Stoppable(s) THEN stopped \cup {s} ELSE stopped
    /\ hasty' = IF sup[s].pc \in Starting THEN hasty \cup {s} ELSE hasty
    /\ req' = [req EXCEPT ![u].pc = IF Stoppable(s) THEN "wait" ELSE "clean"]
    /\ UNCHANGED <<sup, dropped, token, fileVars, slot, phase, mishaps, torn>>

(* A shutdown waits for fifteen seconds, a request as long as it takes.    *)
Waited(u) ==
    /\ req[u].pc = "wait"
    /\ sup[req[u].sup].pc = "gone" \/ req[u].kind = "shutdown"
    /\ req' = [req EXCEPT ![u].pc = "clean"]
    /\ UNCHANGED <<supVars, fileVars, slot, phase, mishaps, history>>

Finished(u) == req' = [req EXCEPT ![u] = Idle]

(* RemoveAll of the instance directory.                                    *)
Clean(u) ==
    /\ req[u].pc = "clean" /\ req[u].kind \in {"off", "delete"} /\ Finished(u)
    /\ IF req[u].kind = "delete" /\ ~req[u].foreign
       THEN /\ dir' = FALSE /\ disk' = 0
            /\ lockfile' \in {f \in 1..MaxSups + 1 : ~Locked(f)}
            /\ \A f \in 1..lockfile' - 1 : Locked(f)
            /\ torn' = (torn \/ Locked(lockfile) \/ disk \in Live)
       ELSE UNCHANGED <<dir, disk, lockfile, torn>>
    /\ UNCHANGED <<supVars, child, slot, phase, mishaps, hasty>>

(* reset: the index is in the data directory, which no other part reads.   *)
Again(u) ==
    /\ req[u].pc = "clean" /\ req[u].kind = "reset" /\ Finished(u)
    /\ IF slot[req[u].proc] = 0 THEN NewInstance(req[u].proc)
       ELSE UNCHANGED <<sup, dropped, slot, hasty>>
    /\ UNCHANGED <<stopped, token, fileVars, phase, mishaps, torn>>

(* The process ends: its locks go, and Pdeathsig tells its children, which *)
(* are stray if they are not on record.                                    *)
Die(p) ==
    LET mine == {s \in Sups : sup[s].owner = p}
        kids == {sup[s].kid : s \in mine} \cap Live
    IN /\ phase' = [phase EXCEPT ![p] = "down"]
       /\ Forget(mine)
       /\ child' = [k \in Pids |-> IF k \notin kids THEN child[k]
                                   ELSE IF k = disk THEN "term" ELSE "stray"]
       /\ slot' = [slot EXCEPT ![p] = 0]
       /\ req' = [u \in Users |-> IF req[u].proc = p THEN Idle ELSE req[u]]
       /\ UNCHANGED <<dir, disk, lockfile, torn>>

(* wg.Wait: every Start of the process is over.                            *)
Exit(u) ==
    /\ req[u].pc = "clean" /\ req[u].kind = "shutdown"
    /\ \A s \in Sups : sup[s].owner = req[u].proc => sup[s].pc \notin Starting
    /\ Die(req[u].proc) /\ UNCHANGED mishaps

Kill(p) ==
    /\ phase[p] # "down" /\ Mishap
    /\ Die(p)

Serve(p) ==
    /\ phase[p] = "down"
    /\ phase' = [phase EXCEPT ![p] = "up"]
    /\ UNCHANGED <<supVars, fileVars, slot, req, mishaps, history>>

Answer(u) == Remove(u) \/ StopCall(u) \/ Waited(u) \/ Clean(u) \/ Again(u) \/ Exit(u)

Next == \/ \E s \in Sups : StartStep(s) \/ LoopStep(s)
        \/ \E k \in Pids : ChildEnds(k)
        \/ \E u \in Users : Answer(u)
        \/ \E u \in Users, p \in Procs :
              Shutdown(u, p) \/ \E kind \in Kinds : Ask(u, p, kind)
        \/ \E p \in Procs : Enable(p) \/ Restart(p) \/ Kill(p) \/ Serve(p)

(* Every goroutine runs when it can, and a child that is up answers unless *)
(* there is a mishap; nobody has to ask, and no child ends by itself.      *)
Fairness == /\ \A s \in Sups : WF_vars(StartStep(s)) /\ WF_vars(LoopStep(s))
            /\ \A u \in Users : WF_vars(Answer(u))

Spec == Init /\ [][Next]_vars
FairSpec == Spec /\ Fairness

-----------------------------------------------------------------------------
TypeOK ==
    /\ sup \in [Sups -> [owner : Procs \cup {None}, held : 0..MaxSups + 1, kid : 0..MaxPid,
                         crashes : 0..CrashLimit,
                         pc : {"gone", "foreign", "refused"} \cup Starting \cup Looping]]
    /\ {dropped, stopped, token, hasty} \subseteq SUBSET Sups
    /\ child \in [Pids -> {"gone", "up", "term", "stray"}]
    /\ dir \in BOOLEAN /\ disk \in 0..MaxPid /\ lockfile \in 1..MaxSups + 1
    /\ slot \in [Procs -> 0..MaxSups] /\ phase \in [Procs -> {"up", "closing", "down"}]
    /\ req \in [Users -> [pc : {"idle", "remove", "stop", "wait", "clean"},
                          proc : Procs \cup {None}, sup : 0..MaxSups,
                          kind : {"start", "off", "delete", "reset", "shutdown"}, foreign : BOOLEAN]]
    /\ mishaps \in 0..MaxMishaps /\ torn \in BOOLEAN

(* One Pando per instance directory, whoever serves the repository and     *)
(* whoever was killed: two children are there at the same time only if one *)
(* lost its server before it was on record, and that one was told to end.  *)
OneChild == ~torn => \A j, k \in Live : j = k \/ "stray" \in {child[j], child[k]}

(* No Pando runs that nobody can stop: its supervisor is in the slot of    *)
(* its server, or a request that took it out is about to stop it.  The     *)
(* exception is a Stop that came while Start was still on its way.         *)
InHand == \A s \in Sups :
    LET p == sup[s].owner IN
    /\ sup[s].kid # 0 /\ child[sup[s].kid] = "up"
    /\ s \notin stopped \cup hasty
    => slot[p] = s \/ \E u \in Users : req[u].sup = s /\ req[u].pc = "stop"

(* A request ends; an instance that is switched on gets ready, or is       *)
(* switched off, or says that it failed or is run by another gintrack; a   *)
(* restart is taken up unless a Stop comes first.  NoPid is the bound.     *)
NoPid == FreePids = {}
EverythingIsAnswered ==
    /\ \A u \in Users : req[u].pc # "idle" ~> req[u].pc = "idle"
    /\ \A p \in Procs :
          slot[p] # 0 ~> \/ slot[p] = 0 \/ NoPid
                        \/ sup[slot[p]].pc \in {"ready", "failed", "refused", "foreign"}
    /\ \A s \in Sups : s \in token ~> s \notin token \/ NoPid
=============================================================================
