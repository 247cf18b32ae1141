--------------------------- MODULE SupervisorProofs ---------------------------
(***************************************************************************)
(* Theorems about Supervisor, for any number of processes, supervisors,    *)
(* children and requests.                                                  *)
(*                                                                         *)
(* OneChild and InHand say what ends well; IInv adds why.  While nobody    *)
(* removed the directory under a lock, there is one lock, on the file the  *)
(* name stands for, so one supervisor has a child; a child that outlived   *)
(* its server is on record, and the next to take the lock ends it before   *)
(* it begins its own.  A supervisor that runs is in the slot of its        *)
(* server, was told to stop, or has a request about to tell it (Tended);   *)
(* the one way out is a Stop that came before there was anything to cancel *)
(* (hasty).                                                                *)
(***************************************************************************)
EXTENDS Supervisor, TLAPS

Records == [owner : Procs \cup {None}, held : 0..MaxSups + 1, kid : 0..MaxPid,
            crashes : 0..CrashLimit,
            pc : {"gone", "foreign", "refused"} \cup Starting \cup Looping]
Requests == [pc : {"idle", "remove", "stop", "wait", "clean"},
             proc : Procs \cup {None}, sup : 0..MaxSups,
             kind : {"start", "off", "delete", "reset", "shutdown"}, foreign : BOOLEAN]

(* The steps at which a supervisor has neither lock nor child.             *)
Bare == {"begin"} \cup Over

(* What a supervisor holds at each of its steps.                           *)
Roles == \A s \in Sups :
    /\ sup[s].pc \in Bare => sup[s].held = 0 /\ sup[s].kid = 0
    /\ sup[s].pc \notin Bare => sup[s].held # 0
    /\ sup[s].pc \in {"reaped", "checked", "top", "backoff", "failed"} => sup[s].kid = 0
    /\ sup[s].pc \in {"spawned"} \cup Watching \cup Stopping => sup[s].kid # 0
    /\ sup[s].pc = "ending" /\ sup[s].kid # 0 => child[sup[s].kid] = "gone"

(* A child has one supervisor, whatever pids were used again.              *)
Parents == \A s, r \in Sups : sup[s].kid # 0 /\ sup[s].kid = sup[r].kid => s = r

(* While nobody removed the directory under it, every lock is on the file  *)
(* the name stands for, and so only one is held.                           *)
OneLock == ~torn => \A s, r \in Sups :
    /\ sup[s].held # 0 => sup[s].held = lockfile
    /\ sup[s].held # 0 /\ sup[r].held # 0 => s = r

(* A child that lost its server is stray, or on record until somebody      *)
(* takes the lock, who ends it first.                                      *)
Orphans == ~torn => \A k \in Live : \/ \E s \in Sups : sup[s].kid = k
                                    \/ child[k] = "stray"
                                    \/ k = disk /\ \A s \in Sups : sup[s].held = 0

(* A reference is to a supervisor of the same server, or to one that ended;*)
(* a request that was made has a server, and one that stops, a supervisor. *)
Owners == /\ \A s \in Sups : sup[s].pc # "gone" => sup[s].owner \in Procs
          /\ \A p \in Procs : slot[p] # 0 => sup[slot[p]].owner \in {p, None}
          /\ \A u \in Users : req[u].sup # 0 => sup[req[u].sup].owner \in {req[u].proc, None}
          /\ \A u \in Users : req[u].pc # "idle" => req[u].proc \in Procs
          /\ \A u \in Users : req[u].pc \in {"stop", "wait"} => req[u].sup # 0

(* A supervisor that has begun can be reached by somebody, was stopped, or *)
(* was missed by a Stop that came too early.                               *)
Tended == \A s \in Sups : sup[s].pc \notin Over =>
    \/ s \in stopped \cup hasty
    \/ sup[s].owner \in Procs /\ slot[sup[s].owner] = s
    \/ \E u \in Users : req[u].sup = s /\ req[u].pc = "stop"

IInv == TypeOK /\ Roles /\ Parents /\ OneLock /\ Orphans /\ Owners /\ Tended

(* TypeOK by parts.                                                        *)
Marks == dropped \subseteq Sups /\ stopped \subseteq Sups /\ token \subseteq Sups /\ hasty \subseteq Sups
Files == /\ child \in [Pids -> {"gone", "up", "term", "stray"}]
         /\ dir \in BOOLEAN /\ disk \in 0..MaxPid /\ lockfile \in 1..MaxSups + 1
Server == slot \in [Procs -> 0..MaxSups] /\ phase \in [Procs -> {"up", "closing", "down"}]

LEMMA Parts ==
  TypeOK <=> /\ sup \in [Sups -> Records] /\ req \in [Users -> Requests]
             /\ Marks /\ Files /\ Server /\ mishaps \in 0..MaxMishaps /\ torn \in BOOLEAN
<1>1. {dropped, stopped, token, hasty} \subseteq SUBSET Sups <=> Marks
  BY DEF Marks
<1> QED
  BY <1>1 DEF TypeOK, Records, Requests, Files, Server

LEMMA PartsNext ==
  ASSUME sup' \in [Sups -> Records], req' \in [Users -> Requests], Marks', Files', Server',
         mishaps' \in 0..MaxMishaps, torn' \in BOOLEAN
  PROVE  TypeOK'
<1>1. {dropped', stopped', token', hasty'} \subseteq SUBSET Sups
  BY DEF Marks
<1> QED
  BY <1>1 DEF TypeOK, Records, Requests, Files, Server

LEMMA InitIInv == ASSUME Init PROVE IInv
<1>0. {MaxSups, MaxPid, MaxMishaps} \subseteq Nat
  BY SupervisorAssumption
<1>a. MaxSups \in Nat /\ MaxPid \in Nat /\ MaxMishaps \in Nat /\ CrashLimit \in Nat
  BY <1>0, SupervisorAssumption
<1> USE <1>a DEF Init, Sups, Pids, NoSup, Idle, Over
<1>1. sup \in [Sups -> Records]
  BY DEF Records
<1>2. req \in [Users -> Requests]
  BY DEF Requests
<1>3. TypeOK
  <2>1. Marks /\ Files /\ Server /\ mishaps \in 0..MaxMishaps /\ torn \in BOOLEAN
    <3>1. Marks
      BY DEF Marks
    <3>2. Files
      <4>1. 0 \in 0..MaxPid /\ 1 \in 1..MaxSups + 1
        OBVIOUS
      <4> QED
        BY <4>1 DEF Files
    <3>3. Server
      BY DEF Server
    <3>4. mishaps \in 0..MaxMishaps
      <4>1. 0 \in 0..MaxMishaps
        OBVIOUS
      <4> QED
        BY <4>1
    <3>5. torn \in BOOLEAN
      OBVIOUS
    <3> QED
      BY <3>1, <3>2, <3>3, <3>4, <3>5
  <2> QED
    BY <1>1, <1>2, <2>1, Parts
<1>4. Roles /\ Parents /\ OneLock
  BY DEF Roles, Parents, OneLock, Bare, Watching, Stopping
<1>5. Orphans /\ Owners /\ Tended
  BY DEF Orphans, Owners, Tended, Live
<1> QED
  BY <1>3, <1>4, <1>5 DEF IInv

-----------------------------------------------------------------------------
(* The supervisors' own steps.                                             *)

Own(s) == StartStep(s) \/ (LoopStep(s) /\ ~End(s))

(* What a step of s does to its record.                                    *)
Moves(s) == LET a == sup[s]
                b == sup'[s]
            IN
    \/ a.pc = "begin" /\ b.pc \in {"foreign", "refused"} /\ b.held = a.held /\ b.kid = a.kid
    \/ a.pc = "begin" /\ b.pc = "reaped" /\ ~Locked(lockfile) /\ b.held = lockfile /\ b.kid = a.kid
    \/ a.pc = "reaped" /\ b.pc = "refused" /\ b.held = 0 /\ b.kid = a.kid
    \/ a.pc = "top" /\ b.pc = "spawned" /\ b.held = a.held /\ b.kid \in FreePids
    \/ /\ b.held = a.held /\ b.kid = a.kid
       /\ \/ a.pc \in {"reaped", "checked", "backoff", "failed"} /\ b.pc \in {"checked", "top"}
          \/ a.pc \in {"spawned"} \cup Watching \cup Stopping /\ b.pc \in Watching \cup Stopping
          \/ a.pc \in {"top", "backoff", "failed"} /\ b.pc = "ending"
          \/ a.pc \in Watching \cup Stopping /\ b.pc = "ending" /\ child[a.kid] = "gone"
    \/ /\ b.held = a.held /\ b.kid = 0 /\ b.pc \in {"top", "backoff", "failed"}
       /\ \/ a.pc = "top"
          \/ a.pc \in Watching \cup Stopping /\ child[a.kid] = "gone"

(* And to the children: none begins but its own, the stray stay so, and    *)
(* whoever takes the lock ends the one on record.                          *)
Nurses(s) == /\ \A k \in Live' : k \in Live \/ k = sup'[s].kid
             /\ \A k \in Live' : child[k] = "stray" => child'[k] = "stray"
             /\ sup'[s].pc = "ending" => child' = child
             /\ sup[s].pc = "begin" => disk' = disk /\ (sup'[s].pc = "reaped" => disk \notin Live')

LEMMA Changed ==
  ASSUME NEW r \in Records, NEW pc \in {"gone", "foreign", "refused"} \cup Starting \cup Looping,
         MaxSups \in Nat, MaxPid \in Nat, CrashLimit \in Nat
  PROVE  /\ \A h \in 0..MaxSups + 1 : [r EXCEPT !.pc = pc, !.held = h] \in Records
         /\ \A k \in 0..MaxPid : [r EXCEPT !.pc = pc, !.kid = k] \in Records
         /\ \A n \in 0..CrashLimit : [r EXCEPT !.pc = pc, !.crashes = n] \in Records
         /\ 0 \in 0..MaxSups + 1 /\ 0 \in 0..MaxPid /\ 0 \in 0..CrashLimit
<1>1. \A h \in 0..MaxSups + 1 : [r EXCEPT !.pc = pc, !.held = h] \in Records
  BY DEF Records
<1>2. \A k \in 0..MaxPid : [r EXCEPT !.pc = pc, !.kid = k] \in Records
  BY DEF Records
<1>3. \A n \in 0..CrashLimit : [r EXCEPT !.pc = pc, !.crashes = n] \in Records
  BY DEF Records
<1>4. 0 \in 0..MaxSups + 1 /\ 0 \in 0..MaxPid /\ 0 \in 0..CrashLimit
  OBVIOUS
<1> QED
  BY <1>1, <1>2, <1>3, <1>4

LEMMA Crashes ==
  ASSUME IInv, NEW s \in Sups, RecordCrash(s)
  PROVE  /\ sup' \in [Sups -> Records]
         /\ \A r \in Sups : r # s => sup'[r] = sup[r]
         /\ sup'[s].owner = sup[s].owner /\ sup'[s].held = sup[s].held
         /\ sup'[s].kid = 0 /\ sup'[s].pc \in {"failed", "backoff"}
<1>0. sup \in [Sups -> Records] /\ CrashLimit \in Nat \ {0} /\ MaxPid \in Nat
  BY SupervisorAssumption, Parts DEF IInv
<1>1. PICK kept \in 0..sup[s].crashes :
         LET n == IF kept < CrashLimit THEN kept + 1 ELSE kept
         IN sup' = [sup EXCEPT ![s].crashes = n, ![s].kid = 0,
                               ![s].pc = IF n >= CrashLimit THEN "failed" ELSE "backoff"]
  <2>1. sup[s].crashes \in 0..sup[s].crashes
    BY <1>0 DEF Records
  <2> QED
    BY <2>1, ZenonT(30) DEF RecordCrash
<1>2. PICK n : n = IF kept < CrashLimit THEN kept + 1 ELSE kept
  OBVIOUS
<1>3. n \in 0..CrashLimit
  BY <1>0, <1>2 DEF Records
<1>4. PICK where \in {"failed", "backoff"} :
         sup' = [sup EXCEPT ![s].crashes = n, ![s].kid = 0, ![s].pc = where]
  BY <1>1, <1>2
<1>5. PICK r : r = [sup[s] EXCEPT !.crashes = n, !.kid = 0, !.pc = where]
  OBVIOUS
<1>6. r.owner = sup[s].owner /\ r.held = sup[s].held /\ r.kid = 0 /\ r.pc = where
  BY <1>0, <1>5 DEF Records
<1>8. r \in Records
  <2>1. where \in Looping /\ 0 \in 0..MaxPid /\ sup[s] \in Records
    BY <1>0 DEF Looping
  <2> QED
    BY <1>3, <1>5, <2>1 DEF Records
<1>7. sup' = [sup EXCEPT ![s] = r]
  BY <1>4, <1>5
<1> QED
  BY <1>0, <1>6, <1>7, <1>8

LEMMA OwnStep ==
  ASSUME IInv, NEW s \in Sups, Own(s)
  PROVE  /\ sup' \in [Sups -> Records]
         /\ \A r \in Sups : r # s => sup'[r] = sup[r]
         /\ sup'[s].owner = sup[s].owner
         /\ UNCHANGED <<dropped, stopped, lockfile, slot, phase, req, hasty, torn>>
         /\ Moves(s) /\ Nurses(s)
<1> USE DEF supVars, fileVars, srvVars, history, Sups, Pids, Starting, Watching, Stopping, Looping,
            Live, Told, Moves, Nurses
<1>0. /\ sup \in [Sups -> Records] /\ child \in [Pids -> {"gone", "up", "term", "stray"}]
      /\ lockfile \in 1..MaxSups + 1 /\ lockfile \in 0..MaxSups + 1
      /\ MaxSups \in Nat /\ MaxPid \in Nat /\ CrashLimit \in Nat
  BY SupervisorAssumption, Parts DEF IInv, Files
<1>1. CASE Acquire(s)
  <2>1. sup' \in [Sups -> Records] /\ \A r \in Sups : r # s => sup'[r] = sup[r]
    <3>1. sup[s] \in Records
      BY <1>0
    <3>2. [sup[s] EXCEPT !.pc = "foreign"] \in Records
      BY <1>0, <3>1 DEF Records
    <3>3. [sup[s] EXCEPT !.pc = "reaped", !.held = lockfile] \in Records
      BY <1>0, <3>1, Changed
    <3>4. [sup[s] EXCEPT !.pc = "refused"] \in Records
      BY <1>0, <3>1 DEF Records
    <3>5. PICK r \in Records : sup' = [sup EXCEPT ![s] = r]
      <4>1. \/ sup' = [sup EXCEPT ![s] = [sup[s] EXCEPT !.pc = "foreign"]]
            \/ sup' = [sup EXCEPT ![s] = [sup[s] EXCEPT !.pc = "reaped", !.held = lockfile]]
            \/ sup' = [sup EXCEPT ![s] = [sup[s] EXCEPT !.pc = "refused"]]
        BY <1>1 DEF Acquire, Acquires
      <4> QED
        BY <3>2, <3>3, <3>4, <4>1
    <3> QED
      BY <1>0, <3>5
  <2>2. Moves(s) /\ sup'[s].owner = sup[s].owner
    <3>1. /\ sup[s].pc = "begin"
          /\ \/ sup'[s] = [sup[s] EXCEPT !.pc = "foreign"]
             \/ ~Locked(lockfile) /\ sup'[s] = [sup[s] EXCEPT !.pc = "reaped", !.held = lockfile]
             \/ sup'[s] = [sup[s] EXCEPT !.pc = "refused"]
      BY <1>0, <1>1 DEF Acquire, Acquires
    <3>2. sup[s] \in Records
      BY <1>0
    <3> QED
      BY <1>0, <3>1, <3>2 DEF Records
  <2>3. Nurses(s)
    BY <1>0, <1>1 DEF Acquire, Acquires, Records, FreePids
  <2> QED
    BY <1>1, <2>1, <2>2, <2>3 DEF Acquire, Acquires
<1>2. CASE Check(s)
  <2>1. sup' \in [Sups -> Records] /\ \A r \in Sups : r # s => sup'[r] = sup[r]
    <3>1. sup[s] \in Records
      BY <1>0
    <3>2. [sup[s] EXCEPT !.pc = "checked"] \in Records
      BY <1>0, <3>1 DEF Records
    <3>3. [sup[s] EXCEPT !.pc = "refused", !.held = 0] \in Records
      BY <1>0, <3>1, Changed
    <3>4. PICK r \in Records : sup' = [sup EXCEPT ![s] = r]
      <4>1. \/ sup' = [sup EXCEPT ![s] = [sup[s] EXCEPT !.pc = "checked"]]
            \/ sup' = [sup EXCEPT ![s] = [sup[s] EXCEPT !.pc = "refused", !.held = 0]]
        BY <1>2 DEF Check
      <4> QED
        BY <3>2, <3>3, <4>1
    <3> QED
      BY <1>0, <3>4
  <2>2. Moves(s) /\ sup'[s].owner = sup[s].owner
    <3>1. /\ sup[s].pc = "reaped"
          /\ \/ sup'[s] = [sup[s] EXCEPT !.pc = "checked"]
             \/ sup'[s] = [sup[s] EXCEPT !.pc = "refused", !.held = 0]
      BY <1>0, <1>2 DEF Check
    <3>2. sup[s] \in Records
      BY <1>0
    <3> QED
      BY <1>0, <3>1, <3>2 DEF Records
  <2>3. Nurses(s)
    BY <1>0, <1>2 DEF Check, Records, FreePids
  <2> QED
    BY <1>2, <2>1, <2>2, <2>3 DEF Check
<1>3. CASE Launch(s)
  <2>1. sup' \in [Sups -> Records] /\ \A r \in Sups : r # s => sup'[r] = sup[r]
    <3>1. PICK r : r = [sup[s] EXCEPT !.pc = "top", !.crashes = 0]
      OBVIOUS
    <3>2. sup[s] \in Records
      BY <1>0
    <3>3. r \in Records
      BY <1>0, <3>1, <3>2, Changed
    <3>4. sup' = [sup EXCEPT ![s] = r]
      BY <1>3, <3>1 DEF Launch
    <3> QED
      BY <1>0, <3>3, <3>4
  <2>2. Moves(s) /\ sup'[s].owner = sup[s].owner
    <3>1. sup[s].pc = "checked" /\ sup'[s] = [sup[s] EXCEPT !.pc = "top", !.crashes = 0]
      BY <1>0, <1>3 DEF Launch
    <3>2. sup[s] \in Records
      BY <1>0
    <3> QED
      BY <1>0, <3>1, <3>2 DEF Records
  <2>3. Nurses(s)
    BY <1>0, <1>3 DEF Launch, Records, FreePids
  <2> QED
    BY <1>3, <2>1, <2>2, <2>3 DEF Launch
<1>4. CASE Spawn(s)
  <2>1. sup' \in [Sups -> Records] /\ \A r \in Sups : r # s => sup'[r] = sup[r]
    <3>1. PICK k \in FreePids : sup' = [sup EXCEPT ![s].pc = "spawned", ![s].kid = k]
      BY <1>4 DEF Spawn
    <3>2. PICK r : r = [sup[s] EXCEPT !.pc = "spawned", !.kid = k]
      OBVIOUS
    <3>3. sup[s] \in Records /\ k \in 0..MaxPid
      BY <1>0, <3>1 DEF FreePids
    <3>4. r \in Records
      BY <3>2, <3>3 DEF Records
    <3>5. sup' = [sup EXCEPT ![s] = r]
      BY <3>1, <3>2
    <3> QED
      BY <1>0, <3>4, <3>5
  <2>2. Moves(s) /\ sup'[s].owner = sup[s].owner
    <3>1. sup[s].pc = "top" /\ \E k \in FreePids : sup'[s] = [sup[s] EXCEPT !.pc = "spawned", !.kid = k]
      BY <1>0, <1>4 DEF Spawn
    <3>2. sup[s] \in Records
      BY <1>0
    <3> QED
      BY <1>0, <3>1, <3>2 DEF Records
  <2>3. Nurses(s)
    BY <1>0, <1>4 DEF Spawn, Records, FreePids
  <2> QED
    BY <1>4, <2>1, <2>2, <2>3 DEF Spawn
<1>5. CASE NoSpawn(s)
  <2>1. sup[s].pc = "top" /\ RecordCrash(s) /\ UNCHANGED child
    BY <1>5 DEF NoSpawn
  <2>2. Nurses(s)
    BY <1>0, <2>1
  <2>3. Moves(s)
    BY <2>1, Crashes
  <2> QED
    BY <1>5, <2>1, <2>2, <2>3, Crashes DEF NoSpawn
<1>6. CASE Record(s)
  <2>1. sup' \in [Sups -> Records] /\ \A r \in Sups : r # s => sup'[r] = sup[r]
    <3>1. sup[s] \in Records
      BY <1>0
    <3>2. [sup[s] EXCEPT !.pc = "waiting"] \in Records
      BY <3>1 DEF Records
    <3>3. sup' = [sup EXCEPT ![s] = [sup[s] EXCEPT !.pc = "waiting"]]
      BY <1>6 DEF Record
    <3> QED
      BY <1>0, <3>2, <3>3
  <2>2. Moves(s) /\ sup'[s].owner = sup[s].owner
    <3>1. sup[s].pc = "spawned" /\ sup'[s] = [sup[s] EXCEPT !.pc = "waiting"]
      BY <1>0, <1>6 DEF Record
    <3>2. sup[s] \in Records
      BY <1>0
    <3> QED
      BY <1>0, <3>1, <3>2 DEF Records
  <2>3. Nurses(s)
    BY <1>0, <1>6 DEF Record, Records, FreePids
  <2> QED
    BY <1>6, <2>1, <2>2, <2>3 DEF Record
<1>7. CASE Ready(s)
  <2>1. sup' \in [Sups -> Records] /\ \A r \in Sups : r # s => sup'[r] = sup[r]
    <3>1. sup[s] \in Records
      BY <1>0
    <3>2. [sup[s] EXCEPT !.pc = "ready"] \in Records
      BY <3>1 DEF Records
    <3>3. sup' = [sup EXCEPT ![s] = [sup[s] EXCEPT !.pc = "ready"]]
      BY <1>7 DEF Ready
    <3> QED
      BY <1>0, <3>2, <3>3
  <2>2. Moves(s) /\ sup'[s].owner = sup[s].owner
    <3>1. sup'[s] = [sup[s] EXCEPT !.pc = "ready"] /\ sup[s].pc = "waiting" /\ sup[s] \in Records
      BY <1>0, <1>7 DEF Ready
    <3> QED
      BY <3>1 DEF Records
  <2>3. Nurses(s)
    BY <1>0, <1>7 DEF Ready, Records, FreePids
  <2> QED
    BY <1>7, <2>1, <2>2, <2>3 DEF Ready
<1>8. CASE Unhealthy(s)
  <2>1. sup' \in [Sups -> Records] /\ \A r \in Sups : r # s => sup'[r] = sup[r]
    <3>1. sup[s] \in Records
      BY <1>0
    <3>2. [sup[s] EXCEPT !.pc = "crashing"] \in Records
      BY <3>1 DEF Records
    <3>3. sup' = [sup EXCEPT ![s] = [sup[s] EXCEPT !.pc = "crashing"]]
      BY <1>8 DEF Unhealthy
    <3> QED
      BY <1>0, <3>2, <3>3
  <2>2. Moves(s) /\ sup'[s].owner = sup[s].owner
    <3>1. sup[s].pc \in Watching /\ sup'[s] = [sup[s] EXCEPT !.pc = "crashing"]
      BY <1>0, <1>8 DEF Unhealthy
    <3>2. sup[s] \in Records
      BY <1>0
    <3> QED
      BY <1>0, <3>1, <3>2 DEF Records
  <2>3. Nurses(s)
    BY <1>0, <1>8 DEF Unhealthy, Told, Records, FreePids
  <2> QED
    BY <1>8, <2>1, <2>2, <2>3 DEF Unhealthy, Told
<1>9. CASE Bounce(s)
  <2>1. sup' \in [Sups -> Records] /\ \A r \in Sups : r # s => sup'[r] = sup[r]
    <3>1. sup[s] \in Records
      BY <1>0
    <3>2. [sup[s] EXCEPT !.pc = "bouncing"] \in Records
      BY <3>1 DEF Records
    <3>3. sup' = [sup EXCEPT ![s] = [sup[s] EXCEPT !.pc = "bouncing"]]
      BY <1>9 DEF Bounce
    <3> QED
      BY <1>0, <3>2, <3>3
  <2>2. Moves(s) /\ sup'[s].owner = sup[s].owner
    <3>1. sup[s].pc \in Watching /\ sup'[s] = [sup[s] EXCEPT !.pc = "bouncing"]
      BY <1>0, <1>9 DEF Bounce
    <3>2. sup[s] \in Records
      BY <1>0
    <3> QED
      BY <1>0, <3>1, <3>2 DEF Records
  <2>3. Nurses(s)
    BY <1>0, <1>9 DEF Bounce, Told, Records, FreePids
  <2> QED
    BY <1>9, <2>1, <2>2, <2>3 DEF Bounce, Told
<1>10. CASE ForceEnd(s)
  <2>1. sup' \in [Sups -> Records] /\ \A r \in Sups : r # s => sup'[r] = sup[r]
    BY <1>0, <1>10 DEF ForceEnd
  <2>2. Moves(s) /\ sup'[s].owner = sup[s].owner
    <3>1. sup[s].pc \in Stopping /\ sup'[s] = sup[s]
      BY <1>0, <1>10 DEF ForceEnd
    <3>2. sup[s] \in Records
      BY <1>0
    <3> QED
      BY <1>0, <3>1, <3>2 DEF Records
  <2>3. Nurses(s)
    BY <1>0, <1>10 DEF ForceEnd, Records, FreePids
  <2> QED
    BY <1>10, <2>1, <2>2, <2>3 DEF ForceEnd
<1>11. CASE Ended(s)
  <2>0. sup[s].pc \in Watching \cup Stopping /\ child[sup[s].kid] = "gone" /\ UNCHANGED child
    BY <1>11 DEF Ended
  <2>1. CASE RecordCrash(s)
    BY <1>0, <1>11, <2>0, <2>1, Crashes DEF Ended, FreePids
  <2>2. CASE ~RecordCrash(s)
    <3>1. \/ sup' = [sup EXCEPT ![s] = [sup[s] EXCEPT !.pc = "ending"]]
          \/ sup' = [sup EXCEPT ![s] = [sup[s] EXCEPT !.pc = "top", !.kid = 0]]
      BY <1>11, <2>2 DEF Ended
    <3>2. sup[s] \in Records
      BY <1>0
    <3>3. [sup[s] EXCEPT !.pc = "ending"] \in Records
      BY <3>2 DEF Records
    <3>4. [sup[s] EXCEPT !.pc = "top", !.kid = 0] \in Records
      BY <1>0, <3>2, Changed
    <3>5. sup' \in [Sups -> Records] /\ \A r \in Sups : r # s => sup'[r] = sup[r]
      BY <1>0, <3>1, <3>3, <3>4
    <3>6. Moves(s) /\ sup'[s].owner = sup[s].owner
      <4>1. CASE sup' = [sup EXCEPT ![s] = [sup[s] EXCEPT !.pc = "ending"]]
        BY <1>0, <2>0, <3>2, <4>1 DEF Records
      <4>2. CASE sup' = [sup EXCEPT ![s] = [sup[s] EXCEPT !.pc = "top", !.kid = 0]]
        BY <1>0, <2>0, <3>2, <4>2 DEF Records
      <4> QED
        BY <3>1, <4>1, <4>2
    <3>7. Nurses(s)
      BY <1>0, <2>0
    <3> QED
      BY <1>11, <3>5, <3>6, <3>7 DEF Ended
  <2> QED
    BY <2>1, <2>2
<1>12. CASE Retry(s)
  <2>1. sup' \in [Sups -> Records] /\ \A r \in Sups : r # s => sup'[r] = sup[r]
    <3>1. sup[s] \in Records
      BY <1>0
    <3>2. [sup[s] EXCEPT !.pc = "top"] \in Records
      BY <3>1 DEF Records
    <3>3. sup' = [sup EXCEPT ![s] = [sup[s] EXCEPT !.pc = "top"]]
      BY <1>12 DEF Retry
    <3> QED
      BY <1>0, <3>2, <3>3
  <2>2. Moves(s) /\ sup'[s].owner = sup[s].owner
    <3>1. sup[s].pc = "backoff" /\ sup'[s] = [sup[s] EXCEPT !.pc = "top"]
      BY <1>0, <1>12 DEF Retry
    <3>2. sup[s] \in Records
      BY <1>0
    <3> QED
      BY <1>0, <3>1, <3>2 DEF Records
  <2>3. Nurses(s)
    BY <1>0, <1>12 DEF Retry, Records, FreePids
  <2> QED
    BY <1>12, <2>1, <2>2, <2>3 DEF Retry
<1>13. CASE Revive(s)
  <2>1. sup' \in [Sups -> Records] /\ \A r \in Sups : r # s => sup'[r] = sup[r]
    <3>1. sup[s] \in Records
      BY <1>0
    <3>2. [sup[s] EXCEPT !.pc = "top", !.crashes = 0] \in Records
      BY <1>0, <3>1, Changed
    <3>3. [sup[s] EXCEPT !.pc = "top"] \in Records
      BY <1>0, <3>1 DEF Records
    <3>4. PICK r \in Records : sup' = [sup EXCEPT ![s] = r]
      <4>1. \/ sup' = [sup EXCEPT ![s] = [sup[s] EXCEPT !.pc = "top", !.crashes = 0]]
            \/ sup' = [sup EXCEPT ![s] = [sup[s] EXCEPT !.pc = "top"]]
        BY <1>13 DEF Revive
      <4> QED
        BY <3>2, <3>3, <4>1
    <3> QED
      BY <1>0, <3>4
  <2>2. Moves(s) /\ sup'[s].owner = sup[s].owner
    <3>1. /\ sup[s].pc \in {"backoff", "failed"}
          /\ \/ sup'[s] = [sup[s] EXCEPT !.pc = "top", !.crashes = 0]
             \/ sup'[s] = [sup[s] EXCEPT !.pc = "top"]
      BY <1>0, <1>13 DEF Revive
    <3>2. sup[s] \in Records
      BY <1>0
    <3> QED
      BY <1>0, <3>1, <3>2 DEF Records
  <2>3. Nurses(s)
    BY <1>0, <1>13 DEF Revive, Records, FreePids
  <2> QED
    BY <1>13, <2>1, <2>2, <2>3 DEF Revive
<1>14. CASE Leave(s)
  <2>1. sup' \in [Sups -> Records] /\ \A r \in Sups : r # s => sup'[r] = sup[r]
    <3>1. sup[s] \in Records
      BY <1>0
    <3>2. [sup[s] EXCEPT !.pc = "ending"] \in Records
      BY <3>1 DEF Records
    <3>3. sup' = [sup EXCEPT ![s] = [sup[s] EXCEPT !.pc = "ending"]]
      BY <1>14 DEF Leave
    <3> QED
      BY <1>0, <3>2, <3>3
  <2>2. Moves(s) /\ sup'[s].owner = sup[s].owner
    <3>1. sup[s].pc \in {"top", "backoff", "failed"} /\ sup'[s] = [sup[s] EXCEPT !.pc = "ending"]
      BY <1>0, <1>14 DEF Leave
    <3>2. sup[s] \in Records
      BY <1>0
    <3> QED
      BY <1>0, <3>1, <3>2 DEF Records
  <2>3. Nurses(s)
    BY <1>0, <1>14 DEF Leave, Records, FreePids
  <2> QED
    BY <1>14, <2>1, <2>2, <2>3 DEF Leave
<1> QED
  BY <1>1, <1>2, <1>3, <1>4, <1>5, <1>6, <1>7, <1>8, <1>9, <1>10, <1>11, <1>12, <1>13, <1>14 DEF Own, StartStep, LoopStep

-----------------------------------------------------------------------------
(* The other steps.                                                        *)

(* No supervisor changes what it is, and nothing else Roles, Parents,      *)
(* OneLock and Orphans are about changes.                                  *)
Kept == /\ \A s \in Sups : /\ sup'[s].pc = sup[s].pc /\ sup'[s].held = sup[s].held
                           /\ sup'[s].kid = sup[s].kid /\ sup'[s].owner = sup[s].owner
        /\ UNCHANGED <<child, disk, lockfile, torn>>

(* A request goes on, or begins with what is in the slot, and none that    *)
(* was about to call Stop forgets it.                                      *)
Passed == \A u \in Users :
    \/ req'[u] = req[u]
    \/ /\ req[u].pc # "stop"
       /\ req'[u].pc # "idle" => req'[u].proc \in Procs
       /\ req'[u].pc \in {"stop", "wait"} => req'[u].sup # 0
       /\ \/ req'[u].sup = 0
          \/ req'[u].sup = req[u].sup /\ req'[u].proc = req[u].proc
          \/ req'[u].proc \in Procs /\ req'[u].sup = slot[req'[u].proc]

(* A new instance, and what a step that makes one leaves alone.            *)
Begins(p) == /\ slot[p] = 0 /\ NewInstance(p) /\ Passed
             /\ UNCHANGED <<child, disk, lockfile, torn, stopped>>

Call(u) == Remove(u) \/ StopCall(u)

LEMMA Facts ==
  ASSUME IInv
  PROVE  /\ sup \in [Sups -> Records] /\ child \in [Pids -> {"gone", "up", "term", "stray"}]
         /\ disk \in 0..MaxPid /\ lockfile \in 1..MaxSups + 1 /\ torn \in BOOLEAN /\ dir \in BOOLEAN
         /\ slot \in [Procs -> 0..MaxSups] /\ req \in [Users -> Requests]
         /\ phase \in [Procs -> {"up", "closing", "down"}] /\ mishaps \in 0..MaxMishaps
         /\ Marks /\ MaxSups \in Nat /\ MaxPid \in Nat /\ MaxMishaps \in Nat /\ CrashLimit \in Nat
         /\ None \notin Procs
BY SupervisorAssumption, Parts DEF IInv, Files, Server

LEMMA Asked ==
  ASSUME IInv
  PROVE  /\ \A u \in Users : req[u].pc # "idle" => req[u].proc \in Procs
         /\ \A u \in Users : req[u].pc \in {"stop", "wait"} => req[u].sup # 0
BY DEF IInv, Owners

LEMMA Cases ==
  ASSUME IInv, [Next]_vars
  PROVE  \/ \E s \in Sups : Own(s) \/ End(s)
         \/ \E k \in Pids : ChildEnds(k)
         \/ \E u \in Users : Clean(u)
         \/ \E p \in Procs : Begins(p)
         \/ \E p \in Procs : Die(p)
         \/ Kept /\ \/ \E u \in Users : Call(u)
                    \/ Passed /\ UNCHANGED <<slot, stopped, hasty>>
<1> USE DEF supVars, fileVars, srvVars, history
<1>0. req \in [Users -> Requests] /\ slot \in [Procs -> 0..MaxSups]
  BY Facts
<1>1. ASSUME NEW s \in Sups, StartStep(s) \/ LoopStep(s) PROVE Own(s) \/ End(s)
  BY <1>1 DEF Own
<1>2. ASSUME NEW u \in Users, Call(u) PROVE Kept
  BY <1>2 DEF Call, Remove, StopCall, Kept
<1>3. ASSUME NEW u \in Users, Waited(u) PROVE Kept /\ Passed /\ UNCHANGED <<slot, stopped, hasty>>
  <2>1. Kept /\ UNCHANGED <<slot, stopped, hasty>>
    BY <1>3 DEF Waited, Kept
  <2>2. Passed
    BY <1>0, <1>3, Asked DEF Waited, Passed, Requests
  <2> QED
    BY <2>1, <2>2
<1>4. ASSUME NEW u \in Users, Again(u)
      PROVE  \/ Kept /\ Passed /\ UNCHANGED <<slot, stopped, hasty>>
             \/ \E p \in Procs : Begins(p)
  <2>1. req[u].proc \in Procs
    BY <1>4, Asked DEF Again
  <2>2. Passed
    BY <1>0, <1>4 DEF Again, Finished, Idle, Passed
  <2>3. CASE slot[req[u].proc] = 0
    <3>1. NewInstance(req[u].proc) /\ UNCHANGED <<child, disk, lockfile, torn, stopped>>
      BY <1>4, <2>3 DEF Again
    <3> QED
      BY <2>1, <2>2, <2>3, <3>1 DEF Begins
  <2>4. CASE slot[req[u].proc] # 0
    BY <1>4, <2>2, <2>4 DEF Again, Kept
  <2> QED
    BY <2>3, <2>4
<1>5. ASSUME NEW u \in Users, Exit(u) PROVE \E p \in Procs : Die(p)
  <2>1. req[u].proc \in Procs
    BY <1>5, Asked DEF Exit
  <2> QED
    BY <1>5, <2>1 DEF Exit
<1>6. ASSUME NEW u \in Users, NEW p \in Procs, Shutdown(u, p)
      PROVE  Kept /\ Passed /\ UNCHANGED <<slot, stopped, hasty>>
  <2>1. Kept /\ UNCHANGED <<slot, stopped, hasty>>
    BY <1>6 DEF Shutdown, Kept
  <2>2. Passed
    <3>1. PICK pc \in {"clean", "stop"} :
            /\ pc = "stop" => slot[p] # 0
            /\ req' = [req EXCEPT ![u] = [pc |-> pc, proc |-> p, sup |-> slot[p],
                                          kind |-> "shutdown", foreign |-> FALSE]]
      BY <1>6 DEF Shutdown
    <3> QED
      BY <1>0, <1>6, <3>1 DEF Shutdown, Passed
  <2> QED
    BY <2>1, <2>2
<1>7. ASSUME NEW u \in Users, NEW p \in Procs, NEW kind \in Kinds, Ask(u, p, kind)
      PROVE  Kept /\ Passed /\ UNCHANGED <<slot, stopped, hasty>>
  <2>1. Kept /\ UNCHANGED <<slot, stopped, hasty>>
    BY <1>7 DEF Ask, Kept
  <2>2. Passed
    BY <1>0, <1>7 DEF Ask, Passed
  <2> QED
    BY <2>1, <2>2
<1>8. ASSUME NEW p \in Procs, Enable(p) PROVE Begins(p)
  BY <1>8 DEF Enable, Begins, Passed
<1>9. ASSUME NEW p \in Procs, Restart(p) PROVE Kept /\ Passed /\ UNCHANGED <<slot, stopped, hasty>>
  <2>1. sup' = [sup EXCEPT ![slot[p]] = [sup[slot[p]] EXCEPT !.crashes = 0]]
    BY <1>9 DEF Restart
  <2>2. ASSUME NEW s \in Sups
        PROVE  /\ sup'[s].pc = sup[s].pc /\ sup'[s].held = sup[s].held
               /\ sup'[s].kid = sup[s].kid /\ sup'[s].owner = sup[s].owner
    <3>1. sup[s] \in Records /\ sup'[s] \in {sup[s], [sup[s] EXCEPT !.crashes = 0]}
      BY <2>1, Facts
    <3> QED
      BY <3>1 DEF Records
  <2> QED
    BY <1>9, <2>2 DEF Restart, Kept, Passed
<1>10. ASSUME NEW p \in Procs, Kill(p) PROVE Die(p)
  BY <1>10 DEF Kill
<1>11. ASSUME NEW p \in Procs, Serve(p) PROVE Kept /\ Passed /\ UNCHANGED <<slot, stopped, hasty>>
  BY <1>11 DEF Serve, Kept, Passed
<1>12. CASE UNCHANGED vars
  BY <1>12 DEF vars, Kept, Passed
<1> QED
  BY <1>1, <1>2, <1>3, <1>4, <1>5, <1>6, <1>7, <1>8, <1>9, <1>10, <1>11, <1>12 DEF Next, Answer, Call

LEMMA Forgotten ==
  ASSUME IInv, NEW S, Forget(S)
  PROVE  /\ sup' \in [Sups -> Records]
         /\ \A s \in Sups \ S : sup'[s] = sup[s]
         /\ \A s \in Sups \cap S : /\ sup'[s].owner = None /\ sup'[s].pc = "gone"
                                   /\ sup'[s].held = 0 /\ sup'[s].kid = 0
         /\ \A s \in Sups \ S : s \in stopped \cup hasty => s \in stopped' \cup hasty'
<1>1. NoSup \in Records
  BY Facts DEF NoSup, Records
<1> QED
  BY <1>1, Facts DEF Forget, NoSup

LEMMA Begun ==
  ASSUME IInv, NEW p \in Procs, NewInstance(p)
  PROVE  \E s \in Unused :
            /\ sup' \in [Sups -> Records]
            /\ sup'[s].owner = p /\ sup'[s].pc = "begin" /\ sup'[s].held = 0 /\ sup'[s].kid = 0
            /\ \A r \in Sups : r # s => sup'[r] = sup[r]
            /\ slot' = [slot EXCEPT ![p] = s]
            /\ dropped' \subseteq dropped \cup {s} /\ hasty' = hasty \ {s}
<1>1. PICK s \in Unused :
         /\ sup' = [sup EXCEPT ![s] = [NoSup EXCEPT !.owner = p, !.pc = "begin"]]
         /\ slot' = [slot EXCEPT ![p] = s]
         /\ dropped' = IF phase[p] = "closing" THEN dropped \cup {s} ELSE dropped \ {s}
         /\ hasty' = hasty \ {s}
  BY DEF NewInstance
<1>2. PICK r : r = [NoSup EXCEPT !.owner = p, !.pc = "begin"]
  OBVIOUS
<1>5. NoSup \in Records
  BY Facts DEF NoSup, Records
<1>6. r.owner = p /\ r.pc = "begin" /\ r.held = 0 /\ r.kid = 0
  BY <1>2 DEF NoSup
<1>7. r \in Records
  BY <1>2, <1>5 DEF Records, Starting
<1>3. r \in Records /\ r.owner = p /\ r.pc = "begin" /\ r.held = 0 /\ r.kid = 0
  BY <1>6, <1>7
<1>4. s \in Sups /\ sup' = [sup EXCEPT ![s] = r]
  BY <1>1, <1>2 DEF Unused
<1> QED
  BY <1>1, <1>3, <1>4, Facts

LEMMA Died ==
  ASSUME IInv, NEW p \in Procs, Die(p)
  PROVE  /\ sup' \in [Sups -> Records]
         /\ \A s \in Sups : sup[s].owner # p => sup'[s] = sup[s]
         /\ \A s \in Sups : sup[s].owner = p => /\ sup'[s].owner = None /\ sup'[s].pc = "gone"
                                                /\ sup'[s].held = 0 /\ sup'[s].kid = 0
         /\ \A s \in Sups : sup[s].owner # p /\ s \in stopped \cup hasty => s \in stopped' \cup hasty'
         /\ UNCHANGED <<dir, disk, lockfile, torn>>
         /\ child' \in [Pids -> {"gone", "up", "term", "stray"}]
         /\ \A k \in Live' : /\ k \in Live
                             /\ \/ child'[k] = child[k] /\ \A s \in Sups : sup[s].owner = p => sup[s].kid # k
                                \/ child'[k] = "stray"
                                \/ k = disk /\ \E s \in Sups : sup[s].owner = p /\ sup[s].kid = k
<1>1. PICK mine : mine = {s \in Sups : sup[s].owner = p}
  OBVIOUS
<1>2. PICK kids : kids = {sup[s].kid : s \in mine} \cap Live
  OBVIOUS
<1>3. Forget(mine)
  BY <1>1 DEF Die
<1>4. child' = [k \in Pids |-> IF k \notin kids THEN child[k] ELSE IF k = disk THEN "term" ELSE "stray"]
  BY <1>1, <1>2 DEF Die
<1>5. child' \in [Pids -> {"gone", "up", "term", "stray"}]
  BY <1>4, Facts
<1>6. ASSUME NEW k \in Live'
      PROVE  /\ k \in Live
             /\ \/ child'[k] = child[k] /\ \A s \in Sups : sup[s].owner = p => sup[s].kid # k
                \/ child'[k] = "stray"
                \/ k = disk /\ \E s \in Sups : sup[s].owner = p /\ sup[s].kid = k
  <2>1. k \in Pids /\ child'[k] # "gone"
    BY DEF Live
  <2>2. k \in Live
    BY <1>2, <1>4, <2>1 DEF Live
  <2> QED
    BY <1>1, <1>2, <1>4, <2>1, <2>2
<1>7. \A s \in Sups : s \in mine <=> sup[s].owner = p
  BY <1>1
<1> QED
  BY <1>3, <1>5, <1>6, <1>7, Forgotten DEF Die

-----------------------------------------------------------------------------
(* Every part is kept by every step.                                       *)

LEMMA Numbers ==
  ASSUME IInv
  PROVE  /\ 0 \notin Sups /\ 0 \notin Pids /\ lockfile # 0
         /\ \A s \in Sups : sup[s].kid # 0 => sup[s].kid \in Pids
BY Facts DEF Sups, Pids, Records

LEMMA NextRoles == ASSUME IInv, [Next]_vars PROVE Roles'
<1> USE DEF Bare, Over, Starting, Watching, Stopping, Looping
<1>0. Roles /\ Parents /\ 0 \notin Pids /\ lockfile # 0
  BY Numbers DEF IInv
<1>1. ASSUME NEW s \in Sups, Own(s) PROVE Roles'
  <2>1. Moves(s) /\ Nurses(s) /\ \A r \in Sups : r # s => sup'[r] = sup[r]
    BY <1>1, OwnStep
  <2>2. ASSUME NEW r \in Sups, sup'[r].pc = "ending", sup'[r].kid # 0
        PROVE  child'[sup'[r].kid] = "gone"
    <3>1. CASE r = s
      <4>1. sup'[s].kid = sup[s].kid /\ child[sup[s].kid] = "gone" /\ child' = child
        BY <1>0, <2>1, <2>2, <3>1 DEF Moves, Nurses, Roles
      <4> QED
        BY <3>1, <4>1
    <3>2. CASE r # s
      <4>1. sup[r].pc = "ending" /\ sup[r].kid # 0 /\ sup'[r].kid = sup[r].kid
        BY <2>1, <2>2, <3>2
      <4>2. sup[r].kid \in Pids /\ sup[r].kid \notin Live
        BY <1>0, <4>1, Numbers DEF Roles, Live
      <4>3. sup[r].kid # sup'[s].kid
        BY <1>0, <2>1, <3>2, <4>1, <4>2 DEF Moves, Parents, FreePids
      <4>4. sup[r].kid \notin Live'
        BY <2>1, <4>2, <4>3 DEF Nurses
      <4> QED
        BY <4>1, <4>2, <4>4 DEF Live, Pids
    <3> QED
      BY <3>1, <3>2
  <2>3. ASSUME NEW r \in Sups
        PROVE  /\ sup'[r].pc \in Bare => sup'[r].held = 0 /\ sup'[r].kid = 0
               /\ sup'[r].pc \notin Bare => sup'[r].held # 0
               /\ sup'[r].pc \in {"reaped", "checked", "top", "backoff", "failed"} => sup'[r].kid = 0
               /\ sup'[r].pc \in {"spawned"} \cup Watching \cup Stopping => sup'[r].kid # 0
    <3>1. CASE r = s
      <4>1. \A k \in FreePids : k # 0
        BY <1>0 DEF FreePids
      <4> QED
        BY <1>0, <2>1, <3>1, <4>1 DEF Moves, Roles
    <3>2. CASE r # s
      BY <1>0, <2>1, <3>2 DEF Roles
    <3> QED
      BY <3>1, <3>2
  <2> QED
    BY <2>2, <2>3 DEF Roles
<1>2. ASSUME NEW s \in Sups, End(s) PROVE Roles'
  <2>1. Forget({s}) /\ child' = child
    BY <1>2 DEF End
  <2> QED
    BY <1>0, <2>1, Forgotten DEF Roles
<1>3. ASSUME NEW k \in Pids, ChildEnds(k) PROVE Roles'
  BY <1>0, <1>3, Facts, Numbers DEF ChildEnds, Roles, supVars
<1>4. ASSUME NEW u \in Users, Clean(u) PROVE Roles'
  BY <1>0, <1>4 DEF Clean, Roles, supVars
<1>5. ASSUME NEW p \in Procs, Begins(p) PROVE Roles'
  <2>1. child' = child
    BY <1>5 DEF Begins
  <2>2. PICK s \in Sups : /\ sup'[s].pc = "begin" /\ sup'[s].held = 0 /\ sup'[s].kid = 0
                          /\ \A r \in Sups : r # s => sup'[r] = sup[r]
    BY <1>5, Begun DEF Begins, Unused
  <2> QED
    BY <1>0, <2>1, <2>2 DEF Roles
<1>6. ASSUME NEW p \in Procs, Die(p) PROVE Roles'
  <2>1. ASSUME NEW r \in Sups, sup[r].owner # p, sup'[r].pc = "ending", sup'[r].kid # 0
        PROVE  child'[sup'[r].kid] = "gone"
    <3>1. sup'[r] = sup[r]
      BY <1>6, <2>1, Died
    <3>2. sup[r].kid \in Pids /\ sup[r].kid \notin Live
      BY <1>0, <2>1, <3>1, Numbers DEF Roles, Live
    <3>3. sup[r].kid \notin Live'
      BY <1>6, <3>2, Died
    <3> QED
      BY <3>1, <3>2, <3>3 DEF Live, Pids
  <2>2. ASSUME NEW r \in Sups, sup[r].owner # p PROVE sup'[r] = sup[r]
    BY <1>6, <2>2, Died
  <2>3. ASSUME NEW r \in Sups, sup[r].owner = p
        PROVE  sup'[r].pc = "gone" /\ sup'[r].held = 0 /\ sup'[r].kid = 0
    BY <1>6, <2>3, Died
  <2> QED
    BY <1>0, <2>1, <2>2, <2>3 DEF Roles
<1>7. CASE Kept
  BY <1>0, <1>7 DEF Kept, Roles
<1> QED
  BY <1>1, <1>2, <1>3, <1>4, <1>5, <1>6, <1>7, Cases

LEMMA NextParents == ASSUME IInv, [Next]_vars PROVE Parents'
<1>0. Roles /\ Parents
  BY DEF IInv
<1>1. ASSUME NEW s \in Sups, Own(s) PROVE Parents'
  <2>1. Moves(s) /\ \A r \in Sups : r # s => sup'[r] = sup[r]
    BY <1>1, OwnStep
  <2>2. sup'[s].kid \in {0, sup[s].kid} \cup FreePids
    BY <2>1 DEF Moves
  <2>3. \A r \in Sups, k \in FreePids : sup[r].kid # k
    BY DEF FreePids
  <2> QED
    BY <1>0, <2>1, <2>2, <2>3 DEF Parents
<1>2. ASSUME NEW s \in Sups, End(s) PROVE Parents'
  <2>1. Forget({s})
    BY <1>2 DEF End
  <2> QED
    BY <1>0, <2>1, Forgotten DEF Parents
<1>3. ASSUME NEW k \in Pids, ChildEnds(k) PROVE Parents'
  BY <1>0, <1>3 DEF ChildEnds, Parents, supVars
<1>4. ASSUME NEW u \in Users, Clean(u) PROVE Parents'
  BY <1>0, <1>4 DEF Clean, Parents, supVars
<1>5. ASSUME NEW p \in Procs, Begins(p) PROVE Parents'
  <2>1. PICK s \in Sups : sup'[s].kid = 0 /\ \A r \in Sups : r # s => sup'[r] = sup[r]
    BY <1>5, Begun DEF Begins, Unused
  <2> QED
    BY <1>0, <2>1 DEF Parents
<1>6. ASSUME NEW p \in Procs, Die(p) PROVE Parents'
  <2>1. \A r \in Sups : sup'[r].kid \in {0, sup[r].kid}
    BY <1>6, Died
  <2> QED
    BY <1>0, <2>1 DEF Parents
<1>7. CASE Kept
  BY <1>0, <1>7 DEF Kept, Parents
<1> QED
  BY <1>1, <1>2, <1>3, <1>4, <1>5, <1>6, <1>7, Cases

LEMMA NextOneLock == ASSUME IInv, [Next]_vars PROVE OneLock'
<1>0. OneLock
  BY DEF IInv
<1>1. ASSUME NEW s \in Sups, Own(s) PROVE OneLock'
  <2>1. /\ Moves(s) /\ \A r \in Sups : r # s => sup'[r] = sup[r]
        /\ lockfile' = lockfile /\ torn' = torn
    BY <1>1, OwnStep
  <2>2. \/ sup'[s].held \in {0, sup[s].held}
        \/ sup'[s].held = lockfile /\ ~Locked(lockfile)
    BY <2>1 DEF Moves, Roles, Bare
  <2>3. CASE sup'[s].held \in {0, sup[s].held}
    BY <1>0, <2>1, <2>3 DEF OneLock
  <2>4. CASE sup'[s].held = lockfile /\ ~Locked(lockfile)
    BY <1>0, <2>1, <2>4 DEF OneLock, Locked
  <2> QED
    BY <2>2, <2>3, <2>4
<1>2. ASSUME NEW s \in Sups, End(s) PROVE OneLock'
  <2>1. Forget({s}) /\ lockfile' = lockfile /\ torn' = torn
    BY <1>2 DEF End
  <2> QED
    BY <1>0, <2>1, Forgotten DEF OneLock
<1>3. ASSUME NEW k \in Pids, ChildEnds(k) PROVE OneLock'
  BY <1>0, <1>3 DEF ChildEnds, OneLock, supVars, history
<1>4. ASSUME NEW u \in Users, Clean(u) PROVE OneLock'
  <2>1. sup' = sup
    BY <1>4 DEF Clean, supVars
  <2>2. CASE torn' = torn /\ lockfile' = lockfile
    BY <1>0, <2>1, <2>2 DEF OneLock
  <2>3. CASE torn' = (torn \/ Locked(lockfile) \/ disk \in Live)
    BY <1>0, <2>1, <2>3 DEF OneLock, Locked
  <2> QED
    BY <1>4, <2>2, <2>3 DEF Clean
<1>5. ASSUME NEW p \in Procs, Begins(p) PROVE OneLock'
  <2>1. lockfile' = lockfile /\ torn' = torn
    BY <1>5 DEF Begins
  <2>2. PICK s \in Sups : sup'[s].held = 0 /\ \A r \in Sups : r # s => sup'[r] = sup[r]
    BY <1>5, Begun DEF Begins, Unused
  <2> QED
    BY <1>0, <2>1, <2>2 DEF OneLock
<1>6. ASSUME NEW p \in Procs, Die(p) PROVE OneLock'
  <2>1. \A r \in Sups : sup'[r].held \in {0, sup[r].held}
    BY <1>6, Died
  <2>2. lockfile' = lockfile /\ torn' = torn
    BY <1>6, Died
  <2> QED
    BY <1>0, <2>1, <2>2 DEF OneLock
<1>7. CASE Kept
  BY <1>0, <1>7 DEF Kept, OneLock
<1> QED
  BY <1>1, <1>2, <1>3, <1>4, <1>5, <1>6, <1>7, Cases

LEMMA NextOrphans == ASSUME IInv, [Next]_vars PROVE Orphans'
<1> USE DEF Bare, Over, Starting, Watching, Stopping, Looping
<1>0. Roles /\ OneLock /\ Orphans /\ 0 \notin Pids
  BY Numbers DEF IInv
<1>1. ASSUME NEW s \in Sups, Own(s) PROVE Orphans'
  <2>1. /\ Moves(s) /\ Nurses(s) /\ \A r \in Sups : r # s => sup'[r] = sup[r]
        /\ torn' = torn
    BY <1>1, OwnStep
  <2>2. ASSUME NEW k \in Live', ~torn, ~\E r \in Sups : sup'[r].kid = k, child'[k] # "stray"
        PROVE  k = disk' /\ \A r \in Sups : sup'[r].held = 0
    <3>1. k \in Live /\ k # 0
      BY <1>0, <2>1, <2>2 DEF Nurses, Live
    <3>2. child[k] # "stray"
      BY <2>1, <2>2, <3>1 DEF Nurses
    <3>3. sup[s].kid # k
      BY <1>0, <2>1, <2>2, <3>1 DEF Moves, Roles, Live
    <3>4. ~\E r \in Sups : sup[r].kid = k
      BY <2>1, <2>2, <3>3
    <3>5. k = disk /\ \A r \in Sups : sup[r].held = 0
      BY <1>0, <2>2, <3>1, <3>2, <3>4 DEF Orphans
    <3>6. sup[s].pc = "begin"
      BY <1>0, <2>1, <3>5 DEF Moves, Roles
    <3>7. disk' = k /\ sup'[s].pc # "reaped"
      BY <2>1, <2>2, <3>5, <3>6 DEF Nurses
    <3>8. sup'[s].held = 0
      BY <2>1, <3>5, <3>6, <3>7 DEF Moves
    <3> QED
      BY <2>1, <3>5, <3>7, <3>8
  <2> QED
    BY <2>1, <2>2 DEF Orphans
<1>2. ASSUME NEW s \in Sups, End(s) PROVE Orphans'
  <2>1. Forget({s}) /\ torn' = torn /\ child' = child /\ sup[s].pc = "ending"
    BY <1>2 DEF End
  <2>2. ASSUME NEW k \in Live, ~torn PROVE child[k] = "stray" \/ \E r \in Sups : sup'[r].kid = k
    <3>1. sup[s].held # 0 /\ sup[s].kid # k
      BY <1>0, <2>1 DEF Roles, Live
    <3>2. child[k] = "stray" \/ \E r \in Sups : r # s /\ sup[r].kid = k
      BY <1>0, <2>2, <3>1 DEF Orphans
    <3> QED
      BY <2>1, <3>2, Forgotten
  <2> QED
    BY <2>1, <2>2 DEF Orphans, Live
<1>3. ASSUME NEW k \in Pids, ChildEnds(k) PROVE Orphans'
  <2>1. /\ sup' = sup /\ torn' = torn /\ disk' = disk
        /\ child' = [child EXCEPT ![k] = "gone"]
    BY <1>3 DEF ChildEnds, supVars, history
  <2>2. \A j \in Live' : j \in Live /\ child'[j] = child[j]
    BY <2>1, Facts DEF Live
  <2> QED
    BY <1>0, <2>1, <2>2 DEF Orphans
<1>4. ASSUME NEW u \in Users, Clean(u) PROVE Orphans'
  <2>1. sup' = sup /\ child' = child
    BY <1>4 DEF Clean, supVars
  <2>2. CASE torn' = torn /\ disk' = disk
    BY <1>0, <2>1, <2>2 DEF Orphans, Live
  <2>3. CASE torn' = (torn \/ Locked(lockfile) \/ disk \in Live)
    <3>1. ~torn' => ~torn /\ disk \notin Live
      BY <2>3
    <3> QED
      BY <1>0, <2>1, <3>1 DEF Orphans, Live
  <2> QED
    BY <1>4, <2>2, <2>3 DEF Clean
<1>5. ASSUME NEW p \in Procs, Begins(p) PROVE Orphans'
  <2>1. child' = child /\ disk' = disk /\ torn' = torn
    BY <1>5 DEF Begins
  <2>2. PICK s \in Unused : /\ sup'[s].held = 0 /\ sup'[s].kid = 0
                            /\ \A r \in Sups : r # s => sup'[r] = sup[r]
    BY <1>5, Begun DEF Begins
  <2>3. s \in Sups /\ sup[s].kid = 0
    BY <1>0 DEF Unused, Roles
  <2>4. Live' = Live /\ 0 \notin Live
    BY <1>0, <2>1 DEF Live
  <2>5. \A k \in Live : (\E r \in Sups : sup[r].kid = k) => \E r \in Sups : sup'[r].kid = k
    BY <2>2, <2>3, <2>4
  <2>6. (\A r \in Sups : sup[r].held = 0) => \A r \in Sups : sup'[r].held = 0
    BY <2>2, <2>3
  <2> QED
    BY <1>0, <2>1, <2>4, <2>5, <2>6 DEF Orphans
<1>6. ASSUME NEW p \in Procs, Die(p) PROVE Orphans'
  <2>1. torn' = torn /\ disk' = disk
    BY <1>6, Died
  <2>2. ASSUME NEW k \in Live', ~torn, child'[k] # "stray", ~\E r \in Sups : sup'[r].kid = k
        PROVE  k = disk /\ \A r \in Sups : sup'[r].held = 0
    <3>1. k \in Live /\ k # 0
      BY <1>0, <1>6, Died DEF Live
    <3>2. CASE child'[k] = child[k] /\ \A s \in Sups : sup[s].owner = p => sup[s].kid # k
      <4>1. ~\E r \in Sups : sup[r].kid = k
        BY <1>6, <2>2, <3>2, Died
      <4>2. k = disk /\ \A r \in Sups : sup[r].held = 0
        BY <1>0, <2>2, <3>1, <3>2, <4>1 DEF Orphans
      <4> QED
        BY <1>6, <4>2, Died
    <3>3. CASE k = disk /\ \E s \in Sups : sup[s].owner = p /\ sup[s].kid = k
      <4>1. PICK s \in Sups : sup[s].owner = p /\ sup[s].kid = k
        BY <3>3
      <4>2. sup[s].held # 0
        BY <1>0, <3>1, <4>1 DEF Roles
      <4>3. \A r \in Sups : r # s => sup[r].held = 0
        BY <1>0, <2>2, <4>2 DEF OneLock
      <4>4. \A r \in Sups : sup'[r].held = 0
        BY <1>6, <4>1, <4>3, Died
      <4> QED
        BY <3>3, <4>4
    <3> QED
      BY <1>6, <2>2, <3>2, <3>3, Died
  <2> QED
    BY <2>1, <2>2 DEF Orphans
<1>7. CASE Kept
  BY <1>0, <1>7 DEF Kept, Orphans, Live
<1> QED
  BY <1>1, <1>2, <1>3, <1>4, <1>5, <1>6, <1>7, Cases

LEMMA NextOwners == ASSUME IInv, [Next]_vars PROVE Owners'
<1>0. /\ Owners /\ None \notin Procs /\ 0 \notin Sups
      /\ req \in [Users -> Requests] /\ slot \in [Procs -> Sups \cup {0}]
      /\ \A u \in Users : req[u].sup \in Sups \cup {0}
  <2>1. MaxSups \in Nat /\ slot \in [Procs -> 0..MaxSups] /\ req \in [Users -> Requests]
    BY Facts
  <2>2. \A n \in 0..MaxSups : n \in Sups \cup {0}
    BY <2>1 DEF Sups
  <2>3. \A u \in Users : req[u].sup \in 0..MaxSups
    BY <2>1 DEF Requests
  <2> QED
    BY <2>1, <2>2, <2>3, Facts, Numbers DEF IInv
<1>1. ASSUME NEW s \in Sups, Own(s) PROVE Owners'
  <2>1. \A r \in Sups : sup'[r].owner = sup[r].owner
    BY <1>1, OwnStep
  <2>2. \A r \in Sups : sup'[r].pc # "gone" => sup[r].pc # "gone"
    <3>1. sup[s].pc # "gone" /\ \A r \in Sups : r # s => sup'[r] = sup[r]
      BY <1>1, OwnStep DEF Moves, Watching, Stopping
    <3> QED
      BY <3>1
  <2>3. slot' = slot /\ req' = req
    BY <1>1, OwnStep
  <2> QED
    BY <1>0, <2>1, <2>2, <2>3 DEF Owners
<1>2. ASSUME NEW s \in Sups, End(s) PROVE Owners'
  <2>1. Forget({s}) /\ slot' = slot /\ req' = req
    BY <1>2 DEF End, srvVars
  <2>2. \A r \in Sups : sup'[r] = sup[r] \/ (sup'[r].pc = "gone" /\ sup'[r].owner = None)
    BY <2>1, Forgotten
  <2> QED
    BY <1>0, <2>1, <2>2 DEF Owners
<1>3. ASSUME NEW k \in Pids, ChildEnds(k) PROVE Owners'
  BY <1>0, <1>3 DEF ChildEnds, Owners, supVars, srvVars
<1>4. ASSUME NEW u \in Users, Clean(u) PROVE Owners'
  <2>1. sup' = sup /\ slot' = slot /\ \A v \in Users : req'[v] = req[v] \/ req'[v] = Idle
    BY <1>0, <1>4 DEF Clean, Finished, supVars
  <2> QED
    BY <1>0, <2>1 DEF Owners, Idle
<1>5. ASSUME NEW p \in Procs, Begins(p) PROVE Owners'
  <2>1. PICK s \in Unused : /\ sup'[s].owner = p /\ \A r \in Sups : r # s => sup'[r] = sup[r]
                            /\ slot' = [slot EXCEPT ![p] = s]
    BY <1>5, Begun DEF Begins
  <2>2. s \in Sups /\ (\A q \in Procs : slot[q] # s) /\ \A u \in Users : req[u].sup # s
    BY DEF Unused
  <2>3. \A r \in Sups : sup'[r].pc # "gone" => sup'[r].owner \in Procs
    BY <1>0, <2>1, <2>2 DEF Owners
  <2>4. \A q \in Procs : slot'[q] # 0 => sup'[slot'[q]].owner \in {q, None}
    BY <1>0, <2>1, <2>2 DEF Owners
  <2>5. ASSUME NEW u \in Users, req'[u].sup # 0
        PROVE  sup'[req'[u].sup].owner \in {req'[u].proc, None}
    <3>1. \/ req'[u].sup = req[u].sup /\ req'[u].proc = req[u].proc
          \/ req'[u].proc \in Procs /\ req'[u].sup = slot[req'[u].proc]
      BY <1>5, <2>5 DEF Begins, Passed
    <3>2. CASE req'[u].sup = req[u].sup /\ req'[u].proc = req[u].proc
      <4>1. sup'[req[u].sup] = sup[req[u].sup]
        BY <1>0, <2>1, <2>2, <2>5, <3>2
      <4> QED
        BY <1>0, <2>5, <3>2, <4>1 DEF Owners
    <3>3. CASE req'[u].proc \in Procs /\ req'[u].sup = slot[req'[u].proc]
      BY <1>0, <2>1, <2>2, <2>5, <3>3 DEF Owners
    <3> QED
      BY <3>1, <3>2, <3>3
  <2>6. ASSUME NEW u \in Users
        PROVE  /\ req'[u].pc # "idle" => req'[u].proc \in Procs
               /\ req'[u].pc \in {"stop", "wait"} => req'[u].sup # 0
    BY <1>0, <1>5 DEF Begins, Passed, Owners
  <2> QED
    BY <2>3, <2>4, <2>5, <2>6 DEF Owners
<1>6. ASSUME NEW p \in Procs, Die(p) PROVE Owners'
  <2>1. \A r \in Sups : sup'[r] = sup[r] \/ (sup'[r].pc = "gone" /\ sup'[r].owner = None)
    BY <1>6, Died
  <2>2. \A q \in Procs : slot'[q] \in {0, slot[q]}
    BY <1>0, <1>6 DEF Die
  <2>3. \A u \in Users : req'[u] = req[u] \/ req'[u] = Idle
    BY <1>0, <1>6 DEF Die
  <2>4. \A q \in Procs : slot'[q] # 0 => sup'[slot'[q]].owner \in {q, None}
    BY <1>0, <2>1, <2>2 DEF Owners
  <2> QED
    BY <1>0, <2>1, <2>3, <2>4 DEF Owners, Idle
<1>7. CASE Kept /\ Passed /\ slot' = slot
  <2>1. ASSUME NEW u \in Users, req'[u].sup # 0
        PROVE  sup'[req'[u].sup].owner \in {req'[u].proc, None}
    <3>1. \/ req'[u].sup = req[u].sup /\ req'[u].proc = req[u].proc
          \/ req'[u].proc \in Procs /\ req'[u].sup = slot[req'[u].proc]
      BY <1>7, <2>1 DEF Passed
    <3> QED
      BY <1>0, <1>7, <2>1, <3>1 DEF Owners, Kept
  <2>2. ASSUME NEW u \in Users
        PROVE  /\ req'[u].pc # "idle" => req'[u].proc \in Procs
               /\ req'[u].pc \in {"stop", "wait"} => req'[u].sup # 0
    BY <1>0, <1>7 DEF Passed, Owners
  <2>3. \A p \in Procs : slot'[p] # 0 => sup'[slot'[p]].owner \in {p, None}
    BY <1>0, <1>7 DEF Owners, Kept
  <2> QED
    BY <1>0, <1>7, <2>1, <2>2, <2>3 DEF Owners, Kept
<1>8. ASSUME Kept, NEW u \in Users, Call(u) PROVE Owners'
  <2>1. req[u].proc \in Procs /\ \A v \in Users : v # u => req'[v] = req[v]
    BY <1>0, <1>8, Asked DEF Call, Remove, StopCall
  <2>2. \A q \in Procs : slot'[q] \in {0, slot[q]}
    BY <1>0, <1>8, <2>1 DEF Call, Remove, StopCall
  <2>3. req'[u].proc = req[u].proc
    BY <1>0, <1>8 DEF Call, Remove, StopCall, Requests
  <2>4. \/ req'[u].sup = req[u].sup
        \/ req'[u].sup = slot[req[u].proc]
    BY <1>0, <1>8 DEF Call, Remove, StopCall, Requests
  <2>5. req'[u].pc \in {"stop", "wait"} => req'[u].sup # 0
    <3>1. CASE Remove(u)
      BY <1>0, <3>1 DEF Remove, Requests
    <3>2. CASE StopCall(u)
      BY <1>0, <3>2, Asked DEF StopCall, Requests
    <3> QED
      BY <1>8, <3>1, <3>2 DEF Call
  <2>6. req'[u].sup # 0 => sup[req'[u].sup].owner \in {req[u].proc, None} /\ req'[u].sup \in Sups
    BY <1>0, <2>1, <2>4 DEF Owners
  <2>7. \A q \in Procs : slot'[q] # 0 => sup'[slot'[q]].owner \in {q, None}
    BY <1>0, <1>8, <2>2 DEF Owners, Kept
  <2>8. \A v \in Users : req'[v].sup # 0 => sup'[req'[v].sup].owner \in {req'[v].proc, None}
    <3>1. req'[u].sup # 0 => sup'[req'[u].sup].owner \in {req'[u].proc, None}
      BY <1>8, <2>3, <2>6 DEF Kept
    <3>2. \A v \in Users : v # u /\ req'[v].sup # 0 => sup'[req'[v].sup].owner \in {req'[v].proc, None}
      BY <1>0, <1>8, <2>1 DEF Owners, Kept
    <3> QED
      BY <3>1, <3>2
  <2>9. \A v \in Users : /\ req'[v].pc # "idle" => req'[v].proc \in Procs
                         /\ req'[v].pc \in {"stop", "wait"} => req'[v].sup # 0
    BY <1>0, <2>1, <2>3, <2>5 DEF Owners
  <2> QED
    BY <1>0, <1>8, <2>7, <2>8, <2>9 DEF Owners, Kept
<1> QED
  BY <1>1, <1>2, <1>3, <1>4, <1>5, <1>6, <1>7, <1>8, Cases

LEMMA NextTended == ASSUME IInv, [Next]_vars PROVE Tended'
<1> USE DEF Over, Starting, Watching, Stopping, Looping
<1>0. /\ Tended /\ Owners /\ Roles /\ 0 \notin Sups /\ None \notin Procs
      /\ slot \in [Procs -> 0..MaxSups] /\ req \in [Users -> Requests] /\ sup \in [Sups -> Records]
  BY Facts, Numbers DEF IInv
<1>1. ASSUME NEW s \in Sups, Own(s) PROVE Tended'
  <2>1. /\ \A r \in Sups : sup'[r].owner = sup[r].owner
        /\ stopped' = stopped /\ hasty' = hasty /\ slot' = slot /\ req' = req
    BY <1>1, OwnStep
  <2>2. \A r \in Sups : sup'[r].pc \notin Over => sup[r].pc \notin Over
    <3>1. sup[s].pc \notin Over /\ \A r \in Sups : r # s => sup'[r] = sup[r]
      BY <1>1, OwnStep DEF Moves
    <3> QED
      BY <3>1
  <2> QED
    BY <1>0, <2>1, <2>2 DEF Tended
<1>2. ASSUME NEW s \in Sups, End(s) PROVE Tended'
  <2>1. Forget({s}) /\ slot' = slot /\ req' = req
    BY <1>2 DEF End, srvVars
  <2>2. /\ \A r \in Sups : r # s => sup'[r] = sup[r] /\ (r \in stopped \cup hasty => r \in stopped' \cup hasty')
        /\ sup'[s].pc = "gone"
    BY <2>1, Forgotten
  <2> QED
    BY <1>0, <2>1, <2>2 DEF Tended
<1>3. ASSUME NEW k \in Pids, ChildEnds(k) PROVE Tended'
  BY <1>0, <1>3 DEF ChildEnds, Tended, supVars, srvVars, history
<1>4. ASSUME NEW u \in Users, Clean(u) PROVE Tended'
  <2>1. /\ sup' = sup /\ slot' = slot /\ stopped' = stopped /\ hasty' = hasty
        /\ \A v \in Users : req[v].pc = "stop" => req'[v] = req[v]
    BY <1>0, <1>4 DEF Clean, Finished, supVars
  <2> QED
    BY <1>0, <2>1 DEF Tended
<1>5. ASSUME NEW p \in Procs, Begins(p) PROVE Tended'
  <2>1. PICK s \in Unused : /\ sup'[s].owner = p /\ \A r \in Sups : r # s => sup'[r] = sup[r]
                            /\ slot' = [slot EXCEPT ![p] = s] /\ hasty' = hasty \ {s}
    BY <1>5, Begun DEF Begins
  <2>2. slot[p] = 0 /\ stopped' = stopped /\ \A u \in Users : req[u].pc = "stop" => req'[u] = req[u]
    BY <1>5 DEF Begins, Passed
  <2>3. ASSUME NEW r \in Sups, r # s, sup[r].pc \notin Over
        PROVE  \/ r \in stopped' \cup hasty'
               \/ sup[r].owner \in Procs /\ slot'[sup[r].owner] = r
               \/ \E u \in Users : req'[u].sup = r /\ req'[u].pc = "stop"
    <3>1. CASE r \in stopped \cup hasty
      BY <2>1, <2>2, <2>3, <3>1
    <3>2. CASE sup[r].owner \in Procs /\ slot[sup[r].owner] = r
      BY <1>0, <2>1, <2>2, <2>3, <3>2
    <3>3. CASE \E u \in Users : req[u].sup = r /\ req[u].pc = "stop"
      BY <2>2, <3>3
    <3> QED
      BY <1>0, <2>3, <3>1, <3>2, <3>3 DEF Tended
  <2>4. sup'[s].owner \in Procs /\ slot'[sup'[s].owner] = s
    BY <1>0, <2>1
  <2>5. \A r \in Sups : r # s => sup'[r] = sup[r]
    BY <2>1
  <2> QED
    BY <2>3, <2>4, <2>5 DEF Tended
<1>6. ASSUME NEW p \in Procs, Die(p) PROVE Tended'
  <2>1. /\ \A q \in Procs : q # p => slot'[q] = slot[q]
        /\ \A u \in Users : req[u].proc # p => req'[u] = req[u]
    BY <1>0, <1>6 DEF Die
  <2>2. ASSUME NEW r \in Sups, sup[r].owner # p, sup[r].pc \notin Over
        PROVE  \/ r \in stopped' \cup hasty'
               \/ sup[r].owner \in Procs /\ slot'[sup[r].owner] = r
               \/ \E u \in Users : req'[u].sup = r /\ req'[u].pc = "stop"
    <3>1. CASE r \in stopped \cup hasty
      BY <1>6, <2>2, <3>1, Died
    <3>2. CASE sup[r].owner \in Procs /\ slot[sup[r].owner] = r
      BY <2>1, <2>2, <3>2
    <3>3. CASE \E u \in Users : req[u].sup = r /\ req[u].pc = "stop"
      <4>1. PICK u \in Users : req[u].sup = r /\ req[u].pc = "stop"
        BY <3>3
      <4>2. sup[r].owner \in Procs /\ sup[r].owner \in {req[u].proc, None}
        BY <1>0, <2>2, <4>1 DEF Owners
      <4> QED
        BY <1>0, <2>1, <2>2, <4>1, <4>2
    <3> QED
      BY <1>0, <2>2, <3>1, <3>2, <3>3 DEF Tended
  <2>3. \A r \in Sups : sup[r].owner # p => sup'[r] = sup[r]
    BY <1>6, Died
  <2>4. \A r \in Sups : sup[r].owner = p => sup'[r].pc = "gone"
    BY <1>6, Died
  <2> QED
    BY <2>2, <2>3, <2>4 DEF Tended
<1>7. CASE Kept /\ Passed /\ UNCHANGED <<slot, stopped, hasty>>
  <2>1. \A u \in Users : req[u].pc = "stop" => req'[u] = req[u]
    BY <1>7 DEF Passed
  <2> QED
    BY <1>0, <1>7, <2>1 DEF Tended, Kept
<1>8. ASSUME Kept, NEW u \in Users, Remove(u) PROVE Tended'
  <2>0. /\ stopped' = stopped /\ hasty' = hasty /\ req[u].pc = "remove"
        /\ slot' = [slot EXCEPT ![req[u].proc] = 0]
    BY <1>8 DEF Remove, history
  <2>1. /\ stopped' = stopped /\ hasty' = hasty /\ req[u].pc = "remove"
        /\ slot' = [slot EXCEPT ![req[u].proc] = 0]
        /\ \A v \in Users : v # u => req'[v] = req[v]
    BY <1>0, <1>8, <2>0 DEF Remove
  <2>2. req[u].proc \in Procs
    BY <2>1, Asked
  <2>3. slot[req[u].proc] # 0 /\ sup[slot[req[u].proc]].pc \notin Over
        => req'[u].sup = slot[req[u].proc] /\ req'[u].pc = "stop"
    BY <1>0, <1>8 DEF Remove, Foreign, Requests
  <2>4. ASSUME NEW r \in Sups, sup[r].pc \notin Over
        PROVE  \/ r \in stopped' \cup hasty'
               \/ sup[r].owner \in Procs /\ slot'[sup[r].owner] = r
               \/ \E v \in Users : req'[v].sup = r /\ req'[v].pc = "stop"
    <3>1. CASE slot[req[u].proc] = r
      BY <1>0, <2>3, <2>4, <3>1
    <3>2. CASE slot[req[u].proc] # r /\ sup[r].owner \in Procs /\ slot[sup[r].owner] = r
      BY <1>0, <2>1, <3>2
    <3>3. CASE \E v \in Users : req[v].sup = r /\ req[v].pc = "stop"
      BY <2>1, <3>3
    <3> QED
      BY <1>0, <2>1, <2>4, <3>1, <3>2, <3>3 DEF Tended
  <2> QED
    BY <1>8, <2>4 DEF Tended, Kept
<1>9. ASSUME Kept, NEW u \in Users, StopCall(u) PROVE Tended'
  <2>1. /\ slot' = slot /\ req[u].pc = "stop"
        /\ \A v \in Users : v # u => req'[v] = req[v]
        /\ stopped \subseteq stopped' /\ hasty \subseteq hasty'
    BY <1>0, <1>9 DEF StopCall
  <2>2. sup[req[u].sup].pc \in Looping => req[u].sup \in stopped'
    BY <1>9 DEF StopCall, Stoppable
  <2>3. sup[req[u].sup].pc \in Starting => req[u].sup \in hasty'
    BY <1>9 DEF StopCall
  <2>4. ASSUME NEW r \in Sups, sup[r].pc \notin Over
        PROVE  \/ r \in stopped' \cup hasty'
               \/ sup[r].owner \in Procs /\ slot'[sup[r].owner] = r
               \/ \E v \in Users : req'[v].sup = r /\ req'[v].pc = "stop"
    <3>1. CASE req[u].sup = r
      <4>1. sup[r].pc \in Starting \cup Looping
        BY <1>0, <2>4 DEF Records
      <4> QED
        BY <2>2, <2>3, <3>1, <4>1
    <3>2. CASE req[u].sup # r /\ \E v \in Users : req[v].sup = r /\ req[v].pc = "stop"
      BY <2>1, <3>2
    <3> QED
      BY <1>0, <2>1, <2>4, <3>1, <3>2 DEF Tended
  <2> QED
    BY <1>9, <2>4 DEF Tended, Kept
<1> QED
  BY <1>1, <1>2, <1>3, <1>4, <1>5, <1>6, <1>7, <1>8, <1>9, Cases DEF Call

(* What only TypeOK is about, in the supervisors' own steps.               *)
LEMMA OwnTypes ==
  ASSUME IInv, NEW s \in Sups, Own(s)
  PROVE  token' \subseteq Sups /\ Files' /\ mishaps' \in 0..MaxMishaps
<1> USE DEF supVars, fileVars, srvVars, history, Files, Update, Mishap, Told
<1>0. /\ sup \in [Sups -> Records] /\ child \in [Pids -> {"gone", "up", "term", "stray"}]
      /\ disk \in 0..MaxPid /\ 0 \in 0..MaxPid /\ lockfile \in 1..MaxSups + 1 /\ dir \in BOOLEAN
      /\ token \subseteq Sups /\ mishaps \in 0..MaxMishaps /\ MaxMishaps \in Nat /\ MaxPid \in Nat
      /\ sup[s].kid \in 0..MaxPid
  BY Facts DEF Marks, Records
<1>a. mishaps < MaxMishaps => mishaps + 1 \in 0..MaxMishaps
  BY <1>0
<1>b. token \ {s} \subseteq Sups
  BY <1>0
<1>c. \A k : [child EXCEPT ![k] = "gone"] \in [Pids -> {"gone", "up", "term", "stray"}]
             /\ [child EXCEPT ![k] = "up"] \in [Pids -> {"gone", "up", "term", "stray"}]
             /\ Told(k) \in [Pids -> {"gone", "up", "term", "stray"}]
  BY <1>0
<1>1. CASE Acquire(s)
  BY <1>0, <1>1, <1>a, <1>c DEF Acquire, Acquires
<1>2. CASE Check(s)
  BY <1>0, <1>2, <1>a DEF Check
<1>3. CASE Launch(s)
  BY <1>0, <1>3, <1>a DEF Launch
<1>4. CASE Spawn(s)
  BY <1>0, <1>4, <1>c DEF Spawn
<1>5. CASE NoSpawn(s)
  BY <1>0, <1>5, <1>a DEF NoSpawn
<1>6. CASE Record(s)
  BY <1>0, <1>6, <1>a DEF Record
<1>7. CASE Ready(s)
  BY <1>0, <1>7, <1>a DEF Ready
<1>8. CASE Unhealthy(s)
  BY <1>0, <1>8, <1>a, <1>c DEF Unhealthy
<1>9. CASE Bounce(s)
  BY <1>0, <1>9, <1>b, <1>c DEF Bounce
<1>10. CASE ForceEnd(s)
  BY <1>0, <1>10, <1>c DEF ForceEnd
<1>11. CASE Ended(s)
  BY <1>0, <1>11, <1>a DEF Ended
<1>12. CASE Retry(s)
  BY <1>0, <1>12 DEF Retry
<1>13. CASE Revive(s)
  BY <1>0, <1>13, <1>a, <1>b DEF Revive
<1>14. CASE Leave(s)
  BY <1>0, <1>14 DEF Leave
<1> QED
  BY <1>1, <1>2, <1>3, <1>4, <1>5, <1>6, <1>7, <1>8, <1>9, <1>10, <1>11, <1>12, <1>13, <1>14 DEF Own, StartStep, LoopStep

LEMMA NextTypeOK == ASSUME IInv, [Next]_vars PROVE TypeOK'
<1> USE DEF supVars, fileVars, srvVars, history, Mishap
<1>0. /\ sup \in [Sups -> Records] /\ req \in [Users -> Requests] /\ Marks /\ Files /\ Server
      /\ mishaps \in 0..MaxMishaps /\ torn \in BOOLEAN
  BY Parts DEF IInv
<1>a. /\ MaxMishaps \in Nat /\ MaxPid \in Nat /\ MaxSups \in Nat /\ 0 \in 0..MaxPid /\ 0 \in 0..MaxSups
      /\ mishaps < MaxMishaps => mishaps + 1 \in 0..MaxMishaps
      /\ \A s \in Sups : s \in 0..MaxSups
  BY Facts DEF Sups
<1>b. Idle \in Requests
  BY <1>a DEF Idle, Requests
<1>k. \A k : [child EXCEPT ![k] = "gone"] \in [Pids -> {"gone", "up", "term", "stray"}]
  BY <1>0 DEF Files
<1>1. ASSUME NEW s \in Sups, Own(s) PROVE TypeOK'
  <2>1. /\ sup' \in [Sups -> Records]
        /\ UNCHANGED <<dropped, stopped, slot, phase, req, hasty, torn>>
    BY <1>1, OwnStep
  <2>2. Marks' /\ Server'
    BY <1>0, <1>1, <2>1, OwnTypes DEF Marks, Server
  <2>3. req' \in [Users -> Requests] /\ torn' \in BOOLEAN
    BY <1>0, <2>1
  <2> QED
    BY <1>1, <2>1, <2>2, <2>3, OwnTypes, PartsNext
<1>2. ASSUME NEW s \in Sups, End(s) PROVE TypeOK'
  <2>1. Forget({s}) /\ UNCHANGED <<child, dir, lockfile, slot, phase, req, torn>> /\ Update(0)
    BY <1>2 DEF End
  <2>2. Marks'
    BY <1>0, <2>1 DEF Forget, Marks
  <2>3. Files' /\ mishaps' \in 0..MaxMishaps
    BY <1>0, <1>a, <2>1 DEF Update, Files
  <2>4. Server' /\ req' \in [Users -> Requests] /\ torn' \in BOOLEAN
    BY <1>0, <2>1 DEF Server
  <2> QED
    BY <2>1, <2>2, <2>3, <2>4, Forgotten, PartsNext
<1>3. ASSUME NEW k \in Pids, ChildEnds(k) PROVE TypeOK'
  <2>1. UNCHANGED <<sup, dropped, stopped, token, dir, disk, lockfile, slot, phase, req, hasty, torn>>
    BY <1>3 DEF ChildEnds
  <2>2. Files' /\ mishaps' \in 0..MaxMishaps
    BY <1>0, <1>a, <1>k, <1>3 DEF ChildEnds, Files
  <2>3. Server' /\ Marks' /\ req' \in [Users -> Requests] /\ torn' \in BOOLEAN /\ sup' \in [Sups -> Records]
    BY <1>0, <2>1 DEF Server, Marks
  <2> QED
    BY <2>2, <2>3, PartsNext
<1>4. ASSUME NEW u \in Users, Answer(u), ~Exit(u), ~Again(u) PROVE TypeOK'
  <2>1. Remove(u) \/ StopCall(u) \/ Waited(u) \/ Clean(u)
    BY <1>4 DEF Answer
  <2>2. UNCHANGED <<sup, token, child, phase, mishaps>>
    BY <2>1 DEF Remove, StopCall, Waited, Clean
  <2>3. req[u] \in Requests /\ req[u].pc # "idle" /\ req[u].proc \in Procs
    BY <1>0, <2>1, Asked DEF Remove, StopCall, Waited, Clean
  <2>4. slot[req[u].proc] \in 0..MaxSups
    BY <1>0, <2>3 DEF Server
  <2>5. req' \in [Users -> Requests]
    <3>1. ASSUME NEW pc \in {"stop", "wait", "clean"}, NEW n \in 0..MaxSups
          PROVE  [req[u] EXCEPT !.pc = pc, !.sup = n] \in Requests
      BY <2>3 DEF Requests
    <3>2. \A pc \in {"stop", "wait", "clean"} : [req[u] EXCEPT !.pc = pc] \in Requests
      BY <2>3 DEF Requests
    <3>3. CASE Remove(u)
      <4>1. PICK pc \in {"stop", "clean"} :
              req' = [req EXCEPT ![u] = [req[u] EXCEPT !.sup = slot[req[u].proc], !.pc = pc]]
        BY <3>3 DEF Remove
      <4>2. PICK r : r = [req[u] EXCEPT !.pc = pc, !.sup = slot[req[u].proc]]
        OBVIOUS
      <4>3. r \in Requests
        BY <2>4, <3>1, <4>2
      <4>4. req' = [req EXCEPT ![u] = r]
        BY <2>3, <4>1, <4>2 DEF Requests
      <4> QED
        BY <1>0, <4>3, <4>4
    <3>4. CASE StopCall(u) \/ Waited(u)
      <4>1. PICK pc \in {"wait", "clean"} : req' = [req EXCEPT ![u] = [req[u] EXCEPT !.pc = pc]]
        BY <3>4 DEF StopCall, Waited
      <4> QED
        BY <1>0, <3>2, <4>1
    <3>5. CASE Clean(u)
      BY <1>0, <1>b, <3>5 DEF Clean, Finished
    <3> QED
      BY <2>1, <3>3, <3>4, <3>5
  <2>6. Marks'
    <3>1. token' = token /\ dropped' \subseteq dropped \cup Started
      BY <2>1, <2>2 DEF Remove, StopCall, Waited, Clean
    <3>2. stopped' \subseteq stopped \cup ({req[u].sup} \cap Sups)
          /\ hasty' \subseteq hasty \cup ({req[u].sup} \cap Sups)
      <4>1. CASE StopCall(u)
        <5>1. req[u].sup # 0 /\ req[u].sup \in 0..MaxSups
          BY <2>3, <4>1, Asked DEF StopCall, Requests
        <5>2. req[u].sup \in Sups
          BY <1>a, <5>1 DEF Sups
        <5> QED
          BY <4>1, <5>2 DEF StopCall
      <4>2. CASE ~StopCall(u)
        BY <2>1, <4>2 DEF Remove, Waited, Clean
      <4> QED
        BY <4>1, <4>2
    <3> QED
      BY <1>0, <3>1, <3>2 DEF Marks, Started
  <2>7. Server'
    BY <1>0, <1>a, <2>1 DEF Remove, StopCall, Waited, Clean, Server
  <2>8. Files' /\ torn' \in BOOLEAN
    <3>1. CASE Clean(u)
      <4>1. CASE UNCHANGED <<dir, disk, lockfile, torn>>
        BY <1>0, <2>2, <4>1 DEF Files
      <4>2. CASE ~UNCHANGED <<dir, disk, lockfile, torn>>
        BY <1>0, <1>a, <2>2, <3>1, <4>2 DEF Clean, Files
      <4> QED
        BY <4>1, <4>2
    <3>2. CASE ~Clean(u)
      BY <1>0, <2>1, <3>2 DEF Remove, StopCall, Waited, Files
    <3> QED
      BY <3>1, <3>2
  <2> QED
    BY <1>0, <2>2, <2>5, <2>6, <2>7, <2>8, PartsNext
<1>5. ASSUME NEW p \in Procs, NewInstance(p), req' \in [Users -> Requests],
             UNCHANGED <<stopped, token, child, dir, disk, lockfile, phase, mishaps, torn>>
      PROVE  TypeOK'
  <2>1. PICK s \in Unused : /\ sup' \in [Sups -> Records] /\ slot' = [slot EXCEPT ![p] = s]
                            /\ dropped' \subseteq dropped \cup {s} /\ hasty' = hasty \ {s}
    BY <1>5, Begun
  <2>2. s \in Sups
    BY DEF Unused
  <2>3. Marks' /\ Server' /\ Files'
    BY <1>0, <1>5, <1>a, <2>1, <2>2 DEF Marks, Server, Files
  <2> QED
    BY <1>0, <1>5, <2>1, <2>3, PartsNext
<1>6. ASSUME NEW u \in Users, Again(u) PROVE TypeOK'
  <2>1. req[u].proc \in Procs /\ req' \in [Users -> Requests]
    BY <1>0, <1>b, <1>6, Asked DEF Again, Finished
  <2>2. UNCHANGED <<stopped, token, child, dir, disk, lockfile, phase, mishaps, torn>>
    BY <1>6 DEF Again
  <2>3. NewInstance(req[u].proc) \/ UNCHANGED <<sup, dropped, slot, hasty>>
    BY <1>6 DEF Again
  <2>4. CASE UNCHANGED <<sup, dropped, slot, hasty>>
    <3>1. Marks' /\ Server' /\ Files'
      BY <1>0, <2>2, <2>4 DEF Marks, Server, Files
    <3> QED
      BY <1>0, <2>1, <2>2, <2>4, <3>1, PartsNext
  <2> QED
    BY <1>5, <2>1, <2>2, <2>3, <2>4
<1>7. ASSUME NEW p \in Procs, Enable(p) PROVE TypeOK'
  BY <1>0, <1>5, <1>7 DEF Enable
<1>8. ASSUME NEW p \in Procs, Die(p), mishaps' \in 0..MaxMishaps PROVE TypeOK'
  <2>1. Marks'
    BY <1>0, <1>8 DEF Die, Forget, Marks
  <2>2. Server'
    BY <1>0, <1>8, <1>a DEF Die, Server
  <2>3. req' \in [Users -> Requests]
    BY <1>0, <1>8, <1>b DEF Die
  <2>4. Files' /\ torn' \in BOOLEAN
    BY <1>0, <1>8, Died DEF Files
  <2> QED
    BY <1>8, <2>1, <2>2, <2>3, <2>4, Died, PartsNext
<1>9. ASSUME NEW u \in Users, Exit(u) PROVE TypeOK'
  BY <1>0, <1>8, <1>9, Asked DEF Exit
<1>10. ASSUME NEW p \in Procs, Kill(p) PROVE TypeOK'
  BY <1>8, <1>10, <1>a DEF Kill
<1>11. ASSUME NEW u \in Users, NEW p \in Procs, Shutdown(u, p) PROVE TypeOK'
  <2>1. UNCHANGED <<sup, stopped, token, child, dir, disk, lockfile, slot, mishaps, hasty, torn>>
    BY <1>11 DEF Shutdown
  <2>2. Server' /\ Files'
    BY <1>0, <1>11, <2>1 DEF Shutdown, Server, Files
  <2>3. Marks'
    BY <1>0, <1>11, <2>1 DEF Shutdown, Marks, Started
  <2>4. req' \in [Users -> Requests]
    <3>1. slot[p] \in 0..MaxSups
      BY <1>0 DEF Server
    <3>2. PICK pc \in {"clean", "stop"} :
            req' = [req EXCEPT ![u] = [pc |-> pc, proc |-> p, sup |-> slot[p],
                                       kind |-> "shutdown", foreign |-> FALSE]]
      BY <1>11 DEF Shutdown
    <3>3. [pc |-> pc, proc |-> p, sup |-> slot[p], kind |-> "shutdown", foreign |-> FALSE] \in Requests
      BY <3>1 DEF Requests
    <3> QED
      BY <1>0, <3>2, <3>3
  <2> QED
    BY <1>0, <2>1, <2>2, <2>3, <2>4, PartsNext
<1>12. ASSUME NEW u \in Users, NEW p \in Procs, NEW kind \in Kinds, Ask(u, p, kind) PROVE TypeOK'
  <2>1. UNCHANGED <<sup, dropped, stopped, token, child, dir, disk, lockfile, slot, phase, mishaps, hasty, torn>>
    BY <1>12 DEF Ask
  <2>2. Server' /\ Files' /\ Marks'
    BY <1>0, <2>1 DEF Server, Files, Marks
  <2>3. req' \in [Users -> Requests]
    <3>1. kind \in {"off", "delete", "reset"} /\ Foreign(slot[p]) \in BOOLEAN
      BY SupervisorAssumption DEF Foreign
    <3>2. PICK f \in BOOLEAN :
            req' = [req EXCEPT ![u] = [pc |-> "remove", proc |-> p, sup |-> 0, kind |-> kind, foreign |-> f]]
      BY <1>12, <3>1 DEF Ask
    <3>3. [pc |-> "remove", proc |-> p, sup |-> 0, kind |-> kind, foreign |-> f] \in Requests
      BY <1>a, <3>1 DEF Requests
    <3> QED
      BY <1>0, <3>2, <3>3
  <2> QED
    BY <1>0, <2>1, <2>2, <2>3, PartsNext
<1>13. ASSUME NEW p \in Procs, Restart(p) PROVE TypeOK'
  <2>1. UNCHANGED <<dropped, stopped, child, dir, disk, lockfile, slot, phase, req, hasty, torn>>
    BY <1>13 DEF Restart
  <2>2. Server' /\ Files' /\ mishaps' \in 0..MaxMishaps
    BY <1>0, <1>13, <1>a, <2>1 DEF Restart, Server, Files
  <2>3. slot[p] \in Sups
    BY <1>0, <1>13, <1>a DEF Restart, Server, Sups
  <2>4. Marks'
    BY <1>0, <1>13, <2>1, <2>3 DEF Restart, Marks
  <2>5. sup' \in [Sups -> Records]
    <3>1. sup' = [sup EXCEPT ![slot[p]] = [sup[slot[p]] EXCEPT !.crashes = 0]]
      BY <1>13 DEF Restart
    <3>2. \A n \in 0..CrashLimit : [sup[slot[p]] EXCEPT !.crashes = n] \in Records
      BY <1>0, <2>3 DEF Records
    <3>3. 0 \in 0..CrashLimit
      BY Facts
    <3> QED
      BY <1>0, <2>3, <3>1, <3>2, <3>3
  <2> QED
    BY <1>0, <2>1, <2>2, <2>4, <2>5, PartsNext
<1>14. ASSUME NEW p \in Procs, Serve(p) PROVE TypeOK'
  <2>1. UNCHANGED <<sup, dropped, stopped, token, child, dir, disk, lockfile, slot, req, mishaps, hasty, torn>>
    BY <1>14 DEF Serve
  <2>2. Server' /\ Files' /\ Marks'
    BY <1>0, <1>14, <2>1 DEF Serve, Server, Files, Marks
  <2> QED
    BY <1>0, <2>1, <2>2, PartsNext
<1>15. CASE UNCHANGED vars
  <2>1. Server' /\ Files' /\ Marks'
    BY <1>0, <1>15 DEF vars, Server, Files, Marks
  <2> QED
    BY <1>0, <1>15, <2>1, PartsNext DEF vars
<1>16. ASSUME NEW u \in Users, Answer(u) PROVE TypeOK'
  BY <1>4, <1>6, <1>9, <1>16
<1>17. ASSUME NEW s \in Sups, StartStep(s) \/ LoopStep(s) PROVE TypeOK'
  BY <1>1, <1>2, <1>17 DEF Own
<1> QED
  BY <1>3, <1>7, <1>10, <1>11, <1>12, <1>13, <1>14, <1>15, <1>16, <1>17 DEF Next

LEMMA NextIInv == ASSUME IInv, [Next]_vars PROVE IInv'
BY NextTypeOK, NextRoles, NextParents, NextOneLock, NextOrphans, NextOwners, NextTended DEF IInv

LEMMA SpecIInv == Spec => []IInv
BY InitIInv, NextIInv, PTL DEF Spec

-----------------------------------------------------------------------------
(* The theorems.                                                           *)

(* Every variable has its type.                                            *)
THEOREM SupervisorTypeOK == Spec => []TypeOK
<1>1. IInv => TypeOK
  BY DEF IInv
<1> QED
  BY <1>1, SpecIInv, PTL

(* supervisor.lock and reapOrphan do their work: while nobody removed the  *)
(* instance directory under a lock or a child, a second Pando runs only    *)
(* beside one that lost its server before it was on record, whatever was   *)
(* killed, failed or was asked for meanwhile.                              *)
THEOREM SupervisorOneChild == Spec => []OneChild
<1>1. ASSUME IInv PROVE OneChild
  <2>0. Roles /\ OneLock /\ Orphans /\ 0 \notin Pids
    BY <1>1, Numbers DEF IInv
  <2>1. ASSUME ~torn, NEW j \in Live, NEW k \in Live, j # k, "stray" \notin {child[j], child[k]}
        PROVE  FALSE
    <3>1. ASSUME NEW i \in Live, NEW s \in Sups, sup[s].kid = i PROVE sup[s].held # 0
      BY <2>0, <3>1 DEF Roles, Live
    <3>2. \/ \E s \in Sups : sup[s].kid = j
          \/ j = disk /\ \A s \in Sups : sup[s].held = 0
      BY <2>0, <2>1 DEF Orphans
    <3>3. \/ \E s \in Sups : sup[s].kid = k
          \/ k = disk /\ \A s \in Sups : sup[s].held = 0
      BY <2>0, <2>1 DEF Orphans
    <3>4. PICK s \in Sups, r \in Sups : sup[s].kid = j /\ sup[r].kid = k
      BY <2>1, <3>1, <3>2, <3>3
    <3>5. s = r
      BY <2>0, <2>1, <3>1, <3>4 DEF OneLock
    <3> QED
      BY <2>1, <3>4, <3>5
  <2> QED
    BY <2>1 DEF OneChild
<1> QED
  BY <1>1, SpecIInv, PTL

(* No Pando runs that nobody can stop: while one is up, its supervisor is  *)
(* in the slot of its server, or a request that took it out is about to    *)
(* call Stop, or was the Stop that came before Start had a cancel.         *)
THEOREM SupervisorInHand == Spec => []InHand
<1>1. ASSUME IInv PROVE InHand
  <2>0. Roles /\ Tended
    BY <1>1 DEF IInv
  <2>1. ASSUME NEW s \in Sups, sup[s].kid # 0, s \notin stopped \cup hasty
        PROVE  slot[sup[s].owner] = s \/ \E u \in Users : req[u].sup = s /\ req[u].pc = "stop"
    BY <2>0, <2>1 DEF Roles, Bare, Tended
  <2> QED
    BY <2>1 DEF InHand
<1> QED
  BY <1>1, SpecIInv, PTL
=============================================================================
