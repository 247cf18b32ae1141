------------------------------ MODULE Renumber ------------------------------
(***************************************************************************)
(* gintrack doctor --renumber (internal/core/doctor.go) beside the writers *)
(* of Backlog: it finds the numbers that several files claim, plans a new  *)
(* number for all but one of them, asks, and applies the plan through a    *)
(* fileTx: staged writes, then removals, undone file by file when one of   *)
(* them fails, as far as the undoing does not fail itself.                 *)
(*                                                                         *)
(* As in Backlog one step is one access to the file system; only the scan  *)
(* of the folder is one step, and Prepare, which reads what the plan names *)
(* and writes nothing.  References to a renumbered id in other items are   *)
(* left out: they are more writes of the same kind.                        *)
(***************************************************************************)
EXTENDS Backlog

CONSTANT Doctor     \* the process that runs gintrack doctor, and nothing else

ASSUME RenumberAssumption == Doctor \in Processes

VARIABLES
    outcome,    \* history: how the last renumbering went
    before,     \* history: files and project.yaml when it was planned; nothing
                \* when somebody was in the middle of a write then, or has
                \* changed them since
    undone,     \* history: a renumbering was rolled back
    trampled    \* history: a redirect was lost to a stale write of project.yaml
                \* or to a second renumbering of its number, a renumbering that
                \* was disturbed ended half way, or a rollback failed or was cut

vars == <<storeVars, outcome, before, undone, trampled>>
history == <<acked, clobbered, outcome, before, undone, trampled>>

RInit ==
    /\ Init
    /\ outcome = "none" /\ before = <<>> /\ undone = FALSE /\ trampled = FALSE

\* sortByTieBreak: the earliest creation date first, a file without one last,
\* then the smaller path.  Items are numbered as they are created.
Senior(f, g) ==
    \/ f.dated /\ ~g.dated
    \/ f.dated /\ g.dated /\ f.item < g.item
    \/ f.dated = g.dated /\ (f.dated => f.item = g.item) /\ f.title < g.title

Keeper(n) == CHOOSE f \in Claims(n) : \A g \in Claims(n) \ {f} : Senior(f, g)

\* The files that lose their number ...
Spare == UNION {Claims(n) \ {Keeper(n)} : n \in Clashes}

\* ... id by id and in the order of the tie-break.
Earlier(f, g) == f.n < g.n \/ (f.n = g.n /\ Senior(f, g))

Losers == CHOOSE s \in [1..Cardinality(Spare) -> Spare] :
              \A i, j \in DOMAIN s : i < j => Earlier(s[i], s[j])

-----------------------------------------------------------------------------
(***************************************************************************)
(* Planning: project.yaml is read when the repository is opened, then the  *)
(* folder is scanned for duplicates, and once more for every new number.   *)
(***************************************************************************)
\* What the history makes of the end of a renumbering.
Ends(how) == outcome' = IF before = <<>> THEN "none" ELSE how

Open(d) ==
    /\ pc[d] = "idle"
    /\ op' = [op EXCEPT ![d] = [kind |-> "renumber", read |-> yaml]]
    /\ Goto(d, "scan")
    /\ outcome' = "planned"
    /\ before' = IF \A p \in Processes : pc[p] = "idle"
                 THEN <<[files |-> files, yaml |-> yaml]>> ELSE <<>>
    /\ UNCHANGED <<files, tmps, yaml, ytmp, cfg, reserved, clock, pulls, failures,
                   acked, clobbered, undone, trampled>>

FindDuplicates(d) ==
    /\ pc[d] = "scan"
    /\ IF Clashes = {}
       THEN Return(d) /\ outcome' = "none"
       ELSE /\ op' = [op EXCEPT ![d] =
                        [kind |-> "renumber", read |-> @.read, plan |-> <<>>,
                         losers |-> [i \in DOMAIN Losers |-> Path(Losers[i])]]]
            /\ Goto(d, "plan") /\ UNCHANGED outcome
    /\ UNCHANGED <<files, tmps, yaml, ytmp, cfg, reserved, clock, pulls, failures,
                   acked, clobbered, before, undone, trampled>>

\* Mutant: the planner's allocator does not remember what it has given.
ReservedNothing(plan) == 0

\* reserveNext: the number given last is reserved, without writing.
Reserved(plan) == IF plan = <<>> THEN 0 ELSE plan[Len(plan)].n

GiveNumber(d) ==
    LET read == op[d].read
        n == NextNumber({f.n : f \in files} \cup {Reserved(op[d].plan)}
                          \cup DOMAIN read.redirects \cup Range(read.redirects),
                        read.counter, Blocks)
        plan == Append(op[d].plan, [old |-> Head(op[d].losers), n |-> n])
    IN  /\ pc[d] = "plan" /\ n <= MaxNumber
        /\ IF Len(op[d].losers) = 1
           THEN /\ op' = [op EXCEPT ![d] = [kind |-> "renumber", plan |-> plan]]
                /\ Goto(d, "confirm")
           ELSE /\ op' = [op EXCEPT ![d].plan = plan, ![d].losers = Tail(@)]
                /\ UNCHANGED pc
        /\ UNCHANGED <<files, tmps, yaml, ytmp, cfg, reserved, clock, pulls, failures,
                       history>>

\* The operator says no, or a planned file has gone or does not parse.
Unready(step) == At(files, step.old) = {} \/ \E f \in At(files, step.old) : f.broken

GiveUp(d) ==
    /\ pc[d] = "confirm"
    /\ Return(d)
    /\ Ends("refused")
    /\ UNCHANGED <<files, tmps, yaml, ytmp, cfg, reserved, clock, pulls, failures,
                   acked, clobbered, before, undone, trampled>>

\* Mutant: the redirects lead from the new number to the old one.
MappingBackwards(plan) ==
    [n \in {plan[i].n : i \in DOMAIN plan} |->
        plan[CHOOSE i \in DOMAIN plan : plan[i].n = n].old[1]]

\* stageRedirects: old number to new number.
Mapping(plan) ==
    [n \in {plan[i].old[1] : i \in DOMAIN plan} |->
        plan[Max({i \in DOMAIN plan : plan[i].old[1] = n})].n]

Redirected(redirects, plan) ==
    [n \in DOMAIN Mapping(plan) \cup DOMAIN redirects |->
        IF n \in DOMAIN Mapping(plan) THEN Mapping(plan)[n] ELSE redirects[n]]

\* The whole plan is prepared in memory: the renumbered files, project.yaml with
\* the redirects, and the removal of the old paths.
Prepare(d) ==
    LET plan == op[d].plan
        read(i) == CHOOSE f \in At(files, plan[i].old) : TRUE
        moved(i) == [read(i) EXCEPT !.n = plan[i].n, !.rev = clock + i,
                                    !.maker = d, !.writer = d]
    IN  /\ pc[d] = "confirm"
        /\ \A i \in DOMAIN plan : ~Unready(plan[i])
        /\ clock + Len(plan) <= MaxWrites
        /\ clock' = clock + Len(plan)
        /\ op' = [op EXCEPT ![d] =
                    [kind |-> "renumber",
                     writes |-> [i \in DOMAIN plan |-> moved(i)],
                     config |-> [yaml EXCEPT !.redirects = Redirected(@, plan)],
                     removes |-> [i \in DOMAIN plan |-> plan[i].old],
                     answer |-> {<<moved(i).item, moved(i).n>> : i \in DOMAIN plan},
                     seen |-> {read(i) : i \in DOMAIN plan}, held |-> {},
                     replaced |-> <<>>, saved |-> <<>>, removed |-> <<>>, created |-> <<>>]]
        /\ Goto(d, "write")
        /\ UNCHANGED <<files, tmps, yaml, ytmp, cfg, reserved, pulls, failures, history>>

-----------------------------------------------------------------------------
(***************************************************************************)
(* fileTx.commit: for every write it notes what stands at the path, stages *)
(* "<path>.tmp" and renames it; project.yaml is the last of them; then the *)
(* old files are read and removed.                                         *)
(***************************************************************************)
Committing ==
    {"write", "stage write", "land write", "config", "stage config", "land config",
     "removes", "drop"}

\* A rollback begins: what the commit had done is no longer promised.
TurnBack(d) ==
    /\ op' = [op EXCEPT ![d] = [kind |-> "undo", replaced |-> @.replaced, saved |-> @.saved,
                                removed |-> @.removed, created |-> @.created]]
    /\ Goto(d, "undo")
    /\ undone' = TRUE /\ acked' = acked \ op[d].answer

\* What d loses of others when it removes a file it has not read.
LostTo(d, gone) == {<<d, g.writer>> : g \in gone \ op[d].seen}

\* Mutant: only what a write replaces is noted.
NotedReplaced(o, w, previous) ==
    IF previous = {} THEN o
    ELSE [o EXCEPT !.replaced = Append(@, CHOOSE g \in previous : TRUE)]

\* What a write will have to be undone with.
Noted(o, w, previous) ==
    IF previous = {} THEN [o EXCEPT !.created = Append(@, Path(w))]
    ELSE [o EXCEPT !.replaced = Append(@, CHOOSE g \in previous : TRUE)]

CommitRead(d) ==
    /\ pc[d] = "write"
    /\ LET w == Head(op[d].writes)
       IN  op' = [op EXCEPT ![d] = Noted(@, w, At(files, Path(w)))]
    /\ Goto(d, "stage write")
    /\ UNCHANGED <<files, tmps, yaml, ytmp, cfg, reserved, clock, pulls, failures, history>>

CommitStage(d) ==
    /\ pc[d] = "stage write"
    /\ tmps' = Put(tmps, Head(op[d].writes))
    /\ Goto(d, "land write")
    /\ UNCHANGED <<files, yaml, ytmp, cfg, reserved, op, clock, pulls, failures, history>>

\* As in Land, what is renamed may be what another process has staged there.
CommitLand(d) ==
    /\ pc[d] = "land write"
    /\ LET w == Head(op[d].writes)
           staged == At(tmps, Path(w))
           previous == At(files, Path(w))
       IN  IF staged = {}
           THEN TurnBack(d) /\ UNCHANGED <<files, tmps, clobbered>>
           ELSE /\ files' = (files \ previous) \cup staged
                /\ tmps' = tmps \ staged
                /\ acked' = acked \cup {<<w.item, w.n>>}
                /\ clobbered' = clobbered \cup {<<d, g.writer>> : g \in previous}
                                         \cup {<<g.writer, d>> : g \in staged \ {w}}
                /\ op' = [op EXCEPT ![d].writes = Tail(@)]
                /\ Goto(d, IF Len(op[d].writes) = 1 THEN "config" ELSE "write")
                /\ UNCHANGED undone
    /\ UNCHANGED <<yaml, ytmp, cfg, reserved, clock, pulls, failures,
                   outcome, before, trampled>>

ConfigRead(d) ==
    /\ pc[d] = "config"
    /\ op' = [op EXCEPT ![d].saved = <<yaml>>]
    /\ Goto(d, "stage config")
    /\ UNCHANGED <<files, tmps, yaml, ytmp, cfg, reserved, clock, pulls, failures, history>>

ConfigStage(d) ==
    /\ pc[d] = "stage config"
    /\ ytmp' = <<op[d].config>>
    /\ Goto(d, "land config")
    /\ UNCHANGED <<files, tmps, yaml, cfg, reserved, op, clock, pulls, failures, history>>

\* Is a redirect of old not in new?
RedirectLost(old, new) ==
    \E n \in DOMAIN old.redirects :
        n \notin DOMAIN new.redirects \/ new.redirects[n] # old.redirects[n]

\* Two of the files have one number, which has one redirect.
RedirectShared(removes) ==
    \E i, j \in DOMAIN removes : i # j /\ removes[i][1] = removes[j][1]

ConfigLand(d) ==
    /\ pc[d] = "land config"
    /\ IF ytmp = <<>>
       THEN TurnBack(d) /\ UNCHANGED <<yaml, ytmp, trampled>>
       ELSE /\ yaml' = Head(ytmp) /\ ytmp' = <<>>
            /\ trampled' = (trampled \/ RedirectLost(yaml, yaml')
                              \/ RedirectLost(op[d].config, yaml')
                              \/ RedirectShared(op[d].removes))
            /\ Goto(d, "removes") /\ UNCHANGED <<op, acked, undone>>
    /\ UNCHANGED <<files, tmps, cfg, reserved, clock, pulls, failures,
                   clobbered, outcome, before>>

\* A file that has gone already is skipped.
RemoveRead(d) ==
    /\ pc[d] = "removes" /\ op[d].removes # <<>>
    /\ LET standing == At(files, Head(op[d].removes))
       IN  IF standing = {}
           THEN op' = [op EXCEPT ![d].removes = Tail(@)] /\ UNCHANGED pc
           ELSE op' = [op EXCEPT ![d].held = standing] /\ Goto(d, "drop")
    /\ UNCHANGED <<files, tmps, yaml, ytmp, cfg, reserved, clock, pulls, failures, history>>

\* One that goes between the read and the removal is an error.
CommitRemove(d) ==
    /\ pc[d] = "drop"
    /\ LET gone == At(files, Head(op[d].removes))
       IN  IF gone = {}
           THEN TurnBack(d) /\ UNCHANGED <<files, clobbered>>
           ELSE /\ files' = files \ gone
                /\ clobbered' = clobbered \cup LostTo(d, gone)
                /\ op' = [op EXCEPT ![d].removes = Tail(@), ![d].held = {},
                                    ![d].removed = Append(@, CHOOSE g \in op[d].held : TRUE)]
                /\ Goto(d, "removes")
                /\ UNCHANGED <<acked, undone>>
    /\ UNCHANGED <<tmps, yaml, ytmp, cfg, reserved, clock, pulls, failures,
                   outcome, before, trampled>>

Applied(d) ==
    /\ pc[d] = "removes" /\ op[d].removes = <<>>
    /\ Return(d)
    /\ Ends("applied")
    /\ UNCHANGED <<files, tmps, yaml, ytmp, cfg, reserved, clock, pulls, failures,
                   acked, clobbered, before, undone, trampled>>

\* An access fails before it has changed anything, but for the temporary file of
\* a rename, which goes.
CommitFails(d) ==
    /\ pc[d] \in Committing
    /\ pc[d] = "removes" => op[d].removes # <<>>
    /\ tmps' = IF pc[d] = "land write" THEN tmps \ At(tmps, Path(Head(op[d].writes))) ELSE tmps
    /\ ytmp' = IF pc[d] = "land config" THEN <<>> ELSE ytmp
    /\ TurnBack(d)
    /\ UNCHANGED <<files, yaml, cfg, reserved, clock, pulls, failures,
                   clobbered, outcome, before, trampled>>

-----------------------------------------------------------------------------
(***************************************************************************)
(* fileTx.rollback: everything that was replaced or removed is written     *)
(* back, in the order of the commit, then what it has created is removed.  *)
(* An access that fails is noted and the next one is tried.                *)
(***************************************************************************)
\* What d loses of others in doing so.
Displaced(d, path) == {<<d, g.writer>> : g \in {g \in At(files, path) : g.writer # d}}

\* An access of the rollback succeeds, or it fails and changes nothing.
Tried(d, ok) ==
    /\ pc[d] = "undo"
    /\ IF ok THEN UNCHANGED <<failures, outcome, trampled>>
       ELSE /\ failures < MaxFailures /\ failures' = failures + 1
            /\ Ends("undo failed") /\ trampled' = TRUE
    /\ UNCHANGED <<tmps, ytmp, cfg, reserved, pc, clock, pulls, acked, before, undone>>

WriteBack(d, f, ok) ==
    IF ok THEN /\ files' = Put(files, [f EXCEPT !.writer = d])
               /\ clobbered' = clobbered \cup Displaced(d, Path(f))
    ELSE UNCHANGED <<files, clobbered>>

UndoReplaced(d, ok) ==
    /\ Tried(d, ok) /\ op[d].replaced # <<>>
    /\ WriteBack(d, Head(op[d].replaced), ok)
    /\ op' = [op EXCEPT ![d].replaced = Tail(@)]
    /\ UNCHANGED yaml

UndoConfig(d, ok) ==
    /\ Tried(d, ok) /\ op[d].replaced = <<>> /\ op[d].saved # <<>>
    /\ yaml' = IF ok THEN Head(op[d].saved) ELSE yaml
    /\ op' = [op EXCEPT ![d].saved = <<>>]
    /\ UNCHANGED <<files, clobbered>>

UndoRemoved(d, ok) ==
    /\ Tried(d, ok) /\ op[d].replaced = <<>> /\ op[d].saved = <<>> /\ op[d].removed # <<>>
    /\ WriteBack(d, Head(op[d].removed), ok)
    /\ op' = [op EXCEPT ![d].removed = Tail(@)]
    /\ UNCHANGED yaml

\* Also of a file it had not come to write, and whatever stands there now.
UndoCreated(d, ok) ==
    /\ Tried(d, ok) /\ op[d].replaced = <<>> /\ op[d].saved = <<>> /\ op[d].removed = <<>>
    /\ op[d].created # <<>>
    /\ LET path == Head(op[d].created)
       IN  IF ok THEN /\ files' = files \ At(files, path)
                      /\ clobbered' = clobbered \cup Displaced(d, path)
           ELSE UNCHANGED <<files, clobbered>>
    /\ op' = [op EXCEPT ![d].created = Tail(@)]
    /\ UNCHANGED yaml

RolledBack(d) ==
    /\ pc[d] = "undo"
    /\ op[d].replaced = <<>> /\ op[d].saved = <<>> /\ op[d].removed = <<>>
    /\ op[d].created = <<>>
    /\ Return(d)
    /\ IF outcome = "undo failed" THEN UNCHANGED outcome ELSE Ends("rolled back")
    /\ trampled' = (trampled \/ before = <<>>)
    /\ UNCHANGED <<files, tmps, yaml, ytmp, cfg, reserved, clock, pulls, failures,
                   acked, clobbered, before, undone>>

DoctorStep ==
    \/ Open(Doctor) \/ FindDuplicates(Doctor) \/ GiveNumber(Doctor)
    \/ GiveUp(Doctor) \/ Prepare(Doctor)
    \/ CommitRead(Doctor) \/ CommitStage(Doctor) \/ CommitLand(Doctor)
    \/ ConfigRead(Doctor) \/ ConfigStage(Doctor) \/ ConfigLand(Doctor)
    \/ RemoveRead(Doctor) \/ CommitRemove(Doctor) \/ Applied(Doctor) \/ CommitFails(Doctor)
    \/ \E ok \in BOOLEAN :
          \/ UndoReplaced(Doctor, ok) \/ UndoConfig(Doctor, ok)
          \/ UndoRemoved(Doctor, ok) \/ UndoCreated(Doctor, ok)
    \/ RolledBack(Doctor)

\* Everybody else, and what the history makes of it.
Bystander(step) ==
    /\ step
    /\ IF <<files, tmps, yaml, ytmp>>' # <<files, tmps, yaml, ytmp>>
       THEN outcome' = "none" /\ before' = <<>>
       ELSE UNCHANGED <<outcome, before>>
    /\ trampled' = (trampled \/ RedirectLost(yaml, yaml'))
    /\ UNCHANGED undone

\* The doctor dies; the plan dies with it.  In the middle of a rollback it
\* leaves behind what the rollback had come to.
DoctorDies ==
    /\ pc[Doctor] # "idle" /\ failures < MaxFailures
    /\ failures' = failures + 1
    /\ Return(Doctor)
    /\ outcome' = "none" /\ before' = <<>>
    /\ trampled' = (trampled \/ before = <<>> \/ pc[Doctor] = "undo")
    /\ UNCHANGED <<files, tmps, yaml, ytmp, cfg, reserved, clock, pulls, acked, clobbered,
                   undone>>

RNext ==
    \/ DoctorStep \/ DoctorDies
    \/ \E p \in Processes \ {Doctor} : Bystander(StoreStep(p))
    \/ Bystander(GitStep)

RSpec == RInit /\ [][RNext]_vars

-----------------------------------------------------------------------------
(* Safety *)

\* A renumbering that nobody disturbed leaves no number claimed twice, loses no
\* item, and leaves a redirect behind for every file it moved.
RenumberSettles ==
    outcome = "applied" =>
        /\ Clashes = {}
        /\ {f.item : f \in files} = {f.item : f \in Head(before).files}
        /\ \A f \in Head(before).files : f \in files \/ f.n \in DOMAIN yaml.redirects

Contents(S) == {[f EXCEPT !.writer = "git"] : f \in S}

\* A renumbering that failed half way and was rolled back, and that nobody
\* disturbed, has put back every file and project.yaml.
FailureChangesNothing ==
    outcome \in {"rolled back", "refused"} =>
        /\ Contents(files) = Contents(Head(before).files)
        /\ yaml = Head(before).yaml

\* "So a failure leaves the vault unchanged" claims more: a rollback that fails
\* itself goes on, and may remove the new file of an item whose old file it has
\* failed to write back.
AnyFailureChangesNothing ==
    (pc[Doctor] = "idle" /\ outcome \in {"rolled back", "undo failed"}) =>
        Contents(files) = Contents(Head(before).files)

\* ClashesNeedTwoWriters beside a doctor: the allocator of a process and that of
\* a renumbering never give one number twice, though each may have read
\* project.yaml before the other wrote it, and wherever either dies.  A rollback
\* takes that away: it puts a file back at a number that was given again since.
NoClashOfItsOwn == ~undone => ClashesNeedTwoWriters

\* A renumbering is done or it is not.
RenumberIsAtomic == RenumberSettles /\ FailureChangesNothing

\* The redirects lead from n to m: every set of numbers that holds n and is closed
\* under them holds m.
Leads(redirects, n, m) ==
    \A S \in SUBSET Numbers :
        (n \in S /\ \A k \in S \cap DOMAIN redirects : redirects[k] \in S) => m \in S

\* Until an item is hard-deleted, it is there, and the redirects lead to it from
\* every number it was ever written with, whatever was renumbered or deleted since
\* and wherever a renumbering that nobody disturbed died on its way forward.  A
\* rollback passes through states of which this is not true; and it is not claimed
\* any more once a redirect was lost or shared by two files, a write was lost, a
\* rollback failed or was cut short, or a renumbering that somebody disturbed ended
\* half way.
OldIdsResolve ==
    (~trampled /\ clobbered = {} /\ pc[Doctor] # "undo") =>
        \A a \in acked :
            \E f \in files : f.item = a[1] /\ Leads(yaml.redirects, a[2], f.n)

\* What the comment of locate says, that such a link still resolves: a lookup
\* sees the first number of the chain and the last, and none in between.
OldLinksResolve ==
    (~trampled /\ clobbered = {}) =>
        \A a \in acked :
            (\E f \in files : f.item = a[1] /\ Leads(yaml.redirects, a[2], f.n)) =>
                Claims(a[2]) # {} \/ Claims(Resolve(yaml.redirects, a[2])) # {}

\* What R-RENUM-2 says without that exception: a redirect is for ever, unless
\* the renumbering that wrote it is undone.
RedirectsAreForever ==
    [][pc[Doctor] # "undo" =>
         DOMAIN yaml.redirects \subseteq DOMAIN yaml'.redirects]_vars
=============================================================================
