------------------------------ MODULE Backlog ------------------------------
(***************************************************************************)
(* The items of one project on disk, written by several processes at once: *)
(* the companion server, a command line, an MCP server on stdio.  Each has *)
(* a FileStore (internal/core/store.go) and an Allocator                   *)
(* (internal/core/allocator.go) of its own; a mutex serialises what one    *)
(* process does, nothing serialises two of them, and git may change the    *)
(* folder under all of them.                                               *)
(*                                                                         *)
(* One step is one access to the file system, because that is where two    *)
(* processes interleave.  A file is a record: the number of its id, its    *)
(* title (the slug, so number and title are its path), the item it holds   *)
(* and the revision of its content.  A soft delete is an edit: it writes   *)
(* the file again with a flag.  One type of item is modelled; the types    *)
(* have separate numbers and separate folders.                             *)
(***************************************************************************)
EXTENDS Allocation, FiniteSetsExt, SequencesExt

CONSTANTS
    Processes,      \* the processes that have this backlog open
    Titles,         \* the titles, small naturals so that paths are ordered
    Blocks,         \* id_allocation: reserved, and the ranges of every user
    Seeds,          \* the item files there may be to begin with ...
    SeedWrites,     \* ... and the revisions they and their items have
    Arrivals,       \* the files git may bring in: number, title, dated, broken
    MaxNumber,      \* bound: no item gets a higher number
    MaxWrites,      \* bound: files written by all processes and by git
    MaxPulls,       \* bound: changes that git brings in
    MaxFailures     \* bound: failed writes and crashes

Numbers == 1..MaxNumber
Writers == Processes \cup {"git"}
File == [n : Numbers, title : Titles, item : 1..MaxWrites, rev : 1..MaxWrites,
         dated : BOOLEAN, broken : BOOLEAN, maker : Writers, writer : Writers]
NoOp == [kind |-> "none"]

Path(f) == <<f.n, f.title>>
At(S, path) == {f \in S : Path(f) = path}
OnePerPath(S) == \A f, g \in S : Path(f) = Path(g) => f = g
TwoWriters(S) ==
    \A f, g \in S : (f.n = g.n /\ f # g) =>
        f.maker # g.maker \/ f.maker = "git" \/ f.item = g.item

\* SeedWrites counts the seeds' revisions, and a revision is of one item.
ASSUME SeedsAssumption ==
    \A S \in Seeds : \A f \in S : /\ f.rev <= SeedWrites
                                /\ \A g \in S : f.rev = g.rev => f.item = g.item

ASSUME BacklogAssumption ==
    /\ IsFiniteSet(Processes) /\ Processes # {} /\ "git" \notin Processes
    /\ Titles \subseteq Nat /\ Titles # {}
    /\ MaxNumber \in Nat /\ MaxWrites \in Nat /\ SeedWrites \in 0..MaxWrites
    /\ MaxPulls \in Nat /\ MaxFailures \in Nat
    /\ Blocks \subseteq ((0..MaxNumber) \X (0..MaxNumber))
    /\ \A S \in Seeds : IsFiniteSet(S) /\ S \subseteq File /\ OnePerPath(S) /\ TwoWriters(S)

VARIABLES
    files,      \* the item files
    tmps,       \* the files "<path>.tmp" of writes that are under way
    yaml,       \* id_allocation in project.yaml: counter and redirects
    ytmp,       \* "project.yaml.tmp": its content, nothing when there is none
    cfg,        \* cfg[p]: what process p read of it
    reserved,   \* reserved[p]: Allocator.reserved, 0 for none
    pc, op,     \* what process p is doing, and with what
    clock,      \* revisions written so far
    pulls, failures,
    acked,      \* history: <<item, number>> of every write that has landed, until a
                \* hard delete of the item
    clobbered   \* history: <<writer, last writer>> where a write was lost

storeVars == <<files, tmps, yaml, ytmp, cfg, reserved, pc, op, clock, pulls, failures,
               acked, clobbered>>

Claims(n) == {f \in files : f.n = n}

Put(S, f) == (S \ At(S, Path(f))) \cup {f}
Clashes == {n \in Numbers : Cardinality(Claims(n)) > 1}

\* resolveRedirect: at most eight hops along the redirects, past every number
\* that has a redirect of its own, whether or not a file still claims it.
Resolve(redirects, n) ==
    LET hop[i \in 0..8] ==
            IF i = 0 THEN n
            ELSE IF hop[i-1] \in DOMAIN redirects THEN redirects[hop[i-1]] ELSE hop[i-1]
    IN  hop[8]

\* locate: the files that claim an id, or the one it was renumbered to.
Locate(p, n) ==
    IF Claims(n) # {} THEN Claims(n) ELSE Claims(Resolve(cfg[p].redirects, n))

\* The numbers an allocation of p may not give: scanItems and redirectNumbers
\* and its own reservation.
Taken(p) ==
    {f.n : f \in files} \cup {reserved[p]}
    \cup DOMAIN cfg[p].redirects \cup Range(cfg[p].redirects)

Next1(p) == NextNumber(Taken(p), cfg[p].counter, Blocks)

Init ==
    /\ files \in Seeds /\ tmps = {}
    /\ yaml = [counter |-> 0, redirects |-> <<>>] /\ ytmp = <<>>
    /\ cfg = [p \in Processes |-> yaml]
    /\ reserved = [p \in Processes |-> 0]
    /\ pc = [p \in Processes |-> "idle"] /\ op = [p \in Processes |-> NoOp]
    /\ clock = SeedWrites /\ pulls = 0 /\ failures = 0
    /\ acked = {<<f.item, f.n>> : f \in files} /\ clobbered = {}

Goto(p, place) == pc' = [pc EXCEPT ![p] = place]
Return(p) == Goto(p, "idle") /\ op' = [op EXCEPT ![p] = NoOp]

-----------------------------------------------------------------------------
(***************************************************************************)
(* Create: the number first, then the counter in project.yaml, then the    *)
(* guard against a file that has appeared meanwhile, then the file.        *)
(***************************************************************************)
Allocate(p, t) ==
    /\ pc[p] = "idle"
    /\ clock < MaxWrites /\ Next1(p) <= MaxNumber
    /\ reserved' = [reserved EXCEPT ![p] = Next1(p)]
    /\ op' = [op EXCEPT ![p] = [kind |-> "create", n |-> Next1(p), title |-> t]]
    /\ Goto(p, "read counter")
    /\ UNCHANGED <<files, tmps, yaml, ytmp, cfg, clock, pulls, failures, acked, clobbered>>

\* writeCounter reads project.yaml ...
ReadCounter(p) ==
    /\ pc[p] = "read counter"
    /\ op' = [op EXCEPT ![p] = [kind |-> "create", n |-> @.n, title |-> @.title,
                                read |-> yaml]]
    /\ Goto(p, "stage counter")
    /\ UNCHANGED <<files, tmps, yaml, ytmp, cfg, reserved, clock, pulls, failures, acked, clobbered>>

\* ... and stages what it read with the one value changed ...
StageCounter(p) ==
    /\ pc[p] = "stage counter"
    /\ ytmp' = <<[op[p].read EXCEPT !.counter = op[p].n]>>
    /\ op' = [op EXCEPT ![p] = [kind |-> "create", n |-> @.n, title |-> @.title]]
    /\ Goto(p, "land counter")
    /\ UNCHANGED <<files, tmps, yaml, cfg, reserved, clock, pulls, failures, acked, clobbered>>

\* ... and renames it.  A second process may have staged its own content under
\* that name, or have renamed it already; then the number stays handed out and
\* nothing is created.
LandCounter(p) ==
    /\ pc[p] = "land counter"
    /\ IF ytmp = <<>>
       THEN Return(p) /\ UNCHANGED <<yaml, ytmp, cfg>>
       ELSE /\ yaml' = Head(ytmp) /\ ytmp' = <<>>
            /\ cfg' = [cfg EXCEPT ![p].counter = op[p].n]
            /\ Goto(p, "guard") /\ UNCHANGED op
    /\ UNCHANGED <<files, tmps, reserved, clock, pulls, failures, acked, clobbered>>

\* The "lost-update guard": find the id just allocated.
Guard(p) ==
    /\ pc[p] = "guard"
    /\ IF Claims(op[p].n) = {}
       THEN /\ Goto(p, "stage")
            /\ op' = [op EXCEPT ![p] =
                        [kind |-> "create", quoted |-> 0, old |-> <<>>,
                         file |-> [n |-> @.n, title |-> @.title, item |-> 0, rev |-> 0,
                                   dated |-> TRUE, broken |-> FALSE,
                                   maker |-> p, writer |-> p]]]
       ELSE Return(p)                                       \* ErrDuplicateID
    /\ UNCHANGED <<files, tmps, yaml, ytmp, cfg, reserved, clock, pulls, failures, acked, clobbered>>

(***************************************************************************)
(* Update, Move and Delete: locate the item, read it, compare the revision *)
(* the caller quotes, from any earlier read, with the one on disk, and     *)
(* change the content.  A title change moves the file.  A caller that      *)
(* waives the check says that it does not mind what it replaces.           *)
(***************************************************************************)
\* Mutant: a stale revision is as good as any.
MatchesAny(quoted, f) == quoted <= f.rev

Matches(quoted, f) == quoted = f.rev

ReadChecked(p, n, quoted, kind, t) ==
    /\ pc[p] = "idle" /\ clock < MaxWrites
    /\ \E f \in files :
         /\ ~f.broken /\ Matches(quoted, f)
         /\ (t # f.title) => kind = "edit"
         /\ Locate(p, n) = {f}              \* not found, or claimed twice
         /\ op' = [op EXCEPT ![p] =
                     [kind |-> kind, quoted |-> quoted, old |-> Path(f),
                      file |-> [f EXCEPT !.title = t, !.writer = p]]]
         /\ Goto(p, IF kind = "hard delete" THEN "remove" ELSE "stage")
    /\ UNCHANGED <<files, tmps, yaml, ytmp, cfg, reserved, clock, pulls, failures, acked, clobbered>>

\* The validator refuses the item, or a read or a write fails: nothing changes
\* under its own name, and a number that was handed out stays handed out.  When
\* it is the rename that fails, the temporary file goes.
Refuse(p) ==
    /\ pc[p] \in {"read counter", "stage counter", "land counter", "stage", "land"}
    /\ failures < MaxFailures
    /\ failures' = failures + 1
    /\ tmps' = IF pc[p] = "land" THEN tmps \ At(tmps, Path(op[p].file)) ELSE tmps
    /\ ytmp' = IF pc[p] = "land counter" THEN <<>> ELSE ytmp
    /\ Return(p)
    /\ UNCHANGED <<files, yaml, cfg, reserved, clock, pulls, acked, clobbered>>

\* writeFileAtomic, first half: the new content goes to "<path>.tmp".
Stage(p) ==
    /\ pc[p] = "stage"
    /\ clock < MaxWrites
    /\ clock' = clock + 1
    /\ LET f == [op[p].file EXCEPT !.rev = clock', !.item = IF @ = 0 THEN clock' ELSE @]
       IN  /\ tmps' = Put(tmps, f)
           /\ op' = [op EXCEPT ![p].file = f]
    /\ Goto(p, "land")
    /\ UNCHANGED <<files, yaml, ytmp, cfg, reserved, pulls, failures, acked, clobbered>>

\* What is lost when p replaces or removes what stands at a path: a revision
\* that is not the one its caller quoted.  A create quotes none.
Losses(p, path) == {<<p, g.writer>> : g \in {g \in At(files, path) : g.rev # op[p].quoted}}

\* ... and when another process has used the same temporary name meanwhile.
Supplanted(p, staged) == {<<g.writer, p>> : g \in staged \ {op[p].file}}

\* writeFileAtomic, second half: the temporary file takes the name.  It is gone
\* when a second process has used the same temporary name and renamed it first.
Land(p) ==
    /\ pc[p] = "land"
    /\ LET staged == At(tmps, Path(op[p].file))
       IN  IF staged = {}
           THEN Return(p) /\ UNCHANGED <<files, tmps, acked, clobbered>>
           ELSE /\ files' = (files \ At(files, Path(op[p].file))) \cup staged
                /\ tmps' = tmps \ staged
                /\ clobbered' = clobbered \cup Losses(p, Path(op[p].file))
                                         \cup Supplanted(p, staged)
                /\ acked' = acked \cup {<<op[p].file.item, op[p].file.n>>}
                /\ IF op[p].old \in {<<>>, Path(op[p].file)}
                   THEN Return(p)
                   ELSE Goto(p, "unlink") /\ UNCHANGED op
    /\ UNCHANGED <<yaml, ytmp, cfg, reserved, clock, pulls, failures>>

\* writeItem removes the file it replaced when the name has changed.
Unlink(p) ==
    /\ pc[p] = "unlink"
    /\ files' = files \ At(files, op[p].old)
    /\ clobbered' = clobbered \cup Losses(p, op[p].old)
    /\ Return(p)
    /\ UNCHANGED <<tmps, yaml, ytmp, cfg, reserved, clock, pulls, failures, acked>>

\* A hard delete removes the file at the path that was read.
RemoveFile(p) ==
    /\ pc[p] = "remove"
    /\ files' = files \ At(files, op[p].old)
    /\ clobbered' = clobbered \cup Losses(p, op[p].old)
    /\ acked' = {a \in acked : a[1] # op[p].file.item}
    /\ Return(p)
    /\ UNCHANGED <<tmps, yaml, ytmp, cfg, reserved, clock, pulls, failures>>

-----------------------------------------------------------------------------
(***************************************************************************)
(* Configuration and faults.  A new store is made from a fresh project.yaml*)
(* by rediscover, when the watcher reports the file, and by every start of *)
(* a process; its allocator remembers no reservation.                      *)
(***************************************************************************)
Rediscover(p) ==
    /\ pc[p] = "idle"
    /\ cfg' = [cfg EXCEPT ![p] = yaml]
    /\ reserved' = [reserved EXCEPT ![p] = 0]
    /\ UNCHANGED <<files, tmps, yaml, ytmp, pc, op, clock, pulls, failures, acked, clobbered>>

\* A process dies and is started again.
Crash(p) ==
    /\ pc[p] # "idle" /\ failures < MaxFailures
    /\ failures' = failures + 1
    /\ Return(p)
    /\ cfg' = [cfg EXCEPT ![p] = yaml]
    /\ reserved' = [reserved EXCEPT ![p] = 0]
    /\ UNCHANGED <<files, tmps, yaml, ytmp, clock, pulls, acked, clobbered>>

\* A merge brings in an item of another clone, which may hold a number that is
\* taken here, may not parse and may carry no creation date ...
PullFile(n, t, dated, broken) ==
    /\ pulls < MaxPulls /\ clock < MaxWrites
    /\ At(files, <<n, t>>) = {}
    /\ pulls' = pulls + 1 /\ clock' = clock + 1
    /\ files' = files \cup {[n |-> n, title |-> t, item |-> clock', rev |-> clock',
                             dated |-> dated, broken |-> broken,
                             maker |-> "git", writer |-> "git"]}
    /\ acked' = acked \cup {<<clock', n>>}
    /\ UNCHANGED <<tmps, yaml, ytmp, cfg, reserved, pc, op, failures, clobbered>>

\* ... or another clone's edit of an item.
PullEdit(f) ==
    /\ pulls < MaxPulls /\ clock < MaxWrites
    /\ pulls' = pulls + 1 /\ clock' = clock + 1
    /\ files' = Put(files, [f EXCEPT !.rev = clock', !.writer = "git"])
    /\ UNCHANGED <<tmps, yaml, ytmp, cfg, reserved, pc, op, failures, acked, clobbered>>

\* ... or its removal.
PullRemoval(f) ==
    /\ pulls < MaxPulls
    /\ pulls' = pulls + 1
    /\ files' = files \ {f}
    /\ acked' = {a \in acked : a[1] # f.item}
    /\ UNCHANGED <<tmps, yaml, ytmp, cfg, reserved, pc, op, clock, failures, clobbered>>

StoreStep(p) ==
    \/ \E t \in Titles : Allocate(p, t)
    \/ ReadCounter(p) \/ StageCounter(p) \/ LandCounter(p) \/ Guard(p)
    \/ \E n \in Numbers, quoted \in 1..clock, t \in Titles,
          kind \in {"edit", "hard delete"} : ReadChecked(p, n, quoted, kind, t)
    \/ Refuse(p) \/ Stage(p) \/ Land(p) \/ Unlink(p) \/ RemoveFile(p)
    \/ Rediscover(p) \/ Crash(p)

GitStep ==
    \/ \E n \in Numbers, t \in Titles, dated, broken \in BOOLEAN :
          <<n, t, dated, broken>> \in Arrivals /\ PullFile(n, t, dated, broken)
    \/ \E f \in files : PullEdit(f) \/ PullRemoval(f)

Next == (\E p \in Processes : StoreStep(p)) \/ GitStep

Spec == Init /\ [][Next]_storeVars

-----------------------------------------------------------------------------
(* Safety *)

RedirectMaps == UNION {[S -> Numbers] : S \in SUBSET Numbers}
Config == [counter : 0..MaxNumber, redirects : RedirectMaps]

TypeOK ==
    /\ files \subseteq File /\ OnePerPath(files)
    /\ tmps \subseteq File /\ OnePerPath(tmps)
    /\ yaml \in Config /\ ytmp \in {<<>>} \cup {<<c>> : c \in Config}
    /\ cfg \in [Processes -> Config]
    /\ reserved \in [Processes -> 0..MaxNumber]
    /\ clock \in 0..MaxWrites /\ pulls \in 0..MaxPulls /\ failures \in 0..MaxFailures

\* While one process alone keeps the backlog, two files that claim one number
\* were given it by two different writers: the scan, the reservation and the
\* guard keep a process from colliding with itself, also after a restart.  The
\* exception is one item that stands twice, which a title change leaves behind
\* when the process dies between the write and the removal.
ClashesNeedTwoWriters == TwoWriters(files)

\* While one process alone keeps the backlog, its optimistic lock loses no
\* write of its own callers: what a write replaces, or a delete removes, without
\* its caller having read it was put there by git or by a renumbering.  With a
\* second process this is not so: the two share the temporary name.
NoOwnLoss == \A c \in clobbered : c[1] # c[2]

\* A number an allocator hands out is above every number on disk and in the
\* redirects, above the hint and above what it has handed out before: gaps are
\* never filled, no number is given twice while the file of the first is not
\* there yet, and no block that is set aside is entered.
Fresh(p, n) ==
    /\ \A f \in files : f.n < n
    /\ \A m \in DOMAIN cfg[p].redirects : m < n /\ cfg[p].redirects[m] < n
    /\ cfg[p].counter < n /\ reserved[p] < n
    /\ \A b \in Blocks : ~InBlock(n, b)

NumbersAreFresh ==
    [][\A p \in Processes :
         reserved'[p] \notin {reserved[p], 0} => Fresh(p, reserved'[p])]_storeVars

\* What the guard of Create and the quoted revision are there for: no write
\* replaces a file that its caller has not read.
NothingIsOverwritten == clobbered = {}
=============================================================================
