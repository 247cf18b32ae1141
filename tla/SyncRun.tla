------------------------------- MODULE SyncRun -------------------------------
(***************************************************************************)
(* A sync of one clone: gitops.Sync (internal/gitops/sync.go) over the     *)
(* system and the go-git backend, the handlers that resolve, continue and  *)
(* abort a stopped integration, commit-on-save, and another clone that     *)
(* pushes to the same remote branch.                                       *)
(*                                                                         *)
(* One action is one command of git (git locks its repository) or, in the  *)
(* go-git backend, one step between two of its reads and writes: vault     *)
(* writes take no lock of git's.  A commit is the change it makes; the     *)
(* remote branch is the sequence of them since both clones agreed, and a   *)
(* local branch the length of the part of it that it has and the sequence  *)
(* of its own commits.  Which commits conflict is left open, so any replay *)
(* over new remote commits may stop.  The branch has a remote and an       *)
(* upstream, edits touch no conflicted file, and jj is left out.           *)
(***************************************************************************)
EXTENDS Naturals, FiniteSets, Sequences, SequencesExt

CONSTANTS Edits,       \* saves of an item in this clone, each made once
          Before,      \* those that are committed already
          Others,      \* commits that the other clone pushes
          Runs,        \* callers of Sync: tabs and command lines
          Tabs,        \* those of the server; each of the others is a process
          Users,       \* callers of resolve; of continue and abort from other tabs too
          Paths,       \* files an integration can conflict on
          Asks,        \* the SyncOptions each run may be called with
          Backends,    \* the backends that gitops.Open may choose
          MaxRetries,  \* SyncOptions.MaxPushRetries
          MaxRuns,     \* bound: calls of Sync by each caller
          MaxCalls,    \* bound: calls of each user
          Merge        \* a merge commit

Options == [strategy : {"rebase", "merge"}, push : BOOLEAN, dry : BOOLEAN]

ASSUME SyncRunAssumption ==
    /\ IsFiniteSet(Edits) /\ IsFiniteSet(Others) /\ Edits \cap Others = {}
    /\ Before \subseteq Edits /\ Tabs \subseteq Runs
    /\ Merge \notin Edits \cup Others
    /\ \A r \in Runs : Asks[r] \in (SUBSET Options) \ {{}}
    /\ Runs \cap Users = {}
    /\ Backends \subseteq {"system", "go-git"}
    /\ {MaxRetries, MaxRuns, MaxCalls} \subseteq Nat

VARIABLES remote,     \* the remote branch
          backend,    \* the backend of the clone
          protected,  \* the remote refuses every push of this clone by policy
          tracked,    \* how much of it the remote-tracking branch points at
          branch,     \* the local branch
          open,       \* the integration that has not settled
          dirty,      \* edits in the working tree that no commit has
          staged,     \* those of them that are in the index
          stray,      \* resolutions written into a settled working tree
          queued,     \* edits that commit-on-save has not committed yet
          pc,         \* where each run is
          opts,       \* its SyncOptions
          result,     \* its SyncResult, and the status it last read in it
          calls,      \* how often each run and each user has been called
          at,         \* where the handler of each user is
          picked,     \* the path it resolves
          saved,      \* history: the edits made
          discarded,  \* history: what Undo, or go-git's reset, threw away
          began,      \* history: the branch when the run passed its preflight
          alone       \* history: nobody else ran a sync, resolved or aborted since

gitVars  == <<remote, backend, protected, tracked, branch, open>>
treeVars == <<dirty, staged, stray, queued>>
runVars  == <<pc, opts, result>>
userVars == <<at, picked>>
histVars == <<saved, discarded, began, alone>>
vars == <<gitVars, treeVars, runVars, userVars, calls, histVars>>

Settled == [op |-> "none", onto |-> 0, done |-> <<>>, todo |-> <<>>, unmerged |-> {}]
NoStatus == [ahead |-> 0, behind |-> 0]
NoResult == [phase |-> "none", pulled |-> 0, pushed |-> 0, retries |-> 0, after |-> NoStatus]

Init == /\ remote = <<>> /\ backend \in Backends /\ protected \in BOOLEAN /\ tracked = 0
        /\ branch = [base |-> 0, own |-> SetToSeq(Before)] /\ open = Settled
        /\ dirty = {} /\ staged = {} /\ stray = {} /\ queued = {}
        /\ pc = [r \in Runs |-> "idle"]
        /\ opts = [r \in Runs |-> CHOOSE o \in Asks[r] : TRUE]
        /\ result = [r \in Runs |-> NoResult]
        /\ calls = [c \in Runs \cup Users |-> 0]
        /\ at = [u \in Users |-> "idle"] /\ picked = [u \in Users |-> {}]
        /\ saved = Before /\ discarded = {}
        /\ began = [r \in Runs |-> branch] /\ alone = [r \in Runs |-> FALSE]

(***************************************************************************)
(* git.                                                                    *)
(***************************************************************************)
(* A stopped rebase detaches HEAD, a stopped merge does not.               *)
Detached == open.op = "rebase"
Tip == IF Detached THEN [base |-> open.onto, own |-> open.done] ELSE branch

Tracked == dirty # {} \/ stray # {}

(* SyncStatus: a detached HEAD has no upstream and so no counters.         *)
SyncStatus == IF Detached THEN NoStatus
              ELSE [ahead |-> Len(branch.own), behind |-> tracked - branch.base]

(* git rebase drops merges, and the commits the upstream has already.      *)
Kept == {i \in DOMAIN branch.own :
            branch.own[i] \notin {Merge} \cup Range(SubSeq(remote, 1, tracked))}
Nth(I, k) == CHOOSE i \in I : Cardinality({j \in I : j <= i}) = k
Replayed == [k \in 1..Cardinality(Kept) |-> branch.own[Nth(Kept, k)]]

Rebased == [base |-> tracked, own |-> Replayed]
Joined  == [base |-> tracked, own |-> Append(branch.own, Merge)]

(* An integration that stops after n commits of those it replays.          *)
Stopped(op, n, paths) ==
    [op |-> op, onto |-> tracked, done |-> SubSeq(Replayed, 1, n),
     todo |-> SubSeq(Replayed, n + 1, Len(Replayed)), unmerged |-> paths]

Goto(r, there) == pc' = [pc EXCEPT ![r] = there]

(* The run is over: what it read and how often it tried is of no more use. *)
End(r, phase) ==
    /\ Goto(r, "idle")
    /\ result' = [result EXCEPT ![r] = [@ EXCEPT !.phase = phase, !.retries = 0, !.after = NoStatus]]

(* fail: a conflict is a phase of its own.                                 *)
Fail(r, code) == End(r, IF code = "conflict" THEN "conflicts" ELSE "failed")

(* The runs under way; whoever else syncs, resolves or aborts disturbs     *)
(* them, and a run that starts among others is not alone either.           *)
Busy == {r \in Runs : pc[r] # "idle"}
AloneIs(c) == /\ Busy \subseteq {c}
              /\ \A u \in Users \ {c} : at[u] = "idle"
Disturbs(c) == alone' = [r \in Runs |-> IF r = c THEN AloneIs(c)
                                        ELSE alone[r] /\ r \notin Busy]

(* serialBackend: a call of the go-git backend has the repository alone, in *)
(* its own process.                                                        *)
Free(callers) == \A r \in callers : pc[r] # "reset"
Mates(r) == IF r \in Tabs THEN Tabs ELSE {r}

(***************************************************************************)
(* Saves and commits.                                                      *)
(***************************************************************************)
(* The vault writes the file and gitState.enqueue queues it.               *)
Save(e) == /\ e \notin saved
           /\ saved' = saved \cup {e} /\ dirty' = dirty \cup {e} /\ queued' = queued \cup {e}
           /\ UNCHANGED <<gitVars, staged, stray, runVars, calls, userVars, discarded, began, alone>>

(* Backend.Commit of one file.  Git takes it on a detached HEAD and        *)
(* refuses a partial commit in a merge, after it was staged.               *)
Committed(e) ==
    /\ IF e \in dirty /\ open.op = "merge"
       THEN staged' = staged \cup {e} /\ UNCHANGED <<branch, open, dirty>>
       ELSE /\ dirty' = dirty \ {e} /\ staged' = staged \ {e}
            /\ IF e \in dirty /\ Detached
               THEN open' = [open EXCEPT !.done = Append(@, e)] /\ UNCHANGED branch
               ELSE /\ branch' = IF e \in dirty THEN [branch EXCEPT !.own = Append(@, e)] ELSE branch
                    /\ UNCHANGED open
    /\ UNCHANGED <<remote, backend, protected, tracked, stray, runVars, calls, userVars, histVars>>

(* Committer.commit: whatever git answers, the batch is done.              *)
CommitOnSave(e) ==
    e \in queued /\ Free(Tabs) /\ queued' = queued \ {e} /\ Committed(e)

(* "Commit changes" with the paths, and gintrack sync --commit-all.        *)
CommitPath(e) == e \in dirty \ queued /\ Committed(e) /\ UNCHANGED queued

(* The other clone pushes, having fetched and integrated first.            *)
Publish(o) == /\ o \notin Range(remote)
              /\ remote' = Append(remote, o)
              /\ UNCHANGED <<backend, protected, tracked, branch, open, treeVars, runVars, calls, userVars, histVars>>

(***************************************************************************)
(* The run.                                                                *)
(***************************************************************************)
(* handleSyncRun: a run that is no preview flushes the committer first.    *)
Sync(r) ==
    /\ pc[r] = "idle" /\ calls[r] < MaxRuns
    /\ calls' = [calls EXCEPT ![r] = @ + 1]
    /\ \E o \in Asks[r] : /\ opts' = [opts EXCEPT ![r] = o]
                         /\ Goto(r, IF o.dry THEN "preflight" ELSE "flush")
    /\ result' = [result EXCEPT ![r] = NoResult]
    /\ Disturbs(r)
    /\ UNCHANGED <<gitVars, treeVars, userVars, saved, discarded, began>>

Flushed(r) == /\ pc[r] = "flush" /\ queued = {}
              /\ Goto(r, "preflight")
              /\ UNCHANGED <<gitVars, treeVars, opts, result, calls, userVars, histVars>>

(* Mutant: an unfinished integration is not refused.                       *)
PreflightAnyway(r) ==
    /\ pc[r] = "preflight" /\ Free(Mates(r))
    /\ began' = [began EXCEPT ![r] = branch]
    /\ IF Tracked /\ ~opts[r].dry THEN Fail(r, "dirty_tree")
       ELSE Goto(r, "fetch") /\ UNCHANGED result
    /\ UNCHANGED <<gitVars, treeVars, opts, calls, userVars, saved, discarded, alone>>

Preflight(r) ==
    /\ pc[r] = "preflight" /\ Free(Mates(r))
    /\ began' = [began EXCEPT ![r] = branch]
    /\ IF open.op # "none" THEN Fail(r, "in_progress")
       ELSE IF Tracked /\ ~opts[r].dry THEN Fail(r, "dirty_tree")
       ELSE Goto(r, "fetch") /\ UNCHANGED result
    /\ UNCHANGED <<gitVars, treeVars, opts, calls, userVars, saved, discarded, alone>>

Fetch(r) ==
    /\ pc[r] = "fetch" /\ Free(Mates(r))
    /\ tracked' = Len(remote)
    /\ Goto(r, "status")
    /\ UNCHANGED <<remote, backend, protected, branch, open, treeVars, opts, result, calls, userVars, histVars>>

Reads(r) == result' = [result EXCEPT ![r].after = SyncStatus]

(* The status after a fetch, the first one or that of a retry.             *)
Status(r) ==
    /\ pc[r] = "status" /\ Free(Mates(r))
    /\ IF opts[r].dry THEN End(r, "done")
       ELSE /\ Reads(r)
            /\ Goto(r, IF SyncStatus.behind > 0 THEN "integrate"
                       ELSE IF opts[r].push THEN "ahead" ELSE "finish")
    /\ UNCHANGED <<gitVars, treeVars, opts, calls, userVars, histVars>>

(* The integration went through and its commits count as pulled.           *)
Pulled(r) == /\ Goto(r, IF opts[r].push THEN "ahead" ELSE "finish")
             /\ result' = [result EXCEPT ![r].pulled = @ + result[r].after.behind]

(* Integrate of the system backend: git rebase, or git merge --no-edit.    *)
Integrate(r) ==
    /\ backend = "system" /\ pc[r] = "integrate"
    /\ \/ /\ open.op = "none" /\ branch.base = tracked
          /\ opts[r].strategy = "rebase" => ~Tracked
          /\ Pulled(r) /\ UNCHANGED <<branch, open>>
       \/ /\ open.op = "none" /\ branch.base < tracked
          /\ IF opts[r].strategy = "rebase" THEN ~Tracked ELSE stray = {}
          /\ Pulled(r) /\ UNCHANGED open
          /\ branch' = IF opts[r].strategy = "rebase" \/ branch.own = <<>> THEN Rebased ELSE Joined
       \/ /\ open.op = "none" /\ branch.base < tracked
          /\ Goto(r, "classify") /\ UNCHANGED <<branch, result>>
          /\ \E paths \in (SUBSET Paths) \ {{}} :
                \/ /\ opts[r].strategy = "rebase" /\ ~Tracked
                   /\ \E n \in 0..Len(Replayed) - 1 : open' = Stopped("rebase", n, paths)
                \/ /\ opts[r].strategy = "merge" /\ stray = {} /\ branch.own # <<>>
                   /\ open' = Stopped("merge", 0, paths)
       \/ /\ open.op # "none" \/ Tracked
          /\ Goto(r, "classify") /\ UNCHANGED <<branch, open, result>>
    /\ UNCHANGED <<remote, backend, protected, tracked, treeVars, opts, calls, userVars, histVars>>

(* integrateFailure: what the status says after git failed, which it does  *)
(* not when the context was cancelled.                                     *)
IntegrateFailure(r) ==
    /\ pc[r] = "classify"
    /\ \/ Fail(r, IF open.unmerged # {} THEN "conflict" ELSE "integrate_failed")
       \/ Fail(r, "integrate_failed")
    /\ UNCHANGED <<gitVars, treeVars, opts, calls, userVars, histVars>>

(* Integrate of the go-git backend looks at the tree first ...             *)
GoGitCheck(r) ==
    /\ backend = "go-git" /\ pc[r] = "integrate" /\ Free(Mates(r))
    /\ IF SyncStatus.ahead > 0 THEN Fail(r, "unsupported")
       ELSE IF Tracked THEN Fail(r, "dirty_tree")
       ELSE IF SyncStatus.behind = 0 THEN Pulled(r)
       ELSE Goto(r, "reset") /\ UNCHANGED result
    /\ UNCHANGED <<gitVars, treeVars, opts, calls, userVars, histVars>>

(* ... and then resets branch, index and files onto the upstream.          *)
HardReset(r) ==
    /\ pc[r] = "reset"
    /\ branch' = [base |-> tracked, own |-> <<>>] /\ dirty' = {} /\ staged' = {} /\ stray' = {}
    /\ discarded' = discarded \cup dirty \cup (Range(branch.own) \ Range(remote))
    /\ Pulled(r)
    /\ UNCHANGED <<remote, backend, protected, tracked, open, queued, opts, calls, userVars,
                   saved, began, alone>>

(* push: a branch that is not ahead has nothing to publish.                *)
Ahead(r) ==
    /\ pc[r] = "ahead" /\ Free(Mates(r))
    /\ Reads(r)
    /\ Goto(r, IF SyncStatus.ahead = 0 THEN "finish" ELSE "target")
    /\ UNCHANGED <<gitVars, treeVars, opts, calls, userVars, histVars>>

(* Push reads a status of its own, for the branch it pushes to; a detached *)
(* HEAD has none.                                                          *)
Target(r) ==
    /\ pc[r] = "target" /\ Free(Mates(r))
    /\ IF Detached THEN Fail(r, "push_failed") ELSE Goto(r, "send") /\ Reads(r)
    /\ UNCHANGED <<gitVars, treeVars, opts, calls, userVars, histVars>>

Accepts == ~protected /\ Tip.base = Len(remote)

(* git push: HEAD, whatever it is by now, becomes the remote branch.       *)
Sent == Accepts /\ remote' = remote \o Tip.own

Landed == /\ Sent
          /\ tracked' = Len(remote')
          /\ IF Detached THEN open' = [open EXCEPT !.onto = Len(remote'), !.done = <<>>] /\ UNCHANGED branch
             ELSE branch' = [base |-> Len(remote'), own |-> <<>>] /\ UNCHANGED open

Push(r) ==
    /\ pc[r] = "send" /\ Free(Mates(r))
    /\ Landed
    /\ Goto(r, "finish")
    /\ result' = [result EXCEPT ![r].pushed = @ + result[r].after.ahead]
    /\ UNCHANGED <<backend, protected, treeVars, opts, calls, userVars, histVars>>

(* Mutant: the ladder has no end.                                          *)
GivesUpNever(r) == FALSE

GivesUp(r) == result[r].retries >= MaxRetries

(* A rejected push, for another's commits or by policy, is tried again     *)
(* from the fetch on.                                                      *)
PushRejected(r) ==
    /\ pc[r] = "send" /\ Free(Mates(r)) /\ ~Accepts
    /\ IF GivesUp(r) THEN Fail(r, "push_rejected")
       ELSE /\ result' = [result EXCEPT ![r].retries =
                            IF @ < MaxRetries THEN @ + 1 ELSE @]
            /\ Goto(r, "fetch")
    /\ UNCHANGED <<gitVars, treeVars, opts, calls, userVars, histVars>>

Finish(r) == /\ pc[r] = "finish" /\ Free(Mates(r))
             /\ End(r, "done")
             /\ UNCHANGED <<gitVars, treeVars, opts, calls, userVars, histVars>>

(* The network fails, or the context is cancelled between two calls.       *)
Fails(r) == /\ pc[r] \notin {"idle", "flush", "reset", "classify", "finish"}
            /\ Fail(r, "failed")
            /\ UNCHANGED <<gitVars, treeVars, opts, calls, userVars, histVars>>

(* Cancelling kills the command that runs: a rebase half way, a push that  *)
(* the remote has taken already.                                           *)
Killed(r) ==
    /\ \/ /\ backend = "system" /\ pc[r] = "integrate" /\ opts[r].strategy = "rebase"
          /\ open.op = "none" /\ branch.base < tracked /\ ~Tracked
          /\ \E n \in 0..Len(Replayed) - 1 : open' = Stopped("rebase", n, {})
          /\ UNCHANGED <<remote, tracked, branch>>
       \/ /\ pc[r] = "send" /\ Free(Mates(r))
          /\ Sent /\ UNCHANGED <<tracked, branch, open>>
    /\ Fail(r, "failed")
    /\ UNCHANGED <<backend, protected, treeVars, opts, calls, userVars, histVars>>

(***************************************************************************)
(* The user: resolve, continue, abort.                                     *)
(***************************************************************************)
Called(u) == /\ calls[u] < MaxCalls
             /\ calls' = [calls EXCEPT ![u] = @ + 1]
             /\ Disturbs(u)

(* ResolvePath, and before it ConflictFile: the path is still conflicted.  *)
Resolve(u, p) ==
    /\ at[u] = "idle" /\ Called(u)
    /\ p \in open.unmerged
    /\ picked' = [picked EXCEPT ![u] = {p}] /\ at' = [at EXCEPT ![u] = "write"]
    /\ UNCHANGED <<gitVars, treeVars, runVars, saved, discarded, began>>

(* writeResolution: the file is written and staged, conflicted or not, and *)
(* the rest is done when the caller asked for it.                          *)
WriteResolution(u) ==
    /\ at[u] = "write"
    /\ IF open.op # "none"
       THEN open' = [open EXCEPT !.unmerged = @ \ picked[u]] /\ UNCHANGED stray
       ELSE stray' = stray \cup picked[u] /\ UNCHANGED open
    /\ picked' = [picked EXCEPT ![u] = {}]
    /\ at' = [at EXCEPT ![u] = IF open'.unmerged = {} THEN "resume" ELSE "idle"]
    /\ UNCHANGED <<remote, backend, protected, tracked, branch, dirty, staged, queued, runVars, calls, histVars>>

(* Mutant: the rebase goes on behind the commit that conflicted.           *)
RestSkipped == Tail(open.todo)

(* The commit the rebase stopped at, with the resolution of its conflict.  *)
Rest == open.todo

(* rebase --continue refuses unstaged edits; it replays the rest, which    *)
(* may conflict again.                                                     *)
ContinueRebase ==
    /\ open.op = "rebase" /\ dirty = {}
    /\ \/ /\ branch' = [base |-> open.onto, own |-> open.done \o Rest]
          /\ open' = Settled
       \/ /\ \E n \in 1..Len(open.todo) - 1, paths \in (SUBSET Paths) \ {{}} :
                open' = [open EXCEPT !.done = @ \o SubSeq(Rest, 1, n),
                                     !.todo = SubSeq(Rest, n + 1, Len(Rest)),
                                     !.unmerged = paths]
          /\ UNCHANGED branch
    /\ UNCHANGED <<dirty, staged>>

(* merge --continue commits what is in the index.                          *)
ContinueMerge ==
    /\ open.op = "merge"
    /\ branch' = [base |-> IF open.onto > branch.base THEN open.onto ELSE branch.base,
                  own  |-> branch.own \o SetToSeq(staged) \o <<Merge>>]
    /\ open' = Settled
    /\ dirty' = dirty \ staged /\ staged' = {}

(* Resume, called by resolve or by gintrack sync --continue: an error      *)
(* leaves everything as it is.                                             *)
Resumes(u) ==
    \/ open.unmerged = {} /\ (ContinueRebase \/ ContinueMerge)
    \/ /\ \/ open.op = "none" \/ open.unmerged # {} \/ (open.op = "rebase" /\ dirty # {})
       /\ UNCHANGED <<branch, open, dirty, staged>>

Resume(u) ==
    /\ \/ /\ at[u] = "resume" /\ UNCHANGED <<calls, alone>>
          /\ at' = [at EXCEPT ![u] = "idle"]
       \/ Called(u) /\ open.op # "none" /\ UNCHANGED at
    /\ Resumes(u)
    /\ UNCHANGED <<remote, backend, protected, tracked, stray, queued, runVars, picked, saved, discarded, began>>

(* Undo: rebase --abort resets the tree to the branch, merge --abort what  *)
(* is staged.                                                              *)
Undo(u) ==
    /\ Called(u) /\ open.op # "none"
    /\ open' = Settled
    /\ dirty' = IF Detached THEN {} ELSE dirty \ staged
    /\ staged' = {} /\ stray' = IF Detached THEN {} ELSE stray
    /\ discarded' = discarded \cup (dirty \ dirty')
                              \cup (Range(open.done) \ (Range(branch.own) \cup Range(remote)))
    /\ UNCHANGED <<remote, backend, protected, tracked, branch, queued, runVars, userVars, saved, began>>

Run(r) == \/ Flushed(r) \/ Preflight(r) \/ Fetch(r) \/ Status(r) \/ Integrate(r)
          \/ IntegrateFailure(r) \/ GoGitCheck(r) \/ HardReset(r) \/ Ahead(r) \/ Target(r)
          \/ Push(r) \/ PushRejected(r) \/ Finish(r)

Next == \/ \E e \in Edits : Save(e) \/ CommitOnSave(e) \/ CommitPath(e)
        \/ \E o \in Others : Publish(o)
        \/ \E r \in Runs : Sync(r) \/ Run(r) \/ Fails(r) \/ Killed(r)
        \/ \E u \in Users : \/ \E p \in Paths : Resolve(u, p)
                            \/ WriteResolution(u) \/ Resume(u) \/ Undo(u)

Spec == Init /\ [][Next]_vars

(* A goroutine that can go on goes on, and a debounce timer fires.         *)
FairSpec == /\ Spec
            /\ \A r \in Runs : WF_vars(Run(r))
            /\ \A e \in Edits : WF_vars(CommitOnSave(e))

(***************************************************************************)
(* Properties.                                                             *)
(***************************************************************************)
Changes == Edits \cup Others \cup {Merge}
Branches == [base : Nat, own : Seq(Changes)]

(* The shape of the state (gitops/sync.go, SyncStatus and SyncResult).     *)
TypeOK ==
    /\ remote \in Seq(Changes) /\ protected \in BOOLEAN
    /\ tracked \in 0..Len(remote) /\ branch \in Branches /\ branch.base <= tracked
    /\ open \in [op : {"none", "rebase", "merge"}, onto : 0..tracked, done : Seq(Changes),
                 todo : Seq(Changes), unmerged : SUBSET Paths]
    /\ open.op = "none" => open = Settled
    /\ dirty \subseteq saved /\ saved \subseteq Edits /\ staged \subseteq dirty
    /\ queued \subseteq saved /\ stray \subseteq Paths
    /\ \A r \in Runs : /\ result[r].retries \in 0..MaxRetries
                       /\ result[r].after \in [ahead : Nat, behind : Nat]
                       /\ began[r] \in Branches
                       /\ pc[r] = "idle" \/ result[r].phase = "none"
    /\ \A u \in Users : (at[u] = "write") = (picked[u] # {})

(* Nothing that was saved is ever lost: it is in the working tree, on the  *)
(* branch, in the integration that is stopped or on the remote, unless     *)
(* Undo, or the hard reset of the go-git backend, threw it away (sync.go:  *)
(* "Nothing here is destructive").                                         *)
NothingLost ==
    saved \subseteq dirty \cup discarded \cup Range(remote) \cup Range(branch.own)
                    \cup Range(open.done) \cup Range(open.todo)

(* A run that was asked to push and reports that it is done has published  *)
(* every commit the branch had when the run started, when nobody synced,   *)
(* resolved or aborted meanwhile.                                          *)
DonePublished ==
    \A r \in Runs :
       result[r].phase = "done" /\ opts[r].push /\ ~opts[r].dry /\ alone[r]
         => Range(began[r].own) \ {Merge} \subseteq Range(remote)

(* What a run reports as pulled and pushed it has really moved: the part   *)
(* of the remote branch that the clone has grew by as much at least, when  *)
(* nobody synced, resolved or aborted meanwhile.                           *)
NothingOverstated ==
    \A r \in Runs :
       result[r].phase = "done" /\ alone[r]
         => result[r].pulled + result[r].pushed <= branch.base - began[r].base

(* What a run reports is true of the repository.                           *)
ReportsAreTrue == DonePublished /\ NothingOverstated

(* The remote branch only grows: what somebody published nobody takes back *)
(* (docs/06-git-sync.md section 4.2, "We never force-push automatically"). *)
RemoteOnlyGrows == [][IsPrefix(remote, remote')]_vars

(* Every run ends, however often its push is rejected.                     *)
RunsEnd == \A r \in Runs : pc[r] # "idle" ~> pc[r] = "idle"

(***************************************************************************)
(* What the words say and the code does not do (README, section 6).        *)
(***************************************************************************)
(* An aborted integration takes no save with it.                           *)
UndoKeepsSaves == discarded = {}

(* Nothing of a rebase that is stopped is pushed.                          *)
NothingPushedHalfway ==
    [][Detached => Range(remote') \ Range(remote) \subseteq Others]_vars

(* A run is done only when its commits are published, whoever else syncs.  *)
DoneMeansPublished ==
    \A r \in Runs :
       result[r].phase = "done" /\ opts[r].push /\ ~opts[r].dry
         => Range(began[r].own) \ {Merge} \subseteq Range(remote) \cup discarded

(* An integration that is reported as failed, and not as conflicted, left  *)
(* the repository as git found it.                                         *)
LeftAsFound ==
    [][\A r \in Runs : pc[r] = "classify" /\ pc'[r] = "idle" /\ result'[r].phase = "failed"
                          => open.op = "none"]_vars
==============================================================================
