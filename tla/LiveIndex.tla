----------------------------- MODULE LiveIndex -----------------------------
(***************************************************************************)
(* The live index of one repository: the files on disk, the watcher, the   *)
(* server's watch loop (internal/server/watch.go), and the index it keeps  *)
(* (internal/core/index.go, freshness.go) behind the mutex of the vault.   *)
(*                                                                         *)
(* The index has two halves: primary is what was read from each file, and  *)
(* derived what the lookups by id, the lists and the boards are answered   *)
(* from, which rebuild computes from primary.  An index entry is the edit  *)
(* the file was read at.  The times of files have a second's resolution    *)
(* there, so a second edit of the same size within that second is a twin   *)
(* of the entry: comparing size and time does not tell them apart.         *)
(***************************************************************************)
EXTENDS Watcher

CONSTANTS Pages,    \* pages of the knowledge base; the other paths are items
          MaxEdits  \* bound: edits of the tree

ASSUME LiveIndexAssumption == Pages \subseteq Paths /\ MaxEdits \in Nat \ {0}

VARIABLES primary,  \* Index.itemsByPath, pagesByPath and files
          derived,  \* Index.byID, lists and counts
          consumer, \* watchLoop: "idle", "applying", "gone"
          taken,    \* the batch it is applying
          twins,    \* files that changed and kept the size and time of their entry
          edits,    \* bound: edits so far
          lost,     \* history: paths whose last change nobody will report
          voided,   \* history: paths whose report mergeOps cancelled
          failed    \* history: a batch failed after it had been read in part

indexVars == <<primary, derived, failed>>
loopVars == <<consumer, taken>>
excuses == <<lost, voided>>
vars == <<disk, watcherVars, indexVars, loopVars, twins, edits, excuses>>

(* The index is built before the watcher starts.                           *)
Init == /\ disk \in {d \in [Paths -> {0, 1}] : \A p \in Nested : d[p] = 0}
        /\ WatcherInit
        /\ primary = disk /\ derived = disk /\ failed = FALSE
        /\ consumer = "idle" /\ taken = Nothing
        /\ twins = {} /\ edits = 1 /\ lost = {} /\ voided = {}

-----------------------------------------------------------------------------
(* Somebody changes the tree.                                              *)

(* A change of the tree and the raw events it causes.                      *)
Change(now, raw) ==
    /\ edits < MaxEdits /\ edits' = edits + 1
    /\ disk' = now
    /\ Raise(raw)
    /\ UNCHANGED <<dir, watching, degraded, snap, pending, timer, age, loop, batch, events, closed>>

(* Of the paths a change is about, those the index will hear of: the       *)
(* kernel queued an event, the next poll sees it, or it is a file that     *)
(* will be listed when its new directory is adopted.                       *)
WillHear(p, now, raw) ==
    \/ p \in PathsOf(Noted(raw))
    \/ watching /\ degraded /\ snap[p] # now[p]
    \/ /\ p \in Nested /\ dir = "made" /\ now[p] # 0
       /\ \E i \in DOMAIN kernel : kernel[i].op = "mkdir"

Reported(now, raw) ==
    LET changed == PathsOf(raw)
        heard == {p \in changed : WillHear(p, now, raw)}
    IN  /\ lost' = (lost \ heard) \cup (changed \ heard)
        /\ voided' = voided \ changed

(* A change behind the back of the vault.                                  *)
External(now, raw) == /\ Change(now, raw) /\ Reported(now, raw)
                      /\ UNCHANGED <<indexVars, loopVars>>

Placed(p) == p \in Nested => dir # "absent"

(* An editor writes the file, in place or by a rename into place.          *)
Edit(p, op, same) ==
    /\ Placed(p)
    /\ op = "write" => disk[p] # 0
    /\ same => disk[p] # 0 /\ (disk[p] = primary[p] \/ p \in twins)
    /\ External([disk EXCEPT ![p] = edits + 1], <<Ev(p, op)>>)
    /\ twins' = IF same THEN twins \cup {p} ELSE twins \ {p}

Delete(p) ==
    /\ disk[p] # 0
    /\ External([disk EXCEPT ![p] = 0], <<Ev(p, "remove")>>)
    /\ twins' = twins \ {p}

Rename(p, q) ==
    /\ disk[p] # 0 /\ p # q /\ Placed(q)
    /\ External([disk EXCEPT ![p] = 0, ![q] = disk[p]], <<Ev(p, "rename"), Ev(q, "create")>>)
    /\ twins' = twins \ {p, q}

(* Metadata only: mode or owner.                                           *)
Touch(p) ==
    /\ disk[p] # 0 /\ Noted(<<Ev(p, "chmod")>>) # <<>>
    /\ Change(disk, <<Ev(p, "chmod")>>)
    /\ UNCHANGED <<indexVars, loopVars, twins, excuses>>

MakeDir ==
    /\ dir = "absent"
    /\ dir' = "made"
    /\ LET heard == watching /\ ~degraded /\ ~closed /\ Len(kernel) < KernelQueue
       IN  kernel' = IF heard THEN Append(kernel, Ev("dir", "mkdir")) ELSE kernel
    /\ UNCHANGED <<disk, watching, degraded, snap, pending, timer, age, loop, batch, events, closed,
                   indexVars, loopVars, twins, edits, excuses>>

-----------------------------------------------------------------------------
(* The watcher, with what each step does to the news it carries.           *)

Watch(step, l, v) ==
    /\ step
    /\ lost' = l /\ voided' = v
    /\ UNCHANGED <<indexVars, loopVars, twins, edits>>

(* Files of a directory whose mkdir event is in the queue count as queued. *)
Queued == {p \in Paths : \/ p \in PathsOf(kernel)
                          \/ (p \in Nested /\ dir = "made" /\ disk[p] # primary[p])}

Running ==
    \/ Watch(kernel # <<>> /\ Handle, lost, voided \cup Cancelled(pending, News))
    \/ Watch(Degrade, lost \cup Queued, voided)
    \/ Watch(PollOnce, lost, voided \cup Cancelled(pending, Differences))
    \/ Watch(Fire \/ Send \/ Leave \/ Tick, lost, voided)

Toggled == Watch(StartWatch \/ Close, lost, voided)

-----------------------------------------------------------------------------
(* The index.                                                              *)

(* Mutant: a file that is gone keeps its entry.                            *)
ReloadKeeps(entry, p) == IF disk[p] = 0 THEN entry ELSE [entry EXCEPT ![p] = disk[p]]

(* reload and the load functions: the file is read again, and forgotten    *)
(* when it is gone.                                                        *)
Reload(entry, p) == [entry EXCEPT ![p] = disk[p]]

(* A batch, as ToFileEvents turns it over to ApplyFileEvents, file by file.*)
(* The pair of a rename and a create becomes one event that forgets the    *)
(* old path and reads the new one, which is what the two do one by one.    *)
Folded(b) == [p \in Paths |-> IF b[p] = "none" THEN primary[p]
                              ELSE IF b[p] \in Gone THEN 0 ELSE Reload(primary, p)[p]]

(* rebuild: every pass that ends well computes the derived half anew.      *)
Indexed(entry) == /\ primary' = entry /\ derived' = entry
                  /\ failed' = FALSE
                  /\ twins' = {p \in twins : entry[p] # disk[p]}

(* An entry that is right and that no old news will overwrite is settled.  *)
Settle(entry, news) ==
    LET right == {p \in Paths : entry[p] = disk[p] /\ ~Underway(p) /\ news[p] = "none"}
    IN  lost' = lost \ right /\ voided' = voided \ right

StillTree == UNCHANGED <<disk, watcherVars, edits>>

(* watchLoop receives a batch; applyBatch has yet to take the lock.        *)
Take == /\ consumer = "idle" /\ events # <<>>
        /\ taken' = Head(events)
        /\ events' = Tail(events)
        /\ consumer' = "applying"
        /\ UNCHANGED <<disk, dir, kernel, watching, degraded, snap, pending, timer, age, loop,
                       batch, closed, indexVars, twins, edits, excuses>>

Apply == /\ consumer = "applying"
         /\ Indexed(Folded(taken)) /\ Settle(Folded(taken), Nothing)
         /\ taken' = Nothing /\ consumer' = "idle"
         /\ StillTree

(* ApplyFileEvents returns at the first file it cannot read: what came     *)
(* before is in the primary half, rebuild is not reached, and applyBatch   *)
(* logs the error and goes on with the next batch.  What came before the   *)
(* file may be any part of the batch.                                      *)
ApplyFails(p, part) ==
    /\ consumer = "applying"
    /\ disk[p] # 0 /\ taken[p] \notin {"none"} \cup Gone /\ p \notin part
    /\ primary' = Folded([q \in Paths |-> IF q \in part THEN taken[q] ELSE "none"])
    /\ failed' = TRUE
    /\ twins' = {q \in twins : primary'[q] # disk[q]}
    /\ lost' = lost \cup In(taken)
    /\ taken' = Nothing /\ consumer' = "idle"
    /\ StillTree /\ UNCHANGED <<derived, voided>>

(* The loop ends with the server's context or with the channel.            *)
Quit == /\ consumer = "idle" /\ watching
        /\ consumer' = "gone"
        /\ UNCHANGED <<disk, watcherVars, indexVars, taken, twins, edits, excuses>>

(* staleLocked compares the file with its entry, size and time.            *)
Stale(p) == primary[p] # disk[p] /\ p \notin twins

(* freshen reads a page, or an item the index knows.                       *)
Readable(p) == p \in Pages \/ derived[p] # 0

Freshen(p) == /\ Readable(p) /\ Stale(p)
              /\ Indexed(Reload(primary, p)) /\ Settle(Reload(primary, p), taken)
              /\ StillTree /\ UNCHANGED loopVars

(* Reload, behind POST reindex.                                            *)
Reindex == /\ <<primary, derived>> # <<disk, disk>>
           /\ Indexed(disk) /\ Settle(disk, taken)
           /\ StillTree /\ UNCHANGED loopVars

(* An operation of the vault writes or deletes the file, and commit folds  *)
(* it into the index before the lock is released.                          *)
Vault(p, file, op) ==
    LET now == [disk EXCEPT ![p] = file]
        entry == [primary EXCEPT ![p] = file]
    IN  /\ Change(now, <<Ev(p, op)>>) /\ Reported(now, <<Ev(p, op)>>)
        /\ primary' = entry /\ derived' = entry /\ failed' = FALSE
        /\ twins' = twins \ {p}
        /\ UNCHANGED loopVars

VaultWrite(p) == Placed(p) /\ Vault(p, edits + 1, "create")
VaultDelete(p) == primary[p] # 0 /\ disk[p] # 0 /\ Vault(p, 0, "remove")

-----------------------------------------------------------------------------
Tree == \/ \E p \in Paths : Delete(p) \/ Touch(p) \/ VaultWrite(p) \/ VaultDelete(p)
        \/ \E p \in Paths, op \in {"create", "write"}, same \in BOOLEAN : Edit(p, op, same)
        \/ \E p, q \in Paths : Rename(p, q)
        \/ MakeDir

Next == \/ Tree \/ Running \/ Toggled \/ Take \/ Apply \/ Quit \/ Reindex
        \/ \E p \in Paths, part \in SUBSET In(taken) : ApplyFails(p, part)
        \/ \E p \in Paths : Freshen(p)

Spec == Init /\ [][Next]_vars

(* The run goroutine and the loop go on while they have something to do,   *)
(* and time passes.  Nobody has to read a page, reindex or close.          *)
FairSpec == Spec /\ WF_vars(Running) /\ WF_vars(Take \/ Apply)

-----------------------------------------------------------------------------
TypeOK == /\ WatcherTypeOK
          /\ \A f \in {disk, snap, primary, derived} : f \in [Paths -> 0..MaxEdits]
          /\ consumer \in {"idle", "applying", "gone"} /\ taken \in Batches
          /\ (consumer = "applying") = (taken # Nothing)
          /\ twins \subseteq {p \in Paths : primary[p] # disk[p]}
          /\ edits \in 1..MaxEdits /\ lost \cup voided \subseteq Paths /\ failed \in BOOLEAN

(* What a read of the path answers: freshen first, then the lookup.        *)
Answer(p) == IF Readable(p) /\ Stale(p) THEN Reload(primary, p)[p]
             ELSE IF p \in Pages THEN primary[p] ELSE derived[p]

Expected(p) == Underway(p) \/ p \in In(taken)

(* A file the index is wrong about is one the consumer will hear of, but   *)
(* for four losses the code has no answer to before the next full build:   *)
(* a change nobody watched or the kernel dropped, the queue and batches    *)
(* that go with a degradation or a failed pass, and a report mergeOps      *)
(* cancelled.  Nothing else falls between the disk, the buffer, the batch  *)
(* in flight, the channel and the two halves of the index.                 *)
NothingFallsBetween ==
    \A p \in Paths : primary[p] # disk[p] /\ ~closed => Expected(p) \/ p \in lost \cup voided

(* After any pass that ended well the two halves of the index agree, and   *)
(* "A person must not be left looking at a stale task" (freshness.go:15):  *)
(* a read of an item the index knows, or of any page, answers what the     *)
(* disk holds, whatever the watcher missed, unless the file is a twin of   *)
(* its entry or the last pass broke off.                                   *)
ReadsAreFresh ==
    ~failed => /\ derived = primary
               /\ \A p \in Paths : Readable(p) /\ p \notin twins => Answer(p) = disk[p]

(* The same without the excuse of a pass that broke off.                   *)
ReadsAreAlwaysFresh == \A p \in Paths : Readable(p) /\ p \notin twins => Answer(p) = disk[p]

(* The same without the excuse of a twin.                                  *)
ReadsSeeTwins == \A p \in Paths : Readable(p) /\ ~failed => Answer(p) = disk[p]

(* A file that was deleted leaves the index, unless its events were lost:  *)
(* "the watcher reconciles by hashing content rather than trusting the op  *)
(* name" (docs/07-cli-and-api.md:5331).                                    *)
NoGhosts == \A p \in Paths : primary[p] # 0 /\ disk[p] = 0 /\ ~closed => Expected(p) \/ p \in lost

(* Lists and boards follow the disk: what the index is wrong about it is   *)
(* soon right about, while somebody watches and reads the batches.  Close  *)
(* comes back also while a batch waits for a consumer that stopped reading:*)
(* the run loop ends.                                                      *)
IndexFollows ==
    /\ \A p \in Paths :
           (primary[p] # disk[p]) ~> \/ primary[p] = disk[p] \/ p \in lost \cup voided
                                    \/ closed \/ consumer = "gone"
    /\ closed ~> loop = "gone"
=============================================================================
