--------------------------- MODULE LiveViewProofs ---------------------------
(***************************************************************************)
(* What a browser tab sees is as current as two chains that have nothing   *)
(* in common but the server they run in, proved about one after the other: *)
(*   - the live index: what it is wrong about is on its way to it, or is   *)
(*     one of the losses the code has no answer to, and a read that        *)
(*     freshens first answers what the disk holds.  The inductive          *)
(*     invariant adds that old news that a file is gone never stand last   *)
(*     while the file is there;                                            *)
(*   - the event stream: what was published and the tab does not know of   *)
(*     is with a publisher, in a queue, or asked for.                      *)
(***************************************************************************)
EXTENDS LiveIndex, EventStream, SequenceTheorems, TLAPS

-----------------------------------------------------------------------------
(* THE LIVE INDEX                                                          *)
-----------------------------------------------------------------------------
(* News that have a file read again.                                       *)
Back == {"create", "write"}

(* What the tree, the watcher and the loop keep in step.                   *)
Flow == /\ {disk, snap, primary, derived} \subseteq [Paths -> 0..edits]
        /\ timer # Stopped => age + timer <= MaxWindow
        /\ ~watching \/ degraded => kernel = <<>>
        /\ degraded => watching
        /\ \A p \in Nested : dir # "watched" =>
              /\ p \notin PathsOf(kernel)
              /\ degraded \/ (/\ "none" = pending[p] /\ "none" = batch[p] /\ "none" = taken[p]
                              /\ \A i \in DOMAIN events : events[i][p] = "none")

(* The next poll finds the file changed; a new directory with it is listed.*)
Polling(p) == watching /\ degraded /\ snap[p] # disk[p]
Listing(p) == /\ p \in Nested /\ dir = "made" /\ disk[p] # 0
              /\ \E i \in DOMAIN kernel : kernel[i].op = "mkdir"

(* After a stage comes an event that has the file read again.              *)
Returns(p, i) == kernel[i].path = p /\ kernel[i].op \in Back
AfterBuffer(p) == \E j \in DOMAIN kernel : Returns(p, j)
AfterBatch(p) == AfterBuffer(p) \/ pending[p] \in Back
AfterSent(p) == AfterBatch(p) \/ batch[p] \in Back

(* Old news that a file is gone are followed by news that it is back.      *)
QueueTrue(p) == \A i \in DOMAIN kernel : kernel[i].path = p /\ kernel[i].op \in Gone =>
                   \E j \in DOMAIN kernel : j > i /\ Returns(p, j)
BufferTrue(p) == pending[p] \in Gone => AfterBuffer(p)
BatchTrue(p) == batch[p] \in Gone => AfterBatch(p)
SentTrue(p) == \A i \in DOMAIN events : events[i][p] \in Gone =>
                  AfterSent(p) \/ \E j \in DOMAIN events : j > i /\ events[j][p] \in Back
TakenTrue(p) == taken[p] \in Gone =>
                  AfterSent(p) \/ \E j \in DOMAIN events : events[j][p] \in Back

Ordered(p) == QueueTrue(p) /\ BufferTrue(p) /\ BatchTrue(p) /\ SentTrue(p) /\ TakenTrue(p)

OldNews == ~closed => \A p \in Paths :
    disk[p] # 0 /\ p \notin lost \cup voided /\ ~Polling(p) /\ ~Listing(p) => Ordered(p)

LInv == TypeOK /\ Flow /\ OldNews /\ NothingFallsBetween /\ ReadsAreFresh

-----------------------------------------------------------------------------
(* Raw events and the queue.                                               *)
LEMMA EvIs ==
  ASSUME NEW p, NEW op
  PROVE  Ev(p, op).path = p /\ Ev(p, op).op = op /\ (p \in Paths /\ op \in Ops => Ev(p, op) \in Raws)
BY DEF Ev, Raws

LEMMA RawIs ==
  ASSUME NEW e \in Raws
  PROVE  \/ e.path \in Paths /\ e.op \in Ops /\ e.op # "mkdir"
         \/ e.path = "dir" /\ e.op = "mkdir" /\ e.path \notin Paths
BY WatcherAssumption DEF Raws, Ev, Ops

(* The queue gets the events of a change that somebody listens to.         *)
LEMMA NotedIs ==
  ASSUME NEW raw \in Seq(Raws), Len(raw) \in {1, 2}, kernel \in Seq(Raws), Len(kernel) <= KernelQueue
  PROVE  /\ Noted(raw) \in Seq(Raws) /\ Len(kernel) + Len(Noted(raw)) <= KernelQueue
         /\ \A i \in 1..Len(Noted(raw)) : /\ \E k \in 1..Len(raw) : Noted(raw)[i] = raw[k]
                                          /\ Heard(Noted(raw)[i].path)
<1> DEFINE heard == IF Len(raw) = 1 THEN Listened(raw[1]) ELSE Listened(raw[1]) \o Listened(raw[2])
<1>1. Len(raw) = 1 \/ Len(raw) = 2
  OBVIOUS
<1>2. \A e \in Raws : /\ Listened(e) \in Seq(Raws) /\ Len(Listened(e)) \in {0, 1}
                      /\ \A i \in 1..Len(Listened(e)) : Listened(e)[i] = e /\ Heard(e.path)
  BY DEF Listened
<1>3. 1 \in 1..Len(raw) /\ raw[1] \in Raws /\ (Len(raw) = 2 => 2 \in 1..Len(raw) /\ raw[2] \in Raws)
  BY <1>1
<1>4. /\ heard \in Seq(Raws)
      /\ \A i \in 1..Len(heard) : /\ \E k \in 1..Len(raw) : heard[i] = raw[k]
                                  /\ Heard(heard[i].path)
  <2>1. CASE Len(raw) = 1
    BY <1>2, <1>3, <2>1
  <2>2. CASE Len(raw) # 1
    <3> DEFINE s == Listened(raw[1])
               t == Listened(raw[2])
    <3>1. Len(raw) = 2 /\ heard = s \o t
      BY <1>1, <2>2
    <3>2. /\ s \in Seq(Raws) /\ t \in Seq(Raws)
          /\ \A i \in 1..Len(s) : s[i] = raw[1] /\ Heard(raw[1].path)
          /\ \A i \in 1..Len(t) : t[i] = raw[2] /\ Heard(raw[2].path)
      BY <1>2, <1>3, <3>1
    <3> HIDE DEF s, t, heard
    <3>3. /\ s \o t \in Seq(Raws) /\ Len(s \o t) = Len(s) + Len(t)
          /\ \A i \in 1..Len(s) + Len(t) : (s \o t)[i] = IF i <= Len(s) THEN s[i] ELSE t[i - Len(s)]
      BY <3>2, ConcatProperties
    <3>4. ASSUME NEW i \in 1..Len(s \o t)
          PROVE  /\ \E k \in 1..Len(raw) : (s \o t)[i] = raw[k]
                 /\ Heard((s \o t)[i].path)
      <4>1. CASE i <= Len(s)
        BY <1>3, <3>2, <3>3, <4>1
      <4>2. CASE ~(i <= Len(s))
        <5>1. i - Len(s) \in 1..Len(t)
          BY <3>2, <3>3, <4>2
        <5>2. (s \o t)[i] = raw[2] /\ Heard(raw[2].path)
          BY <3>2, <3>3, <4>2, <5>1
        <5> QED
          BY <1>3, <3>1, <5>2
      <4> QED
        BY <4>1, <4>2
    <3> QED
      BY <3>1, <3>3, <3>4
  <2> QED
    BY <2>1, <2>2
<1>5. Noted(raw) = IF Len(kernel) + Len(heard) <= KernelQueue THEN heard ELSE <<>>
  BY DEF Noted
<1> HIDE DEF heard
<1>6. CASE Len(kernel) + Len(heard) <= KernelQueue
  BY <1>4, <1>5, <1>6
<1>7. CASE ~(Len(kernel) + Len(heard) <= KernelQueue)
  <2>1. Noted(raw) = <<>> /\ Len(<<>>) = 0 /\ <<>> \in Seq(Raws)
    BY <1>5, <1>7
  <2> QED
    BY <2>1
<1> QED
  BY <1>6, <1>7

(* The queue has grown: what is new in it stands behind what was there.    *)
Grown == /\ kernel \in Seq(Raws) /\ kernel' \in Seq(Raws) /\ Len(kernel) <= Len(kernel')
         /\ \A i \in 1..Len(kernel) : kernel'[i] = kernel[i]
Fresh == {i \in 1..Len(kernel') : i > Len(kernel)}

LEMMA RaisedIs ==
  ASSUME NEW raw \in Seq(Raws), Len(raw) \in {1, 2}, kernel \in Seq(Raws), Len(kernel) <= KernelQueue,
         Raise(raw)
  PROVE  /\ Grown /\ Len(kernel') <= KernelQueue
         /\ \A i \in Fresh : (\E k \in 1..Len(raw) : kernel'[i] = raw[k]) /\ Heard(kernel'[i].path)
         /\ \A p \in PathsOf(Noted(raw)) : \E i \in Fresh : kernel'[i].path = p
<1> DEFINE t == Noted(raw)
<1>1. /\ t \in Seq(Raws) /\ Len(kernel) + Len(t) <= KernelQueue
      /\ \A i \in 1..Len(t) : (\E k \in 1..Len(raw) : t[i] = raw[k]) /\ Heard(t[i].path)
  BY NotedIs
<1>2. kernel' = kernel \o t
  BY DEF Raise
<1> HIDE DEF t
<1>3. /\ kernel \o t \in Seq(Raws) /\ Len(kernel \o t) = Len(kernel) + Len(t)
      /\ \A i \in 1..Len(kernel) + Len(t) :
            (kernel \o t)[i] = IF i <= Len(kernel) THEN kernel[i] ELSE t[i - Len(kernel)]
  BY <1>1, ConcatProperties
<1>4. /\ Len(kernel) \in Nat /\ Len(t) \in Nat /\ Len(kernel') = Len(kernel) + Len(t)
      /\ DOMAIN t = 1..Len(t)
  BY <1>1, <1>2, <1>3
<1>5. Grown /\ Len(kernel') <= KernelQueue
  BY <1>1, <1>2, <1>3, <1>4 DEF Grown
<1>6. \A i \in Fresh : i - Len(kernel) \in 1..Len(t) /\ kernel'[i] = t[i - Len(kernel)]
  BY <1>2, <1>3, <1>4 DEF Fresh
<1>7. \A k \in 1..Len(t) : k + Len(kernel) \in Fresh /\ kernel'[k + Len(kernel)] = t[k]
  <2> SUFFICES ASSUME NEW k \in 1..Len(t)
               PROVE  k + Len(kernel) \in Fresh /\ kernel'[k + Len(kernel)] = t[k]
    OBVIOUS
  <2>1. k + Len(kernel) \in Fresh
    BY <1>4 DEF Fresh
  <2>2. (k + Len(kernel)) - Len(kernel) = k
    BY <1>4
  <2> QED
    BY <1>6, <2>1, <2>2
<1>8. \A p \in PathsOf(t) : \E i \in Fresh : kernel'[i].path = p
  BY <1>4, <1>7 DEF PathsOf
<1> QED
  BY <1>1, <1>5, <1>6, <1>8 DEF t

(* What a grown queue holds.                                               *)
LEMMA GrownHas ==
  ASSUME Grown
  PROVE  /\ \A i \in DOMAIN kernel : i \in DOMAIN kernel' /\ kernel'[i] = kernel[i]
         /\ \A i \in DOMAIN kernel' : i \in DOMAIN kernel \/ i \in Fresh
         /\ \A i \in Fresh : i \in DOMAIN kernel' /\ \A k \in DOMAIN kernel : i > k
         /\ PathsOf(kernel)' = PathsOf(kernel) \cup {kernel'[i].path : i \in Fresh}
         /\ (\E i \in DOMAIN kernel : kernel[i].op = "mkdir")
               => \E i \in DOMAIN kernel' : kernel'[i].op = "mkdir"
<1>1. /\ DOMAIN kernel = 1..Len(kernel) /\ DOMAIN kernel' = 1..Len(kernel')
      /\ Len(kernel) \in Nat /\ Len(kernel') \in Nat /\ Len(kernel) <= Len(kernel')
  BY DEF Grown
<1>2. \A i \in DOMAIN kernel : i \in DOMAIN kernel' /\ kernel'[i] = kernel[i]
  BY <1>1 DEF Grown
<1>3. \A i \in DOMAIN kernel' : i \in DOMAIN kernel \/ i \in Fresh
  BY <1>1 DEF Fresh
<1>4. \A i \in Fresh : i \in DOMAIN kernel' /\ \A k \in DOMAIN kernel : i > k
  BY <1>1 DEF Fresh
<1>5. PathsOf(kernel)' = PathsOf(kernel) \cup {kernel'[i].path : i \in Fresh}
  BY <1>2, <1>3, <1>4 DEF PathsOf
<1> QED
  BY <1>2, <1>3, <1>4, <1>5

(* The watcher takes the first event of the queue.                         *)
LEMMA PoppedIs ==
  ASSUME kernel \in Seq(Raws), kernel # <<>>, kernel' = Tail(kernel)
  PROVE  /\ kernel' \in Seq(Raws) /\ Len(kernel') = Len(kernel) - 1 /\ Len(kernel) \in Nat \ {0}
         /\ Head(kernel) \in Raws
         /\ \A i \in DOMAIN kernel : \/ kernel[i] = Head(kernel) /\ i = 1
                                     \/ i - 1 \in DOMAIN kernel' /\ kernel'[i - 1] = kernel[i]
         /\ \A i \in DOMAIN kernel' : i + 1 \in DOMAIN kernel /\ kernel[i + 1] = kernel'[i]
         /\ 1 \in DOMAIN kernel /\ kernel[1] = Head(kernel)
<1>1. /\ Tail(kernel) \in Seq(Raws) /\ Len(Tail(kernel)) = Len(kernel) - 1
      /\ Len(kernel) \in Nat \ {0} /\ Head(kernel) = kernel[1]
      /\ \A i \in 1..(Len(kernel) - 1) : Tail(kernel)[i] = kernel[i + 1]
  OBVIOUS
<1>2. DOMAIN kernel = 1..Len(kernel) /\ DOMAIN kernel' = 1..(Len(kernel) - 1)
  BY <1>1
<1>3. \A i \in 1..Len(kernel) : i = 1 \/ (i - 1 \in 1..(Len(kernel) - 1) /\ (i - 1) + 1 = i)
  BY <1>1
<1>4. \A i \in 1..(Len(kernel) - 1) : i + 1 \in 1..Len(kernel)
  BY <1>1
<1> QED
  BY <1>1, <1>2, <1>3, <1>4

-----------------------------------------------------------------------------
(* mergeOps and the buffer.                                                *)
LEMMA NothingIs == Nothing \in Batches /\ In(Nothing) = {} /\ \A p \in Paths : Nothing[p] = "none"
BY DEF Nothing, Batches, In

LEMMA MergeIs ==
  ASSUME NEW old \in Ops, NEW new \in Ops
  PROVE  /\ Merge(old, new) \in Ops \cup {"none"}
         /\ new \in Back => Merge(old, new) \in Back
         /\ new \notin Gone /\ old \in Back => Merge(old, new) \in Back
         /\ Merge(old, new) \in Gone => new \in Gone \/ (new = "chmod" /\ old \in Gone)
BY DEF Merge, Ops, Gone, Back

LEMMA RecordedIs ==
  ASSUME NEW b \in Batches, NEW new \in Batches
  PROVE  /\ Recorded(b, new) \in Batches
         /\ \A p \in Paths :
              /\ new[p] = "none" => Recorded(b, new)[p] = b[p]
              /\ new[p] \in Back => Recorded(b, new)[p] \in Back
              /\ new[p] \notin Gone /\ b[p] \in Back => Recorded(b, new)[p] \in Back
              /\ Recorded(b, new)[p] \in Gone => new[p] \in Gone \/ b[p] \in Gone
              /\ p \in In(b) \cup In(new) => p \in In(Recorded(b, new)) \cup Cancelled(b, new)
<1>1. ASSUME NEW p \in Paths
      PROVE  LET r == Recorded(b, new)[p]
             IN  /\ r \in Ops \cup {"none"}
                 /\ new[p] = "none" => r = b[p]
                 /\ new[p] \in Back => r \in Back
                 /\ new[p] \notin Gone /\ b[p] \in Back => r \in Back
                 /\ r \in Gone => new[p] \in Gone \/ b[p] \in Gone
  <2>1. b[p] \in Ops \cup {"none"} /\ new[p] \in Ops \cup {"none"}
    BY DEF Batches
  <2>2. Recorded(b, new)[p] = IF new[p] = "none" THEN b[p]
                              ELSE IF b[p] = "none" THEN new[p] ELSE Merge(b[p], new[p])
    BY DEF Recorded
  <2>3. "none" \notin Back /\ "none" \notin Gone
    BY DEF Back, Gone
  <2>4. CASE new[p] = "none" \/ b[p] = "none"
    BY <2>1, <2>2, <2>3, <2>4
  <2>5. CASE new[p] \in Ops /\ b[p] \in Ops /\ new[p] # "none" /\ b[p] # "none"
    BY <2>2, <2>3, <2>5, MergeIs
  <2> QED
    BY <2>1, <2>4, <2>5
<1>2. Recorded(b, new) = [p \in Paths |-> Recorded(b, new)[p]]
  BY DEF Recorded
<1>3. Recorded(b, new) \in Batches
  BY <1>1, <1>2 DEF Batches
<1> QED
  BY <1>1, <1>3 DEF Cancelled, In

-----------------------------------------------------------------------------
(* The queue grows by events that do not say that the file is gone.        *)
LEMMA GrownOrdered ==
  ASSUME Grown, UNCHANGED <<pending, batch, events, taken>>, NEW p \in Paths, Ordered(p),
         \A i \in Fresh : kernel'[i].path = p => kernel'[i].op \notin Gone
  PROVE  Ordered(p)'
<1>1. \A j \in DOMAIN kernel : Returns(p, j) => j \in DOMAIN kernel' /\ Returns(p, j)'
  BY GrownHas DEF Returns
<1>2. AfterBuffer(p) => AfterBuffer(p)'
  BY <1>1 DEF AfterBuffer
<1>3. QueueTrue(p)'
  <2> SUFFICES ASSUME NEW i \in DOMAIN kernel', kernel'[i].path = p, kernel'[i].op \in Gone
               PROVE  \E j \in DOMAIN kernel' : j > i /\ Returns(p, j)'
    BY DEF QueueTrue
  <2>1. i \in DOMAIN kernel /\ kernel'[i] = kernel[i]
    BY GrownHas
  <2>2. PICK j \in DOMAIN kernel : j > i /\ Returns(p, j)
    BY <2>1 DEF Ordered, QueueTrue
  <2> QED
    BY <1>1, <2>2
<1> QED
  BY <1>2, <1>3 DEF Ordered, BufferTrue, BatchTrue, SentTrue, TakenTrue, AfterBatch, AfterSent

(* The queue grows by news that the file is back.                          *)
LEMMA ReturnOrdered ==
  ASSUME Grown, NEW p \in Paths, \E i \in Fresh : kernel'[i].path = p,
         \A i \in Fresh : kernel'[i].path = p => kernel'[i].op \in Back
  PROVE  Ordered(p)'
<1>1. PICK j \in Fresh : kernel'[j].path = p
  OBVIOUS
<1>2. j \in DOMAIN kernel' /\ Returns(p, j)' /\ \A k \in DOMAIN kernel : j > k
  BY <1>1, GrownHas DEF Returns
<1>3. AfterBuffer(p)'
  BY <1>2 DEF AfterBuffer
<1>4. QueueTrue(p)'
  <2> SUFFICES ASSUME NEW i \in DOMAIN kernel', kernel'[i].path = p, kernel'[i].op \in Gone
               PROVE  \E k \in DOMAIN kernel' : k > i /\ Returns(p, k)'
    BY DEF QueueTrue
  <2>1. i \notin Fresh
    BY DEF Back, Gone
  <2> QED
    BY <1>2, <2>1, GrownHas
<1> QED
  BY <1>3, <1>4 DEF Ordered, BufferTrue, BatchTrue, SentTrue, TakenTrue, AfterBatch, AfterSent

(* News that the file is back reaches the buffer.                          *)
LEMMA BufferedOrdered ==
  ASSUME NEW p \in Paths, pending'[p] \in Back, QueueTrue(p)'
  PROVE  Ordered(p)'
BY DEF Ordered, BufferTrue, BatchTrue, SentTrue, TakenTrue, AfterBatch, AfterSent, Back, Gone

-----------------------------------------------------------------------------
(* Changes of the tree.                                                    *)
Sound == TypeOK /\ Flow

(* Events of a change: what they say of a file that is there afterwards is *)
(* that it was created or written.                                         *)
Says(now, raw) == /\ raw \in Seq(Raws) /\ Len(raw) \in {1, 2}
                  /\ now \in [Paths -> 0..(edits + 1)]
                  /\ \A i \in 1..Len(raw) : /\ raw[i].path \in Paths
                                            /\ now[raw[i].path] # 0 => raw[i].op \in Back
                  /\ \A p \in Paths \ PathsOf(raw) : now[p] = disk[p]

LEMMA StaysUnderway ==
  ASSUME Grown, UNCHANGED <<pending, batch, events, snap, watching, degraded>>,
         dir' = dir \/ dir = "absent", NEW p \in Paths, disk'[p] = disk[p]
  PROVE  /\ Underway(p) => Underway(p)'
         /\ (Polling(p)' <=> Polling(p)) /\ (Listing(p) => Listing(p)')
<1>1. /\ PathsOf(kernel) \subseteq PathsOf(kernel)'
      /\ (\E i \in DOMAIN kernel : kernel[i].op = "mkdir")
            => \E i \in DOMAIN kernel' : kernel'[i].op = "mkdir"
  BY GrownHas
<1>2. Listing(p) => Listing(p)'
  BY <1>1 DEF Listing
<1>3. Polling(p)' <=> Polling(p)
  BY DEF Polling
<1> QED
  BY <1>1, <1>2, <1>3 DEF Underway, Listing, Polling, In

LEMMA ChangeIs ==
  ASSUME Sound, NEW now, NEW raw, Says(now, raw), Change(now, raw)
  PROVE  /\ Grown /\ Len(kernel') <= KernelQueue
         /\ \A i \in Fresh : (\E k \in 1..Len(raw) : kernel'[i] = raw[k]) /\ Heard(kernel'[i].path)
         /\ \A p \in PathsOf(Noted(raw)) : \E i \in Fresh : kernel'[i].path = p
         /\ disk' = now /\ edits' = edits + 1 /\ edits < MaxEdits
         /\ UNCHANGED <<pending, batch, events, snap, watching, degraded, dir, closed>>
BY RaisedIs DEF Sound, TypeOK, WatcherTypeOK, Says, Change

LEMMA HeardUnderway ==
  ASSUME Sound, NEW now, NEW raw, Says(now, raw), Change(now, raw),
         NEW p \in Paths, WillHear(p, now, raw)
  PROVE  /\ Underway(p)'
         /\ p \in PathsOf(Noted(raw)) \/ Polling(p)' \/ Listing(p)'
<1>1. /\ Grown /\ disk' = now
      /\ UNCHANGED <<pending, batch, events, snap, watching, degraded, dir>>
      /\ \A q \in PathsOf(Noted(raw)) : \E i \in Fresh : kernel'[i].path = q
  BY ChangeIs
<1>2. CASE p \in PathsOf(Noted(raw))
  <2>1. p \in PathsOf(kernel)'
    BY <1>1, <1>2, GrownHas
  <2> QED
    BY <1>2, <2>1 DEF Underway
<1>3. CASE watching /\ degraded /\ snap[p] # now[p]
  BY <1>1, <1>3 DEF Underway, Polling
<1>4. CASE /\ p \in Nested /\ dir = "made" /\ now[p] # 0
           /\ \E i \in DOMAIN kernel : kernel[i].op = "mkdir"
  <2>1. \E i \in DOMAIN kernel' : kernel'[i].op = "mkdir"
    BY <1>1, <1>4, GrownHas
  <2> QED
    BY <1>1, <1>4, <2>1 DEF Underway, Listing
<1> QED
  BY <1>2, <1>3, <1>4 DEF WillHear

LEMMA TreeOldNews ==
  ASSUME Sound, OldNews, NEW now, NEW raw, Says(now, raw), Change(now, raw), Reported(now, raw),
         taken' = taken
  PROVE  OldNews'
<1>1. /\ Grown /\ disk' = now /\ closed' = closed
      /\ UNCHANGED <<pending, batch, events, snap, watching, degraded, dir>>
      /\ \A i \in Fresh : \E k \in 1..Len(raw) : kernel'[i] = raw[k]
      /\ \A q \in PathsOf(Noted(raw)) : \E i \in Fresh : kernel'[i].path = q
  BY ChangeIs
<1>2. \A k \in 1..Len(raw) : raw[k].path \in PathsOf(raw)
  BY DEF PathsOf, Says
<1> SUFFICES ASSUME NEW p \in Paths, ~closed, disk'[p] # 0, p \notin lost' \cup voided',
                    ~Polling(p)', ~Listing(p)'
             PROVE  Ordered(p)'
  BY <1>1 DEF OldNews
<1>3. CASE p \notin PathsOf(raw)
  <2>1. disk'[p] = disk[p]
    BY <1>1, <1>3 DEF Says
  <2>2. p \notin lost \cup voided
    BY <1>3 DEF Reported
  <2>3. ~Polling(p) /\ ~Listing(p)
    BY <1>1, <2>1, StaysUnderway
  <2>4. Ordered(p)
    BY <2>1, <2>2, <2>3 DEF OldNews
  <2>5. \A i \in Fresh : kernel'[i].path # p
    BY <1>1, <1>2, <1>3
  <2> QED
    BY <1>1, <2>4, <2>5, GrownOrdered
<1>4. CASE p \in PathsOf(raw)
  <2>1. WillHear(p, now, raw)
    BY <1>4 DEF Reported
  <2>2. p \in PathsOf(Noted(raw))
    BY <2>1, HeardUnderway
  <2>3. \A i \in Fresh : kernel'[i].path = p => kernel'[i].op \in Back
    BY <1>1 DEF Says
  <2> QED
    BY <1>1, <2>2, <2>3, ReturnOrdered
<1> QED
  BY <1>3, <1>4

LEMMA TreeFalls ==
  ASSUME Sound, NothingFallsBetween, NEW now, NEW raw, Says(now, raw), Change(now, raw),
         Reported(now, raw), taken' = taken,
         \A p \in Paths : primary'[p] = primary[p] \/ primary'[p] = disk'[p]
  PROVE  NothingFallsBetween'
<1>1. /\ Grown /\ disk' = now /\ closed' = closed
      /\ UNCHANGED <<pending, batch, events, snap, watching, degraded, dir>>
  BY ChangeIs
<1> SUFFICES ASSUME NEW p \in Paths, primary'[p] # disk'[p], ~closed
             PROVE  Expected(p)' \/ p \in lost' \cup voided'
  BY <1>1 DEF NothingFallsBetween
<1>2. primary'[p] = primary[p]
  OBVIOUS
<1>3. CASE p \notin PathsOf(raw)
  <2>1. disk'[p] = disk[p]
    BY <1>1, <1>3 DEF Says
  <2>2. Expected(p) \/ p \in lost \cup voided
    BY <1>2, <2>1 DEF NothingFallsBetween
  <2>3. p \in lost \cup voided => p \in lost' \cup voided'
    BY <1>3 DEF Reported
  <2>4. Expected(p) => Expected(p)'
    BY <1>1, <2>1, StaysUnderway DEF Expected, In
  <2> QED
    BY <2>2, <2>3, <2>4
<1>4. CASE p \in PathsOf(raw)
  <2>1. WillHear(p, now, raw) \/ p \in lost'
    BY <1>4 DEF Reported
  <2> QED
    BY <2>1, HeardUnderway DEF Expected
<1> QED
  BY <1>3, <1>4

LEMMA OneRaw ==
  ASSUME NEW e \in Raws
  PROVE  <<e>> \in Seq(Raws) /\ Len(<<e>>) = 1 /\ <<e>>[1] = e /\ PathsOf(<<e>>) = {e.path}
BY DEF PathsOf

LEMMA TwoRaws ==
  ASSUME NEW e \in Raws, NEW f \in Raws
  PROVE  /\ <<e, f>> \in Seq(Raws) /\ Len(<<e, f>>) = 2 /\ <<e, f>>[1] = e /\ <<e, f>>[2] = f
         /\ PathsOf(<<e, f>>) = {e.path, f.path}
<1>1. <<e, f>> \in Seq(Raws) /\ Len(<<e, f>>) = 2 /\ <<e, f>>[1] = e /\ <<e, f>>[2] = f
  OBVIOUS
<1>2. DOMAIN <<e, f>> = {1, 2}
  OBVIOUS
<1> QED
  BY <1>1, <1>2 DEF PathsOf

(* Every change of a file is one that the events say, whoever made it.     *)
Changed(now, raw) ==
    /\ Says(now, raw) /\ Change(now, raw) /\ Reported(now, raw) /\ UNCHANGED loopVars
    /\ twins' \subseteq {q \in Paths : primary'[q] # now[q]}
    /\ \/ UNCHANGED indexVars
       \/ /\ failed' = FALSE /\ derived' = primary'
          /\ \E p \in Paths : primary' = [primary EXCEPT ![p] = now[p]]

LEMMA OneFile ==
  ASSUME Sound, NEW p \in Paths, NEW file \in 0..(edits + 1), NEW op \in Ops,
         file # 0 => op \in Back
  PROVE  Says([disk EXCEPT ![p] = file], <<Ev(p, op)>>)
<1> DEFINE now == [disk EXCEPT ![p] = file]
           raw == <<Ev(p, op)>>
<1>1. disk \in [Paths -> 0..edits] /\ edits \in Nat
  BY DEF Sound, Flow, TypeOK
<1>2. now \in [Paths -> 0..(edits + 1)]
  BY <1>1
<1>3. now[p] = file /\ \A q \in Paths \ {p} : now[q] = disk[q]
  BY <1>1
<1>4. raw \in Seq(Raws) /\ Len(raw) = 1 /\ raw[1].path = p /\ raw[1].op = op /\ PathsOf(raw) = {p}
  BY EvIs, OneRaw
<1> HIDE DEF now, raw
<1> QED
  BY <1>2, <1>3, <1>4 DEF Says, now, raw

LEMMA TreeChanges ==
  ASSUME Sound, Tree
  PROVE  \/ \E now, raw : Changed(now, raw)
         \/ \E p \in Paths : Touch(p)
         \/ MakeDir
<1>0. /\ disk \in [Paths -> 0..edits] /\ primary \in [Paths -> 0..edits] /\ edits \in Nat
      /\ twins \subseteq {p \in Paths : primary[p] # disk[p]}
      /\ {"create", "write"} \subseteq Ops /\ {"remove", "rename"} \subseteq Ops
      /\ 0 \in 0..(edits + 1) /\ edits + 1 \in 0..(edits + 1)
  BY DEF Sound, Flow, TypeOK, Ops
<1>1. ASSUME NEW p \in Paths, NEW op \in {"create", "write"}, NEW same \in BOOLEAN, Edit(p, op, same)
      PROVE  \E now, raw : Changed(now, raw)
  <2> DEFINE now == [disk EXCEPT ![p] = edits + 1]
             raw == <<Ev(p, op)>>
  <2>1. Says(now, raw)
    BY <1>0, OneFile DEF Back
  <2>2. /\ External(now, raw)
        /\ twins' = IF same THEN twins \cup {p} ELSE twins \ {p}
    BY <1>1 DEF Edit
  <2>3. now[p] = edits + 1 /\ primary[p] # edits + 1 /\ \A q \in Paths \ {p} : now[q] = disk[q]
    BY <1>0
  <2> HIDE DEF now, raw
  <2>4. Change(now, raw) /\ Reported(now, raw) /\ UNCHANGED <<indexVars, loopVars>> /\ primary' = primary
    BY <2>2 DEF External, indexVars
  <2>5. twins' \subseteq {q \in Paths : primary'[q] # now[q]}
    BY <1>0, <2>2, <2>3, <2>4
  <2> QED
    BY <2>1, <2>4, <2>5 DEF Changed
<1>2. ASSUME NEW p \in Paths, Delete(p) PROVE \E now, raw : Changed(now, raw)
  <2> DEFINE now == [disk EXCEPT ![p] = 0]
             raw == <<Ev(p, "remove")>>
  <2>1. Says(now, raw)
    BY <1>0, OneFile
  <2>2. External(now, raw) /\ twins' = twins \ {p}
    BY <1>2 DEF Delete
  <2>3. \A q \in Paths \ {p} : now[q] = disk[q]
    BY <1>0
  <2> HIDE DEF now, raw
  <2>4. Change(now, raw) /\ Reported(now, raw) /\ UNCHANGED <<indexVars, loopVars>> /\ primary' = primary
    BY <2>2 DEF External, indexVars
  <2>5. twins' \subseteq {q \in Paths : primary'[q] # now[q]}
    BY <1>0, <2>2, <2>3, <2>4
  <2> QED
    BY <2>1, <2>4, <2>5 DEF Changed
<1>3. ASSUME NEW p \in Paths, NEW q \in Paths, Rename(p, q) PROVE \E now, raw : Changed(now, raw)
  <2> DEFINE now == [disk EXCEPT ![p] = 0, ![q] = disk[p]]
             raw == <<Ev(p, "rename"), Ev(q, "create")>>
  <2>0. p # q /\ External(now, raw) /\ twins' = twins \ {p, q}
    BY <1>3 DEF Rename
  <2>1. /\ raw \in Seq(Raws) /\ Len(raw) = 2 /\ PathsOf(raw) = {p, q}
        /\ raw[1].path = p /\ raw[2].path = q /\ raw[2].op = "create"
    BY <1>0, EvIs, TwoRaws
  <2>2. /\ now \in [Paths -> 0..(edits + 1)]
        /\ now[p] = 0 /\ \A r \in Paths \ {p, q} : now[r] = disk[r]
    BY <1>0, <2>0
  <2> HIDE DEF now, raw
  <2>3. Says(now, raw)
    BY <2>1, <2>2 DEF Says, Back
  <2>4. Change(now, raw) /\ Reported(now, raw) /\ UNCHANGED <<indexVars, loopVars>> /\ primary' = primary
    BY <2>0 DEF External, indexVars
  <2>5. twins' \subseteq {r \in Paths : primary'[r] # now[r]}
    BY <1>0, <2>0, <2>2, <2>4
  <2> QED
    BY <2>3, <2>4, <2>5 DEF Changed
<1>4. ASSUME NEW p \in Paths, NEW file \in 0..(edits + 1), NEW op \in Ops, file # 0 => op \in Back,
             Vault(p, file, op)
      PROVE  \E now, raw : Changed(now, raw)
  <2> DEFINE now == [disk EXCEPT ![p] = file]
             raw == <<Ev(p, op)>>
  <2>1. Says(now, raw)
    BY <1>4, OneFile
  <2>2. /\ Change(now, raw) /\ Reported(now, raw) /\ UNCHANGED loopVars /\ twins' = twins \ {p}
        /\ failed' = FALSE /\ derived' = primary' /\ primary' = [primary EXCEPT ![p] = file]
    BY <1>4 DEF Vault
  <2>3. now[p] = file /\ \A q \in Paths \ {p} : now[q] = disk[q] /\ primary'[q] = primary[q]
    BY <1>0, <2>2
  <2> HIDE DEF now, raw
  <2>4. twins' \subseteq {q \in Paths : primary'[q] # now[q]}
    BY <1>0, <2>2, <2>3
  <2> QED
    BY <2>1, <2>2, <2>3, <2>4 DEF Changed
<1>5. ASSUME NEW p \in Paths, VaultWrite(p) PROVE \E now, raw : Changed(now, raw)
  BY <1>0, <1>4, <1>5 DEF VaultWrite, Back
<1>6. ASSUME NEW p \in Paths, VaultDelete(p) PROVE \E now, raw : Changed(now, raw)
  BY <1>0, <1>4, <1>6 DEF VaultDelete
<1> QED
  BY <1>1, <1>2, <1>3, <1>5, <1>6 DEF Tree

(* A grown queue holds only what somebody listens to.                      *)
LEMMA GrownFlow ==
  ASSUME Sound, Grown, UNCHANGED <<watching, degraded>>,
         \A i \in Fresh : /\ watching /\ ~degraded
                          /\ kernel'[i].path \in Nested => dir = "watched"
  PROVE  /\ ~watching' \/ degraded' => kernel' = <<>>
         /\ \A p \in Nested : dir # "watched" => p \notin PathsOf(kernel)'
<1>1. ~watching \/ degraded => kernel' = <<>>
  <2> SUFFICES ASSUME ~watching \/ degraded PROVE kernel' = <<>>
    OBVIOUS
  <2>1. kernel = <<>> /\ Fresh = {}
    BY DEF Sound, Flow
  <2>2. Len(kernel) = 0 /\ Len(kernel') \in Nat /\ kernel' \in Seq(Raws)
    BY <2>1 DEF Grown
  <2>3. Len(kernel') = 0
    BY <2>1, <2>2 DEF Fresh
  <2> QED
    BY <2>2, <2>3
<1>2. \A p \in Nested : dir # "watched" => p \notin PathsOf(kernel)'
  <2>1. \A p \in Nested : dir # "watched" => p \notin PathsOf(kernel)
    BY DEF Sound, Flow
  <2>2. PathsOf(kernel)' = PathsOf(kernel) \cup {kernel'[i].path : i \in Fresh}
    BY GrownHas
  <2> QED
    BY <2>1, <2>2
<1> QED
  BY <1>1, <1>2

LEMMA ChangedSound ==
  ASSUME Sound, NEW now, NEW raw, Changed(now, raw)
  PROVE  Sound'
<1>1. /\ Says(now, raw) /\ Change(now, raw) /\ Reported(now, raw)
      /\ consumer' = consumer /\ taken' = taken
      /\ twins' \subseteq {q \in Paths : primary'[q] # now[q]}
  BY DEF Changed, loopVars
<1>2. /\ Grown /\ Len(kernel') <= KernelQueue
      /\ \A i \in Fresh : Heard(kernel'[i].path)
      /\ disk' = now /\ edits' = edits + 1 /\ edits < MaxEdits
      /\ UNCHANGED <<pending, batch, events, snap, watching, degraded, dir, closed>>
  BY <1>1, ChangeIs
<1>3. UNCHANGED <<timer, age, loop>>
  BY <1>1 DEF Change
<1>4. /\ {disk, snap, primary, derived} \subseteq [Paths -> 0..edits] /\ edits \in 1..MaxEdits
      /\ MaxEdits \in Nat /\ failed \in BOOLEAN /\ lost \cup voided \subseteq Paths
      /\ now \in [Paths -> 0..(edits + 1)]
  BY <1>1, LiveIndexAssumption DEF Sound, Flow, TypeOK, Says
<1>5. edits' \in 1..MaxEdits /\ 0..edits \subseteq 0..edits' /\ 0..edits' \subseteq 0..MaxEdits
  BY <1>2, <1>4
<1>6. primary' \in [Paths -> 0..edits'] /\ derived' \in [Paths -> 0..edits'] /\ failed' \in BOOLEAN
  <2>1. CASE UNCHANGED indexVars
    BY <1>4, <1>5, <2>1 DEF indexVars
  <2>2. ASSUME failed' = FALSE, derived' = primary', NEW p \in Paths,
               primary' = [primary EXCEPT ![p] = now[p]]
        PROVE  primary' \in [Paths -> 0..edits'] /\ derived' \in [Paths -> 0..edits'] /\ failed' \in BOOLEAN
    <3>1. now[p] \in 0..edits'
      BY <1>2, <1>4
    <3>2. primary \in [Paths -> 0..edits']
      BY <1>4, <1>5
    <3> QED
      BY <2>2, <3>1, <3>2
  <2> QED
    BY <2>1, <2>2 DEF Changed
<1>7. disk' \in [Paths -> 0..edits'] /\ snap' \in [Paths -> 0..edits']
  BY <1>2, <1>4, <1>5
<1>8. /\ ~watching' \/ degraded' => kernel' = <<>>
      /\ \A p \in Nested : dir' # "watched" => p \notin PathsOf(kernel)'
  BY <1>2, GrownFlow DEF Heard
<1>9. WatcherTypeOK'
  BY <1>2, <1>3 DEF Sound, TypeOK, WatcherTypeOK, Grown
<1>10. lost' \cup voided' \subseteq Paths
  <2>1. PathsOf(raw) \subseteq Paths
    BY <1>1 DEF Says, PathsOf
  <2> QED
    BY <1>1, <1>4, <2>1 DEF Reported
<1>11. Flow'
  BY <1>2, <1>3, <1>1, <1>6, <1>7, <1>8 DEF Sound, Flow
<1>12. \A f \in {disk', snap', primary', derived'} : f \in [Paths -> 0..MaxEdits]
  BY <1>5, <1>6, <1>7
<1>13. TypeOK'
  BY <1>1, <1>2, <1>5, <1>6, <1>9, <1>10, <1>12 DEF Sound, TypeOK
<1> QED
  BY <1>11, <1>13 DEF Sound

(* A touch of the metadata, and a directory that appears.                  *)
LEMMA TouchIs ==
  ASSUME Sound, NEW p \in Paths, Touch(p)
  PROVE  /\ Grown /\ Len(kernel') <= KernelQueue
         /\ \A i \in Fresh : kernel'[i] = Ev(p, "chmod") /\ Heard(p)
         /\ disk' = disk /\ edits' = edits + 1 /\ edits < MaxEdits
         /\ UNCHANGED <<pending, batch, events, snap, watching, degraded, dir, closed, timer, age,
                        loop, indexVars, loopVars, twins, excuses>>
<1> DEFINE raw == <<Ev(p, "chmod")>>
<1>1. raw \in Seq(Raws) /\ Len(raw) = 1 /\ raw[1] = Ev(p, "chmod") /\ Ev(p, "chmod").path = p
  BY EvIs, OneRaw DEF Ops
<1>2. Change(disk, raw)
  BY DEF Touch
<1>3. kernel \in Seq(Raws) /\ Len(kernel) <= KernelQueue
  BY DEF Sound, TypeOK, WatcherTypeOK
<1> HIDE DEF raw
<1>4. /\ Grown /\ Len(kernel') <= KernelQueue
      /\ \A i \in Fresh : (\E k \in 1..Len(raw) : kernel'[i] = raw[k]) /\ Heard(kernel'[i].path)
  BY <1>1, <1>2, <1>3, RaisedIs DEF Change
<1>5. \A i \in Fresh : kernel'[i] = Ev(p, "chmod") /\ Heard(p)
  BY <1>1, <1>4
<1> QED
  BY <1>2, <1>4, <1>5 DEF Change, Touch

LEMMA MakeDirIs ==
  ASSUME Sound, MakeDir
  PROVE  /\ Grown /\ Len(kernel') <= KernelQueue
         /\ \A i \in Fresh : kernel'[i] = Ev("dir", "mkdir") /\ watching /\ ~degraded
         /\ dir = "absent" /\ dir' = "made"
         /\ UNCHANGED <<disk, pending, batch, events, snap, watching, degraded, closed, timer, age,
                        loop, indexVars, loopVars, twins, edits, excuses>>
<1>1. kernel \in Seq(Raws) /\ Len(kernel) \in Nat /\ Len(kernel) <= KernelQueue /\ KernelQueue \in Nat
  BY WatcherAssumption DEF Sound, TypeOK, WatcherTypeOK
<1>2. dir = "absent" /\ dir' = "made"
      /\ UNCHANGED <<disk, pending, batch, events, snap, watching, degraded, closed, timer, age,
                     loop, indexVars, loopVars, twins, edits, excuses>>
  BY DEF MakeDir
<1>3. CASE kernel' = kernel
  <2>1. Fresh = {}
    BY <1>1, <1>3 DEF Fresh
  <2> QED
    BY <1>1, <1>2, <1>3, <2>1 DEF Grown
<1>4. CASE /\ watching /\ ~degraded /\ Len(kernel) < KernelQueue
           /\ kernel' = Append(kernel, Ev("dir", "mkdir"))
  <2>1. Ev("dir", "mkdir") \in Raws
    BY DEF Raws
  <2>2. /\ kernel' \in Seq(Raws) /\ Len(kernel') = Len(kernel) + 1
        /\ \A i \in 1..Len(kernel) : kernel'[i] = kernel[i]
        /\ kernel'[Len(kernel) + 1] = Ev("dir", "mkdir")
    BY <1>1, <1>4, <2>1, AppendProperties
  <2>3. \A i \in Fresh : i = Len(kernel) + 1
    BY <1>1, <2>2 DEF Fresh
  <2>4. Grown /\ Len(kernel') <= KernelQueue
    BY <1>1, <1>4, <2>2 DEF Grown
  <2> QED
    BY <1>2, <1>4, <2>2, <2>3, <2>4
<1> QED
  BY <1>3, <1>4 DEF MakeDir

LEMMA QuietTree ==
  ASSUME LInv, (\E p \in Paths : Touch(p)) \/ MakeDir
  PROVE  Sound' /\ OldNews' /\ NothingFallsBetween'
<1>0. Sound /\ OldNews /\ NothingFallsBetween
  BY DEF LInv, Sound
<1>1. /\ Grown /\ Len(kernel') <= KernelQueue /\ disk' = disk
      /\ UNCHANGED <<pending, batch, events, snap, watching, degraded, closed, timer, age, loop,
                     primary, derived, failed, consumer, taken, twins, lost, voided>>
      /\ dir' = dir \/ (dir = "absent" /\ dir' = "made")
      /\ edits' = edits \/ (edits' = edits + 1 /\ edits < MaxEdits)
      /\ \A i \in Fresh : /\ kernel'[i].op \notin Gone /\ watching /\ ~degraded
                          /\ kernel'[i].path \in Nested => dir = "watched"
  <2>1. ASSUME NEW p \in Paths, Touch(p)
        PROVE  \A i \in Fresh : /\ kernel'[i].op \notin Gone /\ watching /\ ~degraded
                                /\ kernel'[i].path \in Nested => dir = "watched"
    BY <1>0, <2>1, TouchIs, EvIs DEF Heard, Gone
  <2>2. ASSUME MakeDir
        PROVE  \A i \in Fresh : /\ kernel'[i].op \notin Gone /\ watching /\ ~degraded
                                /\ kernel'[i].path \in Nested => dir = "watched"
    BY <1>0, <2>2, MakeDirIs, EvIs, WatcherAssumption DEF Gone
  <2> QED
    BY <1>0, <2>1, <2>2, TouchIs, MakeDirIs DEF indexVars, loopVars, excuses
<1>2. Sound'
  <2>1. /\ ~watching' \/ degraded' => kernel' = <<>>
        /\ \A p \in Nested : dir # "watched" => p \notin PathsOf(kernel)'
    BY <1>0, <1>1, GrownFlow
  <2>2. dir' \in {"absent", "made", "watched"} /\ (dir' # "watched" => dir # "watched")
    BY <1>0, <1>1 DEF Sound, TypeOK, WatcherTypeOK
  <2>3. edits' \in 1..MaxEdits /\ edits \in 1..MaxEdits /\ 0..edits \subseteq 0..edits'
    BY <1>0, <1>1, LiveIndexAssumption DEF Sound, TypeOK
  <2>4. {disk', snap', primary', derived'} \subseteq [Paths -> 0..edits']
    BY <1>0, <1>1, <2>3 DEF Sound, Flow
  <2>5. Flow'
    BY <1>0, <1>1, <2>1, <2>2, <2>4 DEF Sound, Flow
  <2>6. WatcherTypeOK'
    BY <1>0, <1>1, <2>2 DEF Sound, TypeOK, WatcherTypeOK, Grown
  <2>7. TypeOK'
    BY <1>0, <1>1, <2>3, <2>6 DEF Sound, TypeOK
  <2> QED
    BY <2>5, <2>7 DEF Sound
<1>3. OldNews'
  <2> SUFFICES ASSUME NEW p \in Paths, ~closed, disk'[p] # 0, p \notin lost' \cup voided',
                      ~Polling(p)', ~Listing(p)'
               PROVE  Ordered(p)'
    BY <1>1 DEF OldNews
  <2>1. ~Polling(p) /\ ~Listing(p)
    BY <1>1, StaysUnderway
  <2>2. Ordered(p)
    BY <1>0, <1>1, <2>1 DEF OldNews
  <2> QED
    BY <1>1, <2>2, GrownOrdered
<1>4. NothingFallsBetween'
  <2> SUFFICES ASSUME NEW p \in Paths, primary[p] # disk[p], ~closed
               PROVE  Expected(p)' \/ p \in lost' \cup voided'
    BY <1>1 DEF NothingFallsBetween
  <2>1. Expected(p) \/ p \in lost \cup voided
    BY <1>0 DEF NothingFallsBetween
  <2>2. Expected(p) => Expected(p)'
    BY <1>1, StaysUnderway DEF Expected, In
  <2> QED
    BY <1>1, <2>1, <2>2
<1> QED
  BY <1>2, <1>3, <1>4

-----------------------------------------------------------------------------
(* The steps of the watcher.                                               *)
LEMMA ArmIs ==
  ASSUME Sound, NEW buffer, Arm(buffer)
  PROVE  /\ timer' \in {Stopped} \cup 0..Debounce /\ age' \in 0..MaxWindow
         /\ timer' # Stopped => age' + timer' <= MaxWindow
<1>1. /\ timer \in {Stopped} \cup 0..Debounce /\ age \in 0..MaxWindow
      /\ timer # Stopped => age + timer <= MaxWindow
      /\ Debounce \in Nat \ {0} /\ MaxWindow \in Nat /\ Debounce <= MaxWindow
  BY WatcherAssumption DEF Sound, TypeOK, WatcherTypeOK, Flow
<1>2. CASE UNCHANGED <<timer, age>>
  BY <1>1, <1>2
<1>3. CASE timer' = Debounce /\ age' = 0
  BY <1>1, <1>3
<1>4. CASE timer' = Smaller(Debounce, MaxWindow - age) /\ age' = age
  BY <1>1, <1>4 DEF Smaller
<1> QED
  BY <1>2, <1>3, <1>4 DEF Arm

(* The news at the head of the queue.                                      *)
LEMMA NewsIs ==
  ASSUME Sound, kernel # <<>>
  PROVE  /\ News \in Batches
         /\ Head(kernel).op = "mkdir" =>
              \A p \in Paths : News[p] = IF p \in Nested /\ disk[p] # 0 THEN "create" ELSE "none"
         /\ Head(kernel).op # "mkdir" =>
              /\ Head(kernel).path \in Paths /\ Head(kernel).op \in Ops
              /\ \A p \in Paths : News[p] = IF p = Head(kernel).path THEN Head(kernel).op ELSE "none"
<1>1. Head(kernel) \in Raws
  BY DEF Sound, TypeOK, WatcherTypeOK
<1>2. CASE Head(kernel).op = "mkdir"
  <2>1. News = Adopted
    BY <1>2 DEF News
  <2> QED
    BY <1>2, <2>1 DEF Adopted, Batches, Ops
<1>3. CASE Head(kernel).op # "mkdir"
  <2>1. Head(kernel).path \in Paths /\ Head(kernel).op \in Ops
    BY <1>1, <1>3, RawIs
  <2>2. News = [Nothing EXCEPT ![Head(kernel).path] = Head(kernel).op]
    BY <1>3 DEF News
  <2> QED
    BY <1>3, <2>1, <2>2, NothingIs DEF Batches
<1> QED
  BY <1>2, <1>3

LEMMA DifferencesAre ==
  /\ Differences \in Batches
  /\ \A p \in Paths : /\ Differences[p] = "none" <=> disk[p] = snap[p]
                      /\ disk[p] # snap[p] /\ disk[p] # 0 => Differences[p] \in Back
BY DEF Differences, Batches, Ops, Back

WatchStep == Handle \/ Degrade \/ PollOnce \/ Fire \/ Send \/ Leave \/ Tick \/ StartWatch \/ Close

LEMMA WatchTypes ==
  ASSUME Sound, WatchStep
  PROVE  WatcherTypeOK'
<1>0. /\ WatcherTypeOK /\ kernel \in Seq(Raws) /\ Len(kernel) <= KernelQueue /\ KernelQueue \in Nat
      /\ EventCap \in Nat /\ Nothing \in Batches /\ pending \in Batches /\ batch \in Batches
      /\ events \in Seq(Batches \ {Nothing})
      /\ <<>> \in Seq(Raws) /\ Len(<<>>) = 0
  BY WatcherAssumption, NothingIs DEF Sound, TypeOK, WatcherTypeOK
<1>1. CASE Handle
  <2>1. kernel' \in Seq(Raws) /\ Len(kernel') <= KernelQueue
    BY <1>0, <1>1, PoppedIs DEF Handle
  <2>2. pending' \in Batches
    BY <1>0, <1>1, NewsIs, RecordedIs DEF Handle
  <2>3. timer' \in {Stopped} \cup 0..Debounce /\ age' \in 0..MaxWindow
    BY <1>1, ArmIs DEF Handle
  <2> QED
    BY <1>0, <1>1, <2>1, <2>2, <2>3 DEF Handle, WatcherTypeOK
<1>2. CASE Degrade
  <2>1. timer' \in {Stopped} \cup 0..Debounce /\ age' \in 0..MaxWindow
    BY <1>2, ArmIs DEF Degrade
  <2>2. kernel' \in Seq(Raws) /\ Len(kernel') <= KernelQueue
    BY <1>0, <1>2 DEF Degrade
  <2>3. UNCHANGED <<dir, watching, pending, loop, batch, events, closed>> /\ degraded' = TRUE
    BY <1>2 DEF Degrade
  <2> QED
    BY <1>0, <2>1, <2>2, <2>3 DEF WatcherTypeOK
<1>3. CASE PollOnce
  <2>1. pending' \in Batches
    BY <1>0, <1>3, DifferencesAre, RecordedIs DEF PollOnce
  <2>2. timer' \in {Stopped} \cup 0..Debounce /\ age' \in 0..MaxWindow
    BY <1>3, ArmIs DEF PollOnce
  <2> QED
    BY <1>0, <1>3, <2>1, <2>2 DEF PollOnce, WatcherTypeOK
<1>4. CASE Fire
  <2>1. age' \in 0..MaxWindow /\ timer' = Stopped
    BY <1>4, WatcherAssumption DEF Fire
  <2> QED
    BY <1>0, <1>4, <2>1 DEF Fire, WatcherTypeOK
<1>5. CASE Send
  <2>1. batch \in Batches \ {Nothing}
    BY <1>0, <1>5 DEF Send, WatcherTypeOK
  <2>2. events' \in Seq(Batches \ {Nothing}) /\ Len(events') = Len(events) + 1 /\ Len(events) \in Nat
    BY <1>0, <1>5, <2>1, AppendProperties DEF Send
  <2>3. Len(events') <= EventCap
    BY <1>0, <1>5, <2>2 DEF Send
  <2> QED
    BY <1>0, <1>5, <2>2, <2>3 DEF Send, WatcherTypeOK
<1>6. CASE Leave
  BY <1>0, <1>6 DEF Leave, WatcherTypeOK
<1>7. CASE Tick
  <2>1. /\ timer \in 0..Debounce /\ age \in 0..MaxWindow /\ age + timer <= MaxWindow /\ timer > 0
        /\ timer' = timer - 1 /\ age' = age + 1 /\ Debounce \in Nat /\ MaxWindow \in Nat
    BY <1>7, WatcherAssumption DEF Tick, Sound, Flow, TypeOK, WatcherTypeOK, Stopped
  <2>2. timer' \in 0..Debounce /\ age' \in 0..MaxWindow
    BY <2>1
  <2> QED
    BY <1>0, <1>7, <2>2 DEF Tick, WatcherTypeOK
<1>8. CASE StartWatch
  BY <1>0, <1>8 DEF StartWatch, WatcherTypeOK
<1>9. CASE Close
  <2>1. kernel' \in Seq(Raws) /\ Len(kernel') <= KernelQueue
    BY <1>0, <1>9 DEF Close
  <2>2. /\ UNCHANGED <<dir, watching, degraded, pending, timer, age, loop, batch, events>>
        /\ closed' = TRUE
    BY <1>9 DEF Close
  <2> QED
    BY <1>0, <2>1, <2>2 DEF WatcherTypeOK
<1> QED
  BY <1>1, <1>2, <1>3, <1>4, <1>5, <1>6, <1>7, <1>8, <1>9 DEF WatchStep

(* What is in the stages of a path: nothing, one after the other.          *)
Silent(p) == /\ "none" = pending[p] /\ "none" = batch[p] /\ "none" = taken[p]
             /\ \A i \in DOMAIN events : events[i][p] = "none"

LEMMA WatchFlow ==
  ASSUME Sound, WatchStep, UNCHANGED <<primary, derived, taken, edits>>
  PROVE  Flow'
<1>0. /\ {disk, snap, primary, derived} \subseteq [Paths -> 0..edits]
      /\ timer # Stopped => age + timer <= MaxWindow
      /\ ~watching \/ degraded => kernel = <<>>
      /\ degraded => watching
      /\ \A p \in Nested : dir # "watched" => p \notin PathsOf(kernel) /\ (degraded \/ Silent(p))
      /\ Nested \subseteq Paths
      /\ pending \in Batches /\ kernel \in Seq(Raws) /\ events \in Seq(Batches \ {Nothing})
  BY WatcherAssumption DEF Sound, Flow, Silent, TypeOK, WatcherTypeOK
<1>1. /\ disk' = disk /\ {disk', snap', primary', derived'} \subseteq [Paths -> 0..edits']
  BY <1>0 DEF WatchStep, Handle, Degrade, PollOnce, Fire, Send, Leave, Tick, StartWatch, Close
<1>2. timer' # Stopped => age' + timer' <= MaxWindow
  <2>1. CASE Handle \/ Degrade \/ PollOnce
    BY <2>1, ArmIs DEF Handle, Degrade, PollOnce
  <2>2. CASE Fire
    BY <2>2 DEF Fire
  <2>3. CASE Send \/ Leave \/ StartWatch \/ Close
    BY <1>0, <2>3 DEF Send, Leave, StartWatch, Close
  <2>4. CASE Tick
    <3>1. /\ timer \in 0..Debounce /\ age \in 0..MaxWindow /\ age + timer <= MaxWindow /\ timer > 0
          /\ timer' = timer - 1 /\ age' = age + 1 /\ Debounce \in Nat /\ MaxWindow \in Nat
      BY <2>4, WatcherAssumption DEF Tick, Sound, Flow, TypeOK, WatcherTypeOK, Stopped
    <3> QED
      BY <3>1
  <2> QED
    BY <2>1, <2>2, <2>3, <2>4 DEF WatchStep
<1>3. (~watching' \/ degraded' => kernel' = <<>>) /\ (degraded' => watching')
  <2>1. CASE Handle \/ Degrade
    BY <1>0, <2>1 DEF Handle, Degrade
  <2>2. CASE ~(Handle \/ Degrade)
    BY <1>0, <2>2 DEF WatchStep, PollOnce, Fire, Send, Leave, Tick, StartWatch, Close
  <2> QED
    BY <2>1, <2>2
<1>4. ASSUME NEW p \in Nested, dir' # "watched"
      PROVE  p \notin PathsOf(kernel)' /\ (degraded' \/ Silent(p)')
  <2>0. p \in Paths
    BY <1>0
  <2>1. CASE Handle
    <3>1. Head(kernel).op # "mkdir" /\ dir # "watched" /\ kernel # <<>> /\ kernel' = Tail(kernel)
          /\ pending' = Recorded(pending, News)
          /\ UNCHANGED <<batch, events, degraded>>
      BY <1>4, <2>1 DEF Handle
    <3>2. p \notin PathsOf(kernel) /\ (degraded \/ Silent(p))
      BY <1>0, <3>1
    <3>3. p \notin PathsOf(kernel)' /\ Head(kernel).path # p
      BY <1>0, <3>1, <3>2, PoppedIs DEF PathsOf
    <3>4. News[p] = "none" /\ News \in Batches
      BY <2>0, <3>1, <3>3, NewsIs
    <3>5. pending'[p] = pending[p]
      BY <1>0, <2>0, <3>1, <3>4, RecordedIs
    <3> QED
      BY <3>1, <3>2, <3>3, <3>5 DEF Silent
  <2>2. CASE Degrade \/ PollOnce
    BY <1>0, <1>4, <2>2 DEF Degrade, PollOnce, PathsOf
  <2>3. CASE Fire
    <3>1. Nothing[p] = "none"
      BY <2>0, NothingIs
    <3> QED
      BY <1>0, <1>4, <2>3, <3>1 DEF Fire, Silent, PathsOf
  <2>4. CASE Send
    <3>1. p \notin PathsOf(kernel)' /\ (degraded \/ Silent(p))
      BY <1>0, <1>4, <2>4 DEF Send, PathsOf
    <3>2. ASSUME Silent(p) PROVE Silent(p)'
      <4>1. batch[p] = "none" /\ batch \in Batches \ {Nothing} /\ \A i \in DOMAIN events : events[i][p] = "none"
        BY <2>4, <3>2 DEF Silent, Send, Sound, TypeOK, WatcherTypeOK
      <4>2. /\ events' = Append(events, batch) /\ Len(events') = Len(events) + 1 /\ Len(events) \in Nat
            /\ events' \in Seq(Batches \ {Nothing})
            /\ \A i \in 1..Len(events) : events'[i] = events[i]
            /\ events'[Len(events) + 1] = batch
        BY <1>0, <2>4, <4>1, AppendProperties DEF Send
      <4>3. \A i \in DOMAIN events' : i \in DOMAIN events \/ i = Len(events) + 1
        BY <1>0, <4>2
      <4>4. \A i \in DOMAIN events' : events'[i][p] = "none"
        BY <1>0, <4>1, <4>2, <4>3
      <4> QED
        BY <2>0, <2>4, <3>2, <4>4, NothingIs DEF Send, Silent
    <3> QED
      BY <2>4, <3>1, <3>2 DEF Send
  <2>5. CASE Leave
    BY <1>0, <1>4, <2>0, <2>5, NothingIs DEF Leave, Silent, PathsOf
  <2>6. CASE Tick \/ Close
    BY <1>0, <1>4, <2>6 DEF Tick, Close, Silent, PathsOf
  <2>7. CASE StartWatch
    BY <1>0, <1>4, <2>7 DEF StartWatch, Silent, PathsOf
  <2> QED
    BY <2>1, <2>2, <2>3, <2>4, <2>5, <2>6, <2>7 DEF WatchStep
<1> QED
  BY <1>1, <1>2, <1>3, <1>4 DEF Flow, Silent

(* The queue loses its head; what stands behind it is as it was.           *)
LEMMA PoppedTrue ==
  ASSUME kernel \in Seq(Raws), kernel # <<>>, kernel' = Tail(kernel), NEW p \in Paths
  PROVE  /\ QueueTrue(p) => QueueTrue(p)'
         /\ AfterBuffer(p) => AfterBuffer(p)' \/ (Head(kernel).path = p /\ Head(kernel).op \in Back)
         /\ QueueTrue(p) /\ Head(kernel).path = p /\ Head(kernel).op \in Gone => AfterBuffer(p)'
<1>0. /\ \A i \in DOMAIN kernel : \/ kernel[i] = Head(kernel) /\ i = 1
                                  \/ i - 1 \in DOMAIN kernel' /\ kernel'[i - 1] = kernel[i]
      /\ \A i \in DOMAIN kernel' : i + 1 \in DOMAIN kernel /\ kernel[i + 1] = kernel'[i]
      /\ 1 \in DOMAIN kernel /\ kernel[1] = Head(kernel)
      /\ DOMAIN kernel \subseteq Nat /\ DOMAIN kernel' \subseteq Nat
  <2>1. kernel' \in Seq(Raws)
    BY PoppedIs
  <2>2. DOMAIN kernel \subseteq Nat /\ DOMAIN kernel' \subseteq Nat
    BY <2>1
  <2> QED
    BY <2>2, PoppedIs
<1>1. \A j \in DOMAIN kernel : Returns(p, j) /\ j # 1 => j - 1 \in DOMAIN kernel' /\ Returns(p, j - 1)'
  BY <1>0 DEF Returns
<1>2. ASSUME QueueTrue(p) PROVE QueueTrue(p)'
  <2> SUFFICES ASSUME NEW i \in DOMAIN kernel', kernel'[i].path = p, kernel'[i].op \in Gone
               PROVE  \E j \in DOMAIN kernel' : j > i /\ Returns(p, j)'
    BY DEF QueueTrue
  <2>1. PICK j \in DOMAIN kernel : j > i + 1 /\ Returns(p, j)
    BY <1>0, <1>2 DEF QueueTrue
  <2>2. j # 1 /\ j - 1 > i
    BY <1>0, <2>1
  <2> QED
    BY <1>1, <2>1, <2>2
<1>3. AfterBuffer(p) => AfterBuffer(p)' \/ (Head(kernel).path = p /\ Head(kernel).op \in Back)
  BY <1>0, <1>1 DEF AfterBuffer, Returns
<1>4. ASSUME QueueTrue(p), Head(kernel).path = p, Head(kernel).op \in Gone PROVE AfterBuffer(p)'
  <2>1. PICK j \in DOMAIN kernel : j > 1 /\ Returns(p, j)
    BY <1>0, <1>4 DEF QueueTrue
  <2>2. j # 1
    BY <1>0, <2>1
  <2> QED
    BY <1>1, <2>1, <2>2 DEF AfterBuffer
<1> QED
  BY <1>2, <1>3, <1>4

LEMMA HandleKeeps ==
  ASSUME LInv, Handle, lost' = lost, voided' = voided \cup Cancelled(pending, News),
         UNCHANGED <<primary, taken>>
  PROVE  OldNews' /\ NothingFallsBetween'
<1>0. /\ Sound /\ OldNews /\ NothingFallsBetween /\ kernel \in Seq(Raws) /\ kernel # <<>>
      /\ pending \in Batches /\ News \in Batches /\ Nested \subseteq Paths
      /\ kernel' = Tail(kernel) /\ pending' = Recorded(pending, News)
      /\ UNCHANGED <<disk, watching, degraded, snap, batch, events, closed>>
      /\ dir' = IF Head(kernel).op = "mkdir" THEN "watched" ELSE dir
  <2>1. Sound /\ kernel # <<>>
    BY DEF LInv, Sound, Handle
  <2> QED
    BY <2>1, NewsIs, WatcherAssumption DEF LInv, Sound, TypeOK, WatcherTypeOK, Handle
<1>1. ASSUME NEW p \in Paths, Listing(p) PROVE Listing(p)' \/ News[p] = "create"
  <2>1. CASE Head(kernel).op = "mkdir"
    BY <1>0, <1>1, <2>1, NewsIs DEF Listing
  <2>2. CASE Head(kernel).op # "mkdir"
    <3>1. PICK i \in DOMAIN kernel : kernel[i].op = "mkdir"
      BY <1>1 DEF Listing
    <3>2. i - 1 \in DOMAIN kernel' /\ kernel'[i - 1].op = "mkdir"
      BY <1>0, <2>2, <3>1, PoppedIs
    <3> QED
      BY <1>0, <1>1, <2>2, <3>2 DEF Listing
  <2> QED
    BY <2>1, <2>2
<1>2. ASSUME NEW p \in Paths
      PROVE  /\ News[p] = "none" => pending'[p] = pending[p]
             /\ News[p] \in Back => pending'[p] \in Back
             /\ News[p] \notin Gone /\ pending[p] \in Back => pending'[p] \in Back
             /\ pending'[p] \in Gone => News[p] \in Gone \/ pending[p] \in Gone
             /\ p \in In(pending) \cup In(News) => p \in In(pending)' \/ p \in voided'
  <2>1. In(pending)' = In(Recorded(pending, News))
    BY <1>0 DEF In
  <2> QED
    BY <1>0, <2>1, RecordedIs
<1>3. OldNews'
  <2> SUFFICES ASSUME NEW p \in Paths, ~closed, disk[p] # 0, p \notin lost \cup voided',
                      ~Polling(p)', ~Listing(p)'
               PROVE  Ordered(p)'
    BY <1>0 DEF OldNews
  <2>1. p \notin lost \cup voided /\ ~Polling(p)
    BY <1>0 DEF Polling
  <2>2. CASE Listing(p)
    <3>1. pending'[p] \in Back
      BY <1>1, <1>2, <2>2 DEF Back
    <3>2. p \notin PathsOf(kernel)
      BY <1>0, <2>2 DEF Listing, Sound, Flow
    <3>3. QueueTrue(p)
      BY <3>2 DEF QueueTrue, PathsOf
    <3> QED
      BY <1>0, <3>1, <3>3, PoppedTrue, BufferedOrdered
  <2>3. CASE ~Listing(p)
    <3>1. Ordered(p)
      BY <1>0, <2>1, <2>3 DEF OldNews
    <3>2. QueueTrue(p)'
      BY <1>0, <3>1, PoppedTrue DEF Ordered
    <3>3. CASE News[p] \in Back
      BY <1>2, <3>2, <3>3, BufferedOrdered
    <3>4. CASE News[p] \in Gone
      <4>1. Head(kernel).op # "mkdir" /\ Head(kernel).path = p /\ Head(kernel).op \in Gone
        BY <1>0, <3>4, NewsIs DEF Gone
      <4>2. AfterBuffer(p)'
        BY <1>0, <3>1, <4>1, PoppedTrue DEF Ordered
      <4> QED
        BY <3>2, <4>2 DEF Ordered, BufferTrue, BatchTrue, SentTrue, TakenTrue, AfterBatch, AfterSent
    <3>5. CASE News[p] \notin Back \cup Gone
      <4>1. ~(Head(kernel).path = p /\ Head(kernel).op \in Back)
        <5>1. ASSUME Head(kernel).path = p, Head(kernel).op \in Back PROVE News[p] \in Back
          BY <1>0, <5>1, NewsIs DEF Back
        <5> QED
          BY <3>5, <5>1
      <4>2. AfterBuffer(p) => AfterBuffer(p)'
        BY <1>0, <4>1, PoppedTrue
      <4>3. AfterBatch(p) => AfterBatch(p)'
        BY <1>2, <3>5, <4>2 DEF AfterBatch
      <4>4. AfterSent(p) => AfterSent(p)'
        BY <1>0, <4>3 DEF AfterSent
      <4>5. BufferTrue(p)'
        BY <1>2, <3>1, <3>5, <4>2 DEF Ordered, BufferTrue
      <4> QED
        BY <1>0, <3>1, <3>2, <4>3, <4>4, <4>5 DEF Ordered, BatchTrue, SentTrue, TakenTrue
    <3> QED
      BY <3>3, <3>4, <3>5
  <2> QED
    BY <2>2, <2>3
<1>4. NothingFallsBetween'
  <2> SUFFICES ASSUME NEW p \in Paths, primary[p] # disk[p], ~closed
               PROVE  Expected(p)' \/ p \in lost' \cup voided'
    BY <1>0 DEF NothingFallsBetween
  <2>1. Expected(p) \/ p \in lost \cup voided
    BY <1>0 DEF NothingFallsBetween
  <2>2. CASE p \in In(pending) \cup In(News)
    BY <1>2, <2>2 DEF Expected, Underway
  <2>3. CASE p \in PathsOf(kernel)
    <3>1. PICK i \in DOMAIN kernel : kernel[i].path = p
      BY <2>3 DEF PathsOf
    <3>2. CASE i - 1 \in DOMAIN kernel' /\ kernel'[i - 1] = kernel[i]
      BY <3>1, <3>2 DEF Expected, Underway, PathsOf
    <3>3. CASE kernel[i] = Head(kernel)
      <4>1. Head(kernel).op # "mkdir"
        <5>1. Head(kernel) \in Raws
          BY <1>0, PoppedIs
        <5> QED
          BY <3>1, <3>3, <5>1, RawIs
      <4>2. News[p] \in Ops
        BY <1>0, <3>1, <3>3, <4>1, NewsIs
      <4>3. p \in In(News)
        BY <4>2 DEF In, Ops
      <4> QED
        BY <2>2, <4>3
    <3> QED
      BY <1>0, <3>2, <3>3, PoppedIs
  <2>4. CASE Listing(p)
    <3>1. Listing(p)' \/ p \in In(News)
      BY <1>1, <2>4 DEF In
    <3> QED
      BY <2>2, <3>1 DEF Expected, Underway, Listing
  <2>5. CASE p \in In(batch) \cup In(taken) \/ (\E i \in DOMAIN events : p \in In(events[i])) \/ Polling(p)
    BY <1>0, <2>5 DEF Expected, Underway, Polling, In
  <2> QED
    BY <2>1, <2>2, <2>3, <2>4, <2>5 DEF Expected, Underway, Listing, Polling
<1> QED
  BY <1>3, <1>4

LEMMA DegradeKeeps ==
  ASSUME LInv, Degrade, lost' = lost \cup Queued, voided' = voided, UNCHANGED <<primary, taken>>
  PROVE  OldNews' /\ NothingFallsBetween'
<1>0. /\ Sound /\ OldNews /\ NothingFallsBetween /\ kernel # <<>> /\ ~degraded /\ Nested \subseteq Paths
      /\ kernel' = <<>> /\ degraded' = TRUE /\ snap' = disk
      /\ UNCHANGED <<disk, dir, watching, pending, batch, events, closed>>
  <2>1. Sound /\ kernel # <<>>
    BY DEF LInv, Sound, Degrade
  <2> QED
    BY <2>1, WatcherAssumption DEF LInv, Sound, Flow, Degrade
<1>1. DOMAIN kernel' = {}
  BY <1>0
<1>2. OldNews'
  <2> SUFFICES ASSUME NEW p \in Paths, ~closed, disk[p] # 0, p \notin lost \cup voided \cup Queued
               PROVE  Ordered(p)'
    BY <1>0 DEF OldNews
  <2>1. p \notin PathsOf(kernel) /\ ~Polling(p)
    BY <1>0 DEF Queued, Polling
  <2>2. ~AfterBuffer(p) /\ QueueTrue(p)'
    BY <1>1, <2>1 DEF AfterBuffer, Returns, PathsOf, QueueTrue
  <2>3. CASE Listing(p)
    <3>1. Silent(p)
      BY <1>0, <2>3 DEF Listing, Sound, Flow, Silent
    <3>2. Silent(p)'
      BY <1>0, <3>1 DEF Silent
    <3>3. "none" \notin Gone
      BY DEF Gone
    <3> QED
      BY <2>2, <3>2, <3>3 DEF Silent, Ordered, BufferTrue, BatchTrue, SentTrue, TakenTrue
  <2>4. CASE ~Listing(p)
    <3>1. Ordered(p)
      BY <1>0, <2>1, <2>4 DEF OldNews
    <3> QED
      BY <1>0, <2>2, <3>1
         DEF Ordered, BufferTrue, BatchTrue, SentTrue, TakenTrue, AfterBatch, AfterSent
  <2> QED
    BY <2>3, <2>4
<1>3. NothingFallsBetween'
  <2> SUFFICES ASSUME NEW p \in Paths, primary[p] # disk[p], ~closed, p \notin lost \cup voided \cup Queued
               PROVE  Expected(p)'
    BY <1>0 DEF NothingFallsBetween
  <2>1. Expected(p)
    BY <1>0 DEF NothingFallsBetween
  <2>2. p \notin PathsOf(kernel) /\ ~(p \in Nested /\ dir = "made")
    BY DEF Queued
  <2> QED
    BY <1>0, <2>1, <2>2 DEF Expected, Underway, In
<1> QED
  BY <1>2, <1>3

LEMMA PollKeeps ==
  ASSUME LInv, PollOnce, lost' = lost, voided' = voided \cup Cancelled(pending, Differences),
         UNCHANGED <<primary, taken>>
  PROVE  OldNews' /\ NothingFallsBetween'
<1>0. /\ Sound /\ OldNews /\ NothingFallsBetween /\ kernel = <<>> /\ watching /\ degraded
      /\ pending \in Batches /\ snap' = disk /\ pending' = Recorded(pending, Differences)
      /\ UNCHANGED <<disk, dir, kernel, watching, degraded, batch, events, closed>>
  BY DEF LInv, Sound, Flow, TypeOK, WatcherTypeOK, PollOnce
<1>1. DOMAIN kernel = {} /\ DOMAIN kernel' = {}
  BY <1>0
<1>2. ASSUME NEW p \in Paths
      PROVE  /\ disk[p] = snap[p] => pending'[p] = pending[p]
             /\ disk[p] # snap[p] /\ disk[p] # 0 => pending'[p] \in Back
             /\ disk[p] # snap[p] \/ p \in In(pending) => p \in In(pending)' \/ p \in voided'
  <2>1. In(pending)' = In(Recorded(pending, Differences))
    BY <1>0 DEF In
  <2>2. disk[p] # snap[p] => p \in In(Differences)
    BY DifferencesAre DEF In
  <2> QED
    BY <1>0, <2>1, <2>2, DifferencesAre, RecordedIs
<1>3. OldNews'
  <2> SUFFICES ASSUME NEW p \in Paths, ~closed, disk[p] # 0, p \notin lost \cup voided'
               PROVE  Ordered(p)'
    BY <1>0 DEF OldNews
  <2>1. QueueTrue(p)' /\ ~Listing(p)
    BY <1>1 DEF QueueTrue, Listing
  <2>2. CASE disk[p] = snap[p]
    <3>1. Ordered(p)
      BY <1>0, <2>1, <2>2 DEF OldNews, Polling
    <3>2. pending'[p] = pending[p]
      BY <1>2, <2>2
    <3>3. AfterBuffer(p)' <=> AfterBuffer(p)
      BY <1>1 DEF AfterBuffer
    <3> QED
      BY <1>0, <2>1, <3>1, <3>2, <3>3
         DEF Ordered, BufferTrue, BatchTrue, SentTrue, TakenTrue, AfterBatch, AfterSent
  <2>3. CASE disk[p] # snap[p]
    BY <1>2, <2>1, <2>3, BufferedOrdered
  <2> QED
    BY <2>2, <2>3
<1>4. NothingFallsBetween'
  <2> SUFFICES ASSUME NEW p \in Paths, primary[p] # disk[p], ~closed
               PROVE  Expected(p)' \/ p \in lost' \cup voided'
    BY <1>0 DEF NothingFallsBetween
  <2>1. Expected(p) \/ p \in lost \cup voided
    BY <1>0 DEF NothingFallsBetween
  <2>2. CASE p \in In(pending) \/ disk[p] # snap[p]
    BY <1>2, <2>2 DEF Expected, Underway
  <2>3. CASE ~(p \in In(pending) \/ disk[p] # snap[p])
    BY <1>0, <1>1, <2>1, <2>3 DEF Expected, Underway, PathsOf, In
  <2> QED
    BY <2>2, <2>3
<1> QED
  BY <1>3, <1>4

(* What is buffered becomes the batch that is sent.                        *)
LEMMA FireKeeps ==
  ASSUME LInv, Fire, UNCHANGED <<lost, voided, primary, taken>>
  PROVE  OldNews' /\ NothingFallsBetween'
<1>0. /\ OldNews /\ NothingFallsBetween /\ batch = Nothing
      /\ batch' = pending /\ pending' = Nothing
      /\ UNCHANGED <<disk, dir, kernel, watching, degraded, snap, events, closed>>
  BY DEF LInv, TypeOK, WatcherTypeOK, Fire
<1>1. ASSUME NEW p \in Paths PROVE batch[p] = "none" /\ pending'[p] = "none"
  BY <1>0, NothingIs
<1>2. "none" \notin Back /\ "none" \notin Gone
  BY DEF Back, Gone
<1>3. OldNews'
  <2> SUFFICES ASSUME NEW p \in Paths, ~closed, disk[p] # 0, p \notin lost \cup voided,
                      ~Polling(p)', ~Listing(p)'
               PROVE  Ordered(p)'
    BY <1>0 DEF OldNews
  <2>1. Ordered(p)
    BY <1>0 DEF OldNews, Polling, Listing
  <2>2. (AfterBuffer(p)' <=> AfterBuffer(p)) /\ (QueueTrue(p)' <=> QueueTrue(p))
    BY <1>0 DEF AfterBuffer, QueueTrue, Returns
  <2>3. AfterSent(p) => AfterSent(p)'
    BY <1>0, <1>1, <1>2, <2>2 DEF AfterSent, AfterBatch
  <2> QED
    BY <1>0, <1>1, <1>2, <2>1, <2>2, <2>3
       DEF Ordered, BufferTrue, BatchTrue, SentTrue, TakenTrue, AfterBatch
<1>4. NothingFallsBetween'
  <2> SUFFICES ASSUME NEW p \in Paths, Expected(p) PROVE Expected(p)'
    BY <1>0 DEF NothingFallsBetween
  <2> QED
    BY <1>0, <1>1 DEF Expected, Underway, In
<1> QED
  BY <1>3, <1>4

(* The batch goes into the channel.                                        *)
LEMMA SendKeeps ==
  ASSUME LInv, Send, UNCHANGED <<lost, voided, primary, taken>>
  PROVE  OldNews' /\ NothingFallsBetween'
<1>0. /\ OldNews /\ NothingFallsBetween /\ batch \in Batches \ {Nothing}
      /\ events \in Seq(Batches \ {Nothing})
      /\ events' = Append(events, batch) /\ batch' = Nothing
      /\ UNCHANGED <<disk, dir, kernel, watching, degraded, snap, pending, closed>>
  BY DEF LInv, TypeOK, WatcherTypeOK, Send
<1>1. ASSUME NEW p \in Paths PROVE batch'[p] = "none"
  BY <1>0, NothingIs
<1>2. /\ Len(events') = Len(events) + 1 /\ Len(events) \in Nat
      /\ events' \in Seq(Batches \ {Nothing})
      /\ \A i \in 1..Len(events) : events'[i] = events[i]
      /\ events'[Len(events) + 1] = batch
  BY <1>0, AppendProperties
<1>3. /\ \A i \in DOMAIN events' : i \in DOMAIN events \/ i = Len(events) + 1
      /\ \A i \in DOMAIN events : i \in DOMAIN events' /\ events'[i] = events[i]
      /\ Len(events) + 1 \in DOMAIN events' /\ \A i \in DOMAIN events : Len(events) + 1 > i
  BY <1>0, <1>2
<1>4. OldNews'
  <2> SUFFICES ASSUME NEW p \in Paths, ~closed, disk[p] # 0, p \notin lost \cup voided,
                      ~Polling(p)', ~Listing(p)'
               PROVE  Ordered(p)'
    BY <1>0 DEF OldNews
  <2>1. Ordered(p)
    BY <1>0 DEF OldNews, Polling, Listing
  <2>2. (AfterBuffer(p)' <=> AfterBuffer(p)) /\ (QueueTrue(p)' <=> QueueTrue(p))
    BY <1>0 DEF AfterBuffer, QueueTrue, Returns
  <2>3. (AfterBatch(p)' <=> AfterBatch(p)) /\ (BufferTrue(p)' <=> BufferTrue(p)) /\ BatchTrue(p)'
    BY <1>0, <1>1, <2>2 DEF AfterBatch, BufferTrue, BatchTrue, Gone
  <2>4. AfterSent(p) => AfterSent(p)' \/ events'[Len(events) + 1][p] \in Back
    BY <1>2, <2>3 DEF AfterSent
  <2>5. TakenTrue(p)'
    <3>1. taken[p] \in Gone => AfterSent(p) \/ \E j \in DOMAIN events : events[j][p] \in Back
      BY <2>1 DEF Ordered, TakenTrue
    <3>2. AfterSent(p) => AfterSent(p)' \/ \E j \in DOMAIN events' : events'[j][p] \in Back
      BY <1>3, <2>4
    <3>3. (\E j \in DOMAIN events : events[j][p] \in Back) => \E j \in DOMAIN events' : events'[j][p] \in Back
      BY <1>3
    <3> QED
      BY <3>1, <3>2, <3>3 DEF TakenTrue
  <2>6. SentTrue(p)'
    <3> SUFFICES ASSUME NEW i \in DOMAIN events', events'[i][p] \in Gone
                 PROVE  AfterSent(p)' \/ \E j \in DOMAIN events' : j > i /\ events'[j][p] \in Back
      BY DEF SentTrue
    <3>1. CASE i \in DOMAIN events
      <4>1. AfterSent(p) \/ \E j \in DOMAIN events : j > i /\ events[j][p] \in Back
        BY <1>3, <2>1, <3>1 DEF Ordered, SentTrue
      <4>2. AfterSent(p) => AfterSent(p)' \/ \E j \in DOMAIN events' : j > i /\ events'[j][p] \in Back
        BY <1>3, <2>4, <3>1
      <4>3. (\E j \in DOMAIN events : j > i /\ events[j][p] \in Back)
               => \E j \in DOMAIN events' : j > i /\ events'[j][p] \in Back
        BY <1>3
      <4> QED
        BY <4>1, <4>2, <4>3
    <3>2. CASE i = Len(events) + 1
      <4>1. AfterBatch(p)
        BY <1>2, <2>1, <3>2 DEF Ordered, BatchTrue
      <4> QED
        BY <2>3, <4>1 DEF AfterSent
    <3> QED
      BY <1>3, <3>1, <3>2
  <2> QED
    BY <2>1, <2>2, <2>3, <2>5, <2>6 DEF Ordered
<1>5. NothingFallsBetween'
  <2> SUFFICES ASSUME NEW p \in Paths, Expected(p) PROVE Expected(p)'
    BY <1>0 DEF NothingFallsBetween
  <2>1. CASE p \in In(batch)
    <3>1. p \in In(events'[Len(events) + 1])
      BY <1>2, <2>1
    <3> QED
      BY <1>3, <3>1 DEF Expected, Underway, In
  <2>2. CASE \E i \in DOMAIN events : p \in In(events[i])
    <3>1. \E i \in DOMAIN events' : p \in In(events'[i])
      BY <1>3, <2>2
    <3> QED
      BY <3>1 DEF Expected, Underway, In
  <2>3. CASE p \notin In(batch) /\ ~\E i \in DOMAIN events : p \in In(events[i])
    BY <1>0, <2>3 DEF Expected, Underway, In
  <2> QED
    BY <2>1, <2>2, <2>3
<1> QED
  BY <1>4, <1>5

LEMMA StillKeeps ==
  ASSUME LInv, Leave \/ Tick \/ StartWatch \/ Close, UNCHANGED <<lost, voided, primary, taken>>
  PROVE  OldNews' /\ NothingFallsBetween'
<1>0. Sound /\ OldNews /\ NothingFallsBetween
  BY DEF LInv, Sound
<1>1. CASE Leave \/ Close
  BY <1>1 DEF Leave, Close, OldNews, NothingFallsBetween
<1>2. CASE Tick \/ StartWatch
  <2>0. /\ UNCHANGED <<disk, kernel, pending, batch, events, closed>>
        /\ \/ UNCHANGED <<dir, watching, degraded, snap>>
           \/ ~watching /\ kernel = <<>> /\ snap' = disk
    BY <1>0, <1>2 DEF Tick, StartWatch, Sound, Flow
  <2>1. ASSUME NEW p \in Paths
        PROVE  /\ Polling(p)' <=> Polling(p)
               /\ Listing(p)' <=> Listing(p)
    BY <2>0 DEF Polling, Listing
  <2>2. ASSUME NEW p \in Paths PROVE Ordered(p) => Ordered(p)'
    BY <2>0 DEF Ordered, QueueTrue, Returns, BufferTrue, BatchTrue, SentTrue, TakenTrue,
                AfterSent, AfterBatch, AfterBuffer
  <2>3. OldNews'
    BY <1>0, <2>0, <2>1, <2>2 DEF OldNews
  <2>4. ASSUME NEW p \in Paths, Expected(p) PROVE Expected(p)'
    <3>1. CASE Polling(p) \/ Listing(p)
      <4>1. Polling(p)' \/ Listing(p)'
        BY <2>1, <3>1
      <4> QED
        BY <4>1 DEF Expected, Underway, Polling, Listing
    <3>2. CASE ~(Polling(p) \/ Listing(p))
      BY <2>0, <2>4, <3>2 DEF Expected, Underway, Polling, Listing, In, PathsOf
    <3> QED
      BY <3>1, <3>2
  <2> QED
    BY <1>0, <2>0, <2>3, <2>4 DEF NothingFallsBetween
<1> QED
  BY <1>1, <1>2


(* The watcher's steps together.                                           *)
LEMMA WatchSound ==
  ASSUME Sound, WatchStep, UNCHANGED <<indexVars, loopVars, twins, edits>>,
         lost' \cup voided' \subseteq Paths
  PROVE  Sound'
<1>1. UNCHANGED <<primary, derived, failed, consumer, taken>>
  BY DEF indexVars, loopVars
<1>2. WatcherTypeOK' /\ Flow'
  BY <1>1, WatchTypes, WatchFlow
<1>3. disk' = disk
  BY DEF WatchStep, Handle, Degrade, PollOnce, Fire, Send, Leave, Tick, StartWatch, Close
<1>4. {disk', snap', primary', derived'} \subseteq [Paths -> 0..edits'] /\ edits' \in 1..MaxEdits
  BY <1>2 DEF Flow, Sound, TypeOK
<1>5. 0..edits' \subseteq 0..MaxEdits
  BY <1>4, LiveIndexAssumption
<1>6. \A f \in {disk', snap', primary', derived'} : f \in [Paths -> 0..MaxEdits]
  BY <1>4, <1>5
<1>7. TypeOK'
  BY <1>1, <1>2, <1>3, <1>4, <1>6 DEF Sound, TypeOK
<1> QED
  BY <1>2, <1>7 DEF Sound

LEMMA WatchKeeps ==
  ASSUME LInv, Running \/ Toggled
  PROVE  Sound' /\ OldNews' /\ NothingFallsBetween'
<1>0. Sound /\ lost \cup voided \subseteq Paths
  BY DEF LInv, Sound, TypeOK
<1>1. ASSUME NEW b, NEW new PROVE Cancelled(b, new) \subseteq Paths
  BY DEF Cancelled, In
<1>2. Queued \subseteq Paths
  BY DEF Queued
<1>3. CASE Watch(kernel # <<>> /\ Handle, lost, voided \cup Cancelled(pending, News))
  <2>1. /\ Handle /\ lost' = lost /\ voided' = voided \cup Cancelled(pending, News)
        /\ UNCHANGED <<indexVars, loopVars, twins, edits>> /\ UNCHANGED <<primary, taken>>
    BY <1>3 DEF Watch, indexVars, loopVars
  <2>2. Sound'
    BY <1>0, <1>1, <2>1, WatchSound DEF WatchStep
  <2> QED
    BY <2>1, <2>2, HandleKeeps
<1>4. CASE Watch(Degrade, lost \cup Queued, voided)
  <2>1. /\ Degrade /\ lost' = lost \cup Queued /\ voided' = voided
        /\ UNCHANGED <<indexVars, loopVars, twins, edits>> /\ UNCHANGED <<primary, taken>>
    BY <1>4 DEF Watch, indexVars, loopVars
  <2>2. Sound'
    BY <1>0, <1>2, <2>1, WatchSound DEF WatchStep
  <2> QED
    BY <2>1, <2>2, DegradeKeeps
<1>5. CASE Watch(PollOnce, lost, voided \cup Cancelled(pending, Differences))
  <2>1. /\ PollOnce /\ lost' = lost /\ voided' = voided \cup Cancelled(pending, Differences)
        /\ UNCHANGED <<indexVars, loopVars, twins, edits>> /\ UNCHANGED <<primary, taken>>
    BY <1>5 DEF Watch, indexVars, loopVars
  <2>2. Sound'
    BY <1>0, <1>1, <2>1, WatchSound DEF WatchStep
  <2> QED
    BY <2>1, <2>2, PollKeeps
<1>6. CASE Watch(Fire \/ Send \/ Leave \/ Tick, lost, voided) \/ Toggled
  <2>1. /\ (Fire \/ Send \/ Leave \/ Tick \/ StartWatch \/ Close)
        /\ UNCHANGED <<lost, voided, primary, taken>> /\ UNCHANGED <<indexVars, loopVars, twins, edits>>
    BY <1>6 DEF Watch, Toggled, indexVars, loopVars
  <2>2. Sound'
    BY <1>0, <2>1, WatchSound DEF WatchStep
  <2> QED
    BY <2>1, <2>2, FireKeeps, SendKeeps, StillKeeps
<1> QED
  BY <1>3, <1>4, <1>5, <1>6 DEF Running

-----------------------------------------------------------------------------
(* The index.                                                              *)
LEMMA FoldedIs ==
  ASSUME Sound, NEW b \in Batches
  PROVE  /\ Folded(b) \in [Paths -> 0..edits]
         /\ \A p \in Paths : /\ b[p] = "none" => Folded(b)[p] = primary[p]
                             /\ b[p] \in Gone => Folded(b)[p] = 0
                             /\ b[p] # "none" /\ b[p] \notin Gone => Folded(b)[p] = disk[p]
<1>1. primary \in [Paths -> 0..edits] /\ disk \in [Paths -> 0..edits] /\ 0 \in 0..edits
  BY LiveIndexAssumption DEF Sound, Flow, TypeOK
<1>2. \A p \in Paths : Reload(primary, p)[p] = disk[p]
  BY <1>1 DEF Reload
<1>3. "none" \notin Gone
  BY DEF Gone
<1> QED
  BY <1>1, <1>2, <1>3 DEF Folded

(* A step that leaves the tree and the watcher alone.                      *)
LEMMA IndexSound ==
  ASSUME Sound, UNCHANGED <<disk, watcherVars, edits>>,
         primary' \in [Paths -> 0..edits], derived' \in [Paths -> 0..edits], failed' \in BOOLEAN,
         taken' \in {taken, Nothing}, (consumer' = "applying") = (taken' # Nothing),
         consumer' \in {"idle", "applying", "gone"},
         twins' \subseteq {p \in Paths : primary'[p] # disk[p]}, lost' \cup voided' \subseteq Paths
  PROVE  Sound'
<1>1. WatcherTypeOK'
  BY DEF Sound, TypeOK, WatcherTypeOK, watcherVars
<1>2. taken' \in Batches /\ \A p \in Paths : taken[p] = "none" => taken'[p] = "none"
  BY NothingIs DEF Sound, TypeOK
<1>3. UNCHANGED <<dir, kernel, watching, degraded, snap, pending, timer, age, loop, batch, events, closed>>
  BY DEF watcherVars
<1>4. {disk', snap', primary', derived'} \subseteq [Paths -> 0..edits'] /\ edits' \in 1..MaxEdits
  BY <1>3 DEF Flow, Sound, TypeOK
<1>5. 0..edits' \subseteq 0..MaxEdits
  BY <1>4, LiveIndexAssumption
<1>6. \A f \in {disk', snap', primary', derived'} : f \in [Paths -> 0..MaxEdits]
  BY <1>4, <1>5
<1>7. TypeOK'
  BY <1>1, <1>2, <1>4, <1>6 DEF TypeOK
<1>8. Flow'
  <2>1. PathsOf(kernel)' = PathsOf(kernel)
    BY <1>3 DEF PathsOf
  <2>2. \A p \in Nested : dir # "watched" => p \notin PathsOf(kernel) /\ (degraded \/ Silent(p))
    BY DEF Sound, Flow, Silent
  <2>3. \A p \in Paths : Silent(p) => Silent(p)'
    BY <1>2, <1>3 DEF Silent
  <2>4. \A p \in Nested : dir' # "watched" => p \notin PathsOf(kernel)' /\ (degraded' \/ Silent(p)')
    BY <1>3, <2>1, <2>2, <2>3, WatcherAssumption
  <2>5. /\ timer' # Stopped => age' + timer' <= MaxWindow
        /\ ~watching' \/ degraded' => kernel' = <<>>
        /\ degraded' => watching'
    BY <1>3 DEF Sound, Flow
  <2> QED
    BY <1>4, <2>4, <2>5 DEF Flow, Silent
<1> QED
  BY <1>7, <1>8 DEF Sound

(* What a step of the index leaves as it is.                               *)
LEMMA StillStages ==
  ASSUME UNCHANGED <<disk, watcherVars>>, NEW p \in Paths
  PROVE  /\ Underway(p)' <=> Underway(p)
         /\ Polling(p)' <=> Polling(p)
         /\ Listing(p)' <=> Listing(p)
         /\ Ordered(p) /\ (taken'[p] = taken[p] \/ taken'[p] = "none") => Ordered(p)'
<1>1. UNCHANGED <<disk, dir, kernel, watching, degraded, snap, pending, batch, events>>
  BY DEF watcherVars
<1>2. (Polling(p)' <=> Polling(p)) /\ (Listing(p)' <=> Listing(p))
  BY <1>1 DEF Polling, Listing
<1>3. Underway(p)' <=> Underway(p)
  BY <1>1 DEF Underway, PathsOf, In
<1>4. (AfterBuffer(p)' <=> AfterBuffer(p)) /\ (QueueTrue(p)' <=> QueueTrue(p))
  BY <1>1 DEF AfterBuffer, QueueTrue, Returns
<1>5. (AfterBatch(p)' <=> AfterBatch(p)) /\ (AfterSent(p)' <=> AfterSent(p))
  BY <1>1, <1>4 DEF AfterBatch, AfterSent
<1>6. /\ (BufferTrue(p)' <=> BufferTrue(p)) /\ (BatchTrue(p)' <=> BatchTrue(p))
      /\ (SentTrue(p)' <=> SentTrue(p))
  BY <1>1, <1>4, <1>5 DEF BufferTrue, BatchTrue, SentTrue
<1>7. TakenTrue(p) /\ (taken'[p] = taken[p] \/ taken'[p] = "none") => TakenTrue(p)'
  BY <1>1, <1>5 DEF TakenTrue, Gone
<1> QED
  BY <1>2, <1>3, <1>4, <1>6, <1>7 DEF Ordered

(* A path nothing is under way of has no old news.                         *)
LEMMA QuietOrdered ==
  ASSUME NEW p \in Paths, ~Underway(p), pending \in Batches, batch \in Batches,
         events \in Seq(Batches \ {Nothing})
  PROVE  /\ QueueTrue(p) /\ "none" = pending[p] /\ "none" = batch[p]
         /\ \A i \in DOMAIN events : events[i][p] = "none"
<1>1. /\ p \notin PathsOf(kernel) /\ p \notin In(pending) /\ p \notin In(batch)
      /\ \A i \in DOMAIN events : p \notin In(events[i])
  BY DEF Underway
<1> QED
  BY <1>1 DEF In, QueueTrue, PathsOf

(* A pass that ended well: what it leaves wrong is still to be heard of.   *)
LEMMA PassKeeps ==
  ASSUME LInv, UNCHANGED <<disk, watcherVars>>, Settle(primary', taken'),
         \/ taken' = taken
         \/ taken' = Nothing,
         \A p \in Paths : \/ primary'[p] = disk[p]
                          \/ primary'[p] = primary[p] /\ (taken[p] = "none" \/ taken' = taken)
                          \/ primary'[p] = 0 /\ taken[p] \in Gone
  PROVE  OldNews' /\ NothingFallsBetween'
<1> DEFINE right == {p \in Paths : primary'[p] = disk[p] /\ ~Underway(p) /\ taken'[p] = "none"}
<1>0. /\ OldNews /\ NothingFallsBetween /\ closed' = closed /\ disk' = disk
      /\ pending \in Batches /\ batch \in Batches /\ events \in Seq(Batches \ {Nothing})
      /\ UNCHANGED <<pending, batch, events>>
  BY DEF LInv, TypeOK, WatcherTypeOK, watcherVars
<1>1. lost' = lost \ right /\ voided' = voided \ right
  BY DEF Settle
<1>2. \A p \in Paths : p \in right <=> primary'[p] = disk[p] /\ ~Underway(p) /\ taken'[p] = "none"
  OBVIOUS
<1> HIDE DEF right
<1>3. \A p \in Paths : taken'[p] = taken[p] \/ taken'[p] = "none"
  BY NothingIs
<1>4. OldNews'
  <2> SUFFICES ASSUME NEW p \in Paths, ~closed, disk[p] # 0, p \notin lost' \cup voided',
                      ~Polling(p)', ~Listing(p)'
               PROVE  Ordered(p)'
    BY <1>0 DEF OldNews
  <2>1. ~Polling(p) /\ ~Listing(p)
    BY StillStages
  <2>2. CASE p \notin lost \cup voided
    <3>1. Ordered(p)
      BY <1>0, <2>1, <2>2 DEF OldNews
    <3> QED
      BY <1>3, <3>1, StillStages
  <2>3. CASE p \in lost \cup voided
    <3>1. ~Underway(p) /\ taken'[p] = "none"
      BY <1>1, <1>2, <2>3
    <3>2. /\ QueueTrue(p) /\ "none" = pending[p] /\ "none" = batch[p]
          /\ \A i \in DOMAIN events : events[i][p] = "none"
      BY <1>0, <3>1, QuietOrdered
    <3>3. QueueTrue(p)'
      BY <3>2 DEF watcherVars, QueueTrue, Returns
    <3>4. "none" \notin Gone
      BY DEF Gone
    <3> QED
      BY <1>0, <3>1, <3>2, <3>3, <3>4 DEF Ordered, BufferTrue, BatchTrue, SentTrue, TakenTrue
  <2> QED
    BY <2>2, <2>3
<1>5. NothingFallsBetween'
  <2> SUFFICES ASSUME NEW p \in Paths, primary'[p] # disk[p], ~closed, p \notin lost' \cup voided'
               PROVE  Expected(p)'
    BY <1>0 DEF NothingFallsBetween
  <2>1. p \notin lost \cup voided
    BY <1>1, <1>2
  <2>2. CASE primary'[p] = primary[p] /\ (taken[p] = "none" \/ taken' = taken)
    <3>1. Expected(p)
      BY <1>0, <2>1, <2>2 DEF NothingFallsBetween
    <3> QED
      BY <2>2, <3>1, StillStages DEF Expected, In
  <2>3. CASE primary'[p] = 0 /\ taken[p] \in Gone
    <3>1. CASE Polling(p) \/ Listing(p)
      BY <3>1, StillStages DEF Expected, Underway, Polling, Listing
    <3>2. CASE ~(Polling(p) \/ Listing(p))
      <4>1. TakenTrue(p)
        BY <1>0, <2>1, <2>3, <3>2 DEF OldNews, Ordered
      <4>2. AfterSent(p) \/ \E j \in DOMAIN events : events[j][p] \in Back
        BY <2>3, <4>1 DEF TakenTrue
      <4>3. "none" \notin Back
        BY DEF Back
      <4>4. AfterBuffer(p) => p \in PathsOf(kernel)
        BY DEF AfterBuffer, Returns, PathsOf
      <4>5. AfterSent(p) => p \in PathsOf(kernel) \cup In(pending) \cup In(batch)
        BY <4>3, <4>4 DEF AfterSent, AfterBatch, In
      <4>6. Underway(p)
        BY <4>2, <4>3, <4>5 DEF Underway, In
      <4> QED
        BY <4>6, StillStages DEF Expected
    <3> QED
      BY <3>1, <3>2
  <2> QED
    BY <2>2, <2>3
<1> QED
  BY <1>4, <1>5

(* Old news with a consumer that is done with them.                        *)
LEMMA FailKeeps ==
  ASSUME LInv, NEW p \in Paths, NEW part \in SUBSET In(taken), ApplyFails(p, part)
  PROVE  Sound' /\ OldNews' /\ NothingFallsBetween'
<1> DEFINE b == [q \in Paths |-> IF q \in part THEN taken[q] ELSE "none"]
<1>0. /\ Sound /\ OldNews /\ NothingFallsBetween /\ taken \in Batches
      /\ UNCHANGED <<disk, watcherVars, edits, derived, voided>>
      /\ primary' = Folded(b) /\ failed' = TRUE /\ lost' = lost \cup In(taken)
      /\ taken' = Nothing /\ consumer' = "idle"
      /\ twins' = {q \in twins : primary'[q] # disk[q]} /\ twins \subseteq Paths
  BY DEF LInv, Sound, TypeOK, ApplyFails, StillTree
<1>1. b \in Batches /\ \A q \in Paths : taken[q] = "none" => b[q] = "none"
  BY <1>0 DEF Batches
<1> HIDE DEF b
<1>2. primary' \in [Paths -> 0..edits] /\ \A q \in Paths : taken[q] = "none" => primary'[q] = primary[q]
  BY <1>0, <1>1, FoldedIs
<1>3. Sound'
  <2>1. derived' \in [Paths -> 0..edits] /\ lost' \cup voided' \subseteq Paths
    BY <1>0 DEF Sound, Flow, TypeOK, In
  <2> QED
    BY <1>0, <1>2, <2>1, IndexSound
<1>4. \A q \in Paths : taken'[q] = "none"
  BY <1>0, NothingIs
<1>5. OldNews'
  <2> SUFFICES ASSUME NEW q \in Paths, ~closed, disk[q] # 0, q \notin lost \cup voided,
                      ~Polling(q)', ~Listing(q)'
               PROVE  Ordered(q)'
    BY <1>0 DEF OldNews, watcherVars
  <2>1. ~Polling(q) /\ ~Listing(q)
    BY <1>0, StillStages
  <2>2. Ordered(q)
    BY <1>0, <2>1 DEF OldNews
  <2> QED
    BY <1>0, <1>4, <2>2, StillStages
<1>6. NothingFallsBetween'
  <2> SUFFICES ASSUME NEW q \in Paths, primary'[q] # disk[q], ~closed, q \notin lost \cup voided,
                      q \notin In(taken)
               PROVE  Expected(q)'
    BY <1>0 DEF NothingFallsBetween, watcherVars
  <2>1. primary[q] # disk[q]
    BY <1>2 DEF In
  <2>2. Underway(q)
    BY <1>0, <2>1 DEF NothingFallsBetween, Expected
  <2> QED
    BY <1>0, <2>2, StillStages DEF Expected
<1> QED
  BY <1>3, <1>5, <1>6

LEMMA PassIsKept ==
  ASSUME LInv, Apply \/ Reindex \/ \E p \in Paths : Freshen(p)
  PROVE  Sound' /\ OldNews' /\ NothingFallsBetween'
<1>0. /\ Sound /\ taken \in Batches /\ twins \subseteq Paths
      /\ consumer \in {"idle", "applying", "gone"} /\ (consumer = "applying") = (taken # Nothing)
      /\ {disk, primary} \subseteq [Paths -> 0..edits] /\ lost \cup voided \subseteq Paths
  BY DEF LInv, Sound, TypeOK, Flow
<1>1. ASSUME NEW entry \in [Paths -> 0..edits], Indexed(entry), Settle(entry, taken'), StillTree,
             \/ UNCHANGED loopVars
             \/ taken' = Nothing /\ consumer' = "idle",
             \A p \in Paths : \/ entry[p] = disk[p]
                              \/ entry[p] = primary[p] /\ (taken[p] = "none" \/ taken' = taken)
                              \/ entry[p] = 0 /\ taken[p] \in Gone
      PROVE  Sound' /\ OldNews' /\ NothingFallsBetween'
  <2>1. /\ primary' = entry /\ derived' = entry /\ failed' = FALSE
        /\ twins' = {p \in twins : entry[p] # disk[p]}
        /\ UNCHANGED <<disk, watcherVars, edits>>
    BY <1>1 DEF Indexed, StillTree
  <2>2. lost' \cup voided' \subseteq Paths
    BY <1>0, <1>1 DEF Settle
  <2>3. Sound'
    BY <1>0, <1>1, <2>1, <2>2, IndexSound DEF loopVars
  <2>4. OldNews' /\ NothingFallsBetween'
    BY <1>1, <2>1, PassKeeps DEF loopVars
  <2> QED
    BY <2>3, <2>4
<1>2. CASE Apply
  <2>1. /\ Indexed(Folded(taken)) /\ Settle(Folded(taken), taken') /\ StillTree
        /\ taken' = Nothing /\ consumer' = "idle"
    BY <1>2 DEF Apply
  <2> QED
    BY <1>0, <1>1, <2>1, FoldedIs
<1>3. CASE Reindex
  <2>1. Indexed(disk) /\ Settle(disk, taken') /\ StillTree /\ UNCHANGED loopVars
    BY <1>3 DEF Reindex, loopVars
  <2> QED
    BY <1>0, <1>1, <2>1
<1>4. ASSUME NEW q \in Paths, Freshen(q) PROVE Sound' /\ OldNews' /\ NothingFallsBetween'
  <2>1. /\ Indexed(Reload(primary, q)) /\ Settle(Reload(primary, q), taken') /\ StillTree
        /\ UNCHANGED loopVars /\ taken' = taken
    BY <1>4 DEF Freshen, loopVars
  <2>2. /\ Reload(primary, q) \in [Paths -> 0..edits]
        /\ \A p \in Paths : Reload(primary, q)[p] = IF p = q THEN disk[p] ELSE primary[p]
    BY <1>0 DEF Reload
  <2> QED
    BY <1>1, <2>1, <2>2
<1> QED
  BY <1>2, <1>3, <1>4

LEMMA QuitKeeps ==
  ASSUME LInv, Quit
  PROVE  Sound' /\ OldNews' /\ NothingFallsBetween'
<1>0. /\ Sound /\ OldNews /\ NothingFallsBetween
      /\ consumer = "idle" /\ consumer' = "gone"
      /\ UNCHANGED <<disk, watcherVars, primary, derived, failed, taken, twins, edits, lost, voided>>
  BY DEF LInv, Sound, Quit, indexVars, excuses
<1>1. Sound'
  BY <1>0, IndexSound DEF Sound, Flow, TypeOK
<1>2. OldNews'
  BY <1>0, StillStages DEF OldNews, watcherVars
<1>3. NothingFallsBetween'
  BY <1>0, StillStages DEF NothingFallsBetween, Expected, watcherVars
<1> QED
  BY <1>1, <1>2, <1>3

(* The loop takes the first batch of the channel.                          *)
LEMMA TakeKeeps ==
  ASSUME LInv, Take
  PROVE  Sound' /\ OldNews' /\ NothingFallsBetween'
<1>0. /\ Sound /\ OldNews /\ NothingFallsBetween /\ taken = Nothing
      /\ events \in Seq(Batches \ {Nothing}) /\ events # <<>> /\ Len(events) <= EventCap
      /\ taken' = Head(events) /\ events' = Tail(events) /\ consumer' = "applying"
      /\ UNCHANGED <<disk, dir, kernel, watching, degraded, snap, pending, timer, age, loop, batch,
                     closed, primary, derived, failed, twins, edits, lost, voided>>
  BY DEF LInv, Sound, TypeOK, WatcherTypeOK, Take, indexVars, excuses
<1>1. /\ events' \in Seq(Batches \ {Nothing}) /\ Len(events') = Len(events) - 1 /\ Len(events) \in Nat \ {0}
      /\ taken' \in Batches /\ taken' # Nothing /\ taken' = events[1]
      /\ \A i \in 1..(Len(events) - 1) : events'[i] = events[i + 1]
      /\ DOMAIN events = 1..Len(events)
  BY <1>0
<1>2. DOMAIN events' = 1..(Len(events) - 1) /\ 1 \in DOMAIN events
  BY <1>1
<1>3. /\ \A i \in DOMAIN events : i = 1 \/ (i - 1 \in DOMAIN events' /\ events'[i - 1] = events[i])
      /\ \A i \in DOMAIN events' : i + 1 \in DOMAIN events /\ events[i + 1] = events'[i]
      /\ DOMAIN events \subseteq Nat /\ DOMAIN events' \subseteq Nat
  <2>1. \A i \in 1..Len(events) : i = 1 \/ (i - 1 \in 1..(Len(events) - 1) /\ (i - 1) + 1 = i)
    BY <1>1
  <2>2. \A i \in 1..(Len(events) - 1) : i + 1 \in 1..Len(events)
    BY <1>1
  <2> QED
    BY <1>1, <1>2, <2>1, <2>2
<1>4. ASSUME NEW p \in Paths
      PROVE  /\ taken[p] = "none" /\ (Polling(p)' <=> Polling(p)) /\ (Listing(p)' <=> Listing(p))
             /\ Silent(p) => Silent(p)'
  BY <1>0, <1>1, <1>2, <1>3, NothingIs DEF Polling, Listing, Silent
<1>5. Sound'
  <2>1. WatcherTypeOK'
    <3>1. Len(events') <= EventCap
      BY <1>0, <1>1, WatcherAssumption
    <3> QED
      BY <1>0, <1>1, <3>1 DEF Sound, TypeOK, WatcherTypeOK
  <2>2. TypeOK'
    BY <1>0, <1>1, <2>1 DEF Sound, TypeOK
  <2>3. PathsOf(kernel)' = PathsOf(kernel)
    BY <1>0 DEF PathsOf
  <2>4. \A p \in Nested : dir' # "watched" => p \notin PathsOf(kernel)' /\ (degraded' \/ Silent(p)')
    <3>1. \A p \in Nested : dir # "watched" => p \notin PathsOf(kernel) /\ (degraded \/ Silent(p))
      BY <1>0 DEF Sound, Flow, Silent
    <3> QED
      BY <1>0, <1>4, <2>3, <3>1, WatcherAssumption
  <2>5. Flow'
    BY <1>0, <2>4 DEF Sound, Flow, Silent
  <2> QED
    BY <2>2, <2>5 DEF Sound
<1>6. OldNews'
  <2> SUFFICES ASSUME NEW p \in Paths, ~closed, disk[p] # 0, p \notin lost \cup voided,
                      ~Polling(p)', ~Listing(p)'
               PROVE  Ordered(p)'
    BY <1>0 DEF OldNews
  <2>1. Ordered(p)
    BY <1>0, <1>4 DEF OldNews
  <2>2. /\ (AfterBuffer(p)' <=> AfterBuffer(p)) /\ (QueueTrue(p)' <=> QueueTrue(p))
    BY <1>0 DEF AfterBuffer, QueueTrue, Returns
  <2>3. (AfterBatch(p)' <=> AfterBatch(p)) /\ (AfterSent(p)' <=> AfterSent(p))
    BY <1>0, <2>2 DEF AfterBatch, AfterSent
  <2>4. BufferTrue(p)' /\ BatchTrue(p)'
    BY <1>0, <2>1, <2>2, <2>3 DEF Ordered, BufferTrue, BatchTrue
  <2>5. ASSUME NEW i \in DOMAIN events, events[i][p] \in Gone
        PROVE  AfterSent(p)' \/ \E j \in DOMAIN events' : j > i - 1 /\ events'[j][p] \in Back
    <3>1. CASE AfterSent(p)
      BY <2>3, <3>1
    <3>2. CASE \E j \in DOMAIN events : j > i /\ events[j][p] \in Back
      <4>1. PICK j \in DOMAIN events : j > i /\ events[j][p] \in Back
        BY <3>2
      <4>2. j # 1 /\ j - 1 > i - 1
        BY <1>1, <4>1
      <4> QED
        BY <1>3, <4>1, <4>2
    <3> QED
      BY <2>1, <2>5, <3>1, <3>2 DEF Ordered, SentTrue
  <2>6. TakenTrue(p)'
    BY <1>1, <1>2, <2>5 DEF TakenTrue
  <2>7. SentTrue(p)'
    <3> SUFFICES ASSUME NEW i \in DOMAIN events', events'[i][p] \in Gone
                 PROVE  AfterSent(p)' \/ \E j \in DOMAIN events' : j > i /\ events'[j][p] \in Back
      BY DEF SentTrue
    <3>1. i + 1 \in DOMAIN events /\ events[i + 1][p] \in Gone /\ (i + 1) - 1 = i
      BY <1>3
    <3> QED
      BY <2>5, <3>1
  <2> QED
    BY <2>2, <2>1, <2>4, <2>6, <2>7 DEF Ordered
<1>7. NothingFallsBetween'
  <2> SUFFICES ASSUME NEW p \in Paths, Expected(p) PROVE Expected(p)'
    BY <1>0 DEF NothingFallsBetween
  <2>1. p \notin In(taken)
    BY <1>4 DEF In
  <2>2. CASE \E i \in DOMAIN events : p \in In(events[i])
    <3>1. PICK i \in DOMAIN events : p \in In(events[i])
      BY <2>2
    <3>2. CASE i = 1
      BY <1>1, <3>1, <3>2 DEF Expected, In
    <3>3. CASE i - 1 \in DOMAIN events' /\ events'[i - 1] = events[i]
      BY <3>1, <3>3 DEF Expected, Underway, In
    <3> QED
      BY <1>3, <3>2, <3>3
  <2>3. CASE ~\E i \in DOMAIN events : p \in In(events[i])
    BY <1>0, <2>1, <2>3 DEF Expected, Underway, PathsOf, In
  <2> QED
    BY <2>2, <2>3
<1> QED
  BY <1>5, <1>6, <1>7

-----------------------------------------------------------------------------
(* The two halves of the index, and what a read answers.                   *)
LEMMA HalvesAgree ==
  ASSUME LInv, [Next]_vars
  PROVE  ~failed' => derived' = primary'
<1>0. ~failed => derived = primary
  BY DEF LInv, ReadsAreFresh
<1>1. CASE UNCHANGED <<primary, derived, failed>>
  BY <1>0, <1>1
<1>2. CASE derived' = primary' \/ failed' = TRUE
  BY <1>2
<1>3. CASE UNCHANGED vars
  BY <1>1, <1>3 DEF vars, indexVars
<1>4. CASE Tree
  <2>1. ASSUME NEW now, NEW raw, External(now, raw) PROVE UNCHANGED <<primary, derived, failed>>
    BY <2>1 DEF External, indexVars
  <2>2. ASSUME NEW p, VaultWrite(p) \/ VaultDelete(p) PROVE derived' = primary'
    BY <2>2 DEF VaultWrite, VaultDelete, Vault
  <2>3. ASSUME NEW p, Touch(p) \/ MakeDir PROVE UNCHANGED <<primary, derived, failed>>
    BY <2>3 DEF Touch, MakeDir, indexVars
  <2> QED
    BY <1>1, <1>2, <1>4, <2>1, <2>2, <2>3 DEF Tree, Delete, Edit, Rename
<1>5. CASE Running \/ Toggled \/ Take \/ Quit
  BY <1>1, <1>5 DEF Running, Toggled, Watch, Take, Quit, indexVars
<1>6. CASE Apply \/ Reindex \/ \E p \in Paths : Freshen(p)
  BY <1>2, <1>6 DEF Apply, Reindex, Freshen, Indexed
<1>7. CASE \E p \in Paths, part \in SUBSET In(taken) : ApplyFails(p, part)
  BY <1>2, <1>7 DEF ApplyFails
<1> QED
  BY <1>3, <1>4, <1>5, <1>6, <1>7 DEF Next

LEMMA AnswersAreTrue ==
  ASSUME TypeOK', ~failed' => derived' = primary'
  PROVE  ReadsAreFresh'
<1> SUFFICES ASSUME ~failed', NEW p \in Paths, Readable(p)', p \notin twins'
             PROVE  Answer(p)' = disk'[p]
  BY DEF ReadsAreFresh
<1>1. derived' = primary' /\ primary' \in [Paths -> 0..MaxEdits] /\ disk' \in [Paths -> 0..MaxEdits]
  BY DEF TypeOK
<1>2. CASE Stale(p)'
  <2>1. Answer(p)' = Reload(primary, p)'[p]
    BY <1>2 DEF Answer
  <2> QED
    BY <1>1, <2>1 DEF Reload
<1>3. CASE ~Stale(p)'
  BY <1>1, <1>3 DEF Answer, Stale
<1> QED
  BY <1>2, <1>3

-----------------------------------------------------------------------------
(* The inductive invariant.                                                *)
LEMMA StartsRight == Init => LInv
<1> SUFFICES ASSUME Init PROVE LInv
  OBVIOUS
<1>0. /\ disk \in [Paths -> {0, 1}] /\ \A p \in Nested : disk[p] = 0
      /\ dir \in {"absent", "made", "watched"} /\ (dir # "watched" => dir = "absent")
      /\ kernel = <<>> /\ watching = FALSE /\ degraded = FALSE /\ snap = disk
      /\ pending = Nothing /\ timer = Stopped /\ age = 0
      /\ loop = "select" /\ batch = Nothing /\ events = <<>> /\ closed = FALSE
      /\ primary = disk /\ derived = disk /\ failed = FALSE /\ consumer = "idle" /\ taken = Nothing
      /\ twins = {} /\ edits = 1 /\ lost = {} /\ voided = {}
  BY DEF Init, WatcherInit
<1>1. /\ Nothing \in Batches /\ \A p \in Paths : Nothing[p] = "none"
      /\ 1 \in 1..MaxEdits /\ 0..1 \subseteq 0..MaxEdits
      /\ KernelQueue \in Nat /\ EventCap \in Nat /\ MaxWindow \in Nat /\ Nested \subseteq Paths
  BY NothingIs, LiveIndexAssumption, WatcherAssumption
<1>2. disk \in [Paths -> 0..edits] /\ disk \in [Paths -> 0..MaxEdits]
  BY <1>0, <1>1
<1>3. /\ <<>> \in Seq(Raws) /\ <<>> \in Seq(Batches \ {Nothing}) /\ Len(<<>>) = 0
      /\ DOMAIN kernel = {} /\ DOMAIN events = {} /\ PathsOf(kernel) = {}
  BY <1>0 DEF PathsOf
<1>4. WatcherTypeOK
  <2>1. Len(kernel) <= KernelQueue /\ Len(events) <= EventCap /\ age \in 0..MaxWindow
    BY <1>0, <1>1, <1>3
  <2>2. kernel \in Seq(Raws) /\ events \in Seq(Batches \ {Nothing}) /\ {pending, batch} \subseteq Batches
    BY <1>0, <1>1, <1>3
  <2> QED
    BY <1>0, <2>1, <2>2 DEF WatcherTypeOK
<1>5. TypeOK
  BY <1>0, <1>1, <1>2, <1>4 DEF TypeOK
<1>6. Flow
  BY <1>0, <1>1, <1>2, <1>3 DEF Flow
<1>7. \A p \in Paths : Ordered(p)
  <2>1. "none" \notin Gone
    BY DEF Gone
  <2> QED
    BY <1>0, <1>1, <1>3, <2>1
       DEF Ordered, QueueTrue, BufferTrue, BatchTrue, SentTrue, TakenTrue
<1>8. OldNews /\ NothingFallsBetween
  BY <1>0, <1>7 DEF OldNews, NothingFallsBetween
<1>9. ReadsAreFresh
  BY <1>0 DEF ReadsAreFresh, Answer, Stale
<1> QED
  BY <1>5, <1>6, <1>8, <1>9 DEF LInv

LEMMA TreeKeeps ==
  ASSUME LInv, Tree
  PROVE  Sound' /\ OldNews' /\ NothingFallsBetween'
<1>0. Sound /\ OldNews /\ NothingFallsBetween
  BY DEF LInv, Sound
<1>1. ASSUME NEW now, NEW raw, Changed(now, raw)
      PROVE  Sound' /\ OldNews' /\ NothingFallsBetween'
  <2>1. /\ Says(now, raw) /\ Change(now, raw) /\ Reported(now, raw) /\ taken' = taken
        /\ disk' = now
    BY <1>1 DEF Changed, loopVars, Change
  <2>2. primary \in [Paths -> 0..edits]
    BY <1>0 DEF Sound, Flow
  <2>3. \A p \in Paths : primary'[p] = primary[p] \/ primary'[p] = disk'[p]
    BY <1>1, <2>1, <2>2 DEF Changed, indexVars
  <2> QED
    BY <1>0, <1>1, <2>1, <2>3, ChangedSound, TreeOldNews, TreeFalls
<1> QED
  BY <1>0, <1>1, TreeChanges, QuietTree

LEMMA StaysRight == LInv /\ [Next]_vars => LInv'
<1> SUFFICES ASSUME LInv, [Next]_vars PROVE LInv'
  OBVIOUS
<1>1. Sound' /\ OldNews' /\ NothingFallsBetween'
  <2>1. CASE UNCHANGED vars
    BY <2>1 DEF LInv, vars, watcherVars, indexVars, loopVars, excuses, Sound, TypeOK, WatcherTypeOK, Flow,
                PathsOf, OldNews, Polling, Listing, Ordered, QueueTrue, BufferTrue, BatchTrue, SentTrue,
                TakenTrue, AfterSent, AfterBatch, AfterBuffer, Returns, NothingFallsBetween, Expected,
                Underway, In
  <2>2. CASE Next
    BY <2>2, TreeKeeps, WatchKeeps, TakeKeeps, PassIsKept, QuitKeeps, FailKeeps DEF Next
  <2> QED
    BY <2>1, <2>2
<1>2. ReadsAreFresh'
  BY <1>1, HalvesAgree, AnswersAreTrue DEF Sound
<1> QED
  BY <1>1, <1>2 DEF LInv, Sound

LEMMA AlwaysLInv == Spec => []LInv
BY StartsRight, StaysRight, PTL DEF Spec

(* The watcher, the loop and the index stay in their types.                *)
THEOREM LiveIndexTypeOK == Spec => []TypeOK
<1>1. LInv => TypeOK
  BY DEF LInv
<1> QED
  BY <1>1, AlwaysLInv, PTL

(* What the index is wrong about is on its way to it, or is one of the     *)
(* losses the code has no answer to: watch.go and watcher.go lose nothing  *)
(* between their queue, buffer, batches and the pass that reads them.      *)
THEOREM NothingIsForgotten == Spec => []NothingFallsBetween
<1>1. LInv => NothingFallsBetween
  BY DEF LInv
<1> QED
  BY <1>1, AlwaysLInv, PTL

(* The halves of the index agree after every pass that ended well, and a   *)
(* read that freshens first answers what the file holds.                   *)
THEOREM ReadsAnswerTheDisk == Spec => []ReadsAreFresh
<1>1. LInv => ReadsAreFresh
  BY DEF LInv
<1> QED
  BY <1>1, AlwaysLInv, PTL

-----------------------------------------------------------------------------
(* THE EVENT STREAM                                                        *)
-----------------------------------------------------------------------------
(* The ring holds the last events of this run of the server in their order,*)
(* and in the first run an event's number is its seq.                      *)
RingOK == /\ Len(ring) <= seq
          /\ \A i \in DOMAIN ring : ring[i].seq = seq - Len(ring) + i
          /\ restarts = 0 => seq = total /\ \A i \in DOMAIN ring : ring[i].number = ring[i].seq

(* What a publisher has to do, it has yet to do; the tab's connection is   *)
(* registered; and a replay begins with an empty list.                     *)
ConnOK == /\ \A p \in Publishers : /\ pub[p].pc = "full" => pub[p].full \in Conns
                                   /\ pub[p].pc # "full" => pub[p].full = 0
                                   /\ pub[p].pc = "idle" => pub[p].left = {}
          /\ conn # 0 => conn \in registered
          /\ conn <= opened /\ opened <= MaxConns
          /\ \A c \in Conns : asked[c] # NoSeq \/ c > opened => replay[c] = <<>>

(* The tab knows of the event, will hear of it, or refetched meanwhile.    *)
Covered(n) == n \in got \/ n <= fetched \/ (conn # 0 /\ Coming(conn, n))

StreamInv == restarts = 0 =>
    /\ conn # 0 => \A n \in (base + 1)..total : Covered(n)
    /\ ~blind /\ ~overtaken /\ conn # 0 => \A n \in 1..total : Covered(n)
    /\ ~blind /\ ~overtaken /\ conn = 0 /\ opened # 0 /\ cursor # NoSeq =>
          \A n \in 1..total : n \in got \/ n <= fetched \/ n > cursor

(* The frames that are on their way over connection c.                     *)
OnWay(c) == Range(replay[c]) \cup Range(control[c]) \cup Range(queued[c])

(* No frame, no cursor and no publisher is ahead of the hub.               *)
FramesOK == restarts = 0 =>
    /\ cursor # NoSeq => cursor <= total
    /\ \A p \in Publishers : pub[p].event.seq <= total
    /\ \A c \in Conns : \A frame \in OnWay(c) : frame.seq <= total

SInv == StreamTypeOK /\ RingOK /\ ConnOK /\ FramesOK /\ StreamInv

-----------------------------------------------------------------------------
(* Sequences and what they hold.                                           *)
LEMMA EntriesAre ==
  ASSUME NEW S, NEW s \in Seq(S)
  PROVE  /\ DOMAIN s = 1..Len(s) /\ Len(s) \in Nat
         /\ \A i \in 1..Len(s) : s[i] \in S /\ s[i] \in Range(s)
         /\ Range(s) \subseteq S
         /\ Range(s) = {s[i] : i \in 1..Len(s)}
  BY DEF Range

LEMMA AppendHas ==
  ASSUME NEW S, NEW s \in Seq(S), NEW e \in S
  PROVE  Append(s, e) \in Seq(S) /\ Range(Append(s, e)) = Range(s) \cup {e}
<1>1. /\ Append(s, e) \in Seq(S) /\ Len(Append(s, e)) = Len(s) + 1
      /\ \A i \in 1..Len(s) : Append(s, e)[i] = s[i]
      /\ Append(s, e)[Len(s) + 1] = e
  BY AppendProperties
<1>2. Len(s) \in Nat /\ \A i \in 1..Len(s) + 1 : i \in 1..Len(s) \/ i = Len(s) + 1
  BY EntriesAre
<1>3. \A i \in 1..Len(s) + 1 : Append(s, e)[i] \in Range(s) \cup {e}
  BY <1>1, <1>2, EntriesAre
<1>4. \A i \in 1..Len(s) + 1 : Append(s, e)[i] \in Range(Append(s, e))
  BY <1>1, EntriesAre
<1>5. Range(Append(s, e)) \subseteq Range(s) \cup {e}
  <2>1. Range(Append(s, e)) = {Append(s, e)[i] : i \in 1..Len(s) + 1}
    BY <1>1, EntriesAre
  <2> QED
    BY <1>3, <2>1
<1>6. Range(s) \subseteq Range(Append(s, e))
  <2>1. \A i \in 1..Len(s) : i \in 1..Len(s) + 1
    BY <1>2
  <2>2. \A i \in 1..Len(s) : s[i] \in Range(Append(s, e))
    BY <1>1, <1>4, <2>1
  <2> QED
    BY <2>2, EntriesAre
<1>7. e \in Range(Append(s, e))
  BY <1>1, <1>2, <1>4
<1> QED
  BY <1>1, <1>5, <1>6, <1>7

LEMMA ConcatHas ==
  ASSUME NEW S, NEW s \in Seq(S), NEW t \in Seq(S)
  PROVE  /\ s \o t \in Seq(S) /\ Range(s \o t) = Range(s) \cup Range(t)
         /\ Len(s \o t) = Len(s) + Len(t)
<1>1. /\ s \o t \in Seq(S) /\ Len(s \o t) = Len(s) + Len(t)
      /\ \A i \in 1..Len(s) + Len(t) : (s \o t)[i] = IF i <= Len(s) THEN s[i] ELSE t[i - Len(s)]
  BY ConcatProperties
<1>2. /\ \A i \in 1..Len(s) : i \in 1..Len(s) + Len(t)
      /\ \A i \in 1..Len(t) : i + Len(s) \in 1..Len(s) + Len(t) /\ ~(i + Len(s) <= Len(s))
      /\ \A i \in 1..Len(t) : (i + Len(s)) - Len(s) = i
      /\ \A i \in 1..Len(s) + Len(t) : i <= Len(s) => i \in 1..Len(s)
      /\ \A i \in 1..Len(s) + Len(t) : ~(i <= Len(s)) => i - Len(s) \in 1..Len(t)
  BY EntriesAre
<1>3. Range(s \o t) \subseteq Range(s) \cup Range(t)
  <2>1. Range(s \o t) = {(s \o t)[i] : i \in 1..Len(s) + Len(t)}
    BY <1>1, EntriesAre
  <2>2. ASSUME NEW i \in 1..Len(s) + Len(t) PROVE (s \o t)[i] \in Range(s) \cup Range(t)
    BY <1>1, <1>2, EntriesAre
  <2> QED
    BY <2>1, <2>2
<1>4. Range(s) \subseteq Range(s \o t)
  <2>1. \A i \in 1..Len(s) : (s \o t)[i] = s[i] /\ i \in 1..Len(s \o t)
    BY <1>1, <1>2
  <2>2. \A i \in 1..Len(s \o t) : (s \o t)[i] \in Range(s \o t)
    BY <1>1, EntriesAre
  <2>3. \A i \in 1..Len(s) : s[i] \in Range(s \o t)
    BY <2>1, <2>2
  <2> QED
    BY <2>3, EntriesAre
<1>5. Range(t) \subseteq Range(s \o t)
  <2>1. \A i \in 1..Len(t) : (s \o t)[i + Len(s)] = t[i] /\ i + Len(s) \in 1..Len(s \o t)
    BY <1>1, <1>2
  <2>2. \A i \in 1..Len(s \o t) : (s \o t)[i] \in Range(s \o t)
    BY <1>1, EntriesAre
  <2>3. \A i \in 1..Len(t) : t[i] \in Range(s \o t)
    BY <2>1, <2>2
  <2> QED
    BY <2>3, EntriesAre
<1> QED
  BY <1>1, <1>3, <1>4, <1>5

LEMMA TailHas ==
  ASSUME NEW S, NEW s \in Seq(S), s # <<>>
  PROVE  /\ Tail(s) \in Seq(S) /\ Head(s) \in S /\ Len(Tail(s)) = Len(s) - 1 /\ Len(s) \in Nat \ {0}
         /\ Head(s) = s[1] /\ \A i \in 1..(Len(s) - 1) : Tail(s)[i] = s[i + 1]
         /\ Range(s) = {Head(s)} \cup Range(Tail(s))
<1>1. /\ Tail(s) \in Seq(S) /\ Len(Tail(s)) = Len(s) - 1 /\ Len(s) \in Nat \ {0}
      /\ Head(s) = s[1] /\ \A i \in 1..(Len(s) - 1) : Tail(s)[i] = s[i + 1]
  OBVIOUS
<1>2. Head(s) \in S /\ Head(s) \in Range(s)
  BY <1>1, EntriesAre
<1>3. /\ \A i \in 1..(Len(s) - 1) : i + 1 \in 1..Len(s)
      /\ \A i \in 1..Len(s) : i # 1 => i - 1 \in 1..(Len(s) - 1) /\ (i - 1) + 1 = i
  BY <1>1
<1>4. \A i \in 1..(Len(s) - 1) : Tail(s)[i] \in Range(s) /\ Tail(s)[i] \in Range(Tail(s))
  BY <1>1, <1>3, EntriesAre
<1>5. Range(Tail(s)) \subseteq Range(s)
  <2>1. Range(Tail(s)) = {Tail(s)[i] : i \in 1..(Len(s) - 1)}
    BY <1>1, EntriesAre
  <2> QED
    BY <1>4, <2>1
<1>6. \A i \in 1..Len(s) : s[i] \in {Head(s)} \cup Range(Tail(s))
  BY <1>1, <1>3, <1>4
<1> QED
  BY <1>1, <1>2, <1>5, <1>6, EntriesAre

(* What is on its way over a connection, list by list.                     *)
LEMMA ThreeLists ==
  ASSUME NEW S, NEW r \in Seq(S), NEW q \in Seq(S), NEW e \in Seq(S)
  PROVE  Range(r \o q \o e) = Range(r) \cup Range(q) \cup Range(e)
<1>1. r \o q \in Seq(S) /\ Range(r \o q) = Range(r) \cup Range(q)
  BY ConcatHas
<1> HIDE DEF Range
<1> DEFINE rq == r \o q
<1>2. rq \in Seq(S) /\ Range(rq) = Range(r) \cup Range(q)
  BY <1>1
<1> HIDE DEF rq
<1>3. Range(rq \o e) = Range(rq) \cup Range(e)
  BY <1>2, ConcatHas
<1> QED
  BY <1>2, <1>3 DEF rq


-----------------------------------------------------------------------------
(* What the hub and the publishers make.                                   *)
PubType == [pc : {"idle", "stamped", "handing", "full"}, event : Frames,
            left : SUBSET Conns, full : Nat]

LEMMA EventIs ==
  ASSUME NEW s \in Nat, NEW n \in Nat
  PROVE  Event(s, n) \in Frames /\ Event(s, n).seq = s /\ Event(s, n).number = n
  BY DEF Event, Frames

LEMMA GapIs == Gap \in Frames /\ Gap.seq = 0
  BY DEF Gap, Frames

LEMMA CalmIs == /\ Calm \in PubType /\ Calm.pc = "idle" /\ Calm.left = {} /\ Calm.full = 0
                /\ Calm.event = Gap
  BY GapIs DEF Calm, PubType

LEMMA HandingIs ==
  ASSUME NEW rest \in SUBSET Conns, NEW e \in Frames
  PROVE  /\ Handing(rest, e) \in PubType
         /\ Handing(rest, e).pc = IF rest = {} THEN "idle" ELSE "handing"
         /\ Handing(rest, e).left = rest /\ Handing(rest, e).full = 0
         /\ Handing(rest, e).event = e
  BY DEF Handing, Calm, PubType

(* The ring loses its oldest event when it was full, and gains the new one.*)
LEMMA BufferedIs ==
  ASSUME NEW e \in Frames, ring \in Seq(Frames), Len(ring) <= RingCapacity
  PROVE  /\ Buffered(e) \in Seq(Frames) /\ Len(Buffered(e)) <= RingCapacity
         /\ Len(Buffered(e)) \in Nat \ {0} /\ Len(Buffered(e)) <= Len(ring) + 1
         /\ Buffered(e)[Len(Buffered(e))] = e
         /\ \A i \in 1..(Len(Buffered(e)) - 1) :
               /\ i + (Len(ring) + 1 - Len(Buffered(e))) \in DOMAIN ring
               /\ Buffered(e)[i] = ring[i + (Len(ring) + 1 - Len(Buffered(e)))]
<1>1. RingCapacity \in Nat \ {0} /\ Len(ring) \in Nat /\ DOMAIN ring = 1..Len(ring)
  BY EventStreamAssumption
<1>2. CASE Len(ring) = RingCapacity
  <2> DEFINE t == Tail(ring)
  <2>1. ring # <<>>
    BY <1>1, <1>2
  <2>2. /\ t \in Seq(Frames) /\ Len(t) = Len(ring) - 1
        /\ \A i \in 1..(Len(ring) - 1) : t[i] = ring[i + 1]
    BY <2>1, TailHas
  <2> HIDE DEF t
  <2>3. /\ Append(t, e) \in Seq(Frames) /\ Len(Append(t, e)) = Len(t) + 1
        /\ \A i \in 1..Len(t) : Append(t, e)[i] = t[i]
        /\ Append(t, e)[Len(t) + 1] = e
    BY <2>2, AppendProperties
  <2>4. Buffered(e) = Append(t, e) /\ Len(Append(t, e)) = Len(ring)
    BY <1>1, <1>2, <2>2, <2>3 DEF Buffered, t
  <2>5. \A i \in 1..(Len(ring) - 1) : i + 1 \in 1..Len(ring) /\ i \in 1..Len(t)
    BY <1>1, <2>2
  <2>6. Len(t) + 1 = Len(ring) /\ Len(ring) + 1 - Len(ring) = 1
    BY <1>1, <2>2
  <2> QED
    BY <1>1, <1>2, <2>2, <2>3, <2>4, <2>5, <2>6
<1>3. CASE Len(ring) # RingCapacity
  <2>1. Buffered(e) = Append(ring, e)
    BY <1>3 DEF Buffered
  <2>2. /\ Append(ring, e) \in Seq(Frames) /\ Len(Append(ring, e)) = Len(ring) + 1
        /\ \A i \in 1..Len(ring) : Append(ring, e)[i] = ring[i]
        /\ Append(ring, e)[Len(ring) + 1] = e
    BY AppendProperties
  <2>3. Len(ring) + 1 <= RingCapacity
    <3>1. \A a, b \in Nat : a <= b /\ a # b => a + 1 <= b
      OBVIOUS
    <3> QED
      BY <1>1, <1>3, <3>1
  <2>4. /\ Len(ring) + 1 - (Len(ring) + 1) = 0 /\ (Len(ring) + 1) - 1 = Len(ring)
        /\ Len(ring) + 1 \in Nat \ {0} /\ \A i \in 1..Len(ring) : i + 0 = i
    BY <1>1
  <2> QED
    BY <1>1, <2>1, <2>2, <2>3, <2>4
<1> QED
  BY <1>2, <1>3

(* since answers with the notice, or with every event of the ring after s. *)
LEMMA SinceIs ==
  ASSUME StreamTypeOK, RingOK, NEW s \in Nat
  PROVE  /\ Since(s) \in Seq(Frames)
         /\ \A f \in Range(Since(s)) : f = Gap \/ f \in Range(ring)
         /\ \A n \in (s + 1)..seq : \E f \in Range(Since(s)) : f = Gap \/ (f.seq = n /\ f \in Range(ring))
<1>1. /\ ring \in Seq(Frames) /\ Len(ring) \in Nat /\ seq \in Nat /\ Len(ring) <= seq
      /\ DOMAIN ring = 1..Len(ring)
      /\ \A i \in 1..Len(ring) : ring[i].seq = seq - Len(ring) + i
  BY DEF StreamTypeOK, RingOK
<1>2. /\ <<Gap>> \in Seq(Frames) /\ Range(<<Gap>>) = {Gap}
      /\ <<>> \in Seq(Frames) /\ Range(<<>>) = {}
  BY GapIs DEF Range
<1>3. CASE s >= seq
  <2>1. Since(s) \in {<<>>, <<Gap>>}
    BY <1>3 DEF Since
  <2>2. Since(s) \in Seq(Frames) /\ \A f \in Range(Since(s)) : f = Gap
    BY <1>2, <2>1
  <2>3. \A n \in (s + 1)..seq : FALSE
    BY <1>1, <1>3
  <2> QED
    BY <2>2, <2>3
<1>4. CASE ~(s >= seq) /\ (ring = <<>> \/ Head(ring).seq > s + 1)
  <2>1. Since(s) = <<Gap>>
    BY <1>4 DEF Since
  <2>2. Since(s) \in Seq(Frames) /\ Range(Since(s)) = {Gap}
    BY <1>2, <2>1
  <2>3. \A f \in Range(Since(s)) : f = Gap
    BY <2>2
  <2>4. \E f \in Range(Since(s)) : f = Gap
    BY <2>2
  <2> QED
    BY <2>2, <2>3, <2>4
<1>5. CASE ~(s >= seq) /\ ~(ring = <<>> \/ Head(ring).seq > s + 1)
  <2>1. Since(s) = SubSeq(ring, FirstAfter(s), Len(ring))
    BY <1>5 DEF Since, After
  <2>2. Head(ring) = ring[1] /\ Len(ring) >= 1 /\ seq - Len(ring) + 1 <= s + 1
    BY <1>1, <1>5
  <2> DEFINE k == s + 1 - (seq - Len(ring))
  <2>3. k \in 1..Len(ring)
    BY <1>1, <1>5, <2>2
  <2>4. ring[k].seq > s /\ \A j \in 1..(k - 1) : ring[j].seq <= s
    BY <1>1, <2>3
  <2>5. \A i \in DOMAIN ring : ring[i].seq > s /\ (\A j \in 1..(i - 1) : ring[j].seq <= s) => i = k
    <3> SUFFICES ASSUME NEW i \in 1..Len(ring), ring[i].seq > s,
                        \A j \in 1..(i - 1) : ring[j].seq <= s
                 PROVE  i = k
      BY <1>1
    <3>1. i >= k
      BY <1>1, <2>3
    <3>2. ~(i > k)
      <4> SUFFICES ASSUME i > k PROVE FALSE
        OBVIOUS
      <4>1. k \in 1..(i - 1)
        BY <1>1, <2>3
      <4> QED
        BY <1>1, <2>3, <2>4, <4>1
    <3>3. i \in Nat /\ k \in Nat
      BY <1>1, <2>3
    <3> HIDE DEF k
    <3> QED
      BY <3>1, <3>2, <3>3
  <2>6. FirstAfter(s) = k
    BY <1>1, <2>3, <2>4, <2>5 DEF FirstAfter
  <2> DEFINE late == SubSeq(ring, k, Len(ring))
  <2>7. /\ late \in Seq(Frames) /\ Len(late) = Len(ring) - k + 1
        /\ \A i \in 1..(Len(ring) - k + 1) : late[i] = ring[k + i - 1]
    <3>1. k \in 1..(Len(ring) + 1) /\ Len(ring) \in (k - 1)..Len(ring)
      BY <1>1, <2>3
    <3> HIDE DEF k
    <3> QED
      BY <1>1, <3>1, SubSeqProperties
  <2>8. Since(s) = late
    BY <2>1, <2>6
  <2> HIDE DEF late
  <2>9. Range(late) = {late[i] : i \in 1..(Len(ring) - k + 1)}
    BY <2>7, EntriesAre
  <2>10. \A i \in 1..(Len(ring) - k + 1) : k + i - 1 \in 1..Len(ring)
    BY <1>1, <2>3
  <2>11. \A f \in Range(late) : f \in Range(ring)
    <3>1. Range(ring) = {ring[i] : i \in 1..Len(ring)}
      BY <1>1, EntriesAre
    <3>2. \A i \in 1..(Len(ring) - k + 1) : late[i] \in Range(ring)
      BY <2>7, <2>10, <3>1
    <3> QED
      BY <2>9, <3>2
  <2>12. ASSUME NEW n \in (s + 1)..seq
         PROVE  \E f \in Range(late) : f.seq = n
    <3>1. n - s \in 1..(Len(ring) - k + 1) /\ k + (n - s) - 1 = n - (seq - Len(ring))
      BY <1>1, <2>3
    <3>2. /\ n - (seq - Len(ring)) \in 1..Len(ring)
          /\ seq - Len(ring) + (n - (seq - Len(ring))) = n
      BY <1>1, <2>3, <3>1
    <3>3. ring[n - (seq - Len(ring))].seq = n
      BY <1>1, <3>2
    <3>4. late[n - s].seq = n /\ late[n - s] \in Range(late)
      BY <2>7, <2>9, <3>1, <3>3
    <3> QED
      BY <3>4
  <2> QED
    BY <2>7, <2>8, <2>11, <2>12
<1> QED
  BY <1>3, <1>4, <1>5

-----------------------------------------------------------------------------
(* Types.                                                                  *)
Shape == StreamTypeOK /\ RingOK /\ ConnOK

LEMMA InitShape == StreamInit => SInv
<1> SUFFICES ASSUME StreamInit PROVE SInv
  OBVIOUS
<1> USE EventStreamAssumption DEF StreamInit
<1>1. <<>> \in Seq(Frames) /\ Len(<<>>) = 0 /\ Range(<<>>) = {}
  BY DEF Range
<1>2. StreamTypeOK
  <2>1. pub \in [Publishers -> PubType]
    BY CalmIs
  <2>2. /\ queued \in [Conns -> Seq(Frames)] /\ control \in [Conns -> Seq(Frames)]
        /\ \A c \in Conns : Len(queued[c]) <= ClientBuffer /\ Len(control[c]) <= ControlBuffer
        /\ replay \in [Conns -> Seq(Frames)]
    BY <1>1
  <2>3. ring \in Seq(Frames) /\ Len(ring) <= RingCapacity
    BY <1>1
  <2>4. conn \in 0..MaxConns
    OBVIOUS
  <2> QED
    BY <2>1, <2>2, <2>3, <2>4 DEF StreamTypeOK, PubType
<1>3. RingOK /\ ConnOK
  BY <1>1, CalmIs DEF RingOK, ConnOK, Conns
<1>4. FramesOK
  <2>1. \A p \in Publishers : pub[p].event.seq <= total
    BY CalmIs, GapIs
  <2>2. \A c \in Conns : OnWay(c) = {}
    BY <1>1 DEF OnWay
  <2> QED
    BY <2>1, <2>2 DEF FramesOK
<1>5. StreamInv
  BY DEF StreamInv
<1> QED
  BY <1>2, <1>3, <1>4, <1>5 DEF SInv

(* What a connection receives next.                                        *)
LEMMA FrameIs ==
  ASSUME StreamTypeOK, NEW c \in Conns
  PROVE  /\ replay[c] \in Seq(Frames) /\ control[c] \in Seq(Frames) /\ queued[c] \in Seq(Frames)
         /\ Len(control[c]) \in Nat /\ Len(queued[c]) \in Nat
         /\ Len(queued[c]) <= ClientBuffer /\ Len(control[c]) <= ControlBuffer
         /\ ClientBuffer \in Nat /\ ControlBuffer \in Nat
  BY EventStreamAssumption DEF StreamTypeOK

LEMMA ReceiveTypes ==
  ASSUME StreamTypeOK, NEW frame \in Frames, Receive(frame)
  PROVE  cursor' \in Nat \cup {NoSeq} /\ got' \subseteq Nat /\ fetched' \in Nat
  BY DEF StreamTypeOK, Receive, Frames

LEMMA PublisherTypes ==
  ASSUME Shape, NEW p \in Publishers, Publish(p) \/ PublisherStep(p) PROVE StreamTypeOK'
<1> USE DEF Shape, clientVars, readVars, tabVars, histVars, hubVars
<1>0. pub \in [Publishers -> PubType] /\ pub[p] \in PubType /\ pub[p].event \in Frames
      /\ pub[p].left \subseteq Conns
  BY DEF StreamTypeOK, PubType
<1>1. CASE Publish(p)
  <2> DEFINE e == Event(seq + 1, total + 1)
  <2>1. e \in Frames
    BY EventIs DEF StreamTypeOK
  <2>2. Buffered(e) \in Seq(Frames) /\ Len(Buffered(e)) <= RingCapacity
    BY <2>1, BufferedIs DEF StreamTypeOK
  <2>3. [Calm EXCEPT !.pc = "stamped", !.event = e] \in PubType
    BY <2>1, CalmIs DEF PubType
  <2>4. seq' \in Nat /\ total' \in Nat /\ ring' = Buffered(e)
    BY <1>1 DEF Publish, StreamTypeOK
  <2>5. pub' = [pub EXCEPT ![p] = [Calm EXCEPT !.pc = "stamped", !.event = e]]
    BY <1>1 DEF Publish
  <2> HIDE DEF e
  <2>6. pub' \in [Publishers -> PubType]
    BY <1>0, <2>3, <2>5
  <2> QED
    BY <1>1, <2>2, <2>4, <2>6 DEF Publish, StreamTypeOK, PubType
<1>2. CASE List(p)
  <2>1. pub' = [pub EXCEPT ![p] = Handing(registered, pub[p].event)]
    BY <1>2 DEF List
  <2>2. Handing(registered, pub[p].event) \in PubType
    BY <1>0, HandingIs DEF StreamTypeOK
  <2>3. pub' \in [Publishers -> PubType]
    BY <1>0, <2>1, <2>2
  <2> QED
    BY <1>2, <2>3 DEF List, StreamTypeOK, PubType
<1>3. ASSUME NEW c \in Conns, Deliver(p, c) PROVE StreamTypeOK'
  <2>1. CASE overflow[c] \/ Len(queued[c]) < ClientBuffer
    <3>1. /\ queued' = IF overflow[c] THEN queued
                       ELSE [queued EXCEPT ![c] = Append(queued[c], pub[p].event)]
          /\ pub' = [pub EXCEPT ![p] = Handing(pub[p].left \ {c}, pub[p].event)]
      BY <1>3, <2>1 DEF Deliver
    <3>2. Handing(pub[p].left \ {c}, pub[p].event) \in PubType
      BY <1>0, HandingIs
    <3>3. pub' \in [Publishers -> PubType]
      BY <1>0, <3>1, <3>2
    <3>4. /\ Append(queued[c], pub[p].event) \in Seq(Frames)
          /\ Len(Append(queued[c], pub[p].event)) = Len(queued[c]) + 1
      BY <1>0, FrameIs, AppendProperties
    <3>5. /\ queued' \in [Conns -> Seq(Frames)]
          /\ \A d \in Conns : Len(queued'[d]) <= ClientBuffer
      BY <2>1, <3>1, <3>4, FrameIs DEF StreamTypeOK
    <3> QED
      BY <1>3, <3>3, <3>5 DEF Deliver, StreamTypeOK, PubType
  <2>2. CASE ~(overflow[c] \/ Len(queued[c]) < ClientBuffer)
    <3>1. /\ queued' = queued
          /\ pub' = [pub EXCEPT ![p] = [pc |-> "full", event |-> pub[p].event,
                                        left |-> pub[p].left \ {c}, full |-> c]]
      BY <1>0, <1>3, <2>2 DEF Deliver, PubType
    <3>2. [pc |-> "full", event |-> pub[p].event, left |-> pub[p].left \ {c}, full |-> c] \in PubType
      BY <1>0 DEF PubType, Conns
    <3>3. pub' \in [Publishers -> PubType]
      BY <1>0, <3>1, <3>2
    <3> QED
      BY <1>3, <3>1, <3>3 DEF Deliver, StreamTypeOK, PubType
  <2> QED
    BY <2>1, <2>2
<1>4. CASE MarkOverflow(p)
  <2>1. pub' = [pub EXCEPT ![p] = Handing(pub[p].left, pub[p].event)]
    BY <1>4 DEF MarkOverflow
  <2>2. Handing(pub[p].left, pub[p].event) \in PubType
    BY <1>0, HandingIs
  <2>3. pub' \in [Publishers -> PubType]
    BY <1>0, <2>1, <2>2
  <2>4. overflow' \in [Conns -> BOOLEAN]
    BY <1>4 DEF MarkOverflow, StreamTypeOK
  <2> QED
    BY <1>4, <2>3, <2>4 DEF MarkOverflow, StreamTypeOK, PubType
<1> QED
  BY <1>1, <1>2, <1>3, <1>4 DEF PublisherStep

LEMMA ConnTypes ==
  ASSUME Shape, NEW c \in Conns, ConnStep(c) PROVE StreamTypeOK'
<1> USE DEF Shape, clientVars, readVars, tabVars, histVars, hubVars
<1>0. /\ replay[c] \in Seq(Frames) /\ control[c] \in Seq(Frames) /\ queued[c] \in Seq(Frames)
      /\ Len(control[c]) \in Nat /\ Len(queued[c]) \in Nat
      /\ Len(queued[c]) <= ClientBuffer /\ Len(control[c]) <= ControlBuffer
      /\ ClientBuffer \in Nat /\ ControlBuffer \in Nat
  BY FrameIs
<1>1. CASE ReadResume(c)
  <2>1. Since(asked[c]) \in Seq(Frames)
    BY <1>1, SinceIs DEF ReadResume, StreamTypeOK
  <2> QED
    BY <1>1, <2>1 DEF ReadResume, StreamTypeOK
<1>2. CASE QueueControl(c)
  <2>1. Tail(replay[c]) \in Seq(Frames) /\ Head(replay[c]) \in Frames
    BY <1>0, <1>2, TailHas DEF QueueControl
  <2>2. /\ Append(control[c], Head(replay[c])) \in Seq(Frames)
        /\ Len(Append(control[c], Head(replay[c]))) = Len(control[c]) + 1
    BY <1>0, <2>1, AppendProperties
  <2>3. replay' \in [Conns -> Seq(Frames)]
    BY <1>2, <2>1 DEF QueueControl, StreamTypeOK
  <2>4. control' \in [Conns -> Seq(Frames)] /\ \A d \in Conns : Len(control'[d]) <= ControlBuffer
    <3>1. CASE control' = control
      BY <3>1 DEF StreamTypeOK
    <3>2. CASE /\ Len(control[c]) < ControlBuffer
               /\ control' = [control EXCEPT ![c] = Append(control[c], Head(replay[c]))]
      <4>1. control' \in [Conns -> Seq(Frames)]
        BY <2>2, <3>2 DEF StreamTypeOK
      <4>2. Len(control'[c]) <= ControlBuffer
        BY <1>0, <2>2, <3>2 DEF StreamTypeOK
      <4>3. \A d \in Conns \ {c} : control'[d] = control[d]
        BY <3>2 DEF StreamTypeOK
      <4> QED
        BY <4>1, <4>2, <4>3 DEF StreamTypeOK
    <3> QED
      BY <1>2, <3>1, <3>2 DEF QueueControl
  <2> QED
    BY <1>2, <2>3, <2>4 DEF QueueControl, StreamTypeOK
<1>3. CASE WriteControl(c)
  <2>1. /\ Tail(control[c]) \in Seq(Frames) /\ Head(control[c]) \in Frames
        /\ Len(Tail(control[c])) = Len(control[c]) - 1
    BY <1>0, <1>3, TailHas DEF WriteControl
  <2>2. cursor' \in Nat \cup {NoSeq} /\ got' \subseteq Nat /\ fetched' \in Nat
    BY <1>3, <2>1, ReceiveTypes DEF WriteControl
  <2>3. control' \in [Conns -> Seq(Frames)] /\ \A d \in Conns : Len(control'[d]) <= ControlBuffer
    BY <1>0, <1>3, <2>1 DEF WriteControl, StreamTypeOK
  <2> QED
    BY <1>3, <2>2, <2>3 DEF WriteControl, StreamTypeOK
<1>4. CASE WriteEvent(c)
  <2>1. /\ Tail(queued[c]) \in Seq(Frames) /\ Head(queued[c]) \in Frames
        /\ Len(Tail(queued[c])) = Len(queued[c]) - 1
    BY <1>0, <1>4, TailHas DEF WriteEvent
  <2>2. cursor' \in Nat \cup {NoSeq} /\ got' \subseteq Nat /\ fetched' \in Nat
    BY <1>4, <2>1, ReceiveTypes DEF WriteEvent
  <2>3. queued' \in [Conns -> Seq(Frames)] /\ \A d \in Conns : Len(queued'[d]) <= ClientBuffer
    BY <1>0, <1>4, <2>1 DEF WriteEvent, StreamTypeOK
  <2> QED
    BY <1>4, <2>2, <2>3 DEF WriteEvent, StreamTypeOK
<1>5. CASE WriteOverflow(c)
  <2>1. conn' \in 0..MaxConns /\ registered' \subseteq Conns
    BY <1>5, EventStreamAssumption DEF WriteOverflow, HangUp, StreamTypeOK
  <2>2. cursor' \in Nat \cup {NoSeq} /\ fetched' \in Nat
    BY <1>5 DEF WriteOverflow, StreamTypeOK
  <2> QED
    BY <1>5, <2>1, <2>2 DEF WriteOverflow, StreamTypeOK
<1> QED
  BY <1>1, <1>2, <1>3, <1>4, <1>5 DEF ConnStep

LEMMA TypesStay == Shape /\ [StreamNext]_streamVars => StreamTypeOK'
<1> SUFFICES ASSUME Shape, [StreamNext]_streamVars PROVE StreamTypeOK'
  OBVIOUS
<1> USE EventStreamAssumption DEF Shape, clientVars, readVars, tabVars, histVars, hubVars
<1>1. CASE Connect
  <2>1. opened + 1 \in Conns /\ opened' = opened + 1 /\ conn' = opened + 1
    BY <1>1 DEF Connect, StreamTypeOK, Conns
  <2>2. conn' \in 0..MaxConns /\ opened' \in Nat /\ registered' \subseteq Conns
    BY <1>1, <2>1 DEF Connect, StreamTypeOK, Conns
  <2>3. asked' \in [Conns -> Nat \cup {NoSeq}]
    BY <1>1, <2>1 DEF Connect, StreamTypeOK
  <2>4. base' \in Nat /\ fetched' \in Nat /\ {blind', overtaken'} \subseteq BOOLEAN
    BY <1>1 DEF Connect, StreamTypeOK
  <2> QED
    BY <1>1, <2>2, <2>3, <2>4 DEF Connect, StreamTypeOK
<1>2. CASE Drop
  BY <1>2 DEF Drop, HangUp, StreamTypeOK
<1>3. CASE Restart
  <2>1. pub' \in [Publishers -> PubType] /\ ring' \in Seq(Frames) /\ Len(ring') <= RingCapacity
    BY <1>3, CalmIs DEF Restart
  <2> QED
    BY <1>3, <2>1 DEF Restart, StreamTypeOK, PubType
<1>4. CASE Ended \/ UNCHANGED streamVars
  BY <1>4 DEF Ended, streamVars, StreamTypeOK
<1> QED
  BY <1>1, <1>2, <1>3, <1>4, PublisherTypes, ConnTypes DEF StreamNext

-----------------------------------------------------------------------------
(* The ring, the publishers and the registered connection.                 *)
LEMMA RingStays == Shape /\ [StreamNext]_streamVars => RingOK'
<1> SUFFICES ASSUME Shape, [StreamNext]_streamVars PROVE RingOK'
  OBVIOUS
<1>1. ASSUME NEW p \in Publishers, Publish(p) PROVE RingOK'
  <2> DEFINE e == Event(seq + 1, total + 1)
             old == Len(ring)
             new == Len(ring')
  <2>0. seq \in Nat /\ total \in Nat /\ old \in Nat /\ old <= seq
    BY DEF Shape, StreamTypeOK, RingOK
  <2>1. e \in Frames /\ e.seq = seq + 1 /\ e.number = total + 1
    BY <2>0, EventIs
  <2>2. ring' = Buffered(e) /\ seq' = seq + 1 /\ total' = total + 1 /\ restarts' = restarts
    BY <1>1 DEF Publish
  <2> HIDE DEF e
  <2>3. /\ ring' \in Seq(Frames) /\ new \in Nat \ {0} /\ new <= old + 1 /\ ring'[new] = e
        /\ \A i \in 1..(new - 1) : i + (old + 1 - new) \in DOMAIN ring
                                   /\ ring'[i] = ring[i + (old + 1 - new)]
    BY <2>1, <2>2, BufferedIs DEF Shape, StreamTypeOK
  <2>4. DOMAIN ring' = 1..new
    BY <2>3
  <2>5. ASSUME NEW i \in 1..new PROVE ring'[i].seq = (seq + 1) - new + i
    <3>1. CASE i = new
      BY <2>0, <2>1, <2>3, <3>1
    <3>2. CASE i # new
      <4>1. i \in 1..(new - 1)
        BY <2>3, <3>2
      <4>2. ring'[i].seq = seq - old + (i + (old + 1 - new))
        BY <2>3, <4>1 DEF Shape, RingOK
      <4> QED
        BY <2>0, <2>3, <4>1, <4>2
    <3> QED
      BY <3>1, <3>2
  <2>6. restarts = 0 => seq = total /\ \A i \in 1..new : ring'[i].number = ring'[i].seq
    <3> SUFFICES ASSUME restarts = 0 PROVE seq = total /\ \A i \in 1..new : ring'[i].number = ring'[i].seq
      OBVIOUS
    <3>1. seq = total /\ \A i \in DOMAIN ring : ring[i].number = ring[i].seq
      BY DEF Shape, RingOK
    <3>2. \A i \in 1..new : i = new \/ i \in 1..(new - 1)
      BY <2>3
    <3> QED
      BY <2>1, <2>3, <3>1, <3>2
  <2>7. new <= seq + 1
    BY <2>0, <2>3
  <2> QED
    BY <2>2, <2>4, <2>5, <2>6, <2>7 DEF RingOK
<1>2. CASE Restart
  BY <1>2 DEF Restart, RingOK, Shape, StreamTypeOK
<1>3. ASSUME UNCHANGED <<seq, ring, total, restarts>> PROVE RingOK'
  BY <1>3 DEF Shape, RingOK
<1>4. ASSUME NEW p \in Publishers, PublisherStep(p) PROVE UNCHANGED <<seq, ring, total, restarts>>
  BY <1>4 DEF PublisherStep, List, Deliver, MarkOverflow, hubVars
<1>5. ASSUME NEW c \in Conns, ConnStep(c) PROVE UNCHANGED <<seq, ring, total, restarts>>
  BY <1>5 DEF ConnStep, ReadResume, QueueControl, WriteControl, WriteEvent, WriteOverflow, hubVars
<1>6. CASE Connect \/ Drop \/ Ended \/ UNCHANGED streamVars
  BY <1>3, <1>6 DEF Connect, Drop, Ended, streamVars, hubVars
<1> QED
  BY <1>1, <1>2, <1>3, <1>4, <1>5, <1>6 DEF StreamNext

LEMMA ConnStays == Shape /\ [StreamNext]_streamVars => ConnOK'
<1> SUFFICES ASSUME Shape, [StreamNext]_streamVars PROVE ConnOK'
  OBVIOUS
<1>0. /\ pub \in [Publishers -> PubType] /\ registered \subseteq Conns
      /\ replay \in [Conns -> Seq(Frames)] /\ asked \in [Conns -> Nat \cup {NoSeq}]
      /\ conn \in Nat /\ opened \in Nat /\ MaxConns \in Nat
  BY EventStreamAssumption DEF Shape, StreamTypeOK, PubType
<1>1. ASSUME NEW p \in Publishers, Publish(p) \/ PublisherStep(p) PROVE ConnOK'
  <2>0. /\ UNCHANGED <<registered, conn, opened, asked, replay>>
        /\ pub[p] \in PubType
    BY <1>0, <1>1
       DEF Publish, PublisherStep, List, Deliver, MarkOverflow, hubVars, readVars, tabVars
  <2>1. ASSUME NEW job, pub' = [pub EXCEPT ![p] = job],
               job.pc = "full" => job.full \in Conns, job.pc # "full" => job.full = 0,
               job.pc = "idle" => job.left = {}
        PROVE  ConnOK'
    BY <1>0, <2>0, <2>1 DEF Shape, ConnOK
  <2>2. ASSUME NEW rest \in SUBSET Conns, pub' = [pub EXCEPT ![p] = Handing(rest, pub[p].event)]
        PROVE  ConnOK'
    <3> DEFINE job == Handing(rest, pub[p].event)
    <3>1. /\ job.pc = IF rest = {} THEN "idle" ELSE "handing"
          /\ job.full = 0 /\ job.left = rest
      BY <2>0, HandingIs DEF PubType
    <3> HIDE DEF job
    <3>2. /\ job.pc = "full" => job.full \in Conns
          /\ job.pc # "full" => job.full = 0
          /\ job.pc = "idle" => job.left = {}
      BY <3>1
    <3>3. pub' = [pub EXCEPT ![p] = job]
      BY <2>2 DEF job
    <3> QED
      BY <2>1, <3>2, <3>3
  <2>3. CASE Publish(p)
    <3> DEFINE job == [Calm EXCEPT !.pc = "stamped", !.event = Event(seq + 1, total + 1)]
    <3>1. pub' = [pub EXCEPT ![p] = job]
      BY <2>3 DEF Publish
    <3>2. job.pc = "stamped" /\ job.full = 0
      BY CalmIs DEF PubType
    <3> QED
      BY <2>1, <3>1, <3>2
  <2>4. CASE List(p)
    BY <1>0, <2>2, <2>4 DEF List
  <2>5. ASSUME NEW c \in Conns, Deliver(p, c) PROVE ConnOK'
    <3>1. CASE overflow[c] \/ Len(queued[c]) < ClientBuffer
      <4>1. pub[p].left \ {c} \in SUBSET Conns
        BY <2>0 DEF PubType
      <4> QED
        BY <2>2, <2>5, <3>1, <4>1 DEF Deliver
    <3>2. CASE ~(overflow[c] \/ Len(queued[c]) < ClientBuffer)
      <4> DEFINE job == [pc |-> "full", event |-> pub[p].event,
                         left |-> pub[p].left \ {c}, full |-> c]
      <4>1. pub' = [pub EXCEPT ![p] = job]
        BY <1>0, <2>0, <2>5, <3>2 DEF Deliver, PubType
      <4>2. job.pc = "full" /\ job.full \in Conns
        OBVIOUS
      <4> QED
        BY <2>1, <4>1, <4>2
    <3> QED
      BY <3>1, <3>2
  <2>6. CASE MarkOverflow(p)
    <3>1. pub[p].left \in SUBSET Conns
      BY <2>0 DEF PubType
    <3> QED
      BY <2>2, <2>6, <3>1 DEF MarkOverflow
  <2> QED
    BY <1>1, <2>3, <2>4, <2>5, <2>6 DEF PublisherStep
<1>2. ASSUME NEW c \in Conns, ConnStep(c) PROVE ConnOK'
  <2> USE <1>0 DEF Shape, ConnOK, hubVars, readVars, tabVars, Conns
  <2>1. CASE ReadResume(c)
    BY <2>1 DEF ReadResume
  <2>2. CASE QueueControl(c)
    BY <2>2 DEF QueueControl
  <2>3. CASE WriteControl(c) \/ WriteEvent(c)
    BY <2>3 DEF WriteControl, WriteEvent
  <2>4. CASE WriteOverflow(c)
    BY <2>4 DEF WriteOverflow, HangUp
  <2> QED
    BY <1>2, <2>1, <2>2, <2>3, <2>4 DEF ConnStep
<1>3. CASE Connect
  BY <1>0, <1>3 DEF Shape, ConnOK, Connect, Conns
<1>4. CASE Drop
  BY <1>0, <1>4 DEF Shape, ConnOK, Drop, HangUp, readVars
<1>5. CASE Restart
  BY <1>0, <1>5, CalmIs DEF Shape, ConnOK, Restart, readVars
<1>6. CASE Ended \/ UNCHANGED streamVars
  BY <1>6 DEF Shape, ConnOK, Ended, streamVars, hubVars, readVars, tabVars
<1> QED
  BY <1>1, <1>2, <1>3, <1>4, <1>5, <1>6 DEF StreamNext

-----------------------------------------------------------------------------
(* What each step does to the frames that are on their way.                *)
Elsewhere(c) == \A d \in Conns \ {c} : OnWay(d)' = OnWay(d)

LEMMA FramesAre ==
  ASSUME StreamTypeOK, NEW c \in Conns
  PROVE  OnWay(c) \subseteq Frames
<1>1. /\ Range(replay[c]) \subseteq Frames /\ Range(control[c]) \subseteq Frames
      /\ Range(queued[c]) \subseteq Frames
  BY FrameIs, EntriesAre
<1> QED
  BY <1>1 DEF OnWay

LEMMA SentOn ==
  ASSUME Shape, NEW p \in Publishers, NEW c \in Conns, Deliver(p, c)
  PROVE  /\ Elsewhere(c)
         /\ \/ overflow[c] /\ OnWay(c)' = OnWay(c)
            \/ OnWay(c)' = OnWay(c) \cup {pub[p].event}
            \/ pub'[p].full = c /\ OnWay(c)' = OnWay(c)
<1>0. /\ queued \in [Conns -> Seq(Frames)] /\ pub[p].event \in Frames /\ queued[c] \in Seq(Frames)
      /\ pub \in [Publishers -> PubType]
  BY DEF Shape, StreamTypeOK, PubType
<1>1. UNCHANGED <<replay, control>>
  BY DEF Deliver, readVars
<1>2. CASE overflow[c]
  <2>1. queued' = queued
    BY <1>2 DEF Deliver
  <2> QED
    BY <1>1, <1>2, <2>1 DEF OnWay, Elsewhere
<1>3. CASE ~overflow[c] /\ Len(queued[c]) < ClientBuffer
  <2>1. queued' = [queued EXCEPT ![c] = Append(queued[c], pub[p].event)]
    BY <1>3 DEF Deliver
  <2>2. /\ queued'[c] = Append(queued[c], pub[p].event)
        /\ \A d \in Conns \ {c} : queued'[d] = queued[d]
    BY <1>0, <2>1
  <2>3. Range(Append(queued[c], pub[p].event)) = Range(queued[c]) \cup {pub[p].event}
    BY <1>0, AppendHas
  <2>4. OnWay(c)' = OnWay(c) \cup {pub[p].event}
    BY <1>1, <2>2, <2>3 DEF OnWay
  <2> QED
    BY <1>1, <2>2, <2>4 DEF OnWay, Elsewhere
<1>4. CASE ~(overflow[c] \/ Len(queued[c]) < ClientBuffer)
  <2>1. /\ queued' = queued
        /\ pub' = [pub EXCEPT ![p] = [pc |-> "full", event |-> pub[p].event,
                                      left |-> pub[p].left \ {c}, full |-> c]]
    BY <1>0, <1>4 DEF Deliver, PubType
  <2>2. pub'[p].full = c
    BY <1>0, <2>1
  <2> QED
    BY <1>1, <2>1, <2>2 DEF OnWay, Elsewhere
<1> QED
  BY <1>2, <1>3, <1>4

LEMMA ReplayOn ==
  ASSUME Shape, NEW c \in Conns, ReadResume(c)
  PROVE  /\ Elsewhere(c) /\ asked[c] \in Nat
         /\ Range(Since(asked[c])) \subseteq OnWay(c)'
         /\ OnWay(c) \subseteq OnWay(c)'
         /\ \A f \in OnWay(c)' : f \in OnWay(c) \/ f = Gap \/ f \in Range(ring)
<1>0. replay \in [Conns -> Seq(Frames)] /\ asked[c] \in Nat /\ replay[c] = <<>>
  BY DEF ReadResume, Shape, StreamTypeOK, ConnOK
<1>1. /\ UNCHANGED <<queued, control>> /\ replay'[c] = Since(asked[c])
      /\ \A d \in Conns \ {c} : replay'[d] = replay[d]
  BY <1>0 DEF ReadResume, clientVars
<1>2. Range(replay[c]) = {}
  BY <1>0 DEF Range
<1>3. \A f \in Range(Since(asked[c])) : f = Gap \/ f \in Range(ring)
  BY <1>0, SinceIs DEF Shape
<1>4. Elsewhere(c)
  BY <1>1 DEF OnWay, Elsewhere
<1>5. OnWay(c)' = Range(Since(asked[c])) \cup Range(control[c]) \cup Range(queued[c])
  BY <1>1 DEF OnWay
<1> QED
  BY <1>0, <1>2, <1>3, <1>4, <1>5 DEF OnWay

LEMMA QueuedOn ==
  ASSUME Shape, NEW c \in Conns, QueueControl(c)
  PROVE  /\ Elsewhere(c) /\ OnWay(c)' \subseteq OnWay(c)
         /\ overflow[c] \/ OnWay(c) \subseteq OnWay(c)'
<1>0. /\ replay \in [Conns -> Seq(Frames)] /\ control \in [Conns -> Seq(Frames)]
      /\ replay[c] \in Seq(Frames) /\ control[c] \in Seq(Frames) /\ replay[c] # <<>>
  BY DEF QueueControl, Shape, StreamTypeOK
<1> DEFINE f == Head(replay[c])
           t == Tail(replay[c])
           q == Append(control[c], f)
<1>1. f \in Frames /\ Range(replay[c]) = {f} \cup Range(t)
  BY <1>0, TailHas
<1>2. Range(q) = Range(control[c]) \cup {f}
  BY <1>0, <1>1, AppendHas
<1>3. /\ replay'[c] = t /\ queued' = queued
      /\ \A d \in Conns \ {c} : replay'[d] = replay[d]
  BY <1>0 DEF QueueControl
<1>4. \/ overflow[c] /\ control' = control
      \/ control' = [control EXCEPT ![c] = q]
  BY DEF QueueControl
<1> HIDE DEF f, t, q
<1>5. CASE overflow[c] /\ control' = control
  BY <1>1, <1>3, <1>5 DEF OnWay, Elsewhere
<1>6. CASE control' = [control EXCEPT ![c] = q]
  <2>1. control'[c] = q /\ \A d \in Conns \ {c} : control'[d] = control[d]
    BY <1>0, <1>6
  <2>2. OnWay(c)' = OnWay(c)
    BY <1>1, <1>2, <1>3, <2>1 DEF OnWay
  <2> QED
    BY <1>3, <2>1, <2>2 DEF OnWay, Elsewhere
<1> QED
  BY <1>4, <1>5, <1>6

(* A frame that is written is one that was on its way, and was received.   *)
LEMMA WrittenFrom ==
  ASSUME Shape, NEW c \in Conns, WriteControl(c) \/ WriteEvent(c)
  PROVE  \E f \in OnWay(c) : /\ f \in Frames /\ Receive(f)
                             /\ OnWay(c)' \subseteq OnWay(c) /\ OnWay(c) \subseteq {f} \cup OnWay(c)'
                             /\ Elsewhere(c)
<1>0. queued \in [Conns -> Seq(Frames)] /\ control \in [Conns -> Seq(Frames)]
  BY DEF Shape, StreamTypeOK
<1>1. CASE WriteControl(c)
  <2> DEFINE f == Head(control[c])
             t == Tail(control[c])
  <2>1. f \in Frames /\ Range(control[c]) = {f} \cup Range(t)
    BY <1>0, <1>1, TailHas DEF WriteControl
  <2>2. /\ control'[c] = t /\ UNCHANGED <<queued, replay>>
        /\ \A d \in Conns \ {c} : control'[d] = control[d]
    BY <1>0, <1>1 DEF WriteControl, readVars
  <2>3. Receive(f)
    BY <1>1 DEF WriteControl
  <2> HIDE DEF f, t
  <2>4. f \in OnWay(c) /\ OnWay(c)' \subseteq OnWay(c) /\ OnWay(c) \subseteq {f} \cup OnWay(c)'
    BY <2>1, <2>2 DEF OnWay
  <2>5. Elsewhere(c)
    BY <2>2 DEF OnWay, Elsewhere
  <2> QED
    BY <2>1, <2>3, <2>4, <2>5
<1>2. CASE WriteEvent(c)
  <2> DEFINE f == Head(queued[c])
             t == Tail(queued[c])
  <2>1. f \in Frames /\ Range(queued[c]) = {f} \cup Range(t)
    BY <1>0, <1>2, TailHas DEF WriteEvent
  <2>2. /\ queued'[c] = t /\ UNCHANGED <<control, replay>>
        /\ \A d \in Conns \ {c} : queued'[d] = queued[d]
    BY <1>0, <1>2 DEF WriteEvent, readVars
  <2>3. Receive(f)
    BY <1>2 DEF WriteEvent
  <2> HIDE DEF f, t
  <2>4. f \in OnWay(c) /\ OnWay(c)' \subseteq OnWay(c) /\ OnWay(c) \subseteq {f} \cup OnWay(c)'
    BY <2>1, <2>2 DEF OnWay
  <2>5. Elsewhere(c)
    BY <2>2 DEF OnWay, Elsewhere
  <2> QED
    BY <2>1, <2>3, <2>4, <2>5
<1> QED
  BY <1>1, <1>2

-----------------------------------------------------------------------------
(* Nothing is ahead of the hub.                                            *)
LEMMA FramesStay == Shape /\ FramesOK /\ [StreamNext]_streamVars => FramesOK'
<1> SUFFICES ASSUME Shape, FramesOK, [StreamNext]_streamVars, restarts' = 0 PROVE FramesOK'
  BY DEF FramesOK
<1>0. /\ restarts \in Nat /\ total \in Nat /\ seq \in Nat /\ cursor \in Nat \cup {NoSeq}
      /\ NoSeq \notin Nat /\ pub \in [Publishers -> PubType]
  BY EventStreamAssumption DEF Shape, StreamTypeOK, PubType
<1>1. restarts = 0 /\ ~Restart
  <2>1. \A p \in Publishers : Publish(p) \/ PublisherStep(p) => restarts' = restarts
    BY DEF Publish, PublisherStep, List, Deliver, MarkOverflow
  <2>2. \A c \in Conns : ConnStep(c) => restarts' = restarts
    BY DEF ConnStep, ReadResume, QueueControl, WriteControl, WriteEvent, WriteOverflow
  <2>3. Connect \/ Drop \/ Ended \/ UNCHANGED streamVars => restarts' = restarts
    BY DEF Connect, Drop, Ended, streamVars
  <2>4. Restart => restarts' # 0
    BY <1>0 DEF Restart
  <2> QED
    BY <2>1, <2>2, <2>3, <2>4 DEF StreamNext
<1>2. /\ cursor # NoSeq => cursor <= total
      /\ \A p \in Publishers : pub[p].event.seq <= total
      /\ \A c \in Conns : \A f \in OnWay(c) : f.seq <= total
  BY <1>1 DEF FramesOK
<1>3. \A i \in DOMAIN ring : ring[i].seq <= total
  BY <1>1 DEF Shape, RingOK, StreamTypeOK
<1>4. \A f \in Range(ring) : f.seq <= total
  BY <1>3 DEF Range
<1>5. \A p \in Publishers : pub[p] \in PubType /\ pub[p].event \in Frames
  BY <1>0 DEF PubType
<1>6. \A c \in Conns : \A f \in OnWay(c) : f.seq \in Nat
  BY FramesAre DEF Shape, Frames
<1>10. ASSUME NEW p \in Publishers, Publish(p) PROVE FramesOK'
  <2>1. /\ UNCHANGED <<queued, control, replay, cursor>> /\ total' = total + 1 /\ seq = total
        /\ pub' = [pub EXCEPT ![p] = [Calm EXCEPT !.pc = "stamped",
                                                  !.event = Event(seq + 1, total + 1)]]
    BY <1>1, <1>10 DEF Publish, clientVars, readVars, tabVars, Shape, RingOK
  <2>2. pub'[p].event = Event(seq + 1, total + 1)
    BY <1>0, <2>1, CalmIs DEF PubType
  <2>3. pub'[p].event.seq = total'
    BY <1>0, <2>1, <2>2, EventIs
  <2>4. \A q \in Publishers \ {p} : pub'[q] = pub[q]
    BY <1>0, <2>1
  <2>5. \A q \in Publishers : pub[q].event.seq \in Nat
    BY <1>5 DEF Frames
  <2>6. \A k \in Nat : k <= total => k <= total'
    BY <1>0, <2>1
  <2>7. \A q \in Publishers : pub'[q].event.seq <= total'
    BY <1>0, <1>2, <2>1, <2>3, <2>4, <2>5, <2>6
  <2>8. \A c \in Conns : OnWay(c)' = OnWay(c)
    BY <2>1 DEF OnWay
  <2>9. \A c \in Conns : \A f \in OnWay(c)' : f.seq <= total'
    BY <1>2, <1>6, <2>6, <2>8
  <2>10. cursor' # NoSeq => cursor' <= total'
    BY <1>0, <1>2, <2>1, <2>6
  <2> QED
    BY <2>7, <2>9, <2>10 DEF FramesOK
<1>11. ASSUME NEW p \in Publishers, PublisherStep(p) PROVE FramesOK'
  <2>1. UNCHANGED <<total, cursor, replay, control>>
    BY <1>11 DEF PublisherStep, List, Deliver, MarkOverflow, clientVars, readVars, tabVars
  <2>2. pub'[p].event = pub[p].event /\ \A q \in Publishers \ {p} : pub'[q] = pub[q]
    <3>1. ASSUME NEW rest \in SUBSET Conns, pub' = [pub EXCEPT ![p] = Handing(rest, pub[p].event)]
          PROVE  pub'[p].event = pub[p].event /\ \A q \in Publishers \ {p} : pub'[q] = pub[q]
      <4>1. Handing(rest, pub[p].event).event = pub[p].event
        BY <1>5, HandingIs
      <4> QED
        BY <1>0, <3>1, <4>1
    <3>2. registered \in SUBSET Conns /\ pub[p].left \in SUBSET Conns
      BY <1>5 DEF Shape, StreamTypeOK, PubType
    <3>3. CASE List(p)
      BY <3>1, <3>2, <3>3 DEF List
    <3>4. CASE MarkOverflow(p)
      BY <3>1, <3>2, <3>4 DEF MarkOverflow
    <3>5. ASSUME NEW c \in Conns, Deliver(p, c)
          PROVE  pub'[p].event = pub[p].event /\ \A q \in Publishers \ {p} : pub'[q] = pub[q]
      <4>1. pub[p].left \ {c} \in SUBSET Conns
        BY <3>2
      <4>2. CASE overflow[c] \/ Len(queued[c]) < ClientBuffer
        BY <3>1, <3>5, <4>1, <4>2 DEF Deliver
      <4>3. CASE ~(overflow[c] \/ Len(queued[c]) < ClientBuffer)
        BY <1>0, <1>5, <3>5, <4>3 DEF Deliver, PubType
      <4> QED
        BY <4>2, <4>3
    <3> QED
      BY <1>11, <3>3, <3>4, <3>5 DEF PublisherStep
  <2>3. \A c \in Conns : OnWay(c)' \subseteq OnWay(c) \cup {pub[p].event}
    <3>1. CASE List(p) \/ MarkOverflow(p)
      BY <2>1, <3>1 DEF List, MarkOverflow, clientVars, OnWay
    <3>2. ASSUME NEW c \in Conns, Deliver(p, c)
          PROVE  \A d \in Conns : OnWay(d)' \subseteq OnWay(d) \cup {pub[p].event}
      BY <3>2, SentOn DEF Elsewhere
    <3> QED
      BY <1>11, <3>1, <3>2 DEF PublisherStep
  <2> QED
    BY <1>2, <2>1, <2>2, <2>3 DEF FramesOK
<1>12. ASSUME NEW c \in Conns, ConnStep(c) PROVE FramesOK'
  <2>0. UNCHANGED <<total, pub>>
    BY <1>12 DEF ConnStep, ReadResume, QueueControl, WriteControl, WriteEvent, WriteOverflow
  <2>1. CASE ReadResume(c)
    <3>1. Elsewhere(c) /\ \A f \in OnWay(c)' : f \in OnWay(c) \/ f = Gap \/ f \in Range(ring)
      BY <2>1, ReplayOn
    <3>2. cursor' = cursor
      BY <2>1 DEF ReadResume, tabVars
    <3>3. Gap.seq <= total
      BY <1>0, GapIs
    <3>4. \A f \in OnWay(c)' : f.seq <= total
      BY <1>2, <1>4, <3>1, <3>3
    <3> QED
      BY <1>2, <2>0, <3>1, <3>2, <3>4 DEF FramesOK, Elsewhere
  <2>2. CASE QueueControl(c)
    <3>1. Elsewhere(c) /\ OnWay(c)' \subseteq OnWay(c) /\ cursor' = cursor
      BY <2>2, QueuedOn DEF QueueControl, tabVars
    <3> QED
      BY <1>2, <2>0, <3>1 DEF FramesOK, Elsewhere
  <2>3. CASE WriteControl(c) \/ WriteEvent(c)
    <3>1. PICK f \in OnWay(c) : Receive(f) /\ OnWay(c)' \subseteq OnWay(c) /\ Elsewhere(c)
      BY <2>3, WrittenFrom
    <3>2. cursor' # NoSeq => cursor' <= total
      BY <1>2, <3>1 DEF Receive
    <3> QED
      BY <1>2, <2>0, <3>1, <3>2 DEF FramesOK, Elsewhere
  <2>4. CASE WriteOverflow(c)
    <3>1. cursor' = NoSeq /\ UNCHANGED <<queued, control, replay>>
      BY <2>4 DEF WriteOverflow, clientVars, readVars
    <3> QED
      BY <1>2, <2>0, <3>1 DEF FramesOK, OnWay
  <2> QED
    BY <1>12, <2>1, <2>2, <2>3, <2>4 DEF ConnStep
<1>13. CASE Connect \/ Drop \/ Ended \/ UNCHANGED streamVars
  <2>1. UNCHANGED <<total, pub, cursor, queued, control, replay>>
    BY <1>13 DEF Connect, Drop, Ended, streamVars, clientVars, readVars, tabVars
  <2> QED
    BY <1>2, <2>1 DEF FramesOK, OnWay
<1> QED
  BY <1>1, <1>10, <1>11, <1>12, <1>13 DEF StreamNext

-----------------------------------------------------------------------------
(* What still comes over a connection: from a publisher, in a list, from a *)
(* replay that is asked for, or made up for by the refetch after overflow. *)
Held(c, n) == \E p \in Publishers : /\ pub[p].event.number = n
                                    /\ pub[p].pc = "stamped" \/ c \in pub[p].left \cup {pub[p].full}
Carried(c, n) == \E f \in OnWay(c) : f.number = n \/ f = Gap
Asked(c, n) == asked[c] # NoSeq /\ n > asked[c]

Way(c, n) == Held(c, n) \/ Carried(c, n) \/ Asked(c, n) \/ overflow[c]

LEMMA ComingIs ==
  ASSUME StreamTypeOK, StreamTypeOK', NEW c \in Conns, NEW n
  PROVE  (Coming(c, n) <=> Way(c, n)) /\ (Coming(c, n)' <=> Way(c, n)')
<1>1. Range(replay[c] \o control[c] \o queued[c]) = OnWay(c)
  BY FrameIs, ThreeLists DEF OnWay
<1>2. replay'[c] \in Seq(Frames) /\ control'[c] \in Seq(Frames) /\ queued'[c] \in Seq(Frames)
  BY DEF StreamTypeOK
<1>3. Range(replay'[c] \o control'[c] \o queued'[c]) = OnWay(c)'
  BY <1>2, ThreeLists DEF OnWay
<1> QED
  BY <1>1, <1>3 DEF Coming, Way, Held, Carried, Asked

(* A step that leaves the connection up takes no event off its way: what   *)
(* was covered stays covered.                                              *)
Keeps == \A n \in 1..total : n \in got \/ n <= fetched \/ Way(conn, n)
                             => n \in got' \/ n <= fetched' \/ Way(conn, n)'

LEMMA PublishKeeps ==
  ASSUME Shape, StreamTypeOK', conn \in Conns, NEW p \in Publishers, Publish(p)
  PROVE  Keeps /\ \A n : n = total + 1 => Way(conn, n)'
<1>0. /\ pub \in [Publishers -> PubType] /\ seq + 1 \in Nat /\ total + 1 \in Nat
      /\ conn # 0
  <2>1. conn # 0
    BY EventStreamAssumption DEF Conns
  <2> QED
    BY <2>1 DEF Shape, StreamTypeOK, PubType
<1>1. /\ UNCHANGED <<queued, control, overflow, asked, replay, conn, got, fetched>>
      /\ pub' = [pub EXCEPT ![p] = [Calm EXCEPT !.pc = "stamped",
                                                !.event = Event(seq + 1, total + 1)]]
      /\ pub[p].pc = "idle"
  BY DEF Publish, clientVars, readVars, tabVars, histVars
<1>2. pub'[p].event = Event(seq + 1, total + 1) /\ pub'[p].pc = "stamped"
  BY <1>0, <1>1, CalmIs DEF PubType
<1>3. \A q \in Publishers \ {p} : pub'[q] = pub[q]
  BY <1>0, <1>1
<1>4. pub[p].left = {} /\ pub[p].full = 0
  BY <1>1 DEF Shape, ConnOK
<1>5. ASSUME NEW n, Held(conn, n) PROVE Held(conn, n)'
  BY <1>0, <1>1, <1>3, <1>4, <1>5 DEF Held
<1>6. OnWay(conn)' = OnWay(conn)
  BY <1>1 DEF OnWay
<1>7. Keeps
  BY <1>1, <1>5, <1>6 DEF Keeps, Way, Carried, Asked
<1>8. ASSUME NEW n, n = total + 1 PROVE Held(conn, n)'
  <2>1. pub'[p].event.number = n
    BY <1>0, <1>2, <1>8, EventIs
  <2> QED
    BY <1>2, <2>1 DEF Held
<1> QED
  BY <1>7, <1>8 DEF Way

(* What a publisher does to its own record leaves the other ones alone.    *)
LEMMA HeldOn ==
  ASSUME pub \in [Publishers -> PubType], NEW p \in Publishers, NEW job,
         pub' = [pub EXCEPT ![p] = job], job.event = pub[p].event, conn' = conn,
         pub[p].pc = "stamped" \/ conn \in pub[p].left \cup {pub[p].full}
            => conn \in job.left \cup {job.full}
  PROVE  \A n : Held(conn, n) => Held(conn, n)'
<1>1. pub'[p] = job /\ \A q \in Publishers \ {p} : pub'[q] = pub[q]
  OBVIOUS
<1> SUFFICES ASSUME NEW n, Held(conn, n) PROVE Held(conn, n)'
  OBVIOUS
<1>2. PICK q \in Publishers : /\ pub[q].event.number = n
                              /\ pub[q].pc = "stamped" \/ conn \in pub[q].left \cup {pub[q].full}
  BY DEF Held
<1>3. CASE q = p
  BY <1>1, <1>2, <1>3 DEF Held
<1>4. CASE q # p
  BY <1>1, <1>2, <1>4 DEF Held
<1> QED
  BY <1>3, <1>4

LEMMA HeldByOthers ==
  ASSUME NEW p \in Publishers, conn' = conn, \A q \in Publishers \ {p} : pub'[q] = pub[q]
  PROVE  \A n : Held(conn, n) => Held(conn, n)' \/ pub[p].event.number = n
<1> SUFFICES ASSUME NEW n, Held(conn, n), pub[p].event.number # n PROVE Held(conn, n)'
  OBVIOUS
<1>1. PICK q \in Publishers : /\ pub[q].event.number = n
                              /\ pub[q].pc = "stamped" \/ conn \in pub[q].left \cup {pub[q].full}
  BY DEF Held
<1>2. q # p /\ pub'[q] = pub[q]
  BY <1>1
<1> QED
  BY <1>1, <1>2 DEF Held

LEMMA PublisherKeeps ==
  ASSUME Shape, conn \in Conns, NEW p \in Publishers, PublisherStep(p)
  PROVE  Keeps
<1>0. /\ pub \in [Publishers -> PubType] /\ pub[p] \in PubType /\ pub[p].event \in Frames
      /\ registered \in SUBSET Conns /\ pub[p].left \in SUBSET Conns /\ conn # 0
      /\ overflow \in [Conns -> BOOLEAN]
  BY DEF Shape, StreamTypeOK, PubType, Conns
<1>1. UNCHANGED <<control, asked, replay, conn, got, fetched>>
  BY DEF PublisherStep, List, Deliver, MarkOverflow, clientVars, readVars, tabVars, histVars
<1>2. CASE List(p)
  <2> DEFINE job == Handing(registered, pub[p].event)
  <2>1. job.event = pub[p].event /\ job.left = registered
    BY <1>0, HandingIs
  <2>2. conn \in registered
    BY <1>0 DEF Shape, ConnOK
  <2>3. pub' = [pub EXCEPT ![p] = job] /\ UNCHANGED <<queued, overflow>>
    BY <1>2 DEF List, clientVars
  <2> HIDE DEF job
  <2>4. \A n : Held(conn, n) => Held(conn, n)'
    BY <1>0, <1>1, <2>1, <2>2, <2>3, HeldOn
  <2>5. OnWay(conn)' = OnWay(conn)
    BY <1>1, <2>3 DEF OnWay
  <2> QED
    BY <1>1, <2>3, <2>4, <2>5 DEF Keeps, Way, Carried, Asked
<1>3. ASSUME NEW c \in Conns, Deliver(p, c) PROVE Keeps
  <2>0. pub[p].pc = "handing" /\ pub[p].full = 0 /\ overflow' = overflow
    BY <1>3 DEF Deliver, Shape, ConnOK
  <2>1. CASE c # conn
    <3>1. \A n : Held(conn, n) => Held(conn, n)'
      <4>1. CASE overflow[c] \/ Len(queued[c]) < ClientBuffer
        <5> DEFINE job == Handing(pub[p].left \ {c}, pub[p].event)
        <5>1. job.event = pub[p].event /\ job.left = pub[p].left \ {c}
          BY <1>0, HandingIs
        <5>2. pub' = [pub EXCEPT ![p] = job]
          BY <1>3, <4>1 DEF Deliver
        <5> HIDE DEF job
        <5> QED
          BY <1>0, <1>1, <2>0, <2>1, <5>1, <5>2, HeldOn
      <4>2. CASE ~(overflow[c] \/ Len(queued[c]) < ClientBuffer)
        <5> DEFINE job == [pc |-> "full", event |-> pub[p].event,
                           left |-> pub[p].left \ {c}, full |-> c]
        <5>1. pub' = [pub EXCEPT ![p] = job]
          BY <1>0, <1>3, <4>2 DEF Deliver, PubType
        <5>2. job.event = pub[p].event /\ job.left = pub[p].left \ {c}
          OBVIOUS
        <5> HIDE DEF job
        <5> QED
          BY <1>0, <1>1, <2>0, <2>1, <5>1, <5>2, HeldOn
      <4> QED
        BY <4>1, <4>2
    <3>2. OnWay(conn)' = OnWay(conn)
      <4>1. conn' = conn /\ conn \in Conns \ {c}
        BY <1>1, <2>1
      <4> QED
        BY <1>3, <4>1, SentOn DEF Elsewhere, OnWay
    <3> QED
      BY <1>1, <2>0, <3>1, <3>2 DEF Keeps, Way, Carried, Asked
  <2>2. CASE c = conn
    <3>1. CASE overflow[c]
      BY <1>1, <2>0, <2>2, <3>1 DEF Keeps, Way
    <3>2. CASE ~overflow[c] /\ Len(queued[c]) < ClientBuffer
      <4>1. OnWay(c)' = OnWay(c) \cup {pub[p].event}
        <5>1. pub' = [pub EXCEPT ![p] = Handing(pub[p].left \ {c}, pub[p].event)]
          BY <1>3, <3>2 DEF Deliver
        <5>2. Handing(pub[p].left \ {c}, pub[p].event).full = 0
          BY <1>0, HandingIs
        <5>3. pub'[p].full # c
          BY <1>0, <2>2, <5>1, <5>2
        <5> QED
          BY <1>3, <3>2, <5>3, SentOn
      <4>2. pub' = [pub EXCEPT ![p] = Handing(pub[p].left \ {c}, pub[p].event)]
        BY <1>3, <3>2 DEF Deliver
      <4>3. \A q \in Publishers \ {p} : pub'[q] = pub[q]
        BY <1>0, <4>2
      <4>4. \A n : Held(conn, n) => Held(conn, n)' \/ Carried(conn, n)'
        <5>1. OnWay(conn)' = OnWay(conn) \cup {pub[p].event}
          BY <1>1, <2>2, <4>1 DEF OnWay
        <5>2. \A n : pub[p].event.number = n => Carried(conn, n)'
          BY <5>1 DEF Carried
        <5>3. \A n : Held(conn, n) => Held(conn, n)' \/ pub[p].event.number = n
          BY <1>1, <4>3, HeldByOthers
        <5> QED
          BY <5>2, <5>3
      <4> QED
        BY <1>1, <2>0, <2>2, <4>1, <4>4 DEF Keeps, Way, Carried, Asked
    <3>3. CASE ~(overflow[c] \/ Len(queued[c]) < ClientBuffer)
      <4> DEFINE job == [pc |-> "full", event |-> pub[p].event,
                         left |-> pub[p].left \ {c}, full |-> c]
      <4>1. pub' = [pub EXCEPT ![p] = job] /\ queued' = queued
        BY <1>0, <1>3, <3>3 DEF Deliver, PubType
      <4>2. job.event = pub[p].event /\ job.full = c
        OBVIOUS
      <4> HIDE DEF job
      <4>3. \A n : Held(conn, n) => Held(conn, n)'
        BY <1>0, <1>1, <2>2, <4>1, <4>2, HeldOn
      <4>4. OnWay(conn)' = OnWay(conn)
        BY <1>1, <4>1 DEF OnWay
      <4> QED
        BY <1>1, <2>0, <4>3, <4>4 DEF Keeps, Way, Carried, Asked
    <3> QED
      BY <3>1, <3>2, <3>3
  <2> QED
    BY <2>1, <2>2
<1>4. CASE MarkOverflow(p)
  <2> DEFINE job == Handing(pub[p].left, pub[p].event)
  <2>1. job.event = pub[p].event /\ job.left = pub[p].left
    BY <1>0, HandingIs
  <2>2. /\ pub' = [pub EXCEPT ![p] = job] /\ queued' = queued /\ pub[p].pc = "full"
        /\ overflow' = [overflow EXCEPT ![pub[p].full] = TRUE]
    BY <1>4 DEF MarkOverflow
  <2> HIDE DEF job
  <2>3. pub[p].full \in Conns
    BY <2>2 DEF Shape, ConnOK
  <2>4. OnWay(conn)' = OnWay(conn)
    BY <1>1, <2>2 DEF OnWay
  <2>5. CASE pub[p].full = conn
    <3>1. overflow'[conn]
      BY <1>0, <2>2, <2>3, <2>5
    <3> QED
      BY <1>1, <3>1 DEF Keeps, Way
  <2>6. CASE pub[p].full # conn
    <3>1. \A n : Held(conn, n) => Held(conn, n)'
      BY <1>0, <1>1, <2>1, <2>2, <2>6, HeldOn
    <3>2. overflow'[conn] = overflow[conn]
      BY <1>0, <2>2, <2>6
    <3> QED
      BY <1>1, <2>4, <3>1, <3>2 DEF Keeps, Way, Carried, Asked
  <2> QED
    BY <2>5, <2>6
<1> QED
  BY <1>2, <1>3, <1>4 DEF PublisherStep

(* The pumps: a frame is moved on, or it reaches the tab.                  *)
LEMMA PumpKeeps ==
  ASSUME Shape, conn \in Conns, restarts = 0,
         ReadResume(conn) \/ QueueControl(conn) \/ WriteControl(conn) \/ WriteEvent(conn)
  PROVE  Keeps
<1>0. /\ total \in Nat /\ fetched \in Nat /\ asked \in [Conns -> Nat \cup {NoSeq}]
      /\ conn' = conn /\ pub' = pub
  BY DEF Shape, StreamTypeOK, ReadResume, QueueControl, WriteControl, WriteEvent, tabVars
<1>1. \A n : Held(conn, n) => Held(conn, n)'
  BY <1>0 DEF Held
<1>2. CASE ReadResume(conn)
  <2>1. UNCHANGED <<overflow, got, fetched>>
    BY <1>2 DEF ReadResume, clientVars, histVars
  <2>2. PICK c \in Conns : c = conn
    OBVIOUS
  <2>3. /\ asked[c] \in Nat /\ OnWay(c) \subseteq OnWay(c)'
        /\ Range(Since(asked[c])) \subseteq OnWay(c)'
    BY <1>2, <2>2, ReplayOn
  <2>4. \A f \in Range(ring) : f.number = f.seq
    BY DEF Shape, RingOK, Range
  <2>5. ASSUME NEW n \in 1..total, n > asked[c]
        PROVE  \E f \in OnWay(c)' : f.number = n \/ f = Gap
    <3>1. n \in (asked[c] + 1)..seq
      BY <1>0, <2>3, <2>5 DEF Shape, RingOK
    <3>2. \E f \in Range(Since(asked[c])) : f = Gap \/ (f.seq = n /\ f \in Range(ring))
      BY <2>3, <3>1, SinceIs DEF Shape
    <3> QED
      BY <2>3, <2>4, <3>2
  <2>6. OnWay(conn)' = OnWay(c)' /\ OnWay(conn) = OnWay(c)
    BY <1>0, <2>2 DEF OnWay
  <2>7. ASSUME NEW n \in 1..total PROVE Asked(conn, n) \/ Carried(conn, n) => Carried(conn, n)'
    <3>1. CASE Carried(conn, n)
      BY <2>3, <2>6, <3>1 DEF Carried
    <3>2. CASE Asked(conn, n)
      <4>1. \E f \in OnWay(c)' : f.number = n \/ f = Gap
        BY <2>2, <2>5, <3>2 DEF Asked
      <4> QED
        BY <2>6, <4>1 DEF Carried
    <3> QED
      BY <3>1, <3>2
  <2> QED
    BY <1>0, <1>1, <2>1, <2>7 DEF Keeps, Way
<1>3. CASE QueueControl(conn)
  <2>1. UNCHANGED <<asked, overflow, got, fetched>>
    BY <1>3 DEF QueueControl, histVars
  <2>2. PICK c \in Conns : c = conn
    OBVIOUS
  <2>3. overflow[c] \/ OnWay(c) \subseteq OnWay(c)'
    BY <1>3, <2>2, QueuedOn
  <2>4. OnWay(conn)' = OnWay(c)' /\ OnWay(conn) = OnWay(c)
    BY <1>0, <2>2 DEF OnWay
  <2>5. overflow[conn] \/ \A n : Carried(conn, n) => Carried(conn, n)'
    BY <2>2, <2>3, <2>4 DEF Carried
  <2>6. \A n : Asked(conn, n) => Asked(conn, n)'
    BY <1>0, <2>1 DEF Asked
  <2> QED
    BY <1>0, <1>1, <2>1, <2>5, <2>6 DEF Keeps, Way
<1>4. CASE WriteControl(conn) \/ WriteEvent(conn)
  <2>1. UNCHANGED <<asked, overflow, total>>
    BY <1>4 DEF WriteControl, WriteEvent, readVars
  <2>2. PICK c \in Conns : c = conn
    OBVIOUS
  <2>3. PICK f \in OnWay(c) : /\ f \in Frames /\ Receive(f)
                              /\ OnWay(c) \subseteq {f} \cup OnWay(c)'
    BY <1>4, <2>2, WrittenFrom
  <2>4. OnWay(conn)' = OnWay(c)' /\ OnWay(conn) = OnWay(c)
    BY <1>0, <2>2 DEF OnWay
  <2>5. \A n : Asked(conn, n) => Asked(conn, n)'
    BY <1>0, <2>1 DEF Asked
  <2>6. \A n : Carried(conn, n) => Carried(conn, n)' \/ f.number = n \/ f = Gap
    BY <2>3, <2>4 DEF Carried
  <2>7. CASE f.kind = "event"
    <3>1. got' = got \cup {f.number} /\ fetched' = fetched /\ f # Gap
      BY <2>3, <2>7 DEF Receive, Gap
    <3> QED
      BY <1>0, <1>1, <2>1, <2>5, <2>6, <3>1 DEF Keeps, Way
  <2>8. CASE f.kind # "event"
    <3>1. fetched' = total
      BY <2>3, <2>8 DEF Receive
    <3>2. \A n \in 1..total : n <= fetched'
      BY <1>0, <3>1
    <3> QED
      BY <3>2 DEF Keeps
  <2> QED
    BY <2>7, <2>8
<1> QED
  BY <1>2, <1>3, <1>4

-----------------------------------------------------------------------------
(* Nothing is lost on the way.                                             *)
LEMMA CoveredIs ==
  ASSUME StreamTypeOK, StreamTypeOK', conn \in Conns, conn' = conn
  PROVE  \A n : /\ Covered(n) <=> n \in got \/ n <= fetched \/ Way(conn, n)
                /\ Covered(n)' <=> n \in got' \/ n <= fetched' \/ Way(conn, n)'
<1> SUFFICES ASSUME NEW n
             PROVE  /\ Covered(n) <=> n \in got \/ n <= fetched \/ Way(conn, n)
                    /\ Covered(n)' <=> n \in got' \/ n <= fetched' \/ Way(conn, n)'
  OBVIOUS
<1>1. PICK c \in Conns : c = conn /\ c = conn' /\ c # 0
  BY EventStreamAssumption DEF Conns
<1>2. (Coming(c, n) <=> Way(c, n)) /\ (Coming(c, n)' <=> Way(c, n)')
  BY ComingIs
<1>3. Way(c, n) = Way(conn, n) /\ Coming(c, n) = Coming(conn, n)
  BY <1>1
<1>4. Way(c, n)' = Way(conn, n)' /\ Coming(c, n)' = Coming(conn, n)'
  BY <1>1
<1> QED
  BY <1>1, <1>2, <1>3, <1>4 DEF Covered

(* A step under which the connection stays up.                             *)
LEMMA SteadyStep ==
  ASSUME Shape, StreamTypeOK', StreamInv, conn \in Conns, conn' = conn, restarts = 0, Keeps,
         UNCHANGED <<base, blind, overtaken>>,
         total' = total \/ (total' = total + 1 /\ \A n : n = total + 1 => Way(conn, n)')
  PROVE  StreamInv'
<1>0. total \in Nat /\ base \in Nat /\ total' \in Nat /\ conn # 0
  BY EventStreamAssumption DEF Shape, StreamTypeOK, Conns
<1>1. \A n \in 1..total : Covered(n) => Covered(n)'
  BY CoveredIs DEF Keeps, Shape
<1>2. \A n : n \in 1..total' /\ n \notin 1..total => Covered(n)'
  <2> SUFFICES ASSUME NEW n, n \in 1..total', n \notin 1..total PROVE Covered(n)'
    OBVIOUS
  <2>1. n = total + 1 /\ total' = total + 1
    BY <1>0
  <2>2. Way(conn, n)'
    BY <1>0, <2>1
  <2> QED
    BY <2>2, CoveredIs DEF Shape
<1>3. \A n \in (base' + 1)..total' : Covered(n)'
  <2>1. \A n \in (base + 1)..total : Covered(n)
    BY <1>0 DEF StreamInv
  <2>2. \A n \in (base + 1)..total' : n \in 1..total' /\ (n \in 1..total => n \in (base + 1)..total)
    BY <1>0
  <2> QED
    BY <1>1, <1>2, <2>1, <2>2
<1>4. ~blind' /\ ~overtaken' => \A n \in 1..total' : Covered(n)'
  BY <1>0, <1>1, <1>2 DEF StreamInv
<1> QED
  BY <1>0, <1>3, <1>4 DEF StreamInv

LEMMA StreamStays == Shape /\ StreamTypeOK' /\ FramesOK /\ StreamInv /\ [StreamNext]_streamVars => StreamInv'
<1> SUFFICES ASSUME Shape, StreamTypeOK', FramesOK, StreamInv, [StreamNext]_streamVars, restarts' = 0
             PROVE  StreamInv'
  BY DEF StreamInv
<1>0. /\ restarts \in Nat /\ total \in Nat /\ conn \in 0..MaxConns /\ conn' \in 0..MaxConns
      /\ cursor \in Nat \cup {NoSeq} /\ fetched \in Nat /\ opened \in Nat
      /\ blind \in BOOLEAN /\ overtaken \in BOOLEAN
      /\ NoSeq \notin Nat /\ MaxConns \in Nat
  BY EventStreamAssumption DEF Shape, StreamTypeOK
<1>1. conn # 0 => conn \in Conns
  BY <1>0 DEF Conns
<1>2. ASSUME NEW p \in Publishers, Publish(p) PROVE StreamInv'
  <2>0. /\ UNCHANGED <<conn, opened, cursor, got, fetched, base, blind, overtaken, restarts>>
        /\ total' = total + 1
    BY <1>2 DEF Publish, tabVars, histVars
  <2>1. CASE conn # 0
    BY <1>1, <1>2, <2>0, <2>1, PublishKeeps, SteadyStep
  <2>2. CASE conn = 0
    <3>1. cursor # NoSeq => cursor <= total
      BY <2>0 DEF FramesOK
    <3>2. \A n \in 1..total' : n \in 1..total \/ (cursor # NoSeq => n > cursor)
      BY <1>0, <2>0, <3>1
    <3> QED
      BY <1>0, <2>0, <2>2, <3>2 DEF StreamInv
  <2> QED
    BY <2>1, <2>2
<1>3. ASSUME NEW p \in Publishers, PublisherStep(p) PROVE StreamInv'
  <2>0. UNCHANGED <<tabVars, total, histVars, restarts>>
    BY <1>3 DEF PublisherStep, List, Deliver, MarkOverflow
  <2>1. CASE conn # 0
    BY <1>1, <1>3, <2>0, <2>1, PublisherKeeps, SteadyStep DEF tabVars, histVars
  <2>2. CASE conn = 0
    BY <2>0, <2>2 DEF StreamInv, tabVars, histVars
  <2> QED
    BY <2>1, <2>2
<1>4. ASSUME NEW c \in Conns, ConnStep(c) PROVE StreamInv'
  <2>0. conn = c /\ conn \in Conns /\ UNCHANGED <<total, base, blind, overtaken, restarts>>
    BY <1>4 DEF ConnStep, ReadResume, QueueControl, WriteControl, WriteEvent, WriteOverflow, histVars
  <2>1. CASE ReadResume(c) \/ QueueControl(c) \/ WriteControl(c) \/ WriteEvent(c)
    <3>1. conn' = conn
      BY <2>1 DEF ReadResume, QueueControl, WriteControl, WriteEvent, tabVars
    <3>2. Keeps
      BY <2>0, <2>1, PumpKeeps
    <3> QED
      BY <2>0, <3>1, <3>2, SteadyStep
  <2>2. CASE WriteOverflow(c)
    <3>1. conn' = 0 /\ cursor' = NoSeq
      BY <2>2 DEF WriteOverflow, HangUp
    <3> QED
      BY <3>1 DEF StreamInv
  <2> QED
    BY <1>4, <2>1, <2>2 DEF ConnStep
<1>5. CASE Connect
  <2>0. /\ conn = 0 /\ conn' = opened + 1 /\ opened + 1 \in Conns /\ conn' # 0
        /\ total' = total /\ got' = got /\ overtaken' = overtaken /\ restarts = 0
        /\ asked' = [asked EXCEPT ![opened + 1] = cursor]
        /\ base' = IF cursor = NoSeq THEN total ELSE cursor
    BY <1>0, <1>5 DEF Connect, Conns
  <2>1. asked'[opened + 1] = cursor
    BY <2>0 DEF Shape, StreamTypeOK
  <2>2. PICK c \in Conns : c = conn' /\ c # 0 /\ asked'[c] = cursor
    BY <2>0, <2>1
  <2>3. ASSUME NEW n, cursor # NoSeq, n > cursor PROVE Covered(n)'
    <3>1. Asked(c, n)'
      BY <2>2, <2>3 DEF Asked
    <3>2. Coming(c, n)'
      BY <3>1, ComingIs DEF Shape, Way
    <3> QED
      BY <2>2, <3>2 DEF Covered
  <2>4. \A n \in (base' + 1)..total' : Covered(n)'
    <3>1. CASE cursor = NoSeq
      BY <1>0, <2>0, <3>1
    <3>2. CASE cursor # NoSeq
      <4>1. \A n \in (cursor + 1)..total : n > cursor
        BY <1>0, <3>2
      <4> QED
        BY <2>0, <2>3, <3>2, <4>1
    <3> QED
      BY <3>1, <3>2
  <2>5. ASSUME ~blind', ~overtaken' PROVE \A n \in 1..total' : Covered(n)'
    <3>1. CASE opened = 0
      <4>1. fetched' = total
        BY <1>5, <3>1 DEF Connect
      <4>2. \A n \in 1..total' : n <= fetched'
        BY <1>0, <2>0, <4>1
      <4> QED
        BY <4>2 DEF Covered
    <3>2. CASE opened # 0
      <4>1. fetched' = fetched /\ ~blind /\ cursor # NoSeq
        BY <1>5, <2>5, <3>2 DEF Connect
      <4>2. \A n \in 1..total : n \in got \/ n <= fetched \/ n > cursor
        BY <2>0, <2>5, <3>2, <4>1 DEF StreamInv
      <4> SUFFICES ASSUME NEW n \in 1..total' PROVE Covered(n)'
        OBVIOUS
      <4>3. n \in got' \/ n <= fetched' \/ n > cursor
        BY <2>0, <4>1, <4>2
      <4> QED
        BY <2>3, <4>1, <4>3 DEF Covered
    <3> QED
      BY <3>1, <3>2
  <2> QED
    BY <2>0, <2>4, <2>5 DEF StreamInv
<1>6. CASE Drop
  <2>0. /\ conn # 0 /\ conn' = 0 /\ overtaken' = (overtaken \/ Overtaken(conn))
        /\ UNCHANGED <<opened, cursor, total, got, fetched, base, blind, restarts>>
    BY <1>6 DEF Drop, HangUp
  <2>1. ASSUME ~blind, ~overtaken, ~Overtaken(conn), cursor # NoSeq, NEW n \in 1..total
        PROVE  n \in got \/ n <= fetched \/ n > cursor
    <3> SUFFICES ASSUME n \notin got, ~(n <= fetched), ~(n > cursor) PROVE FALSE
      OBVIOUS
    <3>1. Coming(conn, n)
      <4>1. Covered(n)
        BY <2>0, <2>1 DEF StreamInv
      <4> QED
        BY <4>1 DEF Covered
    <3>2. n \in (fetched + 1)..cursor
      BY <1>0, <2>1
    <3> QED
      BY <2>1, <3>1, <3>2 DEF Overtaken
  <2>2. ~overtaken' => ~overtaken /\ ~Overtaken(conn)
    BY <2>0
  <2> QED
    BY <2>0, <2>1, <2>2 DEF StreamInv
<1>7. CASE Restart
  BY <1>0, <1>7 DEF Restart
<1>8. CASE Ended \/ UNCHANGED streamVars
  <2>1. UNCHANGED streamVars
    BY <1>8 DEF Ended
  <2>2. \A n : Covered(n)' <=> Covered(n)
    BY <2>1 DEF streamVars, hubVars, clientVars, readVars, tabVars, histVars, Covered, Coming
  <2> QED
    BY <2>1, <2>2 DEF StreamInv, streamVars, tabVars, histVars
<1> QED
  BY <1>2, <1>3, <1>4, <1>5, <1>6, <1>7, <1>8 DEF StreamNext

LEMMA StreamInductive == SInv /\ [StreamNext]_streamVars => SInv'
<1> SUFFICES ASSUME SInv, [StreamNext]_streamVars PROVE SInv'
  OBVIOUS
<1>1. Shape /\ FramesOK /\ StreamInv
  BY DEF SInv, Shape
<1>2. StreamTypeOK' /\ RingOK' /\ ConnOK' /\ FramesOK'
  BY <1>1, TypesStay, RingStays, ConnStays, FramesStay
<1>3. StreamInv'
  BY <1>1, <1>2, StreamStays
<1> QED
  BY <1>2, <1>3 DEF SInv

LEMMA StreamInvariant == StreamSpec => []SInv
BY InitShape, StreamInductive, PTL DEF StreamSpec

-----------------------------------------------------------------------------
(* The hub, the queues of a connection and the tab stay in bounds: the ring*)
(* holds at most ringCapacity events, a queue at most its capacity.        *)
THEOREM StreamTypesHold == StreamSpec => []StreamTypeOK
<1>1. SInv => StreamTypeOK
  BY DEF SInv
<1> QED
  BY <1>1, StreamInvariant, PTL

(* A connection that nothing is on its way over.                           *)
LEMMA QuietIs == SInv /\ Quiet => \A n : ~Coming(conn, n)
<1> SUFFICES ASSUME SInv, Quiet, NEW n PROVE ~Coming(conn, n)
  OBVIOUS
<1>1. \A p \in Publishers : pub[p].pc = "idle" /\ pub[p].left = {} /\ pub[p].full = 0
  BY DEF SInv, ConnOK, Quiet
<1>2. /\ conn # 0 /\ ~overflow[conn] /\ asked[conn] = NoSeq
      /\ replay[conn] = <<>> /\ control[conn] = <<>> /\ queued[conn] = <<>>
  BY DEF Quiet
<1>3. Range(replay[conn] \o control[conn] \o queued[conn]) = {}
  <2>1. <<>> \in Seq(Frames) /\ Range(<<>>) = {}
    BY DEF Range
  <2>2. Range(<<>> \o <<>> \o <<>>) = {}
    BY <2>1, ThreeLists
  <2> QED
    BY <1>2, <2>2
<1> QED
  BY <1>1, <1>2, <1>3 DEF Coming

(* While a connection stays up nothing is lost on it: once it is quiet the *)
(* tab was told of all that was published since its cursor, or refetched.  *)
THEOREM StreamIsComplete == StreamSpec => []StreamComplete
<1>1. SInv => StreamComplete
  BY QuietIs DEF SInv, StreamInv, StreamComplete, UpToDate, Covered, Quiet
<1> QED
  BY <1>1, StreamInvariant, PTL

(* Over all its connections a tab that always resumed misses only what a   *)
(* later event had overtaken when a connection died.                       *)
THEOREM ResumeIsComplete == StreamSpec => []ResumeComplete
<1>1. SInv => ResumeComplete
  <2> SUFFICES ASSUME SInv, Quiet, ~blind, restarts = 0, ~overtaken PROVE UpToDate(0)
    BY DEF ResumeComplete
  <2>1. \A n \in 1..total : Covered(n)
    BY DEF SInv, StreamInv, Quiet
  <2>2. \A n \in (0 + 1)..total : n \in got \/ n <= fetched
    BY <2>1, QuietIs DEF Covered
  <2> QED
    BY <2>2 DEF UpToDate
<1> QED
  BY <1>1, StreamInvariant, PTL
=============================================================================
