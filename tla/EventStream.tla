----------------------------- MODULE EventStream -----------------------------
(***************************************************************************)
(* The live event stream between the companion and one browser tab: the    *)
(* Hub of internal/server/hub.go, the two pumps of a WebSocket connection  *)
(* in internal/server/events.go, and the tab of                            *)
(* web/src/api/companion-provider.ts that reconnects and resumes.          *)
(*                                                                         *)
(* An event is its seq, which starts again with every run of the server,   *)
(* and the number the model gives it.  A frame that was written but not    *)
(* received when a connection dies is one that was still queued, so the    *)
(* tab receives a frame in the step that writes it.  Topics, pings and     *)
(* what the events say are left out: the tab subscribes to one fixed list. *)
(* Events of sync jobs are left out too: the tab asks for the list of jobs *)
(* again whenever it reconnects.  So is the polling of a tab that failed   *)
(* to connect many times over, which only refetches more often.            *)
(***************************************************************************)
EXTENDS Naturals, Sequences, SequencesExt

CONSTANTS Publishers,    \* goroutines that call Publish
          RingCapacity,  \* ringCapacity
          ClientBuffer,  \* clientBuffer
          ControlBuffer, \* the capacity of hubClient.control
          NoSeq,         \* the tab has no cursor (null)
          MaxEvents,     \* bound: events
          MaxConns,      \* bound: connections the tab opens, one after another
          MaxRestarts    \* bound: restarts of the server

Conns == 1..MaxConns

ASSUME EventStreamAssumption ==
    /\ {RingCapacity, ClientBuffer, ControlBuffer} \subseteq Nat \ {0}
    /\ {MaxEvents, MaxConns, MaxRestarts} \subseteq Nat
    /\ NoSeq \notin Nat

VARIABLES seq, ring,   \* Hub.seq and Hub.ring
          registered,  \* Hub.clients
          pub,         \* what each publisher is doing
          queued, control, overflow, \* hubClient.events, control and overflow
          asked,       \* the resume frame that is on its way, and the cursor in it
          replay,      \* the frames that the read pump has yet to queue
          conn,        \* the connection of the tab, 0 when there is none
          opened,      \* connections the tab has opened
          cursor,      \* the tab's #lastSeq
          total,       \* history: events published, in all runs of the server
          got,         \* history: events the tab was told of
          fetched,     \* history: the tab refetched what the first so many events changed
          base,        \* history: events the connection need not bring
          blind,       \* history: the tab has reconnected without a cursor
          overtaken,   \* history: a connection died while an event was on its
                       \* way that a later one had overtaken
          restarts     \* restarts of the server

hubVars    == <<seq, ring, registered>>
clientVars == <<queued, control, overflow>>
readVars   == <<asked, replay>>
tabVars    == <<conn, opened, cursor>>
histVars   == <<got, fetched, base, blind, overtaken>>
streamVars == <<hubVars, pub, clientVars, readVars, tabVars, total, histVars, restarts>>

Event(s, n) == [kind |-> "event", seq |-> s, number |-> n]
Gap         == [kind |-> "resume.gap", seq |-> 0, number |-> 0]

(* A publisher: its event, the clients it has yet to hand it to, and the   *)
(* client whose queue it found full.                                       *)
Calm == [pc |-> "idle", event |-> Gap, left |-> {}, full |-> 0]

StreamInit ==
    /\ seq = 0 /\ ring = <<>> /\ registered = {}
    /\ pub = [p \in Publishers |-> Calm]
    /\ queued = [c \in Conns |-> <<>>] /\ control = [c \in Conns |-> <<>>]
    /\ overflow = [c \in Conns |-> FALSE]
    /\ asked = [c \in Conns |-> NoSeq] /\ replay = [c \in Conns |-> <<>>]
    /\ conn = 0 /\ opened = 0 /\ cursor = NoSeq
    /\ total = 0 /\ got = {} /\ fetched = 0 /\ base = 0 /\ blind = FALSE
    /\ overtaken = FALSE /\ restarts = 0

-----------------------------------------------------------------------------
(* The hub.                                                                *)

(* The ring with one more event, and without its oldest when it was full.  *)
Buffered(event) ==
    Append(IF Len(ring) = RingCapacity THEN Tail(ring) ELSE ring, event)

(* Publish: the event is stamped and buffered under the hub's lock.        *)
Publish(p) ==
    /\ pub[p].pc = "idle"
    /\ total < MaxEvents
    /\ seq' = seq + 1 /\ total' = total + 1
    /\ LET event == Event(seq + 1, total + 1)
       IN  /\ ring' = Buffered(event)
           /\ pub' = [pub EXCEPT ![p] = [Calm EXCEPT !.pc = "stamped", !.event = event]]
    /\ UNCHANGED <<registered, clientVars, readVars, tabVars, histVars, restarts>>

Handing(rest, event) == [Calm EXCEPT !.pc = IF rest = {} THEN "idle" ELSE "handing",
                                     !.event = event, !.left = rest]

(* snapshot: who is connected now, which is later than the stamp.          *)
List(p) == /\ pub[p].pc = "stamped"
           /\ pub' = [pub EXCEPT ![p] = Handing(registered, @.event)]
           /\ UNCHANGED <<hubVars, clientVars, readVars, tabVars, total, histVars, restarts>>

(* Mutant: the publisher waits for room in the queue.                      *)
DeliverWaits(p, c) ==
    /\ pub[p].pc = "handing"
    /\ c \in pub[p].left
    /\ ~overflow[c] => Len(queued[c]) < ClientBuffer
    /\ queued' = IF overflow[c] THEN queued ELSE [queued EXCEPT ![c] = Append(@, pub[p].event)]
    /\ pub' = [pub EXCEPT ![p] = Handing(@.left \ {c}, @.event)]
    /\ UNCHANGED <<hubVars, control, overflow, readVars, tabVars, total, histVars, restarts>>

(* Mutant: an event that finds the queue full is dropped and that is all.  *)
DeliverDrops(p, c) ==
    /\ pub[p].pc = "handing"
    /\ c \in pub[p].left
    /\ queued' = IF overflow[c] \/ Len(queued[c]) = ClientBuffer THEN queued
                 ELSE [queued EXCEPT ![c] = Append(@, pub[p].event)]
    /\ pub' = [pub EXCEPT ![p] = Handing(@.left \ {c}, @.event)]
    /\ UNCHANGED <<hubVars, control, overflow, readVars, tabVars, total, histVars, restarts>>

(* deliver: the event is queued, unless the client has overflowed or its   *)
(* queue is full.                                                          *)
Deliver(p, c) ==
    /\ pub[p].pc = "handing"
    /\ c \in pub[p].left
    /\ IF overflow[c] \/ Len(queued[c]) < ClientBuffer
       THEN /\ queued' = IF overflow[c] THEN queued
                         ELSE [queued EXCEPT ![c] = Append(@, pub[p].event)]
            /\ pub' = [pub EXCEPT ![p] = Handing(@.left \ {c}, @.event)]
       ELSE /\ pub' = [pub EXCEPT ![p].pc = "full", ![p].full = c, ![p].left = @ \ {c}]
            /\ UNCHANGED queued
    /\ UNCHANGED <<hubVars, control, overflow, readVars, tabVars, total, histVars, restarts>>

(* markOverflow, under a lock that deliver has taken anew.                 *)
MarkOverflow(p) ==
    /\ pub[p].pc = "full"
    /\ overflow' = [overflow EXCEPT ![pub[p].full] = TRUE]
    /\ pub' = [pub EXCEPT ![p] = Handing(@.left, @.event)]
    /\ UNCHANGED <<hubVars, queued, control, readVars, tabVars, total, histVars, restarts>>

(* The ring is in the order of seq: the events after s are the first one   *)
(* after s and those that follow it.                                       *)
FirstAfter(s) == CHOOSE k \in DOMAIN ring : /\ ring[k].seq > s
                                            /\ \A j \in 1..(k - 1) : ring[j].seq <= s
After(s) == SubSeq(ring, FirstAfter(s), Len(ring))

(* Mutant: one event too few is thought to be in the ring.                 *)
SinceOffByOne(s) ==
    IF s >= seq THEN IF s = seq \/ seq = 0 THEN <<>> ELSE <<Gap>>
    ELSE IF ring = <<>> \/ Head(ring).seq > s + 2 THEN <<Gap>>
    ELSE After(s)

(* since, and what replay makes of its answer: the events after s, or the  *)
(* notice that the ring no longer holds that position.                     *)
Since(s) ==
    IF s >= seq THEN IF s = seq \/ seq = 0 THEN <<>> ELSE <<Gap>>
    ELSE IF ring = <<>> \/ Head(ring).seq > s + 1 THEN <<Gap>>
    ELSE After(s)

-----------------------------------------------------------------------------
(* A connection.                                                           *)

(* The tab opens the socket, the server registers a client for it, and the *)
(* tab sends resume when it has a cursor.  What the tab shows when it      *)
(* opens its first connection is up to date.                               *)
Connect ==
    /\ conn = 0
    /\ opened < MaxConns
    /\ opened' = opened + 1 /\ conn' = opened + 1
    /\ registered' = registered \cup {opened + 1}
    /\ asked' = [asked EXCEPT ![opened + 1] = cursor]
    /\ base' = IF cursor = NoSeq THEN total ELSE cursor
    /\ IF opened = 0 THEN fetched' = total /\ UNCHANGED blind
       ELSE blind' = (blind \/ cursor = NoSeq) /\ UNCHANGED fetched
    /\ UNCHANGED <<seq, ring, pub, clientVars, replay, cursor, total, got, overtaken, restarts>>

(* readFrames: the read pump gets the resume frame and asks the hub.       *)
ReadResume(c) ==
    /\ conn = c
    /\ asked[c] # NoSeq
    /\ asked' = [asked EXCEPT ![c] = NoSeq]
    /\ replay' = [replay EXCEPT ![c] = Since(asked[c])]
    /\ UNCHANGED <<hubVars, pub, clientVars, tabVars, total, histVars, restarts>>

(* queueControl: a frame of the replay is queued for the write pump, or    *)
(* dropped once the client has overflowed.                                 *)
QueueControl(c) ==
    /\ conn = c
    /\ replay[c] # <<>>
    /\ replay' = [replay EXCEPT ![c] = Tail(@)]
    /\ \/ /\ Len(control[c]) < ControlBuffer
          /\ control' = [control EXCEPT ![c] = Append(@, Head(replay[c]))]
       \/ overflow[c] /\ UNCHANGED control
    /\ UNCHANGED <<hubVars, pub, queued, overflow, asked, tabVars, total, histVars, restarts>>

(* #receive: what the tab does with a frame.                               *)
Receive(frame) ==
    IF frame.kind = "event"
    THEN cursor' = frame.seq /\ got' = got \cup {frame.number} /\ UNCHANGED fetched
    ELSE cursor' = NoSeq /\ fetched' = total /\ UNCHANGED got

(* writeFrames: the write pump picks any of its channels that is ready.    *)
WriteControl(c) ==
    /\ conn = c
    /\ control[c] # <<>>
    /\ control' = [control EXCEPT ![c] = Tail(@)]
    /\ Receive(Head(control[c]))
    /\ UNCHANGED <<hubVars, pub, queued, overflow, readVars, conn, opened, total,
                   base, blind, overtaken, restarts>>

WriteEvent(c) ==
    /\ conn = c
    /\ queued[c] # <<>>
    /\ queued' = [queued EXCEPT ![c] = Tail(@)]
    /\ Receive(Head(queued[c]))
    /\ UNCHANGED <<hubVars, pub, control, overflow, readVars, conn, opened, total,
                   base, blind, overtaken, restarts>>

(* The connection is over for both: the handler unregisters the client.    *)
HangUp(c) == conn' = 0 /\ registered' = registered \ {c}

(* writeFrames: a client that fell behind is told so and disconnected; the *)
(* tab refetches everything and forgets its cursor.                        *)
WriteOverflow(c) ==
    /\ conn = c
    /\ overflow[c]
    /\ cursor' = NoSeq /\ fetched' = total
    /\ HangUp(c)
    /\ UNCHANGED <<seq, ring, pub, clientVars, readVars, opened, total, got, base, blind,
                   overtaken, restarts>>

(* The events that would still reach the tab over connection c, or that a  *)
(* refetch would make up for.                                              *)
Coming(c, n) ==
    \/ \E p \in Publishers : /\ pub[p].event.number = n
                              /\ (pub[p].pc = "stamped" \/ c \in pub[p].left \cup {pub[p].full})
    \/ \E frame \in Range(replay[c] \o control[c] \o queued[c]) :
          frame.number = n \/ frame = Gap
    \/ asked[c] # NoSeq /\ n > asked[c]
    \/ overflow[c]

Overtaken(c) ==
    cursor # NoSeq /\ \E n \in (fetched + 1)..cursor : n \notin got /\ Coming(c, n)

(* The network, a proxy or a sleeping laptop ends the connection.          *)
Drop == /\ conn # 0
        /\ HangUp(conn)
        /\ overtaken' = (overtaken \/ Overtaken(conn))
        /\ UNCHANGED <<seq, ring, pub, clientVars, readVars, opened, cursor, total,
                       got, fetched, base, blind, restarts>>

(* The server is restarted; the tab keeps its cursor.                      *)
Restart ==
    /\ restarts < MaxRestarts
    /\ restarts' = restarts + 1
    /\ seq' = 0 /\ ring' = <<>> /\ registered' = {}
    /\ pub' = [p \in Publishers |-> Calm]
    /\ conn' = 0
    /\ UNCHANGED <<clientVars, readVars, opened, cursor, total, histVars>>

PublisherStep(p) == List(p) \/ (\E c \in Conns : Deliver(p, c)) \/ MarkOverflow(p)

ConnStep(c) == ReadResume(c) \/ QueueControl(c) \/ WriteControl(c) \/ WriteEvent(c)
               \/ WriteOverflow(c)

(* Nothing more will be published and the tab has no connection left.      *)
Ended == /\ total = MaxEvents /\ opened = MaxConns /\ conn = 0
         /\ \A p \in Publishers : pub[p].pc = "idle"
         /\ UNCHANGED streamVars

StreamNext ==
    \/ \E p \in Publishers : Publish(p) \/ PublisherStep(p)
    \/ \E c \in Conns : ConnStep(c)
    \/ Connect \/ Drop \/ Restart \/ Ended

StreamSpec == StreamInit /\ [][StreamNext]_streamVars

(* A publisher that runs goes on; nothing is said of the pumps, which may  *)
(* be held up by the network as long as it likes.                          *)
StreamFairSpec == StreamSpec /\ \A p \in Publishers : WF_streamVars(PublisherStep(p))

-----------------------------------------------------------------------------
Frames == [kind: {"event", "resume.gap"}, seq: Nat, number: Nat]

StreamTypeOK ==
    /\ seq \in Nat /\ ring \in Seq(Frames) /\ Len(ring) <= RingCapacity
    /\ registered \subseteq Conns
    /\ pub \in [Publishers -> [pc: {"idle", "stamped", "handing", "full"},
                               event: Frames, left: SUBSET Conns, full: Nat]]
    /\ queued \in [Conns -> Seq(Frames)] /\ control \in [Conns -> Seq(Frames)]
    /\ \A c \in Conns : Len(queued[c]) <= ClientBuffer /\ Len(control[c]) <= ControlBuffer
    /\ overflow \in [Conns -> BOOLEAN]
    /\ asked \in [Conns -> Nat \cup {NoSeq}] /\ replay \in [Conns -> Seq(Frames)]
    /\ conn \in 0..MaxConns /\ opened \in Nat /\ cursor \in Nat \cup {NoSeq}
    /\ total \in Nat /\ got \subseteq Nat /\ fetched \in Nat /\ base \in Nat
    /\ {blind, overtaken} \subseteq BOOLEAN /\ restarts \in Nat

(* Nobody is about to bring the tab anything more.                         *)
Quiet == /\ conn # 0 /\ ~overflow[conn] /\ asked[conn] = NoSeq
         /\ replay[conn] = <<>> /\ control[conn] = <<>> /\ queued[conn] = <<>>
         /\ \A p \in Publishers : pub[p].pc = "idle"

UpToDate(from) == \A n \in (from + 1)..total : n \in got \/ n <= fetched

(* While a connection stays up nothing is lost on it, silently or between  *)
(* the replay and the live events: once it is quiet, the tab was told of   *)
(* every event after its cursor, or was made to refetch (Hub, since, and   *)
(* "rather than letting the client read a truncated stream").  Within one  *)
(* run of the server, where an event's number is its seq.                  *)
StreamComplete == Quiet /\ restarts = 0 => UpToDate(base)

(* "Replays everything missed while the socket was down" (#connect): after *)
(* a reconnect the tab catches up with all that happened.                  *)
ReconnectCatchesUp == Quiet => UpToDate(0)

(* The same for a tab that never reconnected without a cursor: "a          *)
(* reconnect with resume is served the missed events from the replay ring  *)
(* when they are still in it" (docs/07), and a refetch when they are not.  *)
ResumeCatchesUp == Quiet /\ ~blind => UpToDate(0)

(* What the code does of that: over all its connections a tab misses only  *)
(* an event that a later one had overtaken when the connection died.       *)
ResumeComplete == Quiet /\ ~blind /\ restarts = 0 /\ ~overtaken => UpToDate(0)

(* Publish "never blocks: a client that cannot keep up is marked for       *)
(* disconnection instead", even when no pump ever moves.                   *)
PublishReturns == \A p \in Publishers : pub[p].pc # "idle" ~> pub[p].pc = "idle"
=============================================================================
