------------------------------- MODULE Tunnel -------------------------------
(***************************************************************************)
(* The public tunnel: tunnel.Manager (internal/tunnel/tunnel.go) and the   *)
(* server's toggle over it (internal/server/tunnel.go).                    *)
(*                                                                         *)
(* A round is one run of cloudflared; its name is the generation Start     *)
(* gave it.  Four kinds of threads work on the manager's fields: a request *)
(* that toggles, the goroutine of each round, the observer's sink and the  *)
(* dispatch loop.  A status is its state, the round its URL belongs to and *)
(* the connections it reports; Since, Err and the allow-list are left out. *)
(* The callback runs outside the lock, so a thread that has a status to    *)
(* publish is in outbox until it gets there.                               *)
(***************************************************************************)
EXTENDS Integers, Sequences, FiniteSets

CONSTANTS Callers,     \* requests that enable or disable the tunnel
          NoOne,       \* not a caller
          Indexes,     \* edge connections of a round (HAConnections is 1)
          EventBuffer, \* capacity of the dispatch channel (eventBuffer)
          MaxGen,      \* bound: generations
          MaxEvents    \* bound: events cloudflared sends

ASSUME TunnelAssumption == /\ NoOne \notin Callers /\ IsFiniteSet(Indexes) /\ EventBuffer \in Nat
                           /\ MaxGen \in Nat /\ MaxEvents \in Nat

VARIABLES status,      \* Manager.status
          running, stopping, conns, gen, \* the manager's fields of those names
          cur,         \* the round of Manager.cancel and Manager.done, 0 for nil
          round,       \* where the goroutine of each round is
          cancelled,   \* rounds whose context was cancelled
          done,        \* rounds whose done channel is closed
          edge,        \* connections each round really has
          observed,    \* events on their way to the sink, inside cloudflared
          events,      \* Manager.events: stamped events
          dispatch,    \* the event the dispatch loop is storing, <<>> for none
          outbox,      \* threads that have a status to hand to the callback
          tmu, live,   \* tunnelState.mu and .live
          pc, mine,    \* where each caller is, and its generation
          sent,        \* bound: events sent so far
          abandoned,   \* history: rounds whose Stop stopped waiting
          astray       \* history: the current round's events were misread, see SettledTruth

manager == <<status, running, stopping, conns, gen, cur>>
rounds  == <<round, cancelled, done, edge, abandoned>>
flow    == <<observed, events, dispatch, sent>>
calls   == <<tmu, live, pc, mine>>
vars == <<manager, rounds, flow, calls, outbox, astray>>

Gens == 1..MaxGen
Off == [state |-> "off", url |-> 0, conns |-> 0]
Starting == [Off EXCEPT !.state = "starting"]

(* No thread of a status; the dispatch loop is a thread of its own.        *)
Dispatcher == 0
Threads == Callers \cup Gens \cup {Dispatcher}
Silent(t) == t \notin outbox

Init == /\ status = Off
        /\ running = FALSE /\ stopping = FALSE /\ conns = {} /\ gen = 0 /\ cur = 0
        /\ round = [g \in Gens |-> "none"] /\ cancelled = {} /\ done = {}
        /\ edge = [g \in Gens |-> {}] /\ abandoned = {}
        /\ observed = <<>> /\ events = <<>> /\ dispatch = <<>> /\ sent = 0
        /\ tmu = NoOne /\ live = FALSE
        /\ pc = [c \in Callers |-> "idle"] /\ mine = [c \in Callers |-> 0]
        /\ outbox = {} /\ astray = FALSE

(* Mutant: set stores a status for a round that is over.                   *)
SetAnyRound(t, g, s) ==
    /\ status' = s
    /\ outbox' = IF s = status THEN outbox ELSE outbox \cup {t}

(* set: nothing happens for a generation that is not current, and only a   *)
(* change is published.                                                    *)
Set(t, g, s) ==
    IF g # gen THEN UNCHANGED <<status, outbox>>
    ELSE /\ status' = s
         /\ outbox' = IF s = status THEN outbox ELSE outbox \cup {t}

(* The callback of set: hub.Publish(tunnel.changed).                       *)
Publish(t) == /\ ~Silent(t)
              /\ outbox' = outbox \ {t}
              /\ UNCHANGED <<manager, rounds, flow, calls, astray>>

-----------------------------------------------------------------------------
(* POST /api/v1/tunnel, and the tunnel opened at startup.                  *)

(* enableTunnel: the tunnel runs already and Start returns its status.     *)
EnableRunning(c) ==
    /\ pc[c] = "idle" /\ tmu = NoOne
    /\ running
    /\ live' = TRUE
    /\ UNCHANGED <<manager, rounds, flow, outbox, tmu, pc, mine, astray>>

(* enableTunnel and the first critical section of Start.                   *)
Enable(c) ==
    /\ pc[c] = "idle" /\ tmu = NoOne
    /\ ~running /\ gen < MaxGen
    /\ tmu' = c
    /\ running' = TRUE /\ stopping' = FALSE /\ conns' = {}
    /\ gen' = gen + 1 /\ cur' = gen + 1
    /\ mine' = [mine EXCEPT ![c] = gen + 1]
    /\ round' = [round EXCEPT ![gen + 1] = "provisioning"]
    /\ pc' = [pc EXCEPT ![c] = "starting"]
    /\ astray' = FALSE
    /\ UNCHANGED <<status, cancelled, done, edge, abandoned, flow, outbox, live>>

(* Start reports that it is starting.                                      *)
SetStarting(c) ==
    /\ pc[c] = "starting"
    /\ Set(c, mine[c], Starting)
    /\ pc' = [pc EXCEPT ![c] = "provisioning"]
    /\ UNCHANGED <<running, stopping, conns, gen, cur, rounds, flow, tmu, live, mine, astray>>

(* provision and newAuthorizer succeeded, and the URL is known.            *)
Provisioned(c) ==
    /\ pc[c] = "provisioning" /\ Silent(c)
    /\ mine[c] \notin cancelled
    /\ Set(c, mine[c], [status EXCEPT !.state = "starting", !.url = mine[c]])
    /\ pc' = [pc EXCEPT ![c] = "launching"]
    /\ UNCHANGED <<running, stopping, conns, gen, cur, rounds, flow, tmu, live, mine, astray>>

(* Either failed: the context is cancelled and done closed before fail.    *)
NotProvisioned(c) ==
    /\ pc[c] = "provisioning" /\ Silent(c)
    /\ cancelled' = cancelled \cup {mine[c]}
    /\ done' = done \cup {mine[c]}
    /\ round' = [round EXCEPT ![mine[c]] = "died"]
    /\ pc' = [pc EXCEPT ![c] = "failing"]
    /\ UNCHANGED <<manager, edge, abandoned, flow, tmu, live, mine, outbox, astray>>

(* Start has its goroutine running and returns; the tunnel is live.        *)
Launch(c) ==
    /\ pc[c] = "launching" /\ Silent(c)
    /\ round' = [round EXCEPT ![mine[c]] = "up"]
    /\ live' = TRUE
    /\ tmu' = NoOne
    /\ pc' = [pc EXCEPT ![c] = "idle"] /\ mine' = [mine EXCEPT ![c] = 0]
    /\ UNCHANGED <<manager, cancelled, done, edge, abandoned, flow, outbox, astray>>

(* Start returns the error.                                                *)
EnableFailed(c) ==
    /\ pc[c] = "failing" /\ round[mine[c]] = "over"
    /\ tmu' = NoOne
    /\ pc' = [pc EXCEPT ![c] = "idle"] /\ mine' = [mine EXCEPT ![c] = 0]
    /\ UNCHANGED <<manager, rounds, flow, outbox, live, astray>>

-----------------------------------------------------------------------------
(* DELETE /api/v1/tunnel, and shutdown.                                    *)

(* disableTunnel finds a tunnel that died: Stop is a no-op.                *)
DisableDead(c) ==
    /\ pc[c] = "idle" /\ tmu = NoOne
    /\ live /\ ~running
    /\ live' = FALSE
    /\ UNCHANGED <<manager, rounds, flow, outbox, tmu, pc, mine, astray>>

(* disableTunnel and the first critical section of Stop.  cur stands for   *)
(* the locals cancel and done until the wait is over.                      *)
Disable(c) ==
    /\ pc[c] = "idle" /\ tmu = NoOne
    /\ live /\ running /\ gen < MaxGen
    /\ tmu' = c
    /\ live' = FALSE
    /\ running' = FALSE /\ stopping' = TRUE
    /\ gen' = gen + 1
    /\ mine' = [mine EXCEPT ![c] = gen + 1]
    /\ pc' = [pc EXCEPT ![c] = "cancelling"]
    /\ UNCHANGED <<status, conns, cur, rounds, flow, outbox, astray>>

Cancel(c) ==
    /\ pc[c] = "cancelling"
    /\ cancelled' = cancelled \cup {cur}
    /\ pc' = [pc EXCEPT ![c] = "waiting"]
    /\ UNCHANGED <<manager, round, done, edge, abandoned, flow, outbox, tmu, live, mine, astray>>

(* The round has drained.                                                  *)
Waited(c) ==
    /\ pc[c] = "waiting" /\ cur \in done
    /\ cur' = 0
    /\ pc' = [pc EXCEPT ![c] = "closing"]
    /\ UNCHANGED <<status, running, stopping, conns, gen, rounds, flow, outbox, tmu, live, mine, astray>>

(* Mutant: Stop takes no notice of its deadline.                           *)
GiveUpNever(c) == FALSE

(* tunnelStopTimeout passed first, and the round is left to itself.        *)
GiveUp(c) ==
    /\ pc[c] = "waiting" /\ cur \notin done
    /\ abandoned' = abandoned \cup {cur}
    /\ cur' = 0
    /\ pc' = [pc EXCEPT ![c] = "closing"]
    /\ UNCHANGED <<status, running, stopping, conns, gen, round, cancelled, done, edge,
                   flow, outbox, tmu, live, mine, astray>>

SetOff(c) ==
    /\ pc[c] = "closing"
    /\ Set(c, mine[c], Off)
    /\ pc' = [pc EXCEPT ![c] = "stopped"]
    /\ UNCHANGED <<running, stopping, conns, gen, cur, rounds, flow, tmu, live, mine, astray>>

(* The last critical section of Stop, and the end of disableTunnel.        *)
Stopped(c) ==
    /\ pc[c] = "stopped" /\ Silent(c)
    /\ stopping' = FALSE /\ conns' = {}
    /\ tmu' = NoOne
    /\ pc' = [pc EXCEPT ![c] = "idle"] /\ mine' = [mine EXCEPT ![c] = 0]
    /\ UNCHANGED <<status, running, gen, cur, rounds, flow, outbox, live, astray>>

-----------------------------------------------------------------------------
(* The goroutine of a round.                                               *)

(* runTunnel returns.  A round that was cancelled leaves the state to      *)
(* whoever cancelled it.                                                   *)
Exit(g) ==
    /\ round[g] = "up"
    /\ round' = [round EXCEPT ![g] = IF g \in cancelled THEN "closing" ELSE "died"]
    /\ cancelled' = cancelled \cup {g}
    /\ edge' = [edge EXCEPT ![g] = {}]
    /\ UNCHANGED <<manager, done, abandoned, flow, calls, outbox, astray>>

(* Mutant: fail does not look whether its round is the current one.        *)
FailAny(g) ==
    /\ round[g] = "died"
    /\ running' = FALSE
    /\ round' = [round EXCEPT ![g] = "failing"]
    /\ UNCHANGED <<status, stopping, conns, gen, cur, cancelled, done, edge, abandoned,
                   flow, calls, outbox, astray>>

(* fail: the first critical section.                                       *)
Fail(g) ==
    /\ round[g] = "died"
    /\ IF g = gen THEN /\ running' = FALSE
                       /\ round' = [round EXCEPT ![g] = "failing"]
                  ELSE /\ round' = [round EXCEPT ![g] = "closing"]
                       /\ UNCHANGED running
    /\ UNCHANGED <<status, stopping, conns, gen, cur, cancelled, done, edge, abandoned,
                   flow, calls, outbox, astray>>

(* fail: the error is stored in a second one.                              *)
SetError(g) ==
    /\ round[g] = "failing"
    /\ Set(g, g, [status EXCEPT !.state = "error", !.conns = 0])
    /\ round' = [round EXCEPT ![g] = "closing"]
    /\ UNCHANGED <<running, stopping, conns, gen, cur, cancelled, done, edge, abandoned,
                   flow, calls, astray>>

Close(g) ==
    /\ round[g] = "closing" /\ Silent(g)
    /\ done' = done \cup {g}
    /\ round' = [round EXCEPT ![g] = "over"]
    /\ UNCHANGED <<manager, cancelled, edge, abandoned, flow, calls, outbox, astray>>

-----------------------------------------------------------------------------
(* Connection events.                                                      *)

(* cloudflared connects to the edge or loses a connection, and queues the  *)
(* event for the observer's dispatcher.                                    *)
Connection(g, i, type) ==
    /\ round[g] = "up" /\ sent < MaxEvents
    /\ type = "connected" => i \notin edge[g]
    /\ type = "disconnected" => i \in edge[g]
    /\ edge' = [edge EXCEPT ![g] = IF type = "connected" THEN @ \cup {i} ELSE @ \ {i}]
    /\ observed' = Append(observed, [round |-> g, index |-> i, type |-> type])
    /\ sent' = sent + 1
    /\ UNCHANGED <<manager, round, cancelled, done, abandoned, events, dispatch, calls, outbox, astray>>

(* The sink stamps the event with the generation of this moment, or drops  *)
(* it when the buffer is full.                                             *)
Sink ==
    /\ observed # <<>>
    /\ observed' = Tail(observed)
    /\ IF Len(events) < EventBuffer
       THEN events' = Append(events, [Head(observed) EXCEPT !.round = gen])
       ELSE UNCHANGED events
    /\ astray' = (astray \/ (Len(events) < EventBuffer) = (Head(observed).round # gen))
    /\ UNCHANGED <<manager, rounds, dispatch, sent, calls, outbox>>

(* applyEvent: the first critical section counts the connections.          *)
ApplyEvent ==
    /\ events # <<>> /\ dispatch = <<>> /\ Silent(Dispatcher)
    /\ events' = Tail(events)
    /\ LET e == Head(events)
           now == IF e.type = "connected" THEN conns \cup {e.index} ELSE conns \ {e.index}
       IN  IF e.round = gen /\ running /\ ~stopping
           THEN conns' = now /\ dispatch' = <<e.round, e.type, Cardinality(now)>>
           ELSE UNCHANGED <<conns, dispatch>>
    /\ UNCHANGED <<status, running, stopping, gen, cur, rounds, observed, sent, calls, outbox, astray>>

(* applyEvent: the status that follows from the count.                     *)
Follows(type, n) ==
    [status EXCEPT !.conns = n,
                   !.state = IF n > 0 THEN "connected"
                             ELSE IF @ = "connected" \/ type = "reconnecting" THEN "reconnecting"
                             ELSE @]

(* applyEvent: and set stores it in a second critical section.             *)
StoreEvent ==
    /\ dispatch # <<>>
    /\ Set(Dispatcher, dispatch[1], Follows(dispatch[2], dispatch[3]))
    /\ astray' = (astray \/ (dispatch[1] = gen /\ ~running))
    /\ dispatch' = <<>>
    /\ UNCHANGED <<running, stopping, conns, gen, cur, rounds, observed, events, sent, calls>>

-----------------------------------------------------------------------------
Toggle(c) == \/ EnableRunning(c) \/ Enable(c) \/ DisableDead(c) \/ Disable(c)
Proceed(c) == \/ SetStarting(c) \/ Provisioned(c) \/ NotProvisioned(c) \/ Launch(c)
              \/ EnableFailed(c) \/ Cancel(c) \/ Waited(c) \/ GiveUp(c) \/ SetOff(c) \/ Stopped(c)
Goroutine(g) == Exit(g) \/ Fail(g) \/ SetError(g) \/ Close(g)

Next == \/ \E c \in Callers : Toggle(c) \/ Proceed(c)
        \/ \E g \in Gens : Goroutine(g)
        \/ \E g \in Gens, i \in Indexes, type \in {"connected", "disconnected", "reconnecting"} :
              Connection(g, i, type)
        \/ Sink \/ ApplyEvent \/ StoreEvent
        \/ \E t \in Threads : Publish(t)

Spec == Init /\ [][Next]_vars

(* Some thread that can go on goes on, which is less than the scheduler    *)
(* gives; Stop's wait has a deadline and provisioning a timeout.  Nothing  *)
(* makes a tunnel connect, die or return, nor anybody toggle it.           *)
Work == \/ \E c \in Callers : Proceed(c)
        \/ \E g \in Gens : Fail(g) \/ SetError(g) \/ Close(g)
        \/ Sink \/ ApplyEvent \/ StoreEvent
        \/ \E t \in Threads : Publish(t)

Fairness == WF_vars(Work)

FairSpec == Spec /\ Fairness

-----------------------------------------------------------------------------
Statuses == [state : {"off", "starting", "connected", "reconnecting", "error"},
             url : 0..MaxGen, conns : 0..Cardinality(Indexes)]

TypeOK ==
    /\ status \in Statuses /\ outbox \subseteq Threads
    /\ running \in BOOLEAN /\ stopping \in BOOLEAN /\ conns \subseteq Indexes
    /\ gen \in 0..MaxGen /\ cur \in 0..gen /\ (running => cur # 0 /\ ~stopping)
    /\ round \in [Gens -> {"none", "provisioning", "up", "died", "failing", "closing", "over"}]
    /\ cancelled \subseteq Gens /\ done \subseteq Gens /\ abandoned \subseteq Gens
    /\ edge \in [Gens -> SUBSET Indexes]
    /\ tmu \in Callers \cup {NoOne} /\ live \in BOOLEAN /\ astray \in BOOLEAN
    /\ pc \in [Callers -> {"idle", "starting", "provisioning", "launching", "failing",
                           "cancelling", "waiting", "closing", "stopped"}]
    /\ mine \in [Callers -> 0..gen]

(* "Manager owns at most one quick tunnel at a time" (tunnel.go:154): a    *)
(* round is provisioned or up only once the one before it has drained,     *)
(* unless a Stop gave up on that one.                                      *)
OneTunnel == \A g, h \in Gens \ abandoned :
                 round[g] \in {"provisioning", "up"} /\ round[h] \in {"provisioning", "up"} => g = h

(* What is up can be taken down: a tunnel whose context nobody cancelled   *)
(* is the one Stop would cancel and, once its Start has returned, a DELETE *)
(* does not take it for closed.  A manager that forgot a running round     *)
(* would leave the workspace published with no way to close it.            *)
UpIsStoppable ==
    \A g \in Gens : round[g] = "up" /\ g \notin cancelled =>
        /\ cur = g
        /\ tmu = NoOne => running /\ gen = g /\ live

(* When no toggle is under way and the last one closed the tunnel, no      *)
(* round is up but those that were cancelled and whose Stop gave up ("a    *)
(* process that exits never leaves a published workspace behind",          *)
(* server/tunnel.go:393).                                                  *)
ClosedIsClosed ==
    tmu = NoOne /\ ~live => \A g \in Gens : round[g] = "up" => g \in abandoned \cap cancelled

(* Nothing is published that nobody can close.                             *)
NothingOutOfHand == OneTunnel /\ UpIsStoppable /\ ClosedIsClosed

Settled == /\ tmu = NoOne /\ observed = <<>> /\ events = <<>> /\ dispatch = <<>>
           /\ outbox = {}
           /\ \A g \in Gens : round[g] \in {"none", "up", "over"}

Truthful == /\ (status.state = "connected") = (running /\ edge[gen] # {})
            /\ status.state \in {"starting", "connected", "reconnecting"} => running
            /\ running => status.conns = Cardinality(edge[gen])

(* Once everything that happened has been heard, the status is what the    *)
(* tunnel is: its state, and how many connections it has.  Three accidents *)
(* spoil that until the next Start (astray): an event stamped with the     *)
(* generation of a later round, one dropped at a full buffer, and a status *)
(* stored for a round that failed after its event was counted.             *)
SettledTruth == Settled /\ ~astray => Truthful

(* Settled status without the excuse: "StateConnected means at least one   *)
(* edge connection is established" (tunnel.go:64), and a late event "from  *)
(* round 1 cannot clobber round 2's state" (tunnel.go:179-180).            *)
ConnectedIsConnected == Settled /\ status.state = "connected" => running /\ edge[gen] # {}

(* Changes reach the tabs in the order in which they happened: two threads *)
(* never both have one to hand over.  The document of tunnel.changed "is   *)
(* exactly the document GET /api/v1/tunnel returns"                        *)
(* (docs/07-cli-and-api.md:5121), and a tab keeps the last one it saw.     *)
TabsAreTold == Cardinality(outbox) <= 1

(* DELETE "answers 200 with the status back at off, url empty", also for a *)
(* tunnel that is not running (docs/07-cli-and-api.md:3595).               *)
DeleteAnswersOff == [][(live /\ ~live' /\ tmu' = NoOne) => status' = Off]_vars

(* A closed tunnel stays closed until somebody opens it: no late event or  *)
(* failure of an earlier round turns "off" into anything else, but for an  *)
(* event of a round Stop gave up on that is stamped with the next round.   *)
OffIsFinal ==
    [][(status.state = "off" /\ status'.state # "off") =>
           astray \/ \E c \in Callers : SetStarting(c)]_vars

(* Every request that toggles the tunnel gets its answer, with the toggle  *)
(* lock free again, whatever cloudflared and the broker do.                *)
TogglesReturn == (\E c \in Callers : pc[c] # "idle") ~> (tmu = NoOne /\ \A c \in Callers : pc[c] = "idle")

(* A tunnel that dies is reported: the status says so, or a later toggle   *)
(* has taken over.  Nothing else ends in silence either: every toggle      *)
(* returns.                                                                *)
DeathReported ==
    /\ TogglesReturn
    /\ \A g \in Gens : (round[g] = "died") ~> (round[g] = "over" /\ (status.state = "error" \/ gen # g \/ astray))
=============================================================================
