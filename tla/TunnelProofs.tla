---------------------------- MODULE TunnelProofs ----------------------------
(***************************************************************************)
(* Theorems about Tunnel, for any number of requests, rounds, connections  *)
(* and events.  Where the fields of the manager and the goroutines stand   *)
(* to each other is IInv, from which nothing is out of hand; how far the   *)
(* status has followed the events is TInv, which gives its truth.          *)
(***************************************************************************)
EXTENDS Tunnel, FiniteSetTheorems, TLAPS

Types == {"connected", "disconnected", "reconnecting"}
Events == [round : Gens, index : Indexes, type : Types]

FlowType == /\ observed \in Seq(Events) /\ events \in Seq(Events)
            /\ dispatch # <<>> => dispatch \in Gens \X Types \X (0..Cardinality(Indexes))

(* Only the request that has the toggle lock is on its way, and no other   *)
(* begins a generation meanwhile.                                          *)
Owned == \A c \in Callers : /\ pc[c] # "idle" <=> tmu = c
                            /\ mine[c] = IF tmu = c THEN gen ELSE 0

(* The round needs nobody: it is not up, or its Stop cancelled it and gave *)
(* up on it.                                                               *)
Gone(g) == round[g] \in {"provisioning", "up"} => g \in abandoned \cap cancelled

Opening(c) == pc[c] \in {"starting", "provisioning", "launching"}
Closing(c) == pc[c] \in {"cancelling", "waiting", "closing", "stopped"}

(* What a request on its way may rely on at each of its steps.             *)
Opened(c) == Opening(c) => /\ running /\ cur = gen
                           /\ round[gen] = "provisioning" /\ gen \notin cancelled
Failed(c) == pc[c] = "failing" => /\ cur = gen
                                  /\ round[gen] \in {"died", "failing", "closing", "over"}
                                  /\ running <=> round[gen] = "died"
Closed(c) == /\ Closing(c) => ~running /\ gen \in Gens /\ round[gen] = "none"
             /\ pc[c] \in {"cancelling", "waiting"} =>
                    cur \in Gens /\ cur < gen /\ round[cur] \notin {"none", "provisioning"}
             /\ pc[c] = "waiting" => cur \in cancelled
             /\ pc[c] \in {"closing", "stopped"} => cur = 0
Placed == \A c \in Callers : Opened(c) /\ Failed(c) /\ Closed(c)

(* Between two toggles.                                                    *)
Rested == tmu = NoOne =>
              IF running THEN /\ cur = gen /\ live
                              /\ round[gen] = "died" \/ (round[gen] = "up" /\ gen \notin cancelled)
                         ELSE \A g \in Gens : Gone(g)

(* Rounds begin in the order of their generations, and of those that are   *)
(* not the manager's current one none is up.                               *)
Passed == \A g \in Gens : /\ g > gen => round[g] = "none"
                          /\ g # cur => Gone(g)
                          /\ g \in done => round[g] \notin {"none", "provisioning", "up"}
                          /\ round[g] # "up" => edge[g] = {}
                          /\ round[g] = "none" => g \notin cancelled

(* An event comes from a round that has been up, and is stamped with a     *)
(* generation that has begun.                                              *)
Stamped == /\ \A k \in 1..Len(observed) : round[observed[k].round] \notin {"none", "provisioning"}
           /\ \A k \in 1..Len(events) : events[k].round <= gen
           /\ dispatch # <<>> => round[dispatch[1]] # "none"

IInv == TypeOK /\ FlowType /\ Owned /\ Placed /\ Rested /\ Passed /\ Stamped

LEMMA InitIInv == ASSUME Init PROVE IInv
<1> USE TunnelAssumption DEF Init, Gens
<1>1. TypeOK
  <2>1. IsFiniteSet(Indexes) /\ Cardinality(Indexes) \in Nat
    BY FS_CardinalityType
  <2>2. status \in Statuses
    BY <2>1 DEF Off, Statuses
  <2>3. outbox \subseteq Threads
    OBVIOUS
  <2>4. gen \in 0..MaxGen /\ cur \in 0..gen /\ (running => cur # 0 /\ ~stopping)
    OBVIOUS
  <2> QED
    BY <2>2, <2>3, <2>4 DEF TypeOK
<1>2. FlowType
  BY DEF FlowType
<1>3. Owned /\ Placed
  BY DEF Owned, Placed, Opened, Failed, Closed, Opening, Closing
<1>4. Rested /\ Passed /\ Stamped
  BY DEF Rested, Passed, Stamped, Gone
<1> QED
  BY <1>1, <1>2, <1>3, <1>4 DEF IInv

-----------------------------------------------------------------------------
(* Types.                                                                  *)

(* A status whose count and round are in their ranges may be stored.       *)
LEMMA SetType ==
  ASSUME status \in Statuses, outbox \subseteq Threads,
         NEW t \in Threads, NEW g, NEW s \in Statuses, Set(t, g, s)
  PROVE  status' \in Statuses /\ outbox' \subseteq Threads
BY DEF Set

LEMMA Ranges ==
  ASSUME TypeOK
  PROVE  /\ Off \in Statuses /\ Starting \in Statuses
         /\ \A g \in 0..MaxGen : [status EXCEPT !.state = "starting", !.url = g] \in Statuses
         /\ [status EXCEPT !.state = "error", !.conns = 0] \in Statuses
         /\ \A type \in Types, n \in 0..Cardinality(Indexes) : Follows(type, n) \in Statuses
         /\ Cardinality(Indexes) \in Nat
<1>1. Cardinality(Indexes) \in Nat
  BY FS_CardinalityType, TunnelAssumption
<1>2. status \in Statuses
  BY DEF TypeOK
<1>3. Off \in Statuses
  BY <1>1, TunnelAssumption DEF Off, Statuses
<1>4. Starting \in Statuses
  BY <1>3 DEF Starting, Statuses
<1>5. \A g \in 0..MaxGen : [status EXCEPT !.state = "starting", !.url = g] \in Statuses
  BY <1>2 DEF Statuses
<1>6. [status EXCEPT !.state = "error", !.conns = 0] \in Statuses
  <2>1. \A n \in 0..Cardinality(Indexes) :
           [status EXCEPT !.state = "error", !.conns = n] \in Statuses
    BY <1>2 DEF Statuses
  <2>2. 0 \in 0..Cardinality(Indexes)
    BY <1>1
  <2> QED
    BY <2>1, <2>2
<1>7. \A type \in Types, n \in 0..Cardinality(Indexes) : Follows(type, n) \in Statuses
  BY <1>1, <1>2 DEF Statuses, Follows
<1> QED
  BY <1>1, <1>3, <1>4, <1>5, <1>6, <1>7

LEMMA ToggleType ==
  ASSUME IInv, NEW c \in Callers, Toggle(c)
  PROVE  TypeOK'
<1> USE TunnelAssumption DEF IInv, TypeOK, manager, rounds, flow, calls, Gens
<1>1. CASE EnableRunning(c)
  BY <1>1 DEF EnableRunning
<1>2. CASE Enable(c)
  <2>1. gen + 1 \in 0..MaxGen /\ gen + 1 \in 1..MaxGen
    BY <1>2 DEF Enable
  <2>2. round' \in [Gens -> {"none", "provisioning", "up", "died", "failing", "closing", "over"}]
    BY <1>2, <2>1 DEF Enable
  <2>3. pc' \in [Callers -> {"idle", "starting", "provisioning", "launching", "failing",
                             "cancelling", "waiting", "closing", "stopped"}]
    BY <1>2 DEF Enable
  <2>4. mine' \in [Callers -> 0..gen']
    BY <1>2, <2>1 DEF Enable
  <2>5. gen' \in 0..MaxGen /\ cur' \in 0..gen' /\ (running' => cur' # 0 /\ ~stopping')
    BY <1>2, <2>1 DEF Enable
  <2> QED
    BY <1>2, <2>2, <2>3, <2>4, <2>5 DEF Enable
<1>3. CASE DisableDead(c)
  BY <1>3 DEF DisableDead
<1>4. CASE Disable(c)
  <2>1. gen + 1 \in 0..MaxGen
    BY <1>4 DEF Disable
  <2>2. mine' \in [Callers -> 0..gen']
    BY <1>4, <2>1 DEF Disable
  <2>3. cur \in 0..gen'
    BY <1>4 DEF Disable
  <2> QED
    BY <1>4, <2>1, <2>2, <2>3 DEF Disable
<1> QED
  BY <1>1, <1>2, <1>3, <1>4 DEF Toggle

LEMMA ProceedType ==
  ASSUME IInv, NEW c \in Callers, Proceed(c)
  PROVE  TypeOK'
<1>a. Off \in Statuses /\ Starting \in Statuses
  BY Ranges DEF IInv
<1>b. \A n \in 0..MaxGen : [status EXCEPT !.state = "starting", !.url = n] \in Statuses
  BY Ranges DEF IInv
<1> USE TunnelAssumption DEF IInv, TypeOK, manager, rounds, flow, calls, Gens
<1>c. mine[c] \in 0..gen /\ gen \in 0..MaxGen
  OBVIOUS
<1>0. c \in Threads /\ Off \in Statuses /\ Starting \in Statuses /\ mine[c] \in 0..MaxGen
  BY <1>a, <1>c DEF Threads
<1>1. CASE SetStarting(c)
  <2>1. status' \in Statuses /\ outbox' \subseteq Threads
    BY <1>0, <1>1, SetType DEF SetStarting
  <2> QED
    BY <1>1, <2>1 DEF SetStarting
<1>2. CASE Provisioned(c)
  <2>1. [status EXCEPT !.state = "starting", !.url = mine[c]] \in Statuses
    BY <1>0, <1>b
  <2>2. status' \in Statuses /\ outbox' \subseteq Threads
    BY <1>0, <1>2, <2>1, SetType DEF Provisioned
  <2> QED
    BY <1>2, <2>2 DEF Provisioned
<1>3. CASE NotProvisioned(c)
  <2>1. mine[c] \in Gens
    BY <1>0, <1>3 DEF NotProvisioned, Owned, Placed, Opened, Opening
  <2> QED
    BY <1>3, <2>1 DEF NotProvisioned
<1>4. CASE Launch(c)
  <2>1. mine' \in [Callers -> 0..gen']
    BY <1>4 DEF Launch
  <2>2. pc' \in [Callers -> {"idle", "starting", "provisioning", "launching", "failing",
                             "cancelling", "waiting", "closing", "stopped"}]
    BY <1>4 DEF Launch
  <2> QED
    BY <1>4, <2>1, <2>2 DEF Launch
<1>5. CASE EnableFailed(c)
  BY <1>5 DEF EnableFailed
<1>6. CASE Cancel(c)
  <2>1. cur \in Gens
    BY <1>6 DEF Cancel, Placed, Closed
  <2> QED
    BY <1>6, <2>1 DEF Cancel
<1>7. CASE Waited(c)
  BY <1>7 DEF Waited, Placed, Closed, Closing
<1>8. CASE GiveUp(c)
  <2>1. cur \in Gens /\ ~running
    BY <1>8 DEF GiveUp, Placed, Closed, Closing
  <2> QED
    BY <1>8, <2>1 DEF GiveUp
<1>9. CASE SetOff(c)
  <2>1. status' \in Statuses /\ outbox' \subseteq Threads
    BY <1>0, <1>9, SetType DEF SetOff
  <2> QED
    BY <1>9, <2>1 DEF SetOff
<1>10. CASE Stopped(c)
  <2>1. mine' \in [Callers -> 0..gen']
    BY <1>10 DEF Stopped
  <2>2. pc' \in [Callers -> {"idle", "starting", "provisioning", "launching", "failing",
                             "cancelling", "waiting", "closing", "stopped"}]
    BY <1>10 DEF Stopped
  <2> QED
    BY <1>10, <2>1, <2>2 DEF Stopped
<1> QED
  BY <1>1, <1>2, <1>3, <1>4, <1>5, <1>6, <1>7, <1>8, <1>9, <1>10 DEF Proceed

LEMMA GoroutineType ==
  ASSUME IInv, NEW g \in Gens, Goroutine(g)
  PROVE  TypeOK'
<1> USE TunnelAssumption DEF IInv, TypeOK, manager, rounds, flow, calls
<1>1. CASE Exit(g)
  BY <1>1 DEF Exit
<1>2. CASE Fail(g)
  BY <1>2 DEF Fail
<1>3. CASE SetError(g)
  <2>1. [status EXCEPT !.state = "error", !.conns = 0] \in Statuses /\ g \in Threads
    BY Ranges DEF Threads
  <2>2. status' \in Statuses /\ outbox' \subseteq Threads
    BY <1>3, <2>1, SetType DEF SetError
  <2> QED
    BY <1>3, <2>2 DEF SetError
<1>4. CASE Close(g)
  BY <1>4 DEF Close
<1> QED
  BY <1>1, <1>2, <1>3, <1>4 DEF Goroutine

LEMMA EventType ==
  ASSUME IInv,
         \/ \E g \in Gens, i \in Indexes, type \in Types : Connection(g, i, type)
         \/ Sink \/ ApplyEvent \/ StoreEvent
  PROVE  TypeOK'
<1>a. \A type \in Types, n \in 0..Cardinality(Indexes) : Follows(type, n) \in Statuses
  BY Ranges DEF IInv
<1> USE TunnelAssumption DEF IInv, TypeOK, manager, rounds, flow, calls
<1>1. ASSUME NEW g \in Gens, NEW i \in Indexes, NEW type \in Types, Connection(g, i, type)
      PROVE  TypeOK'
  BY <1>1 DEF Connection
<1>2. CASE Sink
  BY <1>2 DEF Sink
<1>3. CASE ApplyEvent
  <2>1. conns' \subseteq Indexes
    <3>1. events[1] \in Events
      BY <1>3 DEF ApplyEvent, FlowType
    <3> QED
      BY <1>3, <3>1 DEF ApplyEvent, Events
  <2> QED
    BY <1>3, <2>1 DEF ApplyEvent
<1>4. CASE StoreEvent
  <2>1. dispatch[2] \in Types /\ dispatch[3] \in 0..Cardinality(Indexes)
    BY <1>4 DEF StoreEvent, FlowType
  <2>2. Follows(dispatch[2], dispatch[3]) \in Statuses /\ Dispatcher \in Threads
    BY <1>a, <2>1 DEF Threads
  <2>3. status' \in Statuses /\ outbox' \subseteq Threads
    BY <1>4, <2>2, SetType DEF StoreEvent
  <2> QED
    BY <1>4, <2>3 DEF StoreEvent
<1> QED
  BY <1>1, <1>2, <1>3, <1>4

LEMMA NextType ==
  ASSUME IInv, Next
  PROVE  TypeOK'
<1>1. ASSUME NEW t \in Threads, Publish(t) PROVE TypeOK'
  BY <1>1 DEF IInv, TypeOK, Publish, manager, rounds, flow, calls
<1> QED
  BY <1>1, ToggleType, ProceedType, GoroutineType, EventType DEF Next, Types

-----------------------------------------------------------------------------
(* The events on their way.                                                *)

LEMMA NextFlowType ==
  ASSUME IInv, [Next]_vars
  PROVE  FlowType'
<1> USE DEF IInv, FlowType, flow, Gens
<1>0. /\ gen \in 0..MaxGen /\ MaxGen \in Nat
      /\ \A e \in Events : e.round \in Gens /\ e.type \in Types
  BY TunnelAssumption DEF TypeOK, Events
<1>1. ASSUME NEW g \in Gens, NEW i \in Indexes, NEW type \in Types, Connection(g, i, type)
      PROVE  FlowType'
  <2>1. [round |-> g, index |-> i, type |-> type] \in Events
    BY DEF Events
  <2> QED
    BY <1>1, <2>1 DEF Connection
<1>2. CASE Sink
  <2>1. PICK e \in Events : e = observed[1]
    BY <1>2 DEF Sink
  <2>2. gen \in Gens
    <3>1. round[e.round] # "none"
      BY <1>2, <2>1 DEF Sink, Stamped
    <3> QED
      BY <1>0, <2>1, <3>1 DEF Passed
  <2>3. [e EXCEPT !.round = gen] \in Events
    BY <2>2 DEF Events
  <2>4. observed' \in Seq(Events)
    BY <1>2 DEF Sink
  <2>5. events' \in Seq(Events)
    <3>1. Head(observed) = e
      BY <1>2, <2>1 DEF Sink
    <3>2. events' = events \/ events' = Append(events, [e EXCEPT !.round = gen])
      BY <1>2, <3>1 DEF Sink
    <3> QED
      BY <2>3, <3>2
  <2> QED
    BY <1>2, <2>4, <2>5 DEF Sink
<1>3. CASE ApplyEvent
  <2>1. PICK e \in Events : e = events[1]
    BY <1>3 DEF ApplyEvent
  <2>2. PICK now : now = IF e.type = "connected" THEN conns \cup {e.index} ELSE conns \ {e.index}
    OBVIOUS
  <2>3. Cardinality(now) \in 0..Cardinality(Indexes)
    <3>1. now \subseteq Indexes
      BY <2>2 DEF TypeOK, Events
    <3> QED
      BY <3>1, FS_Subset, FS_CardinalityType, TunnelAssumption
  <2>4. events' \in Seq(Events)
    BY <1>3 DEF ApplyEvent
  <2>5. dispatch' = <<e.round, e.type, Cardinality(now)>> \/ dispatch' = <<>>
    <3>1. Head(events) = e
      BY <1>3, <2>1 DEF ApplyEvent
    <3>2. dispatch = <<>>
      BY <1>3 DEF ApplyEvent
    <3>3. CASE e.round = gen /\ running /\ ~stopping
      BY <1>3, <2>2, <3>1, <3>3 DEF ApplyEvent
    <3>4. CASE ~(e.round = gen /\ running /\ ~stopping)
      BY <1>3, <3>1, <3>2, <3>4 DEF ApplyEvent
    <3> QED
      BY <3>3, <3>4
  <2>6. dispatch' # <<>> => dispatch' \in Gens \X Types \X (0..Cardinality(Indexes))
    BY <1>0, <2>3, <2>5
  <2> QED
    BY <1>3, <2>4, <2>6 DEF ApplyEvent
<1>4. CASE StoreEvent
  BY <1>4 DEF StoreEvent
<1>5. ASSUME NEW t \in Threads, Publish(t) PROVE FlowType'
  BY <1>5 DEF Publish
<1>6. ASSUME NEW c \in Callers, Toggle(c) PROVE FlowType'
  BY <1>6 DEF Toggle, EnableRunning, Enable, DisableDead, Disable
<1>7. ASSUME NEW c \in Callers, Proceed(c) PROVE FlowType'
  BY <1>7 DEF Proceed, SetStarting, Provisioned, NotProvisioned, Launch, EnableFailed, Cancel,
              Waited, GiveUp, SetOff, Stopped
<1>8. ASSUME NEW g \in Gens, Goroutine(g) PROVE FlowType'
  BY <1>8 DEF Goroutine, Exit, Fail, SetError, Close
<1>9. CASE UNCHANGED vars
  BY <1>9 DEF vars
<1> QED
  BY <1>1, <1>2, <1>3, <1>4, <1>5, <1>6, <1>7, <1>8, <1>9 DEF Next, Types

-----------------------------------------------------------------------------
(* The requests and the rounds.                                            *)

LEMMA NextOwned ==
  ASSUME IInv, [Next]_vars
  PROVE  Owned'
<1> USE DEF IInv, Owned, manager, rounds, flow, calls, Gens
<1>0. /\ gen \in 0..MaxGen /\ MaxGen \in Nat /\ cur \in 0..gen /\ NoOne \notin Callers
      /\ pc = [c \in Callers |-> pc[c]] /\ mine = [c \in Callers |-> mine[c]]
      /\ (running => cur # 0)
      /\ round = [g \in Gens |-> round[g]] /\ edge = [g \in Gens |-> edge[g]]
  BY TunnelAssumption DEF IInv, TypeOK
<1>1. ASSUME NEW c \in Callers, EnableRunning(c) PROVE Owned'
  BY <1>0, <1>1 DEF EnableRunning
<1>2. ASSUME NEW c \in Callers, Enable(c) PROVE Owned'
  BY <1>0, <1>2 DEF Enable
<1>3. ASSUME NEW c \in Callers, DisableDead(c) PROVE Owned'
  BY <1>0, <1>3 DEF DisableDead
<1>4. ASSUME NEW c \in Callers, Disable(c) PROVE Owned'
  BY <1>0, <1>4 DEF Disable
<1>5. ASSUME NEW c \in Callers, SetStarting(c) PROVE Owned'
  BY <1>0, <1>5 DEF SetStarting, Set
<1>6. ASSUME NEW c \in Callers, Provisioned(c) PROVE Owned'
  BY <1>0, <1>6 DEF Provisioned, Set
<1>7. ASSUME NEW c \in Callers, NotProvisioned(c) PROVE Owned'
  BY <1>0, <1>7 DEF NotProvisioned
<1>8. ASSUME NEW c \in Callers, Launch(c) PROVE Owned'
  BY <1>0, <1>8 DEF Launch
<1>9. ASSUME NEW c \in Callers, EnableFailed(c) PROVE Owned'
  BY <1>0, <1>9 DEF EnableFailed
<1>10. ASSUME NEW c \in Callers, Cancel(c) PROVE Owned'
  BY <1>0, <1>10 DEF Cancel
<1>11. ASSUME NEW c \in Callers, Waited(c) PROVE Owned'
  BY <1>0, <1>11 DEF Waited
<1>12. ASSUME NEW c \in Callers, GiveUp(c) PROVE Owned'
  BY <1>0, <1>12 DEF GiveUp
<1>13. ASSUME NEW c \in Callers, SetOff(c) PROVE Owned'
  BY <1>0, <1>13 DEF SetOff, Set
<1>14. ASSUME NEW c \in Callers, Stopped(c) PROVE Owned'
  BY <1>0, <1>14 DEF Stopped
<1>15. ASSUME NEW g \in Gens, Exit(g) PROVE Owned'
  BY <1>0, <1>15 DEF Exit
<1>16. ASSUME NEW g \in Gens, Fail(g) PROVE Owned'
  BY <1>0, <1>16 DEF Fail
<1>17. ASSUME NEW g \in Gens, SetError(g) PROVE Owned'
  BY <1>0, <1>17 DEF SetError, Set
<1>18. ASSUME NEW g \in Gens, Close(g) PROVE Owned'
  BY <1>0, <1>18 DEF Close
<1>19. ASSUME NEW g \in Gens, NEW i \in Indexes, NEW type \in Types, Connection(g, i, type)
      PROVE  Owned'
  BY <1>0, <1>19 DEF Connection
<1>20. CASE Sink
  BY <1>0, <1>20 DEF Sink
<1>21. CASE ApplyEvent
  BY <1>0, <1>21 DEF ApplyEvent
<1>22. CASE StoreEvent
  BY <1>0, <1>22 DEF StoreEvent, Set
<1>23. ASSUME NEW t \in Threads, Publish(t) PROVE Owned'
  BY <1>0, <1>23 DEF Publish
<1>24. CASE UNCHANGED vars
  BY <1>0, <1>24 DEF vars
<1> QED
  BY <1>1, <1>2, <1>3, <1>4, <1>5, <1>6, <1>7, <1>8, <1>9, <1>10, <1>11, <1>12, <1>13, <1>14, <1>15, <1>16, <1>17, <1>18, <1>19, <1>20, <1>21, <1>22, <1>23, <1>24 DEF Next, Toggle, Proceed, Goroutine, Types

LEMMA NextPlaced ==
  ASSUME IInv, [Next]_vars
  PROVE  Placed'
<1> USE DEF IInv, Owned, Placed, Opened, Failed, Closed, Opening, Closing, Rested, Passed, manager, rounds, flow, calls, Gens
<1>0. /\ gen \in 0..MaxGen /\ MaxGen \in Nat /\ cur \in 0..gen /\ NoOne \notin Callers
      /\ pc = [c \in Callers |-> pc[c]] /\ mine = [c \in Callers |-> mine[c]]
      /\ (running => cur # 0)
      /\ round = [g \in Gens |-> round[g]] /\ edge = [g \in Gens |-> edge[g]]
  BY TunnelAssumption DEF IInv, TypeOK
<1>1. ASSUME NEW c \in Callers, EnableRunning(c) PROVE Placed'
  BY <1>0, <1>1 DEF EnableRunning
<1>2. ASSUME NEW c \in Callers, Enable(c) PROVE Placed'
  <2>1. gen + 1 \in Gens /\ round[gen + 1] = "none" /\ gen + 1 \notin cancelled
    BY <1>0, <1>2 DEF Enable
  <2>2. pc'[c] = "starting" /\ \A d \in Callers : d # c => pc'[d] = "idle"
    BY <1>0, <1>2 DEF Enable
  <2>3. round'[gen'] = "provisioning"
    BY <1>0, <1>2, <2>1 DEF Enable
  <2>4. Opened(c)' /\ Failed(c)' /\ Closed(c)'
    BY <1>0, <1>2, <2>1, <2>2, <2>3 DEF Enable
  <2>5. ASSUME NEW d \in Callers, d # c PROVE Opened(d)' /\ Failed(d)' /\ Closed(d)'
    BY <2>2, <2>5
  <2> QED
    BY <2>4, <2>5
<1>3. ASSUME NEW c \in Callers, DisableDead(c) PROVE Placed'
  BY <1>0, <1>3 DEF DisableDead
<1>4. ASSUME NEW c \in Callers, Disable(c) PROVE Placed'
  <2>1. gen + 1 \in Gens /\ round[gen + 1] = "none" /\ cur = gen /\ cur # 0
    BY <1>0, <1>4 DEF Disable
  <2>2. pc'[c] = "cancelling" /\ \A d \in Callers : d # c => pc'[d] = "idle"
    BY <1>0, <1>4 DEF Disable
  <2>3. cur \in Gens /\ round[cur] \notin {"none", "provisioning"}
    BY <1>0, <1>4 DEF Disable, TypeOK
  <2>4. Opened(c)' /\ Failed(c)' /\ Closed(c)'
    BY <1>0, <1>4, <2>1, <2>2, <2>3 DEF Disable
  <2>5. ASSUME NEW d \in Callers, d # c PROVE Opened(d)' /\ Failed(d)' /\ Closed(d)'
    BY <2>2, <2>5
  <2> QED
    BY <2>4, <2>5
<1>5. ASSUME NEW c \in Callers, SetStarting(c) PROVE Placed'
  BY <1>0, <1>5 DEF SetStarting, Set
<1>6. ASSUME NEW c \in Callers, Provisioned(c) PROVE Placed'
  BY <1>0, <1>6 DEF Provisioned, Set
<1>7. ASSUME NEW c \in Callers, NotProvisioned(c) PROVE Placed'
  <2>1. gen \in Gens /\ mine[c] = gen /\ running /\ cur = gen
    BY <1>0, <1>7 DEF NotProvisioned
  <2>2. pc'[c] = "failing" /\ \A d \in Callers : d # c => pc'[d] = "idle"
    BY <1>0, <1>7 DEF NotProvisioned
  <2>3. round'[gen] = "died"
    BY <1>0, <1>7, <2>1 DEF NotProvisioned
  <2>4. Opened(c)' /\ Failed(c)' /\ Closed(c)'
    BY <1>0, <1>7, <2>1, <2>2, <2>3 DEF NotProvisioned
  <2>5. ASSUME NEW d \in Callers, d # c PROVE Opened(d)' /\ Failed(d)' /\ Closed(d)'
    BY <2>2, <2>5
  <2> QED
    BY <2>4, <2>5
<1>8. ASSUME NEW c \in Callers, Launch(c) PROVE Placed'
  BY <1>0, <1>8 DEF Launch
<1>9. ASSUME NEW c \in Callers, EnableFailed(c) PROVE Placed'
  BY <1>0, <1>9 DEF EnableFailed
<1>10. ASSUME NEW c \in Callers, Cancel(c) PROVE Placed'
  BY <1>0, <1>10 DEF Cancel
<1>11. ASSUME NEW c \in Callers, Waited(c) PROVE Placed'
  BY <1>0, <1>11 DEF Waited
<1>12. ASSUME NEW c \in Callers, GiveUp(c) PROVE Placed'
  BY <1>0, <1>12 DEF GiveUp
<1>13. ASSUME NEW c \in Callers, SetOff(c) PROVE Placed'
  BY <1>0, <1>13 DEF SetOff, Set
<1>14. ASSUME NEW c \in Callers, Stopped(c) PROVE Placed'
  BY <1>0, <1>14 DEF Stopped
<1>15. ASSUME NEW g \in Gens, Exit(g) PROVE Placed'
  BY <1>0, <1>15 DEF Exit
<1>16. ASSUME NEW g \in Gens, Fail(g) PROVE Placed'
  BY <1>0, <1>16 DEF Fail
<1>17. ASSUME NEW g \in Gens, SetError(g) PROVE Placed'
  BY <1>0, <1>17 DEF SetError, Set
<1>18. ASSUME NEW g \in Gens, Close(g) PROVE Placed'
  BY <1>0, <1>18 DEF Close
<1>19. ASSUME NEW g \in Gens, NEW i \in Indexes, NEW type \in Types, Connection(g, i, type)
      PROVE  Placed'
  BY <1>0, <1>19 DEF Connection
<1>20. CASE Sink
  BY <1>0, <1>20 DEF Sink
<1>21. CASE ApplyEvent
  BY <1>0, <1>21 DEF ApplyEvent
<1>22. CASE StoreEvent
  BY <1>0, <1>22 DEF StoreEvent, Set
<1>23. ASSUME NEW t \in Threads, Publish(t) PROVE Placed'
  BY <1>0, <1>23 DEF Publish
<1>24. CASE UNCHANGED vars
  BY <1>0, <1>24 DEF vars
<1> QED
  BY <1>1, <1>2, <1>3, <1>4, <1>5, <1>6, <1>7, <1>8, <1>9, <1>10, <1>11, <1>12, <1>13, <1>14, <1>15, <1>16, <1>17, <1>18, <1>19, <1>20, <1>21, <1>22, <1>23, <1>24 DEF Next, Toggle, Proceed, Goroutine, Types

LEMMA NextRested ==
  ASSUME IInv, [Next]_vars
  PROVE  Rested'
<1> USE DEF IInv, Owned, Placed, Opened, Failed, Closed, Opening, Closing, Rested, Passed, Gone, manager, rounds, flow, calls, Gens
<1>0. /\ gen \in 0..MaxGen /\ MaxGen \in Nat /\ cur \in 0..gen /\ NoOne \notin Callers
      /\ pc = [c \in Callers |-> pc[c]] /\ mine = [c \in Callers |-> mine[c]]
      /\ (running => cur # 0)
      /\ round = [g \in Gens |-> round[g]] /\ edge = [g \in Gens |-> edge[g]]
  BY TunnelAssumption DEF IInv, TypeOK
<1>1. ASSUME NEW c \in Callers, EnableRunning(c) PROVE Rested'
  BY <1>0, <1>1 DEF EnableRunning
<1>2. ASSUME NEW c \in Callers, Enable(c) PROVE Rested'
  BY <1>0, <1>2 DEF Enable
<1>3. ASSUME NEW c \in Callers, DisableDead(c) PROVE Rested'
  BY <1>0, <1>3 DEF DisableDead
<1>4. ASSUME NEW c \in Callers, Disable(c) PROVE Rested'
  BY <1>0, <1>4 DEF Disable
<1>5. ASSUME NEW c \in Callers, SetStarting(c) PROVE Rested'
  BY <1>0, <1>5 DEF SetStarting, Set
<1>6. ASSUME NEW c \in Callers, Provisioned(c) PROVE Rested'
  BY <1>0, <1>6 DEF Provisioned, Set
<1>7. ASSUME NEW c \in Callers, NotProvisioned(c) PROVE Rested'
  BY <1>0, <1>7 DEF NotProvisioned
<1>8. ASSUME NEW c \in Callers, Launch(c) PROVE Rested'
  <2>1. gen \in Gens /\ mine[c] = gen /\ running /\ cur = gen
    BY <1>0, <1>8 DEF Launch
  <2>2. running' /\ live' /\ gen' = gen /\ cur' = gen /\ round'[gen] = "up" /\ gen \notin cancelled'
    BY <1>0, <1>8, <2>1 DEF Launch
  <2> QED
    BY <2>1, <2>2
<1>9. ASSUME NEW c \in Callers, EnableFailed(c) PROVE Rested'
  BY <1>0, <1>9 DEF EnableFailed
<1>10. ASSUME NEW c \in Callers, Cancel(c) PROVE Rested'
  BY <1>0, <1>10 DEF Cancel
<1>11. ASSUME NEW c \in Callers, Waited(c) PROVE Rested'
  BY <1>0, <1>11 DEF Waited
<1>12. ASSUME NEW c \in Callers, GiveUp(c) PROVE Rested'
  BY <1>0, <1>12 DEF GiveUp
<1>13. ASSUME NEW c \in Callers, SetOff(c) PROVE Rested'
  BY <1>0, <1>13 DEF SetOff, Set
<1>14. ASSUME NEW c \in Callers, Stopped(c) PROVE Rested'
  BY <1>0, <1>14 DEF Stopped
<1>15. ASSUME NEW g \in Gens, Exit(g) PROVE Rested'
  <2>1. gen' = gen /\ cur' = cur /\ running' = running /\ live' = live /\ tmu' = tmu
    BY <1>15 DEF Exit
  <2>2. \A h \in Gens : Gone(h) => Gone(h)'
    BY <1>0, <1>15 DEF Exit
  <2>3. running /\ tmu = NoOne =>
            round'[gen] = "died" \/ (round'[gen] = "up" /\ gen \notin cancelled')
    BY <1>0, <1>15 DEF Exit
  <2> QED
    BY <2>1, <2>2, <2>3
<1>16. ASSUME NEW g \in Gens, Fail(g) PROVE Rested'
  BY <1>0, <1>16 DEF Fail
<1>17. ASSUME NEW g \in Gens, SetError(g) PROVE Rested'
  BY <1>0, <1>17 DEF SetError, Set
<1>18. ASSUME NEW g \in Gens, Close(g) PROVE Rested'
  BY <1>0, <1>18 DEF Close
<1>19. ASSUME NEW g \in Gens, NEW i \in Indexes, NEW type \in Types, Connection(g, i, type)
      PROVE  Rested'
  BY <1>0, <1>19 DEF Connection
<1>20. CASE Sink
  BY <1>0, <1>20 DEF Sink
<1>21. CASE ApplyEvent
  BY <1>0, <1>21 DEF ApplyEvent
<1>22. CASE StoreEvent
  BY <1>0, <1>22 DEF StoreEvent, Set
<1>23. ASSUME NEW t \in Threads, Publish(t) PROVE Rested'
  BY <1>0, <1>23 DEF Publish
<1>24. CASE UNCHANGED vars
  BY <1>0, <1>24 DEF vars
<1> QED
  BY <1>1, <1>2, <1>3, <1>4, <1>5, <1>6, <1>7, <1>8, <1>9, <1>10, <1>11, <1>12, <1>13, <1>14, <1>15, <1>16, <1>17, <1>18, <1>19, <1>20, <1>21, <1>22, <1>23, <1>24 DEF Next, Toggle, Proceed, Goroutine, Types

LEMMA NextPassed ==
  ASSUME IInv, [Next]_vars
  PROVE  Passed'
<1> USE DEF IInv, Owned, Placed, Opened, Failed, Closed, Opening, Closing, Rested, Passed, Gone, manager, rounds, flow, calls, Gens
<1>0. /\ gen \in 0..MaxGen /\ MaxGen \in Nat /\ cur \in 0..gen /\ NoOne \notin Callers
      /\ pc = [c \in Callers |-> pc[c]] /\ mine = [c \in Callers |-> mine[c]]
      /\ (running => cur # 0)
      /\ round = [g \in Gens |-> round[g]] /\ edge = [g \in Gens |-> edge[g]]
  BY TunnelAssumption DEF IInv, TypeOK
<1>1. ASSUME NEW c \in Callers, EnableRunning(c) PROVE Passed'
  BY <1>0, <1>1 DEF EnableRunning
<1>2. ASSUME NEW c \in Callers, Enable(c) PROVE Passed'
  BY <1>0, <1>2 DEF Enable
<1>3. ASSUME NEW c \in Callers, DisableDead(c) PROVE Passed'
  BY <1>0, <1>3 DEF DisableDead
<1>4. ASSUME NEW c \in Callers, Disable(c) PROVE Passed'
  BY <1>0, <1>4 DEF Disable
<1>5. ASSUME NEW c \in Callers, SetStarting(c) PROVE Passed'
  BY <1>0, <1>5 DEF SetStarting, Set
<1>6. ASSUME NEW c \in Callers, Provisioned(c) PROVE Passed'
  BY <1>0, <1>6 DEF Provisioned, Set
<1>7. ASSUME NEW c \in Callers, NotProvisioned(c) PROVE Passed'
  BY <1>0, <1>7 DEF NotProvisioned
<1>8. ASSUME NEW c \in Callers, Launch(c) PROVE Passed'
  BY <1>0, <1>8 DEF Launch
<1>9. ASSUME NEW c \in Callers, EnableFailed(c) PROVE Passed'
  BY <1>0, <1>9 DEF EnableFailed
<1>10. ASSUME NEW c \in Callers, Cancel(c) PROVE Passed'
  <2>1. cur \in Gens /\ round[cur] # "none"
    BY <1>0, <1>10 DEF Cancel
  <2> QED
    BY <1>0, <1>10, <2>1 DEF Cancel
<1>11. ASSUME NEW c \in Callers, Waited(c) PROVE Passed'
  BY <1>0, <1>11 DEF Waited
<1>12. ASSUME NEW c \in Callers, GiveUp(c) PROVE Passed'
  BY <1>0, <1>12 DEF GiveUp
<1>13. ASSUME NEW c \in Callers, SetOff(c) PROVE Passed'
  BY <1>0, <1>13 DEF SetOff, Set
<1>14. ASSUME NEW c \in Callers, Stopped(c) PROVE Passed'
  BY <1>0, <1>14 DEF Stopped
<1>15. ASSUME NEW g \in Gens, Exit(g) PROVE Passed'
  BY <1>0, <1>15 DEF Exit
<1>16. ASSUME NEW g \in Gens, Fail(g) PROVE Passed'
  BY <1>0, <1>16 DEF Fail
<1>17. ASSUME NEW g \in Gens, SetError(g) PROVE Passed'
  BY <1>0, <1>17 DEF SetError, Set
<1>18. ASSUME NEW g \in Gens, Close(g) PROVE Passed'
  BY <1>0, <1>18 DEF Close
<1>19. ASSUME NEW g \in Gens, NEW i \in Indexes, NEW type \in Types, Connection(g, i, type)
      PROVE  Passed'
  BY <1>0, <1>19 DEF Connection
<1>20. CASE Sink
  BY <1>0, <1>20 DEF Sink
<1>21. CASE ApplyEvent
  BY <1>0, <1>21 DEF ApplyEvent
<1>22. CASE StoreEvent
  BY <1>0, <1>22 DEF StoreEvent, Set
<1>23. ASSUME NEW t \in Threads, Publish(t) PROVE Passed'
  BY <1>0, <1>23 DEF Publish
<1>24. CASE UNCHANGED vars
  BY <1>0, <1>24 DEF vars
<1> QED
  BY <1>1, <1>2, <1>3, <1>4, <1>5, <1>6, <1>7, <1>8, <1>9, <1>10, <1>11, <1>12, <1>13, <1>14, <1>15, <1>16, <1>17, <1>18, <1>19, <1>20, <1>21, <1>22, <1>23, <1>24 DEF Next, Toggle, Proceed, Goroutine, Types

(* A manager that is running has a round that is about to be up, up, or    *)
(* dead and not yet noticed.                                               *)
LEMMA RunningRound ==
  ASSUME IInv, running
  PROVE  cur = gen /\ gen \in Gens /\ round[gen] \in {"provisioning", "up", "died"}
<1>1. gen \in 0..MaxGen /\ cur # 0 /\ cur \in 0..gen /\ MaxGen \in Nat
  BY TunnelAssumption DEF IInv, TypeOK
<1>2. CASE tmu = NoOne
  BY <1>1, <1>2 DEF IInv, Rested, Gens
<1>3. CASE tmu \in Callers
  <2>1. pc[tmu] # "idle"
    BY <1>3 DEF IInv, Owned
  <2>2. Opening(tmu) \/ pc[tmu] = "failing" \/ Closing(tmu)
    BY <1>3, <2>1 DEF IInv, TypeOK, Opening, Closing
  <2> QED
    BY <1>1, <1>3, <2>2 DEF IInv, Placed, Opened, Failed, Closed, Gens
<1> QED
  BY <1>2, <1>3 DEF IInv, TypeOK

LEMMA NextStamped ==
  ASSUME IInv, [Next]_vars
  PROVE  Stamped'
<1> USE DEF IInv, FlowType, Stamped, Owned, Placed, Opened, Failed, Closed, Opening, Closing, Rested, Passed, manager, rounds, flow, calls, Gens
<1>0. /\ gen \in 0..MaxGen /\ MaxGen \in Nat /\ cur \in 0..gen /\ NoOne \notin Callers
      /\ pc = [c \in Callers |-> pc[c]] /\ mine = [c \in Callers |-> mine[c]]
      /\ round = [g \in Gens |-> round[g]] /\ edge = [g \in Gens |-> edge[g]]
      /\ observed \in Seq(Events) /\ events \in Seq(Events)
      /\ \A e \in Events : e.round \in Gens
  BY TunnelAssumption DEF IInv, TypeOK, Events
<1>1. ASSUME NEW c \in Callers, EnableRunning(c) PROVE Stamped'
  BY <1>0, <1>1 DEF EnableRunning
<1>2. ASSUME NEW c \in Callers, Enable(c) PROVE Stamped'
  BY <1>0, <1>2 DEF Enable
<1>3. ASSUME NEW c \in Callers, DisableDead(c) PROVE Stamped'
  BY <1>0, <1>3 DEF DisableDead
<1>4. ASSUME NEW c \in Callers, Disable(c) PROVE Stamped'
  BY <1>0, <1>4 DEF Disable
<1>5. ASSUME NEW c \in Callers, SetStarting(c) PROVE Stamped'
  BY <1>0, <1>5 DEF SetStarting, Set
<1>6. ASSUME NEW c \in Callers, Provisioned(c) PROVE Stamped'
  BY <1>0, <1>6 DEF Provisioned, Set
<1>7. ASSUME NEW c \in Callers, NotProvisioned(c) PROVE Stamped'
  BY <1>0, <1>7 DEF NotProvisioned
<1>8. ASSUME NEW c \in Callers, Launch(c) PROVE Stamped'
  BY <1>0, <1>8 DEF Launch
<1>9. ASSUME NEW c \in Callers, EnableFailed(c) PROVE Stamped'
  BY <1>0, <1>9 DEF EnableFailed
<1>10. ASSUME NEW c \in Callers, Cancel(c) PROVE Stamped'
  BY <1>0, <1>10 DEF Cancel
<1>11. ASSUME NEW c \in Callers, Waited(c) PROVE Stamped'
  BY <1>0, <1>11 DEF Waited
<1>12. ASSUME NEW c \in Callers, GiveUp(c) PROVE Stamped'
  BY <1>0, <1>12 DEF GiveUp
<1>13. ASSUME NEW c \in Callers, SetOff(c) PROVE Stamped'
  BY <1>0, <1>13 DEF SetOff, Set
<1>14. ASSUME NEW c \in Callers, Stopped(c) PROVE Stamped'
  BY <1>0, <1>14 DEF Stopped
<1>15. ASSUME NEW g \in Gens, Exit(g) PROVE Stamped'
  BY <1>0, <1>15 DEF Exit
<1>16. ASSUME NEW g \in Gens, Fail(g) PROVE Stamped'
  BY <1>0, <1>16 DEF Fail
<1>17. ASSUME NEW g \in Gens, SetError(g) PROVE Stamped'
  BY <1>0, <1>17 DEF SetError, Set
<1>18. ASSUME NEW g \in Gens, Close(g) PROVE Stamped'
  BY <1>0, <1>18 DEF Close
<1>19. ASSUME NEW g \in Gens, NEW i \in Indexes, NEW type \in Types, Connection(g, i, type)
      PROVE  Stamped'
  BY <1>0, <1>19 DEF Connection
<1>20. CASE Sink
  <2>1. \A k \in 1..Len(observed') : observed'[k] = observed[k + 1] /\ k + 1 \in 1..Len(observed)
    BY <1>0, <1>20 DEF Sink
  <2>2. PICK e \in Events : e = Head(observed)
    BY <1>0, <1>20 DEF Sink
  <2>3. \/ events' = events
        \/ events' = Append(events, [e EXCEPT !.round = gen])
    BY <1>20, <2>2 DEF Sink
  <2>4. [e EXCEPT !.round = gen].round = gen
    BY <2>2 DEF Events
  <2>5. \A k \in 1..Len(events') : events'[k].round <= gen
    <3>1. CASE events' = events
      BY <1>0, <1>20, <3>1 DEF Sink
    <3>2. CASE events' = Append(events, [e EXCEPT !.round = gen])
      <4>1. Len(events') = Len(events) + 1 /\ events'[Len(events) + 1] = [e EXCEPT !.round = gen]
        BY <1>0, <3>2
      <4>2. \A k \in 1..Len(events) : events'[k] = events[k]
        BY <1>0, <3>2
      <4>3. gen' = gen /\ Len(events) \in Nat
        BY <1>0, <1>20 DEF Sink
      <4>4. ASSUME NEW k \in 1..Len(events') PROVE events'[k].round <= gen
        <5>1. CASE k = Len(events) + 1
          <6>1. events'[k].round = gen
            BY <2>4, <4>1, <5>1, Zenon
          <6>2. gen \in Int
            BY <1>0
          <6> QED
            BY <6>1, <6>2
        <5>2. CASE k \in 1..Len(events)
          BY <4>2, <5>2
        <5> QED
          BY <4>1, <4>3, <4>4, <5>1, <5>2
      <4> QED
        BY <4>4
    <3> QED
      BY <2>3, <3>1, <3>2
  <2> QED
    BY <1>20, <2>1, <2>5 DEF Sink
<1>21. CASE ApplyEvent
  <2>1. \A k \in 1..Len(events') : events'[k] = events[k + 1] /\ k + 1 \in 1..Len(events)
    BY <1>0, <1>21 DEF ApplyEvent
  <2>2. PICK e \in Events : e = Head(events) /\ e = events[1] /\ 1 \in 1..Len(events)
    BY <1>0, <1>21 DEF ApplyEvent
  <2>3. CASE e.round = gen /\ running /\ ~stopping
    <3>1. round[gen] # "none"
      BY <2>3, RunningRound
    <3>2. dispatch' # <<>> /\ dispatch'[1] = gen
      <4>1. PICK now : now = IF e.type = "connected" THEN conns \cup {e.index} ELSE conns \ {e.index}
        OBVIOUS
      <4>2. dispatch' = <<e.round, e.type, Cardinality(now)>>
        BY <1>21, <2>2, <2>3, <4>1 DEF ApplyEvent
      <4> QED
        BY <2>3, <4>2
    <3> QED
      BY <1>21, <2>1, <3>1, <3>2 DEF ApplyEvent
  <2>4. CASE ~(e.round = gen /\ running /\ ~stopping)
    BY <1>21, <2>1, <2>2, <2>4 DEF ApplyEvent
  <2> QED
    BY <2>3, <2>4
<1>22. CASE StoreEvent
  BY <1>0, <1>22 DEF StoreEvent, Set
<1>23. ASSUME NEW t \in Threads, Publish(t) PROVE Stamped'
  BY <1>0, <1>23 DEF Publish
<1>24. CASE UNCHANGED vars
  BY <1>0, <1>24 DEF vars
<1> QED
  BY <1>1, <1>2, <1>3, <1>4, <1>5, <1>6, <1>7, <1>8, <1>9, <1>10, <1>11, <1>12, <1>13, <1>14, <1>15, <1>16, <1>17, <1>18, <1>19, <1>20, <1>21, <1>22, <1>23, <1>24 DEF Next, Toggle, Proceed, Goroutine, Types

LEMMA NextIInv ==
  ASSUME IInv, [Next]_vars
  PROVE  IInv'
<1>1. TypeOK'
  BY NextType DEF IInv, TypeOK, vars, manager, rounds, flow, calls
<1> QED
  BY <1>1, NextFlowType, NextOwned, NextPlaced, NextRested, NextPassed, NextStamped DEF IInv

(* The fields of the manager, the requests and the rounds keep their       *)
(* types.                                                                  *)
THEOREM TunnelTypeOK == Spec => []TypeOK
<1>1. IInv => TypeOK
  BY DEF IInv
<1> QED
  BY InitIInv, NextIInv, <1>1, PTL DEF Spec

LEMMA InvOutOfHand == ASSUME IInv PROVE NothingOutOfHand
<1> USE DEF IInv, Passed, Gone
<1>1. OneTunnel
  BY DEF OneTunnel
<1>2. \A g \in Gens : round[g] = "up" /\ g \notin cancelled =>
          cur = g /\ (tmu = NoOne => running /\ gen = g /\ live)
  BY DEF Rested
<1>3. ClosedIsClosed
  BY DEF ClosedIsClosed, Rested
<1> QED
  BY <1>1, <1>2, <1>3 DEF NothingOutOfHand, UpIsStoppable

(* One tunnel at a time, none that is up and cannot be closed, and none up *)
(* once the last toggle closed it, whatever the order in which requests,   *)
(* rounds that die, Stops that give up and late events work on the fields  *)
(* of the manager.                                                         *)
THEOREM TunnelIsInHand == Spec => []NothingOutOfHand
BY InitIInv, NextIInv, InvOutOfHand, PTL DEF Spec

-----------------------------------------------------------------------------
(* The truth of the status.                                                *)

About(e, g, i) == e.round = g /\ e.index = i

(* The last event in s of connection i of round g, and that there is none. *)
Last(s, g, i, k) == /\ k \in 1..Len(s) /\ About(s[k], g, i)
                    /\ \A j \in 1..Len(s) : About(s[j], g, i) => j <= k
Unheard(s, g, i) == \A k \in 1..Len(s) : ~About(s[k], g, i)

(* No event of the round that is being opened can be on its way yet.       *)
Calm == \A c \in Callers : Opening(c) /\ ~astray =>
            /\ \A k \in 1..Len(events) : events[k].round # gen
            /\ dispatch # <<>> => dispatch[1] # gen
            /\ conns = {}

(* The last word on a connection is true: it is in the events the observer *)
(* has still to take, or else in those the manager has, or has been heard. *)
LastWord(s, i) == \A k \in 1..Len(s) :
                      Last(s, gen, i, k) => (s[k].type = "connected" <=> i \in edge[gen])
Follow(i) ==
    /\ LastWord(observed, i)
    /\ Unheard(observed, gen, i) =>
          /\ LastWord(events, i)
          /\ Unheard(events, gen, i) => (i \in conns <=> i \in edge[gen])
InStep == ~astray /\ running /\ round[gen] = "up" => \A i \in Indexes : Follow(i)

(* The status shows the count, or the dispatch loop is about to store it.  *)
NoneStarts == \A c \in Callers : pc[c] # "starting"
Shows == /\ status.conns = Cardinality(conns)
         /\ status.state = "connected" <=> conns # {}
Shown == ~astray /\ running /\ round[gen] \in {"provisioning", "up"} /\ NoneStarts =>
             IF dispatch # <<>> /\ dispatch[1] = gen THEN dispatch[3] = Cardinality(conns)
                                                     ELSE Shows

(* A manager that is not running says so, or is about to.                  *)
Rest == ~astray /\ ~running =>
            \/ status.state \in {"off", "error"}
            \/ gen \in Gens /\ round[gen] = "failing"
            \/ \E c \in Callers : pc[c] \in {"cancelling", "waiting", "closing"}

(* A round that has begun to start is never "off".                         *)
Lit == gen \in Gens /\ round[gen] # "none" /\ NoneStarts => status.state # "off"

TInv == Calm /\ InStep /\ Shown /\ Rest /\ Lit

LEMMA InitTInv == ASSUME Init PROVE TInv
BY DEF Init, Off, Gens, TInv, Calm, Opening, InStep, Shown, Rest, Lit

LEMMA HeardAppend ==
  ASSUME NEW S, NEW s \in Seq(S), NEW e, NEW g, NEW i
  PROVE  /\ Unheard(Append(s, e), g, i) <=> Unheard(s, g, i) /\ ~About(e, g, i)
         /\ About(e, g, i) => \A k : Last(Append(s, e), g, i, k) <=> k = Len(s) + 1
         /\ ~About(e, g, i) => \A k : Last(Append(s, e), g, i, k) <=> Last(s, g, i, k)
<1>1. PICK t : t = Append(s, e)
  OBVIOUS
<1>2. /\ Len(t) = Len(s) + 1 /\ Len(s) \in Nat /\ t[Len(s) + 1] = e
      /\ \A k \in 1..Len(s) : t[k] = s[k]
  BY <1>1
<1>3. Unheard(t, g, i) <=> Unheard(s, g, i) /\ ~About(e, g, i)
  BY <1>2 DEF Unheard
<1>4. About(e, g, i) => \A k : Last(t, g, i, k) <=> k = Len(s) + 1
  BY <1>2 DEF Last
<1>5. ~About(e, g, i) => \A k : Last(t, g, i, k) <=> Last(s, g, i, k)
  BY <1>2 DEF Last
<1> QED
  BY <1>1, <1>3, <1>4, <1>5

LEMMA HeardTail ==
  ASSUME NEW S, NEW s \in Seq(S), s # <<>>, NEW g, NEW i
  PROVE  /\ Unheard(s, g, i) <=> Unheard(Tail(s), g, i) /\ ~About(s[1], g, i)
         /\ \A k : Last(Tail(s), g, i, k) => Last(s, g, i, k + 1) /\ Tail(s)[k] = s[k + 1]
         /\ Unheard(Tail(s), g, i) /\ About(s[1], g, i) => Last(s, g, i, 1)
<1>1. PICK t : t = Tail(s)
  OBVIOUS
<1>2. /\ Len(t) = Len(s) - 1 /\ Len(s) \in Nat \ {0}
      /\ \A k \in 1..Len(t) : t[k] = s[k + 1]
  BY <1>1
<1>3. Unheard(s, g, i) <=> Unheard(t, g, i) /\ ~About(s[1], g, i)
  <2>1. \A k \in 1..Len(s) : k = 1 \/ (k - 1 \in 1..Len(t) /\ s[k] = t[k - 1])
    BY <1>2
  <2>2. \A k \in 1..Len(t) : k + 1 \in 1..Len(s) /\ t[k] = s[k + 1]
    BY <1>2
  <2> QED
    BY <1>2, <2>1, <2>2 DEF Unheard
<1>4. ASSUME NEW k, Last(t, g, i, k) PROVE Last(s, g, i, k + 1) /\ t[k] = s[k + 1]
  <2>1. k \in 1..Len(t) /\ k + 1 \in 1..Len(s) /\ t[k] = s[k + 1] /\ About(s[k + 1], g, i)
    BY <1>2, <1>4 DEF Last
  <2>2. ASSUME NEW j \in 1..Len(s), About(s[j], g, i) PROVE j <= k + 1
    <3>1. CASE j = 1
      BY <2>1, <3>1
    <3>2. CASE j # 1
      <4>1. j - 1 \in 1..Len(t) /\ t[j - 1] = s[j]
        BY <1>2, <3>2
      <4>2. j - 1 <= k
        BY <1>4, <2>2, <4>1 DEF Last
      <4> QED
        BY <2>1, <4>2
    <3> QED
      BY <3>1, <3>2
  <2> QED
    BY <2>1, <2>2 DEF Last
<1>5. Unheard(t, g, i) /\ About(s[1], g, i) => Last(s, g, i, 1)
  <2>1. \A k \in 1..Len(s) : k = 1 \/ (k - 1 \in 1..Len(t) /\ s[k] = t[k - 1])
    BY <1>2
  <2> QED
    BY <1>2, <2>1 DEF Unheard, Last
<1> QED
  BY <1>1, <1>3, <1>4, <1>5

LEMMA NextCalm ==
  ASSUME IInv, TInv, [Next]_vars
  PROVE  Calm'
<1> USE DEF IInv, Placed, Opened, Failed, Closed, Opening, Closing, Owned, Passed, Stamped, TInv, Calm, manager, rounds, flow, calls, Gens
<1>0. /\ gen \in 0..MaxGen /\ MaxGen \in Nat /\ cur \in 0..gen /\ NoOne \notin Callers
      /\ pc = [c \in Callers |-> pc[c]] /\ mine = [c \in Callers |-> mine[c]]
      /\ round = [g \in Gens |-> round[g]] /\ edge = [g \in Gens |-> edge[g]]
      /\ observed \in Seq(Events) /\ events \in Seq(Events)
      /\ \A e \in Events : e.round \in Gens
  BY TunnelAssumption DEF FlowType, TypeOK, Events
<1>1. ASSUME NEW c \in Callers, EnableRunning(c) PROVE Calm'
  BY <1>0, <1>1 DEF EnableRunning
<1>2. ASSUME NEW c \in Callers, Enable(c) PROVE Calm'
  BY <1>0, <1>2 DEF Enable
<1>3. ASSUME NEW c \in Callers, DisableDead(c) PROVE Calm'
  BY <1>0, <1>3 DEF DisableDead
<1>4. ASSUME NEW c \in Callers, Disable(c) PROVE Calm'
  BY <1>0, <1>4 DEF Disable
<1>5. ASSUME NEW c \in Callers, SetStarting(c) PROVE Calm'
  BY <1>0, <1>5 DEF SetStarting, Set
<1>6. ASSUME NEW c \in Callers, Provisioned(c) PROVE Calm'
  BY <1>0, <1>6 DEF Provisioned, Set
<1>7. ASSUME NEW c \in Callers, NotProvisioned(c) PROVE Calm'
  BY <1>0, <1>7 DEF NotProvisioned
<1>8. ASSUME NEW c \in Callers, Launch(c) PROVE Calm'
  BY <1>0, <1>8 DEF Launch
<1>9. ASSUME NEW c \in Callers, EnableFailed(c) PROVE Calm'
  BY <1>0, <1>9 DEF EnableFailed
<1>10. ASSUME NEW c \in Callers, Cancel(c) PROVE Calm'
  BY <1>0, <1>10 DEF Cancel
<1>11. ASSUME NEW c \in Callers, Waited(c) PROVE Calm'
  BY <1>0, <1>11 DEF Waited
<1>12. ASSUME NEW c \in Callers, GiveUp(c) PROVE Calm'
  BY <1>0, <1>12 DEF GiveUp
<1>13. ASSUME NEW c \in Callers, SetOff(c) PROVE Calm'
  BY <1>0, <1>13 DEF SetOff, Set
<1>14. ASSUME NEW c \in Callers, Stopped(c) PROVE Calm'
  BY <1>0, <1>14 DEF Stopped
<1>15. ASSUME NEW g \in Gens, Exit(g) PROVE Calm'
  BY <1>0, <1>15 DEF Exit
<1>16. ASSUME NEW g \in Gens, Fail(g) PROVE Calm'
  BY <1>0, <1>16 DEF Fail
<1>17. ASSUME NEW g \in Gens, SetError(g) PROVE Calm'
  BY <1>0, <1>17 DEF SetError, Set
<1>18. ASSUME NEW g \in Gens, Close(g) PROVE Calm'
  BY <1>0, <1>18 DEF Close
<1>19. ASSUME NEW g \in Gens, NEW i \in Indexes, NEW type \in Types, Connection(g, i, type)
      PROVE  Calm'
  BY <1>0, <1>19 DEF Connection
<1>20. CASE Sink
  <2> SUFFICES ASSUME NEW c \in Callers, Opening(c)', ~astray'
               PROVE  (\A k \in 1..Len(events) : events[k].round # gen)' /\ (dispatch # <<>> => dispatch[1] # gen)'
                      /\ (conns = {})'
    OBVIOUS
  <2>1. PICK e \in Events : e = Head(observed) /\ e = observed[1] /\ 1 \in 1..Len(observed)
    BY <1>0, <1>20 DEF Sink
  <2>2. round[gen] = "provisioning" /\ Opening(c)
    BY <1>20 DEF Sink
  <2>3. e.round # gen
    BY <2>1, <2>2
  <2>4. astray' = (astray \/ (Len(events) < EventBuffer) = (e.round # gen))
    BY <1>20, <2>1 DEF Sink
  <2>5. (Len(events) < EventBuffer) \in BOOLEAN /\ (e.round # gen) \in BOOLEAN
    OBVIOUS
  <2>6. ~astray /\ ~(Len(events) < EventBuffer)
    BY <2>3, <2>4, <2>5
  <2>7. events' = events
    BY <1>20, <2>6 DEF Sink
  <2> QED
    BY <1>20, <2>2, <2>6, <2>7 DEF Sink
<1>21. CASE ApplyEvent
  <2> SUFFICES ASSUME NEW c \in Callers, Opening(c)', ~astray'
               PROVE  (\A k \in 1..Len(events) : events[k].round # gen)' /\ (dispatch # <<>> => dispatch[1] # gen)'
                      /\ (conns = {})'
    OBVIOUS
  <2>1. PICK e \in Events : e = Head(events) /\ e = events[1] /\ 1 \in 1..Len(events)
    BY <1>0, <1>21 DEF ApplyEvent
  <2>2. Opening(c) /\ ~astray /\ gen' = gen
    BY <1>21 DEF ApplyEvent
  <2>3. e.round # gen
    BY <2>1, <2>2
  <2>4. UNCHANGED <<conns, dispatch>>
    BY <1>21, <2>1, <2>3 DEF ApplyEvent
  <2>5. \A k \in 1..Len(events') : events'[k] = events[k + 1] /\ k + 1 \in 1..Len(events)
    BY <1>0, <1>21 DEF ApplyEvent
  <2> QED
    BY <2>2, <2>4, <2>5
<1>22. CASE StoreEvent
  BY <1>0, <1>22 DEF StoreEvent, Set
<1>23. ASSUME NEW t \in Threads, Publish(t) PROVE Calm'
  BY <1>0, <1>23 DEF Publish
<1>24. CASE UNCHANGED vars
  BY <1>0, <1>24 DEF vars
<1> QED
  BY <1>1, <1>2, <1>3, <1>4, <1>5, <1>6, <1>7, <1>8, <1>9, <1>10, <1>11, <1>12, <1>13, <1>14, <1>15, <1>16, <1>17, <1>18, <1>19, <1>20, <1>21, <1>22, <1>23, <1>24 DEF Next, Toggle, Proceed, Goroutine, Types

LEMMA FollowStays ==
  ASSUME NEW i, Follow(i),
         UNCHANGED <<gen, observed, events, conns>>, edge'[gen] = edge[gen]
  PROVE  Follow(i)'
BY DEF Follow, LastWord

(* A step that leaves the events and the count alone.                      *)
Aside == /\ UNCHANGED <<gen, observed, events, conns>>
         /\ edge'[gen] = edge[gen]
         /\ running /\ round[gen] = "up" /\ ~astray

(* What a step does to the rounds, but for the events.                     *)
LEMMA AsideSteps ==
  ASSUME IInv, [Next]_vars, running', round'[gen'] = "up", ~astray'
  PROVE  \/ Aside
         \/ \E c \in Callers : Launch(c)
         \/ \E g \in Gens, i \in Indexes, type \in Types : Connection(g, i, type)
         \/ Sink \/ ApplyEvent
<1> USE DEF Aside, IInv, Owned, Placed, Opened, Failed, Closed, Opening, Closing, Passed, manager, rounds, flow, calls, Gens
<1>0. /\ gen \in 0..MaxGen /\ MaxGen \in Nat /\ cur \in 0..gen /\ NoOne \notin Callers
      /\ pc = [c \in Callers |-> pc[c]] /\ mine = [c \in Callers |-> mine[c]]
      /\ round = [g \in Gens |-> round[g]] /\ edge = [g \in Gens |-> edge[g]]
  BY TunnelAssumption, RunningRound DEF TypeOK
<1>1. ASSUME NEW c \in Callers, EnableRunning(c) PROVE Aside
  BY <1>0, <1>1 DEF EnableRunning
<1>2. ASSUME NEW c \in Callers, Enable(c) PROVE Aside
  BY <1>0, <1>2 DEF Enable
<1>3. ASSUME NEW c \in Callers, DisableDead(c) PROVE Aside
  BY <1>0, <1>3 DEF DisableDead
<1>4. ASSUME NEW c \in Callers, Disable(c) PROVE Aside
  BY <1>0, <1>4 DEF Disable
<1>5. ASSUME NEW c \in Callers, SetStarting(c) PROVE Aside
  BY <1>0, <1>5 DEF SetStarting, Set
<1>6. ASSUME NEW c \in Callers, Provisioned(c) PROVE Aside
  BY <1>0, <1>6 DEF Provisioned, Set
<1>7. ASSUME NEW c \in Callers, NotProvisioned(c) PROVE Aside
  BY <1>0, <1>7 DEF NotProvisioned
<1>9. ASSUME NEW c \in Callers, EnableFailed(c) PROVE Aside
  BY <1>0, <1>9 DEF EnableFailed
<1>10. ASSUME NEW c \in Callers, Cancel(c) PROVE Aside
  BY <1>0, <1>10 DEF Cancel
<1>11. ASSUME NEW c \in Callers, Waited(c) PROVE Aside
  BY <1>0, <1>11 DEF Waited
<1>12. ASSUME NEW c \in Callers, GiveUp(c) PROVE Aside
  BY <1>0, <1>12 DEF GiveUp
<1>13. ASSUME NEW c \in Callers, SetOff(c) PROVE Aside
  BY <1>0, <1>13 DEF SetOff, Set
<1>14. ASSUME NEW c \in Callers, Stopped(c) PROVE Aside
  BY <1>0, <1>14 DEF Stopped
<1>15. ASSUME NEW g \in Gens, Exit(g) PROVE Aside
  BY <1>0, <1>15 DEF Exit
<1>16. ASSUME NEW g \in Gens, Fail(g) PROVE Aside
  <2>1. g # gen
    BY <1>16 DEF Fail
  <2>2. round'[gen] = round[gen]
    BY <1>0, <1>16, <2>1 DEF Fail
  <2> QED
    BY <1>0, <1>16, <2>1, <2>2 DEF Fail
<1>17. ASSUME NEW g \in Gens, SetError(g) PROVE Aside
  BY <1>0, <1>17 DEF SetError, Set
<1>18. ASSUME NEW g \in Gens, Close(g) PROVE Aside
  BY <1>0, <1>18 DEF Close
<1>22. CASE StoreEvent
  BY <1>0, <1>22 DEF StoreEvent, Set
<1>23. ASSUME NEW t \in Threads, Publish(t) PROVE Aside
  BY <1>0, <1>23 DEF Publish
<1>24. CASE UNCHANGED vars
  BY <1>0, <1>24 DEF vars
<1> QED
  BY <1>1, <1>2, <1>3, <1>4, <1>5, <1>6, <1>7, <1>9, <1>10, <1>11, <1>12, <1>13, <1>14, <1>15, <1>16, <1>17, <1>18, <1>22, <1>23, <1>24 DEF Next, Toggle, Proceed, Goroutine, Types

LEMMA NextInStep ==
  ASSUME IInv, TInv, [Next]_vars
  PROVE  InStep'
<1> SUFFICES ASSUME ~astray', running', round'[gen'] = "up", NEW i \in Indexes
             PROVE  Follow(i)'
  BY DEF InStep
<1>0. /\ observed \in Seq(Events) /\ events \in Seq(Events) /\ gen \in 0..MaxGen /\ MaxGen \in Nat
      /\ \A e \in Events : e.round \in Gens
      /\ round \in [Gens -> {"none", "provisioning", "up", "died", "failing", "closing", "over"}]
      /\ edge \in [Gens -> SUBSET Indexes]
  BY TunnelAssumption DEF IInv, FlowType, TypeOK, Events
<1>1. CASE Aside
  BY <1>1, FollowStays DEF Aside, TInv, InStep
<1>2. ASSUME NEW c \in Callers, Launch(c) PROVE Follow(i)'
  <2>1. gen \in Gens /\ running /\ round[gen] = "provisioning" /\ Opening(c) /\ ~astray
    BY <1>2, RunningRound DEF Launch, IInv, Placed, Opened, Opening
  <2>2. UNCHANGED <<gen, observed, events, conns, edge>>
    BY <1>2 DEF Launch, manager, flow
  <2>3. conns = {} /\ \A k \in 1..Len(events) : events[k].round # gen
    BY <2>1 DEF TInv, Calm
  <2>4. \A k \in 1..Len(observed) : observed[k].round # gen
    BY <2>1 DEF IInv, Stamped
  <2>5. edge[gen] = {}
    BY <2>1 DEF IInv, Passed
  <2>6. \A k : ~Last(observed, gen, i, k) /\ ~Last(events, gen, i, k)
    BY <2>3, <2>4 DEF Last, About
  <2>7. Follow(i)
    BY <2>3, <2>5, <2>6 DEF Follow, LastWord
  <2> QED
    BY <2>2, <2>7, FollowStays
<1>3. ASSUME NEW g \in Gens, NEW j \in Indexes, NEW type \in Types, Connection(g, j, type)
      PROVE  Follow(i)'
  <2>1. PICK e : e = [round |-> g, index |-> j, type |-> type]
    OBVIOUS
  <2>2. /\ UNCHANGED <<gen, events, conns, running, round, astray>> /\ observed' = Append(observed, e)
        /\ gen \in Gens
    BY <1>3, <2>1, RunningRound DEF Connection, manager
  <2>3. Follow(i)
    BY <2>2 DEF TInv, InStep
  <2>4. CASE About(e, gen, i)
    <3>1. g = gen /\ j = i
      BY <2>1, <2>4 DEF About
    <3>2. i \in edge'[gen] <=> type = "connected"
      BY <1>0, <1>3, <3>1 DEF Connection, Types
    <3>3. ~Unheard(observed', gen, i)
      BY <1>0, <2>2, <2>4, HeardAppend
    <3>4. \A k : Last(observed', gen, i, k) => k = Len(observed) + 1
      BY <1>0, <2>2, <2>4, HeardAppend
    <3>5. observed'[Len(observed) + 1] = e
      BY <1>0, <2>2
    <3>6. \A k : Last(observed', gen, i, k) => (observed'[k].type = "connected" <=> i \in edge'[gen])
      BY <2>1, <3>2, <3>4, <3>5
    <3> QED
      BY <2>2, <3>3, <3>6 DEF Follow, LastWord
  <2>5. CASE ~About(e, gen, i)
    <3>1. i \in edge'[gen] <=> i \in edge[gen]
      <4>1. CASE g = gen
        <5>1. j # i
          BY <2>1, <2>5, <4>1 DEF About
        <5> QED
          BY <1>0, <1>3, <4>1, <5>1 DEF Connection
      <4>2. CASE g # gen
        BY <1>0, <1>3, <2>2, <4>2 DEF Connection
      <4> QED
        BY <4>1, <4>2
    <3>2. Unheard(observed', gen, i) <=> Unheard(observed, gen, i)
      BY <1>0, <2>2, <2>5, HeardAppend
    <3>3. \A k : Last(observed', gen, i, k) <=> Last(observed, gen, i, k)
      BY <1>0, <2>2, <2>5, HeardAppend
    <3>4. \A k \in 1..Len(observed) : observed'[k] = observed[k]
      BY <1>0, <2>2
    <3>5. \A k : Last(observed, gen, i, k) => k \in 1..Len(observed)
      BY DEF Last
    <3>6. LastWord(observed, i)'
      BY <2>2, <2>3, <3>1, <3>3, <3>4, <3>5 DEF Follow, LastWord
    <3>7. LastWord(events, i) => LastWord(events, i)'
      BY <2>2, <3>1 DEF LastWord
    <3> QED
      BY <2>2, <2>3, <3>1, <3>2, <3>6, <3>7 DEF Follow
  <2> QED
    BY <2>4, <2>5
<1>4. CASE Sink
  <2>1. /\ UNCHANGED <<gen, conns, running, round, edge>> /\ observed # <<>> /\ observed' = Tail(observed)
        /\ gen \in Gens
    BY <1>4, RunningRound DEF Sink, manager, rounds
  <2>2. PICK e : e = observed[1] /\ e = Head(observed) /\ e \in Events
    BY <1>0, <2>1
  <2>3. ~astray /\ (Len(events) < EventBuffer <=> e.round = gen)
    <3>1. astray' = (astray \/ (Len(events) < EventBuffer) = (e.round # gen))
      BY <1>4, <2>2 DEF Sink
    <3>2. (Len(events) < EventBuffer) \in BOOLEAN /\ (e.round # gen) \in BOOLEAN
      OBVIOUS
    <3> QED
      BY <3>1, <3>2
  <2>4. Follow(i)
    BY <2>1, <2>3 DEF TInv, InStep
  <2>5. Unheard(observed, gen, i) <=> Unheard(observed', gen, i) /\ ~About(e, gen, i)
    BY <1>0, <2>1, <2>2, HeardTail
  <2>6. LastWord(observed, i)'
    <3>1. \A k : Last(observed', gen, i, k) => Last(observed, gen, i, k + 1) /\ observed'[k] = observed[k + 1]
      BY <1>0, <2>1, HeardTail
    <3>2. \A k : Last(observed, gen, i, k) => (observed[k].type = "connected" <=> i \in edge[gen])
      BY <2>4 DEF Follow, LastWord, Last
    <3> QED
      BY <2>1, <3>1, <3>2 DEF LastWord
  <2>7. CASE e.round # gen
    <3>1. events' = events /\ ~About(e, gen, i)
      BY <1>4, <2>3, <2>7 DEF Sink, About
    <3> QED
      BY <2>1, <2>4, <2>5, <2>6, <3>1 DEF Follow, LastWord
  <2>8. CASE e.round = gen
    <3>1. PICK f : f = [e EXCEPT !.round = gen]
      OBVIOUS
    <3>2. events' = Append(events, f)
      BY <1>4, <2>2, <2>3, <2>8, <3>1 DEF Sink
    <3>3. f.round = gen /\ f.index = e.index /\ f.type = e.type
      BY <2>2, <3>1 DEF Events
    <3>4. CASE About(e, gen, i)
      <4>1. About(f, gen, i)
        BY <3>3, <3>4 DEF About
      <4>2. ~Unheard(events', gen, i) /\ \A k : Last(events', gen, i, k) => k = Len(events) + 1
        BY <1>0, <3>2, <4>1, HeardAppend
      <4>3. events'[Len(events) + 1] = f
        BY <1>0, <3>2
      <4>4. Unheard(observed', gen, i) => (e.type = "connected" <=> i \in edge[gen])
        <5>1. Unheard(observed', gen, i) => Last(observed, gen, i, 1)
          BY <1>0, <2>1, <2>2, <3>4, HeardTail
        <5>2. 1 \in 1..Len(observed)
          BY <1>0, <2>1
        <5> QED
          BY <2>2, <2>4, <5>1, <5>2 DEF Follow, LastWord
      <4>5. Unheard(observed', gen, i) => LastWord(events, i)'
        BY <2>1, <3>3, <4>2, <4>3, <4>4 DEF LastWord
      <4> QED
        BY <2>1, <2>6, <4>2, <4>5 DEF Follow
    <3>5. CASE ~About(e, gen, i)
      <4>1. ~About(f, gen, i)
        BY <2>8, <3>3, <3>5 DEF About
      <4>2. Unheard(events', gen, i) <=> Unheard(events, gen, i)
        BY <1>0, <3>2, <4>1, HeardAppend
      <4>3. \A k : Last(events', gen, i, k) <=> Last(events, gen, i, k)
        BY <1>0, <3>2, <4>1, HeardAppend
      <4>4. \A k \in 1..Len(events) : events'[k] = events[k]
        BY <1>0, <3>2
      <4>5. \A k : Last(events, gen, i, k) => k \in 1..Len(events)
        BY DEF Last
      <4>6. LastWord(events, i) => LastWord(events, i)'
        BY <2>1, <4>3, <4>4, <4>5 DEF LastWord
      <4> QED
        BY <2>1, <2>4, <2>5, <2>6, <3>5, <4>2, <4>6 DEF Follow
    <3> QED
      BY <3>4, <3>5
  <2> QED
    BY <2>7, <2>8
<1>5. CASE ApplyEvent
  <2>1. /\ UNCHANGED <<gen, observed, running, round, edge, astray>> /\ events # <<>> /\ events' = Tail(events)
        /\ gen \in Gens
    BY <1>5, RunningRound DEF ApplyEvent, rounds
  <2>2. PICK e : e = events[1] /\ e = Head(events) /\ e \in Events
    BY <1>0, <2>1
  <2>3. Follow(i)
    BY <2>1 DEF TInv, InStep
  <2>4. Unheard(events, gen, i) <=> Unheard(events', gen, i) /\ ~About(e, gen, i)
    BY <1>0, <2>1, <2>2, HeardTail
  <2>5. LastWord(events, i) => LastWord(events, i)'
    <3>1. \A k : Last(events', gen, i, k) => Last(events, gen, i, k + 1) /\ events'[k] = events[k + 1]
      BY <1>0, <2>1, HeardTail
    <3>2. LastWord(events, i) =>
              \A k : Last(events, gen, i, k) => (events[k].type = "connected" <=> i \in edge[gen])
      BY DEF LastWord, Last
    <3> QED
      BY <2>1, <3>1, <3>2 DEF LastWord
  <2>6. LastWord(observed, i)'
    BY <2>1, <2>3 DEF Follow, LastWord
  <2>7. ~stopping
    BY <2>1 DEF IInv, TypeOK
  <2>8. CASE About(e, gen, i)
    <3>1. i \in conns' <=> e.type = "connected"
      BY <1>5, <2>1, <2>2, <2>7, <2>8 DEF ApplyEvent, About
    <3>2. Unheard(events', gen, i) => Last(events, gen, i, 1)
      BY <1>0, <2>1, <2>2, <2>8, HeardTail
    <3>3. 1 \in 1..Len(events)
      BY <1>0, <2>1
    <3>4. LastWord(events, i) /\ Unheard(events', gen, i) => (i \in conns' <=> i \in edge[gen])
      BY <2>2, <3>1, <3>2, <3>3 DEF LastWord
    <3> QED
      BY <2>1, <2>3, <2>5, <2>6, <3>4 DEF Follow
  <2>9. CASE ~About(e, gen, i)
    <3>1. i \in conns' <=> i \in conns
      BY <1>5, <2>1, <2>2, <2>9 DEF ApplyEvent, About
    <3> QED
      BY <2>1, <2>3, <2>4, <2>5, <2>6, <2>9, <3>1 DEF Follow
  <2> QED
    BY <2>8, <2>9
<1> QED
  BY <1>1, <1>2, <1>3, <1>4, <1>5, AsideSteps

LEMMA NextShown ==
  ASSUME IInv, TInv, [Next]_vars
  PROVE  Shown'
<1> USE DEF IInv, Placed, Opened, Failed, Closed, Opening, Closing, Owned, Passed, Stamped, TInv, Shown, Shows, NoneStarts, manager, rounds, flow, calls, Gens
<1>0. /\ gen \in 0..MaxGen /\ MaxGen \in Nat /\ cur \in 0..gen /\ NoOne \notin Callers
      /\ pc = [c \in Callers |-> pc[c]] /\ mine = [c \in Callers |-> mine[c]]
      /\ round = [g \in Gens |-> round[g]] /\ edge = [g \in Gens |-> edge[g]]
      /\ observed \in Seq(Events) /\ events \in Seq(Events)
      /\ \A e \in Events : e.round \in Gens
  BY TunnelAssumption DEF FlowType, TypeOK, Events
<1>1. ASSUME NEW c \in Callers, EnableRunning(c) PROVE Shown'
  BY <1>0, <1>1 DEF EnableRunning
<1>2. ASSUME NEW c \in Callers, Enable(c) PROVE Shown'
  BY <1>0, <1>2 DEF Enable
<1>3. ASSUME NEW c \in Callers, DisableDead(c) PROVE Shown'
  BY <1>0, <1>3 DEF DisableDead
<1>4. ASSUME NEW c \in Callers, Disable(c) PROVE Shown'
  BY <1>0, <1>4 DEF Disable
<1>5. ASSUME NEW c \in Callers, SetStarting(c) PROVE Shown'
  <2>1. mine[c] = gen /\ Opening(c) /\ c \in Callers
    BY <1>5 DEF SetStarting
  <2>2. status' = Starting
    BY <1>5, <2>1 DEF SetStarting, Set
  <2>3. status'.conns = 0 /\ status'.state # "connected"
    BY <2>2 DEF Starting, Off
  <2>4. UNCHANGED <<conns, dispatch, gen, astray>>
    BY <1>5 DEF SetStarting
  <2>5. ~astray => conns = {} /\ (dispatch # <<>> => dispatch[1] # gen)
    BY <2>1 DEF Calm
  <2> QED
    BY <2>3, <2>4, <2>5, FS_EmptySet
<1>6. ASSUME NEW c \in Callers, Provisioned(c) PROVE Shown'
  <2>1. mine[c] = gen /\ Opening(c) /\ running /\ round[gen] = "provisioning" /\ NoneStarts
    BY <1>6 DEF Provisioned
  <2>2. status' = [status EXCEPT !.state = "starting", !.url = mine[c]]
    BY <1>6, <2>1 DEF Provisioned, Set
  <2>3. status'.conns = status.conns /\ status'.state # "connected"
    BY <2>2 DEF TypeOK, Statuses
  <2>4. UNCHANGED <<conns, dispatch, gen, astray>>
    BY <1>6 DEF Provisioned, flow
  <2>5. ~astray => conns = {} /\ (dispatch # <<>> => dispatch[1] # gen)
    BY <2>1 DEF Calm
  <2>6. ~astray => Shows
    BY <2>1, <2>5
  <2> QED
    BY <2>3, <2>4, <2>5, <2>6
<1>7. ASSUME NEW c \in Callers, NotProvisioned(c) PROVE Shown'
  BY <1>0, <1>7 DEF NotProvisioned
<1>8. ASSUME NEW c \in Callers, Launch(c) PROVE Shown'
  BY <1>0, <1>8 DEF Launch
<1>9. ASSUME NEW c \in Callers, EnableFailed(c) PROVE Shown'
  BY <1>0, <1>9 DEF EnableFailed
<1>10. ASSUME NEW c \in Callers, Cancel(c) PROVE Shown'
  BY <1>0, <1>10 DEF Cancel
<1>11. ASSUME NEW c \in Callers, Waited(c) PROVE Shown'
  BY <1>0, <1>11 DEF Waited
<1>12. ASSUME NEW c \in Callers, GiveUp(c) PROVE Shown'
  BY <1>0, <1>12 DEF GiveUp
<1>13. ASSUME NEW c \in Callers, SetOff(c) PROVE Shown'
  BY <1>0, <1>13 DEF SetOff, Set
<1>14. ASSUME NEW c \in Callers, Stopped(c) PROVE Shown'
  BY <1>0, <1>14 DEF Stopped
<1>15. ASSUME NEW g \in Gens, Exit(g) PROVE Shown'
  BY <1>0, <1>15 DEF Exit
<1>16. ASSUME NEW g \in Gens, Fail(g) PROVE Shown'
  BY <1>0, <1>16, RunningRound DEF Fail
<1>17. ASSUME NEW g \in Gens, SetError(g) PROVE Shown'
  BY <1>0, <1>17 DEF SetError, Set
<1>18. ASSUME NEW g \in Gens, Close(g) PROVE Shown'
  BY <1>0, <1>18 DEF Close
<1>19. ASSUME NEW g \in Gens, NEW i \in Indexes, NEW type \in Types, Connection(g, i, type)
      PROVE  Shown'
  BY <1>0, <1>19 DEF Connection
<1>20. CASE Sink
  BY <1>0, <1>20 DEF Sink
<1>21. CASE ApplyEvent
  <2> SUFFICES ASSUME ~astray', running', round'[gen'] \in {"provisioning", "up"}, NoneStarts'
               PROVE  IF dispatch' # <<>> /\ dispatch'[1] = gen' THEN dispatch'[3] = Cardinality(conns')
                                                                 ELSE Shows'
    BY DEF Shown
  <2>1. ~astray /\ running /\ round[gen] \in {"provisioning", "up"} /\ NoneStarts /\ dispatch = <<>>
        /\ UNCHANGED <<gen, status>>
    BY <1>21 DEF ApplyEvent
  <2>2. PICK e \in Events : e = Head(events)
    BY <1>0, <1>21 DEF ApplyEvent
  <2>3. PICK now : now = IF e.type = "connected" THEN conns \cup {e.index} ELSE conns \ {e.index}
    OBVIOUS
  <2>4. \/ conns' = now /\ dispatch' = <<e.round, e.type, Cardinality(now)>> /\ e.round = gen
        \/ UNCHANGED <<conns, dispatch>>
    BY <1>21, <2>2, <2>3 DEF ApplyEvent
  <2> QED
    BY <2>1, <2>4
<1>22. CASE StoreEvent
  <2> SUFFICES ASSUME ~astray', running', round'[gen'] \in {"provisioning", "up"}, NoneStarts'
               PROVE  Shows'
    BY <1>22 DEF Shown, StoreEvent
  <2>1. running /\ round[gen] \in {"provisioning", "up"} /\ NoneStarts /\ UNCHANGED <<gen, conns>>
        /\ dispatch # <<>>
    BY <1>22 DEF StoreEvent
  <2>2. ~astray
    BY <1>22, Zenon DEF StoreEvent
  <2>3. CASE dispatch[1] # gen
    BY <1>22, <2>1, <2>2, <2>3 DEF StoreEvent, Set
  <2>4. CASE dispatch[1] = gen
    <3>1. status' = Follows(dispatch[2], dispatch[3])
      BY <1>22, <2>4 DEF StoreEvent, Set
    <3>2. PICK n : n = Cardinality(conns)
      OBVIOUS
    <3>3. n \in Nat /\ (n = 0 <=> conns = {})
      <4>1. IsFiniteSet(conns)
        BY FS_Subset, TunnelAssumption DEF TypeOK
      <4> QED
        BY <3>2, <4>1, FS_CardinalityType, FS_EmptySet
    <3>4. dispatch[3] = n
      BY <2>1, <2>2, <2>4, <3>2
    <3>5. status'.conns = n /\ (status'.state = "connected" <=> n > 0)
      BY <3>1, <3>3, <3>4 DEF Follows, TypeOK, Statuses
    <3> QED
      BY <2>1, <3>2, <3>3, <3>5
  <2> QED
    BY <2>3, <2>4
<1>23. ASSUME NEW t \in Threads, Publish(t) PROVE Shown'
  BY <1>0, <1>23 DEF Publish
<1>24. CASE UNCHANGED vars
  BY <1>0, <1>24 DEF vars
<1> QED
  BY <1>1, <1>2, <1>3, <1>4, <1>5, <1>6, <1>7, <1>8, <1>9, <1>10, <1>11, <1>12, <1>13, <1>14, <1>15, <1>16, <1>17, <1>18, <1>19, <1>20, <1>21, <1>22, <1>23, <1>24 DEF Next, Toggle, Proceed, Goroutine, Types

LEMMA NextRest ==
  ASSUME IInv, TInv, [Next]_vars
  PROVE  Rest'
<1> USE DEF IInv, Placed, Opened, Failed, Closed, Opening, Closing, Owned, Passed, Stamped, TInv, Rest, manager, rounds, flow, calls, Gens
<1>0. /\ gen \in 0..MaxGen /\ MaxGen \in Nat /\ cur \in 0..gen /\ NoOne \notin Callers
      /\ pc = [c \in Callers |-> pc[c]] /\ mine = [c \in Callers |-> mine[c]]
      /\ round = [g \in Gens |-> round[g]] /\ edge = [g \in Gens |-> edge[g]]
      /\ observed \in Seq(Events) /\ events \in Seq(Events)
      /\ \A e \in Events : e.round \in Gens
  BY TunnelAssumption DEF FlowType, TypeOK, Events
<1>1. ASSUME NEW c \in Callers, EnableRunning(c) PROVE Rest'
  BY <1>0, <1>1 DEF EnableRunning
<1>2. ASSUME NEW c \in Callers, Enable(c) PROVE Rest'
  BY <1>0, <1>2 DEF Enable
<1>3. ASSUME NEW c \in Callers, DisableDead(c) PROVE Rest'
  BY <1>0, <1>3 DEF DisableDead
<1>4. ASSUME NEW c \in Callers, Disable(c) PROVE Rest'
  BY <1>0, <1>4 DEF Disable
<1>5. ASSUME NEW c \in Callers, SetStarting(c) PROVE Rest'
  BY <1>0, <1>5 DEF SetStarting, Set
<1>6. ASSUME NEW c \in Callers, Provisioned(c) PROVE Rest'
  BY <1>0, <1>6 DEF Provisioned, Set
<1>7. ASSUME NEW c \in Callers, NotProvisioned(c) PROVE Rest'
  BY <1>0, <1>7 DEF NotProvisioned
<1>8. ASSUME NEW c \in Callers, Launch(c) PROVE Rest'
  BY <1>0, <1>8 DEF Launch
<1>9. ASSUME NEW c \in Callers, EnableFailed(c) PROVE Rest'
  BY <1>0, <1>9 DEF EnableFailed
<1>10. ASSUME NEW c \in Callers, Cancel(c) PROVE Rest'
  BY <1>0, <1>10 DEF Cancel
<1>11. ASSUME NEW c \in Callers, Waited(c) PROVE Rest'
  BY <1>0, <1>11 DEF Waited
<1>12. ASSUME NEW c \in Callers, GiveUp(c) PROVE Rest'
  BY <1>0, <1>12 DEF GiveUp
<1>13. ASSUME NEW c \in Callers, SetOff(c) PROVE Rest'
  <2>1. status' = Off
    BY <1>0, <1>13 DEF SetOff, Set
  <2> QED
    BY <2>1 DEF Off
<1>14. ASSUME NEW c \in Callers, Stopped(c) PROVE Rest'
  BY <1>0, <1>14 DEF Stopped
<1>15. ASSUME NEW g \in Gens, Exit(g) PROVE Rest'
  BY <1>0, <1>15 DEF Exit
<1>16. ASSUME NEW g \in Gens, Fail(g) PROVE Rest'
  BY <1>0, <1>16 DEF Fail
<1>17. ASSUME NEW g \in Gens, SetError(g) PROVE Rest'
  <2>1. CASE g = gen
    <3>1. status' = [status EXCEPT !.state = "error", !.conns = 0]
      BY <1>17, <2>1 DEF SetError, Set
    <3>2. status'.state = "error"
      BY <3>1 DEF TypeOK, Statuses
    <3> QED
      BY <3>2
  <2>2. CASE g # gen
    <3>1. UNCHANGED <<status, gen, running, astray, pc>> /\ round'[gen] = round[gen]
      BY <1>0, <1>17, <2>2 DEF SetError, Set
    <3> QED
      BY <3>1
  <2> QED
    BY <2>1, <2>2
<1>18. ASSUME NEW g \in Gens, Close(g) PROVE Rest'
  BY <1>0, <1>18 DEF Close
<1>19. ASSUME NEW g \in Gens, NEW i \in Indexes, NEW type \in Types, Connection(g, i, type)
      PROVE  Rest'
  BY <1>0, <1>19 DEF Connection
<1>20. CASE Sink
  BY <1>0, <1>20 DEF Sink
<1>21. CASE ApplyEvent
  BY <1>0, <1>21 DEF ApplyEvent
<1>22. CASE StoreEvent
  BY <1>0, <1>22 DEF StoreEvent, Set
<1>23. ASSUME NEW t \in Threads, Publish(t) PROVE Rest'
  BY <1>0, <1>23 DEF Publish
<1>24. CASE UNCHANGED vars
  BY <1>0, <1>24 DEF vars
<1> QED
  BY <1>1, <1>2, <1>3, <1>4, <1>5, <1>6, <1>7, <1>8, <1>9, <1>10, <1>11, <1>12, <1>13, <1>14, <1>15, <1>16, <1>17, <1>18, <1>19, <1>20, <1>21, <1>22, <1>23, <1>24 DEF Next, Toggle, Proceed, Goroutine, Types

LEMMA NextLit ==
  ASSUME IInv, TInv, [Next]_vars
  PROVE  Lit'
<1> USE DEF IInv, Placed, Opened, Failed, Closed, Opening, Closing, Owned, Passed, Stamped, TInv, Lit, NoneStarts, manager, rounds, flow, calls, Gens
<1>0. /\ gen \in 0..MaxGen /\ MaxGen \in Nat /\ cur \in 0..gen /\ NoOne \notin Callers
      /\ pc = [c \in Callers |-> pc[c]] /\ mine = [c \in Callers |-> mine[c]]
      /\ round = [g \in Gens |-> round[g]] /\ edge = [g \in Gens |-> edge[g]]
      /\ observed \in Seq(Events) /\ events \in Seq(Events)
      /\ \A e \in Events : e.round \in Gens
  BY TunnelAssumption DEF FlowType, TypeOK, Events
<1>1. ASSUME NEW c \in Callers, EnableRunning(c) PROVE Lit'
  BY <1>0, <1>1 DEF EnableRunning
<1>2. ASSUME NEW c \in Callers, Enable(c) PROVE Lit'
  BY <1>0, <1>2 DEF Enable
<1>3. ASSUME NEW c \in Callers, DisableDead(c) PROVE Lit'
  BY <1>0, <1>3 DEF DisableDead
<1>4. ASSUME NEW c \in Callers, Disable(c) PROVE Lit'
  BY <1>0, <1>4 DEF Disable
<1>5. ASSUME NEW c \in Callers, SetStarting(c) PROVE Lit'
  <2>1. status' = Starting
    BY <1>0, <1>5 DEF SetStarting, Set
  <2> QED
    BY <2>1 DEF Starting, Off
<1>6. ASSUME NEW c \in Callers, Provisioned(c) PROVE Lit'
  <2>1. status' = [status EXCEPT !.state = "starting", !.url = mine[c]]
    BY <1>0, <1>6 DEF Provisioned, Set
  <2>2. status'.state = "starting"
    BY <2>1 DEF TypeOK, Statuses
  <2> QED
    BY <2>2
<1>7. ASSUME NEW c \in Callers, NotProvisioned(c) PROVE Lit'
  BY <1>0, <1>7 DEF NotProvisioned
<1>8. ASSUME NEW c \in Callers, Launch(c) PROVE Lit'
  BY <1>0, <1>8 DEF Launch
<1>9. ASSUME NEW c \in Callers, EnableFailed(c) PROVE Lit'
  BY <1>0, <1>9 DEF EnableFailed
<1>10. ASSUME NEW c \in Callers, Cancel(c) PROVE Lit'
  BY <1>0, <1>10 DEF Cancel
<1>11. ASSUME NEW c \in Callers, Waited(c) PROVE Lit'
  BY <1>0, <1>11 DEF Waited
<1>12. ASSUME NEW c \in Callers, GiveUp(c) PROVE Lit'
  BY <1>0, <1>12 DEF GiveUp
<1>13. ASSUME NEW c \in Callers, SetOff(c) PROVE Lit'
  BY <1>0, <1>13 DEF SetOff, Set
<1>14. ASSUME NEW c \in Callers, Stopped(c) PROVE Lit'
  BY <1>0, <1>14 DEF Stopped
<1>15. ASSUME NEW g \in Gens, Exit(g) PROVE Lit'
  BY <1>0, <1>15 DEF Exit
<1>16. ASSUME NEW g \in Gens, Fail(g) PROVE Lit'
  BY <1>0, <1>16 DEF Fail
<1>17. ASSUME NEW g \in Gens, SetError(g) PROVE Lit'
  <2>1. CASE g = gen
    <3>1. status' = [status EXCEPT !.state = "error", !.conns = 0]
      BY <1>17, <2>1 DEF SetError, Set
    <3>2. status'.state = "error"
      BY <3>1 DEF TypeOK, Statuses
    <3> QED
      BY <3>2
  <2>2. CASE g # gen
    <3>1. UNCHANGED <<status, gen, pc>> /\ round'[gen] = round[gen]
      BY <1>0, <1>17, <2>2 DEF SetError, Set
    <3> QED
      BY <3>1
  <2> QED
    BY <2>1, <2>2
<1>18. ASSUME NEW g \in Gens, Close(g) PROVE Lit'
  BY <1>0, <1>18 DEF Close
<1>19. ASSUME NEW g \in Gens, NEW i \in Indexes, NEW type \in Types, Connection(g, i, type)
      PROVE  Lit'
  BY <1>0, <1>19 DEF Connection
<1>20. CASE Sink
  BY <1>0, <1>20 DEF Sink
<1>21. CASE ApplyEvent
  BY <1>0, <1>21 DEF ApplyEvent
<1>22. CASE StoreEvent
  <2>1. UNCHANGED <<gen, round, pc>>
    BY <1>22 DEF StoreEvent
  <2>2. status' = status \/ status' = Follows(dispatch[2], dispatch[3])
    BY <1>22 DEF StoreEvent, Set
  <2>3. status.state # "off" => Follows(dispatch[2], dispatch[3]).state # "off"
    BY DEF Follows, TypeOK, Statuses
  <2> QED
    BY <2>1, <2>2, <2>3
<1>23. ASSUME NEW t \in Threads, Publish(t) PROVE Lit'
  BY <1>0, <1>23 DEF Publish
<1>24. CASE UNCHANGED vars
  BY <1>0, <1>24 DEF vars
<1> QED
  BY <1>1, <1>2, <1>3, <1>4, <1>5, <1>6, <1>7, <1>8, <1>9, <1>10, <1>11, <1>12, <1>13, <1>14, <1>15, <1>16, <1>17, <1>18, <1>19, <1>20, <1>21, <1>22, <1>23, <1>24 DEF Next, Toggle, Proceed, Goroutine, Types

LEMMA NextTInv ==
  ASSUME IInv, TInv, [Next]_vars
  PROVE  TInv'
BY NextCalm, NextInStep, NextShown, NextRest, NextLit DEF TInv

LEMMA InvSettled == ASSUME IInv, TInv PROVE SettledTruth
<1> SUFFICES ASSUME Settled, ~astray PROVE Truthful
  BY DEF SettledTruth
<1>0. /\ tmu = NoOne /\ observed = <<>> /\ events = <<>> /\ dispatch = <<>>
      /\ \A g \in Gens : round[g] \in {"none", "up", "over"}
  BY DEF Settled
<1>1. \A c \in Callers : pc[c] = "idle"
  BY <1>0, TunnelAssumption DEF IInv, Owned
<1>2. CASE running
  <2>1. gen \in Gens /\ round[gen] = "up"
    BY <1>0, <1>2, RunningRound
  <2>2. \A i \in Indexes : i \in conns <=> i \in edge[gen]
    BY <1>0, <1>2, <2>1 DEF TInv, InStep, Follow, Unheard
  <2>3. conns \subseteq Indexes /\ edge[gen] \subseteq Indexes
    BY <2>1 DEF IInv, TypeOK
  <2>4. conns = edge[gen]
    BY <2>2, <2>3
  <2>5. Shows
    BY <1>0, <1>1, <1>2, <2>1 DEF TInv, Shown, NoneStarts
  <2> QED
    BY <1>2, <2>4, <2>5 DEF Truthful, Shows
<1>3. CASE ~running
  <2>1. status.state \in {"off", "error"}
    BY <1>0, <1>1, <1>3 DEF TInv, Rest
  <2> QED
    BY <1>3, <2>1 DEF Truthful
<1> QED
  BY <1>2, <1>3

(* When everything that happened has been heard and no accident came in    *)
(* between, the status is what the tunnel is, however many events overtake *)
(* toggles, deaths and each other's storing.                               *)
THEOREM TunnelTellsTheTruth == Spec => []SettledTruth
<1>1. Init => IInv /\ TInv
  BY InitIInv, InitTInv
<1>2. IInv /\ TInv /\ [Next]_vars => IInv' /\ TInv'
  BY NextIInv, NextTInv
<1>3. IInv /\ TInv => SettledTruth
  BY InvSettled
<1> QED
  BY <1>1, <1>2, <1>3, PTL DEF Spec

LEMMA StepOffIsFinal ==
  ASSUME IInv, TInv, [Next]_vars, status.state = "off", status'.state # "off"
  PROVE  astray \/ \E c \in Callers : SetStarting(c)
<1>0. status' # status
  OBVIOUS
<1>1. ASSUME NEW c \in Callers, Toggle(c) PROVE FALSE
  BY <1>0, <1>1 DEF Toggle, EnableRunning, Enable, DisableDead, Disable, manager
<1>2. ASSUME NEW c \in Callers, Proceed(c) PROVE SetStarting(c)
  <2>1. ~Provisioned(c)
    <3>1. SUFFICES ASSUME Provisioned(c) PROVE FALSE
      OBVIOUS
    <3>2. running /\ \A d \in Callers : pc[d] # "starting"
      BY <3>1 DEF Provisioned, IInv, Placed, Opened, Opening, Owned
    <3>3. gen \in Gens /\ round[gen] # "none"
      BY <3>2, RunningRound
    <3> QED
      BY <3>2, <3>3 DEF TInv, Lit, NoneStarts
  <2>2. ~SetOff(c)
    BY DEF SetOff, Set, Off
  <2> QED
    BY <1>0, <1>2, <2>1, <2>2
       DEF Proceed, NotProvisioned, Launch, EnableFailed, Cancel, Waited, GiveUp, Stopped, manager
<1>3. ASSUME NEW g \in Gens, Goroutine(g) PROVE FALSE
  <2>1. SetError(g) /\ g = gen
    BY <1>0, <1>3 DEF Goroutine, Exit, Fail, SetError, Close, Set, manager
  <2>2. round[gen] = "failing" /\ gen \in Gens
    BY <2>1 DEF SetError
  <2>3. \A c \in Callers : pc[c] # "starting"
    BY <2>2 DEF IInv, Placed, Opened, Opening
  <2> QED
    BY <2>2, <2>3 DEF TInv, Lit, NoneStarts
<1>4. CASE StoreEvent
  <2>1. dispatch # <<>> /\ dispatch[1] = gen
    BY <1>0, <1>4 DEF StoreEvent, Set
  <2>2. round[gen] # "none" /\ gen \in Gens
    BY <2>1 DEF IInv, Stamped, FlowType
  <2>3. PICK c \in Callers : pc[c] = "starting"
    BY <2>2 DEF TInv, Lit, NoneStarts
  <2> QED
    BY <2>1, <2>3 DEF TInv, Calm, Opening
<1> QED
  BY <1>0, <1>1, <1>2, <1>3, <1>4
     DEF Next, Connection, Sink, ApplyEvent, Publish, manager, vars

(* What is "off" stays off until somebody opens the tunnel: no late event, *)
(* and no failure of an earlier round, turns it into anything else.        *)
THEOREM TunnelStaysOff == Spec => OffIsFinal
<1>1. Init => IInv /\ TInv
  BY InitIInv, InitTInv
<1>2. IInv /\ TInv /\ [Next]_vars => IInv' /\ TInv'
  BY NextIInv, NextTInv
<1>3. IInv /\ TInv /\ [Next]_vars =>
        [(status.state = "off" /\ status'.state # "off") =>
             astray \/ \E c \in Callers : SetStarting(c)]_vars
  BY StepOffIsFinal
<1> QED
  BY <1>1, <1>2, <1>3, PTL DEF Spec, OffIsFinal
=============================================================================
