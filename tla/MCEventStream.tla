---------------------------- MODULE MCEventStream ----------------------------
(* Instances of EventStream for TLC: one tab that reconnects, and one or    *)
(* two publishers.  The ring and the two queues are as small as they can be *)
(* and still be passed, filled and overflowed by the events published.      *)
EXTENDS EventStream, TLC

CONSTANTS p1, p2, null

==============================================================================
