---------------------------- MODULE JobLifecycle ----------------------------
(***************************************************************************)
(* What the engine promises about one job, whatever the interleaving: the  *)
(* life drawn in internal/syncengine/job.go (the table transitions) plus   *)
(* the ways a record comes and goes.  A record comes into being queued.    *)
(* It goes only once the job is finished: a job that is still queued or    *)
(* running is never forgotten.  SyncEngine implements this.                *)
(***************************************************************************)
CONSTANTS Ids,        \* job ids
          StableIds   \* ids that callers enqueue again once the job is finished

VARIABLE state        \* the state of each job, "absent" when there is no record

(* The edges of the table transitions.                                     *)
Transitions == {<<"queued", "running">>, <<"queued", "cancelled">>,
                <<"running", "done">>, <<"running", "failed">>,
                <<"running", "cancelled">>, <<"running", "queued">>,
                <<"failed", "queued">>}

Finished == {"done", "failed", "cancelled"}

(* A job appears queued, or finished as the journal remembers it, and      *)
(* disappears finished.                                                    *)
Appears(s, t) == s = "absent" /\ t \in {"queued"} \cup Finished
Forgotten(s, t) == s \in Finished /\ t = "absent"

(* A finished job whose id is enqueued again gives way to a new one.       *)
Replaced(id, s, t) == id \in StableIds /\ s \in Finished /\ t = "queued"

Edge(id, s, t) == \/ <<s, t>> \in Transitions
                  \/ Appears(s, t) \/ Forgotten(s, t)
                  \/ Replaced(id, s, t)

Init == state = [id \in Ids |-> "absent"]

Next == /\ state' \in [Ids -> {"absent", "queued", "running"} \cup Finished]
        /\ \A id \in Ids : state'[id] = state[id] \/ Edge(id, state[id], state'[id])

Spec == Init /\ [][Next]_state
=============================================================================
