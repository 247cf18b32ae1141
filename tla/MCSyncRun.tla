------------------------------ MODULE MCSyncRun ------------------------------
(* Small instances of SyncRun.                                             *)
EXTENDS SyncRun

CONSTANTS tab, cli

Ask(strategy, push, dry) == [strategy |-> strategy, push |-> push, dry |-> dry]

(* The two callers of Sync, and what each of them asks for.                *)
MCAsks == [r \in Runs |->
             IF r = tab THEN {Ask("rebase", TRUE, FALSE), Ask("merge", TRUE, FALSE)}
             ELSE {Ask("rebase", TRUE, FALSE), Ask("rebase", FALSE, FALSE), Ask("rebase", FALSE, TRUE)}]
==============================================================================
