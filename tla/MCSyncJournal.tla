---------------------------- MODULE MCSyncJournal ----------------------------
(* SyncJournal on small instances, for TLC.                                *)
EXTENDS SyncJournal, TLC

=============================================================================
