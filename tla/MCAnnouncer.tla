---------------------------- MODULE MCAnnouncer -----------------------------
(* Announcer with three goroutines and changes of up to two jobs, for TLC. *)
EXTENDS Announcer, TLC

=============================================================================
