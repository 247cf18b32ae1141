---------------------------- MODULE MCLiveIndex ----------------------------
(* LiveIndex with an item and a page, for TLC.                             *)
EXTENDS LiveIndex, TLC

=============================================================================
