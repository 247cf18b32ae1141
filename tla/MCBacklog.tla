----------------------------- MODULE MCBacklog -----------------------------
(* Two processes that write one backlog, without a renumbering. *)
EXTENDS Backlog
=============================================================================
