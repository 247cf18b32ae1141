------------------------------ MODULE MCTunnel ------------------------------
(* Tunnel with two requests and a few rounds, for TLC.                     *)
EXTENDS Tunnel, TLC

=============================================================================
