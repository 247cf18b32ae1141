---------------------------- MODULE MCRateLimiter ----------------------------
(* RateLimiter on small instances, for TLC.                                *)
EXTENDS RateLimiter, TLC

=============================================================================
