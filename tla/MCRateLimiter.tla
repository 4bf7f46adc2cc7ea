---------------------------- MODULE MCRateLimiter ----------------------------
(***************************************************************************)
(* Instances of RateLimiter for TLC.  Three entries are enough for two     *)
(* processes and one bucket: one in the map and one in each hand.          *)
(***************************************************************************)
EXTENDS RateLimiter
=============================================================================
