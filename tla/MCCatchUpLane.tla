---------------------------- MODULE MCCatchUpLane ----------------------------
(***************************************************************************)
(* An instance of CatchUpLane for TLC.                                     *)
(***************************************************************************)
EXTENDS CatchUpLane
==============================================================================
