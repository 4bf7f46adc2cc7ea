-------------------------- MODULE MCLegacySubscribe --------------------------
(***************************************************************************)
(* Instances of LegacySubscribe for TLC.                                   *)
(***************************************************************************)
EXTENDS LegacySubscribe

CONSTANTS a, b

On(t, c) == [topic |-> t, cursor |-> c]

\* No filter, a topic from a cursor, two topics, one topic twice.
MixedRequests == {{}, {On(a, 0), On(b, 1)}, {On(a, 0), On(a, 1)}}
AllFaults == FaultKinds
=============================================================================
