---------------------------- MODULE MCMessageLog ----------------------------
(***************************************************************************)
(* Instances of MessageLog for TLC: three calls of one or two messages,    *)
(* one of them a retry of another.                                         *)
(***************************************************************************)
EXTENDS MessageLog, TLC

CONSTANTS g1, g2, a, b, r1, r2, r3

M(t, d) == [topic |-> t, data |-> d]

\* r2 repeats a part of r1, r3 meets r1 in a topic.
RetryMessages ==
  r1 :> <<M(g1, a), M(g2, a)>> @@ r2 :> <<M(g1, a)>> @@ r3 :> <<M(g2, b)>>
=============================================================================
