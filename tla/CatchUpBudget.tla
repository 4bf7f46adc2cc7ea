---------------------------- MODULE CatchUpBudget ----------------------------
(***************************************************************************)
(* What the byte budget of a stream's catch-up lane promises (the comment  *)
(* at catchUpMaxPendingBytes, subscribe.go): a turn is admitted in one     *)
(* step, into an empty lane or within the budget, and the writer gives     *)
(* back what it takes.  Subscribe uses this abstraction; CatchUpLane       *)
(* implements it.                                                          *)
(***************************************************************************)
EXTENDS Integers

CONSTANTS Sizes, Budget

VARIABLE bytes

Init == bytes = 0

Reserve(n) == (bytes = 0 \/ bytes + n <= Budget) /\ bytes' = bytes + n

Free(n) == bytes' = bytes - n

Next == \E n \in Sizes : Reserve(n) \/ Free(n)

Spec == Init /\ [][Next]_bytes
=============================================================================
