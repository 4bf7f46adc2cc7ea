----------------------------- MODULE MCInboxLog -----------------------------
(***************************************************************************)
(* An instance of InboxLog for TLC: calls that race on one inbox (the      *)
(* first update of it, an add, a removal and a re-association of one       *)
(* address) beside one call on another inbox that shares the address.      *)
(***************************************************************************)
EXTENDS InboxLog, TLC

CONSTANTS x1, x2, a1, a2, p1, p2, p3, p4

U(x, n, adds, removes) == [inbox |-> x, nonce |-> n, adds |-> adds, removes |-> removes]

RaceUpdates ==
  p1 :> U(x1, 1, {a1}, {}) @@ p2 :> U(x1, 2, {a2}, {a1}) @@ p3 :> U(x1, 3, {a1}, {})
    @@ p4 :> U(x2, 4, {a1}, {})
=============================================================================
