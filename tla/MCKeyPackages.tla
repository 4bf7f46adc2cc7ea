---------------------------- MODULE MCKeyPackages ----------------------------
(***************************************************************************)
(* Instances of KeyPackages for TLC: legacy installations, uploads of new  *)
(* packages and of one that was uploaded before.                           *)
(***************************************************************************)
EXTENDS KeyPackages, TLC

CONSTANTS i1, i2, a, b, u1, u2, b1, b2

\* i1 and i2 are from before the key_packages table.  Two uploads race for i1, one of the
\* package it has, while the backfillers append both.
MCTarget == u1 :> i1 @@ u2 :> i1
MCSent == u1 :> b @@ u2 :> a
MCFirst == i1 :> a @@ i2 :> a
=============================================================================
