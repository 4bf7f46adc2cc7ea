----------------------------- MODULE MCStoreJobs -----------------------------
(***************************************************************************)
(* Instances of StoreJobs for TLC: nodes classify messages while prune     *)
(* executors delete them, and rows of a table of key packages.             *)
(***************************************************************************)
EXTENDS StoreJobs, TLC

CONSTANTS n1, n2, x1, x2

\* Key packages 1, 2 and 3 are of one installation, of which 3 is not old, 4 is of another.
MCRows == Group :> {1, 2, 3} @@ "key_packages" :> {1, 2, 3, 4}
MCOld == Group :> {1, 2, 3} @@ "key_packages" :> {1, 2, 4}
MCOwner ==
  Group :> (1 :> 1 @@ 2 :> 2 @@ 3 :> 3) @@ "key_packages" :> (1 :> 1 @@ 2 :> 1 @@ 3 :> 1 @@ 4 :> 4)

\* Messages 1 and 2 share a request, or need two, or one of them is too large.
small == 1 :> 1 @@ 2 :> 1 @@ 3 :> 1
full == 1 :> 1 @@ 2 :> 2 @@ 3 :> 1
large == 1 :> 1 @@ 2 :> 3 @@ 3 :> 1

plain == [count |-> FALSE, dry |-> FALSE]
counting == [count |-> TRUE, dry |-> FALSE]
dry == [count |-> FALSE, dry |-> TRUE]

\* Two nodes alone; a node beside an executor that counts or not; executors that overlap; a
\* message that is too large.
MCScenarios ==
  {[nodes |-> {n1, n2}, setup |-> << >>, size |-> full],
   [nodes |-> {n1}, setup |-> x1 :> plain, size |-> small],
   [nodes |-> {n1}, setup |-> x1 :> counting, size |-> large],
   [nodes |-> {}, setup |-> x1 :> plain @@ x2 :> plain, size |-> small],
   [nodes |-> {}, setup |-> x1 :> counting @@ x2 :> dry, size |-> small]}
=============================================================================
