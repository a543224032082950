---------------------------- MODULE MCCascadeDelete ----------------------------
(***************************************************************************)
(* A small instance of CascadeDelete: a Model m, a View v on it, a Model   *)
(* w on the View; tenants create an Answer a on m and w and a reusable Set *)
(* k on w.                                                                 *)
(***************************************************************************)
EXTENDS CascadeDelete, TLC

CONSTANTS m, v, w, a, k

MCObjects == {m, v, w, a, k}
MCOwners == {m, v, w}
MCReads == (m :> {}) @@ (v :> {m}) @@ (w :> {v}) @@ (a :> {m, w}) @@ (k :> {w})
MCRank == (m :> 4) @@ (v :> 3) @@ (w :> 4) @@ (a :> 1) @@ (k :> 2)

\* The Model and one Answer on it
MCTwo == {m, a}
MCTwoReads == (m :> {}) @@ (a :> {m})
MCTwoRank == (m :> 4) @@ (a :> 1)
=============================================================================
