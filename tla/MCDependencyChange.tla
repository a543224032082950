-------------------------- MODULE MCDependencyChange --------------------------
(***************************************************************************)
(* A small instance of DependencyChange: a column of a Model m that a View *)
(* v on it and an Answer a on the View use, so that the order of the fixes *)
(* matters; an Answer b on the View is to be deleted; a reusable Set k is  *)
(* used by both Answers.                                                   *)
(***************************************************************************)
EXTENDS DependencyChange, TLC

CONSTANTS m, a, v, b, k

MCInUseBy == (k :> {a, b})
MCBuiltOn == (m :> {}) @@ (v :> {m}) @@ (a :> {v}) @@ (b :> {v}) @@ (k :> {v})
MCFixRank == (a :> 0) @@ (v :> 2)
MCDeleteRank == (b :> 1)
=============================================================================
