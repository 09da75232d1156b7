----------------------------- MODULE MCIdentity -----------------------------
(***************************************************************************)
(* Instances of Identity.                                                  *)
(***************************************************************************)
EXTENDS Identity, TLC

Symmetric == Permutations(Procs) \cup Permutations(Keys)
=============================================================================
