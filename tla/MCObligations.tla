---------------------------- MODULE MCObligations ----------------------------
(***************************************************************************)
(* Obligations for TLC: requests are interchangeable.  Only invariants are *)
(* checked under this symmetry.                                            *)
(***************************************************************************)
EXTENDS Obligations, TLC

Symmetry == Permutations(Requests)
=============================================================================
