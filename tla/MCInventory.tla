----------------------------- MODULE MCInventory -----------------------------
(***************************************************************************)
(* Inventory for TLC: requests, damages and charges are interchangeable.   *)
(* Only invariants are checked under this symmetry.                        *)
(***************************************************************************)
EXTENDS Inventory

Symmetry == Permutations(Requests) \cup Permutations(Damages) \cup Permutations(Charges)
=============================================================================
