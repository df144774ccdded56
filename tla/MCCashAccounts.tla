---------------------------- MODULE MCCashAccounts ----------------------------
(***************************************************************************)
(* CashAccounts for TLC: documents are interchangeable, and so are         *)
(* requests.  Only invariants are checked under this symmetry.             *)
(***************************************************************************)
EXTENDS CashAccounts, TLC

Symmetry == Permutations(Docs) \cup Permutations(Requests)
=============================================================================
