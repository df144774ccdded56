----------------------------- MODULE MCCoinMarket -----------------------------
(***************************************************************************)
(* CoinMarket for TLC: requests are interchangeable.  Only invariants are  *)
(* checked under this symmetry.                                            *)
(***************************************************************************)
EXTENDS CoinMarket, TLC

Symmetry == Permutations(Requests)
=============================================================================
