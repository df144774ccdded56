----------------------------- MODULE MCTeacherDay -----------------------------
(***************************************************************************)
(* TeacherDay for TLC: requests are interchangeable.  Only invariants are  *)
(* checked under this symmetry.                                            *)
(***************************************************************************)
EXTENDS TeacherDay, TLC

Symmetry == Permutations(Requests)
=============================================================================
