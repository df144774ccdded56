--------------------------- MODULE MCStudentLedger ---------------------------
(***************************************************************************)
(* StudentLedger for TLC: the corrections an administrator posts.          *)
(***************************************************************************)
EXTENDS StudentLedger

UpAndDown == {-1, 1}
=============================================================================
