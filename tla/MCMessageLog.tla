----------------------------- MODULE MCMessageLog -----------------------------
(* A small instance of MessageLog for TLC. *)
EXTENDS MessageLog, TLC

SameRows == Permutations(Rows)
TwoServices == {"alerts", "backup"}
TwoTimes == {1, 2}
ThreeTimes == {1, 2, 3}
=============================================================================
