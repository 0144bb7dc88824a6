---------------------------- MODULE MCPathLocks ----------------------------
(* PathLocks for TLC: two files.                                           *)
EXTENDS PathLocks, TLC

MCTwoPaths == {1, 2}
MCTwoKeys == [p \in MCTwoPaths |-> 3 - p]
=============================================================================
