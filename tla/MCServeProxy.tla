---------------------------- MODULE MCServeProxy ----------------------------
(* ServeProxy for TLC.                                                     *)
EXTENDS ServeProxy, TLC

Symmetry == Permutations(Calls)
=============================================================================
