--------------------------- MODULE MCTransactions ---------------------------
(* TxLog for TLC under several environments in one run: two connections and   *)
(* two crashes of a daemon whose disk is its own; one connection and a crash  *)
(* with logs that cannot be written; one beside another program with a crash  *)
(* or a power cut; and a daemon whose disk is its own with a file over the    *)
(* cap, or without .plumb, with a crash and without one.                      *)
EXTENDS TxLog, TLC

AllFiles == [c \in Conns |-> Files]

World(C, X, n, E) == [conns |-> C, exts |-> X, crashes |-> n, may |-> E,
                      large |-> {}, marker |-> TRUE]
Lone == {CHOOSE c \in Conns : TRUE}
Unlogged(n) == {[World(Lone, {}, n, {}) EXCEPT !.large = {f}] : f \in Files}
                 \cup {[World(Lone, {}, n, {}) EXCEPT !.marker = FALSE]}
SomeWorlds == {World(Conns, {}, 2, {}), World(Lone, {}, 1, {"logFails"}),
               World(Lone, Exts, 1, {"snapshotLost"})}
                \cup Unlogged(0) \cup Unlogged(1)

Symmetry == Permutations(Txs) \cup Permutations(Files)
=============================================================================
