------------------------------ MODULE MCTxLog ------------------------------
(* TxLog for TLC.                                                          *)
EXTENDS TxLog, TLC

\* Two connections may attach beside each other and beside a call.
Overlapping == {[conns |-> Conns, exts |-> {}, crashes |-> 0, may |-> {"overlap"},
                 large |-> {}, marker |-> TRUE]}

AllFiles == [c \in Conns |-> Files]
\* The second connection has no grant for one of the files.
OneGrant == [c \in Conns |-> IF c = CHOOSE d \in Conns : TRUE THEN Files
                             ELSE {CHOOSE f \in Files : TRUE}]

Symmetry == Permutations(Txs) \cup Permutations(Files) \cup Permutations(Conns)
=============================================================================
