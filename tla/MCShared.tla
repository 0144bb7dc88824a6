------------------------------ MODULE MCShared ------------------------------
(* What the sessions of one daemon share, for TLC in one run: the locks of   *)
(* the files, and the OS watcher of a root.  `thing' is chosen in the        *)
(* initial state and the variables of the other one stay initial.            *)
EXTENDS PathLocks, WatchHub, TLC

VARIABLE thing

\* Three spellings of two files: 1 and 3 name one file, whose key is greater than
\* that of 2, so the order of the spellings is not the order of the keys.
MCPaths == {1, 2, 3}
MCLockKey == [p \in MCPaths |-> IF p = 2 THEN 1 ELSE 2]

SharedInit == Init /\ HubInit /\ thing \in {"lock", "watcher"}
SharedNext ==
    \/ thing = "lock" /\ Next /\ UNCHANGED <<thing, hubVars>>
    \/ thing = "watcher" /\ HubNext /\ UNCHANGED <<thing, vars>>
SharedSpec == SharedInit /\ [][SharedNext]_<<thing, vars, hubVars>>

\* Every variable of either thing holds what its module declares.
SharedTypeOK == TypeOK /\ HubTypeOK

\* One set stands for the consumers of a root and for the watches they hold.
Symmetry == Permutations(Entries) \cup Permutations(Users)
=============================================================================
