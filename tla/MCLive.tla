------------------------------- MODULE MCLive -------------------------------
(* What must end, for TLC in one run: a call that locks one file under two   *)
(* spellings, and a call of a language server.  `wait' is chosen in the      *)
(* initial state; where the other part stays initial its fairness demands    *)
(* nothing.                                                                  *)
EXTENDS PathLocks, RpcConn

VARIABLE wait

MCTwoPaths == {1, 2}
MCOneKey == [p \in MCTwoPaths |-> 1]
OneId == [q \in Asks |-> CHOOSE c \in Callers : TRUE]

LiveInit == Init /\ RpcInit /\ wait \in {"lock", "server"}
LiveNext ==
    \/ wait = "lock" /\ Next /\ UNCHANGED <<wait, rpcVars>>
    \/ wait = "server" /\ RpcNext /\ UNCHANGED <<wait, vars>>
LiveSpec == /\ LiveInit /\ [][LiveNext]_<<wait, vars, rpcVars>>
            /\ Fairness /\ RpcFairness
=============================================================================
