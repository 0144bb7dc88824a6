------------------------------ MODULE MCRpcConn -----------------------------
(* RpcConn for TLC, with a server whose request bears the id of a call.      *)
EXTENDS RpcConn

OneId == [q \in Asks |-> CHOOSE c \in Callers : TRUE]
=============================================================================
