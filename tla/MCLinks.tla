------------------------------- MODULE MCLinks ------------------------------
(* Two links of a session for TLC, in one run: the conversation that resumes *)
(* over a new connection, and the connection to a language server.  `link'   *)
(* is chosen in the initial state and the variables of the other link stay   *)
(* initial.                                                                  *)
EXTENDS ResumeCredentials, RpcConn, TLC

VARIABLE link

\* A request of the server bears the id of a call.
OneId == [q \in Asks |-> CHOOSE c \in Callers : TRUE]

LinksInit == ResumeInit /\ RpcInit /\ link \in {"conversation", "server"}
LinksNext ==
    \/ link = "conversation" /\ ResumeNext /\ UNCHANGED <<link, rpcVars>>
    \/ link = "server" /\ RpcNext /\ UNCHANGED <<link, resumeVars>>
LinksSpec == LinksInit /\ [][LinksNext]_<<link, resumeVars, rpcVars>>

\* Every variable of either link holds what its module declares.
LinksTypeOK == ResumeTypeOK /\ RpcTypeOK

\* Bound: a run goes on from a mishap or from the last connection, and from the
\* last notification of one of the two sides.
Small == /\ link = "conversation" => mishaps = 0 \/ made < MaxConns
         /\ link = "server" => noteNo < MaxNotes \/ diagNo < MaxDiags

Symmetry == Permutations(Procs)
=============================================================================
