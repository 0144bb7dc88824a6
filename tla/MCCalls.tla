------------------------------- MODULE MCCalls ------------------------------
(* A tool call for TLC, in one run: on its way to the daemon through the     *)
(* proxy, at the file it edits, and in the queue of the change history.      *)
(* `place' is chosen in the initial state and the variables of the other     *)
(* places stay initial.                                                      *)
EXTENDS ServeProxy, EditGuards, HistoryQueue, TLC

VARIABLE place

\* Any statements of persistMeta may fail.
AnyStatements == SUBSET {"dropped", "overflow", "errors", "stamp"}

CallsInit == Init /\ EditInit /\ HistoryInit /\ place \in {"proxy", "file", "history"}
CallsNext ==
    /\ \/ place = "proxy" /\ Next /\ UNCHANGED <<editVars, historyVars>>
       \/ place = "file" /\ EditNext /\ UNCHANGED <<vars, historyVars>>
       \/ place = "history" /\ HistoryNext /\ UNCHANGED <<vars, editVars>>
    /\ UNCHANGED place
CallsSpec == CallsInit /\ [][CallsNext]_<<place, vars, editVars, historyVars>>

\* Every variable of each place holds what its module declares.
CallsTypeOK == TypeOK /\ EditTypeOK /\ HistoryTypeOK

\* Bound: two sessions work beside a write of another program, a tick of the clock
\* or the last text, but not beside all of them.
Works(s) == call[s] # NoCall \/ record[s] # NoVersion \/ reading[s] # NoVersion
Small == place = "file" =>
    \/ others = 0 \/ clock = 1 \/ lastText < MaxText
    \/ \A s, t \in Sessions : Works(s) /\ Works(t) => s = t

\* One set stands for the calls of the proxy and the sessions of the edits.
Symmetry == Permutations(Calls)
=============================================================================
