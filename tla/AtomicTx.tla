----------------------------- MODULE AtomicTx -----------------------------
(***************************************************************************)
(* What transaction_apply promises: the files a transaction names get its  *)
(* edits all at once or not at all, transactions that are underway name    *)
(* different files, and a crash only decides that some of them never       *)
(* happened.                                                               *)
(***************************************************************************)
CONSTANTS Txs, Files

VARIABLES
    data,     \* the edits each file carries, as a reader may rely on them
    state,    \* "idle", "live", "committed" or "aborted"
    named     \* the files a transaction names

avars == <<data, state, named>>

AInit ==
    /\ data = [f \in Files |-> {}]
    /\ state = [t \in Txs |-> "idle"]
    /\ named = [t \in Txs |-> {}]

ABegin(t, S) ==
    /\ state[t] = "idle"
    /\ S # {}
    /\ \A u \in Txs : state[u] = "live" => named[u] \cap S = {}
    /\ state' = [state EXCEPT ![t] = "live"]
    /\ named' = [named EXCEPT ![t] = S]
    /\ UNCHANGED data

ACommit(t) ==
    /\ state[t] = "live"
    /\ state' = [state EXCEPT ![t] = "committed"]
    /\ data' = [f \in Files |-> IF f \in named[t] THEN data[f] \cup {t} ELSE data[f]]
    /\ UNCHANGED named

\* One refused transaction, or all those a crash took down.
AAbort(T) ==
    /\ T # {}
    /\ \A t \in T : state[t] = "live"
    /\ state' = [t \in Txs |-> IF t \in T THEN "aborted" ELSE state[t]]
    /\ UNCHANGED <<data, named>>

ANext ==
    \/ \E t \in Txs, S \in SUBSET Files : ABegin(t, S)
    \/ \E t \in Txs : ACommit(t)
    \/ \E T \in SUBSET Txs : AAbort(T)

ASpec == AInit /\ [][ANext]_avars
=============================================================================
