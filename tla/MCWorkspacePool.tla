--------------------------- MODULE MCWorkspacePool --------------------------
(* WorkspacePool for TLC.                                                    *)
EXTENDS WorkspacePool, TLC

\* The session is out: it neither calls nor holds a lease.
Still(s) == call[s] = Quiet("out") /\ pinned[s] = None /\ borrowed[s] = {}

KeysInUse == ({key[e] : e \in Entries} \cup {call[s].want : s \in Sessions}
              \cup {pinned[s] : s \in Sessions}) \ {None}
StartsSoFar == Cardinality({d \in Entries \X (1..MaxStarts) : d[2] <= starts[d[1]]})

\* Either one session works, over both keys and with every start; or all do, over
\* one key and with two starts.
Small == \/ \E s \in Sessions : \A t \in Sessions \ {s} : Still(t)
         \/ Cardinality(KeysInUse) <= 1 /\ StartsSoFar <= 2

Symmetry == Permutations(Sessions) \cup Permutations(Keys) \cup Permutations(Entries)
=============================================================================
