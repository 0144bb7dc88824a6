----------------------------- MODULE PathLocks -----------------------------
(***************************************************************************)
(* The per-path write locks of internal/tools: lockPath, the idle sweep    *)
(* that evicts entries of the lock table, and the two callers that take    *)
(* several locks at once (transaction_apply and edit_apply), which order   *)
(* them by lock key.                                                       *)
(*                                                                         *)
(* An entry of the table is a mutex with a time stamp.  A writer looks the *)
(* entry up, stamps it and then locks it, in three separate steps; the     *)
(* sweep checks the stamp, try-locks, checks again and deletes the key.    *)
(***************************************************************************)
EXTENDS Naturals, FiniteSets

CONSTANTS
    Writers,   \* tool calls that write files
    Paths,     \* spellings of file names a call may use
    LockKey,   \* the canonical key of a spelling (lockPathKey)
    Entries,   \* addresses a pathLockEntry can be allocated at
    Sweeper,   \* the sweep goroutine, as the owner of a mutex
    None       \* no entry, no owner

Keys == {LockKey[p] : p \in Paths}

ASSUME KeyAssumption == LockKey \in [Paths -> Nat]
ASSUME OwnerAssumption == /\ Sweeper \notin Writers
                          /\ None \notin Writers \cup Entries \cup Keys \cup {Sweeper}

VARIABLES
    table,       \* pathLocks: key -> entry
    lastUsed,    \* an entry's stamp, as the sweep reads it: "recent" or "idle"
    owner,       \* who holds an entry's mutex
    pc,          \* where a writer is in its call
    pending,     \* the paths a writer has still to lock
    ent,         \* the entry a writer loaded for a path
    sweep,       \* where the sweep is: "off" or inside one key's visit
    victimKey,   \* the key the sweep is visiting
    victimEntry, \* and its entry
    raced        \* history: an entry was deleted under a writer that had loaded it

writerVars == <<pc, pending, ent>>
victim     == <<victimKey, victimEntry>>
sweepVars  == <<sweep, victim>>
vars == <<table, lastUsed, owner, writerVars, sweepVars, raced>>

TypeOK ==
    /\ table \in [Keys -> Entries \cup {None}]
    /\ lastUsed \in [Entries -> {"recent", "idle"}]
    /\ owner \in [Entries -> Writers \cup {Sweeper, None}]
    /\ pc \in [Writers -> {"idle", "load", "stamp", "lock", "release"}]
    /\ pending \in [Writers -> SUBSET Paths]
    /\ ent \in [Writers -> [Paths -> Entries \cup {None}]]
    /\ sweep \in {"off", "tryLock", "recheck", "delete", "unlock"}
    /\ victimKey \in Keys \cup {None}
    /\ victimEntry \in Entries \cup {None}
    /\ sweep # "off" => victimKey # None /\ victimEntry # None
    /\ raced \in BOOLEAN

Init ==
    /\ table = [k \in Keys |-> None]
    /\ lastUsed = [e \in Entries |-> "idle"]
    /\ owner = [e \in Entries |-> None]
    /\ pc = [w \in Writers |-> "idle"]
    /\ pending = [w \in Writers |-> {}]
    /\ ent = [w \in Writers |-> [p \in Paths |-> None]]
    /\ sweep = "off"
    /\ victimKey = None
    /\ victimEntry = None
    /\ raced = FALSE

-----------------------------------------------------------------------------
(* What a state means.                                                     *)

\* Mutant: paths are locked in the order of their spellings.
NextBySpelling(w, p) == p \in pending[w] /\ \A q \in pending[w] : p =< q

\* The path a writer locks next: a pending one with the least lock key.
IsNext(w, p) ==
    /\ p \in pending[w]
    /\ \A q \in pending[w] : LockKey[p] =< LockKey[q]

\* The writer has loaded the entry of path p and not locked it yet.
Wants(w, p) == p \in pending[w] /\ ent[w][p] # None

\* The writer's unlock for path p is on its list: it holds that lock.
Holds(w, p) == p \notin pending[w] /\ ent[w][p] # None

\* Addresses in use; the garbage collector frees the others.
Live == {table[k] : k \in Keys} \cup {ent[w][p] : w \in Writers, p \in Paths}
        \cup {victimEntry}

SameFile(S) == \E p, q \in S : p # q /\ LockKey[p] = LockKey[q]

-----------------------------------------------------------------------------
(* A writer's call.                                                        *)

\* transaction_apply refuses two spellings of one file, so the paths it goes
\* on to lock have distinct keys.
StartTransaction(w, S) ==
    /\ pc[w] = "idle"
    /\ S # {}
    /\ ~ SameFile(S)
    /\ pending' = [pending EXCEPT ![w] = S]
    /\ pc' = [pc EXCEPT ![w] = "load"]
    /\ UNCHANGED <<table, lastUsed, owner, ent, sweepVars, raced>>

\* edit_apply keeps one spelling of each key instead.
StartWorkspaceEdit(w, S) ==
    /\ pc[w] = "idle"
    /\ SameFile(S)
    /\ \E D \in SUBSET S :
          /\ {LockKey[p] : p \in D} = {LockKey[p] : p \in S}
          /\ ~ SameFile(D)
          /\ pending' = [pending EXCEPT ![w] = D]
    /\ pc' = [pc EXCEPT ![w] = "load"]
    /\ UNCHANGED <<table, lastUsed, owner, ent, sweepVars, raced>>

\* Mutant: a plain Store replaces the entry another writer may have loaded.
StoreAlways(w, p) ==
    /\ pc[w] = "load"
    /\ IsNext(w, p)
    /\ \E e \in Entries \ Live :
          /\ table' = [table EXCEPT ![LockKey[p]] = e]
          /\ ent' = [ent EXCEPT ![w][p] = e]
          /\ lastUsed' = [lastUsed EXCEPT ![e] = "recent"]
    /\ pc' = [pc EXCEPT ![w] = "stamp"]
    /\ UNCHANGED <<owner, pending, sweepVars, raced>>

\* LoadOrStore: the entry of the key, or a new one whose stamp is now.
LoadOrStore(w, p) ==
    /\ pc[w] = "load"
    /\ IsNext(w, p)
    /\ \/ /\ table[LockKey[p]] # None
          /\ ent' = [ent EXCEPT ![w][p] = table[LockKey[p]]]
          /\ UNCHANGED <<table, lastUsed>>
       \/ /\ table[LockKey[p]] = None
          /\ \E e \in Entries \ Live :
                /\ table' = [table EXCEPT ![LockKey[p]] = e]
                /\ ent' = [ent EXCEPT ![w][p] = e]
                /\ lastUsed' = [lastUsed EXCEPT ![e] = "recent"]
    /\ pc' = [pc EXCEPT ![w] = "stamp"]
    /\ UNCHANGED <<owner, pending, sweepVars, raced>>

Stamp(w, p) ==
    /\ pc[w] = "stamp"
    /\ Wants(w, p)
    /\ lastUsed' = [lastUsed EXCEPT ![ent[w][p]] = "recent"]
    /\ pc' = [pc EXCEPT ![w] = "lock"]
    /\ UNCHANGED <<table, owner, pending, ent, sweepVars, raced>>

\* mu.Lock returns: on to the next path, or to the write itself.
Lock(w, p) ==
    /\ pc[w] = "lock"
    /\ Wants(w, p)
    /\ owner[ent[w][p]] = None
    /\ owner' = [owner EXCEPT ![ent[w][p]] = w]
    /\ pending' = [pending EXCEPT ![w] = @ \ {p}]
    /\ pc' = [pc EXCEPT ![w] = IF pending[w] = {p} THEN "release" ELSE "load"]
    /\ UNCHANGED <<table, lastUsed, ent, sweepVars, raced>>

\* One deferred unlock: stamp, then unlock.  transaction_apply releases in the
\* order it locked, edit_apply in the reverse order; any order is allowed here.
Release(w, p) ==
    /\ pc[w] = "release"
    /\ Holds(w, p)
    /\ lastUsed' = [lastUsed EXCEPT ![ent[w][p]] = "recent"]
    /\ owner' = [owner EXCEPT ![ent[w][p]] = None]
    /\ ent' = [ent EXCEPT ![w][p] = None]
    /\ pc' = [pc EXCEPT ![w] = IF \A q \in Paths \ {p} : ent[w][q] = None
                               THEN "idle" ELSE "release"]
    /\ UNCHANGED <<table, pending, sweepVars, raced>>

-----------------------------------------------------------------------------
(* The sweep.  Its "now" is read once, so no entry turns idle inside a      *)
(* visit; and an entry idles for an hour only while no writer is about to   *)
(* stamp it or to lock its free mutex.                                      *)

Age(e) ==
    /\ sweep = "off"
    /\ e \in {table[k] : k \in Keys}
    /\ lastUsed[e] = "recent"
    /\ \A w \in Writers, p \in Paths :
          Wants(w, p) /\ ent[w][p] = e => pc[w] = "lock" /\ owner[e] # None
    /\ lastUsed' = [lastUsed EXCEPT ![e] = "idle"]
    /\ UNCHANGED <<table, owner, writerVars, sweepVars, raced>>

\* Mutant: a key is visited whatever its entry.
SweepVisitAny(k) ==
    /\ sweep = "off"
    /\ sweep' = "tryLock"
    /\ victimKey' = k
    /\ victimEntry' = table[k]
    /\ UNCHANGED <<table, lastUsed, owner, writerVars, raced>>

SweepVisit(k) ==
    /\ sweep = "off"
    /\ table[k] # None
    /\ lastUsed[table[k]] = "idle"
    /\ sweep' = "tryLock"
    /\ victimKey' = k
    /\ victimEntry' = table[k]
    /\ UNCHANGED <<table, lastUsed, owner, writerVars, raced>>

SweepTryLock ==
    /\ sweep = "tryLock"
    /\ \/ /\ owner[victimEntry] = None
          /\ owner' = [owner EXCEPT ![victimEntry] = Sweeper]
          /\ sweep' = "recheck"
          /\ UNCHANGED victim
       \/ /\ owner[victimEntry] # None
          /\ sweep' = "off"
          /\ victimKey' = None
          /\ victimEntry' = None
          /\ UNCHANGED owner
    /\ UNCHANGED <<table, lastUsed, writerVars, raced>>

\* Mutant: the early return after the second check forgets to unlock.
SweepRecheckKeepsLock ==
    /\ sweep = "recheck"
    /\ IF lastUsed[victimEntry] = "idle"
       THEN sweep' = "delete" /\ UNCHANGED victim
       ELSE sweep' = "off" /\ victimKey' = None /\ victimEntry' = None
    /\ UNCHANGED <<table, lastUsed, owner, writerVars, raced>>

SweepRecheck ==
    /\ sweep = "recheck"
    /\ sweep' = IF lastUsed[victimEntry] = "idle" THEN "delete" ELSE "unlock"
    /\ UNCHANGED <<table, lastUsed, owner, writerVars, victim, raced>>

SweepDelete ==
    /\ sweep = "delete"
    /\ table' = [table EXCEPT ![victimKey] = None]
    /\ raced' = (raced \/ \E w \in Writers, p \in Paths :
                             Wants(w, p) /\ ent[w][p] = victimEntry)
    /\ sweep' = "unlock"
    /\ UNCHANGED <<lastUsed, owner, writerVars, victim>>

SweepUnlock ==
    /\ sweep = "unlock"
    /\ owner' = [owner EXCEPT ![victimEntry] = None]
    /\ sweep' = "off"
    /\ victimKey' = None
    /\ victimEntry' = None
    /\ UNCHANGED <<table, lastUsed, writerVars, raced>>

-----------------------------------------------------------------------------
Step(w, p) ==
    \/ LoadOrStore(w, p)
    \/ Stamp(w, p)
    \/ Lock(w, p)
    \/ Release(w, p)

Sweep ==
    \/ \E k \in Keys : SweepVisit(k)
    \/ SweepTryLock
    \/ SweepRecheck
    \/ SweepDelete
    \/ SweepUnlock

Next ==
    \/ \E w \in Writers, S \in SUBSET Paths :
          StartTransaction(w, S) \/ StartWorkspaceEdit(w, S)
    \/ \E w \in Writers, p \in Paths : Step(w, p)
    \/ \E e \in Entries : Age(e)
    \/ Sweep

Spec == Init /\ [][Next]_vars

\* A started call runs on; a sync.Mutex does not starve a waiter (Go's
\* starvation mode hands the mutex to it); a visit the sweep began is finished.
Fairness ==
    /\ \A w \in Writers :
          /\ WF_vars(\E p \in Paths : LoadOrStore(w, p) \/ Stamp(w, p))
          /\ SF_vars(\E p \in Paths : Lock(w, p))
          /\ WF_vars(\E p \in Paths : Release(w, p))
    /\ WF_vars(SweepTryLock \/ SweepRecheck \/ SweepDelete \/ SweepUnlock)

FairSpec == Spec /\ Fairness

-----------------------------------------------------------------------------
(* Properties.                                                             *)

\* Two calls that both hold a lock for one file: a lost update can follow.
Conflict(w1, w2) ==
    /\ w1 # w2
    /\ \E p, q \in Paths : /\ LockKey[p] = LockKey[q]
                           /\ Holds(w1, p)
                           /\ Holds(w2, q)

\* What README.md:27 and the comment on pathLocks promise: writes of one file
\* are serialised across every session.
MutualExclusion == \A w1, w2 \in Writers : ~ Conflict(w1, w2)

\* The promise as the code keeps it: writers of one file exclude each other as
\* long as no sweep deleted an entry that a writer had looked up and not locked.
MutualExclusionUnlessRaced == ~ raced => MutualExclusion

\* A key leaves the table only while nobody holds its entry.
HeldNeverEvicted ==
    [][ \A k \in Keys : table[k] # None /\ table'[k] # table[k] =>
          ~ \E w \in Writers, p \in Paths : Holds(w, p) /\ ent[w][p] = table[k] ]_vars

\* Writers never wait for each other in a circle, whatever spellings of the same
\* files their calls name: some member of any set of writers is not waiting for
\* a mutex that a member of the set holds.
NoWaitCycle ==
    \A S \in SUBSET Writers : S # {} =>
        \E w \in S : \A p \in Paths :
            Wants(w, p) => ~ (pc[w] = "lock" /\ owner[ent[w][p]] \in S)

\* Locking by key order, one spelling per key, cannot deadlock: every call that
\* started gets all its locks and ends.
EveryCallEnds == \A w \in Writers : pc[w] # "idle" ~> pc[w] = "idle"
=============================================================================
