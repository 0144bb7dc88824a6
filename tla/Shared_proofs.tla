---------------------------- MODULE Shared_proofs ---------------------------
(***************************************************************************)
(* Proofs about what the sessions of one daemon share, for every value of  *)
(* the constants.  About PathLocks: type correctness, mutual exclusion as  *)
(* long as no eviction raced with a writer, that a held entry is never     *)
(* evicted, and that writers do not wait for each other in a circle.       *)
(* About WatchHub: type correctness, that a subscriber's watch delivers,   *)
(* that no OS watcher leaks, and that a failure reaches everybody.         *)
(***************************************************************************)
EXTENDS MCShared, FiniteSetTheorems, WellFoundedInduction, TLAPS

(***************************************************************************)
(* The inductive invariant.  LoadedInv ties a writer's control point to    *)
(* what it has loaded; HolderInv says the mutex of every held entry is the *)
(* holder's, and that no entry is held for two paths; SweepInv that the    *)
(* sweep owns its victim's mutex and that the victim is still in the       *)
(* table; TableInv that, without a race, whatever a writer loaded is still *)
(* the table's entry of that key.                                          *)
(***************************************************************************)
LoadedInv ==
    /\ \A w \in Writers, p \in Paths : Wants(w, p) => pc[w] \in {"stamp", "lock"}
    /\ \A w \in Writers, p, q \in Paths : Wants(w, p) /\ Wants(w, q) => p = q
    /\ \A w \in Writers, p \in Paths : pc[w] = "idle" => ent[w][p] = None

HolderInv ==
    /\ \A w \in Writers, p \in Paths : Holds(w, p) => owner[ent[w][p]] = w
    /\ \A w \in Writers, p, q \in Paths :
          Holds(w, p) /\ Holds(w, q) /\ p # q => ent[w][p] # ent[w][q]

SweepInv ==
    /\ sweep \in {"recheck", "delete", "unlock"} => owner[victimEntry] = Sweeper
    /\ sweep \in {"tryLock", "recheck", "delete"} => table[victimKey] = victimEntry

TableInv ==
    ~ raced => \A w \in Writers, p \in Paths :
                  ent[w][p] # None => table[LockKey[p]] = ent[w][p]

IInv == TypeOK /\ LoadedInv /\ HolderInv /\ SweepInv /\ TableInv

-----------------------------------------------------------------------------
(* The variables keep their types: the table, the mutexes, the writers'    *)
(* progress and the sweep's visit stay well formed in every step.          *)
LEMMA InitType == Init => TypeOK
<1> SUFFICES ASSUME Init PROVE TypeOK
  OBVIOUS
<1>1. /\ pending \in [Writers -> SUBSET Paths]
      /\ ent \in [Writers -> [Paths -> Entries \cup {None}]]
  BY DEF Init
<1>2. /\ table \in [Keys -> Entries \cup {None}]
      /\ lastUsed \in [Entries -> {"recent", "idle"}]
      /\ owner \in [Entries -> Writers \cup {Sweeper, None}]
      /\ pc \in [Writers -> {"idle", "load", "stamp", "lock", "release"}]
  BY DEF Init
<1> QED
  BY <1>1, <1>2 DEF Init, TypeOK

LEMMA NextType == TypeOK /\ [Next]_vars => TypeOK'
<1> SUFFICES ASSUME TypeOK, [Next]_vars PROVE TypeOK'
  OBVIOUS
<1> USE KeyAssumption, OwnerAssumption DEF TypeOK, writerVars, sweepVars, victim
<1>1. ASSUME NEW w \in Writers, NEW S \in SUBSET Paths, StartTransaction(w, S)
      PROVE  TypeOK'
  BY <1>1 DEF StartTransaction
<1>2. ASSUME NEW w \in Writers, NEW S \in SUBSET Paths, StartWorkspaceEdit(w, S)
      PROVE  TypeOK'
  BY <1>2 DEF StartWorkspaceEdit
<1>3. ASSUME NEW w \in Writers, NEW p \in Paths, LoadOrStore(w, p)
      PROVE  TypeOK'
  <2>1. LockKey[p] \in Keys
    BY DEF Keys
  <2>2. PICK e \in Entries : /\ ent' = [ent EXCEPT ![w][p] = e]
                             /\ table' = [table EXCEPT ![LockKey[p]] = e]
                             /\ lastUsed' \in [Entries -> {"recent", "idle"}]
    BY <1>3, <2>1 DEF LoadOrStore
  <2>3. ent' \in [Writers -> [Paths -> Entries \cup {None}]]
    BY <2>2
  <2> QED
    BY <1>3, <2>1, <2>2, <2>3 DEF LoadOrStore
<1>4. ASSUME NEW w \in Writers, NEW p \in Paths, Stamp(w, p)
      PROVE  TypeOK'
  BY <1>4 DEF Stamp, Wants
<1>5. ASSUME NEW w \in Writers, NEW p \in Paths, Lock(w, p)
      PROVE  TypeOK'
  BY <1>5 DEF Lock, Wants
<1>6. ASSUME NEW w \in Writers, NEW p \in Paths, Release(w, p)
      PROVE  TypeOK'
  BY <1>6 DEF Release, Holds
<1>7. ASSUME NEW e \in Entries, Age(e)
      PROVE  TypeOK'
  BY <1>7 DEF Age
<1>8. ASSUME NEW k \in Keys, SweepVisit(k)
      PROVE  TypeOK'
  BY <1>8 DEF SweepVisit
<1>9. ASSUME SweepTryLock PROVE TypeOK'
  BY <1>9 DEF SweepTryLock
<1>10. ASSUME SweepRecheck PROVE TypeOK'
  BY <1>10 DEF SweepRecheck
<1>11. ASSUME SweepDelete PROVE TypeOK'
  BY <1>11 DEF SweepDelete
<1>12. ASSUME SweepUnlock PROVE TypeOK'
  BY <1>12 DEF SweepUnlock
<1>13. CASE UNCHANGED vars
  BY <1>13 DEF vars
<1> QED
  BY <1>1, <1>2, <1>3, <1>4, <1>5, <1>6, <1>7, <1>8, <1>9, <1>10, <1>11, <1>12,
     <1>13 DEF Next, Step, Sweep

THEOREM TypeCorrect == Spec => []TypeOK
  BY InitType, NextType, PTL DEF Spec

-----------------------------------------------------------------------------
(* What the steps of a writer do to ent, pending and pc, entry by entry.    *)
LEMMA LoadEffect ==
  ASSUME TypeOK, NEW w \in Writers, NEW p \in Paths, LoadOrStore(w, p)
  PROVE  \E e \in Entries :
            /\ table' = [table EXCEPT ![LockKey[p]] = e]
            /\ table[LockKey[p]] \in {e, None}
            /\ \A v \in Writers, q \in Paths :
                  ent'[v][q] = IF v = w /\ q = p THEN e ELSE ent[v][q]
<1> USE KeyAssumption, OwnerAssumption DEF TypeOK
<1>1. LockKey[p] \in Keys
  BY DEF Keys
<1>2. PICK e \in Entries : /\ ent' = [ent EXCEPT ![w][p] = e]
                           /\ table' = [table EXCEPT ![LockKey[p]] = e]
                           /\ table[LockKey[p]] \in {e, None}
  BY <1>1 DEF LoadOrStore
<1>3. \A v \in Writers, q \in Paths :
         ent'[v][q] = IF v = w /\ q = p THEN e ELSE ent[v][q]
  BY <1>2
<1> QED
  BY <1>2, <1>3

LEMMA ReleaseEffect ==
  ASSUME TypeOK, NEW w \in Writers, NEW p \in Paths, Release(w, p)
  PROVE  \A v \in Writers, q \in Paths :
            ent'[v][q] = IF v = w /\ q = p THEN None ELSE ent[v][q]
  BY DEF TypeOK, Release

-----------------------------------------------------------------------------
(* The inductive step, one lemma per part of the invariant: every action    *)
(* keeps the part when the whole invariant held before.                     *)
LEMMA NextLoaded == IInv /\ [Next]_vars => LoadedInv'
<1> SUFFICES ASSUME IInv, [Next]_vars PROVE LoadedInv'
  OBVIOUS
<1> USE OwnerAssumption DEF LoadedInv, Wants, writerVars, sweepVars, victim
<1>0. TypeOK /\ LoadedInv
  BY DEF IInv
<1>1. ASSUME NEW w \in Writers, NEW S \in SUBSET Paths,
             StartTransaction(w, S) \/ StartWorkspaceEdit(w, S)
      PROVE  LoadedInv'
  <2>1. UNCHANGED ent /\ pc[w] = "idle"
    BY <1>1 DEF StartTransaction, StartWorkspaceEdit
  <2>2. pc' = [pc EXCEPT ![w] = "load"]
    BY <1>1 DEF StartTransaction, StartWorkspaceEdit
  <2>3. \A v \in Writers : pc'[v] = IF v = w THEN "load" ELSE pc[v]
    BY <1>0, <2>2 DEF TypeOK
  <2>4. \A v \in Writers \ {w} : pending'[v] = pending[v]
    BY <1>0, <1>1 DEF TypeOK, StartTransaction, StartWorkspaceEdit
  <2> QED
    BY <1>0, <2>1, <2>3, <2>4
<1>2. ASSUME NEW w \in Writers, NEW p \in Paths, LoadOrStore(w, p)
      PROVE  LoadedInv'
  BY <1>0, <1>2, LoadEffect DEF TypeOK, LoadOrStore, IsNext
<1>3. ASSUME NEW w \in Writers, NEW p \in Paths, Stamp(w, p)
      PROVE  LoadedInv'
  BY <1>0, <1>3 DEF TypeOK, Stamp
<1>4. ASSUME NEW w \in Writers, NEW p \in Paths, Lock(w, p)
      PROVE  LoadedInv'
  BY <1>0, <1>4 DEF TypeOK, Lock
<1>5. ASSUME NEW w \in Writers, NEW p \in Paths, Release(w, p)
      PROVE  LoadedInv'
  BY <1>0, <1>5, ReleaseEffect DEF TypeOK, Release
<1>6. ASSUME \/ UNCHANGED vars
             \/ \E e \in Entries : Age(e)
             \/ Sweep
      PROVE  LoadedInv'
  <2>1. UNCHANGED writerVars
    BY <1>6 DEF vars, Age, Sweep, SweepVisit, SweepTryLock, SweepRecheck,
                SweepDelete, SweepUnlock
  <2> QED
    BY <1>0, <2>1
<1> QED
  BY <1>1, <1>2, <1>3, <1>4, <1>5, <1>6 DEF Next, Step

LEMMA NextHolder == IInv /\ [Next]_vars => HolderInv'
<1> SUFFICES ASSUME IInv, [Next]_vars PROVE HolderInv'
  OBVIOUS
<1> USE OwnerAssumption DEF HolderInv, Holds, writerVars, sweepVars, victim
<1>0. TypeOK /\ LoadedInv /\ HolderInv /\ SweepInv
  BY DEF IInv
<1>1. ASSUME NEW w \in Writers, NEW S \in SUBSET Paths,
             StartTransaction(w, S) \/ StartWorkspaceEdit(w, S)
      PROVE  HolderInv'
  <2>1. UNCHANGED <<ent, owner>>
    BY <1>1 DEF StartTransaction, StartWorkspaceEdit
  <2>2. \A q \in Paths : ent[w][q] = None
    BY <1>0, <1>1 DEF LoadedInv, StartTransaction, StartWorkspaceEdit
  <2>3. \A v \in Writers : v # w => pending'[v] = pending[v]
    BY <1>0, <1>1 DEF TypeOK, StartTransaction, StartWorkspaceEdit
  <2> QED
    BY <1>0, <2>1, <2>2, <2>3
<1>2. ASSUME NEW w \in Writers, NEW p \in Paths, LoadOrStore(w, p)
      PROVE  HolderInv'
  <2>1. UNCHANGED <<owner, pending>> /\ p \in pending[w]
    BY <1>2 DEF LoadOrStore, IsNext
  <2>2. \A v \in Writers, q \in Paths :
           Holds(v, q)' => Holds(v, q) /\ ent'[v][q] = ent[v][q]
    BY <1>0, <1>2, <2>1, LoadEffect
  <2> QED
    BY <1>0, <2>1, <2>2
<1>3. ASSUME NEW w \in Writers, NEW p \in Paths, Stamp(w, p)
      PROVE  HolderInv'
  BY <1>0, <1>3 DEF TypeOK, Stamp
<1>4. ASSUME NEW w \in Writers, NEW p \in Paths, Lock(w, p)
      PROVE  HolderInv'
  BY <1>0, <1>4 DEF TypeOK, Lock, Wants
<1>5. ASSUME NEW w \in Writers, NEW p \in Paths, Release(w, p)
      PROVE  HolderInv'
  BY <1>0, <1>5, ReleaseEffect DEF TypeOK, Release
<1>6. ASSUME NEW e \in Entries, Age(e)
      PROVE  HolderInv'
  BY <1>0, <1>6 DEF Age
<1>7. ASSUME NEW k \in Keys, SweepVisit(k)
      PROVE  HolderInv'
  BY <1>0, <1>7 DEF SweepVisit
<1>8. ASSUME SweepTryLock PROVE HolderInv'
  BY <1>0, <1>8 DEF TypeOK, SweepTryLock
<1>9. ASSUME SweepRecheck \/ SweepDelete PROVE HolderInv'
  BY <1>0, <1>9 DEF SweepRecheck, SweepDelete
<1>10. ASSUME SweepUnlock PROVE HolderInv'
  BY <1>0, <1>10 DEF TypeOK, SweepInv, SweepUnlock
<1>11. CASE UNCHANGED vars
  BY <1>0, <1>11 DEF vars
<1> QED
  BY <1>1, <1>2, <1>3, <1>4, <1>5, <1>6, <1>7, <1>8, <1>9, <1>10, <1>11
     DEF Next, Step, Sweep

LEMMA NextSweep == IInv /\ [Next]_vars => SweepInv'
<1> SUFFICES ASSUME IInv, [Next]_vars PROVE SweepInv'
  OBVIOUS
<1> USE OwnerAssumption DEF SweepInv, writerVars, sweepVars, victim
<1>0. TypeOK /\ HolderInv /\ SweepInv
  BY DEF IInv
<1>1. ASSUME NEW w \in Writers, NEW S \in SUBSET Paths,
             StartTransaction(w, S) \/ StartWorkspaceEdit(w, S)
      PROVE  SweepInv'
  BY <1>0, <1>1 DEF StartTransaction, StartWorkspaceEdit
<1>2. ASSUME NEW w \in Writers, NEW p \in Paths, LoadOrStore(w, p)
      PROVE  SweepInv'
  BY <1>0, <1>2, LoadEffect DEF TypeOK, LoadOrStore
<1>3. ASSUME NEW w \in Writers, NEW p \in Paths, Stamp(w, p)
      PROVE  SweepInv'
  BY <1>0, <1>3 DEF Stamp
<1>4. ASSUME NEW w \in Writers, NEW p \in Paths, Lock(w, p)
      PROVE  SweepInv'
  BY <1>0, <1>4 DEF TypeOK, Lock, Wants
<1>5. ASSUME NEW w \in Writers, NEW p \in Paths, Release(w, p)
      PROVE  SweepInv'
  BY <1>0, <1>5 DEF TypeOK, Release, HolderInv
<1>6. ASSUME NEW e \in Entries, Age(e)
      PROVE  SweepInv'
  BY <1>0, <1>6 DEF Age
<1>7. ASSUME NEW k \in Keys, SweepVisit(k)
      PROVE  SweepInv'
  BY <1>0, <1>7 DEF SweepVisit
<1>8. ASSUME SweepTryLock PROVE SweepInv'
  BY <1>0, <1>8 DEF TypeOK, SweepTryLock
<1>9. ASSUME SweepRecheck \/ SweepDelete \/ SweepUnlock PROVE SweepInv'
  BY <1>0, <1>9 DEF SweepRecheck, SweepDelete, SweepUnlock
<1>10. CASE UNCHANGED vars
  BY <1>0, <1>10 DEF vars
<1> QED
  BY <1>1, <1>2, <1>3, <1>4, <1>5, <1>6, <1>7, <1>8, <1>9, <1>10
     DEF Next, Step, Sweep

LEMMA NextTable == IInv /\ [Next]_vars => TableInv'
<1> SUFFICES ASSUME IInv, [Next]_vars PROVE TableInv'
  OBVIOUS
<1> USE OwnerAssumption DEF TableInv, writerVars, sweepVars, victim
<1>0. TypeOK /\ LoadedInv /\ HolderInv /\ SweepInv /\ TableInv
  BY DEF IInv
<1>k. \A p \in Paths : LockKey[p] \in Keys
  BY DEF Keys
<1>1. ASSUME NEW w \in Writers, NEW S \in SUBSET Paths,
             StartTransaction(w, S) \/ StartWorkspaceEdit(w, S)
      PROVE  TableInv'
  BY <1>0, <1>1 DEF StartTransaction, StartWorkspaceEdit
<1>2. ASSUME NEW w \in Writers, NEW p \in Paths, LoadOrStore(w, p)
      PROVE  TableInv'
  BY <1>0, <1>k, <1>2, LoadEffect DEF TypeOK, LoadOrStore
<1>3. ASSUME NEW w \in Writers, NEW p \in Paths, Stamp(w, p) \/ Lock(w, p)
      PROVE  TableInv'
  BY <1>0, <1>3 DEF Stamp, Lock
<1>4. ASSUME NEW w \in Writers, NEW p \in Paths, Release(w, p)
      PROVE  TableInv'
  BY <1>0, <1>4, ReleaseEffect DEF Release
<1>5. ASSUME NEW e \in Entries, Age(e)
      PROVE  TableInv'
  BY <1>0, <1>5 DEF Age
<1>6. ASSUME SweepDelete PROVE TableInv'
  <2> SUFFICES ASSUME ~ raced', NEW w \in Writers, NEW p \in Paths,
                      ent[w][p] # None
               PROVE  table'[LockKey[p]] = ent[w][p]
    BY <1>6 DEF SweepDelete
  <2>1. ~ (Wants(w, p) /\ ent[w][p] = victimEntry)
    BY <1>0, <1>6 DEF SweepDelete, TypeOK
  <2>2. ~ raced /\ table[LockKey[p]] = ent[w][p]
    BY <1>0, <1>6 DEF SweepDelete, TypeOK
  <2>3. ent[w][p] # victimEntry
    BY <1>0, <1>6, <2>1 DEF SweepDelete, SweepInv, HolderInv, Holds, Wants
  <2>4. LockKey[p] # victimKey
    BY <1>0, <1>6, <2>2, <2>3 DEF SweepDelete, SweepInv
  <2> QED
    BY <1>0, <1>k, <1>6, <2>2, <2>4 DEF SweepDelete, TypeOK
<1>7. ASSUME NEW k \in Keys, SweepVisit(k)
      PROVE  TableInv'
  BY <1>0, <1>7 DEF SweepVisit
<1>8. ASSUME SweepTryLock \/ SweepRecheck \/ SweepUnlock PROVE TableInv'
  BY <1>0, <1>8 DEF SweepTryLock, SweepRecheck, SweepUnlock
<1>9. CASE UNCHANGED vars
  BY <1>0, <1>9 DEF vars
<1> QED
  BY <1>1, <1>2, <1>3, <1>4, <1>5, <1>6, <1>7, <1>8, <1>9 DEF Next, Step, Sweep

LEMMA InitIInv == Init => IInv
  BY InitType, OwnerAssumption
     DEF Init, IInv, LoadedInv, HolderInv, SweepInv, TableInv, Wants, Holds

LEMMA NextIInv == IInv /\ [Next]_vars => IInv'
  BY NextType, NextLoaded, NextHolder, NextSweep, NextTable DEF IInv

LEMMA Inductive == Spec => []IInv
  BY InitIInv, NextIInv, PTL DEF Spec

-----------------------------------------------------------------------------
(* Writers of one file exclude each other in every state of every behaviour *)
(* in which no sweep deleted an entry between a writer's LoadOrStore and    *)
(* its Lock (lockPath, sweepPathLocks).                                     *)
THEOREM ExclusionUnlessRaced == Spec => []MutualExclusionUnlessRaced
<1>1. IInv => MutualExclusionUnlessRaced
  <2> SUFFICES ASSUME IInv, ~ raced,
                      NEW w1 \in Writers, NEW w2 \in Writers,
                      NEW p \in Paths, NEW q \in Paths, LockKey[p] = LockKey[q],
                      Holds(w1, p), Holds(w2, q)
               PROVE  w1 = w2
    BY DEF MutualExclusionUnlessRaced, MutualExclusion, Conflict
  <2>1. ent[w1][p] = ent[w2][q]
    BY DEF IInv, TableInv, Holds
  <2> QED
    BY <2>1 DEF IInv, HolderInv
<1> QED
  BY Inductive, <1>1, PTL

(* The sweep never takes a key out of the table while a writer holds the    *)
(* entry's mutex, whatever the interleaving (sweepPathLocks, TryLock).       *)
THEOREM HeldStays == Spec => HeldNeverEvicted
<1>1. IInv /\ [Next]_vars =>
        [\A k \in Keys : table[k] # None /\ table'[k] # table[k] =>
           ~ \E w \in Writers, p \in Paths : Holds(w, p) /\ ent[w][p] = table[k]]_vars
  <2> SUFFICES ASSUME IInv, [Next]_vars, NEW k \in Keys,
                      table[k] # None, table'[k] # table[k],
                      NEW w \in Writers, NEW p \in Paths, Holds(w, p),
                      ent[w][p] = table[k]
               PROVE  FALSE
    OBVIOUS
  <2>1. SweepDelete
    <3>1. ASSUME NEW v \in Writers, NEW q \in Paths, LoadOrStore(v, q)
          PROVE  FALSE
      BY <3>1, LoadEffect DEF IInv, TypeOK
    <3> QED
      BY <3>1 DEF Next, Step, Sweep, vars, StartTransaction, StartWorkspaceEdit,
         Stamp, Lock, Release, Age, SweepVisit, SweepTryLock, SweepRecheck,
         SweepUnlock
  <2>2. k = victimKey /\ table[k] = victimEntry
    BY <2>1 DEF SweepDelete, IInv, TypeOK, SweepInv
  <2> QED
    BY <2>1, <2>2, OwnerAssumption DEF SweepDelete, IInv, SweepInv, HolderInv
<1> QED
  BY Inductive, <1>1, PTL DEF Spec, HeldNeverEvicted
-----------------------------------------------------------------------------
(***************************************************************************)
(* No circle of waiting writers.  An entry belongs to one key for as long  *)
(* as anybody has it (KeyedInv), a mutex that a writer owns is one on its  *)
(* list (OwnedInv), and what a writer waits for has a greater key than     *)
(* what it holds (OrderInv): along a chain of waiting writers the keys     *)
(* grow.                                                                   *)
(***************************************************************************)
KeyedInv ==
    /\ \A k, j \in Keys : table[k] # None /\ table[k] = table[j] => k = j
    /\ \A k \in Keys, w \in Writers, p \in Paths :
          ent[w][p] # None /\ ent[w][p] = table[k] => LockKey[p] = k
    /\ \A v, w \in Writers, p, q \in Paths :
          ent[w][p] # None /\ ent[w][p] = ent[v][q] => LockKey[p] = LockKey[q]

OwnedInv ==
    \A e \in Entries : owner[e] \in Writers =>
        \E p \in Paths : Holds(owner[e], p) /\ ent[owner[e]][p] = e

OrderInv ==
    /\ \A w \in Writers : ~ SameFile(pending[w])
    /\ \A w \in Writers, p \in Paths : Wants(w, p) => IsNext(w, p)
    /\ \A w \in Writers, p, q \in Paths :
          Holds(w, p) /\ q \in pending[w] => LockKey[p] < LockKey[q]

\* An allocated entry is new to everybody.
LEMMA LoadIsKeyed ==
  ASSUME TypeOK, NEW w \in Writers, NEW p \in Paths, LoadOrStore(w, p)
  PROVE  \E e \in Entries :
            /\ \A k \in Keys : table'[k] = IF k = LockKey[p] THEN e ELSE table[k]
            /\ \A v \in Writers, q \in Paths :
                  ent'[v][q] = IF v = w /\ q = p THEN e ELSE ent[v][q]
            /\ \/ table[LockKey[p]] = e
               \/ /\ \A k \in Keys : table[k] # e
                  /\ \A v \in Writers, q \in Paths : ent[v][q] # e
<1>1. PICK e \in Entries :
         /\ table' = [table EXCEPT ![LockKey[p]] = e]
         /\ ent' = [ent EXCEPT ![w][p] = e]
         /\ table[LockKey[p]] = e \/ e \notin Live
  <2>1. LockKey[p] \in Keys
    BY DEF Keys
  <2> QED
    BY <2>1, OwnerAssumption DEF TypeOK, LoadOrStore
<1>2. \A k \in Keys : table'[k] = IF k = LockKey[p] THEN e ELSE table[k]
  BY <1>1 DEF TypeOK
<1>3. \A v \in Writers, q \in Paths : ent'[v][q] = IF v = w /\ q = p THEN e ELSE ent[v][q]
  BY <1>1 DEF TypeOK
<1>4. e \notin Live => /\ \A k \in Keys : table[k] # e
                       /\ \A v \in Writers, q \in Paths : ent[v][q] # e
  BY DEF Live
<1> QED
  BY <1>1, <1>2, <1>3, <1>4

LEMMA NextKeyed == TypeOK /\ KeyedInv /\ [Next]_vars => KeyedInv'
<1> SUFFICES ASSUME TypeOK, KeyedInv, [Next]_vars PROVE KeyedInv'
  OBVIOUS
<1> USE OwnerAssumption DEF KeyedInv, writerVars, sweepVars, victim
<1>k. \A p \in Paths : LockKey[p] \in Keys
  BY DEF Keys
<1>1. ASSUME NEW w \in Writers, NEW p \in Paths, LoadOrStore(w, p) PROVE KeyedInv'
  <2>1. PICK e \in Entries :
            /\ \A k \in Keys : table'[k] = IF k = LockKey[p] THEN e ELSE table[k]
            /\ \A v \in Writers, q \in Paths :
                  ent'[v][q] = IF v = w /\ q = p THEN e ELSE ent[v][q]
            /\ \/ table[LockKey[p]] = e
               \/ /\ \A k \in Keys : table[k] # e
                  /\ \A v \in Writers, q \in Paths : ent[v][q] # e
    BY <1>1, LoadIsKeyed
  <2>2. CASE table[LockKey[p]] = e
    BY <1>k, <2>1, <2>2
  <2>3. CASE /\ \A k \in Keys : table[k] # e
             /\ \A v \in Writers, q \in Paths : ent[v][q] # e
    BY <1>k, <2>1, <2>3
  <2> QED
    BY <2>1, <2>2, <2>3
<1>2. ASSUME NEW w \in Writers, NEW p \in Paths, Release(w, p) PROVE KeyedInv'
  <2>1. UNCHANGED table
    BY <1>2 DEF Release
  <2> QED
    BY <1>2, <2>1, ReleaseEffect
<1>3. ASSUME SweepDelete PROVE KeyedInv'
  <2>1. UNCHANGED ent /\ \A k \in Keys : table'[k] \in {table[k], None}
    BY <1>3 DEF SweepDelete, TypeOK
  <2> QED
    BY <2>1
<1>4. ASSUME UNCHANGED <<table, ent>> PROVE KeyedInv'
  BY <1>4
<1> QED
  BY <1>1, <1>2, <1>3, <1>4
     DEF Next, Step, Sweep, StartTransaction, StartWorkspaceEdit, Stamp, Lock, Age,
         SweepVisit, SweepTryLock, SweepRecheck, SweepUnlock, vars

LEMMA NextOwned == IInv /\ OwnedInv /\ [Next]_vars => OwnedInv'
<1> SUFFICES ASSUME IInv, OwnedInv, [Next]_vars PROVE OwnedInv'
  OBVIOUS
<1> USE OwnerAssumption DEF OwnedInv, Holds, writerVars, sweepVars, victim
<1>0. TypeOK /\ LoadedInv /\ SweepInv
  BY DEF IInv
<1>1. ASSUME NEW w \in Writers, NEW S \in SUBSET Paths,
             StartTransaction(w, S) \/ StartWorkspaceEdit(w, S)
      PROVE  OwnedInv'
  <2>1. UNCHANGED <<ent, owner>>
    BY <1>1 DEF StartTransaction, StartWorkspaceEdit
  <2>2. \A q \in Paths : ent[w][q] = None
    BY <1>0, <1>1 DEF LoadedInv, StartTransaction, StartWorkspaceEdit
  <2>3. \A v \in Writers : v # w => pending'[v] = pending[v]
    BY <1>0, <1>1 DEF TypeOK, StartTransaction, StartWorkspaceEdit
  <2> QED
    BY <2>1, <2>2, <2>3
<1>2. ASSUME NEW w \in Writers, NEW p \in Paths, LoadOrStore(w, p) PROVE OwnedInv'
  <2>1. UNCHANGED <<owner, pending>> /\ p \in pending[w]
    BY <1>2 DEF LoadOrStore, IsNext
  <2>2. \A v \in Writers, q \in Paths : Holds(v, q) => ent'[v][q] = ent[v][q]
    BY <1>0, <1>2, <2>1, LoadEffect
  <2> QED
    BY <2>1, <2>2
<1>3. ASSUME NEW w \in Writers, NEW p \in Paths, Lock(w, p) PROVE OwnedInv'
  <2>1. Wants(w, p) /\ UNCHANGED ent
    BY <1>3 DEF Lock
  <2>2. ent[w][p] \in Entries
    <3>1. ent[w] \in [Paths -> Entries \cup {None}]
      BY <1>0 DEF TypeOK
    <3> QED
      BY <2>1, <3>1 DEF Wants
  <2>3. \A e \in Entries : owner'[e] = IF e = ent[w][p] THEN w ELSE owner[e]
    BY <1>0, <1>3, <2>2 DEF TypeOK, Lock
  <2>4. \A v \in Writers : pending'[v] = IF v = w THEN pending[v] \ {p} ELSE pending[v]
    BY <1>0, <1>3 DEF TypeOK, Lock
  <2> SUFFICES ASSUME NEW e \in Entries, owner'[e] \in Writers
               PROVE  \E q \in Paths :
                         (q \notin pending'[owner'[e]] /\ ent'[owner'[e]][q] # None)
                         /\ ent'[owner'[e]][q] = e
    OBVIOUS
  <2>5. CASE e = ent[w][p]
    BY <2>1, <2>2, <2>3, <2>4, <2>5 DEF Wants
  <2>6. CASE e # ent[w][p]
    <3>1. owner'[e] = owner[e]
      BY <2>3, <2>6
    <3>2. PICK q \in Paths : Holds(owner[e], q) /\ ent[owner[e]][q] = e
      BY <3>1
    <3>3. q \notin pending'[owner[e]]
      BY <2>4, <3>1, <3>2
    <3> QED
      BY <2>1, <3>1, <3>2, <3>3
  <2> QED
    BY <2>5, <2>6
<1>4. ASSUME NEW w \in Writers, NEW p \in Paths, Release(w, p) PROVE OwnedInv'
  <2>1. /\ UNCHANGED pending
        /\ \A e \in Entries : owner'[e] = IF e = ent[w][p] THEN None ELSE owner[e]
    BY <1>0, <1>4 DEF TypeOK, Release
  <2> QED
    BY <1>0, <1>4, <2>1, ReleaseEffect
<1>5. ASSUME SweepTryLock \/ SweepUnlock PROVE OwnedInv'
  <2>1. /\ UNCHANGED <<pending, ent>>
        /\ \A e \in Entries : owner'[e] \in Writers => owner'[e] = owner[e]
    BY <1>0, <1>5 DEF TypeOK, SweepTryLock, SweepUnlock
  <2> QED
    BY <2>1
<1>6. ASSUME UNCHANGED <<owner, pending, ent>> PROVE OwnedInv'
  BY <1>6
<1> QED
  BY <1>1, <1>2, <1>3, <1>4, <1>5, <1>6
     DEF Next, Step, Sweep, Stamp, Age, SweepVisit, SweepRecheck, SweepDelete, vars

LEMMA NextOrder == IInv /\ OrderInv /\ [Next]_vars => OrderInv'
<1> SUFFICES ASSUME IInv, OrderInv, [Next]_vars PROVE OrderInv'
  OBVIOUS
<1> USE OwnerAssumption, KeyAssumption
    DEF OrderInv, Holds, Wants, IsNext, writerVars, sweepVars, victim
<1>0. TypeOK /\ LoadedInv
  BY DEF IInv
<1>n. \A p \in Paths : LockKey[p] \in Nat
  OBVIOUS
<1>1. ASSUME NEW w \in Writers, NEW S \in SUBSET Paths,
             StartTransaction(w, S) \/ StartWorkspaceEdit(w, S)
      PROVE  OrderInv'
  <2>1. UNCHANGED ent /\ \A q \in Paths : ent[w][q] = None
    BY <1>0, <1>1 DEF LoadedInv, StartTransaction, StartWorkspaceEdit
  <2>2. \E D \in SUBSET Paths : ~ SameFile(D) /\ pending' = [pending EXCEPT ![w] = D]
    BY <1>1 DEF StartTransaction, StartWorkspaceEdit
  <2>3. ~ SameFile(pending'[w]) /\ \A v \in Writers : v # w => pending'[v] = pending[v]
    BY <1>0, <2>2 DEF TypeOK
  <2> QED
    BY <2>1, <2>3
<1>2. ASSUME NEW w \in Writers, NEW p \in Paths, LoadOrStore(w, p) PROVE OrderInv'
  <2>1. UNCHANGED pending /\ IsNext(w, p)
    BY <1>2 DEF LoadOrStore
  <2>2. \A v \in Writers, q \in Paths :
           ~ (v = w /\ q = p) => ent'[v][q] = ent[v][q]
    BY <1>0, <1>2, LoadEffect
  <2> QED
    BY <2>1, <2>2
<1>3. ASSUME NEW w \in Writers, NEW p \in Paths, Lock(w, p) PROVE OrderInv'
  <2>1. /\ Wants(w, p) /\ UNCHANGED ent
        /\ \A v \in Writers : pending'[v] = IF v = w THEN pending[v] \ {p} ELSE pending[v]
    BY <1>0, <1>3 DEF TypeOK, Lock
  <2>2. \A v \in Writers : pending'[v] \subseteq pending[v] /\ pending[v] \subseteq Paths
    BY <1>0, <2>1 DEF TypeOK
  <2>3. \A v \in Writers : ~ SameFile(pending'[v])
    BY <2>2 DEF SameFile
  <2>4. \A q \in Paths : Wants(w, q) => q = p
    BY <1>0, <2>1 DEF LoadedInv
  <2>5. \A v \in Writers, q \in Paths : Wants(v, q)' => IsNext(v, q)'
    BY <2>1, <2>2, <2>4
  <2>6. \A q \in pending'[w] : LockKey[p] < LockKey[q]
    <3> SUFFICES ASSUME NEW q \in pending'[w] PROVE LockKey[p] < LockKey[q]
      OBVIOUS
    <3>1. q \in pending[w] /\ q # p /\ q \in Paths
      BY <2>1, <2>2
    <3>2. LockKey[p] =< LockKey[q]
      BY <2>1, <3>1
    <3>3. LockKey[p] # LockKey[q]
      BY <2>1, <3>1 DEF SameFile
    <3> QED
      BY <1>n, <3>1, <3>2, <3>3
  <2>7. \A v \in Writers, q, x \in Paths :
           Holds(v, q)' /\ x \in pending'[v] => LockKey[q] < LockKey[x]
    BY <2>1, <2>2, <2>6
  <2> QED
    BY <2>3, <2>5, <2>7
<1>4. ASSUME NEW w \in Writers, NEW p \in Paths, Release(w, p) PROVE OrderInv'
  <2>1. UNCHANGED pending
    BY <1>4 DEF Release
  <2> QED
    BY <1>0, <1>4, <2>1, ReleaseEffect
<1>5. ASSUME UNCHANGED <<pending, ent>> PROVE OrderInv'
  BY <1>5
<1> QED
  BY <1>1, <1>2, <1>3, <1>4, <1>5
     DEF Next, Step, Sweep, Stamp, Age, SweepVisit, SweepTryLock, SweepRecheck, SweepDelete,
         SweepUnlock, vars

LEMMA InitOrder == Init => KeyedInv /\ OwnedInv /\ OrderInv
<1> SUFFICES ASSUME Init PROVE KeyedInv /\ OwnedInv /\ OrderInv
  OBVIOUS
<1>1. /\ \A k \in Keys : table[k] = None
      /\ \A e \in Entries : owner[e] = None
      /\ \A w \in Writers : pending[w] = {}
      /\ \A w \in Writers, p \in Paths : ent[w][p] = None
  BY DEF Init
<1> QED
  BY <1>1, OwnerAssumption DEF KeyedInv, OwnedInv, OrderInv, SameFile, Wants, Holds

\* A function on a finite set that is not empty has a greatest value.
LEMMA GreatestExists ==
  ASSUME NEW S, IsFiniteSet(S), S # {}, NEW f \in [S -> Nat]
  PROVE  \E m \in S : \A s \in S : f[s] =< f[m]
<1> DEFINE Above(m) == {s \in S : f[s] > f[m]}
           R == OpToRel(<, Nat)
           C == {Cardinality(Above(m)) : m \in S}
<1>1. \A m \in S : IsFiniteSet(Above(m)) /\ Cardinality(Above(m)) \in Nat
  <2> SUFFICES ASSUME NEW m \in S
               PROVE  IsFiniteSet(Above(m)) /\ Cardinality(Above(m)) \in Nat
    OBVIOUS
  <2>1. Above(m) \in SUBSET S
    OBVIOUS
  <2>2. IsFiniteSet(Above(m))
    BY <2>1, FS_Subset
  <2> QED
    BY <2>2, FS_CardinalityType
<1>2. IsWellFoundedOn(R, Nat)
  BY NatLessThanWellFounded
<1>3. C \subseteq Nat /\ C # {}
  BY <1>1
<1>4. \E x \in C : \A y \in C : ~ (<<y, x>> \in R)
  <2> HIDE DEF R, C
  <2> QED
    BY <1>2, <1>3, WFMin
<1>5. PICK x \in C : \A y \in C : ~ (<<y, x>> \in R)
  BY <1>4
<1>6. PICK m \in S : x = Cardinality(Above(m))
  BY <1>5
<1>7. ASSUME NEW s \in S, f[s] > f[m] PROVE FALSE
  <2>1. Above(s) \in SUBSET Above(m) /\ s \in Above(m) /\ s \notin Above(s)
    BY <1>7
  <2>2. Cardinality(Above(s)) =< Cardinality(Above(m)) /\ Above(s) # Above(m)
    <3> HIDE DEF Above
    <3> QED
      BY <1>1, <2>1, FS_Subset
  <2>3. Cardinality(Above(s)) # Cardinality(Above(m))
    <3> HIDE DEF Above
    <3> QED
      BY <1>1, <2>1, <2>2, FS_Subset
  <2>4. <<Cardinality(Above(s)), Cardinality(Above(m))>> \in R
    <3> HIDE DEF Above
    <3> QED
      BY <1>1, <2>2, <2>3 DEF OpToRel
  <2> QED
    BY <1>5, <1>6, <2>4
<1> QED
  BY <1>7

(* Writers never wait for each other in a circle, however many files each    *)
(* call names and in whatever spellings (transaction_apply, edit_apply,      *)
(* lockPath): of finitely many waiting writers, one that waits for the       *)
(* greatest key waits for nobody among them.                                 *)
THEOREM NoCircle ==
  ASSUME IsFiniteSet(Writers)
  PROVE  Spec => []NoWaitCycle
<1>1. LoadedInv /\ TypeOK /\ KeyedInv /\ OwnedInv /\ OrderInv => NoWaitCycle
  <2> SUFFICES ASSUME LoadedInv, TypeOK, KeyedInv, OwnedInv, OrderInv,
                      NEW S \in SUBSET Writers, S # {},
                      \A w \in S : \E p \in Paths :
                          Wants(w, p) /\ pc[w] = "lock" /\ owner[ent[w][p]] \in S
               PROVE  FALSE
    BY DEF NoWaitCycle
  <2> DEFINE Awaited(w) == CHOOSE p \in Paths : Wants(w, p) /\ owner[ent[w][p]] \in S
             f == [w \in S |-> LockKey[Awaited(w)]]
  <2>1. \A w \in S : /\ Awaited(w) \in Paths /\ Wants(w, Awaited(w))
                     /\ owner[ent[w][Awaited(w)]] \in S
    OBVIOUS
  <2>2. f \in [S -> Nat]
    BY <2>1, KeyAssumption
  <2>3. IsFiniteSet(S)
    BY FS_Subset
  <2>4. PICK m \in S : \A s \in S : f[s] =< f[m]
    <3> HIDE DEF f
    <3> QED
      BY <2>2, <2>3, GreatestExists
  <2> DEFINE p == Awaited(m)
             v == owner[ent[m][p]]
  <2>5. p \in Paths /\ v \in S /\ v \in Writers /\ ent[m][p] \in Entries
    BY <2>1 DEF TypeOK, Wants
  <2>6. PICK q \in Paths : Holds(v, q) /\ ent[v][q] = ent[m][p]
    <3> HIDE DEF p
    <3> QED
      BY <2>5 DEF OwnedInv
  <2>7. LockKey[q] = LockKey[p]
    <3>1. ent[m][p] # None
      BY <2>5, OwnerAssumption
    <3> HIDE DEF p, v
    <3> QED
      BY <2>5, <2>6, <3>1 DEF KeyedInv
  <2>8. LockKey[q] < LockKey[Awaited(v)]
    <3>1. Awaited(v) \in pending[v] /\ Awaited(v) \in Paths
      BY <2>1, <2>5 DEF Wants
    <3> HIDE DEF v, Awaited
    <3> QED
      BY <2>5, <2>6, <3>1 DEF OrderInv
  <2>9. f[v] =< f[m]
    <3> HIDE DEF v, f
    <3> QED
      BY <2>4, <2>5
  <2>10. f[v] = LockKey[Awaited(v)] /\ f[m] = LockKey[p]
    <3> HIDE DEF v, Awaited
    <3> QED
      BY <2>5
  <2>11. f[v] \in Nat /\ f[m] \in Nat
    <3> HIDE DEF v, f
    <3> QED
      BY <2>2, <2>5
  <2> QED
    <3> HIDE DEF v, f, p, Awaited
    <3> QED
      BY <2>7, <2>8, <2>9, <2>10, <2>11
<1>2. KeyedInv /\ TypeOK /\ [Next]_vars => KeyedInv'
  BY NextKeyed
<1>3. IInv /\ OwnedInv /\ OrderInv /\ [Next]_vars => OwnedInv' /\ OrderInv'
  BY NextOwned, NextOrder
<1>4. IInv => TypeOK /\ LoadedInv
  BY DEF IInv
<1> QED
  BY <1>1, <1>2, <1>3, <1>4, InitOrder, Inductive, PTL DEF Spec

-----------------------------------------------------------------------------
(* The file watch hub.                                                     *)

\* Who holds a watch, and where: a subscription is a consumer that is "in".
Holding ==
    \A u \in Users :
        /\ user[u].at \in {"out", "look"} <=> user[u].sw = NoWatch
        /\ \A w \in Watches : u \in shared[w].subs <=> user[u].at = "in" /\ user[u].sw = w
        /\ user[u].at \in {"join", "in"} => shared[user[u].sw].ready = "open"

\* One goroutine opens a watch, and until it has nobody can join or fail it.
Opening ==
    \A u \in Users :
        user[u].at \in {"open", "error"} =>
            /\ shared[user[u].sw].ready = "opening"
            /\ user[u].at = "open" => watches = user[u].sw
            /\ \A v \in Users :
                  user[v].at \in {"open", "error"} /\ user[v].sw = user[u].sw => v = u

\* A watch that is closed, or that somebody is about to close, has left the map
\* and its subscribers.
Closing ==
    /\ \A w \in Watches : shared[w].closed => watches # w /\ shared[w].subs = {}
    /\ \A u \in Users :
          user[u].at \in {"closeLast", "leave", "closeOrphan", "retry"} =>
              watches # user[u].sw /\ shared[user[u].sw].subs = {}

\* Only a failed watch is out of the map and has subscribers.
Replaced ==
    \A w \in Watches : shared[w].subs # {} /\ watches # w => shared[w].failed

\* fanOut runs until the OS watcher is closed.
FanOut == \A w \in Watches : fan[w] = "done" => shared[w].closed

HubInv == /\ HubTypeOK /\ Holding /\ Opening /\ Closing /\ Replaced /\ FanOut
        /\ NoWatcherLeaks /\ FailureReachesAll

-----------------------------------------------------------------------------
(* What a step does to the consumer and to the watch it is about.            *)

Consumers == [at : Places, sw : Watches \cup {NoWatch}, told : BOOLEAN]
SharedWatches == [ready : {"opening", "open", "error"}, closed : BOOLEAN,
                  blind : BOOLEAN, failed : BOOLEAN, subs : SUBSET Users]

LEMMA TypeParts ==
    HubTypeOK <=> /\ watches \in Watches \cup {NoWatch}
                  /\ shared \in [Watches -> SharedWatches]
                  /\ fan \in [Watches -> {"off", "select", "tell", "done"}]
                  /\ user \in [Users -> Consumers]
BY DEF HubTypeOK, Consumers, SharedWatches

LEMMA SharedType ==
    ASSUME HubTypeOK, NEW w \in Watches, NEW r \in SharedWatches,
           shared' = [shared EXCEPT ![w] = r]
    PROVE  shared' \in [Watches -> SharedWatches]
BY TypeParts

LEMMA AtEffect ==
    ASSUME HubTypeOK, NEW u \in Users, NEW place \in Places, At(u, place)
    PROVE  /\ user' \in [Users -> Consumers]
           /\ user'[u].at = place /\ user'[u].sw = user[u].sw /\ user'[u].told = user[u].told
           /\ \A v \in Users : v # u => user'[v] = user[v]
BY DEF At, HubTypeOK, Consumers

LEMMA LeavesEffect ==
    ASSUME HubTypeOK, NEW u \in Users, Leaves(u)
    PROVE  /\ user' \in [Users -> Consumers]
           /\ user'[u].at = "out" /\ user'[u].sw = NoWatch
           /\ \A v \in Users : v # u => user'[v] = user[v]
<1>1. Away \in Consumers
      /\ Away.at = "out" /\ Away.sw = NoWatch
  BY DEF Away, Places, Consumers
<1> HIDE DEF Away
<1> QED
  BY <1>1, TypeParts DEF Leaves

LEMMA LooksEffect ==
    ASSUME HubTypeOK, NEW u \in Users, LooksAgain(u)
    PROVE  /\ user' \in [Users -> Consumers]
           /\ user'[u].at = "look" /\ user'[u].sw = NoWatch
           /\ \A v \in Users : v # u => user'[v] = user[v]
<1> DEFINE looks == [Away EXCEPT !.at = "look"]
<1>1. looks \in Consumers
      /\ looks.at = "look" /\ looks.sw = NoWatch
  BY DEF Away, Places, Consumers
<1>2. user' = [user EXCEPT ![u] = looks]
  BY DEF LooksAgain
<1> HIDE DEF looks
<1> QED
  BY <1>1, <1>2, TypeParts

-----------------------------------------------------------------------------
(* Each part is preserved by every step.                                     *)

\* Every variable keeps its type.
LEMMA HubNextType == HubInv /\ [HubNext]_hubVars => HubTypeOK'
<1> SUFFICES ASSUME HubInv, [HubNext]_hubVars PROVE HubTypeOK'
  OBVIOUS
<1>0. /\ HubTypeOK /\ Holding
      /\ watches \in Watches \cup {NoWatch}
      /\ shared \in [Watches -> SharedWatches]
      /\ fan \in [Watches -> {"off", "select", "tell", "done"}]
      /\ user \in [Users -> Consumers]
  BY TypeParts DEF HubInv
<1>a. \A u \in Users : user[u] \in Consumers /\ user[u].sw \in Watches \cup {NoWatch}
  BY <1>0 DEF Consumers
<1>b. \A u \in Users : user[u].at \notin {"out", "look"} => user[u].sw \in Watches
  BY <1>0, <1>a DEF Holding
<1>t. ASSUME watches' \in Watches \cup {NoWatch}, shared' \in [Watches -> SharedWatches],
             fan' \in [Watches -> {"off", "select", "tell", "done"}],
             user' \in [Users -> Consumers]
      PROVE  HubTypeOK'
  BY <1>t DEF HubTypeOK, SharedWatches, Consumers
<1>s. ASSUME NEW w \in Watches
      PROVE  /\ \A x \in {"opening", "open", "error"} :
                   [shared[w] EXCEPT !.ready = x] \in SharedWatches
             /\ \A x \in SUBSET Users : [shared[w] EXCEPT !.subs = x] \in SharedWatches
             /\ [shared[w] EXCEPT !.closed = TRUE] \in SharedWatches
             /\ [shared[w] EXCEPT !.blind = TRUE] \in SharedWatches
             /\ [shared[w] EXCEPT !.failed = TRUE] \in SharedWatches
             /\ shared[w].failed \in BOOLEAN /\ shared[w].subs \in SUBSET Users
  <2>1. shared[w] \in SharedWatches
    BY <1>0
  <2> QED
    BY <2>1 DEF SharedWatches
<1>1. ASSUME NEW u \in Users, Subscribe(u) PROVE HubTypeOK'
  <2>1. At(u, "look") /\ UNCHANGED <<watches, shared, fan>>
    BY <1>1 DEF Subscribe
  <2> QED
    BY <1>0, <1>t, <2>1, AtEffect DEF Places
<1>2. ASSUME NEW u \in Users, Look(u) PROVE HubTypeOK'
  <2>a. \A x \in Places, w \in Watches :
          [user EXCEPT ![u].at = x, ![u].sw = w] \in [Users -> Consumers]
    BY <1>0 DEF Consumers
  <2>1. CASE watches # NoWatch /\ ~ HasFailed(watches)
    <3>1. /\ user' = [user EXCEPT ![u].at = "wait", ![u].sw = watches]
          /\ UNCHANGED <<watches, shared, fan>>
      BY <1>2, <2>1 DEF Look
    <3>2. watches \in Watches
      BY <1>0, <2>1
    <3> QED
      BY <1>0, <1>t, <2>a, <3>1, <3>2 DEF Places
  <2>2. CASE ~ (watches # NoWatch /\ ~ HasFailed(watches))
    <3>1. NewShared \in SharedWatches
      BY DEF NewShared, SharedWatches
    <3>2. PICK w \in Watches : /\ watches' = w
                               /\ shared' = [shared EXCEPT ![w] = NewShared]
                               /\ fan' = [fan EXCEPT ![w] = "off"]
                               /\ user' = [user EXCEPT ![u].at = "open", ![u].sw = w]
      BY <1>2, <2>2 DEF Look
    <3>3. user' \in [Users -> Consumers]
      BY <2>a, <3>2 DEF Places
    <3> QED
      BY <1>0, <1>t, <3>1, <3>2, <3>3, SharedType
  <2> QED
    BY <2>1, <2>2
<1>3. ASSUME NEW u \in Users, Open(u) PROVE HubTypeOK'
  <2>1. user[u].sw \in Watches
    BY <1>3, <1>b DEF Open
  <2>2. /\ shared' = [shared EXCEPT ![user[u].sw] = [shared[user[u].sw] EXCEPT !.ready = "open"]]
        /\ fan' = [fan EXCEPT ![user[u].sw] = "select"] /\ At(u, "wait") /\ UNCHANGED watches
    BY <1>3 DEF Open
  <2>3. user' \in [Users -> Consumers]
    BY <1>0, <2>2, AtEffect DEF Places
  <2>4. shared' \in [Watches -> SharedWatches]
    BY <1>0, <1>s, <2>1, <2>2, SharedType
  <2> QED
    BY <1>0, <1>t, <2>1, <2>2, <2>3, <2>4
<1>4. ASSUME NEW u \in Users, OpenFails(u) PROVE HubTypeOK'
  <2>1. watches' = NoWatch /\ At(u, "error") /\ UNCHANGED <<shared, fan>>
    BY <1>4 DEF OpenFails
  <2> QED
    BY <1>0, <1>t, <2>1, AtEffect DEF Places
<1>5. ASSUME NEW u \in Users, OpenError(u) PROVE HubTypeOK'
  <2>1. user[u].sw \in Watches
    BY <1>5, <1>b DEF OpenError
  <2>2. /\ shared' = [shared EXCEPT ![user[u].sw] = [shared[user[u].sw] EXCEPT !.ready = "error"]]
        /\ At(u, "wait") /\ UNCHANGED <<watches, fan>>
    BY <1>5 DEF OpenError
  <2>3. user' \in [Users -> Consumers]
    BY <1>0, <2>2, AtEffect DEF Places
  <2>4. shared' \in [Watches -> SharedWatches]
    BY <1>0, <1>s, <2>1, <2>2, SharedType
  <2> QED
    BY <1>0, <1>t, <2>2, <2>3, <2>4
<1>6. ASSUME NEW u \in Users, Ready(u) PROVE HubTypeOK'
  <2>1. At(u, "join") \/ Leaves(u)
    BY <1>6 DEF Ready
  <2>2. UNCHANGED <<watches, shared, fan>>
    BY <1>6 DEF Ready
  <2>3. user' \in [Users -> Consumers]
    BY <1>0, <2>1, AtEffect, LeavesEffect DEF Places
  <2> QED
    BY <1>0, <1>t, <2>2, <2>3
<1>7. ASSUME NEW u \in Users, Join(u) PROVE HubTypeOK'
  <2> DEFINE w == user[u].sw
  <2>1. w \in Watches
    BY <1>7, <1>b DEF Join
  <2>2. /\ shared' = [shared EXCEPT ![w] = [shared[w] EXCEPT !.subs = shared[w].subs \cup {u}]]
        /\ user' = [user EXCEPT ![u] = [user[u] EXCEPT !.at = "in", !.told = shared[w].failed]]
        /\ UNCHANGED <<watches, fan>>
    BY <1>7 DEF Join
  <2>3. [user[u] EXCEPT !.at = "in", !.told = shared[w].failed] \in Consumers
    BY <1>a, <1>s, <2>1 DEF Consumers, Places
  <2>4. user' \in [Users -> Consumers]
    BY <1>0, <2>2, <2>3
  <2>5. shared[w].subs \cup {u} \in SUBSET Users
    BY <1>s, <2>1
  <2>6. shared' \in [Watches -> SharedWatches]
    BY <1>0, <1>s, <2>1, <2>2, <2>5, SharedType
  <2> QED
    BY <1>0, <1>t, <2>2, <2>4, <2>6
<1>8. ASSUME NEW u \in Users, JoinRefused(u) PROVE HubTypeOK'
  <2>1. At(u, "closeOrphan") \/ LooksAgain(u)
    BY <1>8 DEF JoinRefused
  <2>2. UNCHANGED <<watches, shared, fan>>
    BY <1>8 DEF JoinRefused
  <2>3. user' \in [Users -> Consumers]
    BY <1>0, <2>1, AtEffect, LooksEffect DEF Places
  <2> QED
    BY <1>0, <1>t, <2>2, <2>3
<1>9. ASSUME NEW u \in Users, Unsubscribe(u) PROVE HubTypeOK'
  <2> DEFINE w == user[u].sw
  <2>1. w \in Watches
    BY <1>9, <1>b DEF Unsubscribe
  <2>2. /\ shared' = [shared EXCEPT ![w] = [shared[w] EXCEPT !.subs = shared[w].subs \ {u}]]
        /\ watches' \in {watches, NoWatch} /\ UNCHANGED fan
    BY <1>9 DEF Unsubscribe
  <2>3. At(u, "closeLast") \/ Leaves(u)
    BY <1>9 DEF Unsubscribe
  <2>4. user' \in [Users -> Consumers]
    BY <1>0, <2>3, AtEffect, LeavesEffect DEF Places
  <2>5. shared[w].subs \ {u} \in SUBSET Users
    BY <1>s, <2>1
  <2>6. shared' \in [Watches -> SharedWatches]
    BY <1>0, <1>s, <2>1, <2>2, <2>5, SharedType
  <2> QED
    BY <1>0, <1>t, <2>2, <2>4, <2>6
<1>10. ASSUME NEW u \in Users, CloseWatcher(u) PROVE HubTypeOK'
  <2>1. user[u].sw \in Watches
    BY <1>10, <1>b DEF CloseWatcher
  <2>2. /\ shared' = [shared EXCEPT ![user[u].sw] = [shared[user[u].sw] EXCEPT !.closed = TRUE]]
        /\ At(u, "leave") \/ At(u, "retry")
        /\ UNCHANGED <<watches, fan>>
    BY <1>10 DEF CloseWatcher
  <2>3. user' \in [Users -> Consumers]
    BY <1>0, <2>2, AtEffect DEF Places
  <2>4. shared' \in [Watches -> SharedWatches]
    BY <1>0, <1>s, <2>1, <2>2, SharedType
  <2> QED
    BY <1>0, <1>t, <2>2, <2>3, <2>4
<1>11. ASSUME NEW u \in Users, FanOutDone(u) PROVE HubTypeOK'
  <2>1. Leaves(u) \/ LooksAgain(u)
    BY <1>11 DEF FanOutDone
  <2>2. UNCHANGED <<watches, shared, fan>>
    BY <1>11 DEF FanOutDone
  <2>3. user' \in [Users -> Consumers]
    BY <1>0, <2>1, LeavesEffect, LooksEffect
  <2> QED
    BY <1>0, <1>t, <2>2, <2>3
<1>12. ASSUME NEW w \in Watches, Blind(w) PROVE HubTypeOK'
  <2>1. /\ shared' = [shared EXCEPT ![w] = [shared[w] EXCEPT !.blind = TRUE]]
        /\ UNCHANGED <<watches, fan, user>>
    BY <1>12 DEF Blind
  <2> QED
    BY <1>0, <1>s, <1>t, <2>1, SharedType
<1>13. ASSUME NEW w \in Watches, FanOutFailed(w) PROVE HubTypeOK'
  <2>1. /\ shared' = [shared EXCEPT ![w] = [shared[w] EXCEPT !.failed = TRUE]]
        /\ fan' = [fan EXCEPT ![w] = "tell"] /\ UNCHANGED <<watches, user>>
    BY <1>13 DEF FanOutFailed
  <2>2. shared' \in [Watches -> SharedWatches]
    BY <1>0, <1>s, <2>1, SharedType
  <2> QED
    BY <1>0, <1>t, <2>1, <2>2
<1>14. ASSUME NEW w \in Watches, FanOutTell(w) PROVE HubTypeOK'
  <2>1. user' \in [Users -> Consumers]
    BY <1>0, <1>14 DEF FanOutTell, Consumers
  <2>2. fan' = [fan EXCEPT ![w] = "select"] /\ UNCHANGED <<watches, shared>>
    BY <1>14 DEF FanOutTell
  <2> QED
    BY <1>0, <1>t, <2>1, <2>2
<1>15. ASSUME NEW w \in Watches, FanOutEnd(w) PROVE HubTypeOK'
  <2>1. fan' = [fan EXCEPT ![w] = "done"] /\ UNCHANGED <<watches, shared, user>>
    BY <1>15 DEF FanOutEnd
  <2> QED
    BY <1>0, <1>t, <2>1
<1>16. ASSUME UNCHANGED hubVars PROVE HubTypeOK'
  BY <1>0, <1>t, <1>16 DEF hubVars
<1> QED
  BY <1>1, <1>2, <1>3, <1>4, <1>5, <1>6, <1>7, <1>8, <1>9, <1>10, <1>11, <1>12, <1>13,
     <1>14, <1>15, <1>16 DEF HubNext

\* A subscriber is a consumer that is in, and in nothing else.
LEMMA NextHolding == HubInv /\ [HubNext]_hubVars => Holding'
<1> SUFFICES ASSUME HubInv, [HubNext]_hubVars PROVE Holding'
  OBVIOUS
<1> USE HubAssumption DEF HubAssumption, HubInv, HubTypeOK, Holding, Places
<1>1. ASSUME NEW u \in Users, Subscribe(u) PROVE Holding'
  BY <1>1 DEF Subscribe, At
<1>2. ASSUME NEW u \in Users, Look(u) PROVE Holding'
  BY <1>2 DEF Look, HasFailed, Unreferenced, NewShared
<1>3. ASSUME NEW u \in Users, Open(u) PROVE Holding'
  BY <1>3 DEF Open, At
<1>4. ASSUME NEW u \in Users, OpenFails(u) PROVE Holding'
  BY <1>4 DEF OpenFails, At
<1>5. ASSUME NEW u \in Users, OpenError(u) PROVE Holding'
  <2>1. At(u, "wait") /\ user[u].at = "error" /\ user[u].sw \in Watches
    BY <1>5 DEF OpenError
  <2>2. \A w \in Watches : shared'[w].subs = shared[w].subs
    BY <1>5 DEF OpenError
  <2>3. \A w \in Watches : shared[w].ready = "open" => shared'[w].ready = "open"
    BY <1>5, <2>1 DEF OpenError, Opening
  <2>4. user'[u].at = "wait" /\ user'[u].sw = user[u].sw
    BY <2>1, AtEffect
  <2>5. \A v \in Users : v # u => user'[v].at = user[v].at /\ user'[v].sw = user[v].sw
    BY <2>1, AtEffect
  <2>6. ASSUME NEW v \in Users
        PROVE  user'[v].at \in {"out", "look"} <=> user'[v].sw = NoWatch
    BY <2>1, <2>4, <2>5
  <2>7. ASSUME NEW v \in Users, NEW w \in Watches
        PROVE  v \in shared'[w].subs <=> user'[v].at = "in" /\ user'[v].sw = w
    BY <2>1, <2>2, <2>4, <2>5
  <2>8. ASSUME NEW v \in Users, user'[v].at \in {"join", "in"}
        PROVE  shared'[user'[v].sw].ready = "open"
    <3>1. user'[v].sw = user[v].sw /\ user[v].at \in {"join", "in"}
      BY <2>4, <2>5, <2>8
    <3>2. user[v].sw \in Watches /\ shared[user[v].sw].ready = "open"
      BY <3>1
    <3> QED
      BY <2>3, <3>1, <3>2
  <2> QED
    BY <2>6, <2>7, <2>8 DEF Holding
<1>6. ASSUME NEW u \in Users, Ready(u) PROVE Holding'
  <2>1. /\ user[u].at = "wait" /\ user[u].sw \in Watches
        /\ (shared[user[u].sw].ready = "open" /\ At(u, "join")) \/ Leaves(u)
        /\ UNCHANGED shared
    BY <1>6 DEF Ready
  <2> QED
    BY <2>1, AtEffect, LeavesEffect
<1>7. ASSUME NEW u \in Users, Join(u) PROVE Holding'
  BY <1>7 DEF Join
<1>8. ASSUME NEW u \in Users, JoinRefused(u) PROVE Holding'
  <2>1. /\ user[u].at = "join" /\ user[u].sw \in Watches
        /\ At(u, "closeOrphan") \/ LooksAgain(u)
        /\ UNCHANGED shared
    BY <1>8 DEF JoinRefused
  <2> QED
    BY <2>1, AtEffect, LooksEffect
<1>9. ASSUME NEW u \in Users, Unsubscribe(u) PROVE Holding'
  BY <1>9 DEF Unsubscribe, At, Leaves, Away
<1>10. ASSUME NEW u \in Users, CloseWatcher(u) PROVE Holding'
  BY <1>10 DEF CloseWatcher, At
<1>11. ASSUME NEW u \in Users, FanOutDone(u) PROVE Holding'
  BY <1>11 DEF FanOutDone, Leaves, LooksAgain, Away
<1>12. ASSUME NEW w \in Watches, Blind(w) PROVE Holding'
  BY <1>12 DEF Blind
<1>13. ASSUME NEW w \in Watches, FanOutFailed(w) PROVE Holding'
  BY <1>13 DEF FanOutFailed
<1>14. ASSUME NEW w \in Watches, FanOutTell(w) PROVE Holding'
  BY <1>14 DEF FanOutTell
<1>15. ASSUME NEW w \in Watches, FanOutEnd(w) PROVE Holding'
  BY <1>15 DEF FanOutEnd
<1>16. ASSUME UNCHANGED hubVars PROVE Holding'
  BY <1>16 DEF hubVars
<1> QED
  BY <1>1, <1>2, <1>3, <1>4, <1>5, <1>6, <1>7, <1>8, <1>9, <1>10, <1>11, <1>12, <1>13,
     <1>14, <1>15, <1>16 DEF HubNext

\* A watch that is opening has one goroutine, which is opening it.
LEMMA NextOpening == HubInv /\ [HubNext]_hubVars => Opening'
<1> SUFFICES ASSUME HubInv, [HubNext]_hubVars PROVE Opening'
  OBVIOUS
<1> USE HubAssumption DEF HubAssumption, HubInv, HubTypeOK, Opening, Holding, Places
<1>1. ASSUME NEW u \in Users, Subscribe(u) PROVE Opening'
  BY <1>1 DEF Subscribe, At
<1>2. ASSUME NEW u \in Users, Look(u) PROVE Opening'
  BY <1>2 DEF Look, HasFailed, Unreferenced, NewShared
<1>3. ASSUME NEW u \in Users, Open(u) PROVE Opening'
  BY <1>3 DEF Open, At
<1>4. ASSUME NEW u \in Users, OpenFails(u) PROVE Opening'
  BY <1>4 DEF OpenFails, At
<1>5. ASSUME NEW u \in Users, OpenError(u) PROVE Opening'
  BY <1>5 DEF OpenError, At
<1>6. ASSUME NEW u \in Users, Ready(u) PROVE Opening'
  <2>1. At(u, "join") \/ Leaves(u)
    BY <1>6 DEF Ready
  <2>2. UNCHANGED <<watches, shared>>
    BY <1>6 DEF Ready
  <2>3. /\ user'[u].at \in {"join", "out"}
        /\ \A v \in Users : v # u => user'[v] = user[v]
    BY <2>1, AtEffect, LeavesEffect
  <2> QED
    BY <2>2, <2>3
<1>7. ASSUME NEW u \in Users, Join(u) PROVE Opening'
  BY <1>7 DEF Join
<1>8. ASSUME NEW u \in Users, JoinRefused(u) PROVE Opening'
  <2>1. At(u, "closeOrphan") \/ LooksAgain(u)
    BY <1>8 DEF JoinRefused
  <2>2. UNCHANGED <<watches, shared>>
    BY <1>8 DEF JoinRefused
  <2>3. /\ user'[u].at \in {"closeOrphan", "look"}
        /\ \A v \in Users : v # u => user'[v] = user[v]
    BY <2>1, AtEffect, LooksEffect
  <2> QED
    BY <2>2, <2>3
<1>9. ASSUME NEW u \in Users, Unsubscribe(u) PROVE Opening'
  <2>1. /\ user[u].at = "in" /\ user[u].sw \in Watches
        /\ At(u, "closeLast") \/ Leaves(u)
        /\ \A w \in Watches : shared'[w].ready = shared[w].ready
        /\ watches' = watches
           \/ (watches = user[u].sw /\ shared[user[u].sw].ready = "open")
    BY <1>9 DEF Unsubscribe
  <2>2. /\ user'[u].at \in {"closeLast", "out"}
        /\ \A v \in Users : v # u => user'[v] = user[v]
    BY <2>1, AtEffect, LeavesEffect
  <2>3. \A v \in Users : user[v].at \in {"open", "error"} => user[v].sw \in Watches
    OBVIOUS
  <2> QED
    BY <2>1, <2>2, <2>3
<1>10. ASSUME NEW u \in Users, CloseWatcher(u) PROVE Opening'
  BY <1>10 DEF CloseWatcher, At
<1>11. ASSUME NEW u \in Users, FanOutDone(u) PROVE Opening'
  <2>1. Leaves(u) \/ LooksAgain(u)
    BY <1>11 DEF FanOutDone
  <2>2. UNCHANGED <<watches, shared>>
    BY <1>11 DEF FanOutDone
  <2>3. /\ user'[u].at \in {"out", "look"}
        /\ \A v \in Users : v # u => user'[v] = user[v]
    BY <2>1, LeavesEffect, LooksEffect
  <2> QED
    BY <2>2, <2>3
<1>12. ASSUME NEW w \in Watches, Blind(w) PROVE Opening'
  BY <1>12 DEF Blind
<1>13. ASSUME NEW w \in Watches, FanOutFailed(w) PROVE Opening'
  BY <1>13 DEF FanOutFailed
<1>14. ASSUME NEW w \in Watches, FanOutTell(w) PROVE Opening'
  BY <1>14 DEF FanOutTell
<1>15. ASSUME NEW w \in Watches, FanOutEnd(w) PROVE Opening'
  BY <1>15 DEF FanOutEnd
<1>16. ASSUME UNCHANGED hubVars PROVE Opening'
  BY <1>16 DEF hubVars
<1> QED
  BY <1>1, <1>2, <1>3, <1>4, <1>5, <1>6, <1>7, <1>8, <1>9, <1>10, <1>11, <1>12, <1>13,
     <1>14, <1>15, <1>16 DEF HubNext

\* Nobody joins a watch that is closed or about to be.
LEMMA NextClosing == HubInv /\ [HubNext]_hubVars => Closing'
<1> SUFFICES ASSUME HubInv, [HubNext]_hubVars PROVE Closing'
  OBVIOUS
<1> USE HubAssumption DEF HubAssumption, HubInv, HubTypeOK, Closing, Holding, Opening, Places
<1>1. ASSUME NEW u \in Users, Subscribe(u) PROVE Closing'
  BY <1>1 DEF Subscribe, At
<1>2. ASSUME NEW u \in Users, Look(u) PROVE Closing'
  BY <1>2 DEF Look, HasFailed, Unreferenced, NewShared
<1>3. ASSUME NEW u \in Users, Open(u) PROVE Closing'
  <2>1. \A w \in Watches : shared'[w].closed <=> shared[w].closed
    BY <1>3 DEF Open
  <2>2. \A w \in Watches : shared'[w].subs = shared[w].subs
    BY <1>3 DEF Open
  <2>3. At(u, "wait") /\ UNCHANGED watches
    BY <1>3 DEF Open
  <2>4. user'[u].at = "wait" /\ \A v \in Users : v # u => user'[v] = user[v]
    BY <2>3, AtEffect
  <2> QED
    BY <2>1, <2>2, <2>3, <2>4
<1>4. ASSUME NEW u \in Users, OpenFails(u) PROVE Closing'
  <2>1. /\ watches' = NoWatch /\ At(u, "error") /\ UNCHANGED shared
        /\ user[u].at = "open"
    BY <1>4 DEF OpenFails
  <2>2. /\ user'[u].at = "error"
        /\ \A v \in Users : v # u => user'[v] = user[v]
    BY <2>1, AtEffect
  <2>3. \A v \in Users :
          user[v].at \in {"closeLast", "leave", "closeOrphan", "retry"} =>
             user[v].sw \in Watches /\ shared[user[v].sw].subs = {}
    OBVIOUS
  <2>a. \A w \in Watches : shared[w].closed => watches # w /\ shared[w].subs = {}
    OBVIOUS
  <2> HIDE DEF HubInv, HubTypeOK, Holding, Opening, Closing
  <2>4. ASSUME NEW v \in Users, user'[v].at \in {"closeLast", "leave", "closeOrphan", "retry"}
        PROVE  watches' # user'[v].sw /\ shared'[user'[v].sw].subs = {}
    <3>1. v # u /\ user'[v] = user[v]
      BY <2>2, <2>4
    <3> QED
      BY <2>1, <2>3, <2>4, <3>1
  <2>5. \A w \in Watches : shared'[w].closed => watches' # w /\ shared'[w].subs = {}
    BY <2>1, <2>a, HubAssumption
  <2> QED
    BY <2>4, <2>5 DEF Closing
<1>5. ASSUME NEW u \in Users, OpenError(u) PROVE Closing'
  BY <1>5 DEF OpenError, At
<1>6. ASSUME NEW u \in Users, Ready(u) PROVE Closing'
  <2>1. At(u, "join") \/ Leaves(u)
    BY <1>6 DEF Ready
  <2>2. UNCHANGED <<watches, shared>>
    BY <1>6 DEF Ready
  <2>3. /\ user'[u].at \in {"join", "out"}
        /\ \A v \in Users : v # u => user'[v] = user[v]
    BY <2>1, AtEffect, LeavesEffect
  <2> QED
    BY <2>2, <2>3
<1>7. ASSUME NEW u \in Users, Join(u) PROVE Closing'
  <2>1. /\ watches = user[u].sw /\ UNCHANGED watches
        /\ user'[u].at = "in" /\ user'[u].sw = user[u].sw
        /\ \A v \in Users : v # u => user'[v] = user[v]
    BY <1>7 DEF Join
  <2>2. \A w \in Watches : shared'[w].closed <=> shared[w].closed
    BY <1>7 DEF Join
  <2>c. \A w \in Watches : w # user[u].sw => shared'[w].subs = shared[w].subs
    BY <1>7 DEF Join
  <2>3. \A v \in Users :
          user[v].at \in {"closeLast", "leave", "closeOrphan", "retry"} =>
             user[v].sw \in Watches /\ user[v].sw # user[u].sw
    BY <2>1
  <2>4. user[u].sw \in Watches /\ ~ shared[user[u].sw].closed
    BY <1>7, <2>1 DEF Join
  <2>a. \A w \in Watches : shared[w].closed => watches # w /\ shared[w].subs = {}
    OBVIOUS
  <2> HIDE DEF HubInv, HubTypeOK, Holding, Opening, Closing
  <2>b. \A v \in Users :
          user[v].at \in {"closeLast", "leave", "closeOrphan", "retry"} =>
             watches # user[v].sw /\ shared[user[v].sw].subs = {}
    BY DEF HubInv, Closing
  <2>5. ASSUME NEW v \in Users, user'[v].at \in {"closeLast", "leave", "closeOrphan", "retry"}
        PROVE  watches' # user'[v].sw /\ shared'[user'[v].sw].subs = {}
    <3>1. v # u /\ user'[v] = user[v]
      BY <2>1, <2>5
    <3> QED
      BY <2>1, <2>3, <2>b, <2>c, <2>5, <3>1
  <2>6. ASSUME NEW w \in Watches, shared'[w].closed
        PROVE  watches' # w /\ shared'[w].subs = {}
    <3>1. shared[w].closed /\ w # user[u].sw
      BY <2>2, <2>4, <2>6
    <3> QED
      BY <2>1, <2>a, <2>c, <3>1
  <2> QED
    BY <2>5, <2>6 DEF Closing
<1>8. ASSUME NEW u \in Users, JoinRefused(u) PROVE Closing'
  <2>1. \/ shared[user[u].sw].subs = {} /\ watches # user[u].sw /\ At(u, "closeOrphan")
        \/ LooksAgain(u)
    BY <1>8 DEF JoinRefused
  <2>2. UNCHANGED <<watches, shared>>
    BY <1>8 DEF JoinRefused
  <2>3. \/ /\ user'[u].at = "closeOrphan" /\ user'[u].sw = user[u].sw
           /\ shared[user[u].sw].subs = {} /\ watches # user[u].sw
        \/ user'[u].at = "look"
    BY <2>1, AtEffect, LooksEffect
  <2>4. \A v \in Users : v # u => user'[v] = user[v]
    BY <2>1, AtEffect, LooksEffect
  <2> QED
    BY <2>2, <2>3, <2>4
<1>9. ASSUME NEW u \in Users, Unsubscribe(u) PROVE Closing'
  <2>1. /\ user[u].at = "in" /\ user[u].sw \in Watches
        /\ watches' = watches \/ watches' = NoWatch
        /\ \A w \in Watches : shared'[w].closed <=> shared[w].closed
        /\ \A w \in Watches : shared'[w].subs \subseteq shared[w].subs
    BY <1>9 DEF Unsubscribe
  <2>2. \/ Leaves(u)
        \/ shared'[user[u].sw].subs = {} /\ watches' # user[u].sw /\ At(u, "closeLast")
    BY <1>9, <2>1 DEF Unsubscribe
  <2>3. \A v \in Users : v # u => user'[v] = user[v]
    BY <2>2, AtEffect, LeavesEffect
  <2>4. \/ user'[u].at = "out"
        \/ user'[u].sw = user[u].sw /\ shared'[user[u].sw].subs = {} /\ watches' # user[u].sw
    BY <2>2, AtEffect, LeavesEffect
  <2>5. \A v \in Users :
          user[v].at \in {"closeLast", "leave", "closeOrphan", "retry"} =>
             /\ user[v].sw \in Watches /\ watches # user[v].sw
             /\ shared'[user[v].sw].subs = {}
    BY <2>1
  <2>a. \A w \in Watches : shared[w].closed => watches # w /\ shared[w].subs = {}
    OBVIOUS
  <2> HIDE DEF HubInv, HubTypeOK, Holding, Opening, Closing
  <2>6. ASSUME NEW v \in Users, user'[v].at \in {"closeLast", "leave", "closeOrphan", "retry"}
        PROVE  watches' # user'[v].sw /\ shared'[user'[v].sw].subs = {}
    <3>1. CASE v = u
      BY <2>4, <2>6, <3>1
    <3>2. CASE v # u
      <4>1. user'[v] = user[v] /\ user[v].sw \in Watches /\ watches # user[v].sw
        BY <2>3, <2>5, <2>6, <3>2
      <4> QED
        BY <2>1, <2>5, <2>6, <4>1
    <3> QED
      BY <3>1, <3>2
  <2>7. ASSUME NEW w \in Watches, shared'[w].closed
        PROVE  watches' # w /\ shared'[w].subs = {}
    <3>1. watches # w /\ shared[w].subs = {}
      BY <2>1, <2>a, <2>7
    <3> QED
      BY <2>1, <3>1, HubAssumption
  <2> QED
    BY <2>6, <2>7 DEF Closing
<1>10. ASSUME NEW u \in Users, CloseWatcher(u) PROVE Closing'
  BY <1>10 DEF CloseWatcher, At
<1>11. ASSUME NEW u \in Users, FanOutDone(u) PROVE Closing'
  BY <1>11 DEF FanOutDone, Leaves, LooksAgain, Away
<1>12. ASSUME NEW w \in Watches, Blind(w) PROVE Closing'
  BY <1>12 DEF Blind
<1>13. ASSUME NEW w \in Watches, FanOutFailed(w) PROVE Closing'
  BY <1>13 DEF FanOutFailed
<1>14. ASSUME NEW w \in Watches, FanOutTell(w) PROVE Closing'
  BY <1>14 DEF FanOutTell
<1>15. ASSUME NEW w \in Watches, FanOutEnd(w) PROVE Closing'
  BY <1>15 DEF FanOutEnd
<1>16. ASSUME UNCHANGED hubVars PROVE Closing'
  BY <1>16 DEF hubVars
<1> QED
  BY <1>1, <1>2, <1>3, <1>4, <1>5, <1>6, <1>7, <1>8, <1>9, <1>10, <1>11, <1>12, <1>13,
     <1>14, <1>15, <1>16 DEF HubNext

\* A watch with subscribers leaves the map by failing alone.
LEMMA NextReplaced == HubInv /\ [HubNext]_hubVars => Replaced'
<1> SUFFICES ASSUME HubInv, [HubNext]_hubVars PROVE Replaced'
  OBVIOUS
<1> USE HubAssumption DEF HubAssumption, HubInv, HubTypeOK, Replaced, Holding, Opening, Closing
<1>1. ASSUME NEW u \in Users, Subscribe(u) PROVE Replaced'
  BY <1>1 DEF Subscribe, At
<1>2. ASSUME NEW u \in Users, Look(u) PROVE Replaced'
  BY <1>2 DEF Look, HasFailed, Unreferenced, NewShared
<1>3. ASSUME NEW u \in Users, Open(u) PROVE Replaced'
  BY <1>3 DEF Open, At
<1>4. ASSUME NEW u \in Users, OpenFails(u) PROVE Replaced'
  BY <1>4 DEF OpenFails, At
<1>5. ASSUME NEW u \in Users, OpenError(u) PROVE Replaced'
  BY <1>5 DEF OpenError, At
<1>6. ASSUME NEW u \in Users, Ready(u) PROVE Replaced'
  BY <1>6 DEF Ready, At, Leaves, Away
<1>7. ASSUME NEW u \in Users, Join(u) PROVE Replaced'
  BY <1>7 DEF Join
<1>8. ASSUME NEW u \in Users, JoinRefused(u) PROVE Replaced'
  BY <1>8 DEF JoinRefused, At, LooksAgain, Away
<1>9. ASSUME NEW u \in Users, Unsubscribe(u) PROVE Replaced'
  BY <1>9 DEF Unsubscribe, At, Leaves, Away
<1>10. ASSUME NEW u \in Users, CloseWatcher(u) PROVE Replaced'
  BY <1>10 DEF CloseWatcher, At
<1>11. ASSUME NEW u \in Users, FanOutDone(u) PROVE Replaced'
  BY <1>11 DEF FanOutDone, Leaves, LooksAgain, Away
<1>12. ASSUME NEW w \in Watches, Blind(w) PROVE Replaced'
  BY <1>12 DEF Blind
<1>13. ASSUME NEW w \in Watches, FanOutFailed(w) PROVE Replaced'
  BY <1>13 DEF FanOutFailed
<1>14. ASSUME NEW w \in Watches, FanOutTell(w) PROVE Replaced'
  BY <1>14 DEF FanOutTell
<1>15. ASSUME NEW w \in Watches, FanOutEnd(w) PROVE Replaced'
  BY <1>15 DEF FanOutEnd
<1>16. ASSUME UNCHANGED hubVars PROVE Replaced'
  BY <1>16 DEF hubVars
<1> QED
  BY <1>1, <1>2, <1>3, <1>4, <1>5, <1>6, <1>7, <1>8, <1>9, <1>10, <1>11, <1>12, <1>13,
     <1>14, <1>15, <1>16 DEF HubNext

\* fanOut ends after Close and not before.
LEMMA NextFanOut == HubInv /\ [HubNext]_hubVars => FanOut'
<1> SUFFICES ASSUME HubInv, [HubNext]_hubVars PROVE FanOut'
  OBVIOUS
<1> USE HubAssumption DEF HubAssumption, HubInv, HubTypeOK, FanOut
<1>1. ASSUME NEW u \in Users, Subscribe(u) PROVE FanOut'
  BY <1>1 DEF Subscribe, At
<1>2. ASSUME NEW u \in Users, Look(u) PROVE FanOut'
  BY <1>2 DEF Look, HasFailed, Unreferenced, NewShared
<1>3. ASSUME NEW u \in Users, Open(u) PROVE FanOut'
  BY <1>3 DEF Open, At
<1>4. ASSUME NEW u \in Users, OpenFails(u) PROVE FanOut'
  BY <1>4 DEF OpenFails, At
<1>5. ASSUME NEW u \in Users, OpenError(u) PROVE FanOut'
  BY <1>5 DEF OpenError, At
<1>6. ASSUME NEW u \in Users, Ready(u) PROVE FanOut'
  BY <1>6 DEF Ready, At, Leaves, Away
<1>7. ASSUME NEW u \in Users, Join(u) PROVE FanOut'
  BY <1>7 DEF Join
<1>8. ASSUME NEW u \in Users, JoinRefused(u) PROVE FanOut'
  BY <1>8 DEF JoinRefused, At, LooksAgain, Away
<1>9. ASSUME NEW u \in Users, Unsubscribe(u) PROVE FanOut'
  BY <1>9 DEF Unsubscribe, At, Leaves, Away
<1>10. ASSUME NEW u \in Users, CloseWatcher(u) PROVE FanOut'
  BY <1>10 DEF CloseWatcher, At
<1>11. ASSUME NEW u \in Users, FanOutDone(u) PROVE FanOut'
  BY <1>11 DEF FanOutDone, Leaves, LooksAgain, Away
<1>12. ASSUME NEW w \in Watches, Blind(w) PROVE FanOut'
  BY <1>12 DEF Blind
<1>13. ASSUME NEW w \in Watches, FanOutFailed(w) PROVE FanOut'
  BY <1>13 DEF FanOutFailed
<1>14. ASSUME NEW w \in Watches, FanOutTell(w) PROVE FanOut'
  BY <1>14 DEF FanOutTell
<1>15. ASSUME NEW w \in Watches, FanOutEnd(w) PROVE FanOut'
  BY <1>15 DEF FanOutEnd
<1>16. ASSUME UNCHANGED hubVars PROVE FanOut'
  BY <1>16 DEF hubVars
<1> QED
  BY <1>1, <1>2, <1>3, <1>4, <1>5, <1>6, <1>7, <1>8, <1>9, <1>10, <1>11, <1>12, <1>13,
     <1>14, <1>15, <1>16 DEF HubNext

\* Who lets go of a watch that is open leaves it to another, or closes it.
LEMMA NextNoLeak == HubInv /\ [HubNext]_hubVars => NoWatcherLeaks'
<1> SUFFICES ASSUME HubInv, [HubNext]_hubVars PROVE NoWatcherLeaks'
  OBVIOUS
<1> USE HubAssumption DEF HubAssumption, HubInv, HubTypeOK, NoWatcherLeaks, Watching, Holding, Opening, Closing, FanOut
<1>1. ASSUME NEW u \in Users, Subscribe(u) PROVE NoWatcherLeaks'
  <2>1. At(u, "look") /\ UNCHANGED shared
    BY <1>1 DEF Subscribe
  <2>2. \A v \in Users : user'[v].sw = user[v].sw
    BY <2>1, AtEffect DEF Places
  <2> QED
    BY <2>1, <2>2
<1>2. ASSUME NEW u \in Users, Look(u) PROVE NoWatcherLeaks'
  BY <1>2 DEF Look, HasFailed, Unreferenced, NewShared
<1>3. ASSUME NEW u \in Users, Open(u) PROVE NoWatcherLeaks'
  BY <1>3 DEF Open, At
<1>4. ASSUME NEW u \in Users, OpenFails(u) PROVE NoWatcherLeaks'
  <2>1. At(u, "error") /\ UNCHANGED shared
    BY <1>4 DEF OpenFails
  <2>2. \A v \in Users : user'[v].sw = user[v].sw
    BY <2>1, AtEffect DEF Places
  <2> QED
    BY <2>1, <2>2
<1>5. ASSUME NEW u \in Users, OpenError(u) PROVE NoWatcherLeaks'
  BY <1>5 DEF OpenError, At
<1>6. ASSUME NEW u \in Users, Ready(u) PROVE NoWatcherLeaks'
  BY <1>6, SMTT(20) DEF Ready, At, Leaves, Away
<1>7. ASSUME NEW u \in Users, Join(u) PROVE NoWatcherLeaks'
  <2>1. \A w \in Watches : shared'[w].ready = shared[w].ready
    BY <1>7 DEF Join
  <2>2. \A w \in Watches : shared'[w].closed <=> shared[w].closed
    BY <1>7 DEF Join
  <2>3. \A w \in Watches : shared[w].subs \subseteq shared'[w].subs
    BY <1>7 DEF Join
  <2>4. \A v \in Users : user'[v].sw = user[v].sw
    BY <1>7 DEF Join
  <2>5. \A w \in Watches : Watching(w)' <=> Watching(w)
    BY <2>1, <2>2
  <2>6. ASSUME NEW w \in Watches, Watching(w)', shared'[w].subs = {}
        PROVE  \E v \in Users : user'[v].sw = w
    <3>1. Watching(w) /\ shared[w].subs = {}
      BY <2>3, <2>5, <2>6
    <3>2. PICK v \in Users : user[v].sw = w
      BY <3>1
    <3> QED
      BY <2>4, <3>2
  <2> QED
    BY <2>6
<1>8. ASSUME NEW u \in Users, JoinRefused(u) PROVE NoWatcherLeaks'
  BY <1>8 DEF JoinRefused, At, LooksAgain, Away
<1>9. ASSUME NEW u \in Users, Unsubscribe(u) PROVE NoWatcherLeaks'
  <2>1. user[u].at = "in" /\ user[u].sw \in Watches
    BY <1>9 DEF Unsubscribe
  <2>a. \A w \in Watches : shared'[w].ready = shared[w].ready
    BY <1>9, <2>1 DEF Unsubscribe
  <2>b. \A w \in Watches : shared'[w].closed <=> shared[w].closed
    BY <1>9, <2>1 DEF Unsubscribe
  <2>c. \A w \in Watches : w # user[u].sw => shared'[w].subs = shared[w].subs
    BY <1>9, <2>1 DEF Unsubscribe
  <2>d. \A w \in Watches : Watching(w)' <=> Watching(w)
    BY <2>a, <2>b
  <2>3. (shared'[user[u].sw].subs # {} /\ Leaves(u)) \/ At(u, "closeLast")
    BY <1>9, <2>1 DEF Unsubscribe
  <2>4. \A v \in Users : v # u => user'[v] = user[v]
    BY <2>3, AtEffect, LeavesEffect DEF Places
  <2>5. shared'[user[u].sw].subs # {} \/ user'[u].sw = user[u].sw
    BY <2>3, AtEffect DEF Places
  <2>6. ASSUME NEW w \in Watches, Watching(w)', shared'[w].subs = {}
        PROVE  \E v \in Users : user'[v].sw = w
    <3>1. CASE w = user[u].sw
      BY <2>5, <2>6, <3>1
    <3>2. CASE w # user[u].sw
      <4>0. Watching(w) /\ shared[w].subs = {}
        BY <2>c, <2>d, <2>6, <3>2
      <4>1. PICK v \in Users : user[v].sw = w
        BY <4>0
      <4> QED
        BY <2>4, <3>2, <4>1
    <3> QED
      BY <3>1, <3>2
  <2> QED
    BY <2>6
<1>10. ASSUME NEW u \in Users, CloseWatcher(u) PROVE NoWatcherLeaks'
  BY <1>10 DEF CloseWatcher, At
<1>11. ASSUME NEW u \in Users, FanOutDone(u) PROVE NoWatcherLeaks'
  <2>1. /\ user[u].sw \in Watches /\ UNCHANGED shared
        /\ fan[user[u].sw] = "done"
        /\ Leaves(u) \/ LooksAgain(u)
    <3>1. user[u].at \in {"leave", "retry"} /\ fan[user[u].sw] = "done" /\ UNCHANGED shared
      BY <1>11 DEF FanOutDone
    <3>2. Leaves(u) \/ LooksAgain(u)
      BY <1>11 DEF FanOutDone
    <3> QED
      BY <3>1, <3>2
  <2>2. shared[user[u].sw].closed
    BY <2>1
  <2>3. \A v \in Users : v # u => user'[v] = user[v]
    BY <2>1, LeavesEffect, LooksEffect
  <2>4. ASSUME NEW w \in Watches, Watching(w)', shared'[w].subs = {}
        PROVE  \E v \in Users : user'[v].sw = w
    <3>1. w # user[u].sw /\ Watching(w)
      BY <2>1, <2>2, <2>4
    <3>2. PICK v \in Users : user[v].sw = w
      BY <2>1, <2>4, <3>1
    <3> QED
      BY <2>3, <3>1, <3>2
  <2> QED
    BY <2>4
<1>12. ASSUME NEW w \in Watches, Blind(w) PROVE NoWatcherLeaks'
  BY <1>12 DEF Blind
<1>13. ASSUME NEW w \in Watches, FanOutFailed(w) PROVE NoWatcherLeaks'
  BY <1>13 DEF FanOutFailed
<1>14. ASSUME NEW w \in Watches, FanOutTell(w) PROVE NoWatcherLeaks'
  <2>1. \A u \in Users : user'[u].sw = user[u].sw
    BY <1>14 DEF FanOutTell
  <2> QED
    BY <1>14, <2>1, SMTT(20) DEF FanOutTell
<1>15. ASSUME NEW w \in Watches, FanOutEnd(w) PROVE NoWatcherLeaks'
  BY <1>15 DEF FanOutEnd
<1>16. ASSUME UNCHANGED hubVars PROVE NoWatcherLeaks'
  BY <1>16 DEF hubVars
<1> QED
  BY <1>1, <1>2, <1>3, <1>4, <1>5, <1>6, <1>7, <1>8, <1>9, <1>10, <1>11, <1>12, <1>13,
     <1>14, <1>15, <1>16 DEF HubNext

\* A subscription is told by fanOut, or as it joins.
LEMMA NextTold == HubInv /\ [HubNext]_hubVars => FailureReachesAll'
<1> SUFFICES ASSUME HubInv, [HubNext]_hubVars PROVE FailureReachesAll'
  OBVIOUS
<1> USE HubAssumption DEF HubAssumption, HubInv, HubTypeOK, FailureReachesAll, Places, Holding, Opening
<1>1. ASSUME NEW u \in Users, Subscribe(u) PROVE FailureReachesAll'
  BY <1>1 DEF Subscribe, At
<1>2. ASSUME NEW u \in Users, Look(u) PROVE FailureReachesAll'
  BY <1>2 DEF Look, HasFailed, Unreferenced, NewShared
<1>3. ASSUME NEW u \in Users, Open(u) PROVE FailureReachesAll'
  BY <1>3 DEF Open, At
<1>4. ASSUME NEW u \in Users, OpenFails(u) PROVE FailureReachesAll'
  BY <1>4 DEF OpenFails, At
<1>5. ASSUME NEW u \in Users, OpenError(u) PROVE FailureReachesAll'
  BY <1>5 DEF OpenError, At
<1>6. ASSUME NEW u \in Users, Ready(u) PROVE FailureReachesAll'
  <2>1. /\ user[u].at = "wait" /\ UNCHANGED <<shared, fan>>
        /\ At(u, "join") \/ Leaves(u)
    BY <1>6 DEF Ready
  <2>2. \A v \in Users : v # u => user'[v] = user[v]
    BY <2>1, AtEffect, LeavesEffect
  <2>3. \A w \in Watches : u \notin shared[w].subs
    BY <2>1
  <2> QED
    BY <2>1, <2>2, <2>3
<1>7. ASSUME NEW u \in Users, Join(u) PROVE FailureReachesAll'
  BY <1>7 DEF Join
<1>8. ASSUME NEW u \in Users, JoinRefused(u) PROVE FailureReachesAll'
  BY <1>8 DEF JoinRefused, At, LooksAgain, Away
<1>9. ASSUME NEW u \in Users, Unsubscribe(u) PROVE FailureReachesAll'
  BY <1>9 DEF Unsubscribe, At, Leaves, Away
<1>10. ASSUME NEW u \in Users, CloseWatcher(u) PROVE FailureReachesAll'
  BY <1>10 DEF CloseWatcher, At
<1>11. ASSUME NEW u \in Users, FanOutDone(u) PROVE FailureReachesAll'
  BY <1>11 DEF FanOutDone, Leaves, LooksAgain, Away
<1>12. ASSUME NEW w \in Watches, Blind(w) PROVE FailureReachesAll'
  BY <1>12 DEF Blind
<1>13. ASSUME NEW w \in Watches, FanOutFailed(w) PROVE FailureReachesAll'
  BY <1>13 DEF FanOutFailed
<1>14. ASSUME NEW w \in Watches, FanOutTell(w) PROVE FailureReachesAll'
  BY <1>14 DEF FanOutTell
<1>15. ASSUME NEW w \in Watches, FanOutEnd(w) PROVE FailureReachesAll'
  BY <1>15 DEF FanOutEnd
<1>16. ASSUME UNCHANGED hubVars PROVE FailureReachesAll'
  BY <1>16 DEF hubVars
<1> QED
  BY <1>1, <1>2, <1>3, <1>4, <1>5, <1>6, <1>7, <1>8, <1>9, <1>10, <1>11, <1>12, <1>13,
     <1>14, <1>15, <1>16 DEF HubNext

-----------------------------------------------------------------------------
(* The theorems.                                                             *)

LEMMA HubInitInv == HubInit => HubInv
BY HubAssumption DEF HubAssumption, HubInit, HubInv, HubTypeOK, Places, NewShared, Away, Holding, Opening,
   Closing, Replaced, FanOut, NoWatcherLeaks, Watching, FailureReachesAll

LEMMA HubNextInv == HubInv /\ [HubNext]_hubVars => HubInv'
  BY HubNextType, NextHolding, NextOpening, NextClosing, NextReplaced, NextFanOut, NextNoLeak,
     NextTold DEF HubInv

LEMMA HubInductive == HubSpec => []HubInv
  BY HubInitInv, HubNextInv, PTL DEF HubSpec

\* Every variable of the hub keeps its type.
THEOREM HubTypeCorrect == HubSpec => []HubTypeOK
<1>1. HubInv => HubTypeOK
  BY DEF HubInv
<1> QED
  BY HubInductive, <1>1, PTL

\* The watcher of a subscriber stays open, and only a failed one is left beside
\* another: the watch of the map is the one that joins are to.
THEOREM Sharing == HubSpec => []SubscribersShare
<1>1. HubInv => SubscribersShare
  <2> SUFFICES ASSUME HubInv PROVE SubscribersShare
    OBVIOUS
  <2>1. ASSUME NEW w \in Watches, shared[w].subs # {} PROVE Watching(w)
    <3>1. PICK u \in Users : u \in shared[w].subs
      BY <2>1 DEF HubInv, HubTypeOK
    <3>2. shared[w].ready = "open"
      BY <3>1 DEF HubInv, Holding
    <3> QED
      BY <2>1, <3>2 DEF HubInv, Closing, Watching
  <2> QED
    BY <2>1 DEF HubInv, Replaced, SubscribersShare
<1> QED
  BY HubInductive, <1>1, PTL

\* Whoever leaves, fails or comes too late, an open watcher is somebody's.
THEOREM NoLeak == HubSpec => []NoWatcherLeaks
<1>1. HubInv => NoWatcherLeaks
  BY DEF HubInv
<1> QED
  BY HubInductive, <1>1, PTL

\* A failure reaches those that join while it is handed out.
THEOREM FailuresReach == HubSpec => []FailureReachesAll
<1>1. HubInv => FailureReachesAll
  BY DEF HubInv
<1> QED
  BY HubInductive, <1>1, PTL

-----------------------------------------------------------------------------
(* Both in one daemon.                                                     *)

\* No step of the locks or of the watcher of a root leaves the types of either: a
\* daemon in which a session does the one while nobody touches the other.
THEOREM SharedTypeCorrect == SharedSpec => []SharedTypeOK
<1> DEFINE Both == IInv /\ HubInv
<1>1. SharedInit => Both
  BY InitIInv, HubInitInv DEF SharedInit
<1>2. Both /\ [SharedNext]_<<thing, vars, hubVars>> => Both'
  <2> SUFFICES ASSUME Both, [SharedNext]_<<thing, vars, hubVars>> PROVE Both'
    OBVIOUS
  <2>1. [Next]_vars /\ [HubNext]_hubVars
    BY DEF SharedNext
  <2> QED
    BY <2>1, NextIInv, HubNextInv
<1>3. Both => SharedTypeOK
  BY DEF IInv, HubInv, SharedTypeOK
<1> QED
  BY <1>1, <1>2, <1>3, PTL DEF SharedSpec
=============================================================================
