------------------------ MODULE WorkspacePool_proofs ------------------------
(* Theorems about WorkspacePool.  Base is inductive whatever races occur:    *)
(* who admits holds p.mu and finds its entry as it left it, a teardown is    *)
(* in the hands of whoever holds p.mu, and the states of an entry agree with *)
(* its supervisor.  MapBase adds what is in the map, and ReaderInv, ErrInv   *)
(* and PinInv who reads a start's failure, which failures are yet to be      *)
(* acted on, and which entry a pin names.  ClientInv and PubInv add, when no *)
(* handshake ends inside a teardown, that a client somebody can reach is the *)
(* one of a server that runs and is not being stopped.                       *)
EXTENDS WorkspacePool, FiniteSetTheorems, TLAPS

Admitting(s) == At(s, "admit") \/ At(s, "start")

\* Who admits holds the lock, and there is a start left for it; a teardown
\* belongs to the session that admits, or to the reaper or the janitor.
LockInv ==
    /\ \A s \in Sessions : Admitting(s) =>
          lock = s /\ \A e \in Entries : starts[e] < MaxStarts
    /\ teardown # None => IF teardown.why = "admit" THEN lock \in Sessions /\ Admitting(lock)
                          ELSE lock = Pool

\* What a teardown was begun on.
TearInv ==
    teardown # None =>
        /\ teardown.why = "admit" => Running(teardown.entry)
        /\ teardown.why # "reap" => key[teardown.entry] # None

\* The entry an acquire found hibernated stays so until it is woken.
AdmitInv ==
    \A s \in Sessions : Admitting(s) /\ entries[call[s].want] # None =>
        state[entries[call[s].want]] = "hibernated"

\* An entry's state against its key, its hibernation and its supervisor.
StateInv ==
    \A e \in Entries :
        /\ key[e] = None => state[e] \in {"new", "gone"}
        /\ hib[e] # "no" => state[e] = "hibernating"
        /\ Running(e) /\ closing[e] = "no" => ~ stop[e]
        /\ state[e] = "hibernated" => sup[e] = "off"
        /\ sup[e] # "off" => starts[e] # 0

\* A call knows its key, past its acquire it has an entry, and so has a session
\* that is pinned.
Bound(s) ==
    /\ call[s].pc \in {"begin", "missed", "ready", "borrow", "wait", "use", "ended"} =>
          call[s].ent \in Entries
    /\ call[s].pc \in {"ready", "use"} => call[s].got # 0
    /\ call[s].pc \notin {"out", "idle", "leaving"} => call[s].want \in Keys
    /\ pinned[s] # None => primary[s] \in Entries
CallInv == \A s \in Sessions : Bound(s)

Base == TypeOK /\ LockInv /\ TearInv /\ AdmitInv /\ StateInv /\ CallInv

\* A client, unless its start was reported failed, is the one of a server that
\* runs and that nobody is stopping.
Good(e, c) ==
    c # 0 /\ closing[e] # "fail" =>
        c = starts[e] /\ Running(e) /\ ~ stop[e] /\ hib[e] = "no" /\ closing[e] = "no"

\* Every client somebody can reach is good: the published ones, the one a
\* teardown may give back, and those that calls use.
ClientInv ==
    /\ \A e \in Entries : Good(e, client[e])
    /\ teardown # None => /\ client[teardown.entry] = 0
                          /\ Good(teardown.entry, teardown.client)
    /\ \A s \in Sessions : At(s, "use") =>
          Good(call[s].ent, call[s].got)

\* The client of a server past its handshake is published, or with a teardown.
PubInv ==
    \A e \in Entries : Running(e) /\ sup[e] \in {"mark", "serving"} =>
        IF InTeardown(e) THEN teardown.client = starts[e] ELSE client[e] = starts[e]

\* A timer or a goroutine is on its way to e's teardown.
Timed(e) == armed[e] \/ fired[e] \/ asked[e]

\* The map and the entries' keys agree, and an entry not built yet is untouched.
KeyInv ==
    /\ \A k \in Keys : entries[k] # None => key[entries[k]] = k
    /\ \A e \in Entries : key[e] = None =>
          /\ closing[e] = "no" /\ starts[e] = 0 /\ ~ Timed(e)
          /\ \A i \in 1..MaxStarts : <<e, i>> \notin errs

\* An entry in the map has not been closed, and one that is being hibernated has
\* a goroutine that does it.
MapInv ==
    \A e \in Entries : Mapped(e) =>
        /\ closing[e] = "no" /\ state[e] \notin {"new", "gone"}
        /\ state[e] = "hibernating" => hib[e] # "no"

\* A reap began on an entry nobody leased, any other teardown on one in the map;
\* so it stays until the decision.
TearMap ==
    teardown # None =>
        /\ key[teardown.entry] # None
        /\ IF teardown.why = "reap" THEN ~ Held(teardown.entry) ELSE Mapped(teardown.entry)

MapBase == Base /\ KeyInv /\ MapInv /\ TearMap

\* Somebody reads, or will read, the channel of e's last start.
HasReader(e) ==
    \/ <<e, starts[e]>> \in drains
    \/ \E s \in Sessions : At(s, "ready") /\ call[s].ent = e /\ call[s].got = starts[e]

\* A first start that is under way has a reader, and keeps it when it fails.
ReaderInv ==
    \A e \in Entries : Mapped(e) /\ hib[e] = "no" /\ sup[e] \in {"handshake", "failed"} =>
        /\ HasReader(e)
        /\ sup[e] = "failed" => <<e, starts[e]>> \in errs

\* Some entry of the key failed to start while sessions held leases on it.
LostKey(k) == \E f \in Entries : key[f] = k /\ closing[f] = "fail" /\ Held(f)

\* A session that attaches pins nothing yet.  Unless leases of its key were lost,
\* the key it pins has an entry, and the one it is about to pin is that entry.
PinInv ==
    /\ \A s \in Sessions :
        /\ call[s].pinning \/ call[s].pc \in {"out", "leaving"} => pinned[s] = None
        /\ At(s, "ready") => key[call[s].ent] = call[s].want
        /\ At(s, "ready") /\ call[s].pinning /\ ~ LostKey(call[s].want) =>
              entries[call[s].want] = call[s].ent
        /\ pinned[s] # None /\ ~ LostKey(pinned[s]) => entries[pinned[s]] # None
    /\ \A e \in Entries : key[e] = None => refs[e] = 0 /\ \A s \in Sessions : e \notin borrowed[s]

\* A failure yet to be acted on is that of the last start, which has ended; who
\* wakes an entry found none.
ErrInv ==
    /\ \A e \in Entries : \A i \in 1..MaxStarts :
          <<e, i>> \in errs /\ Mapped(e) => i = starts[e] /\ LoopEnded(e)
    /\ \A s \in Sessions : Admitting(s) /\ entries[call[s].want] # None =>
          \A i \in 1..MaxStarts : <<entries[call[s].want], i>> \notin errs

-----------------------------------------------------------------------------
\* As long as all starts together are fewer than the bound, so are an entry's.
LEMMA StartsBelow ==
  ASSUME TypeOK, NEW e \in Entries,
         Cardinality({d \in Entries \X (1..MaxStarts) : d[2] <= starts[d[1]]}) < MaxStarts
  PROVE  starts[e] < MaxStarts
<1> DEFINE S == {d \in Entries \X (1..MaxStarts) : d[2] <= starts[d[1]]}
<1> USE BoundsAssumption
<1>1. starts[e] \in 0..MaxStarts /\ MaxStarts \in Nat \ {0}
  BY DEF TypeOK
<1>2. IsFiniteSet(1..MaxStarts) /\ Cardinality(1..MaxStarts) = MaxStarts
  BY FS_Interval
<1>3. IsFiniteSet(Entries \X (1..MaxStarts))
  BY <1>2, EntriesAssumption, FS_Product
<1>4. S \in SUBSET (Entries \X (1..MaxStarts))
  OBVIOUS
<1>5. IsFiniteSet(S) /\ Cardinality(S) \in Nat
  <2>1. IsFiniteSet(S)
    BY <1>3, <1>4, FS_Subset
  <2> QED
    BY <2>1, FS_CardinalityType
<1>6. ASSUME starts[e] = MaxStarts PROVE FALSE
  <2> DEFINE f == [i \in 1..MaxStarts |-> <<e, i>>]
  <2>1. \A i \in 1..MaxStarts : f[i] \in S
    BY <1>6, <1>1
  <2>2. f \in Injection(1..MaxStarts, S)
    <3>1. f \in [1..MaxStarts -> S]
      BY <2>1
    <3>2. \A i, j \in 1..MaxStarts : f[i] = f[j] => i = j
      OBVIOUS
    <3> HIDE DEF S, f
    <3> QED
      BY <3>1, <3>2 DEF Injection, IsInjective
  <2>3. Cardinality(1..MaxStarts) <= Cardinality(S)
    <3> HIDE DEF S, f
    <3> QED
      BY <2>2, <1>5, FS_Injection
  <2> QED
    BY <2>3, <1>2, <1>5
<1> QED
  BY <1>1, <1>6

-----------------------------------------------------------------------------
(* What the helpers do to a call's record.                                   *)
LEMMA PcType ==
  ASSUME TypeOK, NEW s \in Sessions, NEW p \in Pcs, To(s, p)
  PROVE  call' \in [Sessions -> Calls]
<1> DEFINE r == [call[s] EXCEPT !.pc = p]
<1>1. call[s] \in Calls
  BY DEF TypeOK
<1>2. r \in Calls
  BY <1>1 DEF Calls
<1>3. call' = [call EXCEPT ![s] = r]
  BY DEF To
<1> QED
  BY <1>2, <1>3 DEF TypeOK

\* A call at rest is a well-formed record.
LEMMA QuietType ==
  ASSUME NEW p \in Pcs
  PROVE  Quiet(p) \in Calls
BY BoundsAssumption DEF Quiet, Calls

\* The fields of a call's record have their types.
LEMMA CallFields ==
  ASSUME TypeOK, NEW s \in Sessions
  PROVE  /\ call[s] \in Calls
         /\ call[s].pc \in Pcs /\ call[s].pinning \in BOOLEAN
         /\ call[s].want \in Keys \cup {None} /\ call[s].ent \in Entries \cup {None}
         /\ call[s].got \in 0..MaxStarts
BY DEF TypeOK, Calls

\* An acquire that ended well leaves the calls and the pins well formed.
LEMMA AcquiredType ==
  ASSUME TypeOK, NEW s \in Sessions, NEW e \in Entries, Acquired(s, e)
  PROVE  /\ call' \in [Sessions -> Calls]
         /\ pinned' \in [Sessions -> Keys \cup {None}]
         /\ primary' \in [Sessions -> Entries \cup {None}]
<1>1. CASE call[s].pinning
  <2>1. /\ call' = [call EXCEPT ![s] = Quiet("idle")]
        /\ pinned' = [pinned EXCEPT ![s] = call[s].want]
        /\ primary' = [primary EXCEPT ![s] = e]
    BY <1>1 DEF Acquired
  <2>2. Quiet("idle") \in Calls
    BY QuietType DEF Pcs
  <2> QED
    BY <2>1, <2>2, CallFields DEF TypeOK
<1>2. CASE ~ call[s].pinning
  <2>1. /\ call' = [call EXCEPT ![s].pc = "borrow", ![s].ent = e, ![s].got = 0]
        /\ UNCHANGED <<pinned, primary>>
    BY <1>2 DEF Acquired
  <2> DEFINE r == [call[s] EXCEPT !.pc = "borrow", !.ent = e, !.got = 0]
  <2>2. "borrow" \in Pcs /\ 0 \in 0..MaxStarts
    BY BoundsAssumption DEF Pcs
  <2>3. call[s] \in Calls
    BY CallFields
  <2>4. r \in Calls
    BY <2>2, <2>3 DEF Calls
  <2>5. call' = [call EXCEPT ![s] = r]
    BY <2>1
  <2>6. call' \in [Sessions -> Calls]
    BY <2>4, <2>5 DEF TypeOK
  <2> QED
    BY <2>1, <2>6 DEF TypeOK
<1> QED
  BY <1>1, <1>2

\* A call that gives its lease back leaves the calls well formed.
LEMMA EndLeaseType ==
  ASSUME TypeOK, NEW s \in Sessions, EndLease(s)
  PROVE  call' \in [Sessions -> Calls]
<1>1. {"missed", "ended", "acquire", "idle"} \subseteq Pcs
  BY DEF Pcs
<1>2. ASSUME NEW p \in Pcs, To(s, p) PROVE call' \in [Sessions -> Calls]
  BY <1>2, PcType
<1>3. ASSUME call' = [call EXCEPT ![s] = Quiet("idle")] PROVE call' \in [Sessions -> Calls]
  <2>1. Quiet("idle") \in Calls
    BY <1>1, QuietType
  <2> QED
    BY <1>3, <2>1 DEF TypeOK
<1>4. \/ To(s, "missed") \/ To(s, "ended") \/ To(s, "acquire")
      \/ call' = [call EXCEPT ![s] = Quiet("idle")]
  BY DEF EndLease
<1> QED
  BY <1>1, <1>2, <1>3, <1>4

\* An entry that leaves the map leaves its variables well formed.
LEMMA LeaveType ==
  ASSUME TypeOK, NEW e \in Entries, NEW why \in {"reap", "fail"}, Leave(e, why)
  PROVE  /\ entries' \in [Keys -> Entries \cup {None}]
         /\ closing' \in [Entries -> {"no", "reap", "fail"}]
         /\ state' \in [Entries -> States]
         /\ hib' \in [Entries -> {"no", "stop", "wait"}]
         /\ armed' \in [Entries -> BOOLEAN] /\ fired' \in [Entries -> BOOLEAN]
         /\ asked' \in [Entries -> BOOLEAN]
BY DEF TypeOK, Leave, States

\* A released lease never takes a count below zero.
LEMMA UnleaseType ==
  ASSUME TypeOK, NEW e \in Entries, Unlease(e)
  PROVE  refs' \in [Entries -> Nat] /\ armed' \in [Entries -> BOOLEAN]
<1>1. refs' \in [Entries -> Nat]
  BY DEF TypeOK, Unlease, Held
<1>2. armed' \in [Entries -> BOOLEAN]
  BY Zenon DEF TypeOK, Unlease
<1> QED
  BY <1>1, <1>2

\* A taken lease leaves the counts well formed.
LEMMA TakeLeaseType ==
  ASSUME TypeOK, NEW e \in Entries, NEW s \in Sessions, TakeLease(s, e)
  PROVE  refs' \in [Entries -> Nat] /\ armed' \in [Entries -> BOOLEAN]
BY DEF TypeOK, TakeLease

-----------------------------------------------------------------------------
\* All the invariants hold before the first connection.
LEMMA InitBase == Init => Base /\ ClientInv /\ PubInv
<1> SUFFICES ASSUME Init PROVE Base /\ ClientInv /\ PubInv
  OBVIOUS
<1> USE BoundsAssumption DEF Init
<1>1. Quiet("out") \in Calls /\ Quiet("out").pc = "out"
  BY QuietType DEF Pcs, Quiet
<1>2. call \in [Sessions -> Calls] /\ \A s \in Sessions : call[s].pc = "out"
  BY <1>1
<1>3. /\ armed \in [Entries -> BOOLEAN] /\ fired \in [Entries -> BOOLEAN]
      /\ asked \in [Entries -> BOOLEAN] /\ stop \in [Entries -> BOOLEAN]
  BY Zenon
<1>4. TypeOK
  BY <1>2, <1>3 DEF TypeOK, States
<1>5. \A s \in Sessions : ~ Admitting(s) /\ ~ At(s, "use")
  BY <1>2 DEF Admitting, At
<1> QED
  BY <1>2, <1>4, <1>5 DEF Base, CallInv, Bound, LockInv, TearInv, AdmitInv, StateInv,
     ClientInv, PubInv, Good, Running

-----------------------------------------------------------------------------
(* Every variable keeps its type in every step.                              *)
LEMMA NextType == Base /\ [Next]_vars => TypeOK'
<1> SUFFICES ASSUME Base, [Next]_vars PROVE TypeOK'
  OBVIOUS
<1> USE BoundsAssumption DEF lockVars, leaseVars, reapVars, runVars, startVars, bindVars
<1> TypeOK /\ LockInv /\ StateInv
  BY DEF Base
<1>0. \A s \in Sessions :
        /\ call[s].pc \in {"begin", "missed", "ready", "borrow", "wait", "use", "ended"} =>
              call[s].ent \in Entries
        /\ call[s].pc \in {"ready", "use"} => call[s].got # 0
  BY DEF Base, CallInv, Bound
<1>1. ASSUME NEW s \in Sessions, NEW k \in Keys, Attach(s, k) PROVE TypeOK'
  <2>1. call' \in [Sessions -> Calls]
    <3> DEFINE r == [Quiet("acquire") EXCEPT !.pinning = TRUE, !.want = k]
    <3>0. Quiet("acquire") \in Calls
      BY QuietType DEF Pcs
    <3>1. r \in Calls
      BY <3>0 DEF Calls
    <3>2. call' = [call EXCEPT ![s] = r]
      BY <1>1 DEF Attach
    <3> QED
      BY <3>1, <3>2 DEF TypeOK
  <2>2. UNCHANGED <<entries, lock, teardown, key, state, refs, armed, client, fired,
                    asked, hib, closing, starts, sup, stop, errs, drains, pinned, primary,
                    borrowed>>
    BY <1>1 DEF Attach
  <2> QED
    BY <2>1, <2>2 DEF TypeOK
<1>2. ASSUME NEW s \in Sessions, NEW k \in Keys, Call(s, k) PROVE TypeOK'
  <2>1. call' \in [Sessions -> Calls]
    <3> DEFINE r == [Quiet("begin") EXCEPT !.want = k, !.ent = primary[s]]
              q == [Quiet("acquire") EXCEPT !.want = k]
    <3>1. primary[s] \in Entries \cup {None}
      BY DEF TypeOK
    <3>a. Quiet("begin") \in Calls /\ Quiet("acquire") \in Calls
      BY QuietType DEF Pcs
    <3>2. r \in Calls /\ q \in Calls
      BY <3>1, <3>a DEF Calls
    <3>3. call' = [call EXCEPT ![s] = IF k = pinned[s] THEN r ELSE q]
      BY <1>2 DEF Call
    <3> QED
      BY <3>2, <3>3 DEF TypeOK
  <2>2. UNCHANGED <<entries, lock, teardown, key, state, refs, armed, client, fired,
                    asked, hib, closing, starts, sup, stop, errs, drains, pinned, primary,
                    borrowed>>
    BY <1>2 DEF Call
  <2> QED
    BY <2>1, <2>2 DEF TypeOK
<1>3. ASSUME NEW s \in Sessions, Begin(s) PROVE TypeOK'
  <2>1. call' \in [Sessions -> Calls]
    <3> DEFINE c == client[call[s].ent]
    <3>1. CASE c = 0
      BY <1>3, <3>1, EndLeaseType DEF Begin
    <3>2. CASE c # 0
      <4> DEFINE r == [call[s] EXCEPT !.pc = "use", !.got = c]
      <4>1. c \in 0..MaxStarts
        BY <1>3, <1>0 DEF Begin, TypeOK, At
      <4>2. r \in Calls
        BY <4>1, CallFields DEF Calls, Pcs
      <4>3. call' = [call EXCEPT ![s] = r]
        BY <1>3, <3>2 DEF Begin
      <4> QED
        BY <4>2, <4>3 DEF TypeOK
    <3> QED
      BY <3>1, <3>2
  <2>2. UNCHANGED <<entries, lock, teardown, key, state, refs, armed, client, fired,
                    asked, hib, closing, starts, sup, stop, errs, drains, pinned, primary,
                    borrowed>>
    BY <1>3 DEF Begin
  <2> QED
    BY <2>1, <2>2 DEF TypeOK
<1>4. ASSUME NEW s \in Sessions, CheckHeld(s) PROVE TypeOK'
  <2>1. asked' \in [Entries -> BOOLEAN]
    BY <1>4, Zenon DEF CheckHeld, TypeOK
  <2>2. call' \in [Sessions -> Calls]
    <3>1. Quiet("idle") \in Calls
      BY QuietType DEF Pcs
    <3> DEFINE r == IF call[s].pc = "missed" THEN [call[s] EXCEPT !.pc = "acquire"] ELSE Quiet("idle")
    <3>2. r \in Calls
      BY <3>1, CallFields DEF Calls, Pcs
    <3>3. call' = [call EXCEPT ![s] = r]
      BY <1>4 DEF CheckHeld
    <3> QED
      BY <3>2, <3>3 DEF TypeOK
  <2>3. UNCHANGED <<entries, lock, teardown, key, state, refs, armed, client, fired, hib,
                    closing, starts, sup, stop, errs, drains, pinned, primary, borrowed>>
    BY <1>4 DEF CheckHeld
  <2> QED
    BY <2>1, <2>2, <2>3 DEF TypeOK
<1>5. ASSUME NEW s \in Sessions, Refuse(s) PROVE TypeOK'
  <2>1. call' \in [Sessions -> Calls]
    <3>1. Quiet("idle") \in Calls
      BY QuietType DEF Pcs
    <3> QED
      BY <1>5, <3>1 DEF Refuse, TypeOK
  <2>2. UNCHANGED <<entries, lock, teardown, key, state, refs, armed, client, fired,
                    asked, hib, closing, starts, sup, stop, errs, drains, pinned, primary,
                    borrowed>>
    BY <1>5 DEF Refuse
  <2> QED
    BY <2>1, <2>2 DEF TypeOK
<1>6. ASSUME NEW s \in Sessions, Reuse(s) PROVE TypeOK'
  <2> PICK e \in Entries : TakeLease(s, e) /\ Acquired(s, e)
    BY <1>6 DEF Reuse
  <2>0. TakeLease(s, e) /\ Acquired(s, e)
    OBVIOUS
  <2>1. /\ refs' \in [Entries -> Nat]
        /\ armed' \in [Entries -> BOOLEAN]
    BY <2>0, TakeLeaseType
  <2>2. /\ call' \in [Sessions -> Calls]
        /\ pinned' \in [Sessions -> Keys \cup {None}]
        /\ primary' \in [Sessions -> Entries \cup {None}]
    BY <2>0, AcquiredType
  <2>3. UNCHANGED <<entries, lock, teardown, key, state, client, fired, asked, hib,
                    closing, starts, sup, stop, errs, drains, borrowed>>
    BY <1>6 DEF Reuse
  <2> QED
    BY <2>1, <2>2, <2>3 DEF TypeOK
<1>7. ASSUME NEW s \in Sessions, Admit(s) PROVE TypeOK'
  <2>1. lock' \in Sessions \cup {Pool, None}
    BY <1>7 DEF Admit, TypeOK
  <2>2. call' \in [Sessions -> Calls]
    <3>1. To(s, "admit")
      BY <1>7 DEF Admit
    <3> QED
      BY <3>1, PcType DEF Pcs
  <2>3. UNCHANGED <<entries, teardown, key, state, refs, armed, client, fired, asked, hib,
                    closing, starts, sup, stop, errs, drains, pinned, primary, borrowed>>
    BY <1>7 DEF Admit
  <2> QED
    BY <2>1, <2>2, <2>3 DEF TypeOK
<1>8. ASSUME NEW s \in Sessions, AdmitVictim(s) PROVE TypeOK'
  <2>1. /\ teardown' \in {None} \cup [entry : Entries, client : 0..MaxStarts,
              why : {"admit", "reap", "idle"}]
        /\ client' \in [Entries -> 0..MaxStarts]
    <3> PICK e \in Entries : DropClient(e, "admit")
      BY <1>8 DEF AdmitVictim, Victims
    <3> QED
      BY DEF DropClient, TypeOK
  <2>2. UNCHANGED <<entries, lock, key, state, refs, armed, fired, asked, hib, closing,
                    starts, sup, stop, errs, drains, call, pinned, primary, borrowed>>
    BY <1>8 DEF AdmitVictim
  <2> QED
    BY <2>1, <2>2 DEF TypeOK, Teardowns
<1>9. ASSUME NEW s \in Sessions, Start(s) PROVE TypeOK'
  <2> PICK e \in Entries :
          /\ \/ /\ entries[call[s].want] = None /\ key[e] = None
                /\ key' = [key EXCEPT ![e] = call[s].want]
                /\ entries' = [entries EXCEPT ![call[s].want] = e]
                /\ state' = [state EXCEPT ![e] = "starting"]
             \/ /\ entries[call[s].want] = e
                /\ state' = [state EXCEPT ![e] = "waking"]
                /\ UNCHANGED <<key, entries>>
          /\ StartAsync(e)
          /\ TakeLease(s, e)
          /\ call' = [call EXCEPT ![s].pc = "ready", ![s].ent = e, ![s].got = starts[e] + 1]
    BY <1>9 DEF Start
  <2>0. /\ \/ /\ key' = [key EXCEPT ![e] = call[s].want]
              /\ entries' = [entries EXCEPT ![call[s].want] = e]
              /\ state' = [state EXCEPT ![e] = "starting"]
           \/ /\ state' = [state EXCEPT ![e] = "waking"]
              /\ UNCHANGED <<key, entries>>
        /\ StartAsync(e) /\ TakeLease(s, e)
        /\ call' = [call EXCEPT ![s].pc = "ready", ![s].ent = e, ![s].got = starts[e] + 1]
    OBVIOUS
  <2>w. call[s].want \in Keys \cup {None}
    BY CallFields
  <2>b. starts[e] \in 0..MaxStarts /\ starts[e] + 1 \in 0..MaxStarts
    <3>1. At(s, "admit") \/ At(s, "start")
      BY <1>9 DEF Start
    <3> QED
      BY <3>1 DEF TypeOK, LockInv, Admitting
  <2>1. /\ lock' \in Sessions \cup {Pool, None}
        /\ teardown' \in {None} \cup [entry : Entries, client : 0..MaxStarts,
              why : {"admit", "reap", "idle"}]
    BY <1>9 DEF Start, TypeOK
  <2>2. /\ refs' \in [Entries -> Nat]
        /\ armed' \in [Entries -> BOOLEAN]
    BY <2>0, TakeLeaseType
  <2>3. /\ key' \in [Entries -> Keys \cup {None}]
        /\ entries' \in [Keys -> Entries \cup {None}]
        /\ state' \in [Entries -> States]
    BY <2>0, <2>w, SMTT(20) DEF TypeOK, States
  <2>4. starts' \in [Entries -> 0..MaxStarts]
    BY <2>0, <2>b DEF TypeOK, StartAsync
  <2>5. sup' \in [Entries -> {"off", "handshake", "mark", "serving", "failed"}]
    BY <2>0 DEF TypeOK, StartAsync
  <2>6. stop' \in [Entries -> BOOLEAN]
    BY <2>0, Zenon DEF TypeOK, StartAsync
  <2>7. call' \in [Sessions -> Calls]
    <3> DEFINE r == [call[s] EXCEPT !.pc = "ready", !.ent = e, !.got = starts[e] + 1]
    <3>1. r \in Calls
      BY <2>b, CallFields DEF Calls, Pcs
    <3>2. call' = [call EXCEPT ![s] = r]
      BY <2>0
    <3> QED
      BY <3>1, <3>2 DEF TypeOK
  <2>8. UNCHANGED <<client, fired, asked, hib, closing, errs, drains, pinned, primary,
                    borrowed>>
    BY <1>9 DEF Start
  <2> QED
    BY <2>1, <2>2, <2>3, <2>4, <2>5, <2>6, <2>7, <2>8 DEF TypeOK, Teardowns
<1>10. ASSUME NEW s \in Sessions, ReadyErr(s) PROVE TypeOK'
  <2>0. call[s].ent \in Entries /\ Leave(call[s].ent, "fail")
    BY <1>10 DEF ReadyErr, TypeOK
  <2>1. /\ entries' \in [Keys -> Entries \cup {None}]
        /\ closing' \in [Entries -> {"no", "reap", "fail"}]
        /\ state' \in [Entries -> States]
        /\ hib' \in [Entries -> {"no", "stop", "wait"}]
        /\ armed' \in [Entries -> BOOLEAN]
        /\ fired' \in [Entries -> BOOLEAN]
        /\ asked' \in [Entries -> BOOLEAN]
    BY <2>0, LeaveType
  <2>2. errs' \subseteq Entries \X (1..MaxStarts)
    BY <1>10 DEF ReadyErr, TypeOK
  <2>3. call' \in [Sessions -> Calls]
    <3>1. Quiet("idle") \in Calls
      BY QuietType DEF Pcs
    <3> QED
      BY <1>10, <3>1, EndLeaseType DEF ReadyErr, TypeOK
  <2>4. UNCHANGED <<lock, teardown, key, refs, client, starts, sup, stop, drains, pinned,
                    primary, borrowed>>
    BY <1>10 DEF ReadyErr
  <2> QED
    BY <2>1, <2>2, <2>3, <2>4 DEF TypeOK
<1>11. ASSUME NEW s \in Sessions, ReadyOrLater(s) PROVE TypeOK'
  <2>0. call[s].ent \in Entries /\ call[s].got \in 1..MaxStarts
    BY <1>11, <1>0, CallFields DEF ReadyOrLater, At
  <2>1. drains' \subseteq Entries \X (1..MaxStarts)
    BY <1>11, <2>0 DEF ReadyOrLater, TypeOK
  <2>2. /\ call' \in [Sessions -> Calls]
        /\ pinned' \in [Sessions -> Keys \cup {None}]
        /\ primary' \in [Sessions -> Entries \cup {None}]
    BY <1>11, <2>0, AcquiredType DEF ReadyOrLater
  <2>3. UNCHANGED <<entries, lock, teardown, key, state, refs, armed, client, fired,
                    asked, hib, closing, starts, sup, stop, errs, borrowed>>
    BY <1>11 DEF ReadyOrLater
  <2> QED
    BY <2>1, <2>2, <2>3 DEF TypeOK
<1>12. ASSUME NEW s \in Sessions, Borrow(s) PROVE TypeOK'
  <2>1. refs' \in [Entries -> Nat]
    BY <1>12 DEF Borrow, TypeOK
  <2>2. armed' \in [Entries -> BOOLEAN]
    BY <1>12 DEF Borrow, TypeOK
  <2>3. borrowed' \in [Sessions -> SUBSET Entries]
    BY <1>12, <1>0 DEF Borrow, TypeOK, At
  <2>4. call' \in [Sessions -> Calls]
    <3>1. To(s, "wait")
      BY <1>12 DEF Borrow
    <3> QED
      BY <3>1, PcType DEF Pcs
  <2>5. UNCHANGED <<entries, lock, teardown, key, state, client, fired, asked, hib,
                    closing, starts, sup, stop, errs, drains, pinned, primary>>
    BY <1>12 DEF Borrow
  <2> QED
    BY <2>1, <2>2, <2>3, <2>4, <2>5 DEF TypeOK
<1>13. ASSUME NEW s \in Sessions, GetClient(s) PROVE TypeOK'
  <2>0. client[call[s].ent] \in 0..MaxStarts
    BY <1>13, <1>0 DEF GetClient, TypeOK, At
  <2>1. call' \in [Sessions -> Calls]
    <3> DEFINE r == [call[s] EXCEPT !.pc = "use", !.got = client[call[s].ent]]
    <3>1. r \in Calls
      BY <1>13, CallFields, <2>0 DEF Calls, Pcs
    <3>2. call' = [call EXCEPT ![s] = r]
      BY <1>13 DEF GetClient
    <3> QED
      BY <3>1, <3>2 DEF TypeOK
  <2>2. UNCHANGED <<entries, lock, teardown, key, state, refs, armed, client, fired,
                    asked, hib, closing, starts, sup, stop, errs, drains, pinned, primary,
                    borrowed>>
    BY <1>13 DEF GetClient
  <2> QED
    BY <2>1, <2>2 DEF TypeOK
<1>14. ASSUME NEW s \in Sessions, EndCall(s) PROVE TypeOK'
  <2>1. call' \in [Sessions -> Calls]
    BY <1>14, EndLeaseType DEF EndCall
  <2>2. UNCHANGED <<entries, lock, teardown, key, state, refs, armed, client, fired,
                    asked, hib, closing, starts, sup, stop, errs, drains, pinned, primary,
                    borrowed>>
    BY <1>14 DEF EndCall
  <2> QED
    BY <2>1, <2>2 DEF TypeOK
<1>15. ASSUME NEW s \in Sessions, Detach(s) PROVE TypeOK'
  <2>1. call' \in [Sessions -> Calls]
    <3>1. To(s, "leaving")
      BY <1>15 DEF Detach
    <3> QED
      BY <3>1, PcType DEF Pcs
  <2>2. pinned' \in [Sessions -> Keys \cup {None}]
    BY <1>15 DEF Detach, TypeOK
  <2>3. primary' \in [Sessions -> Entries \cup {None}]
    BY <1>15 DEF Detach, TypeOK
  <2>4. /\ refs' \in [Entries -> Nat]
        /\ armed' \in [Entries -> BOOLEAN]
    BY <1>15, UnleaseType DEF Detach, TypeOK, leaseVars
  <2>5. UNCHANGED <<entries, lock, teardown, key, state, client, fired, asked, hib,
                    closing, starts, sup, stop, errs, drains, borrowed>>
    BY <1>15 DEF Detach
  <2> QED
    BY <2>1, <2>2, <2>3, <2>4, <2>5 DEF TypeOK
<1>16. ASSUME NEW s \in Sessions, Unborrow(s) PROVE TypeOK'
  <2>1. borrowed' \in [Sessions -> SUBSET Entries]
    BY <1>16 DEF Unborrow, TypeOK
  <2>2. /\ refs' \in [Entries -> Nat]
        /\ armed' \in [Entries -> BOOLEAN]
    BY <1>16, UnleaseType DEF Unborrow, TypeOK, leaseVars
  <2>3. UNCHANGED <<entries, lock, teardown, key, state, client, fired, asked, hib,
                    closing, starts, sup, stop, errs, drains, call, pinned, primary>>
    BY <1>16 DEF Unborrow
  <2> QED
    BY <2>1, <2>2, <2>3 DEF TypeOK
<1>17. ASSUME NEW s \in Sessions, Gone(s) PROVE TypeOK'
  <2>1. call' \in [Sessions -> Calls]
    <3>1. To(s, "out")
      BY <1>17 DEF Gone
    <3> QED
      BY <3>1, PcType DEF Pcs
  <2>2. UNCHANGED <<entries, lock, teardown, key, state, refs, armed, client, fired,
                    asked, hib, closing, starts, sup, stop, errs, drains, pinned, primary,
                    borrowed>>
    BY <1>17 DEF Gone
  <2> QED
    BY <2>1, <2>2 DEF TypeOK
<1>18. ASSUME NEW e \in Entries, Fire(e) PROVE TypeOK'
  <2>1. /\ armed' \in [Entries -> BOOLEAN]
        /\ fired' \in [Entries -> BOOLEAN]
    BY <1>18 DEF Fire, TypeOK
  <2>2. UNCHANGED <<entries, lock, teardown, key, state, refs, client, asked, hib,
                    closing, starts, sup, stop, errs, drains, call, pinned, primary,
                    borrowed>>
    BY <1>18 DEF Fire
  <2> QED
    BY <2>1, <2>2 DEF TypeOK
<1>19. ASSUME NEW e \in Entries, ScheduleIdleReap(e) PROVE TypeOK'
  <2>1. asked' \in [Entries -> BOOLEAN]
    BY <1>19, Zenon DEF ScheduleIdleReap, TypeOK
  <2>2. armed' \in [Entries -> BOOLEAN]
    BY <1>19, Zenon DEF ScheduleIdleReap, TypeOK
  <2>3. UNCHANGED <<entries, lock, teardown, key, state, refs, client, fired, hib,
                    closing, starts, sup, stop, errs, drains, call, pinned, primary,
                    borrowed>>
    BY <1>19 DEF ScheduleIdleReap
  <2> QED
    BY <2>1, <2>2, <2>3 DEF TypeOK
<1>20. ASSUME NEW e \in Entries, Reap(e) PROVE TypeOK'
  <2>1. fired' \in [Entries -> BOOLEAN]
    BY <1>20, Zenon DEF Reap, TypeOK
  <2>2. lock' \in Sessions \cup {Pool, None}
    BY <1>20 DEF Reap, TypeOK
  <2>3. /\ teardown' \in {None} \cup [entry : Entries, client : 0..MaxStarts,
              why : {"admit", "reap", "idle"}]
        /\ client' \in [Entries -> 0..MaxStarts]
    <3>1. DropClient(e, "reap") \/ UNCHANGED <<lockVars, client>>
      BY <1>20 DEF Reap
    <3> QED
      BY <3>1 DEF DropClient, TypeOK, Teardowns
  <2>4. UNCHANGED <<entries, key, state, refs, armed, asked, hib, closing, starts, sup,
                    stop, errs, drains, call, pinned, primary, borrowed>>
    BY <1>20 DEF Reap
  <2> QED
    BY <2>1, <2>2, <2>3, <2>4 DEF TypeOK, Teardowns
<1>21. ASSUME NEW e \in Entries, Hibernate(e) PROVE TypeOK'
  <2>1. lock' \in Sessions \cup {Pool, None}
    BY <1>21 DEF Hibernate, TypeOK
  <2>2. /\ teardown' \in {None} \cup [entry : Entries, client : 0..MaxStarts,
              why : {"admit", "reap", "idle"}]
        /\ client' \in [Entries -> 0..MaxStarts]
    <3>1. DropClient(e, "idle")
      BY <1>21 DEF Hibernate
    <3> QED
      BY <3>1 DEF DropClient, TypeOK
  <2>3. UNCHANGED <<entries, key, state, refs, armed, fired, asked, hib, closing, starts,
                    sup, stop, errs, drains, call, pinned, primary, borrowed>>
    BY <1>21 DEF Hibernate
  <2> QED
    BY <2>1, <2>2, <2>3 DEF TypeOK, Teardowns
<1>22. ASSUME NEW e \in Entries, TrimLongHibernated(e) PROVE TypeOK'
  <2>1. fired' \in [Entries -> BOOLEAN]
    BY <1>22, Zenon DEF TrimLongHibernated, TypeOK
  <2>2. UNCHANGED <<entries, lock, teardown, key, state, refs, armed, client, asked, hib,
                    closing, starts, sup, stop, errs, drains, call, pinned, primary,
                    borrowed>>
    BY <1>22 DEF TrimLongHibernated
  <2> QED
    BY <2>1, <2>2 DEF TypeOK
<1>23. ASSUME Decide PROVE TypeOK'
  <2>0. teardown.entry \in Entries /\ teardown.client \in 0..MaxStarts
    BY <1>23 DEF Decide, TypeOK, Teardowns
  <2>1. teardown' \in {None} \cup [entry : Entries, client : 0..MaxStarts,
              why : {"admit", "reap", "idle"}]
    BY <1>23 DEF Decide
  <2>2. lock' \in Sessions \cup {Pool, None}
    BY <1>23 DEF Decide, TypeOK
  <2>3. client' \in [Entries -> 0..MaxStarts]
    BY <1>23 DEF Decide, TypeOK, Teardowns
  <2>4. call' \in [Sessions -> Calls]
    <3>1. (To(lock, "start") /\ lock \in Sessions) \/ call' = call
      BY <1>23 DEF Decide, LockInv
    <3>2. ASSUME To(lock, "start"), lock \in Sessions PROVE call' \in [Sessions -> Calls]
      BY <3>2, PcType DEF Pcs
    <3> QED
      BY <3>1, <3>2 DEF TypeOK
  <2>5. /\ entries' \in [Keys -> Entries \cup {None}]
        /\ closing' \in [Entries -> {"no", "reap", "fail"}]
        /\ state' \in [Entries -> States]
        /\ hib' \in [Entries -> {"no", "stop", "wait"}]
        /\ armed' \in [Entries -> BOOLEAN]
        /\ fired' \in [Entries -> BOOLEAN]
        /\ asked' \in [Entries -> BOOLEAN]
    BY <1>23, <2>0, LeaveType DEF Decide, TypeOK, Teardowns, States
  <2>6. UNCHANGED <<key, refs, starts, sup, stop, errs, drains, pinned, primary, borrowed>>
    BY <1>23 DEF Decide
  <2> QED
    BY <2>1, <2>2, <2>3, <2>4, <2>5, <2>6 DEF TypeOK, Teardowns
<1>24. ASSUME NEW e \in Entries, StopToHibernate(e) PROVE TypeOK'
  <2>1. hib' \in [Entries -> {"no", "stop", "wait"}]
    BY <1>24 DEF StopToHibernate, TypeOK
  <2>2. stop' \in [Entries -> BOOLEAN]
    BY <1>24, Zenon DEF StopToHibernate, Cancel, TypeOK
  <2>3. UNCHANGED <<entries, lock, teardown, key, state, refs, armed, client, fired,
                    asked, closing, starts, sup, errs, drains, call, pinned, primary,
                    borrowed>>
    BY <1>24 DEF StopToHibernate
  <2> QED
    BY <2>1, <2>2, <2>3 DEF TypeOK
<1>25. ASSUME NEW e \in Entries, FinishHibernate(e) PROVE TypeOK'
  <2>1. hib' \in [Entries -> {"no", "stop", "wait"}]
    BY <1>25 DEF FinishHibernate, TypeOK
  <2>2. sup' \in [Entries -> {"off", "handshake", "mark", "serving", "failed"}]
    BY <1>25 DEF FinishHibernate, TypeOK
  <2>3. state' \in [Entries -> States]
    BY <1>25 DEF FinishHibernate, TypeOK, States
  <2>4. UNCHANGED <<entries, lock, teardown, key, refs, armed, client, fired, asked,
                    closing, starts, stop, errs, drains, call, pinned, primary, borrowed>>
    BY <1>25 DEF FinishHibernate
  <2> QED
    BY <2>1, <2>2, <2>3, <2>4 DEF TypeOK
<1>26. ASSUME NEW e \in Entries, StopToClose(e) PROVE TypeOK'
  <2>1. stop' \in [Entries -> BOOLEAN]
    BY <1>26, Zenon DEF StopToClose, Cancel, TypeOK
  <2>2. UNCHANGED <<entries, lock, teardown, key, state, refs, armed, client, fired,
                    asked, hib, closing, starts, sup, errs, drains, call, pinned, primary,
                    borrowed>>
    BY <1>26 DEF StopToClose
  <2> QED
    BY <2>1, <2>2 DEF TypeOK
<1>27. ASSUME NEW e \in Entries, HandshakeFails(e) PROVE TypeOK'
  <2>1. sup' \in [Entries -> {"off", "handshake", "mark", "serving", "failed"}]
    BY <1>27 DEF HandshakeFails, TypeOK
  <2>2. /\ errs' \subseteq Entries \X (1..MaxStarts)
        /\ drains' \subseteq Entries \X (1..MaxStarts)
    <3>1. starts[e] \in 1..MaxStarts
      BY <1>27 DEF HandshakeFails, TypeOK, StateInv
    <3> QED
      BY <1>27, <3>1 DEF HandshakeFails, TypeOK
  <2>3. UNCHANGED <<entries, lock, teardown, key, state, refs, armed, client, fired,
                    asked, hib, closing, starts, stop, call, pinned, primary, borrowed>>
    BY <1>27 DEF HandshakeFails
  <2> QED
    BY <2>1, <2>2, <2>3 DEF TypeOK
<1>28. ASSUME NEW e \in Entries, Publish(e) PROVE TypeOK'
  <2>1. sup' \in [Entries -> {"off", "handshake", "mark", "serving", "failed"}]
    BY <1>28 DEF Publish, TypeOK
  <2>2. client' \in [Entries -> 0..MaxStarts]
    BY <1>28 DEF Publish, TypeOK
  <2>3. UNCHANGED <<entries, lock, teardown, key, state, refs, armed, fired, asked, hib,
                    closing, starts, stop, errs, drains, call, pinned, primary, borrowed>>
    BY <1>28 DEF Publish
  <2> QED
    BY <2>1, <2>2, <2>3 DEF TypeOK
<1>29. ASSUME NEW e \in Entries, MarkActive(e) PROVE TypeOK'
  <2>1. sup' \in [Entries -> {"off", "handshake", "mark", "serving", "failed"}]
    BY <1>29 DEF MarkActive, TypeOK
  <2>2. state' \in [Entries -> States]
    BY <1>29 DEF MarkActive, TypeOK, States
  <2>3. drains' \subseteq Entries \X (1..MaxStarts)
    BY <1>29 DEF MarkActive, TypeOK
  <2>4. UNCHANGED <<entries, lock, teardown, key, refs, armed, client, fired, asked, hib,
                    closing, starts, stop, errs, call, pinned, primary, borrowed>>
    BY <1>29 DEF MarkActive
  <2> QED
    BY <2>1, <2>2, <2>3, <2>4 DEF TypeOK
<1>30. ASSUME NEW e \in Entries, Exit(e) PROVE TypeOK'
  <2>1. sup' \in [Entries -> {"off", "handshake", "mark", "serving", "failed"}]
    BY <1>30 DEF Exit, TypeOK
  <2>2. UNCHANGED <<entries, lock, teardown, key, state, refs, armed, client, fired,
                    asked, hib, closing, starts, stop, errs, drains, call, pinned,
                    primary, borrowed>>
    BY <1>30 DEF Exit
  <2> QED
    BY <2>1, <2>2 DEF TypeOK
<1>31. ASSUME NEW e \in Entries, NEW i \in 1..MaxStarts, Drain(e, i) PROVE TypeOK'
  <2>1. /\ drains' \subseteq Entries \X (1..MaxStarts)
        /\ errs' \subseteq Entries \X (1..MaxStarts)
    BY <1>31 DEF Drain, TypeOK
  <2>2. /\ entries' \in [Keys -> Entries \cup {None}]
        /\ closing' \in [Entries -> {"no", "reap", "fail"}]
        /\ state' \in [Entries -> States]
        /\ hib' \in [Entries -> {"no", "stop", "wait"}]
        /\ armed' \in [Entries -> BOOLEAN]
        /\ fired' \in [Entries -> BOOLEAN]
        /\ asked' \in [Entries -> BOOLEAN]
    BY <1>31, LeaveType DEF Drain
  <2>3. UNCHANGED <<lock, teardown, key, refs, client, starts, sup, stop, call, pinned,
                    primary, borrowed>>
    BY <1>31 DEF Drain
  <2> QED
    BY <2>1, <2>2, <2>3 DEF TypeOK
<1>32. CASE UNCHANGED vars
  BY <1>32 DEF vars, TypeOK
<1> QED
  BY <1>1, <1>2, <1>3, <1>4, <1>5, <1>6, <1>7, <1>8, <1>9, <1>10, <1>11, <1>12, <1>13, <1>14,
     <1>15, <1>16, <1>17, <1>18, <1>19, <1>20, <1>21, <1>22, <1>23, <1>24, <1>25, <1>26,
     <1>27, <1>28, <1>29, <1>30, <1>31, <1>32
     DEF Next, Session, CallStep, Goroutine, Janitor

-----------------------------------------------------------------------------
(* What a session's step does, to its own call and to everything else.       *)
Others(s) ==
    \A t \in Sessions \ {s} :
        call'[t] = call[t] /\ pinned'[t] = pinned[t] /\ primary'[t] = primary[t]

\* A call that uses a client now has just read it, or did before.
FreshUse(s) ==
    At(s, "use")' =>
        \/ call'[s] = call[s]
        \/ /\ call'[s].ent = call[s].ent
           /\ call'[s].got = client[call[s].ent] /\ call'[s].got # 0

coreVars == <<entries, lock, teardown, key, state, client, hib, closing, starts, sup, stop>>

\* To moves one call and changes nothing else of it.
LEMMA ToEffect ==
  ASSUME TypeOK, NEW s \in Sessions, NEW p, To(s, p)
  PROVE  /\ call'[s].pc = p
         /\ call'[s].ent = call[s].ent /\ call'[s].got = call[s].got
         /\ call'[s].want = call[s].want
         /\ \A t \in Sessions \ {s} : call'[t] = call[t]
<1>1. call[s] \in Calls /\ call \in [Sessions -> Calls]
  BY DEF TypeOK
<1> DEFINE r == [call[s] EXCEPT !.pc = p]
<1>2. call' = [call EXCEPT ![s] = r]
  BY DEF To
<1>3. call'[s] = r /\ \A t \in Sessions \ {s} : call'[t] = call[t]
  BY <1>1, <1>2
<1>4. r.pc = p /\ r.ent = call[s].ent /\ r.got = call[s].got /\ r.want = call[s].want
  BY <1>1 DEF Calls
<1> QED
  BY <1>3, <1>4

\* A call replaced is the only one that changes.
LEMMA SetEffect ==
  ASSUME TypeOK, NEW s \in Sessions, NEW r, call' = [call EXCEPT ![s] = r]
  PROVE  call'[s] = r /\ \A t \in Sessions \ {s} : call'[t] = call[t]
BY DEF TypeOK

\* An acquire that ended well binds its own session only.
LEMMA AcquiredEffect ==
  ASSUME TypeOK, NEW s \in Sessions, NEW e \in Entries, Acquired(s, e), Bound(s),
         call[s].want \in Keys
  PROVE  /\ Others(s) /\ Bound(s)'
         /\ call'[s].pc \in {"idle", "borrow"}
<1>1. CASE call[s].pinning
  <2>1. /\ call' = [call EXCEPT ![s] = Quiet("idle")]
        /\ pinned' = [pinned EXCEPT ![s] = call[s].want]
        /\ primary' = [primary EXCEPT ![s] = e]
    BY <1>1 DEF Acquired
  <2>2. call'[s] = Quiet("idle") /\ \A t \in Sessions \ {s} : call'[t] = call[t]
    BY <2>1, SetEffect
  <2>3. /\ primary'[s] = e
        /\ \A t \in Sessions \ {s} : pinned'[t] = pinned[t] /\ primary'[t] = primary[t]
    BY <2>1 DEF TypeOK
  <2> QED
    BY <2>2, <2>3 DEF Quiet, Others, Bound
<1>2. CASE ~ call[s].pinning
  <2> DEFINE r == [call[s] EXCEPT !.pc = "borrow", !.ent = e, !.got = 0]
  <2>1. call' = [call EXCEPT ![s] = r] /\ UNCHANGED <<pinned, primary>>
    BY <1>2 DEF Acquired
  <2>2. call'[s] = r /\ \A t \in Sessions \ {s} : call'[t] = call[t]
    BY <2>1, SetEffect
  <2>3. r.pc = "borrow" /\ r.ent = e /\ r.want = call[s].want
    BY CallFields DEF Calls
  <2> QED
    BY <2>1, <2>2, <2>3 DEF Others, Bound
<1> QED
  BY <1>1, <1>2

\* A call that gives its lease back keeps its key and its entry until it is over.
LEMMA EndLeaseEffect ==
  ASSUME TypeOK, NEW s \in Sessions, EndLease(s), call[s].ent \in Entries
  PROVE  /\ \A t \in Sessions \ {s} : call'[t] = call[t]
         /\ call'[s].pc \in {"missed", "ended", "acquire", "idle"}
         /\ call'[s].pc \in {"missed", "ended"} => call'[s].ent \in Entries
         /\ call'[s].pc # "idle" => call'[s].want = call[s].want
<1>1. ASSUME NEW p \in {"missed", "ended", "acquire"}, To(s, p)
      PROVE  /\ \A t \in Sessions \ {s} : call'[t] = call[t]
             /\ call'[s].pc = p /\ call'[s].ent \in Entries
             /\ call'[s].want = call[s].want
  BY <1>1, ToEffect
<1>2. ASSUME call' = [call EXCEPT ![s] = Quiet("idle")]
      PROVE  call'[s].pc = "idle" /\ \A t \in Sessions \ {s} : call'[t] = call[t]
  <2>1. call'[s] = Quiet("idle") /\ \A t \in Sessions \ {s} : call'[t] = call[t]
    BY <1>2, SetEffect
  <2> QED
    BY <2>1 DEF Quiet
<1>3. \/ To(s, "missed") \/ To(s, "ended") \/ To(s, "acquire")
      \/ call' = [call EXCEPT ![s] = Quiet("idle")]
  BY DEF EndLease
<1> QED
  BY <1>1, <1>2, <1>3

\* A session's step moves its own call only, and few of them touch shared state.
LEMMA SessionEffect ==
  ASSUME TypeOK, NEW s \in Sessions, Bound(s), Session(s)
  PROVE  /\ Others(s) /\ Bound(s)' /\ FreshUse(s)
         /\ Admitting(s)' => Admit(s) \/ AdmitVictim(s)
         /\ Admit(s) \/ AdmitVictim(s) \/ Start(s) \/ ReadyErr(s) \/ UNCHANGED coreVars
<1> DEFINE Goal == /\ Others(s) /\ Bound(s)' /\ FreshUse(s)
                   /\ Admitting(s)' => Admit(s) \/ AdmitVictim(s)
                   /\ \/ Admit(s) \/ AdmitVictim(s) \/ Start(s) \/ ReadyErr(s)
                      \/ UNCHANGED coreVars
<1> USE BoundsAssumption DEF lockVars, leaseVars, reapVars, runVars, startVars, bindVars
<1>1. ASSUME NEW k \in Keys, Attach(s, k) PROVE Goal
  <2> DEFINE r == [Quiet("acquire") EXCEPT !.pinning = TRUE, !.want = k]
  <2>1. call'[s] = r /\ \A t \in Sessions \ {s} : call'[t] = call[t]
    <3>1. call' = [call EXCEPT ![s] = r]
      BY <1>1 DEF Attach
    <3> QED
      BY <3>1, SetEffect
  <2>2. r.pc = "acquire" /\ r.want = k
    BY DEF Quiet
  <2>8. UNCHANGED <<pinned, primary>> /\ UNCHANGED coreVars
    BY <1>1 DEF Attach, coreVars
  <2> QED
    BY <1>1, <2>1, <2>2, <2>8 DEF Others, Bound, FreshUse, Admitting, At, Attach
<1>2. ASSUME NEW k \in Keys, Call(s, k) PROVE Goal
  <2> DEFINE r == [Quiet("begin") EXCEPT !.want = k, !.ent = primary[s]]
             q == [Quiet("acquire") EXCEPT !.want = k]
  <2>1. call' = [call EXCEPT ![s] = IF k = pinned[s] THEN r ELSE q]
    BY <1>2 DEF Call
  <2>2. /\ call'[s] = IF k = pinned[s] THEN r ELSE q
        /\ \A t \in Sessions \ {s} : call'[t] = call[t]
    BY <2>1, SetEffect
  <2>3. /\ r.pc = "begin" /\ r.ent = primary[s] /\ r.want = k
        /\ q.pc = "acquire" /\ q.want = k
    BY DEF Quiet
  <2>4. k = pinned[s] => primary[s] \in Entries
    BY DEF Bound
  <2>5. UNCHANGED <<pinned, primary>> /\ UNCHANGED coreVars
    BY <1>2 DEF Call, coreVars
  <2> QED
    BY <2>2, <2>3, <2>4, <2>5 DEF Others, Bound, FreshUse, Admitting, At
<1>3. ASSUME Begin(s) PROVE Goal
  <2>w. call[s].want \in Keys
    BY <1>3 DEF Begin, At, Bound
  <2> DEFINE c == client[call[s].ent]
             r == [call[s] EXCEPT !.pc = "use", !.got = c]
  <2>0. call[s].ent \in Entries
    BY <1>3 DEF Begin, At, Bound
  <2>1. UNCHANGED <<pinned, primary>> /\ UNCHANGED coreVars
    BY <1>3 DEF Begin, coreVars
  <2>2. CASE c = 0
    <3>1. EndLease(s)
      BY <1>3, <2>2 DEF Begin
    <3> QED
      BY <2>0, <2>1, <3>1, EndLeaseEffect, <2>w DEF Others, Bound, FreshUse, Admitting, At
  <2>3. CASE c # 0
    <3>1. call' = [call EXCEPT ![s] = r]
      BY <1>3, <2>3 DEF Begin
    <3>2. call'[s] = r /\ \A t \in Sessions \ {s} : call'[t] = call[t]
      BY <3>1, SetEffect
    <3>3. r.pc = "use" /\ r.ent = call[s].ent /\ r.got = c /\ r.want = call[s].want
      BY CallFields DEF Calls
    <3> QED
      BY <2>0, <2>1, <2>3, <3>2, <3>3, <2>w DEF Others, Bound, FreshUse, Admitting, At
  <2> QED
    BY <2>2, <2>3
<1>4. ASSUME CheckHeld(s) PROVE Goal
  <2>w. call[s].want \in Keys
    BY <1>4 DEF CheckHeld, At, Bound
  <2> DEFINE r == IF call[s].pc = "missed" THEN [call[s] EXCEPT !.pc = "acquire"] ELSE Quiet("idle")
  <2>1. call'[s] = r /\ \A t \in Sessions \ {s} : call'[t] = call[t]
    <3>1. call' = [call EXCEPT ![s] = r]
      BY <1>4 DEF CheckHeld
    <3> QED
      BY <3>1, SetEffect
  <2>2. r.pc \in {"acquire", "idle"} /\ (r.pc = "acquire" => r.want = call[s].want)
    BY CallFields DEF Quiet, Calls
  <2>8. UNCHANGED <<pinned, primary>> /\ UNCHANGED coreVars
    BY <1>4 DEF CheckHeld, coreVars
  <2> QED
    BY <1>4, <2>1, <2>2, <2>8, <2>w DEF Others, Bound, FreshUse, Admitting, At, CheckHeld
<1>5. ASSUME Refuse(s) PROVE Goal
  <2> DEFINE r == Quiet("idle")
  <2>1. call'[s] = r /\ \A t \in Sessions \ {s} : call'[t] = call[t]
    <3>1. call' = [call EXCEPT ![s] = r]
      BY <1>5 DEF Refuse
    <3> QED
      BY <3>1, SetEffect
  <2>2. r.pc = "idle"
    BY DEF Quiet
  <2>8. UNCHANGED <<pinned, primary>> /\ UNCHANGED coreVars
    BY <1>5 DEF Refuse, coreVars
  <2> QED
    BY <1>5, <2>1, <2>2, <2>8 DEF Others, Bound, FreshUse, Admitting, At, Refuse
<1>6. ASSUME Reuse(s) PROVE Goal
  <2>w. call[s].want \in Keys
    BY <1>6 DEF Reuse, At, Bound
  <2>1. \E e \in Entries : Acquired(s, e)
    BY <1>6 DEF Reuse
  <2>2. UNCHANGED coreVars
    BY <1>6 DEF Reuse, coreVars
  <2>3. Others(s) /\ Bound(s)' /\ call'[s].pc \in {"idle", "borrow"}
    BY <2>1, <2>w, AcquiredEffect
  <2> QED
    BY <2>2, <2>3 DEF FreshUse, Admitting, At
<1>7. ASSUME Admit(s) PROVE Goal
  <2>w. call[s].want \in Keys
    BY <1>7 DEF Admit, At, Bound
  <2>1. To(s, "admit")
    BY <1>7 DEF Admit
  <2>2. /\ call'[s].pc = "admit" /\ call'[s].ent = call[s].ent
        /\ call'[s].want = call[s].want /\ \A t \in Sessions \ {s} : call'[t] = call[t]
    BY <2>1, ToEffect
  <2>3. UNCHANGED <<pinned, primary>>
    BY <1>7 DEF Admit
  <2> QED
    BY <1>7, <2>2, <2>3, <2>w DEF Others, Bound, FreshUse, At
<1>8. ASSUME AdmitVictim(s) PROVE Goal
  <2>1. UNCHANGED <<call, pinned, primary>>
    BY <1>8 DEF AdmitVictim
  <2> QED
    BY <1>8, <2>1 DEF Others, Bound, FreshUse
<1>9. ASSUME Start(s) PROVE Goal
  <2>w. call[s].want \in Keys
    BY <1>9 DEF Start, At, Bound
  <2> PICK e \in Entries :
         call' = [call EXCEPT ![s].pc = "ready", ![s].ent = e, ![s].got = starts[e] + 1]
    BY <1>9 DEF Start
  <2> DEFINE r == [call[s] EXCEPT !.pc = "ready", !.ent = e, !.got = starts[e] + 1]
  <2>1. call' = [call EXCEPT ![s] = r]
    OBVIOUS
  <2>2. call'[s] = r /\ \A t \in Sessions \ {s} : call'[t] = call[t]
    BY <2>1, SetEffect
  <2>3. r.pc = "ready" /\ r.ent = e /\ r.got # 0 /\ r.want = call[s].want
    <3>1. starts[e] \in Nat
      BY DEF TypeOK
    <3> QED
      BY <3>1, CallFields DEF Calls
  <2>4. UNCHANGED <<pinned, primary>>
    BY <1>9 DEF Start
  <2> QED
    BY <1>9, <2>2, <2>3, <2>4, <2>w DEF Others, Bound, FreshUse, Admitting, At
<1>10. ASSUME ReadyErr(s) PROVE Goal
  <2>w. call[s].want \in Keys
    BY <1>10 DEF ReadyErr, At, Bound
  <2>0. call[s].ent \in Entries
    BY <1>10 DEF ReadyErr, At, Bound
  <2>1. UNCHANGED <<pinned, primary>>
    BY <1>10 DEF ReadyErr
  <2>2. CASE call[s].pinning
    <3>1. call' = [call EXCEPT ![s] = Quiet("idle")]
      BY <1>10, <2>2 DEF ReadyErr
    <3>2. call'[s] = Quiet("idle") /\ \A t \in Sessions \ {s} : call'[t] = call[t]
      BY <3>1, SetEffect
    <3>3. call'[s].pc = "idle"
      BY <3>2 DEF Quiet
    <3> QED
      BY <1>10, <2>1, <3>2, <3>3, <2>w DEF Others, Bound, FreshUse, Admitting, At
  <2>3. CASE ~ call[s].pinning
    <3>1. EndLease(s)
      BY <1>10, <2>3 DEF ReadyErr
    <3> QED
      BY <1>10, <2>0, <2>1, <3>1, EndLeaseEffect, <2>w DEF Others, Bound, FreshUse, Admitting,
         At
  <2> QED
    BY <2>2, <2>3
<1>11. ASSUME ReadyOrLater(s) PROVE Goal
  <2>w. call[s].want \in Keys
    BY <1>11 DEF ReadyOrLater, At, Bound
  <2>1. call[s].ent \in Entries /\ Acquired(s, call[s].ent)
    BY <1>11 DEF ReadyOrLater, At, Bound
  <2>2. UNCHANGED coreVars
    BY <1>11 DEF ReadyOrLater, coreVars
  <2>3. Others(s) /\ Bound(s)' /\ call'[s].pc \in {"idle", "borrow"}
    BY <2>1, <2>w, AcquiredEffect
  <2> QED
    BY <2>2, <2>3 DEF FreshUse, Admitting, At
<1>12. ASSUME Borrow(s) PROVE Goal
  <2>w. call[s].want \in Keys
    BY <1>12 DEF Borrow, At, Bound
  <2>1. To(s, "wait")
    BY <1>12 DEF Borrow
  <2>2. /\ call'[s].pc = "wait" /\ call'[s].ent = call[s].ent
        /\ call'[s].want = call[s].want /\ \A t \in Sessions \ {s} : call'[t] = call[t]
    BY <2>1, ToEffect
  <2>3. UNCHANGED <<pinned, primary>> /\ UNCHANGED coreVars
    BY <1>12 DEF Borrow, coreVars
  <2> QED
    BY <1>12, <2>2, <2>3, <2>w DEF Borrow, Others, Bound, FreshUse, Admitting, At
<1>13. ASSUME GetClient(s) PROVE Goal
  <2>w. call[s].want \in Keys
    BY <1>13 DEF GetClient, At, Bound
  <2> DEFINE r == [call[s] EXCEPT !.pc = "use", !.got = client[call[s].ent]]
  <2>0. call[s].ent \in Entries /\ client[call[s].ent] # 0
    BY <1>13 DEF GetClient, At, Bound
  <2>1. call' = [call EXCEPT ![s] = r]
    BY <1>13 DEF GetClient
  <2>2. call'[s] = r /\ \A t \in Sessions \ {s} : call'[t] = call[t]
    BY <2>1, SetEffect
  <2>3. /\ r.pc = "use" /\ r.ent = call[s].ent /\ r.got = client[call[s].ent]
        /\ r.want = call[s].want
    BY CallFields DEF Calls
  <2>4. UNCHANGED <<pinned, primary>> /\ UNCHANGED coreVars
    BY <1>13 DEF GetClient, coreVars
  <2> QED
    BY <2>0, <2>2, <2>3, <2>4, <2>w DEF Others, Bound, FreshUse, Admitting, At
<1>14. ASSUME EndCall(s) PROVE Goal
  <2>w. call[s].want \in Keys
    BY <1>14 DEF EndCall, At, Bound
  <2>1. call[s].ent \in Entries /\ EndLease(s)
    BY <1>14 DEF EndCall, At, Bound
  <2>2. UNCHANGED <<pinned, primary>> /\ UNCHANGED coreVars
    BY <1>14 DEF EndCall, coreVars
  <2> QED
    BY <2>1, <2>2, EndLeaseEffect, <2>w DEF Others, Bound, FreshUse, Admitting, At
<1>15. ASSUME Detach(s) PROVE Goal
  <2>1. To(s, "leaving")
    BY <1>15 DEF Detach
  <2>2. /\ call'[s].pc = "leaving" /\ call'[s].ent = call[s].ent
        /\ call'[s].want = call[s].want /\ \A t \in Sessions \ {s} : call'[t] = call[t]
    BY <2>1, ToEffect
  <2>3. UNCHANGED coreVars
    BY <1>15 DEF Detach, coreVars
  <2>4. /\ pinned'[s] = None
        /\ \A t \in Sessions \ {s} : pinned'[t] = pinned[t] /\ primary'[t] = primary[t]
    BY <1>15 DEF Detach, TypeOK
  <2> QED
    BY <2>2, <2>3, <2>4 DEF Others, Bound, FreshUse, Admitting, At
<1>16. ASSUME Unborrow(s) PROVE Goal
  <2>1. UNCHANGED <<call, pinned, primary>> /\ UNCHANGED coreVars
    BY <1>16 DEF Unborrow, coreVars
  <2> QED
    BY <1>16, <2>1 DEF Unborrow, Others, Bound, FreshUse, Admitting, At
<1>17. ASSUME Gone(s) PROVE Goal
  <2>1. To(s, "out")
    BY <1>17 DEF Gone
  <2>2. /\ call'[s].pc = "out" /\ call'[s].ent = call[s].ent
        /\ call'[s].want = call[s].want /\ \A t \in Sessions \ {s} : call'[t] = call[t]
    BY <2>1, ToEffect
  <2>3. UNCHANGED <<pinned, primary>> /\ UNCHANGED coreVars
    BY <1>17 DEF Gone, coreVars
  <2> QED
    BY <1>17, <2>2, <2>3 DEF Gone, Others, Bound, FreshUse, Admitting, At
<1> QED
  BY <1>1, <1>2, <1>3, <1>4, <1>5, <1>6, <1>7, <1>8, <1>9, <1>10, <1>11, <1>12, <1>13, <1>14,
     <1>15, <1>16, <1>17 DEF Session, CallStep

\* The steps that touch the pool's shared state, and all the others.
LEMMA StepCases ==
  ASSUME [Next]_vars, TypeOK, CallInv
  PROVE  \/ \E s \in Sessions : Admit(s) \/ AdmitVictim(s) \/ Start(s) \/ ReadyErr(s)
         \/ \E s \in Sessions : Session(s) /\ UNCHANGED coreVars
         \/ \E e \in Entries :
              \/ Reap(e) \/ Hibernate(e) \/ StopToHibernate(e) \/ FinishHibernate(e)
              \/ StopToClose(e) \/ HandshakeFails(e) \/ Publish(e) \/ MarkActive(e) \/ Exit(e)
         \/ \E e \in Entries, i \in 1..MaxStarts : Drain(e, i)
         \/ Decide
         \/ UNCHANGED <<coreVars, call, pinned, primary>>
<1>1. ASSUME NEW s \in Sessions, Session(s)
      PROVE  Admit(s) \/ AdmitVictim(s) \/ Start(s) \/ ReadyErr(s) \/ UNCHANGED coreVars
  BY <1>1, SessionEffect DEF CallInv
<1>2. ASSUME NEW e \in Entries, Fire(e) \/ ScheduleIdleReap(e) \/ TrimLongHibernated(e)
      PROVE  UNCHANGED <<coreVars, call, pinned, primary>>
  BY <1>2 DEF Fire, ScheduleIdleReap, TrimLongHibernated, coreVars, lockVars, runVars, bindVars
<1>3. UNCHANGED vars => UNCHANGED <<coreVars, call, pinned, primary>>
  BY DEF vars, coreVars, lockVars, runVars, bindVars
<1> QED
  BY <1>1, <1>2, <1>3 DEF Next, Goroutine, Janitor

\* The steps of a session that touch shared state are its steps.
LEMMA IsSession ==
  ASSUME NEW s \in Sessions, Admit(s) \/ AdmitVictim(s) \/ Start(s) \/ ReadyErr(s)
  PROVE  Session(s)
BY DEF Session, CallStep

\* A session that admits waits for its teardown, picks a victim or starts.
LEMMA AdmitsOnly ==
  ASSUME NEW s \in Sessions, Session(s), Admitting(s)
  PROVE  teardown = None /\ (AdmitVictim(s) \/ Start(s))
BY DEF Session, CallStep, Admitting, At, Attach, Call, Begin, CheckHeld, Refuse, Reuse, Admit,
       ReadyErr, ReadyOrLater, Borrow, GetClient, EndCall, Detach, Unborrow, Gone, AdmitVictim,
       Start

\* The steps of an entry's goroutines, which leave the calls alone.
LEMMA EntryKeeps ==
  ASSUME \/ \E e \in Entries :
              \/ Reap(e) \/ Hibernate(e) \/ StopToHibernate(e) \/ FinishHibernate(e)
              \/ StopToClose(e) \/ HandshakeFails(e) \/ Publish(e) \/ MarkActive(e) \/ Exit(e)
         \/ \E e \in Entries, i \in 1..MaxStarts : Drain(e, i)
  PROVE  UNCHANGED <<key, starts, call, pinned, primary>>
BY DEF Reap, Hibernate, StopToHibernate, FinishHibernate, StopToClose, HandshakeFails,
       Publish, MarkActive, Exit, Drain, runVars, bindVars

\* Of these only a reap and a hibernation take the lock.
LEMMA EntryKeepsLock ==
  ASSUME \/ \E e \in Entries :
              \/ StopToHibernate(e) \/ FinishHibernate(e) \/ StopToClose(e)
              \/ HandshakeFails(e) \/ Publish(e) \/ MarkActive(e) \/ Exit(e)
         \/ \E e \in Entries, i \in 1..MaxStarts : Drain(e, i)
  PROVE  UNCHANGED <<lock, teardown>>
BY DEF StopToHibernate, FinishHibernate, StopToClose, HandshakeFails, Publish, MarkActive,
       Exit, Drain, lockVars

\* A decision moves no call but the one that admits.
LEMMA DecideEffect ==
  ASSUME Base, Decide
  PROVE  /\ teardown # None /\ teardown.entry \in Entries /\ teardown' = None
         /\ UNCHANGED <<key, starts, sup, stop, pinned, primary>>
         /\ \/ call' = call
            \/ /\ lock \in Sessions /\ teardown.why = "admit"
               /\ call'[lock].pc = "start" /\ call'[lock].want = call[lock].want
               /\ \A t \in Sessions \ {lock} : call'[t] = call[t]
<1>1. teardown # None /\ teardown.entry \in Entries /\ teardown' = None
  BY DEF Decide, Base, TypeOK, Teardowns
<1>2. UNCHANGED <<key, starts, sup, stop, pinned, primary>>
  BY DEF Decide, runVars, bindVars
<1>3. call' = call \/ (teardown.why = "admit" /\ To(lock, "start"))
  BY DEF Decide
<1>4. ASSUME teardown.why = "admit", To(lock, "start")
      PROVE  /\ lock \in Sessions /\ call'[lock].pc = "start"
             /\ call'[lock].want = call[lock].want
             /\ \A t \in Sessions \ {lock} : call'[t] = call[t]
  <2>1. lock \in Sessions
    BY <1>1, <1>4 DEF Base, LockInv
  <2> QED
    BY <2>1, <1>4, ToEffect DEF Base
<1> QED
  BY <1>1, <1>2, <1>3, <1>4

-----------------------------------------------------------------------------
\* What a call knows of its key and its entry stays so in every step.
LEMMA NextCall == Base /\ [Next]_vars => CallInv'
<1> SUFFICES ASSUME Base, [Next]_vars PROVE CallInv'
  OBVIOUS
<1>0. TypeOK /\ CallInv
  BY DEF Base
<1>1. ASSUME NEW s \in Sessions, Session(s) PROVE CallInv'
  <2>1. Others(s) /\ Bound(s)'
    BY <1>0, <1>1, SessionEffect DEF CallInv
  <2> QED
    BY <1>0, <2>1 DEF CallInv, Bound, Others
<1>2. CASE UNCHANGED <<call, pinned, primary>>
  BY <1>0, <1>2 DEF CallInv, Bound
<1>3. CASE Decide
  <2>1. CASE call' = call
    BY <1>2, <1>3, <2>1, DecideEffect
  <2>2. CASE call' # call
    <3>1. /\ lock \in Sessions /\ teardown # None /\ teardown.why = "admit"
          /\ call'[lock].pc = "start" /\ call'[lock].want = call[lock].want
          /\ \A t \in Sessions \ {lock} : call'[t] = call[t]
      BY <1>3, <2>2, DecideEffect
    <3>2. Admitting(lock)
      BY <3>1 DEF Base, LockInv
    <3>3. call[lock].want \in Keys
      BY <1>0, <3>1, <3>2 DEF CallInv, Bound, Admitting, At
    <3> QED
      BY <1>0, <1>3, <3>1, <3>3, DecideEffect DEF CallInv, Bound
  <2> QED
    BY <2>1, <2>2
<1> QED
  BY <1>0, <1>1, <1>2, <1>3, StepCases, IsSession, EntryKeeps

-----------------------------------------------------------------------------
\* p.mu stays with who admits and with whom a teardown belongs to.
LEMMA NextLock == Base /\ [Next]_vars => LockInv'
<1> SUFFICES ASSUME Base, [Next]_vars PROVE LockInv'
  OBVIOUS
<1> USE BoundsAssumption
<1>0. TypeOK /\ CallInv /\ LockInv
  BY DEF Base
<1>a. lock = None => teardown = None /\ \A t \in Sessions : ~ Admitting(t)
  BY <1>0 DEF LockInv
<1>1. ASSUME NEW s \in Sessions, Admit(s) PROVE LockInv'
  <2>1. Others(s)
    BY <1>0, <1>1, SessionEffect, IsSession DEF CallInv
  <2>2. /\ lock = None /\ lock' = s /\ UNCHANGED <<teardown, starts>>
        /\ Cardinality({d \in Entries \X (1..MaxStarts) : d[2] <= starts[d[1]]}) < MaxStarts
    BY <1>1 DEF Admit, runVars
  <2>3. \A e \in Entries : starts[e] < MaxStarts
    BY <1>0, <2>2, StartsBelow
  <2>4. \A t \in Sessions \ {s} : ~ Admitting(t)'
    BY <1>a, <2>1, <2>2 DEF Others, Admitting, At
  <2> QED
    BY <1>a, <2>2, <2>3, <2>4 DEF LockInv
<1>2. ASSUME NEW s \in Sessions, AdmitVictim(s) PROVE LockInv'
  <2>1. UNCHANGED <<call, lock, starts>> /\ lock = s /\ Admitting(s)
    BY <1>0, <1>2 DEF AdmitVictim, runVars, LockInv, Admitting
  <2>2. \E e : teardown' = [entry |-> e, client |-> client[e], why |-> "admit"]
    BY <1>2 DEF AdmitVictim, DropClient
  <2> QED
    BY <1>0, <2>1, <2>2 DEF LockInv, Admitting, At
<1>3. ASSUME NEW s \in Sessions, Start(s) PROVE LockInv'
  <2>1. Others(s) /\ (Admitting(s)' => Admit(s) \/ AdmitVictim(s))
    BY <1>0, <1>3, SessionEffect, IsSession DEF CallInv
  <2>2. lock' = None /\ teardown' = None /\ lock = s
    BY <1>0, <1>3 DEF Start, LockInv, Admitting
  <2>3. ~ Admitting(s)'
    <3>1. \E e \in Entries :
            call' = [call EXCEPT ![s].pc = "ready", ![s].ent = e, ![s].got = starts[e] + 1]
      BY <1>3 DEF Start
    <3>2. call'[s].pc = "ready"
      BY <1>0, <3>1 DEF TypeOK, Calls
    <3> QED
      BY <3>2 DEF Admitting, At
  <2>4. \A t \in Sessions \ {s} : ~ Admitting(t)'
    BY <1>0, <2>1, <2>2 DEF Others, Admitting, At, LockInv
  <2> QED
    BY <2>2, <2>3, <2>4 DEF LockInv
<1>4. ASSUME NEW s \in Sessions, ReadyErr(s) PROVE LockInv'
  <2>1. Others(s) /\ (Admitting(s)' => Admit(s) \/ AdmitVictim(s))
    BY <1>0, <1>4, SessionEffect, IsSession DEF CallInv
  <2>2. /\ At(s, "ready") /\ UNCHANGED <<lock, teardown, starts>>
        /\ lock = None
    BY <1>4 DEF ReadyErr, lockVars, runVars
  <2> QED
    BY <1>0, <1>a, <2>1, <2>2 DEF LockInv, Others, Admitting, At, Admit, AdmitVictim
<1>5. ASSUME NEW s \in Sessions, Session(s), UNCHANGED coreVars PROVE LockInv'
  <2>1. Others(s) /\ (Admitting(s)' => Admit(s) \/ AdmitVictim(s))
    BY <1>0, <1>5, SessionEffect DEF CallInv
  <2>2. Admit(s) \/ AdmitVictim(s) => LockInv'
    BY <1>1, <1>2
  <2>3. UNCHANGED <<lock, teardown, starts>>
    BY <1>5 DEF coreVars
  <2>4. Admitting(s) => teardown = None
    BY <1>5, AdmitsOnly
  <2>5. CASE ~ Admitting(s)'
    <3>1. \A t \in Sessions : Admitting(t)' => lock' = t /\ \A e \in Entries : starts'[e] < MaxStarts
      BY <1>0, <2>1, <2>3, <2>5 DEF LockInv, Others, Admitting, At
    <3>2. ASSUME teardown' # None, teardown'.why = "admit" PROVE lock' \in Sessions /\ Admitting(lock)'
      <4>1. lock \in Sessions /\ Admitting(lock) /\ lock # s
        BY <1>0, <2>3, <2>4, <3>2 DEF LockInv
      <4> QED
        BY <2>1, <2>3, <4>1 DEF Others, Admitting, At
    <3> QED
      BY <1>0, <2>3, <3>1, <3>2 DEF LockInv
  <2> QED
    BY <2>1, <2>2, <2>5
<1>6. ASSUME NEW e \in Entries, Reap(e) \/ Hibernate(e) PROVE LockInv'
  <2>1. UNCHANGED <<starts, call>>
    BY <1>6, EntryKeeps
  <2>2. \/ UNCHANGED <<lock, teardown>>
        \/ lock = None /\ lock' = Pool /\ teardown'.why \in {"reap", "idle"}
    BY <1>6 DEF Reap, Hibernate, DropClient, lockVars
  <2> QED
    BY <1>0, <1>a, <2>1, <2>2 DEF LockInv, Admitting, At
<1>7. CASE UNCHANGED <<lock, teardown, starts, call>>
  BY <1>0, <1>7 DEF LockInv, Admitting, At
<1>8. CASE Decide
  <2>1. lock' = IF teardown.why = "admit" THEN lock ELSE None
    BY <1>8 DEF Decide
  <2>2. teardown # None /\ teardown' = None /\ starts' = starts
    BY <1>8, DecideEffect
  <2>3. CASE teardown.why = "admit"
    <3>1. lock' = lock /\ lock \in Sessions /\ Admitting(lock)
      BY <1>0, <2>1, <2>2, <2>3 DEF LockInv
    <3>2. \A t \in Sessions : Admitting(t)' => Admitting(t)
      BY <1>8, <3>1, DecideEffect DEF Admitting, At
    <3> QED
      BY <1>0, <2>2, <3>1, <3>2 DEF LockInv
  <2>4. CASE teardown.why # "admit"
    <3>1. lock = Pool /\ call' = call
      BY <1>0, <1>8, <2>2, <2>4, DecideEffect DEF LockInv
    <3>2. \A t \in Sessions : ~ Admitting(t)
      BY <1>0, <3>1 DEF LockInv
    <3> QED
      BY <2>2, <3>1, <3>2 DEF LockInv, Admitting, At
  <2> QED
    BY <2>3, <2>4
<1> QED
  BY <1>0, <1>1, <1>2, <1>3, <1>4, <1>5, <1>6, <1>7, <1>8, StepCases, EntryKeeps,
     EntryKeepsLock DEF coreVars

-----------------------------------------------------------------------------
(* What happens to an entry that starts, and to one that leaves.             *)
LEMMA StartEffect ==
  ASSUME Base, NEW s \in Sessions, Start(s)
  PROVE  /\ lock' = None /\ teardown = None
         /\ UNCHANGED <<teardown, client, hib, closing>>
         /\ \E e \in Entries :
               /\ ~ Running(e) /\ state[e] # "hibernating" /\ Running(e)'
               /\ state'[e] # "hibernated"
               /\ starts'[e] # 0 /\ sup'[e] = "handshake" /\ ~ stop'[e]
               /\ \A f \in Entries \ {e} :
                     /\ state'[f] = state[f] /\ key'[f] = key[f] /\ starts'[f] = starts[f]
                     /\ sup'[f] = sup[f] /\ stop'[f] = stop[f]
               /\ key'[e] # None
<1>0. TypeOK /\ Admitting(s) /\ lock = s
  BY DEF Base, Start, LockInv, Admitting
<1>1. lock' = None /\ teardown = None /\ UNCHANGED <<teardown, client, hib, closing>>
  BY DEF Start
<1>2. PICK e \in Entries :
        /\ \/ /\ entries[call[s].want] = None /\ key[e] = None
              /\ key' = [key EXCEPT ![e] = call[s].want]
              /\ state' = [state EXCEPT ![e] = "starting"]
           \/ /\ entries[call[s].want] = e
              /\ state' = [state EXCEPT ![e] = "waking"]
              /\ key' = key
        /\ StartAsync(e)
  BY DEF Start
<1>3. ~ Running(e) /\ state[e] # "hibernating"
  <2>1. key[e] = None \/ state[e] = "hibernated"
    BY <1>0, <1>2, BoundsAssumption DEF Base, AdmitInv
  <2> QED
    BY <2>1 DEF Base, StateInv, Running
<1>4. /\ state'[e] \in {"starting", "waking"}
      /\ \A f \in Entries \ {e} : state'[f] = state[f] /\ key'[f] = key[f]
  BY <1>0, <1>2 DEF TypeOK
<1>6. key'[e] # None
  <2>1. call[s].want \in Keys
    BY <1>0 DEF Base, CallInv, Bound, Admitting, At
  <2>2. key[e] = None => state[e] # "hibernated"
    BY DEF Base, StateInv
  <2>3. entries[call[s].want] = e => state[e] = "hibernated"
    BY <1>0, BoundsAssumption DEF Base, AdmitInv
  <2> QED
    BY <1>0, <1>2, <2>1, <2>2, <2>3, BoundsAssumption DEF TypeOK
<1>5. /\ starts'[e] # 0 /\ sup'[e] = "handshake" /\ ~ stop'[e]
      /\ \A f \in Entries \ {e} :
            starts'[f] = starts[f] /\ sup'[f] = sup[f] /\ stop'[f] = stop[f]
  <2>1. starts[e] \in Nat
    BY <1>0 DEF TypeOK
  <2> QED
    BY <1>0, <1>2, <2>1 DEF TypeOK, StartAsync
<1> QED
  BY <1>1, <1>3, <1>4, <1>5, <1>6 DEF Running

\* An entry that leaves: its close is consumed once, and nothing else changes.
LEMMA LeaveEffect ==
  ASSUME TypeOK, NEW e \in Entries, NEW why, Leave(e, why)
  PROVE  /\ state'[e] = "gone" /\ hib'[e] = "no"
         /\ closing'[e] = IF closing[e] = "no" THEN why ELSE closing[e]
         /\ \A f \in Entries \ {e} :
               state'[f] = state[f] /\ hib'[f] = hib[f] /\ closing'[f] = closing[f]
BY DEF TypeOK, Leave

-----------------------------------------------------------------------------
\* What a teardown was begun on stays so: its holder has p.mu.
LEMMA NextTear == Base /\ [Next]_vars => TearInv'
<1> SUFFICES ASSUME Base, [Next]_vars PROVE TearInv'
  OBVIOUS
<1>0. TypeOK /\ CallInv /\ LockInv /\ TearInv
  BY DEF Base
<1>a. lock = None => teardown = None
  BY <1>0, BoundsAssumption DEF LockInv
<1>1. CASE UNCHANGED teardown /\ lock = None
  BY <1>1, <1>a DEF TearInv
<1>2. CASE UNCHANGED <<teardown, state, key>>
  BY <1>0, <1>2 DEF TearInv, Running
<1>3. CASE teardown' = None
  BY <1>3 DEF TearInv
<1>4. ASSUME NEW s \in Sessions, Admit(s) \/ Start(s) \/ ReadyErr(s) PROVE TearInv'
  BY <1>4, <1>1, <1>3 DEF Admit, Start, ReadyErr, lockVars
<1>5. ASSUME NEW s \in Sessions, AdmitVictim(s) PROVE TearInv'
  <2>1. PICK e \in Entries : Mapped(e) /\ Running(e) /\ DropClient(e, "admit")
    BY <1>5 DEF AdmitVictim, Victims
  <2>2. UNCHANGED <<state, key>>
    BY <1>5 DEF AdmitVictim
  <2> QED
    BY <2>1, <2>2 DEF TearInv, DropClient, Mapped, Running
<1>6. ASSUME NEW e \in Entries, Reap(e) \/ Hibernate(e) PROVE TearInv'
  <2>1. UNCHANGED <<state, key>>
    BY <1>6 DEF Reap, Hibernate
  <2>2. CASE DropClient(e, "reap")
    BY <2>1, <2>2 DEF TearInv, DropClient
  <2>3. CASE DropClient(e, "idle") /\ Mapped(e)
    BY <2>1, <2>3 DEF TearInv, DropClient, Mapped
  <2> QED
    BY <1>6, <2>1, <2>2, <2>3, <1>2 DEF Reap, Hibernate, lockVars
<1>7. ASSUME NEW e \in Entries,
             \/ StopToHibernate(e) \/ StopToClose(e) \/ HandshakeFails(e) \/ Publish(e)
             \/ Exit(e)
      PROVE  TearInv'
  BY <1>7, <1>2 DEF StopToHibernate, StopToClose, HandshakeFails, Publish, Exit, lockVars
<1>8. ASSUME NEW e \in Entries,
             FinishHibernate(e) \/ MarkActive(e) \/ \E i \in 1..MaxStarts : Drain(e, i)
      PROVE  TearInv'
  BY <1>8, <1>1 DEF FinishHibernate, MarkActive, Drain, lockVars
<1>9. CASE Decide
  BY <1>9, <1>3, DecideEffect
<1>10. CASE UNCHANGED coreVars
  BY <1>10, <1>2 DEF coreVars
<1> QED
  BY <1>0, <1>4, <1>5, <1>6, <1>7, <1>8, <1>9, <1>10, StepCases DEF coreVars

-----------------------------------------------------------------------------
\* Nothing changes under an acquire that found a hibernated entry.
LEMMA NextAdmit == Base /\ [Next]_vars => AdmitInv'
<1> SUFFICES ASSUME Base, [Next]_vars, NEW s \in Sessions, Admitting(s)',
                    entries'[call'[s].want] # None
             PROVE  state'[entries'[call'[s].want]] = "hibernated"
  BY DEF AdmitInv
<1> DEFINE Goal == state'[entries'[call'[s].want]] = "hibernated"
<1>0. TypeOK /\ CallInv /\ LockInv /\ TearInv /\ AdmitInv /\ StateInv
  BY DEF Base
<1>a. lock' = s /\ lock' # None /\ lock' # Pool
  BY NextLock, BoundsAssumption DEF LockInv
<1>1. CASE UNCHANGED <<entries, state>> /\ Admitting(s) /\ call'[s].want = call[s].want
  BY <1>0, <1>1 DEF AdmitInv
<1>2. ASSUME NEW t \in Sessions, Admit(t) PROVE Goal
  <2>1. lock' = t /\ UNCHANGED <<entries, state>> /\ To(t, "admit")
    BY <1>2 DEF Admit
  <2>2. call'[s].want = call[s].want
    BY <1>0, <1>a, <2>1, ToEffect
  <2>3. entries[call[s].want] # None => state[entries[call[s].want]] = "hibernated"
    BY <1>2, <1>a, <2>1 DEF Admit
  <2> QED
    BY <2>1, <2>2, <2>3
<1>3. ASSUME NEW t \in Sessions, AdmitVictim(t) PROVE Goal
  BY <1>3, <1>1 DEF AdmitVictim, Admitting, At
<1>4. ASSUME NEW t \in Sessions, Start(t) \/ ReadyErr(t) PROVE Goal
  BY <1>4, <1>a DEF Start, ReadyErr, lockVars
<1>5. ASSUME NEW t \in Sessions, Session(t), UNCHANGED coreVars PROVE Goal
  <2>1. Others(t) /\ (Admitting(t)' => Admit(t) \/ AdmitVictim(t))
    BY <1>0, <1>5, SessionEffect DEF CallInv
  <2>2. CASE t = s
    BY <2>1, <2>2, <1>2, <1>3
  <2>3. CASE t # s
    BY <1>5, <2>1, <2>3, <1>1 DEF Others, Admitting, At, coreVars
  <2> QED
    BY <2>2, <2>3
<1>6. ASSUME NEW e \in Entries, Reap(e) \/ Hibernate(e) PROVE Goal
  BY <1>6, <1>a DEF Reap, Hibernate, lockVars
<1>7. ASSUME NEW e \in Entries,
             \/ StopToHibernate(e) \/ StopToClose(e) \/ HandshakeFails(e) \/ Publish(e)
             \/ Exit(e)
      PROVE  Goal
  BY <1>7, <1>1 DEF StopToHibernate, StopToClose, HandshakeFails, Publish, Exit, Admitting, At
<1>8. ASSUME NEW e \in Entries,
             FinishHibernate(e) \/ MarkActive(e) \/ \E i \in 1..MaxStarts : Drain(e, i)
      PROVE  Goal
  BY <1>8, <1>a DEF FinishHibernate, MarkActive, Drain, lockVars
<1>9. CASE Decide
  <2>1. teardown.why = "admit" /\ lock = s
    BY <1>9, <1>a DEF Decide
  <2>2. teardown # None /\ Admitting(s) /\ Running(teardown.entry)
    BY <1>0, <1>9, <2>1, DecideEffect DEF LockInv, TearInv
  <2>3. call'[s].want = call[s].want
    BY <1>9, <2>1, DecideEffect
  <2>4. CASE UNCHANGED <<entries, state>>
    BY <1>1, <2>2, <2>3, <2>4
  <2>5. CASE UNCHANGED entries /\ state' = [state EXCEPT ![teardown.entry] = "hibernating"]
    <3>1. state[entries[call[s].want]] = "hibernated"
      BY <1>0, <2>2, <2>3, <2>5 DEF AdmitInv
    <3>2. entries[call[s].want] # teardown.entry
      BY <2>2, <3>1 DEF Running
    <3> QED
      BY <1>0, <2>3, <2>5, <3>1, <3>2 DEF TypeOK
  <2> QED
    BY <1>9, <2>1, <2>4, <2>5 DEF Decide
<1>10. CASE UNCHANGED <<coreVars, call>>
  BY <1>10, <1>1 DEF coreVars, Admitting, At
<1> QED
  BY <1>0, <1>2, <1>3, <1>4, <1>5, <1>6, <1>7, <1>8, <1>9, <1>10, StepCases

-----------------------------------------------------------------------------
\* State, hibernation and supervisor of an entry change together.
LEMMA NextState == Base /\ [Next]_vars => StateInv'
<1> SUFFICES ASSUME Base, [Next]_vars PROVE StateInv'
  OBVIOUS
<1>0. TypeOK /\ CallInv /\ LockInv /\ TearInv /\ StateInv
  BY DEF Base
<1>1. CASE UNCHANGED <<key, state, hib, closing, starts, sup, stop>>
  BY <1>0, <1>1 DEF StateInv, Running
<1>2. ASSUME NEW s \in Sessions, Admit(s) \/ AdmitVictim(s) PROVE StateInv'
  BY <1>2, <1>1 DEF Admit, AdmitVictim, runVars
<1>3. ASSUME NEW s \in Sessions, Start(s) PROVE StateInv'
  BY <1>0, <1>3, StartEffect DEF StateInv, Running
<1>4. ASSUME NEW e \in Entries, NEW why, Leave(e, why), UNCHANGED <<key, runVars>>
      PROVE  StateInv'
  BY <1>0, <1>4, LeaveEffect DEF StateInv, Running, runVars
<1>5. ASSUME NEW s \in Sessions, ReadyErr(s) PROVE StateInv'
  <2>1. call[s].ent \in Entries
    BY <1>0, <1>5 DEF ReadyErr, CallInv, Bound, At
  <2> QED
    BY <1>4, <1>5, <2>1 DEF ReadyErr
<1>6. ASSUME NEW e \in Entries, NEW i \in 1..MaxStarts, Drain(e, i) PROVE StateInv'
  BY <1>4, <1>6 DEF Drain
<1>7. ASSUME NEW e \in Entries, Reap(e) \/ Hibernate(e) PROVE StateInv'
  BY <1>7, <1>1 DEF Reap, Hibernate, runVars
<1>8. ASSUME NEW e \in Entries, StopToHibernate(e) \/ StopToClose(e) PROVE StateInv'
  <2>1. /\ UNCHANGED <<key, state, closing, starts, sup>>
        /\ \A f \in Entries \ {e} : hib'[f] = hib[f] /\ stop'[f] = stop[f]
        /\ hib[e] # "no" \/ (hib' = hib /\ closing[e] # "no")
    BY <1>0, <1>8 DEF StopToHibernate, StopToClose, Cancel, TypeOK
  <2> QED
    BY <1>0, <2>1 DEF StateInv, Running
<1>9. ASSUME NEW e \in Entries, FinishHibernate(e) PROVE StateInv'
  <2>1. /\ UNCHANGED <<key, closing, starts, stop>>
        /\ hib[e] # "no" /\ hib'[e] = "no" /\ sup'[e] = "off" /\ state'[e] = "hibernated"
        /\ \A f \in Entries \ {e} : hib'[f] = hib[f] /\ sup'[f] = sup[f] /\ state'[f] = state[f]
    BY <1>0, <1>9 DEF FinishHibernate, TypeOK
  <2> QED
    BY <1>0, <2>1 DEF StateInv, Running
<1>10. ASSUME NEW e \in Entries, HandshakeFails(e) \/ Publish(e) \/ Exit(e) PROVE StateInv'
  <2>1. /\ UNCHANGED <<key, state, hib, closing, starts, stop>> /\ sup[e] # "off"
        /\ \A f \in Entries \ {e} : sup'[f] = sup[f]
    BY <1>0, <1>10 DEF HandshakeFails, Publish, Exit, TypeOK
  <2> QED
    BY <1>0, <2>1 DEF StateInv, Running
<1>11. ASSUME NEW e \in Entries, MarkActive(e) PROVE StateInv'
  <2>1. /\ UNCHANGED <<key, hib, closing, starts, stop>> /\ sup[e] # "off"
        /\ state'[e] = IF state[e] \in {"starting", "waking"} THEN "active" ELSE state[e]
        /\ \A f \in Entries \ {e} : sup'[f] = sup[f] /\ state'[f] = state[f]
    BY <1>0, <1>11 DEF MarkActive, TypeOK
  <2> QED
    BY <1>0, <2>1 DEF StateInv, Running
<1>12. CASE Decide
  <2> DEFINE e == teardown.entry
  <2>1. e \in Entries /\ UNCHANGED <<key, starts, sup, stop>> /\ teardown # None
    BY <1>12, DecideEffect
  <2>2. CASE Leave(e, "reap")
    BY <1>4, <2>1, <2>2 DEF runVars
  <2>3. CASE UNCHANGED <<state, hib, closing>>
    BY <1>1, <2>1, <2>3
  <2>4. CASE /\ teardown.why # "reap" /\ UNCHANGED closing
             /\ state' = [state EXCEPT ![e] = "hibernating"]
             /\ hib' = [hib EXCEPT ![e] = "stop"]
    <3>1. key[e] # None
      BY <1>0, <2>1, <2>4 DEF TearInv
    <3>2. /\ state'[e] = "hibernating"
          /\ \A f \in Entries \ {e} : state'[f] = state[f] /\ hib'[f] = hib[f]
      BY <1>0, <2>1, <2>4 DEF TypeOK
    <3> QED
      BY <1>0, <2>1, <2>4, <3>1, <3>2 DEF StateInv, Running
  <2> QED
    BY <1>12, <2>2, <2>3, <2>4 DEF Decide
<1>13. CASE UNCHANGED coreVars
  BY <1>13, <1>1 DEF coreVars
<1> QED
  BY <1>0, <1>2, <1>3, <1>5, <1>6, <1>7, <1>8, <1>9, <1>10, <1>11, <1>12, <1>13, StepCases
     DEF coreVars

-----------------------------------------------------------------------------
\* What keeps a client good: the server it belongs to is left as it is, or has
\* no good client in the first place.
Kept(e) ==
    \/ /\ starts'[e] = starts[e] /\ stop'[e] = stop[e] /\ hib'[e] = hib[e]
       /\ closing'[e] = closing[e] /\ (Running(e) => Running(e)')
    \/ closing'[e] = "fail"
    \/ ~ (Running(e) /\ hib[e] = "no" /\ closing[e] = "no") /\ closing'[e] = closing[e]

\* A good client of a server that is kept is good afterwards.
LEMMA KeptGood ==
  ASSUME NEW e \in Entries, NEW c, Kept(e), Good(e, c)
  PROVE  c # 0 /\ closing'[e] # "fail" =>
            /\ c = starts'[e] /\ Running(e)' /\ ~ stop'[e]
            /\ hib'[e] = "no" /\ closing'[e] = "no"
BY DEF Kept, Good, Running

\* A step that moves no client and keeps every one of them good.
LEMMA ClientsKept ==
  ASSUME Base, ClientInv, UNCHANGED <<client, teardown>>, \A e \in Entries : Kept(e),
         \A s \in Sessions : At(s, "use")' => call'[s] = call[s]
  PROVE  ClientInv'
<1>1. \A e \in Entries : Good(e, client[e])'
  BY KeptGood DEF ClientInv, Good
<1>2. teardown' # None => client'[teardown'.entry] = 0 /\ Good(teardown.entry, teardown.client)'
  <2>1. ASSUME teardown # None
        PROVE  /\ teardown.entry \in Entries /\ client[teardown.entry] = 0
               /\ Good(teardown.entry, teardown.client)
    BY <2>1 DEF ClientInv, Base, TypeOK, Teardowns
  <2>2. ASSUME teardown # None PROVE Good(teardown.entry, teardown.client)'
    BY <2>1, <2>2, KeptGood DEF Good
  <2> QED
    BY <2>1, <2>2
<1>3. ASSUME NEW s \in Sessions, At(s, "use")' PROVE Good(call[s].ent, call[s].got)'
  <2>1. call'[s] = call[s] /\ At(s, "use")
    BY <1>3 DEF At
  <2>2. call[s].ent \in Entries /\ Good(call[s].ent, call[s].got)
    BY <2>1 DEF ClientInv, Base, CallInv, Bound, At
  <2> QED
    BY <2>1, <2>2, KeptGood DEF Good
<1> QED
  BY <1>1, <1>2, <1>3 DEF ClientInv

\* The client of an entry becomes that of a teardown.
LEMMA ClientsDropped ==
  ASSUME Base, ClientInv, NEW e \in Entries, NEW why, DropClient(e, why), teardown = None,
         UNCHANGED <<state, hib, closing, starts, stop, call>>
  PROVE  ClientInv'
<1>1. /\ teardown'.entry = e /\ teardown'.client = client[e] /\ client'[e] = 0
      /\ \A f \in Entries \ {e} : client'[f] = client[f]
  BY DEF DropClient, Base, TypeOK
<1> QED
  BY <1>1 DEF ClientInv, Good, Running, At

\* A client that can be reached stays good: who stops its server has cleared it
\* and then found nobody who had read it.
LEMMA NextClient ==
  ASSUME "latePublish" \notin Races
  PROVE  Base /\ ClientInv /\ [Next]_vars => ClientInv'
<1> SUFFICES ASSUME Base, ClientInv, [Next]_vars PROVE ClientInv'
  OBVIOUS
<1>0. TypeOK /\ CallInv /\ LockInv /\ TearInv /\ StateInv
  BY DEF Base
<1>a. lock = None => teardown = None
  BY <1>0, BoundsAssumption DEF LockInv
<1>1. ASSUME UNCHANGED <<client, teardown, starts, stop, hib, closing, state>>,
             \A s \in Sessions : At(s, "use")' => call'[s] = call[s]
      PROVE  ClientInv'
  BY <1>1, ClientsKept DEF Kept, Running
<1>2. ASSUME NEW s \in Sessions, Session(s), UNCHANGED coreVars PROVE ClientInv'
  <2>1. Others(s) /\ FreshUse(s) /\ Bound(s)'
    BY <1>0, <1>2, SessionEffect DEF CallInv
  <2>2. UNCHANGED <<client, teardown, starts, stop, hib, closing, state>>
    BY <1>2 DEF coreVars
  <2>3. CASE ~ At(s, "use")' \/ call'[s] = call[s]
    BY <1>1, <2>1, <2>2, <2>3 DEF Others, At
  <2>4. CASE At(s, "use")' /\ call'[s] # call[s]
    <3>1. call'[s].ent \in Entries /\ call'[s].got = client[call'[s].ent]
      BY <2>1, <2>4 DEF FreshUse, Bound, At
    <3>2. Good(call[s].ent, call[s].got)'
      BY <2>2, <3>1 DEF ClientInv, Good, Running
    <3>3. \A t \in Sessions \ {s} : At(t, "use")' => Good(call[t].ent, call[t].got)'
      BY <2>1, <2>2 DEF ClientInv, Good, Running, Others, At
    <3>4. /\ \A e \in Entries : Good(e, client[e])'
          /\ teardown' # None => client'[teardown'.entry] = 0 /\ Good(teardown.entry, teardown.client)'
      BY <2>2 DEF ClientInv, Good, Running
    <3> QED
      BY <3>2, <3>3, <3>4 DEF ClientInv
  <2> QED
    BY <2>3, <2>4
<1>3. ASSUME NEW s \in Sessions, Admit(s) PROVE ClientInv'
  <2>1. Others(s) /\ ~ At(s, "use")'
    <3>1. To(s, "admit")
      BY <1>3 DEF Admit
    <3> QED
      BY <1>0, <1>3, <3>1, ToEffect, SessionEffect, IsSession DEF CallInv, At
  <2> QED
    BY <1>1, <1>3, <2>1 DEF Admit, Others, runVars
<1>4. ASSUME NEW s \in Sessions, AdmitVictim(s) PROVE ClientInv'
  <2>1. PICK e \in Entries : DropClient(e, "admit")
    BY <1>4 DEF AdmitVictim, Victims
  <2> QED
    BY <1>4, <2>1, ClientsDropped DEF AdmitVictim, runVars
<1>5. ASSUME NEW s \in Sessions, Start(s) PROVE ClientInv'
  <2>1. Others(s) /\ FreshUse(s) /\ ~ At(s, "use")'
    <3>1. \E e \in Entries :
            call' = [call EXCEPT ![s].pc = "ready", ![s].ent = e, ![s].got = starts[e] + 1]
      BY <1>5 DEF Start
    <3>2. call'[s].pc = "ready"
      BY <1>0, <3>1 DEF TypeOK, Calls
    <3> QED
      BY <1>0, <1>5, <3>2, SessionEffect, IsSession DEF CallInv, At
  <2>2. UNCHANGED <<client, teardown>> /\ \A e \in Entries : Kept(e)
    BY <1>0, <1>5, StartEffect DEF Kept, Running
  <2> QED
    BY <2>1, <2>2, ClientsKept DEF Others, At
<1>6. ASSUME NEW e \in Entries, Leave(e, "fail"), UNCHANGED <<client, teardown, runVars>>,
             \A s \in Sessions : At(s, "use")' => call'[s] = call[s]
      PROVE  ClientInv'
  <2>1. \A f \in Entries : Kept(f)
    BY <1>0, <1>6, LeaveEffect DEF Kept, Running, runVars, TypeOK
  <2> QED
    BY <1>6, <2>1, ClientsKept
<1>7. ASSUME NEW s \in Sessions, ReadyErr(s) PROVE ClientInv'
  <2>1. call[s].ent \in Entries /\ At(s, "ready")
    BY <1>0, <1>7 DEF ReadyErr, CallInv, Bound, At
  <2>2. Others(s) /\ FreshUse(s)
    BY <1>0, <1>7, SessionEffect, IsSession DEF CallInv
  <2>3. ~ At(s, "use")'
    <3>1. CASE call' = [call EXCEPT ![s] = Quiet("idle")]
      <4>1. call'[s] = Quiet("idle")
        BY <1>0, <3>1, SetEffect
      <4> QED
        BY <4>1 DEF Quiet, At
    <3>2. CASE EndLease(s)
      BY <1>0, <2>1, <3>2, EndLeaseEffect DEF At
    <3> QED
      BY <1>7, <3>1, <3>2 DEF ReadyErr
  <2> QED
    BY <1>6, <1>7, <2>1, <2>2, <2>3 DEF ReadyErr, Others, lockVars
<1>8. ASSUME NEW e \in Entries, NEW i \in 1..MaxStarts, Drain(e, i) PROVE ClientInv'
  BY <1>6, <1>8 DEF Drain, lockVars
<1>9. ASSUME NEW e \in Entries, Reap(e) \/ Hibernate(e) PROVE ClientInv'
  <2>1. UNCHANGED <<state, hib, closing, starts, stop, call>> /\ lock = None
    BY <1>9 DEF Reap, Hibernate, runVars
  <2>2. CASE DropClient(e, "reap") \/ DropClient(e, "idle")
    BY <1>a, <2>1, <2>2, ClientsDropped
  <2>3. CASE UNCHANGED <<client, teardown>>
    BY <1>1, <2>1, <2>3 DEF At
  <2> QED
    BY <1>9, <2>2, <2>3 DEF Reap, Hibernate, lockVars
<1>10. ASSUME NEW e \in Entries,
              StopToHibernate(e) \/ FinishHibernate(e) \/ StopToClose(e)
       PROVE  ClientInv'
  <2>1. UNCHANGED <<client, teardown, closing, call>>
    BY <1>10 DEF StopToHibernate, FinishHibernate, StopToClose, lockVars
  <2>2. ~ (Running(e) /\ hib[e] = "no" /\ closing[e] = "no")
    BY <1>10 DEF StopToHibernate, FinishHibernate, StopToClose
  <2>3. \A f \in Entries \ {e} : UNCHANGED <<starts[f], stop[f], hib[f], state[f]>>
    BY <1>0, <1>10 DEF StopToHibernate, FinishHibernate, StopToClose, Cancel, TypeOK
  <2>4. \A f \in Entries : Kept(f)
    BY <2>1, <2>2, <2>3 DEF Kept, Running
  <2> QED
    BY <2>1, <2>4, ClientsKept DEF At
<1>11. ASSUME NEW e \in Entries, HandshakeFails(e) \/ Exit(e) PROVE ClientInv'
  BY <1>1, <1>11 DEF HandshakeFails, Exit, lockVars, At
<1>12. ASSUME NEW e \in Entries, MarkActive(e) PROVE ClientInv'
  <2>1. UNCHANGED <<client, teardown, starts, stop, hib, closing, call>>
    BY <1>12 DEF MarkActive, lockVars
  <2>2. \A f \in Entries : Running(f) => Running(f)'
    BY <1>0, <1>12 DEF MarkActive, Running, TypeOK
  <2> QED
    BY <2>1, <2>2, ClientsKept DEF Kept, At
<1>13. ASSUME NEW e \in Entries, Publish(e) PROVE ClientInv'
  <2>1. /\ Running(e) /\ closing[e] = "no" /\ ~ InTeardown(e)
        /\ UNCHANGED <<teardown, starts, stop, hib, closing, state, call>>
    BY <1>13 DEF Publish, lockVars
  <2>2. client'[e] = starts[e] /\ \A f \in Entries \ {e} : client'[f] = client[f]
    BY <1>0, <1>13 DEF Publish, TypeOK
  <2>3. ~ stop[e] /\ hib[e] = "no"
    BY <1>0, <2>1 DEF StateInv, Running
  <2> QED
    BY <1>0, <2>1, <2>2, <2>3 DEF ClientInv, Good, Running, InTeardown, At, TypeOK, Teardowns
<1>14. CASE Decide
  <2> DEFINE e == teardown.entry
  <2>1. e \in Entries /\ UNCHANGED <<starts, stop>> /\ teardown # None /\ teardown' = None
    BY <1>14, DecideEffect
  <2>2. \A s \in Sessions : At(s, "use")' => call'[s] = call[s]
    BY <1>14, DecideEffect DEF At
  <2>3. client[e] = 0 /\ Good(e, teardown.client)
    BY <2>1 DEF ClientInv
  <2>4. ASSUME client' = [client EXCEPT ![e] = teardown.client],
               UNCHANGED <<closing, state, hib>>
        PROVE  ClientInv'
    <3>1. client'[e] = teardown.client /\ \A f \in Entries \ {e} : client'[f] = client[f]
      BY <1>0, <2>1, <2>4 DEF TypeOK
    <3> QED
      BY <2>1, <2>2, <2>3, <2>4, <3>1 DEF ClientInv, Good, Running, At
  <2>5. ASSUME ~ Busy(e), UNCHANGED client,
               \A f \in Entries \ {e} : UNCHANGED <<closing[f], state[f], hib[f]>>
        PROVE  ClientInv'
    <3>1. \A s \in Sessions : At(s, "use")' => At(s, "use") /\ call[s].ent \in Entries \ {e}
      <4>1. \A s \in Sessions : At(s, "use") => call[s].ent \in Entries \ {e}
        BY <1>0, <2>5 DEF Busy, Leasing, At, CallInv, Bound
      <4> QED
        BY <2>2, <4>1 DEF At
    <3> QED
      BY <2>1, <2>2, <2>3, <2>5, <3>1 DEF ClientInv, Good, Running, At
  <2>7. CASE Busy(e)
    BY <1>14, <2>4, <2>7 DEF Decide
  <2>8. CASE ~ Busy(e) /\ teardown.why = "reap"
    <3>1. UNCHANGED client /\ Leave(e, "reap")
      BY <1>14, <2>8 DEF Decide
    <3> QED
      BY <1>0, <2>1, <2>5, <2>8, <3>1, LeaveEffect
  <2>9. CASE ~ Busy(e) /\ teardown.why # "reap"
    <3>1. /\ UNCHANGED <<client, closing>>
          /\ state' = [state EXCEPT ![e] = "hibernating"]
          /\ hib' = [hib EXCEPT ![e] = "stop"]
      BY <1>14, <2>9 DEF Decide
    <3>2. \A f \in Entries \ {e} : UNCHANGED <<closing[f], state[f], hib[f]>>
      BY <1>0, <3>1 DEF TypeOK
    <3> QED
      BY <2>5, <2>9, <3>1, <3>2
  <2> QED
    BY <2>7, <2>8, <2>9
<1>15. CASE UNCHANGED <<coreVars, call>>
  BY <1>1, <1>15 DEF coreVars
<1> QED
  BY <1>0, <1>2, <1>3, <1>4, <1>5, <1>7, <1>8, <1>9, <1>10, <1>11, <1>12, <1>13, <1>14, <1>15,
     StepCases

-----------------------------------------------------------------------------
\* A running server's client is published, or will be given back.
LEMMA NextPub ==
  ASSUME "latePublish" \notin Races
  PROVE  Base /\ PubInv /\ [Next]_vars => PubInv'
<1> SUFFICES ASSUME Base, PubInv, [Next]_vars PROVE PubInv'
  OBVIOUS
<1>0. TypeOK /\ CallInv /\ LockInv /\ TearInv /\ StateInv
  BY DEF Base
<1>a. lock = None => teardown = None
  BY <1>0, BoundsAssumption DEF LockInv
<1>1. ASSUME UNCHANGED <<client, teardown, starts>>,
             \A e \in Entries : Running(e)' /\ sup'[e] \in {"mark", "serving"} =>
                                    Running(e) /\ sup[e] \in {"mark", "serving"}
      PROVE  PubInv'
  BY <1>1 DEF PubInv, InTeardown
<1>2. CASE UNCHANGED <<client, teardown, starts, state, sup>>
  BY <1>1, <1>2 DEF Running
<1>3. ASSUME NEW s \in Sessions, Admit(s) PROVE PubInv'
  BY <1>2, <1>3 DEF Admit, runVars
<1>4. ASSUME NEW e \in Entries, NEW why \in {"admit", "reap", "idle"},
             DropClient(e, why), teardown = None, UNCHANGED <<state, starts, sup>>
      PROVE  PubInv'
  <2>1. /\ teardown'.entry = e /\ teardown'.client = client[e] /\ teardown' # None
        /\ \A f \in Entries \ {e} : client'[f] = client[f]
    <3>1. teardown' \in Teardowns
      BY <1>0, <1>4 DEF DropClient, TypeOK, Teardowns
    <3> QED
      BY <1>0, <1>4, <3>1, BoundsAssumption DEF DropClient, TypeOK
  <2> QED
    BY <1>4, <2>1 DEF PubInv, InTeardown, Running
<1>5. ASSUME NEW s \in Sessions, AdmitVictim(s) PROVE PubInv'
  <2>1. PICK e \in Entries : DropClient(e, "admit")
    BY <1>5 DEF AdmitVictim, Victims
  <2> QED
    BY <1>4, <1>5, <2>1 DEF AdmitVictim, runVars
<1>6. ASSUME NEW s \in Sessions, Start(s) PROVE PubInv'
  BY <1>0, <1>6, StartEffect DEF PubInv, InTeardown, Running
<1>7. ASSUME NEW e \in Entries, NEW why, Leave(e, why),
             UNCHANGED <<client, teardown, runVars>>
      PROVE  PubInv'
  BY <1>0, <1>1, <1>7, LeaveEffect DEF Running, runVars
<1>8. ASSUME NEW s \in Sessions, ReadyErr(s) PROVE PubInv'
  <2>1. call[s].ent \in Entries
    BY <1>0, <1>8 DEF ReadyErr, CallInv, Bound, At
  <2> QED
    BY <1>7, <1>8, <2>1 DEF ReadyErr, lockVars
<1>9. ASSUME NEW e \in Entries, NEW i \in 1..MaxStarts, Drain(e, i) PROVE PubInv'
  BY <1>7, <1>9 DEF Drain, lockVars
<1>10. ASSUME NEW e \in Entries, Reap(e) \/ Hibernate(e) PROVE PubInv'
  <2>1. UNCHANGED <<state, starts, sup>> /\ lock = None
    BY <1>10 DEF Reap, Hibernate, runVars
  <2> QED
    BY <1>2, <1>4, <1>a, <1>10, <2>1 DEF Reap, Hibernate, lockVars
<1>11. ASSUME NEW e \in Entries, StopToHibernate(e) \/ StopToClose(e) PROVE PubInv'
  BY <1>2, <1>11 DEF StopToHibernate, StopToClose, lockVars
<1>12. ASSUME NEW e \in Entries, FinishHibernate(e) \/ HandshakeFails(e) \/ Exit(e)
       PROVE  PubInv'
  <2>1. /\ UNCHANGED <<client, teardown, starts>>
        /\ sup'[e] \notin {"mark", "serving"}
        /\ \A f \in Entries \ {e} : sup'[f] = sup[f] /\ state'[f] = state[f]
    BY <1>0, <1>12 DEF FinishHibernate, HandshakeFails, Exit, lockVars, TypeOK
  <2> QED
    BY <1>1, <2>1 DEF Running
<1>13. ASSUME NEW e \in Entries, MarkActive(e) PROVE PubInv'
  <2>1. /\ UNCHANGED <<client, teardown, starts>> /\ sup[e] = "mark"
        /\ state'[e] = IF state[e] \in {"starting", "waking"} THEN "active" ELSE state[e]
        /\ \A f \in Entries \ {e} : sup'[f] = sup[f] /\ state'[f] = state[f]
    BY <1>0, <1>13 DEF MarkActive, lockVars, TypeOK
  <2> QED
    BY <1>1, <2>1 DEF Running
<1>14. ASSUME NEW e \in Entries, Publish(e) PROVE PubInv'
  <2>1. ~ InTeardown(e) /\ UNCHANGED <<teardown, starts, state>>
    BY <1>14 DEF Publish, lockVars
  <2>2. /\ client'[e] = starts[e]
        /\ \A f \in Entries \ {e} : client'[f] = client[f] /\ sup'[f] = sup[f]
    BY <1>0, <1>14 DEF Publish, TypeOK
  <2> QED
    BY <2>1, <2>2 DEF PubInv, InTeardown, Running
<1>15. CASE Decide
  <2> DEFINE e == teardown.entry
  <2>1. e \in Entries /\ UNCHANGED <<starts, sup>> /\ teardown # None /\ teardown' = None
    BY <1>15, DecideEffect
  <2>2. \A f \in Entries \ {e} : ~ InTeardown(f)
    BY DEF InTeardown
  <2>3. CASE Busy(e)
    <3>1. client' = [client EXCEPT ![e] = teardown.client] /\ state' = state
      BY <1>15, <2>3 DEF Decide
    <3>2. client'[e] = teardown.client /\ \A f \in Entries \ {e} : client'[f] = client[f]
      BY <1>0, <2>1, <3>1 DEF TypeOK
    <3> QED
      BY <2>1, <2>2, <3>1, <3>2 DEF PubInv, InTeardown, Running
  <2>4. ASSUME UNCHANGED client, state'[e] \notin {"starting", "waking", "active"},
               \A f \in Entries \ {e} : state'[f] = state[f]
        PROVE  PubInv'
    BY <2>1, <2>2, <2>4 DEF PubInv, InTeardown, Running
  <2>5. CASE ~ Busy(e) /\ teardown.why = "reap"
    <3>1. UNCHANGED client /\ Leave(e, "reap")
      BY <1>15, <2>5 DEF Decide
    <3> QED
      BY <1>0, <2>1, <2>4, <3>1, LeaveEffect
  <2>6. CASE ~ Busy(e) /\ teardown.why # "reap"
    <3>1. UNCHANGED client /\ state' = [state EXCEPT ![e] = "hibernating"]
      BY <1>15, <2>6 DEF Decide
    <3>2. state'[e] = "hibernating" /\ \A f \in Entries \ {e} : state'[f] = state[f]
      BY <1>0, <2>1, <3>1 DEF TypeOK
    <3> QED
      BY <2>4, <3>1, <3>2
  <2> QED
    BY <2>3, <2>5, <2>6
<1>16. CASE UNCHANGED coreVars
  BY <1>2, <1>16 DEF coreVars
<1> QED
  BY <1>0, <1>3, <1>5, <1>6, <1>8, <1>9, <1>10, <1>11, <1>12, <1>13, <1>14, <1>15, <1>16,
     StepCases DEF coreVars

-----------------------------------------------------------------------------
(* What the steps do to the map, to the leases, to the timers and to the      *)
(* failures of starts.                                                        *)
poolVars == <<entries, key, state, hib, closing, starts, sup, stop, errs>>

\* Of a session's steps these touch a start, and only a reader leaves "ready".
LEMMA SessionStarts ==
  ASSUME NEW s \in Sessions, Session(s)
  PROVE  \/ Start(s) \/ ReadyErr(s) \/ ReadyOrLater(s)
         \/ ~ At(s, "ready") /\ UNCHANGED <<poolVars, drains>>
BY DEF Session, CallStep, At, Attach, Call, Begin, CheckHeld, Refuse, Reuse, Admit,
       Borrow, GetClient, EndCall, Detach, Unborrow, Gone, AdmitVictim, poolVars, runVars,
       startVars

\* All the steps, by what they do to an entry and its failures.
LEMMA PoolSteps ==
  ASSUME [Next]_vars
  PROVE  \/ \E s \in Sessions : Start(s) \/ ReadyErr(s) \/ ReadyOrLater(s)
         \/ \E s \in Sessions :
               Session(s) /\ ~ At(s, "ready") /\ UNCHANGED <<poolVars, drains>>
         \/ \E e \in Entries :
               \/ StopToHibernate(e) \/ FinishHibernate(e) \/ StopToClose(e)
               \/ HandshakeFails(e) \/ Publish(e) \/ MarkActive(e) \/ Exit(e)
         \/ \E e \in Entries, i \in 1..MaxStarts : Drain(e, i)
         \/ Decide
         \/ UNCHANGED <<poolVars, drains, call>>
<1>1. ASSUME NEW s \in Sessions, Session(s)
      PROVE  \/ Start(s) \/ ReadyErr(s) \/ ReadyOrLater(s)
             \/ ~ At(s, "ready") /\ UNCHANGED <<poolVars, drains>>
  BY <1>1, SessionStarts
<1>2. ASSUME NEW e \in Entries,
             Fire(e) \/ ScheduleIdleReap(e) \/ Reap(e) \/ Janitor(e)
      PROVE  UNCHANGED <<poolVars, drains, call>>
  BY <1>2 DEF Fire, ScheduleIdleReap, Reap, Janitor, Hibernate, TrimLongHibernated, poolVars,
     runVars, startVars
<1>3. UNCHANGED vars => UNCHANGED <<poolVars, drains, call>>
  BY DEF vars, poolVars, runVars, startVars
<1> QED
  BY <1>1, <1>2, <1>3 DEF Next, Goroutine

\* A lease is counted with p.mu free, or by the session that holds it and starts.
LEMMA LeaseSteps ==
  ASSUME [Next]_vars
  PROVE  lock = None \/ refs' = refs \/ \E s \in Sessions : Start(s)
<1>1. ASSUME NEW s \in Sessions, Session(s) PROVE lock = None \/ refs' = refs \/ Start(s)
  BY <1>1 DEF Session, CallStep, Attach, Call, Begin, CheckHeld, Refuse, Reuse, Admit,
     AdmitVictim, ReadyErr, ReadyOrLater, Borrow, GetClient, EndCall, Detach, Unborrow, Gone,
     leaseVars
<1>2. ASSUME NEW e \in Entries, Goroutine(e) \/ Janitor(e) PROVE refs' = refs
  BY <1>2 DEF Goroutine, Janitor, Fire, ScheduleIdleReap, Reap, StopToHibernate,
     FinishHibernate, StopToClose, HandshakeFails, Publish, MarkActive, Exit, Drain, Hibernate,
     TrimLongHibernated, leaseVars
<1>3. Decide \/ UNCHANGED vars => refs' = refs
  BY DEF Decide, vars, leaseVars
<1> QED
  BY <1>1, <1>2, <1>3 DEF Next

\* Only an entry that has been built is timed.
LEMMA TimerSteps ==
  ASSUME Base, KeyInv, [Next]_vars, NEW e \in Entries, Timed(e)'
  PROVE  key[e] # None
<1>0. TypeOK /\ CallInv
  BY DEF Base
<1>1. Timed(e) => key[e] # None
  BY DEF KeyInv
<1>2. CASE UNCHANGED <<armed, fired, asked>>
  BY <1>1, <1>2 DEF Timed
<1>3. ASSUME NEW f \in Entries, Unlease(f), key[f] # None, UNCHANGED reapVars
      PROVE  key[e] # None
  BY <1>0, <1>1, <1>3 DEF Unlease, Timed, reapVars, TypeOK
<1>4. ASSUME NEW s \in Sessions, Session(s) PROVE key[e] # None
  <2>1. CASE CheckHeld(s)
    <3>1. call[s].ent \in Entries
      BY <1>0, <2>1 DEF CheckHeld, CallInv, Bound, At
    <3>2. asked'[e] => asked[e] \/ Mapped(e)
      BY <1>0, <2>1, <3>1 DEF CheckHeld, TypeOK
    <3>3. UNCHANGED <<armed, fired>>
      BY <2>1 DEF CheckHeld, leaseVars
    <3> QED
      BY <1>1, <3>2, <3>3 DEF Timed, Mapped
  <2>2. CASE Reuse(s) \/ Start(s) \/ Borrow(s)
    <3>1. \E f : armed' = [armed EXCEPT ![f] = FALSE] \/ armed' = armed
      BY <2>2 DEF Reuse, Start, Borrow, TakeLease
    <3>2. UNCHANGED <<fired, asked>>
      BY <2>2 DEF Reuse, Start, Borrow, reapVars
    <3>3. armed'[e] => armed[e]
      BY <1>0, <3>1 DEF TypeOK
    <3> QED
      BY <1>1, <3>2, <3>3 DEF Timed
  <2>3. CASE ReadyErr(s)
    <3>1. Leave(call[s].ent, "fail")
      BY <2>3 DEF ReadyErr
    <3>2. Timed(e)' => Timed(e)
      BY <1>0, <3>1 DEF Leave, Timed, TypeOK
    <3> QED
      BY <1>1, <3>2
  <2>4. CASE Detach(s)
    <3>1. CASE UNCHANGED leaseVars
      BY <1>2, <2>4, <3>1 DEF Detach, leaseVars, reapVars
    <3>2. CASE pinned[s] # None /\ entries[pinned[s]] # None /\ Unlease(entries[pinned[s]])
      <4>1. pinned[s] \in Keys /\ entries[pinned[s]] \in Entries
        BY <1>0, <3>2 DEF TypeOK
      <4>2. key[entries[pinned[s]]] # None
        BY <3>2, <4>1, BoundsAssumption DEF KeyInv
      <4> QED
        BY <1>3, <2>4, <3>2, <4>1, <4>2 DEF Detach
    <3> QED
      BY <2>4, <3>1, <3>2 DEF Detach
  <2>5. CASE Unborrow(s)
    <3>1. PICK f \in borrowed[s] : IF Mapped(f) THEN Unlease(f) ELSE UNCHANGED leaseVars
      BY <2>5 DEF Unborrow
    <3>2. f \in Entries
      BY <1>0 DEF TypeOK
    <3>3. UNCHANGED reapVars
      BY <2>5 DEF Unborrow
    <3> QED
      BY <1>2, <1>3, <3>1, <3>2, <3>3 DEF Mapped, leaseVars, reapVars
  <2>6. CASE /\ ~ CheckHeld(s) /\ ~ Reuse(s) /\ ~ Start(s) /\ ~ Borrow(s) /\ ~ ReadyErr(s)
             /\ ~ Detach(s) /\ ~ Unborrow(s)
    <3>1. UNCHANGED <<armed, fired, asked>>
      BY <1>4, <2>6 DEF Session, CallStep, Attach, Call, Begin, Refuse, Admit, AdmitVictim,
         ReadyOrLater, GetClient, EndCall, Gone, leaseVars, reapVars
    <3> QED
      BY <1>2, <3>1
  <2> QED
    BY <2>1, <2>2, <2>3, <2>4, <2>5, <2>6
<1>5. ASSUME NEW f \in Entries, Goroutine(f) \/ Janitor(f) PROVE key[e] # None
  <2>1. CASE Fire(f) \/ Reap(f)
    <3>1. Timed(e)' => Timed(e)
      BY <1>0, <2>1 DEF Fire, Reap, leaseVars, Timed, TypeOK
    <3> QED
      BY <1>1, <3>1
  <2>2. CASE ScheduleIdleReap(f)
    <3>1. Timed(e)' => Timed(e)
      BY <1>0, <2>2 DEF ScheduleIdleReap, Timed, TypeOK
    <3> QED
      BY <1>1, <3>1
  <2>3. CASE TrimLongHibernated(f)
    <3>1. key[f] # None /\ (Timed(e)' => Timed(e) \/ e = f)
      BY <1>0, <2>3 DEF TrimLongHibernated, leaseVars, Mapped, Timed, TypeOK
    <3> QED
      BY <1>1, <3>1
  <2>4. ASSUME NEW i \in 1..MaxStarts, Drain(f, i) PROVE key[e] # None
    <3>1. Timed(e)' => Timed(e)
      BY <1>0, <2>4 DEF Drain, Leave, Timed, TypeOK
    <3> QED
      BY <1>1, <3>1
  <2>5. CASE \/ Hibernate(f) \/ StopToHibernate(f) \/ FinishHibernate(f) \/ StopToClose(f)
             \/ HandshakeFails(f) \/ Publish(f) \/ MarkActive(f) \/ Exit(f)
    BY <1>2, <2>5 DEF Hibernate, StopToHibernate, FinishHibernate, StopToClose,
       HandshakeFails, Publish, MarkActive, Exit, leaseVars, reapVars
  <2> QED
    BY <1>5, <2>1, <2>2, <2>3, <2>4, <2>5 DEF Goroutine, Janitor
<1>6. CASE Decide
  <2>1. CASE Leave(teardown.entry, "reap")
    <3>1. Timed(e)' => Timed(e)
      BY <1>0, <2>1 DEF Leave, Timed, TypeOK
    <3> QED
      BY <1>1, <3>1
  <2> QED
    BY <1>2, <1>6, <2>1 DEF Decide, reapVars
<1>7. CASE UNCHANGED vars
  BY <1>2, <1>7 DEF vars, leaseVars, reapVars
<1> QED
  BY <1>4, <1>5, <1>6, <1>7 DEF Next

\* An entry that leaves the map, and only it.
LEMMA LeaveMaps ==
  ASSUME TypeOK, NEW e \in Entries, NEW why, Leave(e, why), UNCHANGED key
  PROVE  /\ \A k \in Keys : entries'[k] = IF entries[k] = e THEN None ELSE entries[k]
         /\ ~ Mapped(e)'
         /\ \A f \in Entries \ {e} : Mapped(f)' <=> Mapped(f)
<1>1. \A k \in Keys : entries'[k] = IF entries[k] = e THEN None ELSE entries[k]
  BY DEF Leave
<1>2. \A f \in Entries : key[f] # None => key[f] \in Keys
  BY DEF TypeOK
<1> QED
  BY <1>1, <1>2, BoundsAssumption DEF Mapped

\* The entry a session starts, fresh or hibernated, is in the map under its key,
\* and the session reads its channel.
LEMMA StartDetail ==
  ASSUME Base, KeyInv, NEW s \in Sessions, Start(s)
  PROVE  \E e \in Entries :
            /\ \/ entries[call[s].want] = None /\ key[e] = None
               \/ entries[call[s].want] = e /\ Mapped(e)
            /\ Mapped(e)'
            /\ call[s].want \in Keys /\ entries'[call[s].want] = e /\ key'[e] = call[s].want
            /\ \A k \in Keys \ {call[s].want} : entries'[k] = entries[k]
            /\ starts'[e] = starts[e] + 1 /\ sup'[e] = "handshake"
            /\ state'[e] \in {"starting", "waking"}
            /\ At(s, "ready")' /\ call'[s].ent = e /\ call'[s].got = starts'[e]
            /\ call'[s].want = call[s].want /\ call'[s].pinning = call[s].pinning
            /\ \A f \in Entries \ {e} :
                  /\ key'[f] = key[f] /\ state'[f] = state[f] /\ starts'[f] = starts[f]
                  /\ sup'[f] = sup[f] /\ (Mapped(f)' <=> Mapped(f))
<1> USE BoundsAssumption
<1>0. TypeOK /\ CallInv /\ call[s] \in Calls
  BY DEF Base, TypeOK
<1> DEFINE w == call[s].want
<1>1. w \in Keys
  BY <1>0 DEF Start, CallInv, Bound, At
<1>2. PICK e \in Entries :
        /\ \/ /\ entries[w] = None /\ key[e] = None
              /\ key' = [key EXCEPT ![e] = w]
              /\ entries' = [entries EXCEPT ![w] = e]
              /\ state' = [state EXCEPT ![e] = "starting"]
           \/ /\ entries[w] = e
              /\ state' = [state EXCEPT ![e] = "waking"]
              /\ UNCHANGED <<key, entries>>
        /\ StartAsync(e)
        /\ call' = [call EXCEPT ![s].pc = "ready", ![s].ent = e, ![s].got = starts[e] + 1]
  BY DEF Start
<1>3. /\ starts'[e] = starts[e] + 1 /\ sup'[e] = "handshake"
      /\ \A f \in Entries \ {e} : starts'[f] = starts[f] /\ sup'[f] = sup[f]
  BY <1>0, <1>2 DEF StartAsync, TypeOK
<1>4. /\ state'[e] \in {"starting", "waking"}
      /\ \A f \in Entries \ {e} : state'[f] = state[f] /\ key'[f] = key[f]
  BY <1>0, <1>2 DEF TypeOK
<1>5. /\ At(s, "ready")' /\ call'[s].ent = e /\ call'[s].got = starts'[e]
      /\ call'[s].want = w /\ call'[s].pinning = call[s].pinning
  <2> DEFINE r == [call[s] EXCEPT !.pc = "ready", !.ent = e, !.got = starts[e] + 1]
  <2>1. call' = [call EXCEPT ![s] = r]
    BY <1>2
  <2>2. call'[s] = r
    BY <1>0, <2>1, SetEffect
  <2>3. /\ r.pc = "ready" /\ r.ent = e /\ r.got = starts[e] + 1
        /\ r.want = w /\ r.pinning = call[s].pinning
    BY <1>0 DEF Calls
  <2> QED
    BY <1>3, <2>2, <2>3 DEF At
<1>6. entries[w] = e => key[e] = w
  BY <1>1 DEF KeyInv
<1>7. /\ entries'[w] = e /\ key'[e] = w
      /\ \A k \in Keys \ {w} : entries'[k] = entries[k]
  BY <1>0, <1>1, <1>2, <1>6 DEF TypeOK
<1>8. /\ (entries[w] = None /\ key[e] = None) \/ (entries[w] = e /\ Mapped(e))
      /\ Mapped(e)'
  BY <1>1, <1>2, <1>6, <1>7 DEF Mapped
<1>9. \A f \in Entries \ {e} : Mapped(f)' <=> Mapped(f)
  BY <1>0, <1>1, <1>4, <1>7, <1>8 DEF Mapped, TypeOK
<1> QED
  BY <1>1, <1>3, <1>4, <1>5, <1>7, <1>8, <1>9

-----------------------------------------------------------------------------
\* Nothing is in the map, timed or failed before the first connection.
LEMMA InitMap == Init => KeyInv /\ MapInv /\ TearMap /\ ReaderInv /\ ErrInv
<1> SUFFICES ASSUME Init PROVE KeyInv /\ MapInv /\ TearMap /\ ReaderInv /\ ErrInv
  OBVIOUS
<1>1. \A e \in Entries : ~ Mapped(e) /\ ~ Timed(e)
  BY DEF Init, Mapped, Timed
<1>2. \A s \in Sessions : ~ Admitting(s)
  BY DEF Init, Admitting, At, Quiet
<1> QED
  BY <1>1, <1>2 DEF Init, KeyInv, MapInv, TearMap, ReaderInv, ErrInv

\* The map keeps agreeing with the keys.
LEMMA NextKey == MapBase /\ [Next]_vars => KeyInv'
<1> SUFFICES ASSUME MapBase, [Next]_vars PROVE KeyInv'
  OBVIOUS
<1> USE BoundsAssumption
<1>0. Base /\ TypeOK /\ CallInv /\ StateInv /\ KeyInv
  BY DEF MapBase, Base
<1>t. \A e \in Entries : Timed(e)' => key[e] # None
  BY <1>0, TimerSteps
<1>1. ASSUME UNCHANGED <<key, starts>>,
             \A k \in Keys : entries'[k] \in {None, entries[k]},
             \A e \in Entries : key[e] = None => closing'[e] = "no",
             \A e \in Entries : key[e] = None => \A i \in 1..MaxStarts : <<e, i>> \notin errs'
      PROVE  KeyInv'
  BY <1>0, <1>1, <1>t DEF KeyInv
<1>2. CASE UNCHANGED <<entries, key, starts, closing, errs>>
  BY <1>0, <1>1, <1>2 DEF KeyInv
<1>3. ASSUME NEW s \in Sessions, Start(s) PROVE KeyInv'
  <2>1. PICK e \in Entries :
          /\ call[s].want \in Keys /\ entries'[call[s].want] = e /\ key'[e] = call[s].want
          /\ \/ entries[call[s].want] = None /\ key[e] = None
             \/ entries[call[s].want] = e /\ Mapped(e)
          /\ \A k \in Keys \ {call[s].want} : entries'[k] = entries[k]
          /\ \A f \in Entries \ {e} : key'[f] = key[f] /\ starts'[f] = starts[f]
    BY <1>0, <1>3, StartDetail
  <2>2. UNCHANGED <<closing, errs>>
    BY <1>3 DEF Start, startVars
  <2>3. ASSUME NEW k \in Keys, entries'[k] # None PROVE key'[entries'[k]] = k
    <3>1. CASE k = call[s].want
      BY <2>1, <3>1
    <3>2. CASE k # call[s].want
      <4>1. entries'[k] = entries[k] /\ entries[k] \in Entries /\ key[entries[k]] = k
        BY <1>0, <2>1, <2>3, <3>2 DEF TypeOK, KeyInv
      <4>2. entries[k] # e
        BY <1>0, <2>1, <3>2, <4>1 DEF KeyInv
      <4> QED
        BY <2>1, <4>1, <4>2
    <3> QED
      BY <3>1, <3>2
  <2>4. ASSUME NEW f \in Entries, key'[f] = None
        PROVE  /\ closing'[f] = "no" /\ starts'[f] = 0 /\ ~ Timed(f)'
               /\ \A i \in 1..MaxStarts : <<f, i>> \notin errs'
    <3>1. f # e
      BY <2>1, <2>4
    <3>2. key[f] = None
      BY <2>1, <2>4, <3>1
    <3> QED
      BY <1>0, <1>t, <2>1, <2>2, <3>1, <3>2 DEF KeyInv
  <2> QED
    BY <2>3, <2>4 DEF KeyInv
<1>4. ASSUME NEW e \in Entries, key[e] # None, NEW why, Leave(e, why), UNCHANGED <<key, starts>>,
             errs' \subseteq errs
      PROVE  KeyInv'
  <2>1. \A k \in Keys : entries'[k] \in {None, entries[k]}
    BY <1>4 DEF Leave
  <2>2. \A f \in Entries : key[f] = None => closing'[f] = "no"
    BY <1>0, <1>4, LeaveEffect DEF KeyInv
  <2> QED
    BY <1>0, <1>1, <1>4, <2>1, <2>2 DEF KeyInv
<1>5. ASSUME NEW s \in Sessions, ReadyErr(s) PROVE KeyInv'
  <2>1. call[s].ent \in Entries /\ <<call[s].ent, call[s].got>> \in errs
    BY <1>0, <1>5 DEF ReadyErr, CallInv, Bound, At
  <2>2. call[s].got \in 1..MaxStarts
    BY <1>0, <2>1 DEF TypeOK
  <2>3. key[call[s].ent] # None
    BY <1>0, <2>1, <2>2 DEF KeyInv
  <2> QED
    BY <1>4, <1>5, <2>1, <2>3 DEF ReadyErr, runVars
<1>6. ASSUME NEW e \in Entries, NEW i \in 1..MaxStarts, Drain(e, i) PROVE KeyInv'
  <2>1. key[e] # None
    BY <1>0, <1>6 DEF Drain, KeyInv
  <2> QED
    BY <1>4, <1>6, <2>1 DEF Drain, runVars
<1>7. ASSUME NEW s \in Sessions, ReadyOrLater(s) PROVE KeyInv'
  BY <1>2, <1>7 DEF ReadyOrLater, runVars
<1>8. ASSUME NEW e \in Entries, HandshakeFails(e) PROVE KeyInv'
  <2>1. key[e] # None
    BY <1>0, <1>8 DEF HandshakeFails, StateInv, KeyInv
  <2>2. UNCHANGED <<entries, key, starts, closing>> /\ errs' \subseteq errs \cup {<<e, starts[e]>>}
    BY <1>8 DEF HandshakeFails
  <2> QED
    BY <1>0, <1>1, <2>1, <2>2 DEF KeyInv
<1>9. ASSUME NEW e \in Entries,
             \/ StopToHibernate(e) \/ FinishHibernate(e) \/ StopToClose(e)
             \/ Publish(e) \/ MarkActive(e) \/ Exit(e)
      PROVE  KeyInv'
  BY <1>2, <1>9 DEF StopToHibernate, FinishHibernate, StopToClose, Publish, MarkActive, Exit,
     startVars
<1>10. CASE Decide
  <2>1. teardown.entry \in Entries /\ key[teardown.entry] # None /\ UNCHANGED <<key, starts>>
    BY <1>0, <1>10, DecideEffect DEF MapBase, TearMap
  <2>2. errs' = errs
    BY <1>10 DEF Decide, startVars
  <2> QED
    BY <1>2, <1>4, <1>10, <2>1, <2>2 DEF Decide
<1>11. CASE UNCHANGED poolVars
  BY <1>2, <1>11 DEF poolVars
<1> QED
  BY <1>3, <1>5, <1>6, <1>7, <1>8, <1>9, <1>10, <1>11, PoolSteps

-----------------------------------------------------------------------------
\* What is in the map stays open, and hibernates in somebody's hands.
LEMMA NextMap == MapBase /\ [Next]_vars => MapInv'
<1> SUFFICES ASSUME MapBase, [Next]_vars PROVE MapInv'
  OBVIOUS
<1>0. Base /\ TypeOK /\ CallInv /\ KeyInv /\ MapInv
  BY DEF MapBase, Base
<1>1. CASE UNCHANGED <<entries, key, state, hib, closing>>
  BY <1>0, <1>1 DEF MapInv, Mapped
<1>2. ASSUME NEW s \in Sessions, Start(s) PROVE MapInv'
  <2>1. PICK e \in Entries :
          /\ key[e] = None \/ Mapped(e)
          /\ state'[e] \in {"starting", "waking"}
          /\ \A f \in Entries \ {e} : state'[f] = state[f] /\ (Mapped(f)' <=> Mapped(f))
    BY <1>0, <1>2, StartDetail
  <2>2. UNCHANGED <<hib, closing>>
    BY <1>2 DEF Start
  <2>3. closing[e] = "no"
    BY <1>0, <2>1 DEF KeyInv, MapInv
  <2> QED
    BY <1>0, <2>1, <2>2, <2>3 DEF MapInv
<1>3. ASSUME NEW e \in Entries, NEW why, Leave(e, why), UNCHANGED key PROVE MapInv'
  BY <1>0, <1>3, LeaveMaps, LeaveEffect DEF MapInv
<1>4. ASSUME NEW s \in Sessions, ReadyErr(s) PROVE MapInv'
  <2>1. call[s].ent \in Entries
    BY <1>0, <1>4 DEF ReadyErr, CallInv, Bound, At
  <2> QED
    BY <1>3, <1>4, <2>1 DEF ReadyErr
<1>5. ASSUME NEW e \in Entries, NEW i \in 1..MaxStarts, Drain(e, i) PROVE MapInv'
  BY <1>3, <1>5 DEF Drain
<1>6. ASSUME NEW s \in Sessions, ReadyOrLater(s) PROVE MapInv'
  BY <1>1, <1>6 DEF ReadyOrLater
<1>7. ASSUME NEW e \in Entries,
             StopToHibernate(e) \/ FinishHibernate(e) \/ MarkActive(e)
      PROVE  MapInv'
  <2>1. UNCHANGED <<entries, key, closing>>
    BY <1>7 DEF StopToHibernate, FinishHibernate, MarkActive
  <2>2. \A f \in Entries \ {e} : state'[f] = state[f] /\ hib'[f] = hib[f]
    BY <1>0, <1>7 DEF StopToHibernate, FinishHibernate, MarkActive, TypeOK
  <2>3. \/ state' = state /\ hib'[e] = "wait"
        \/ state'[e] = "hibernated"
        \/ hib' = hib /\ state'[e] \in {"active", state[e]}
    BY <1>0, <1>7 DEF StopToHibernate, FinishHibernate, MarkActive, TypeOK
  <2> QED
    BY <1>0, <2>1, <2>2, <2>3 DEF MapInv, Mapped
<1>8. ASSUME NEW e \in Entries,
             StopToClose(e) \/ HandshakeFails(e) \/ Publish(e) \/ Exit(e)
      PROVE  MapInv'
  BY <1>1, <1>8 DEF StopToClose, HandshakeFails, Publish, Exit
<1>9. CASE Decide
  <2> DEFINE e == teardown.entry
  <2>1. e \in Entries /\ UNCHANGED key
    BY <1>0, <1>9, DecideEffect
  <2>2. CASE /\ UNCHANGED <<entries, closing>>
             /\ state' = [state EXCEPT ![e] = "hibernating"]
             /\ hib' = [hib EXCEPT ![e] = "stop"]
    <3>1. /\ state'[e] = "hibernating" /\ hib'[e] = "stop"
          /\ \A f \in Entries \ {e} : state'[f] = state[f] /\ hib'[f] = hib[f]
      BY <1>0, <2>1, <2>2 DEF TypeOK
    <3> QED
      BY <1>0, <2>1, <2>2, <3>1 DEF MapInv, Mapped
  <2>3. CASE Leave(e, "reap")
    BY <1>3, <2>1, <2>3
  <2>4. CASE UNCHANGED <<entries, closing, state, hib>>
    BY <1>1, <2>1, <2>4
  <2> QED
    BY <1>9, <2>2, <2>3, <2>4 DEF Decide
<1>10. CASE UNCHANGED poolVars
  BY <1>1, <1>10 DEF poolVars
<1> QED
  BY <1>2, <1>4, <1>5, <1>6, <1>7, <1>8, <1>9, <1>10, PoolSteps

-----------------------------------------------------------------------------
\* While a teardown has p.mu nobody takes a lease or leaves the map.
LEMMA NextTearMap == MapBase /\ [Next]_vars => TearMap'
<1> SUFFICES ASSUME MapBase, [Next]_vars PROVE TearMap'
  OBVIOUS
<1> USE BoundsAssumption
<1>0. Base /\ TypeOK /\ CallInv /\ LockInv /\ KeyInv /\ TearMap
  BY DEF MapBase, Base
<1>a. lock = None => teardown = None
  BY <1>0 DEF LockInv
<1>1. CASE teardown' = None
  BY <1>1 DEF TearMap
<1>2. CASE UNCHANGED <<teardown, entries, key>>
  <2>1. CASE lock = None
    BY <1>1, <1>2, <1>a, <2>1
  <2>2. ASSUME NEW s \in Sessions, Start(s) PROVE TearMap'
    BY <1>1, <1>2, <2>2 DEF Start
  <2>3. CASE refs' = refs
    BY <1>0, <1>2, <2>3 DEF TearMap, Held, Mapped
  <2> QED
    BY <2>1, <2>2, <2>3, LeaseSteps
<1>3. ASSUME NEW s \in Sessions, Start(s) \/ ReadyErr(s) PROVE TearMap'
  BY <1>3, <1>1, <1>a DEF Start, ReadyErr, lockVars
<1>4. ASSUME NEW s \in Sessions, Admit(s) PROVE TearMap'
  BY <1>4, <1>2 DEF Admit
<1>5. ASSUME NEW s \in Sessions, AdmitVictim(s) PROVE TearMap'
  <2>1. PICK e \in Entries : Mapped(e) /\ DropClient(e, "admit")
    BY <1>5 DEF AdmitVictim, Victims
  <2>2. UNCHANGED <<entries, key>>
    BY <1>5 DEF AdmitVictim
  <2> QED
    BY <2>1, <2>2 DEF TearMap, DropClient, Mapped
<1>6. ASSUME NEW e \in Entries, Reap(e) PROVE TearMap'
  <2>1. UNCHANGED <<entries, key, refs>>
    BY <1>6 DEF Reap, leaseVars
  <2>2. key[e] # None
    BY <1>0, <1>6 DEF Reap, KeyInv, Timed
  <2>3. CASE ~ Held(e) /\ DropClient(e, "reap")
    BY <2>1, <2>2, <2>3 DEF TearMap, DropClient, Held
  <2> QED
    BY <1>2, <1>6, <2>1, <2>3 DEF Reap, lockVars
<1>7. ASSUME NEW e \in Entries, Hibernate(e) PROVE TearMap'
  <2>1. Mapped(e) /\ DropClient(e, "idle") /\ UNCHANGED <<entries, key>>
    BY <1>7 DEF Hibernate
  <2> QED
    BY <2>1 DEF TearMap, DropClient, Mapped
<1>8. ASSUME NEW e \in Entries,
             \/ StopToHibernate(e) \/ FinishHibernate(e) \/ StopToClose(e)
             \/ HandshakeFails(e) \/ Publish(e) \/ MarkActive(e) \/ Exit(e)
      PROVE  TearMap'
  BY <1>8, <1>2 DEF StopToHibernate, FinishHibernate, StopToClose, HandshakeFails, Publish,
     MarkActive, Exit, lockVars
<1>9. ASSUME NEW e \in Entries, NEW i \in 1..MaxStarts, Drain(e, i) PROVE TearMap'
  BY <1>9, <1>1, <1>a DEF Drain, lockVars
<1>10. CASE Decide
  BY <1>10, <1>1 DEF Decide
<1>11. CASE UNCHANGED coreVars
  BY <1>11, <1>2 DEF coreVars
<1> QED
  BY <1>0, <1>3, <1>4, <1>5, <1>6, <1>7, <1>8, <1>9, <1>10, <1>11, StepCases DEF coreVars

-----------------------------------------------------------------------------
\* A reader leaves a channel with its answer, or leaves a goroutine behind.
LEMMA NextReader == MapBase /\ ReaderInv /\ [Next]_vars => ReaderInv'
<1> SUFFICES ASSUME MapBase, ReaderInv, [Next]_vars PROVE ReaderInv'
  OBVIOUS
<1>0. Base /\ TypeOK /\ CallInv /\ LockInv /\ KeyInv /\ MapInv
  BY DEF MapBase, Base
<1> DEFINE Waits(f) == Mapped(f) /\ hib[f] = "no" /\ sup[f] \in {"handshake", "failed"}
           Read(f) == HasReader(f) /\ (sup[f] = "failed" => <<f, starts[f]>> \in errs)
<1>a. ReaderInv <=> \A f \in Entries : Waits(f) => Read(f)
  BY DEF ReaderInv
<1>b. ReaderInv' <=> \A f \in Entries : Waits(f)' => Read(f)'
  BY DEF ReaderInv
<1>1. ASSUME NEW f \in Entries, Waits(f), starts'[f] = starts[f], sup'[f] = sup[f],
             <<f, starts[f]>> \in drains => <<f, starts[f]>> \in drains',
             \A s \in Sessions : At(s, "ready") /\ call[s].ent = f => call'[s] = call[s],
             <<f, starts[f]>> \in errs => <<f, starts[f]>> \in errs'
      PROVE  Read(f)'
  BY <1>1, <1>a DEF HasReader, At
<1>2. ASSUME UNCHANGED <<entries, key, hib, starts, sup, errs>>, drains \subseteq drains',
             \A s \in Sessions : At(s, "ready") => call'[s] = call[s]
      PROVE  ReaderInv'
  BY <1>1, <1>2, <1>b DEF Mapped
<1>3. ASSUME NEW s \in Sessions, Start(s) PROVE ReaderInv'
  <2>1. PICK e \in Entries :
          /\ starts'[e] = starts[e] + 1 /\ sup'[e] = "handshake"
          /\ At(s, "ready")' /\ call'[s].ent = e /\ call'[s].got = starts'[e]
          /\ \A f \in Entries \ {e} :
                starts'[f] = starts[f] /\ sup'[f] = sup[f] /\ (Mapped(f)' <=> Mapped(f))
    BY <1>0, <1>3, StartDetail
  <2>2. UNCHANGED <<hib, errs, drains>>
    BY <1>3 DEF Start, startVars
  <2>3. \A t \in Sessions : At(t, "ready") => call'[t] = call[t]
    <3>1. Others(s) /\ ~ At(s, "ready")
      BY <1>0, <1>3, SessionEffect, IsSession DEF CallInv, Start, At
    <3> QED
      BY <3>1 DEF Others, At
  <2>4. Read(e)'
    BY <2>1 DEF HasReader
  <2>5. ASSUME NEW f \in Entries \ {e}, Waits(f)' PROVE Read(f)'
    BY <1>1, <2>1, <2>2, <2>3, <2>5
  <2> QED
    BY <1>b, <2>4, <2>5
<1>4. ASSUME NEW e \in Entries, NEW why, Leave(e, why), UNCHANGED <<key, starts, sup>>,
             \A f \in Entries \ {e} : \A i \in 1..MaxStarts :
                (<<f, i>> \in drains <=> <<f, i>> \in drains') /\ (<<f, i>> \in errs <=> <<f, i>> \in errs'),
             \A s \in Sessions : At(s, "ready") /\ call[s].ent # e => call'[s] = call[s]
      PROVE  ReaderInv'
  <2>1. ~ Mapped(e)' /\ \A f \in Entries \ {e} : (Mapped(f)' <=> Mapped(f)) /\ hib'[f] = hib[f]
    BY <1>0, <1>4, LeaveMaps, LeaveEffect
  <2>2. ASSUME NEW f \in Entries \ {e}, Waits(f)' PROVE Read(f)'
    <3>1. Waits(f)
      BY <1>4, <2>1, <2>2
    <3>2. starts[f] \in 1..MaxStarts
      BY <1>0, <3>1, BoundsAssumption DEF StateInv, TypeOK, Base
    <3> QED
      BY <1>1, <1>4, <3>1, <3>2
  <2> QED
    BY <1>b, <2>1, <2>2
<1>5. ASSUME NEW s \in Sessions, ReadyErr(s) PROVE ReaderInv'
  <2>1. call[s].ent \in Entries /\ Others(s)
    BY <1>0, <1>5, SessionEffect, IsSession DEF ReadyErr, CallInv, Bound, At
  <2>2. /\ Leave(call[s].ent, "fail") /\ UNCHANGED <<key, starts, sup, drains>>
        /\ errs' = errs \ {<<call[s].ent, call[s].got>>}
    BY <1>5 DEF ReadyErr, runVars
  <2> QED
    BY <1>4, <2>1, <2>2 DEF Others
<1>6. ASSUME NEW e \in Entries, NEW i \in 1..MaxStarts, Drain(e, i) PROVE ReaderInv'
  <2>1. /\ Leave(e, "fail") /\ UNCHANGED <<key, starts, sup, call>>
        /\ errs' = errs \ {<<e, i>>} /\ drains' = drains \ {<<e, i>>}
    BY <1>6 DEF Drain, runVars
  <2> QED
    BY <1>4, <2>1
<1>7. ASSUME NEW s \in Sessions, ReadyOrLater(s) PROVE ReaderInv'
  <2> DEFINE e == call[s].ent
             i == call[s].got
  <2>1. /\ Others(s) /\ UNCHANGED <<entries, key, hib, starts, sup, errs>>
        /\ drains' = IF (i = starts[e] /\ sup[e] \in {"handshake", "mark"}) \/ <<e, i>> \in errs
                     THEN drains \cup {<<e, i>>} ELSE drains
    <3>1. Session(s)
      BY <1>7 DEF Session, CallStep
    <3> QED
      BY <1>0, <1>7, <3>1, SessionEffect DEF ReadyOrLater, runVars, CallInv
  <2>2. ASSUME NEW f \in Entries, Waits(f) PROVE Read(f)'
    <3>1. Read(f)
      BY <1>a, <2>2
    <3>2. CASE <<f, starts[f]>> \in drains
      BY <2>1, <3>1, <3>2 DEF HasReader
    <3>3. CASE e = f /\ i = starts[f]
      BY <2>1, <2>2, <3>1, <3>3 DEF HasReader
    <3>4. ASSUME NEW t \in Sessions, At(t, "ready"), call[t].ent = f, call[t].got = starts[f],
                 t # s
          PROVE  Read(f)'
      BY <2>1, <3>1, <3>4 DEF HasReader, Others, At
    <3> QED
      BY <3>1, <3>2, <3>3, <3>4 DEF HasReader
  <2> QED
    BY <1>b, <2>1, <2>2 DEF Mapped
<1>8. ASSUME NEW s \in Sessions, Session(s), ~ At(s, "ready"), UNCHANGED <<poolVars, drains>>
      PROVE  ReaderInv'
  <2>1. Others(s)
    BY <1>0, <1>8, SessionEffect DEF CallInv
  <2> QED
    BY <1>2, <1>8, <2>1 DEF poolVars, Others
<1>9. ASSUME NEW e \in Entries,
             UNCHANGED <<entries, key, starts, errs, call>>,
             sup'[e] \notin {"handshake", "failed"} \/ hib'[e] # "no",
             \A f \in Entries \ {e} :
                /\ hib'[f] = hib[f] /\ sup'[f] = sup[f]
                /\ <<f, starts[f]>> \in drains => <<f, starts[f]>> \in drains'
      PROVE  ReaderInv'
  <2>1. ASSUME NEW f \in Entries \ {e}, Waits(f)' PROVE Read(f)'
    BY <1>1, <1>9, <2>1 DEF Mapped
  <2> QED
    BY <1>b, <1>9, <2>1
<1>10. ASSUME NEW e \in Entries,
              StopToHibernate(e) \/ FinishHibernate(e) \/ Publish(e) \/ MarkActive(e) \/ Exit(e)
       PROVE  ReaderInv'
  <2>1. UNCHANGED <<entries, key, starts, errs, call>>
    BY <1>10 DEF StopToHibernate, FinishHibernate, Publish, MarkActive, Exit, startVars
  <2>2. sup'[e] \notin {"handshake", "failed"} \/ hib'[e] # "no"
    BY <1>0, <1>10 DEF StopToHibernate, FinishHibernate, Publish, MarkActive, Exit, TypeOK
  <2>3. \A f \in Entries \ {e} : hib'[f] = hib[f] /\ sup'[f] = sup[f]
    BY <1>0, <1>10 DEF StopToHibernate, FinishHibernate, Publish, MarkActive, Exit, TypeOK
  <2>4. drains' = drains \/ drains' = drains \ {<<e, starts[e]>>}
    BY <1>10 DEF StopToHibernate, FinishHibernate, Publish, MarkActive, Exit, startVars
  <2> QED
    BY <1>9, <2>1, <2>2, <2>3, <2>4
<1>11. ASSUME NEW e \in Entries, StopToClose(e) PROVE ReaderInv'
  BY <1>2, <1>11 DEF StopToClose, startVars
<1>12. ASSUME NEW e \in Entries, HandshakeFails(e) PROVE ReaderInv'
  <2>1. /\ UNCHANGED <<entries, key, hib, starts, call>> /\ sup[e] = "handshake"
        /\ \A f \in Entries \ {e} : sup'[f] = sup[f]
    BY <1>0, <1>12 DEF HandshakeFails, TypeOK
  <2>2. CASE stop[e]
    <3>1. drains' = drains \ {<<e, starts[e]>>} /\ errs' = errs
      BY <1>12, <2>2 DEF HandshakeFails
    <3>2. Mapped(e) => hib[e] # "no"
      <4>1. ASSUME Mapped(e)
            PROVE  closing[e] = "no" /\ state[e] \notin {"new", "gone"}
                   /\ (state[e] = "hibernating" => hib[e] # "no")
        BY <1>0, <4>1 DEF MapInv
      <4>2. state[e] # "hibernated"
        BY <1>0, <2>1 DEF Base, StateInv
      <4>3. closing[e] = "no" => ~ Running(e)
        BY <1>0, <2>2 DEF Base, StateInv
      <4>4. state[e] \in States
        BY <1>0 DEF TypeOK
      <4> QED
        BY <4>1, <4>2, <4>3, <4>4 DEF Running, States
    <3>3. ASSUME NEW f \in Entries, Waits(f)' PROVE Read(f)'
      <4>1. f # e
        BY <2>1, <3>2, <3>3 DEF Mapped
      <4> QED
        BY <1>1, <2>1, <3>1, <3>3, <4>1 DEF Mapped
    <3> QED
      BY <1>b, <3>3
  <2>3. CASE ~ stop[e]
    <3>1. drains' = drains /\ errs' = errs \cup {<<e, starts[e]>>}
      BY <1>12, <2>3 DEF HandshakeFails
    <3>2. ASSUME NEW f \in Entries, Waits(f)' PROVE Read(f)'
      <4>1. Waits(f) /\ Read(f)
        BY <1>a, <2>1, <3>2 DEF Mapped
      <4> QED
        BY <2>1, <3>1, <4>1 DEF HasReader, At
    <3> QED
      BY <1>b, <3>2
  <2> QED
    BY <2>2, <2>3
<1>13. CASE Decide
  <2> DEFINE e == teardown.entry
  <2>1. /\ teardown # None /\ e \in Entries /\ UNCHANGED <<key, starts, sup, errs, drains>>
        /\ \A s \in Sessions : At(s, "ready") => call'[s] = call[s]
    <3>1. UNCHANGED <<errs, drains>>
      BY <1>13 DEF Decide, startVars
    <3>2. CASE call' = call
      BY <1>0, <1>13, <3>1, <3>2, DecideEffect
    <3>3. CASE call' # call
      <4>1. /\ lock \in Sessions /\ teardown # None /\ teardown.why = "admit"
            /\ \A t \in Sessions \ {lock} : call'[t] = call[t]
        BY <1>0, <1>13, <3>3, DecideEffect
      <4>2. ~ At(lock, "ready")
        BY <1>0, <4>1 DEF LockInv, Admitting, At
      <4> QED
        BY <1>0, <1>13, <3>1, <4>1, <4>2, DecideEffect
    <3> QED
      BY <3>2, <3>3
  <2>2. CASE UNCHANGED <<entries, hib>>
    BY <1>2, <2>1, <2>2
  <2>3. CASE Leave(e, "reap")
    BY <1>4, <2>1, <2>3
  <2>4. CASE UNCHANGED <<entries, call>> /\ hib' = [hib EXCEPT ![e] = "stop"]
    <3>1. hib'[e] = "stop" /\ \A f \in Entries \ {e} : hib'[f] = hib[f]
      BY <1>0, <2>1, <2>4 DEF TypeOK
    <3> QED
      BY <1>9, <2>1, <2>4, <3>1
  <2> QED
    BY <1>13, <2>2, <2>3, <2>4 DEF Decide
<1>14. CASE UNCHANGED <<poolVars, drains, call>>
  BY <1>2, <1>14 DEF poolVars
<1> QED
  BY <1>3, <1>5, <1>6, <1>7, <1>8, <1>10, <1>11, <1>12, <1>13, <1>14, PoolSteps

-----------------------------------------------------------------------------
\* The next start waits until the failure of the last has been acted on.
LEMMA NextErr ==
  ASSUME "lateDrain" \notin Races
  PROVE  MapBase /\ ErrInv /\ [Next]_vars => ErrInv'
<1> SUFFICES ASSUME MapBase, ErrInv, [Next]_vars PROVE ErrInv'
  OBVIOUS
<1> USE BoundsAssumption
<1>0. Base /\ TypeOK /\ CallInv /\ LockInv /\ AdmitInv /\ KeyInv /\ MapInv /\ LockInv'
  BY NextLock DEF MapBase, Base
<1> DEFINE Last == \A e \in Entries : \A i \in 1..MaxStarts :
                      <<e, i>> \in errs /\ Mapped(e) => i = starts[e] /\ LoopEnded(e)
           Clear == \A s \in Sessions : Admitting(s) /\ entries[call[s].want] # None =>
                      \A i \in 1..MaxStarts : <<entries[call[s].want], i>> \notin errs
<1>a. ErrInv <=> Last /\ Clear
  BY DEF ErrInv
<1>b. ErrInv' <=> Last' /\ Clear'
  BY DEF ErrInv
<1>k. \A k \in Keys : entries[k] # None => entries[k] \in Entries /\ Mapped(entries[k])
  BY <1>0 DEF TypeOK, KeyInv, Mapped
<1>w. \A s \in Sessions : Admitting(s) => call[s].want \in Keys
  BY <1>0 DEF CallInv, Bound, Admitting, At
<1>1. ASSUME UNCHANGED <<entries, key, starts, errs>>,
             \A e \in Entries : LoopEnded(e) => LoopEnded(e)'
      PROVE  Last'
  BY <1>1, <1>a DEF Mapped
<1>2. ASSUME UNCHANGED <<entries, errs>>,
             \A s \in Sessions : Admitting(s)' => Admitting(s) /\ call'[s].want = call[s].want
      PROVE  Clear'
  BY <1>2, <1>a
<1>3. ASSUME lock' = None PROVE Clear'
  BY <1>0, <1>3 DEF LockInv
<1>4. ASSUME NEW s \in Sessions, Start(s) PROVE ErrInv'
  <2>1. PICK e \in Entries :
          /\ \/ entries[call[s].want] = None /\ key[e] = None
             \/ entries[call[s].want] = e /\ Mapped(e)
          /\ \A f \in Entries \ {e} :
                starts'[f] = starts[f] /\ sup'[f] = sup[f] /\ (Mapped(f)' <=> Mapped(f))
    BY <1>0, <1>4, StartDetail
  <2>2. errs' = errs /\ lock' = None /\ Admitting(s)
    BY <1>4 DEF Start, startVars, Admitting
  <2>3. \A i \in 1..MaxStarts : <<e, i>> \notin errs
    BY <1>0, <1>a, <2>1, <2>2 DEF KeyInv
  <2>4. Last'
    BY <1>a, <2>1, <2>2, <2>3 DEF LoopEnded
  <2> QED
    BY <1>3, <1>b, <2>2, <2>4
<1>5. ASSUME NEW e \in Entries, NEW why, Leave(e, why), UNCHANGED <<key, starts, sup>>,
             errs' \subseteq errs
      PROVE  Last'
  <2>1. \A f \in Entries : Mapped(f)' => Mapped(f)
    BY <1>0, <1>5, LeaveMaps
  <2> QED
    BY <1>5, <1>a, <2>1 DEF LoopEnded
<1>6. ASSUME NEW s \in Sessions, ReadyErr(s) PROVE ErrInv'
  <2>1. call[s].ent \in Entries
    BY <1>0, <1>6 DEF ReadyErr, CallInv, Bound, At
  <2>2. /\ Leave(call[s].ent, "fail") /\ UNCHANGED <<key, starts, sup>>
        /\ errs' \subseteq errs /\ lock' = None
    BY <1>6 DEF ReadyErr, runVars, lockVars
  <2> QED
    BY <1>3, <1>5, <1>b, <2>1, <2>2
<1>7. ASSUME NEW e \in Entries, NEW i \in 1..MaxStarts, Drain(e, i) PROVE ErrInv'
  <2>1. /\ Leave(e, "fail") /\ UNCHANGED <<key, starts, sup>>
        /\ errs' \subseteq errs /\ lock' = None
    BY <1>7 DEF Drain, runVars, lockVars
  <2> QED
    BY <1>3, <1>5, <1>b, <2>1
<1>8. ASSUME NEW s \in Sessions, Session(s),
             UNCHANGED <<entries, key, starts, sup, errs>>
      PROVE  ErrInv'
  <2>1. Last'
    BY <1>1, <1>8 DEF LoopEnded
  <2>2. Others(s) /\ (Admitting(s)' => Admit(s) \/ AdmitVictim(s))
    BY <1>0, <1>8, SessionEffect DEF CallInv
  <2>3. CASE Admit(s)
    <3>1. call'[s].want = call[s].want
      <4>1. To(s, "admit")
        BY <2>3 DEF Admit
      <4> QED
        BY <1>0, <4>1, ToEffect
    <3> DEFINE e == entries[call[s].want]
    <3>2. e # None => \A i \in 1..MaxStarts : <<e, i>> \notin errs
      <4>1. call[s].want \in Keys
        BY <1>0, <2>3 DEF Admit, CallInv, Bound, At
      <4>2. e # None => ~ FailureUnread(e)
        BY <2>3 DEF Admit
      <4>3. ASSUME e # None, NEW i \in 1..MaxStarts, <<e, i>> \in errs PROVE FALSE
        <5>1. e \in Entries /\ i = starts[e]
          BY <1>a, <1>k, <4>1, <4>3
        <5>2. i \in 1..starts[e]
          BY <5>1
        <5> QED
          BY <4>2, <4>3, <5>2 DEF FailureUnread
      <4> QED
        BY <4>3
    <3>3. lock = None
      BY <2>3 DEF Admit
    <3>4. \A t \in Sessions \ {s} : ~ Admitting(t)'
      BY <1>0, <2>2, <3>3 DEF LockInv, Others, Admitting, At
    <3>5. Clear'
      BY <1>8, <3>1, <3>2, <3>4
    <3> QED
      BY <1>b, <2>1, <3>5
  <2>4. CASE AdmitVictim(s)
    <3>1. call' = call
      BY <2>4 DEF AdmitVictim
    <3>2. Clear'
      BY <1>2, <1>8, <3>1 DEF Admitting, At
    <3> QED
      BY <1>b, <2>1, <3>2
  <2>5. CASE ~ Admitting(s)'
    <3>1. Clear'
      BY <1>2, <1>8, <2>2, <2>5 DEF Others, Admitting, At
    <3> QED
      BY <1>b, <2>1, <3>1
  <2> QED
    BY <2>2, <2>3, <2>4, <2>5
<1>9. ASSUME NEW s \in Sessions, ReadyOrLater(s) PROVE ErrInv'
  BY <1>8, <1>9 DEF ReadyOrLater, runVars, Session, CallStep
<1>10. ASSUME NEW e \in Entries,
              \/ StopToHibernate(e) \/ FinishHibernate(e) \/ StopToClose(e)
              \/ Publish(e) \/ MarkActive(e) \/ Exit(e)
       PROVE  ErrInv'
  <2>1. UNCHANGED <<entries, key, starts, errs, call>>
    BY <1>10 DEF StopToHibernate, FinishHibernate, StopToClose, Publish, MarkActive, Exit,
       startVars
  <2>2. \A f \in Entries : LoopEnded(f) => LoopEnded(f)'
    BY <1>0, <1>10 DEF StopToHibernate, FinishHibernate, StopToClose, Publish, MarkActive, Exit,
       LoopEnded, TypeOK
  <2> QED
    BY <1>1, <1>2, <1>b, <2>1, <2>2 DEF Admitting, At
<1>11. ASSUME NEW e \in Entries, HandshakeFails(e) PROVE ErrInv'
  <2>1. /\ UNCHANGED <<entries, key, starts, call>> /\ sup[e] = "handshake"
        /\ errs' \subseteq errs \cup {<<e, starts[e]>>}
        /\ sup'[e] = "failed" /\ \A f \in Entries \ {e} : sup'[f] = sup[f]
    BY <1>0, <1>11 DEF HandshakeFails, TypeOK
  <2>2. Last'
    BY <1>a, <2>1 DEF LoopEnded, Mapped
  <2>3. ASSUME NEW s \in Sessions, Admitting(s), entries[call[s].want] # None
        PROVE  entries[call[s].want] # e
    <3>1. state[entries[call[s].want]] = "hibernated"
      BY <1>0, <2>3 DEF AdmitInv
    <3>2. state[e] # "hibernated"
      BY <1>0, <2>1 DEF Base, StateInv
    <3> QED
      BY <3>1, <3>2
  <2>4. Clear'
    BY <1>a, <2>1, <2>3 DEF Admitting, At
  <2> QED
    BY <1>b, <2>2, <2>4
<1>12. CASE Decide
  <2>1. teardown # None /\ teardown.entry \in Entries /\ UNCHANGED <<key, starts, sup>>
    BY <1>0, <1>12, DecideEffect
  <2>2. errs' = errs
    BY <1>12 DEF Decide, startVars
  <2>3. CASE Leave(teardown.entry, "reap") /\ teardown.why = "reap"
    <3>1. lock' = None
      BY <1>12, <2>3 DEF Decide
    <3> QED
      BY <1>3, <1>5, <1>b, <2>1, <2>2, <2>3, <3>1
  <2>4. CASE UNCHANGED entries
    <3>1. Last'
      BY <1>1, <2>1, <2>2, <2>4 DEF LoopEnded
    <3>2. CASE call' = call
      BY <1>2, <1>b, <2>2, <2>4, <3>1, <3>2 DEF Admitting, At
    <3>3. CASE call' # call
      <4>1. /\ lock \in Sessions /\ teardown.why = "admit" /\ call'[lock].want = call[lock].want
            /\ \A t \in Sessions \ {lock} : call'[t] = call[t]
        BY <1>0, <1>12, <3>3, DecideEffect
      <4>2. Admitting(lock)
        BY <1>0, <2>1, <4>1 DEF LockInv
      <4> QED
        BY <1>2, <1>b, <2>2, <2>4, <3>1, <4>1, <4>2 DEF Admitting, At
    <3> QED
      BY <3>2, <3>3
  <2> QED
    BY <1>12, <2>3, <2>4 DEF Decide
<1>13. CASE UNCHANGED <<poolVars, drains, call>>
  BY <1>1, <1>2, <1>b, <1>13 DEF poolVars, LoopEnded, Admitting, At
<1> QED
  BY <1>4, <1>6, <1>7, <1>8, <1>9, <1>10, <1>11, <1>12, <1>13, PoolSteps DEF poolVars

\* Who leaves the map failed, or was found unleased and unused under p.mu.
LEMMA NextEvicts == MapBase /\ ErrInv /\ [Next]_vars => [EvictsDeserved]_vars
<1> SUFFICES ASSUME MapBase, ErrInv, [Next]_vars, NEW e \in Entries, Mapped(e), ~ Mapped(e)'
             PROVE  LoopEnded(e) \/ ~ (Held(e) \/ Busy(e))
  BY DEF EvictsDeserved
<1>0. Base /\ TypeOK /\ CallInv /\ KeyInv /\ TearMap
  BY DEF MapBase, Base
<1>1. ~ UNCHANGED <<entries, key>>
  BY DEF Mapped
<1>2. ASSUME NEW f \in Entries, NEW i \in 1..MaxStarts, NEW why, Leave(f, why), UNCHANGED key,
             <<f, i>> \in errs
      PROVE  LoopEnded(e)
  <2>1. f = e
    BY <1>0, <1>2, LeaveMaps
  <2> QED
    BY <1>2, <2>1 DEF ErrInv
<1>3. ASSUME NEW s \in Sessions, Start(s) PROVE FALSE
  BY <1>0, <1>3, StartDetail
<1>4. ASSUME NEW s \in Sessions, ReadyErr(s) PROVE LoopEnded(e)
  <2>1. /\ call[s].ent \in Entries /\ <<call[s].ent, call[s].got>> \in errs
        /\ Leave(call[s].ent, "fail") /\ UNCHANGED key
    BY <1>0, <1>4 DEF ReadyErr, CallInv, Bound, At
  <2>2. call[s].got \in 1..MaxStarts
    BY <1>0, <2>1 DEF TypeOK
  <2> QED
    BY <1>2, <2>1, <2>2
<1>5. ASSUME NEW f \in Entries, NEW i \in 1..MaxStarts, Drain(f, i) PROVE LoopEnded(e)
  BY <1>2, <1>5 DEF Drain
<1>6. CASE Decide
  <2>1. teardown # None /\ teardown.entry \in Entries /\ UNCHANGED key
    BY <1>0, <1>6, DecideEffect
  <2>2. teardown.why = "reap" /\ ~ Busy(teardown.entry) /\ Leave(teardown.entry, "reap")
    BY <1>1, <1>6, <2>1 DEF Decide
  <2>3. teardown.entry = e
    BY <1>0, <2>1, <2>2, LeaveMaps
  <2> QED
    BY <1>0, <2>1, <2>2, <2>3 DEF TearMap
<1>7. ASSUME NEW s \in Sessions, ReadyOrLater(s) PROVE FALSE
  BY <1>1, <1>7 DEF ReadyOrLater
<1>8. ASSUME NEW f \in Entries,
             \/ StopToHibernate(f) \/ FinishHibernate(f) \/ StopToClose(f)
             \/ HandshakeFails(f) \/ Publish(f) \/ MarkActive(f) \/ Exit(f)
      PROVE  FALSE
  BY <1>1, <1>8 DEF StopToHibernate, FinishHibernate, StopToClose, HandshakeFails, Publish,
     MarkActive, Exit
<1> QED
  BY <1>1, <1>3, <1>4, <1>5, <1>6, <1>7, <1>8, PoolSteps DEF poolVars

-----------------------------------------------------------------------------
(* Leases: who pins a key, borrows an entry or is about to pin it.            *)
Pins(k) == {s \in Sessions : pinned[s] = k}
Borrowers(e) == {s \in Sessions : e \in borrowed[s]}
Awaits(e) == {s \in Sessions : At(s, "ready") /\ call[s].pinning /\ call[s].ent = e}

\* The sets of sessions that are counted are finite.
LEMMA CardType ==
  ASSUME NEW S \in SUBSET Sessions
  PROVE  IsFiniteSet(S) /\ Cardinality(S) \in Nat
BY SessionsAssumption, FS_Subset, FS_CardinalityType

\* A session more is one more.
LEMMA CardAdd ==
  ASSUME NEW S \in SUBSET Sessions, NEW s \in Sessions \ S
  PROVE  Cardinality(S \cup {s}) = Cardinality(S) + 1
<1>1. IsFiniteSet(S)
  BY CardType
<1> QED
  BY <1>1, FS_AddElement

\* A session less is one less.
LEMMA CardDrop ==
  ASSUME NEW S \in SUBSET Sessions, NEW s \in S
  PROVE  Cardinality(S) = Cardinality(S \ {s}) + 1
<1>1. S \ {s} \in SUBSET Sessions /\ s \in Sessions \ (S \ {s}) /\ S = (S \ {s}) \cup {s}
  OBVIOUS
<1> QED
  BY <1>1, CardAdd

\* What the count of leases says, in terms of those sets.
LEMMA Counted ==
  LeasesCounted <=>
      \A e \in Entries : Mapped(e) /\ ~ LostKey(key[e]) =>
          refs[e] = Cardinality(Pins(key[e])) + Cardinality(Borrowers(e)) + Cardinality(Awaits(e))
BY DEF LeasesCounted, LeasesLost, LostKey, Pins, Borrowers, Awaits

\* An entry somebody pins, or is about to, is held.
LEMMA PinnedIsHeld ==
  ASSUME LeasesCounted, NEW e \in Entries, Mapped(e), ~ LostKey(key[e]),
         NEW s \in Sessions, s \in Pins(key[e]) \cup Awaits(e) \cup Borrowers(e)
  PROVE  Held(e)
<1>1. /\ Pins(key[e]) \in SUBSET Sessions /\ Awaits(e) \in SUBSET Sessions
      /\ Borrowers(e) \in SUBSET Sessions
  BY DEF Pins, Awaits, Borrowers
<1> DEFINE P == Pins(key[e])
           B == Borrowers(e)
           A == Awaits(e)
<1>2. refs[e] = Cardinality(P) + Cardinality(B) + Cardinality(A)
  BY Counted
<1>3. Cardinality(P) \in Nat /\ Cardinality(B) \in Nat /\ Cardinality(A) \in Nat
  BY <1>1, CardType
<1>4. ASSUME NEW S \in SUBSET Sessions, s \in S PROVE Cardinality(S) > 0
  <2>1. Cardinality(S) = Cardinality(S \ {s}) + 1 /\ Cardinality(S \ {s}) \in Nat
    BY <1>4, CardDrop, CardType
  <2> QED
    BY <2>1
<1>5. Cardinality(P) > 0 \/ Cardinality(B) > 0 \/ Cardinality(A) > 0
  BY <1>1, <1>4
<1> HIDE DEF P, B, A
<1> QED
  BY <1>2, <1>3, <1>5 DEF Held

\* To leaves a call pinning or not.
LEMMA ToPinning ==
  ASSUME TypeOK, NEW s \in Sessions, NEW p, To(s, p)
  PROVE  call'[s].pinning = call[s].pinning
<1> DEFINE r == [call[s] EXCEPT !.pc = p]
<1>1. call' = [call EXCEPT ![s] = r]
  BY DEF To
<1>2. call'[s] = r
  BY <1>1, SetEffect
<1>3. r.pinning = call[s].pinning
  BY CallFields DEF Calls
<1> QED
  BY <1>2, <1>3

\* A lease given back makes no call pin.
LEMMA EndLeasePinning ==
  ASSUME TypeOK, NEW s \in Sessions, EndLease(s), call'[s].pinning
  PROVE  call[s].pinning
<1>1. ASSUME call' = [call EXCEPT ![s] = Quiet("idle")] PROVE FALSE
  <2>1. call'[s] = Quiet("idle")
    BY <1>1, SetEffect
  <2> QED
    BY <2>1 DEF Quiet
<1>2. To(s, "missed") \/ To(s, "ended") \/ To(s, "acquire")
  BY <1>1 DEF EndLease
<1> QED
  BY <1>2, ToPinning

\* An acquire that ended well pins for an attach, and goes on for a call.
LEMMA AcquiredPinning ==
  ASSUME TypeOK, NEW s \in Sessions, NEW e \in Entries, Acquired(s, e)
  PROVE  /\ ~ call'[s].pinning /\ call'[s].pc \in {"idle", "borrow"}
         /\ pinned'[s] = IF call[s].pinning THEN call[s].want ELSE pinned[s]
         /\ \A t \in Sessions \ {s} : call'[t] = call[t] /\ pinned'[t] = pinned[t]
<1>1. CASE call[s].pinning
  <2>1. call' = [call EXCEPT ![s] = Quiet("idle")] /\ pinned' = [pinned EXCEPT ![s] = call[s].want]
    BY <1>1 DEF Acquired
  <2>2. call'[s] = Quiet("idle") /\ \A t \in Sessions \ {s} : call'[t] = call[t]
    BY <2>1, SetEffect
  <2> QED
    BY <1>1, <2>1, <2>2 DEF Quiet, TypeOK
<1>2. CASE ~ call[s].pinning
  <2> DEFINE r == [call[s] EXCEPT !.pc = "borrow", !.ent = e, !.got = 0]
  <2>1. call' = [call EXCEPT ![s] = r] /\ pinned' = pinned
    BY <1>2 DEF Acquired
  <2>2. call'[s] = r /\ \A t \in Sessions \ {s} : call'[t] = call[t]
    BY <2>1, SetEffect
  <2>3. ~ r.pinning /\ r.pc = "borrow"
    BY <1>2, CallFields DEF Calls
  <2> QED
    BY <1>2, <2>1, <2>2, <2>3
<1> QED
  BY <1>1, <1>2

\* A session starts to pin when it attaches and unpins when it leaves, and only a
\* start puts it at a channel.
LEMMA SessionPins ==
  ASSUME TypeOK, NEW s \in Sessions, Bound(s), Session(s)
  PROVE  /\ At(s, "ready")' => Start(s)
         /\ call'[s].pinning => call[s].pinning \/ At(s, "out")
         /\ call'[s].pc \in {"out", "leaving"} => At(s, "leaving") \/ Detach(s)
<1> DEFINE Goal == /\ At(s, "ready")' => Start(s)
                   /\ call'[s].pinning => call[s].pinning \/ At(s, "out")
                   /\ call'[s].pc \in {"out", "leaving"} => At(s, "leaving") \/ Detach(s)
<1>1. ASSUME NEW p \in {"wait", "admit", "missed", "ended", "acquire"}, To(s, p) PROVE Goal
  BY <1>1, ToEffect, ToPinning DEF At
<1>2. ASSUME EndLease(s), call[s].ent \in Entries PROVE Goal
  BY <1>2, EndLeaseEffect, EndLeasePinning DEF At
<1>3. ASSUME NEW e \in Entries, Acquired(s, e) PROVE Goal
  BY <1>3, AcquiredPinning DEF At
<1>4. ASSUME call' = [call EXCEPT ![s] = Quiet("idle")] PROVE Goal
  <2>1. call'[s] = Quiet("idle")
    BY <1>4, SetEffect
  <2> QED
    BY <2>1 DEF Quiet, At
<1>5. ASSUME NEW k \in Keys, Attach(s, k) PROVE Goal
  <2> DEFINE r == [Quiet("acquire") EXCEPT !.pinning = TRUE, !.want = k]
  <2>1. call' = [call EXCEPT ![s] = r] /\ At(s, "out")
    BY <1>5 DEF Attach
  <2>2. call'[s] = r
    BY <2>1, SetEffect
  <2>3. r.pc = "acquire"
    BY DEF Quiet
  <2> QED
    BY <2>1, <2>2, <2>3 DEF At
<1>6. ASSUME NEW k \in Keys, Call(s, k) PROVE Goal
  <2> DEFINE r == [Quiet("begin") EXCEPT !.want = k, !.ent = primary[s]]
             q == [Quiet("acquire") EXCEPT !.want = k]
  <2>1. call' = [call EXCEPT ![s] = IF k = pinned[s] THEN r ELSE q]
    BY <1>6 DEF Call
  <2>2. call'[s] \in {r, q}
    BY <2>1, SetEffect
  <2>3. r.pc = "begin" /\ q.pc = "acquire" /\ ~ r.pinning /\ ~ q.pinning
    BY DEF Quiet
  <2> QED
    BY <2>2, <2>3 DEF At
<1>7. ASSUME Begin(s) \/ GetClient(s) PROVE Goal
  <2> DEFINE r == [call[s] EXCEPT !.pc = "use", !.got = client[call[s].ent]]
  <2>1. CASE EndLease(s)
    BY <1>2, <1>7, <2>1 DEF Begin, GetClient, Bound, At
  <2>2. CASE call' = [call EXCEPT ![s] = r]
    <3>1. call'[s] = r
      BY <2>2, SetEffect
    <3>2. r.pc = "use" /\ r.pinning = call[s].pinning
      BY CallFields DEF Calls
    <3> QED
      BY <3>1, <3>2 DEF At
  <2> QED
    BY <1>7, <2>1, <2>2 DEF Begin, GetClient
<1>8. ASSUME CheckHeld(s) PROVE Goal
  <2> DEFINE r == IF call[s].pc = "missed" THEN [call[s] EXCEPT !.pc = "acquire"] ELSE Quiet("idle")
  <2>1. call' = [call EXCEPT ![s] = r]
    BY <1>8 DEF CheckHeld
  <2>2. call'[s] = r
    BY <2>1, SetEffect
  <2>3. r.pc \in {"acquire", "idle"} /\ (r.pinning => call[s].pinning)
    BY CallFields DEF Quiet, Calls
  <2> QED
    BY <2>2, <2>3 DEF At
<1>9. ASSUME Refuse(s) PROVE Goal
  BY <1>4, <1>9 DEF Refuse
<1>10. ASSUME Reuse(s) PROVE Goal
  BY <1>3, <1>10 DEF Reuse
<1>11. ASSUME Admit(s) PROVE Goal
  BY <1>1, <1>11 DEF Admit
<1>12. ASSUME AdmitVictim(s) \/ Unborrow(s) PROVE Goal
  BY <1>12 DEF AdmitVictim, Unborrow, At
<1>13. ASSUME Start(s) PROVE Goal
  <2> PICK e \in Entries :
         call' = [call EXCEPT ![s].pc = "ready", ![s].ent = e, ![s].got = starts[e] + 1]
    BY <1>13 DEF Start
  <2> DEFINE r == [call[s] EXCEPT !.pc = "ready", !.ent = e, !.got = starts[e] + 1]
  <2>1. call'[s] = r
    <3>1. call' = [call EXCEPT ![s] = r]
      OBVIOUS
    <3> QED
      BY <3>1, SetEffect
  <2>2. r.pc = "ready" /\ r.pinning = call[s].pinning
    BY CallFields DEF Calls
  <2> QED
    BY <1>13, <2>1, <2>2
<1>14. ASSUME ReadyErr(s) PROVE Goal
  BY <1>2, <1>4, <1>14 DEF ReadyErr, Bound, At
<1>15. ASSUME ReadyOrLater(s) PROVE Goal
  BY <1>3, <1>15 DEF ReadyOrLater, Bound, At
<1>16. ASSUME Borrow(s) PROVE Goal
  BY <1>1, <1>16 DEF Borrow
<1>17. ASSUME EndCall(s) PROVE Goal
  BY <1>2, <1>17 DEF EndCall, Bound, At
<1>18. ASSUME Detach(s) PROVE Goal
  <2>1. To(s, "leaving")
    BY <1>18 DEF Detach
  <2> QED
    BY <1>18, <2>1, ToEffect, ToPinning DEF At
<1>19. ASSUME Gone(s) PROVE Goal
  <2>1. To(s, "out") /\ At(s, "leaving")
    BY <1>19 DEF Gone
  <2> QED
    BY <2>1, ToEffect, ToPinning DEF At
<1> QED
  BY <1>5, <1>6, <1>7, <1>8, <1>9, <1>10, <1>11, <1>12, <1>13, <1>14, <1>15, <1>16, <1>17,
     <1>18, <1>19 DEF Session, CallStep

\* The steps that move a lease, and the others, which leave all leases alone.
LEMMA LeaseCases ==
  ASSUME Base, [Next]_vars
  PROVE  \/ \E s \in Sessions :
               \/ Reuse(s) \/ Start(s) \/ ReadyErr(s) \/ ReadyOrLater(s)
               \/ Borrow(s) \/ Detach(s) \/ Unborrow(s)
         \/ /\ UNCHANGED <<refs, pinned, borrowed>>
            /\ \A s \in Sessions : At(s, "ready") => call'[s] = call[s]
            /\ \A s \in Sessions : At(s, "ready")' => call'[s] = call[s]
<1>0. TypeOK /\ CallInv /\ LockInv
  BY DEF Base
<1>1. ASSUME NEW s \in Sessions, Session(s), ~ Reuse(s), ~ Start(s), ~ ReadyErr(s),
             ~ ReadyOrLater(s), ~ Borrow(s), ~ Detach(s), ~ Unborrow(s)
      PROVE  /\ UNCHANGED <<refs, pinned, borrowed>>
             /\ \A t \in Sessions : At(t, "ready") => call'[t] = call[t]
             /\ \A t \in Sessions : At(t, "ready")' => call'[t] = call[t]
  <2>1. UNCHANGED <<refs, pinned, borrowed>>
    BY <1>1 DEF Session, CallStep, Attach, Call, Begin, CheckHeld, Refuse, Admit, AdmitVictim,
       GetClient, EndCall, Gone, leaseVars, bindVars
  <2>2. Others(s) /\ ~ At(s, "ready")'
    BY <1>0, <1>1, SessionEffect, SessionPins DEF CallInv
  <2>3. ~ At(s, "ready")
    BY <1>1, SessionStarts DEF Session, CallStep, Attach, Call, Begin, CheckHeld, Refuse,
       Admit, AdmitVictim, GetClient, EndCall, Gone, At
  <2> QED
    BY <2>1, <2>2, <2>3 DEF Others, At
<1>2. ASSUME NEW e \in Entries, Goroutine(e) \/ Janitor(e)
      PROVE  UNCHANGED <<refs, pinned, borrowed, call>>
  BY <1>2 DEF Goroutine, Janitor, Fire, ScheduleIdleReap, Reap, StopToHibernate,
     FinishHibernate, StopToClose, HandshakeFails, Publish, MarkActive, Exit, Drain, Hibernate,
     TrimLongHibernated, leaseVars, bindVars
<1>3. CASE Decide
  <2>1. UNCHANGED <<refs, pinned, borrowed>>
    BY <1>3 DEF Decide, bindVars
  <2>2. CASE call' = call
    BY <2>1, <2>2
  <2>3. CASE call' # call
    <3>1. /\ lock \in Sessions /\ teardown # None /\ teardown.why = "admit"
          /\ call'[lock].pc = "start" /\ \A t \in Sessions \ {lock} : call'[t] = call[t]
      BY <1>3, <2>3, DecideEffect
    <3>2. ~ At(lock, "ready")
      BY <1>0, <3>1 DEF LockInv, Admitting, At
    <3> QED
      BY <2>1, <3>1, <3>2 DEF At
  <2> QED
    BY <2>2, <2>3
<1>4. CASE UNCHANGED vars
  BY <1>4 DEF vars, leaseVars, bindVars
<1> QED
  BY <1>1, <1>2, <1>3, <1>4 DEF Next

\* Who waits at a channel stays there, or has just started the server.
LEMMA ReadyKept ==
  ASSUME Base, [Next]_vars, NEW s \in Sessions, At(s, "ready")'
  PROVE  call'[s] = call[s] \/ Start(s)
<1>0. TypeOK /\ CallInv
  BY DEF Base
<1>1. ASSUME NEW t \in Sessions, Session(t) PROVE call'[s] = call[s] \/ Start(s)
  BY <1>0, <1>1, SessionEffect, SessionPins DEF CallInv, Others
<1> QED
  BY <1>1, LeaseCases DEF Session, CallStep

\* A key stays, and so does the mark of a failed start.
LEMMA KeyKept ==
  ASSUME MapBase, [Next]_vars, NEW e \in Entries
  PROVE  /\ key[e] # None => key'[e] = key[e]
         /\ closing[e] = "fail" => closing'[e] = "fail"
<1>0. Base /\ TypeOK /\ CallInv /\ KeyInv
  BY DEF MapBase, Base
<1>1. CASE UNCHANGED <<key, closing>>
  BY <1>1
<1>2. ASSUME NEW f \in Entries, NEW why, Leave(f, why), UNCHANGED key
      PROVE  closing[e] = "fail" => closing'[e] = "fail"
  BY <1>0, <1>2, LeaveEffect
<1>3. ASSUME NEW s \in Sessions, Start(s)
      PROVE  UNCHANGED closing /\ (key[e] # None => key'[e] = key[e])
  <2>1. PICK f \in Entries :
          /\ \/ entries[call[s].want] = None /\ key[f] = None
             \/ entries[call[s].want] = f /\ Mapped(f)
          /\ call[s].want \in Keys /\ key'[f] = call[s].want
          /\ \A d \in Entries \ {f} : key'[d] = key[d]
    BY <1>0, <1>3, StartDetail
  <2>2. entries[call[s].want] = f => key[f] = call[s].want
    BY <1>0, <2>1, BoundsAssumption DEF KeyInv
  <2> QED
    BY <1>3, <2>1, <2>2 DEF Start
<1>4. ASSUME NEW s \in Sessions, ReadyErr(s)
      PROVE  UNCHANGED key /\ (closing[e] = "fail" => closing'[e] = "fail")
  <2>1. call[s].ent \in Entries
    BY <1>0, <1>4 DEF ReadyErr, CallInv, Bound, At
  <2> QED
    BY <1>2, <1>4, <2>1 DEF ReadyErr
<1>5. ASSUME NEW f \in Entries, NEW i \in 1..MaxStarts, Drain(f, i)
      PROVE  UNCHANGED key /\ (closing[e] = "fail" => closing'[e] = "fail")
  BY <1>2, <1>5 DEF Drain
<1>6. CASE Decide
  <2>1. teardown.entry \in Entries /\ UNCHANGED key
    BY <1>0, <1>6, DecideEffect
  <2> QED
    BY <1>1, <1>2, <1>6, <2>1 DEF Decide
<1>7. ASSUME NEW f \in Entries,
             \/ StopToHibernate(f) \/ FinishHibernate(f) \/ StopToClose(f)
             \/ HandshakeFails(f) \/ Publish(f) \/ MarkActive(f) \/ Exit(f)
      PROVE  UNCHANGED <<key, closing>>
  BY <1>7 DEF StopToHibernate, FinishHibernate, StopToClose, HandshakeFails, Publish,
     MarkActive, Exit
<1>8. ASSUME NEW s \in Sessions, ReadyOrLater(s) PROVE UNCHANGED <<key, closing>>
  BY <1>8 DEF ReadyOrLater
<1> QED
  BY <1>1, <1>3, <1>4, <1>5, <1>6, <1>7, <1>8, PoolSteps DEF poolVars

\* Nobody counts a lease on an entry that has left the map.
LEMMA RefsKept ==
  ASSUME MapBase, [Next]_vars, NEW e \in Entries, key[e] # None, ~ Mapped(e)
  PROVE  refs'[e] = refs[e]
<1>0. Base /\ TypeOK /\ CallInv /\ KeyInv
  BY DEF MapBase, Base
<1>k. \A k \in Keys : entries[k] # e
  BY <1>0, BoundsAssumption DEF KeyInv, Mapped
<1>1. ASSUME NEW s \in Sessions, NEW f, f # e, TakeLease(s, f) PROVE refs'[e] = refs[e]
  BY <1>0, <1>1 DEF TakeLease, TypeOK
<1>2. ASSUME NEW f, f # e, Unlease(f) PROVE refs'[e] = refs[e]
  BY <1>0, <1>2 DEF Unlease, TypeOK
<1>3. ASSUME NEW s \in Sessions, Reuse(s) PROVE refs'[e] = refs[e]
  <2>1. call[s].want \in Keys
    BY <1>0, <1>3 DEF Reuse, CallInv, Bound, At
  <2> QED
    BY <1>1, <1>3, <1>k, <2>1 DEF Reuse
<1>4. ASSUME NEW s \in Sessions, Start(s) PROVE refs'[e] = refs[e]
  <2>1. call[s].want \in Keys
    BY <1>0, <1>4 DEF Start, CallInv, Bound, At
  <2> QED
    BY <1>1, <1>4, <1>k, <2>1 DEF Start
<1>5. ASSUME NEW s \in Sessions, ReadyErr(s) \/ ReadyOrLater(s) PROVE refs'[e] = refs[e]
  BY <1>5 DEF ReadyErr, ReadyOrLater, leaseVars
<1>6. ASSUME NEW s \in Sessions, Borrow(s) PROVE refs'[e] = refs[e]
  BY <1>0, <1>6 DEF Borrow, TypeOK
<1>7. ASSUME NEW s \in Sessions, Detach(s) PROVE refs'[e] = refs[e]
  <2>1. pinned[s] # None => pinned[s] \in Keys
    BY <1>0 DEF TypeOK
  <2> QED
    BY <1>2, <1>7, <1>k, <2>1 DEF Detach, leaseVars
<1>8. ASSUME NEW s \in Sessions, Unborrow(s) PROVE refs'[e] = refs[e]
  BY <1>2, <1>8 DEF Unborrow, leaseVars
<1> QED
  BY <1>0, <1>3, <1>4, <1>5, <1>6, <1>7, <1>8, LeaseCases

\* Leases that are lost stay lost.
LEMMA LostStays ==
  ASSUME MapBase, [Next]_vars, NEW k \in Keys, LostKey(k)
  PROVE  LostKey(k)'
<1>1. PICK f \in Entries : key[f] = k /\ closing[f] = "fail" /\ Held(f)
  BY DEF LostKey
<1>2. ~ Mapped(f) /\ key[f] # None
  BY <1>1, BoundsAssumption DEF MapBase, MapInv
<1>3. key'[f] = k /\ closing'[f] = "fail" /\ refs'[f] = refs[f]
  BY <1>1, <1>2, KeyKept, RefsKept
<1>4. Held(f)'
  BY <1>1, <1>3 DEF Held
<1> QED
  BY <1>3, <1>4 DEF LostKey

\* An entry that leaves the map is held only when its start was reported failed,
\* and then its leases are lost.
LEMMA LeavesUnheld ==
  ASSUME MapBase, [Next]_vars, NEW e \in Entries, Mapped(e), ~ Mapped(e)', NEW k \in Keys,
         key[e] = k, ~ LostKey(k)'
  PROVE  ~ Held(e)
<1>0. Base /\ TypeOK /\ CallInv /\ KeyInv /\ TearMap
  BY DEF MapBase, Base
<1>1. ~ UNCHANGED <<entries, key>>
  BY DEF Mapped
<1>2. ASSUME NEW f \in Entries, Leave(f, "fail"), UNCHANGED <<key, refs>> PROVE ~ Held(e)
  <2>1. f = e
    BY <1>0, <1>2, LeaveMaps
  <2>2. closing[e] = "no"
    BY DEF MapBase, MapInv
  <2>3. closing'[e] = "fail"
    BY <1>0, <1>2, <2>1, <2>2, LeaveEffect
  <2> QED
    BY <1>2, <2>3 DEF LostKey, Held
<1>3. ASSUME NEW s \in Sessions, Start(s) PROVE FALSE
  BY <1>0, <1>3, StartDetail
<1>4. ASSUME NEW s \in Sessions, ReadyErr(s) PROVE ~ Held(e)
  <2>1. call[s].ent \in Entries
    BY <1>0, <1>4 DEF ReadyErr, CallInv, Bound, At
  <2> QED
    BY <1>2, <1>4, <2>1 DEF ReadyErr
<1>5. ASSUME NEW f \in Entries, NEW i \in 1..MaxStarts, Drain(f, i) PROVE ~ Held(e)
  BY <1>2, <1>5 DEF Drain
<1>6. CASE Decide
  <2>1. teardown # None /\ teardown.entry \in Entries /\ UNCHANGED key
    BY <1>0, <1>6, DecideEffect
  <2>2. teardown.why = "reap" /\ Leave(teardown.entry, "reap")
    BY <1>1, <1>6, <2>1 DEF Decide
  <2>3. teardown.entry = e
    BY <1>0, <2>1, <2>2, LeaveMaps
  <2> QED
    BY <1>0, <2>1, <2>2, <2>3 DEF TearMap
<1>7. ASSUME NEW s \in Sessions, ReadyOrLater(s) PROVE FALSE
  BY <1>1, <1>7 DEF ReadyOrLater
<1>8. ASSUME NEW f \in Entries,
             \/ StopToHibernate(f) \/ FinishHibernate(f) \/ StopToClose(f)
             \/ HandshakeFails(f) \/ Publish(f) \/ MarkActive(f) \/ Exit(f)
      PROVE  FALSE
  BY <1>1, <1>8 DEF StopToHibernate, FinishHibernate, StopToClose, HandshakeFails, Publish,
     MarkActive, Exit
<1> QED
  BY <1>1, <1>3, <1>4, <1>5, <1>6, <1>7, <1>8, PoolSteps DEF poolVars

-----------------------------------------------------------------------------
\* Nobody pins, borrows or waits for a server before the first connection.
LEMMA InitPin == Init => PinInv /\ LeasesCounted
<1> SUFFICES ASSUME Init PROVE PinInv /\ LeasesCounted
  OBVIOUS
<1>1. \A s \in Sessions : pinned[s] = None /\ borrowed[s] = {} /\ ~ At(s, "ready")
  BY DEF Init, At, Quiet
<1>2. \A e \in Entries : ~ Mapped(e) /\ refs[e] = 0
  BY DEF Init, Mapped
<1> QED
  BY <1>1, <1>2 DEF PinInv, LeasesCounted

\* A pin names a key that has an entry, and so does one on its way.
LEMMA NextPin == MapBase /\ PinInv /\ LeasesCounted /\ [Next]_vars => PinInv'
<1> SUFFICES ASSUME MapBase, PinInv, LeasesCounted, [Next]_vars PROVE PinInv'
  OBVIOUS
<1> USE BoundsAssumption
<1>0. Base /\ TypeOK /\ CallInv /\ LockInv /\ KeyInv
  BY DEF MapBase, Base
<1>k. \A k \in Keys : entries[k] # None => entries[k] \in Entries /\ key[entries[k]] = k
  BY <1>0 DEF TypeOK, KeyInv
\* An entry in the map stays there for who pins it.
<1>e. ASSUME NEW k \in Keys, NEW e \in Entries, entries[k] = e, ~ LostKey(k)',
             NEW s \in Sessions, s \in Pins(k) \cup Awaits(e)
      PROVE  entries'[k] = e
  <2>1. Mapped(e) /\ key[e] = k /\ key'[e] = k
    BY <1>e, <1>k, KeyKept DEF Mapped
  <2>2. ~ LostKey(k)
    BY <1>e, LostStays
  <2>3. Held(e)
    BY <1>e, <2>1, <2>2, PinnedIsHeld
  <2>4. Mapped(e)'
    BY <1>e, <2>1, <2>3, LeavesUnheld
  <2> QED
    BY <2>1, <2>4 DEF Mapped
<1>p. ASSUME NEW s \in Sessions, pinned'[s] # pinned[s]
      PROVE  pinned'[s] = None \/ (call[s].pinning /\ (Reuse(s) \/ ReadyOrLater(s)))
  <2>1. ASSUME NEW t \in Sessions, NEW e \in Entries, Acquired(t, e)
        PROVE  t = s /\ call[s].pinning
    BY <1>0, <1>p, <2>1, AcquiredPinning
  <2>2. ASSUME NEW t \in Sessions, Reuse(t)
        PROVE  t = s /\ call[s].pinning
    BY <2>1, <2>2 DEF Reuse
  <2>3. ASSUME NEW t \in Sessions, ReadyOrLater(t)
        PROVE  t = s /\ call[s].pinning
    BY <1>0, <2>1, <2>3 DEF ReadyOrLater, CallInv, Bound, At
  <2>4. ASSUME NEW t \in Sessions, Start(t) \/ ReadyErr(t) \/ Borrow(t) \/ Unborrow(t) PROVE FALSE
    BY <1>p, <2>4 DEF Start, ReadyErr, Borrow, Unborrow, bindVars
  <2>5. ASSUME NEW t \in Sessions, Detach(t) PROVE pinned'[s] = None
    BY <1>0, <1>p, <2>5 DEF Detach, TypeOK
  <2> QED
    BY <1>0, <1>p, <2>2, <2>3, <2>4, <2>5, LeaseCases
<1>1. ASSUME NEW s \in Sessions, call'[s].pinning \/ call'[s].pc \in {"out", "leaving"}
      PROVE  pinned'[s] = None
  <2>1. ASSUME NEW t \in Sessions, Session(t) PROVE pinned'[s] = None
    <3>1. CASE t # s
      <4>1. call'[s] = call[s] /\ pinned'[s] = pinned[s]
        BY <1>0, <2>1, <3>1, SessionEffect DEF CallInv, Others
      <4> QED
        BY <1>1, <4>1 DEF PinInv
    <3>2. CASE t = s
      <4>1. pinned[s] = None \/ Detach(s)
        BY <1>0, <1>1, <2>1, <3>2, SessionPins DEF CallInv, PinInv, At
      <4>2. Detach(s) => pinned'[s] = None
        BY <1>0 DEF Detach, TypeOK
      <4>3. ASSUME NEW e \in Entries, Acquired(s, e) PROVE FALSE
        BY <1>0, <1>1, <4>3, AcquiredPinning
      <4>4. ~ Reuse(s) /\ ~ ReadyOrLater(s)
        BY <1>0, <4>3 DEF Reuse, ReadyOrLater, CallInv, Bound, At
      <4> QED
        BY <1>p, <4>1, <4>2, <4>4
    <3> QED
      BY <3>1, <3>2
  <2>2. CASE UNCHANGED <<call, pinned>>
    BY <1>1, <2>2 DEF PinInv
  <2>3. CASE Decide
    <3>1. pinned' = pinned
      BY <1>0, <2>3, DecideEffect
    <3>2. CASE call' # call
      <4>1. /\ lock \in Sessions /\ teardown.why = "admit" /\ call'[lock].pc = "start"
            /\ \A t \in Sessions \ {lock} : call'[t] = call[t]
        BY <1>0, <2>3, <3>2, DecideEffect
      <4>2. To(lock, "start")
        BY <2>3, <3>2 DEF Decide
      <4>3. call'[lock].pinning = call[lock].pinning
        BY <1>0, <4>1, <4>2, ToPinning
      <4> QED
        BY <1>1, <3>1, <4>1, <4>3 DEF PinInv
    <3> QED
      BY <2>2, <3>1, <3>2
  <2>4. ASSUME NEW e \in Entries, Goroutine(e) \/ Janitor(e) PROVE UNCHANGED <<call, pinned>>
    BY <2>4 DEF Goroutine, Janitor, Fire, ScheduleIdleReap, Reap, StopToHibernate,
       FinishHibernate, StopToClose, HandshakeFails, Publish, MarkActive, Exit, Drain,
       Hibernate, TrimLongHibernated, bindVars
  <2>5. UNCHANGED vars => UNCHANGED <<call, pinned>>
    BY DEF vars, bindVars
  <2> QED
    BY <2>1, <2>2, <2>3, <2>4, <2>5 DEF Next
<1>2. ASSUME NEW s \in Sessions, At(s, "ready")', NEW k, k = call'[s].want
      PROVE  /\ key'[call'[s].ent] = k
             /\ call'[s].pinning /\ ~ LostKey(k)' => entries'[k] = call'[s].ent
  <2>1. CASE Start(s)
    <3>1. PICK e \in Entries :
            /\ entries'[call[s].want] = e /\ key'[e] = call[s].want
            /\ call'[s].ent = e /\ call'[s].want = call[s].want
      BY <1>0, <2>1, StartDetail
    <3> QED
      BY <1>2, <3>1
  <2>2. CASE call'[s] = call[s]
    <3>1. At(s, "ready") /\ call[s].ent \in Entries /\ k \in Keys /\ key[call[s].ent] = k
      BY <1>0, <1>2, <2>2 DEF At, CallInv, Bound, PinInv
    <3>2. key'[call[s].ent] = k
      BY <3>1, KeyKept
    <3>3. ASSUME call[s].pinning, ~ LostKey(k)' PROVE entries'[k] = call[s].ent
      <4>1. ~ LostKey(k)
        BY <3>1, <3>3, LostStays
      <4>2. entries[k] = call[s].ent /\ s \in Awaits(call[s].ent)
        BY <1>2, <2>2, <3>1, <3>3, <4>1 DEF PinInv, Awaits
      <4> QED
        BY <1>e, <3>1, <3>3, <4>2
    <3> QED
      BY <2>2, <3>2, <3>3
  <2> QED
    BY <1>0, <1>2, <2>1, <2>2, ReadyKept
<1>3. ASSUME NEW s \in Sessions, NEW k, k = pinned'[s], k # None, ~ LostKey(k)'
      PROVE  entries'[k] # None
  <2>0. k \in Keys
    BY <1>0, <1>3, NextType DEF TypeOK
  <2>1. ~ LostKey(k)
    BY <1>3, <2>0, LostStays
  <2>2. CASE pinned'[s] = pinned[s]
    <3>1. entries[k] # None /\ s \in Pins(k)
      BY <1>3, <2>1, <2>2 DEF PinInv, Pins
    <3> QED
      BY <1>3, <1>e, <1>k, <2>0, <3>1
  <2>3. CASE call[s].pinning /\ (Reuse(s) \/ ReadyOrLater(s)) /\ pinned'[s] # pinned[s]
    <3>1. ASSUME NEW e \in Entries, Acquired(s, e) PROVE k = call[s].want
      BY <1>0, <1>3, <2>3, <3>1, AcquiredPinning
    <3>2. CASE Reuse(s)
      BY <3>1, <3>2 DEF Reuse
    <3>3. CASE ReadyOrLater(s)
      <4>1. At(s, "ready") /\ call[s].ent \in Entries /\ k = call[s].want
        BY <1>0, <3>1, <3>3 DEF ReadyOrLater, CallInv, Bound, At
      <4>2. entries[k] = call[s].ent
        BY <2>1, <2>3, <4>1 DEF PinInv
      <4> QED
        BY <3>3, <4>1, <4>2 DEF ReadyOrLater
    <3> QED
      BY <2>3, <3>2, <3>3
  <2> QED
    BY <1>3, <1>p, <2>2, <2>3
<1>4. ASSUME NEW e \in Entries, key'[e] = None
      PROVE  refs'[e] = 0 /\ \A s \in Sessions : e \notin borrowed'[s]
  <2>0. key[e] = None /\ refs[e] = 0 /\ \A s \in Sessions : e \notin borrowed[s]
    <3>1. key[e] = None
      BY <1>4, KeyKept
    <3> QED
      BY <3>1 DEF PinInv
  <2>k. ~ Mapped(e) /\ \A k \in Keys : entries[k] # e
    BY <1>k, <2>0 DEF Mapped
  <2>1. ASSUME NEW f, f # e, NEW s \in Sessions, TakeLease(s, f) PROVE refs'[e] = 0
    BY <1>0, <2>0, <2>1 DEF TakeLease, TypeOK
  <2>2. ASSUME NEW f, f # e, Unlease(f) PROVE refs'[e] = 0
    BY <1>0, <2>0, <2>2 DEF Unlease, TypeOK
  <2>3. ASSUME NEW s \in Sessions, Reuse(s) PROVE refs'[e] = 0 /\ borrowed' = borrowed
    <3>1. call[s].want \in Keys
      BY <1>0, <2>3 DEF Reuse, CallInv, Bound, At
    <3> QED
      BY <2>1, <2>3, <2>k, <3>1 DEF Reuse
  <2>4. ASSUME NEW s \in Sessions, Start(s) PROVE refs'[e] = 0 /\ borrowed' = borrowed
    <3>1. PICK f \in Entries : call'[s].ent = f /\ key'[f] # None
      BY <1>0, <2>4, StartDetail DEF Mapped
    <3>2. PICK g \in Entries :
            /\ TakeLease(s, g)
            /\ call' = [call EXCEPT ![s].pc = "ready", ![s].ent = g, ![s].got = starts[g] + 1]
      BY <2>4 DEF Start
    <3>3. call'[s].ent = g
      <4> DEFINE r == [call[s] EXCEPT !.pc = "ready", !.ent = g, !.got = starts[g] + 1]
      <4>1. call' = [call EXCEPT ![s] = r]
        BY <3>2
      <4>2. call'[s] = r
        BY <1>0, <4>1, SetEffect
      <4>3. r.ent = g
        BY <1>0, CallFields DEF Calls
      <4> QED
        BY <4>2, <4>3
    <3>4. g # e
      BY <1>4, <3>1, <3>3
    <3> QED
      BY <2>1, <2>4, <3>2, <3>4 DEF Start, bindVars
  <2>5. ASSUME NEW s \in Sessions, ReadyErr(s) \/ ReadyOrLater(s)
        PROVE  refs'[e] = 0 /\ borrowed' = borrowed
    BY <2>0, <2>5 DEF ReadyErr, ReadyOrLater, leaseVars, bindVars
  <2>6. ASSUME NEW s \in Sessions, Borrow(s)
        PROVE  refs'[e] = 0 /\ \A t \in Sessions : e \notin borrowed'[t]
    BY <1>0, <2>0, <2>6, <2>k DEF Borrow, TypeOK
  <2>7. ASSUME NEW s \in Sessions, Detach(s) PROVE refs'[e] = 0 /\ borrowed' = borrowed
    <3>1. pinned[s] # None => pinned[s] \in Keys
      BY <1>0 DEF TypeOK
    <3> QED
      BY <2>0, <2>2, <2>7, <2>k, <3>1 DEF Detach, leaseVars
  <2>8. ASSUME NEW s \in Sessions, Unborrow(s)
        PROVE  refs'[e] = 0 /\ \A t \in Sessions : e \notin borrowed'[t]
    <3>1. PICK f \in borrowed[s] :
            /\ borrowed' = [borrowed EXCEPT ![s] = @ \ {f}]
            /\ IF Mapped(f) THEN Unlease(f) ELSE UNCHANGED leaseVars
      BY <2>8 DEF Unborrow
    <3>2. \A t \in Sessions : borrowed'[t] \subseteq borrowed[t]
      BY <1>0, <3>1 DEF TypeOK
    <3>3. f # e
      BY <2>0
    <3>4. refs'[e] = 0
      BY <2>0, <2>2, <3>1, <3>3 DEF leaseVars
    <3> QED
      BY <2>0, <3>2, <3>4
  <2> QED
    BY <1>0, <2>0, <2>3, <2>4, <2>5, <2>6, <2>7, <2>8, LeaseCases
<1> QED
  BY <1>1, <1>2, <1>3, <1>4 DEF PinInv, LostKey, At

-----------------------------------------------------------------------------
\* Every step keeps the count of an entry in the map equal to its leases.
LEMMA NextCount == MapBase /\ PinInv /\ LeasesCounted /\ [Next]_vars => LeasesCounted'
<1> SUFFICES ASSUME MapBase, PinInv, LeasesCounted, [Next]_vars, NEW f \in Entries,
                    Mapped(f)', NEW k, k = key'[f], ~ LostKey(k)'
             PROVE  refs'[f] = Cardinality(Pins(k)') + Cardinality(Borrowers(f)')
                             + Cardinality(Awaits(f)')
  BY DEF LeasesCounted, LeasesLost, LostKey, Pins, Borrowers, Awaits
<1> USE BoundsAssumption
<1>0. Base /\ TypeOK /\ CallInv /\ KeyInv
  BY DEF MapBase, Base
<1>k. \A l \in Keys : entries[l] # None => entries[l] \in Entries /\ key[entries[l]] = l
  BY <1>0 DEF TypeOK, KeyInv
<1>l. k \in Keys /\ ~ LostKey(k)
  <2>1. k \in Keys
    BY <1>0, NextType DEF Mapped, TypeOK
  <2> QED
    BY <2>1, LostStays
<1>s. /\ Pins(k) \in SUBSET Sessions /\ Borrowers(f) \in SUBSET Sessions
      /\ Awaits(f) \in SUBSET Sessions
  BY DEF Pins, Borrowers, Awaits
<1>c. /\ Cardinality(Pins(k)) \in Nat /\ Cardinality(Borrowers(f)) \in Nat
      /\ Cardinality(Awaits(f)) \in Nat /\ refs[f] \in Nat
  BY <1>0, <1>s, CardType DEF TypeOK
\* Before the step the count was right, or the entry is the one it starts.
<1>b. (key[f] = k /\ Mapped(f)) \/ \E s \in Sessions : Start(s) /\ call'[s].ent = f
  <2>1. ASSUME Mapped(f) PROVE key[f] = k
    BY <2>1, KeyKept DEF Mapped
  <2>2. ASSUME ~ Mapped(f) PROVE \E s \in Sessions : Start(s) /\ call'[s].ent = f
    <3>1. ASSUME NEW s \in Sessions, Start(s) PROVE call'[s].ent = f
      BY <1>0, <2>2, <3>1, StartDetail
    <3>2. ASSUME NEW e \in Entries, NEW why, Leave(e, why), UNCHANGED key PROVE FALSE
      BY <1>0, <2>2, <3>2, LeaveMaps
    <3>3. ASSUME NEW s \in Sessions, ReadyErr(s) PROVE FALSE
      <4>1. call[s].ent \in Entries
        BY <1>0, <3>3 DEF ReadyErr, CallInv, Bound, At
      <4> QED
        BY <3>2, <3>3, <4>1 DEF ReadyErr
    <3>4. ASSUME NEW e \in Entries, NEW i \in 1..MaxStarts, Drain(e, i) PROVE FALSE
      BY <3>2, <3>4 DEF Drain
    <3>5. UNCHANGED <<entries, key>> => FALSE
      BY <2>2 DEF Mapped
    <3>6. ASSUME NEW s \in Sessions, ReadyOrLater(s) PROVE FALSE
      BY <3>5, <3>6 DEF ReadyOrLater
    <3>7. ASSUME NEW e \in Entries,
                 \/ StopToHibernate(e) \/ FinishHibernate(e) \/ StopToClose(e)
                 \/ HandshakeFails(e) \/ Publish(e) \/ MarkActive(e) \/ Exit(e)
          PROVE  FALSE
      BY <3>5, <3>7 DEF StopToHibernate, FinishHibernate, StopToClose, HandshakeFails,
         Publish, MarkActive, Exit
    <3>8. Decide => FALSE
      <4>1. Decide => teardown.entry \in Entries /\ UNCHANGED key
        BY <1>0, DecideEffect
      <4> QED
        BY <3>2, <3>5, <4>1 DEF Decide
    <3> QED
      BY <3>1, <3>3, <3>4, <3>5, <3>6, <3>7, <3>8, PoolSteps DEF poolVars
  <2> QED
    BY <2>1, <2>2
<1>d. ASSUME key[f] = k, Mapped(f)
      PROVE  refs[f] = Cardinality(Pins(k)) + Cardinality(Borrowers(f)) + Cardinality(Awaits(f))
  BY <1>d, <1>l, Counted
<1>1. CASE /\ UNCHANGED <<refs, pinned, borrowed>>
           /\ \A s \in Sessions : At(s, "ready") => call'[s] = call[s]
           /\ \A s \in Sessions : At(s, "ready")' => call'[s] = call[s]
  <2>1. \A s \in Sessions : ~ Start(s)
    <3>1. ASSUME NEW s \in Sessions, Start(s) PROVE FALSE
      <4>1. At(s, "ready")'
        BY <1>0, <3>1, StartDetail
      <4>2. call'[s] = call[s] /\ ~ At(s, "ready")
        BY <1>1, <3>1, <4>1 DEF Start, At
      <4> QED
        BY <4>1, <4>2 DEF At
    <3> QED
      BY <3>1
  <2>2. Pins(k)' = Pins(k) /\ Borrowers(f)' = Borrowers(f)
    BY <1>1 DEF Pins, Borrowers
  <2>3. Awaits(f)' = Awaits(f)
    BY <1>1 DEF Awaits, At
  <2> QED
    BY <1>1, <1>b, <1>d, <2>1, <2>2, <2>3
<1>n. ASSUME NEW s \in Sessions,
             Reuse(s) \/ ReadyErr(s) \/ ReadyOrLater(s) \/ Borrow(s) \/ Detach(s) \/ Unborrow(s)
      PROVE  key[f] = k /\ Mapped(f)
  <2>1. UNCHANGED key
    BY <1>n DEF Reuse, ReadyErr, ReadyOrLater, Borrow, Detach, Unborrow
  <2>2. \A k1 \in Keys : entries'[k1] \in {None, entries[k1]}
    BY <1>n DEF Reuse, ReadyErr, ReadyOrLater, Borrow, Detach, Unborrow, Leave
  <2> QED
    BY <1>l, <2>1, <2>2 DEF Mapped
\* A session's step: the others keep what they have.
<1>o. ASSUME NEW s \in Sessions, Session(s)
      PROVE  /\ \A t \in Sessions \ {s} : t \in Pins(k)' <=> t \in Pins(k)
             /\ \A t \in Sessions \ {s} : t \in Awaits(f)' <=> t \in Awaits(f)
  <2>1. Others(s)
    BY <1>0, <1>o, SessionEffect DEF CallInv
  <2> QED
    BY <2>1 DEF Others, Pins, Awaits, At
<1>2. ASSUME NEW s \in Sessions, Start(s)
      PROVE  refs'[f] = Cardinality(Pins(k)') + Cardinality(Borrowers(f)') + Cardinality(Awaits(f)')
  <2>1. PICK e \in Entries :
          /\ \/ entries[call[s].want] = None /\ key[e] = None
             \/ entries[call[s].want] = e /\ Mapped(e)
          /\ call[s].want \in Keys /\ key'[e] = call[s].want
          /\ At(s, "ready")' /\ call'[s].ent = e
          /\ call'[s].pinning = call[s].pinning
    BY <1>0, <1>2, StartDetail
  <2>2. Pins(k)' = Pins(k) /\ Borrowers(f)' = Borrowers(f)
    BY <1>2 DEF Start, bindVars, Pins, Borrowers
  <2>3. ~ At(s, "ready")
    BY <1>2 DEF Start, At
  <2>o. \A t \in Sessions \ {s} : t \in Awaits(f)' <=> t \in Awaits(f)
    BY <1>2, <1>o, IsSession
  <2>4. TakeLease(s, e)
    <3>1. PICK g \in Entries :
            /\ TakeLease(s, g)
            /\ call' = [call EXCEPT ![s].pc = "ready", ![s].ent = g, ![s].got = starts[g] + 1]
      BY <1>2 DEF Start
    <3> DEFINE r == [call[s] EXCEPT !.pc = "ready", !.ent = g, !.got = starts[g] + 1]
    <3>2. call' = [call EXCEPT ![s] = r]
      BY <3>1
    <3>3. call'[s] = r
      BY <1>0, <3>2, SetEffect
    <3>4. r.ent = g
      BY <1>0, CallFields DEF Calls
    <3> QED
      BY <2>1, <3>1, <3>3, <3>4
  <2>5. CASE f # e
    <3>1. refs'[f] = refs[f]
      BY <1>0, <2>4, <2>5 DEF TakeLease, TypeOK
    <3>2. s \notin Awaits(f) /\ s \notin Awaits(f)'
      BY <2>1, <2>3, <2>5 DEF Awaits
    <3>3. Awaits(f)' = Awaits(f)
      BY <2>o, <3>2 DEF Awaits
    <3>4. key[f] = k /\ Mapped(f)
      <4>1. key'[f] = key[f] /\ (Mapped(f)' <=> Mapped(f))
        BY <1>0, <1>2, <2>1, <2>5, StartDetail
      <4> QED
        BY <4>1
    <3> QED
      BY <1>d, <2>2, <3>1, <3>3, <3>4
  <2>6. CASE f = e
    <3>1. refs[f] = Cardinality(Pins(k)) + Cardinality(Borrowers(f)) + Cardinality(Awaits(f))
      <4>1. CASE entries[call[s].want] = e /\ Mapped(e)
        BY <1>d, <1>k, <2>1, <2>6, <4>1
      <4>2. CASE entries[call[s].want] = None /\ key[e] = None
        <5>1. refs[f] = 0 /\ Borrowers(f) = {}
          BY <2>6, <4>2 DEF PinInv, Borrowers
        <5>2. Pins(k) = {}
          BY <1>l, <2>1, <2>6, <4>2 DEF PinInv, Pins
        <5>3. Awaits(f) = {}
          BY <1>0, <2>6, <4>2 DEF PinInv, Awaits, CallInv, Bound, At
        <5>4. Cardinality({}) = 0
          BY FS_EmptySet
        <5> QED
          BY <5>1, <5>2, <5>3, <5>4
      <4> QED
        BY <2>1, <4>1, <4>2
    <3>2. s \notin Awaits(f) /\ (s \in Awaits(f)' <=> call[s].pinning)
      BY <2>1, <2>3, <2>6 DEF Awaits
    <3>3. CASE call[s].pinning
      <4>1. Awaits(f)' = Awaits(f) \cup {s}
        BY <2>o, <3>2, <3>3 DEF Awaits
      <4>2. refs'[f] = refs[f] + 1
        BY <1>0, <2>4, <2>6, <3>3 DEF TakeLease, TypeOK
      <4>3. Cardinality(Awaits(f)') = Cardinality(Awaits(f)) + 1
        BY <1>s, <3>2, <4>1, CardAdd
      <4> QED
        BY <1>c, <2>2, <3>1, <4>2, <4>3
    <3>4. CASE ~ call[s].pinning
      <4>1. Awaits(f)' = Awaits(f)
        BY <2>o, <3>2, <3>4 DEF Awaits
      <4>2. refs'[f] = refs[f]
        BY <1>0, <2>4, <2>6, <3>4 DEF TakeLease, TypeOK
      <4> QED
        BY <2>2, <3>1, <4>1, <4>2
    <3> QED
      BY <3>3, <3>4
  <2> QED
    BY <2>5, <2>6
<1>3. ASSUME NEW s \in Sessions, Reuse(s)
      PROVE  refs'[f] = Cardinality(Pins(k)') + Cardinality(Borrowers(f)') + Cardinality(Awaits(f)')
  <2>1. PICK e \in Entries :
          entries[call[s].want] = e /\ TakeLease(s, e) /\ Acquired(s, e)
    BY <1>3 DEF Reuse
  <2>2. call[s].want \in Keys /\ At(s, "acquire")
    BY <1>0, <1>3 DEF Reuse, CallInv, Bound, At
  <2>3. key[f] = k /\ Mapped(f) /\ key[e] = call[s].want /\ (f = e <=> k = call[s].want)
    BY <1>3, <1>k, <1>n, <2>1, <2>2 DEF Mapped
  <2>4. /\ call'[s].pc \in {"idle", "borrow"}
        /\ pinned'[s] = IF call[s].pinning THEN call[s].want ELSE pinned[s]
    BY <1>0, <2>1, AcquiredPinning
  <2>5. Borrowers(f)' = Borrowers(f)
    BY <1>3 DEF Reuse, Borrowers
  <2>o. Session(s)
    BY <1>3 DEF Session, CallStep
  <2>6. Awaits(f)' = Awaits(f)
    BY <1>o, <2>2, <2>4, <2>o DEF Awaits, At
  <2>7. CASE call[s].pinning /\ f = e
    <3>1. s \notin Pins(k)
      BY <1>l, <2>7 DEF PinInv, Pins
    <3>2. Pins(k)' = Pins(k) \cup {s}
      BY <1>o, <2>3, <2>4, <2>7, <2>o DEF Pins
    <3>3. Cardinality(Pins(k)') = Cardinality(Pins(k)) + 1
      BY <1>s, <3>1, <3>2, CardAdd
    <3>4. refs'[f] = refs[f] + 1
      BY <1>0, <2>1, <2>7 DEF TakeLease, TypeOK
    <3> QED
      BY <1>c, <1>d, <2>3, <2>5, <2>6, <3>3, <3>4
  <2>8. CASE ~ call[s].pinning \/ f # e
    <3>1. s \in Pins(k)' <=> s \in Pins(k)
      BY <1>l, <2>3, <2>4, <2>8 DEF PinInv, Pins
    <3>2. Pins(k)' = Pins(k)
      BY <1>o, <2>o, <3>1 DEF Pins
    <3>3. refs'[f] = refs[f]
      BY <1>0, <2>1, <2>8 DEF TakeLease, TypeOK
    <3> QED
      BY <1>d, <2>3, <2>5, <2>6, <3>2, <3>3
  <2> QED
    BY <2>7, <2>8
<1>4. ASSUME NEW s \in Sessions, ReadyErr(s)
      PROVE  refs'[f] = Cardinality(Pins(k)') + Cardinality(Borrowers(f)') + Cardinality(Awaits(f)')
  <2>1. call[s].ent \in Entries /\ Session(s)
    BY <1>0, <1>4, IsSession DEF ReadyErr, CallInv, Bound, At
  <2>2. call[s].ent # f
    BY <1>0, <1>4, <2>1, LeaveMaps DEF ReadyErr
  <2>3. UNCHANGED <<refs, pinned, borrowed>>
    BY <1>4 DEF ReadyErr, bindVars
  <2>4. ~ At(s, "ready")'
    <3>1. ~ Start(s)
      BY <1>4 DEF ReadyErr, Start, At
    <3> QED
      BY <1>0, <2>1, <3>1, SessionPins DEF CallInv
  <2>5. Awaits(f)' = Awaits(f)
    BY <1>o, <2>1, <2>2, <2>4 DEF Awaits
  <2>6. Pins(k)' = Pins(k) /\ Borrowers(f)' = Borrowers(f)
    BY <2>3 DEF Pins, Borrowers
  <2> QED
    BY <1>4, <1>d, <1>n, <2>3, <2>5, <2>6
<1>5. ASSUME NEW s \in Sessions, ReadyOrLater(s)
      PROVE  refs'[f] = Cardinality(Pins(k)') + Cardinality(Borrowers(f)') + Cardinality(Awaits(f)')
  <2> DEFINE e == call[s].ent
  <2>1. /\ e \in Entries /\ Acquired(s, e) /\ At(s, "ready") /\ call[s].want \in Keys
        /\ Session(s)
    BY <1>0, <1>5 DEF ReadyOrLater, CallInv, Bound, At, Session, CallStep
  <2>2. refs' = refs /\ Borrowers(f)' = Borrowers(f)
    BY <1>5 DEF ReadyOrLater, leaseVars, Borrowers
  <2>3. key[f] = k /\ Mapped(f) /\ key[e] = call[s].want
    BY <1>5, <1>n, <2>1 DEF PinInv
  <2>4. /\ call'[s].pc \in {"idle", "borrow"}
        /\ pinned'[s] = IF call[s].pinning THEN call[s].want ELSE pinned[s]
    BY <1>0, <2>1, AcquiredPinning
  <2>5. s \notin Awaits(f)'
    BY <2>4 DEF Awaits, At
  <2>6. CASE call[s].pinning /\ k = call[s].want
    <3>1. f = e
      <4>1. entries[k] = e
        BY <1>l, <2>1, <2>6 DEF PinInv
      <4> QED
        BY <2>3, <4>1 DEF Mapped
    <3>2. s \notin Pins(k) /\ s \in Awaits(f)
      BY <1>l, <2>1, <2>6, <3>1 DEF PinInv, Pins, Awaits
    <3>3. Pins(k)' = Pins(k) \cup {s}
      BY <1>o, <2>1, <2>4, <2>6 DEF Pins
    <3>4. Awaits(f)' = Awaits(f) \ {s}
      BY <1>o, <2>1, <2>5 DEF Awaits
    <3>5. Cardinality(Pins(k)') = Cardinality(Pins(k)) + 1
      BY <1>s, <3>2, <3>3, CardAdd
    <3>6. Cardinality(Awaits(f)) = Cardinality(Awaits(f)') + 1
      BY <1>s, <3>2, <3>4, CardDrop
    <3>7. Cardinality(Awaits(f)') \in Nat
      BY <1>s, <3>4, CardType
    <3> QED
      BY <1>c, <1>d, <2>2, <2>3, <3>5, <3>6, <3>7
  <2>7. CASE ~ (call[s].pinning /\ k = call[s].want)
    <3>1. s \notin Awaits(f)
      BY <2>3, <2>7 DEF Awaits
    <3>2. s \in Pins(k)' <=> s \in Pins(k)
      BY <1>l, <2>4, <2>7 DEF PinInv, Pins
    <3>3. Pins(k)' = Pins(k) /\ Awaits(f)' = Awaits(f)
      BY <1>o, <2>1, <2>5, <3>1, <3>2 DEF Pins, Awaits
    <3> QED
      BY <1>d, <2>2, <2>3, <3>3
  <2> QED
    BY <2>6, <2>7
<1>m. ASSUME NEW s \in Sessions, Borrow(s) \/ Detach(s) \/ Unborrow(s)
      PROVE  Awaits(f)' = Awaits(f) /\ Session(s)
  <2>1. Session(s) /\ ~ Start(s) /\ ~ At(s, "ready")
    BY <1>m DEF Session, CallStep, Borrow, Detach, Unborrow, Start, At
  <2>2. ~ At(s, "ready")'
    BY <1>0, <2>1, SessionPins DEF CallInv
  <2> QED
    BY <1>o, <2>1, <2>2 DEF Awaits
<1>6. ASSUME NEW s \in Sessions, Borrow(s)
      PROVE  refs'[f] = Cardinality(Pins(k)') + Cardinality(Borrowers(f)') + Cardinality(Awaits(f)')
  <2> DEFINE e == call[s].ent
  <2>1. Pins(k)' = Pins(k) /\ Awaits(f)' = Awaits(f) /\ key[f] = k /\ Mapped(f)
    BY <1>6, <1>m, <1>n DEF Borrow, Pins
  <2>2. CASE UNCHANGED <<refs, borrowed>>
    <3>1. Borrowers(f)' = Borrowers(f)
      BY <2>2 DEF Borrowers
    <3> QED
      BY <1>d, <2>1, <2>2, <3>1
  <2>3. CASE /\ e \notin borrowed[s] /\ refs' = [refs EXCEPT ![e] = @ + 1]
             /\ borrowed' = [borrowed EXCEPT ![s] = @ \cup {e}]
    <3>1. borrowed'[s] = borrowed[s] \cup {e} /\ \A t \in Sessions \ {s} : borrowed'[t] = borrowed[t]
      BY <1>0, <2>3 DEF TypeOK
    <3>2. CASE f = e
      <4>1. s \notin Borrowers(f) /\ Borrowers(f)' = Borrowers(f) \cup {s}
        BY <2>3, <3>1, <3>2 DEF Borrowers
      <4>2. Cardinality(Borrowers(f)') = Cardinality(Borrowers(f)) + 1
        BY <1>s, <4>1, CardAdd
      <4>3. refs'[f] = refs[f] + 1
        BY <1>0, <2>3, <3>2 DEF TypeOK
      <4> QED
        BY <1>c, <1>d, <2>1, <4>2, <4>3
    <3>3. CASE f # e
      <4>1. Borrowers(f)' = Borrowers(f)
        BY <3>1, <3>3 DEF Borrowers
      <4>2. refs'[f] = refs[f]
        BY <1>0, <2>3, <3>3 DEF TypeOK
      <4> QED
        BY <1>d, <2>1, <4>1, <4>2
    <3> QED
      BY <3>2, <3>3
  <2> QED
    BY <1>6, <2>2, <2>3 DEF Borrow
\* A lease taken back from an entry that is held, and from no other.
<1>u. ASSUME NEW e \in Entries, Unlease(e)
      PROVE  /\ f = e /\ Held(f) => refs'[f] = refs[f] - 1
             /\ f # e => refs'[f] = refs[f]
  BY <1>0, <1>u DEF Unlease, TypeOK
<1>7. ASSUME NEW s \in Sessions, Detach(s)
      PROVE  refs'[f] = Cardinality(Pins(k)') + Cardinality(Borrowers(f)') + Cardinality(Awaits(f)')
  <2>1. /\ Borrowers(f)' = Borrowers(f) /\ Awaits(f)' = Awaits(f) /\ key[f] = k /\ Mapped(f)
        /\ entries[k] = f /\ Session(s)
    BY <1>7, <1>m, <1>n DEF Detach, Borrowers, Mapped
  <2>2. pinned'[s] = None
    BY <1>0, <1>7 DEF Detach, TypeOK
  <2>3. CASE pinned[s] = k
    <3>1. Unlease(f)
      BY <1>7, <1>l, <2>1, <2>3 DEF Detach
    <3>2. s \in Pins(k) /\ Pins(k)' = Pins(k) \ {s}
      BY <1>l, <1>o, <2>1, <2>2, <2>3 DEF Pins
    <3>3. Held(f)
      BY <1>l, <2>1, <3>2, PinnedIsHeld
    <3>4. refs'[f] = refs[f] - 1
      BY <1>u, <3>1, <3>3
    <3>5. /\ Cardinality(Pins(k)) = Cardinality(Pins(k)') + 1
          /\ Cardinality(Pins(k)') \in Nat
      BY <1>s, <3>2, CardDrop, CardType
    <3> QED
      BY <1>c, <1>d, <2>1, <3>4, <3>5
  <2>4. CASE pinned[s] # k
    <3>1. s \notin Pins(k) /\ s \notin Pins(k)'
      BY <1>l, <2>2, <2>4 DEF Pins
    <3>2. Pins(k)' = Pins(k)
      BY <1>o, <2>1, <3>1 DEF Pins
    <3>3. refs'[f] = refs[f]
      <4>1. pinned[s] # None => pinned[s] \in Keys
        BY <1>0 DEF TypeOK
      <4>2. pinned[s] # None => entries[pinned[s]] # f
        BY <1>k, <2>1, <2>4, <4>1
      <4> QED
        BY <1>7, <1>k, <1>u, <4>1, <4>2 DEF Detach, leaseVars
    <3> QED
      BY <1>d, <2>1, <3>2, <3>3
  <2> QED
    BY <2>3, <2>4
<1>8. ASSUME NEW s \in Sessions, Unborrow(s)
      PROVE  refs'[f] = Cardinality(Pins(k)') + Cardinality(Borrowers(f)') + Cardinality(Awaits(f)')
  <2>1. Pins(k)' = Pins(k) /\ Awaits(f)' = Awaits(f) /\ key[f] = k /\ Mapped(f)
    BY <1>8, <1>m, <1>n DEF Unborrow, Pins
  <2>2. PICK e \in borrowed[s] :
          /\ borrowed' = [borrowed EXCEPT ![s] = @ \ {e}]
          /\ IF Mapped(e) THEN Unlease(e) ELSE UNCHANGED leaseVars
    BY <1>8 DEF Unborrow
  <2>3. /\ e \in Entries /\ borrowed'[s] = borrowed[s] \ {e}
        /\ \A t \in Sessions \ {s} : borrowed'[t] = borrowed[t]
    BY <1>0, <2>2 DEF TypeOK
  <2>4. CASE f = e
    <3>1. s \in Borrowers(f) /\ Borrowers(f)' = Borrowers(f) \ {s}
      BY <2>2, <2>3, <2>4 DEF Borrowers
    <3>2. Held(f)
      BY <1>l, <2>1, <3>1, PinnedIsHeld
    <3>3. refs'[f] = refs[f] - 1
      BY <1>u, <2>1, <2>2, <2>3, <2>4, <3>2
    <3>4. /\ Cardinality(Borrowers(f)) = Cardinality(Borrowers(f)') + 1
          /\ Cardinality(Borrowers(f)') \in Nat
      BY <1>s, <3>1, CardDrop, CardType
    <3> QED
      BY <1>c, <1>d, <2>1, <3>3, <3>4
  <2>5. CASE f # e
    <3>1. Borrowers(f)' = Borrowers(f)
      BY <2>3, <2>5 DEF Borrowers
    <3>2. refs'[f] = refs[f]
      BY <1>u, <2>2, <2>3, <2>5 DEF leaseVars
    <3> QED
      BY <1>d, <2>1, <3>1, <3>2
  <2> QED
    BY <2>4, <2>5
<1> QED
  BY <1>0, <1>1, <1>2, <1>3, <1>4, <1>5, <1>6, <1>7, <1>8, LeaseCases

-----------------------------------------------------------------------------
\* Base holds in every reachable state, whatever races occur.
THEOREM BaseHolds == Spec => []Base
<1>1. Init => Base
  BY InitBase
<1>2. Base /\ [Next]_vars => Base'
  <2>1. Base <=> TypeOK /\ LockInv /\ TearInv /\ AdmitInv /\ StateInv /\ CallInv
    BY DEF Base
  <2>2. Base /\ [Next]_vars =>
           TypeOK' /\ LockInv' /\ TearInv' /\ AdmitInv' /\ StateInv' /\ CallInv'
    BY NextType, NextLock, NextTear, NextAdmit, NextState, NextCall
  <2> QED
    BY <2>2 DEF Base
<1> QED
  BY <1>1, <1>2, PTL DEF Spec

(* Every variable keeps its type, for any sessions, keys and races: no count  *)
(* of leases falls below zero and nothing starts past its bound.              *)
THEOREM TypeCorrect == Spec => []TypeOK
<1>1. Base => TypeOK
  BY DEF Base
<1> QED
  BY <1>1, BaseHolds, PTL

(* A hibernated entry's supervisor has stopped, so that the StartAsync of a   *)
(* wake is never refused (finishHibernate, wakeLocked), whatever races occur. *)
THEOREM WakesCanStart == Spec => []HibernatedIsStopped
<1>1. Base => HibernatedIsStopped
  BY DEF Base, StateInv, HibernatedIsStopped
<1> QED
  BY <1>1, BaseHolds, PTL

(* A call that got a client keeps its server until it ends: neither a reap,   *)
(* nor a hibernation, nor an admission stops it, unless its start is reported *)
(* failed (begin against beginHibernateLocked and reapEntry).                 *)
THEOREM CallsKeepServers ==
  ASSUME "latePublish" \notin Races
  PROVE  Spec => []CallKeepsServer
<1>1. Init => ClientInv
  BY InitBase
<1>2. Base /\ ClientInv /\ [Next]_vars => ClientInv'
  BY NextClient
<1>3. Base /\ ClientInv => CallKeepsServer
  BY DEF Base, CallInv, Bound, ClientInv, Good, CallKeepsServer, At
<1> QED
  BY <1>1, <1>2, <1>3, BaseHolds, PTL DEF Spec

(* The client of a server that completed its handshake is published: each     *)
(* teardown that stood down has given it back (beginHibernateLocked,          *)
(* reapEntry).                                                                *)
THEOREM ClientsComeBack ==
  ASSUME "latePublish" \notin Races
  PROVE  Spec => []ActiveIsPublished
<1>1. Init => PubInv
  BY InitBase
<1>2. Base /\ PubInv /\ [Next]_vars => PubInv'
  BY NextPub
<1>3. PubInv => ActiveIsPublished
  BY DEF PubInv, ActiveIsPublished, Running
<1> QED
  BY <1>1, <1>2, <1>3, BaseHolds, PTL DEF Spec

\* MapBase holds in every reachable state, whatever races occur.
THEOREM MapHolds == Spec => []MapBase
<1>1. Init => KeyInv /\ MapInv /\ TearMap
  BY InitMap
<1>2. Base /\ KeyInv /\ MapInv /\ TearMap /\ [Next]_vars => KeyInv' /\ MapInv' /\ TearMap'
  BY NextKey, NextMap, NextTearMap DEF MapBase
<1>3. Base /\ KeyInv /\ MapInv /\ TearMap <=> MapBase
  BY DEF MapBase
<1> QED
  BY <1>1, <1>2, <1>3, BaseHolds, PTL DEF Spec

(* A dead entry is not reused for ever: the error of a start that failed is   *)
(* in its channel, and a call or a goroutine is there to read it and to evict *)
(* the entry (awaitReady, reapOnLateStartFailure), whatever races occur.      *)
THEOREM FailuresAreRead == Spec => []FailureHasReader
<1>1. Init => ReaderInv
  BY InitMap
<1>2. MapBase /\ ReaderInv /\ [Next]_vars => ReaderInv'
  BY NextReader
<1>3. ReaderInv => FailureHasReader
  BY DEF ReaderInv, HasReader, FailureHasReader
<1> QED
  BY <1>1, <1>2, <1>3, MapHolds, PTL DEF Spec

(* An entry leaves the map with its server dead, or because no session leases *)
(* it and no call uses it (reapEntry, removeFailed), as long as the failure   *)
(* of a start is acted on before the entry starts again.                      *)
THEOREM EvictionsAreDeserved ==
  ASSUME "lateDrain" \notin Races
  PROVE  Spec => EvictionIsDeserved
<1>1. Init => ErrInv
  BY InitMap
<1>2. MapBase /\ ErrInv /\ [Next]_vars => ErrInv'
  BY NextErr
<1>3. MapBase /\ ErrInv /\ [Next]_vars => [EvictsDeserved]_vars
  BY NextEvicts
<1> QED
  BY <1>1, <1>2, <1>3, MapHolds, PTL DEF Spec, EvictionIsDeserved

(* An entry's refs are the sessions that pin it, borrow it or are about to    *)
(* pin it, whatever races occur, as long as no entry of its key failed to     *)
(* start while it was leased (pinLocked, unleaseLocked, borrowEntry).         *)
THEOREM LeasesAreCounted == Spec => []LeasesCounted
<1>1. Init => PinInv /\ LeasesCounted
  BY InitPin
<1>2. MapBase /\ PinInv /\ LeasesCounted /\ [Next]_vars => PinInv' /\ LeasesCounted'
  BY NextPin, NextCount
<1> QED
  BY <1>1, <1>2, MapHolds, PTL DEF Spec
=============================================================================
