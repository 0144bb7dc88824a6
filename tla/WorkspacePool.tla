--------------------------- MODULE WorkspacePool ---------------------------
(* The pool that keeps one language server per (root, language): leases,     *)
(* idle reaping, hibernation, admission under a cap, and failed starts       *)
(* (internal/cli/pool*.go, proxy.go, routing_proxy*.go; lsp/supervisor.go).  *)
(*                                                                           *)
(* p.mu is held for one step, except where the code drops a client under it  *)
(* and then looks for calls: begin takes its lease without the lock, so      *)
(* those are two steps (Drop, Decide), with lock held between them.          *)
(* Every key is of one language, so the cap covers them all.                 *)
EXTENDS Naturals, FiniteSets

CONSTANTS
    Sessions,   \* connections; each has at most one call in progress
    Keys,       \* (root, language) pairs
    Entries,    \* poolEntry objects: bounds how often the pool starts afresh
    MaxStarts,  \* bound: starts of a server in all (first starts, wakes)
    MaxRunning, \* max_workspaces of the language; 0 is no cap
    Races,      \* the narrow interleavings let in, see Publish and Admit
    Pool,       \* holds p.mu for the reaper and the janitor
    None

\* A client dropped under p.mu, from which entry and on whose behalf.
Teardowns == [entry : Entries, client : 0..MaxStarts, why : {"admit", "reap", "idle"}]

ASSUME BoundsAssumption ==
    /\ MaxStarts \in Nat \ {0} /\ MaxRunning \in Nat
    /\ Races \subseteq {"latePublish", "lateDrain"}
    /\ None \notin Sessions \cup Keys \cup Entries \cup {Pool} /\ None \notin Teardowns
    /\ Pool \notin Sessions
ASSUME EntriesAssumption == IsFiniteSet(Entries)
ASSUME SessionsAssumption == IsFiniteSet(Sessions)

VARIABLES
    \* workspacePool
    entries,    \* the entry in the map for a key, or None
    lock,       \* who holds p.mu across steps: a session that admits, Pool, None
    teardown,   \* the client dropped and not yet decided on, or None
    \* poolEntry and clientProxy
    key,        \* None until the entry is built
    state,
    refs,       \* session leases
    client,     \* proxy.cur: the start whose client is published, 0 for nil
    armed,      \* a grace timer is set
    fired,      \* reapEntry was called and waits for p.mu
    asked,      \* scheduleIdleReap was called and waits for p.mu
    hib,        \* finishHibernate: "no", "stop", "wait"
    closing,    \* closeOnce and what consumed it: "no", "reap", "fail"
    \* Supervisor
    starts,     \* calls of StartAsync
    sup,        \* its loop: "off", "handshake", "mark", "serving", "failed"
    stop,       \* Stop cancelled the running loop
    errs,       \* errors in a readyCh, as <<entry, start>>, until they are read
    drains,     \* reapOnLateStartFailure goroutines, as <<entry, start>>
    \* connections
    call,       \* the attach or call in progress
    pinned,     \* lsRefRoot, lsRefLang
    primary,    \* the entry behind routingProxy.primary
    borrowed    \* routingProxy.borrowed

lockVars == <<lock, teardown>>
leaseVars == <<refs, armed>>
reapVars == <<fired, asked>>
runVars == <<starts, sup, stop>>
startVars == <<errs, drains>>
bindVars == <<pinned, primary, borrowed>>
vars == <<entries, lockVars, key, state, leaseVars, client, reapVars, hib, closing,
          runVars, startVars, call, bindVars>>

-----------------------------------------------------------------------------
Running(e) == state[e] \in {"starting", "waking", "active"}
Mapped(e) == key[e] # None /\ entries[key[e]] = e

\* A teardown has dropped e's client and not looked at its calls yet.
InTeardown(e) == teardown # None /\ teardown.entry = e

(* A call: where it is, the key it is for, the entry at hand, and the start  *)
(* whose channel it reads or whose client it uses.                           *)
Quiet(p) == [pc |-> p, pinning |-> FALSE, want |-> None, ent |-> None, got |-> 0]
At(s, p) == call[s].pc = p
To(s, p) == call' = [call EXCEPT ![s].pc = p]

\* clientProxy.inflight counts the calls that hold a lease on the entry; held
\* mirrors refs > 0.
Leasing(s, e) ==
    /\ call[s].ent = e
    /\ \/ call[s].pc \in {"begin", "borrow", "wait", "use"}
       \/ At(s, "ready") /\ ~ call[s].pinning
Busy(e) == \E s \in Sessions : Leasing(s, e)
Held(e) == refs[e] > 0

(* pinLocked, leaseLocked: a lease of either kind cancels the grace timer.   *)
(* A call's lease is what Leasing says of where the call stands.             *)
TakeLease(s, e) ==
    /\ armed' = [armed EXCEPT ![e] = FALSE]
    /\ refs' = [refs EXCEPT ![e] = IF call[s].pinning THEN @ + 1 ELSE @]

\* Mutant: only a server that is up is scheduled for its teardown.
UnleaseActive(e) ==
    /\ refs' = [refs EXCEPT ![e] = IF Held(e) THEN @ - 1 ELSE 0]
    /\ armed' = [armed EXCEPT ![e] = (refs[e] = 1 /\ state[e] = "active") \/ @]

(* unleaseLocked: the last session lease arms the grace timer.               *)
Unlease(e) ==
    /\ refs' = [refs EXCEPT ![e] = IF Held(e) THEN @ - 1 ELSE 0]
    /\ armed' = [armed EXCEPT ![e] = (refs[e] = 1) \/ @]

(* An acquire ended well: attach binds the primary, a call goes on.          *)
Acquired(s, e) ==
    IF call[s].pinning
    THEN /\ call' = [call EXCEPT ![s] = Quiet("idle")]
         /\ pinned' = [pinned EXCEPT ![s] = call[s].want]
         /\ primary' = [primary EXCEPT ![s] = e]
    ELSE /\ call' = [call EXCEPT ![s].pc = "borrow", ![s].ent = e, ![s].got = 0]
         /\ UNCHANGED <<pinned, primary>>

(* clientProxy.release: only the last lease goes on to read held.  A call    *)
(* that missed its primary acquires next, any other is over.                 *)
EndLease(s) ==
    LET last == \A t \in Sessions \ {s} : ~ Leasing(t, call[s].ent)
    IN  IF last THEN To(s, IF At(s, "begin") THEN "missed" ELSE "ended")
        ELSE IF At(s, "begin") THEN To(s, "acquire")
        ELSE call' = [call EXCEPT ![s] = Quiet("idle")]

-----------------------------------------------------------------------------
(* Connections and their calls.                                              *)

(* resolvePrimaryLSP: an attach pins the entry of the workspace's language.  *)
Attach(s, k) ==
    /\ At(s, "out")
    /\ call' = [call EXCEPT ![s] = [Quiet("acquire") EXCEPT !.pinning = TRUE, !.want = k]]
    /\ UNCHANGED <<entries, lockVars, key, state, leaseVars, client, reapVars, hib,
                   closing, runVars, startVars, bindVars>>

(* route: the primary's client is tried first, under a lease (begin), any    *)
(* other server is acquired.                                                 *)
Call(s, k) ==
    /\ At(s, "idle")
    /\ call' = [call EXCEPT ![s] = IF k = pinned[s]
          THEN [Quiet("begin") EXCEPT !.want = k, !.ent = primary[s]]
          ELSE [Quiet("acquire") EXCEPT !.want = k]]
    /\ UNCHANGED <<entries, lockVars, key, state, leaseVars, client, reapVars, hib,
                   closing, runVars, startVars, bindVars>>

(* begin: counted first, the client is read next.                            *)
Begin(s) ==
    LET c == client[call[s].ent]
    IN  /\ At(s, "begin")
        /\ IF c = 0 THEN EndLease(s) ELSE call' = [call EXCEPT ![s].pc = "use", ![s].got = c]
        /\ UNCHANGED <<entries, lockVars, key, state, leaseVars, client, reapVars, hib,
                       closing, runVars, startVars, bindVars>>

(* release, after the count fell to zero: an entry nobody holds is to be     *)
(* scheduled for its idle teardown.                                          *)
CheckHeld(s) ==
    /\ At(s, "missed") \/ At(s, "ended")
    /\ asked' = [asked EXCEPT ![call[s].ent] = @ \/ (Mapped(call[s].ent) /\ ~ Held(call[s].ent))]
    /\ call' = [call EXCEPT ![s] = IF @.pc = "missed" THEN [@ EXCEPT !.pc = "acquire"]
                                   ELSE Quiet("idle")]
    /\ UNCHANGED <<entries, lockVars, key, state, leaseVars, client, fired, hib,
                   closing, runVars, startVars, bindVars>>

(* startOrReuse refuses a language the workspace's config turned off.        *)
Refuse(s) ==
    /\ At(s, "acquire")
    /\ call' = [call EXCEPT ![s] = Quiet("idle")]
    /\ UNCHANGED <<entries, lockVars, key, state, leaseVars, client, reapVars, hib,
                   closing, runVars, startVars, bindVars>>

(* reuseUnlock: an entry that runs, starts or is being stopped is handed     *)
(* back with its lease.                                                      *)
Reuse(s) ==
    /\ At(s, "acquire") /\ lock = None
    /\ \E e \in Entries :
          /\ entries[call[s].want] = e /\ state[e] # "hibernated"
          /\ TakeLease(s, e)
          /\ Acquired(s, e)
    /\ UNCHANGED <<entries, lockVars, key, state, client, reapVars, hib, closing,
                   runVars, startVars, borrowed>>

\* The failure of a start is still to be acted on.
FailureUnread(e) == \E i \in 1..starts[e] : <<e, i>> \in errs

(* A missing or hibernated entry: the acquire keeps p.mu while it admits.    *)
(* Without lateDrain in Races a start's failure is acted on before the next. *)
Admit(s) ==
    LET e == entries[call[s].want]
    IN  /\ At(s, "acquire") /\ lock = None
        /\ IF e = None THEN \E f \in Entries : key[f] = None
           ELSE /\ state[e] = "hibernated"
                /\ "lateDrain" \in Races \/ ~ FailureUnread(e)
        /\ Cardinality({d \in Entries \X (1..MaxStarts) : d[2] <= starts[d[1]]}) < MaxStarts
        /\ lock' = s
        /\ To(s, "admit")
        /\ UNCHANGED <<entries, teardown, key, state, leaseVars, client, reapVars, hib,
                       closing, runVars, startVars, bindVars>>

(* overBudgetVictimLocked: with the cap reached, an idle running server      *)
(* other than the one being woken; a pinned one only if none is unpinned.    *)
Victims(s) ==
    LET running == {e \in Entries : Mapped(e) /\ Running(e) /\ e # entries[call[s].want]}
        idle == {e \in running : ~ Busy(e)}
        unpinned == {e \in idle : ~ Held(e)}
    IN  IF MaxRunning = 0 \/ Cardinality(running) < MaxRunning THEN {}
        ELSE IF unpinned # {} THEN unpinned ELSE idle

(* beginHibernateLocked and reapEntry: the client is dropped first.          *)
DropClient(e, why) ==
    /\ teardown' = [entry |-> e, client |-> client[e], why |-> why]
    /\ client' = [client EXCEPT ![e] = 0]

AdmitVictim(s) ==
    /\ At(s, "admit") /\ teardown = None
    /\ \E e \in Victims(s) : DropClient(e, "admit")
    /\ UNCHANGED <<entries, lock, key, state, leaseVars, reapVars, hib, closing,
                   runVars, startVars, call, bindVars>>

(* StartAsync, with the entry's supervisor stopped.                          *)
StartAsync(e) ==
    /\ starts' = [starts EXCEPT ![e] = @ + 1]
    /\ sup' = [sup EXCEPT ![e] = "handshake"]
    /\ stop' = [stop EXCEPT ![e] = FALSE]

(* startLocked, wakeLocked: the entry starts and is leased in the p.mu       *)
(* section that found it; then p.mu is released.                             *)
Start(s) ==
    /\ At(s, "start") \/ (At(s, "admit") /\ Victims(s) = {})
    /\ teardown = None
    /\ \E e \in Entries :
          /\ \/ /\ entries[call[s].want] = None /\ key[e] = None
                /\ key' = [key EXCEPT ![e] = call[s].want]
                /\ entries' = [entries EXCEPT ![call[s].want] = e]
                /\ state' = [state EXCEPT ![e] = "starting"]
             \/ /\ entries[call[s].want] = e
                /\ state' = [state EXCEPT ![e] = "waking"]
                /\ UNCHANGED <<key, entries>>
          /\ StartAsync(e)
          /\ TakeLease(s, e)
          /\ call' = [call EXCEPT ![s].pc = "ready", ![s].ent = e, ![s].got = starts[e] + 1]
    /\ lock' = None
    /\ UNCHANGED <<teardown, client, reapVars, hib, closing, startVars, bindVars>>

(* An entry leaves the map and closeOnce is consumed.  What is pending for   *)
(* it comes to nothing and is dropped: a reap finds it gone and returns, and *)
(* a hibernation only calls Stop, as its close does.                         *)
Leave(e, why) ==
    /\ entries' = [k \in Keys |-> IF entries[k] = e THEN None ELSE entries[k]]
    /\ closing' = [closing EXCEPT ![e] = IF @ = "no" THEN why ELSE @]
    /\ state' = [state EXCEPT ![e] = "gone"]
    /\ hib' = [hib EXCEPT ![e] = "no"]
    /\ armed' = [armed EXCEPT ![e] = FALSE]
    /\ fired' = [fired EXCEPT ![e] = FALSE]
    /\ asked' = [asked EXCEPT ![e] = FALSE]

(* awaitReady reads an error from the channel (removeFailed).                *)
ReadyErr(s) ==
    LET ready == <<call[s].ent, call[s].got>>
    IN  /\ At(s, "ready") /\ ready \in errs /\ lock = None
        /\ Leave(call[s].ent, "fail")
        /\ errs' = errs \ {ready}
        /\ IF call[s].pinning THEN call' = [call EXCEPT ![s] = Quiet("idle")] ELSE EndLease(s)
        /\ UNCHANGED <<lockVars, key, refs, client, runVars, drains, bindVars>>

\* Mutant: a start still under way is left with nobody to read its outcome.
ReadyOrNever(s) ==
    /\ At(s, "ready")
    /\ Acquired(s, call[s].ent)
    /\ UNCHANGED <<entries, lockVars, key, state, leaseVars, client, reapVars, hib,
                   closing, runVars, startVars, borrowed>>

(* awaitReady reads nil, or the grace or the request ends first; a goroutine *)
(* is then left to read the channel, unless nothing but nil can come.        *)
ReadyOrLater(s) ==
    LET e == call[s].ent
        i == call[s].got
        undecided == (i = starts[e] /\ sup[e] \in {"handshake", "mark"}) \/ <<e, i>> \in errs
    IN  /\ At(s, "ready")
        /\ drains' = IF undecided THEN drains \cup {<<e, i>>} ELSE drains
        /\ Acquired(s, e)
        /\ UNCHANGED <<entries, lockVars, key, state, leaseVars, client, reapVars, hib,
                       closing, runVars, errs, borrowed>>

\* Mutant: every routed call takes a lease, borrowed or not.
BorrowAgain(s) ==
    LET e == call[s].ent
    IN  /\ At(s, "borrow") /\ lock = None
        /\ To(s, "wait")
        /\ IF call[s].want # pinned[s] /\ Mapped(e)
           THEN /\ refs' = [refs EXCEPT ![e] = @ + 1]
                /\ armed' = [armed EXCEPT ![e] = FALSE]
                /\ borrowed' = [borrowed EXCEPT ![s] = @ \cup {e}]
           ELSE UNCHANGED <<refs, armed, borrowed>>
        /\ UNCHANGED <<entries, lockVars, key, state, client, reapVars, hib, closing,
                       runVars, startVars, pinned, primary>>

(* borrowEntry: the session keeps what it routes to, its primary excepted.   *)
Borrow(s) ==
    LET e == call[s].ent
    IN  /\ At(s, "borrow") /\ lock = None
        /\ To(s, "wait")
        /\ IF call[s].want # pinned[s] /\ e \notin borrowed[s] /\ Mapped(e)
           THEN /\ refs' = [refs EXCEPT ![e] = @ + 1]
                /\ armed' = [armed EXCEPT ![e] = FALSE]
                /\ borrowed' = [borrowed EXCEPT ![s] = @ \cup {e}]
           ELSE UNCHANGED <<refs, armed, borrowed>>
        /\ UNCHANGED <<entries, lockVars, key, state, client, reapVars, hib, closing,
                       runVars, startVars, pinned, primary>>

(* entryClient: a client within warmCap, or the call fails.                  *)
GetClient(s) ==
    LET c == client[call[s].ent]
    IN  /\ At(s, "wait") /\ c # 0
        /\ call' = [call EXCEPT ![s].pc = "use", ![s].got = c]
        /\ UNCHANGED <<entries, lockVars, key, state, leaseVars, client, reapVars, hib,
                       closing, runVars, startVars, bindVars>>

(* end: the call is over, or it found no client in time.                     *)
EndCall(s) ==
    /\ At(s, "wait") \/ At(s, "use")
    /\ EndLease(s)
    /\ UNCHANGED <<entries, lockVars, key, state, leaseVars, client, reapVars, hib,
                   closing, runVars, startVars, bindVars>>

(* connSession.close: the pin is released by its key, then each borrowed     *)
(* entry is returned.                                                        *)
Detach(s) ==
    /\ At(s, "idle") /\ lock = None
    /\ To(s, "leaving")
    /\ pinned' = [pinned EXCEPT ![s] = None]
    /\ primary' = [primary EXCEPT ![s] = None]
    /\ IF pinned[s] # None /\ entries[pinned[s]] # None THEN Unlease(entries[pinned[s]])
       ELSE UNCHANGED leaseVars
    /\ UNCHANGED <<entries, lockVars, key, state, client, reapVars, hib, closing,
                   runVars, startVars, borrowed>>

Unborrow(s) ==
    /\ At(s, "leaving") /\ lock = None
    /\ \E e \in borrowed[s] :
          /\ borrowed' = [borrowed EXCEPT ![s] = @ \ {e}]
          /\ IF Mapped(e) THEN Unlease(e) ELSE UNCHANGED leaseVars
    /\ UNCHANGED <<entries, lockVars, key, state, client, reapVars, hib, closing,
                   runVars, startVars, call, pinned, primary>>

Gone(s) ==
    /\ At(s, "leaving") /\ borrowed[s] = {}
    /\ To(s, "out")
    /\ UNCHANGED <<entries, lockVars, key, state, leaseVars, client, reapVars, hib,
                   closing, runVars, startVars, bindVars>>

-----------------------------------------------------------------------------
(* Teardown.                                                                 *)

Fire(e) ==
    /\ armed[e]
    /\ armed' = [armed EXCEPT ![e] = FALSE]
    /\ fired' = [fired EXCEPT ![e] = TRUE]
    /\ UNCHANGED <<entries, lockVars, key, state, refs, client, asked, hib, closing,
                   runVars, startVars, call, bindVars>>

ScheduleIdleReap(e) ==
    /\ asked[e] /\ lock = None
    /\ asked' = [asked EXCEPT ![e] = FALSE]
    /\ armed' = [armed EXCEPT ![e] = @ \/ ~ (Held(e) \/ Busy(e))]
    /\ UNCHANGED <<entries, lockVars, key, state, refs, client, fired, hib, closing,
                   runVars, startVars, call, bindVars>>

(* trimLongHibernated picks a hibernated entry no session leases.            *)
TrimLongHibernated(e) ==
    /\ lock = None /\ Mapped(e) /\ state[e] = "hibernated" /\ ~ Held(e) /\ ~ fired[e]
    /\ fired' = [fired EXCEPT ![e] = TRUE]
    /\ UNCHANGED <<entries, lockVars, key, state, leaseVars, client, asked, hib,
                   closing, runVars, startVars, call, bindVars>>

\* Mutant: the timer is trusted although a session came back.
ReapHeld(e) ==
    /\ fired[e] /\ lock = None
    /\ fired' = [fired EXCEPT ![e] = FALSE]
    /\ lock' = Pool /\ DropClient(e, "reap")
    /\ UNCHANGED <<entries, key, state, leaseVars, asked, hib, closing, runVars,
                   startVars, call, bindVars>>

(* reapEntry up to the look at inflight.                                     *)
Reap(e) ==
    /\ fired[e] /\ lock = None
    /\ fired' = [fired EXCEPT ![e] = FALSE]
    /\ IF ~ Held(e) THEN lock' = Pool /\ DropClient(e, "reap")
       ELSE UNCHANGED <<lockVars, client>>
    /\ UNCHANGED <<entries, key, state, leaseVars, asked, hib, closing, runVars,
                   startVars, call, bindVars>>

(* hibernateIdle, for an entry that looked idle some time ago.  What it does *)
(* to one that left the map meanwhile reaches nobody, and is left out.       *)
Hibernate(e) ==
    /\ lock = None /\ Mapped(e) /\ Running(e)
    /\ lock' = Pool
    /\ DropClient(e, "idle")
    /\ UNCHANGED <<entries, key, state, leaseVars, reapVars, hib, closing, runVars,
                   startVars, call, bindVars>>

\* Mutant: the client is dropped without a look at who uses it.
DecideBlind ==
    LET e == teardown.entry
    IN  /\ teardown # None /\ teardown' = None
        /\ lock' = IF teardown.why = "admit" THEN lock ELSE None
        /\ IF teardown.why = "reap" THEN Leave(e, "reap")
           ELSE /\ state' = [state EXCEPT ![e] = "hibernating"]
                /\ hib' = [hib EXCEPT ![e] = "stop"]
                /\ UNCHANGED <<entries, closing, armed, reapVars>>
        /\ UNCHANGED <<client, call, key, refs, runVars, startVars, bindVars>>

\* Mutant: a teardown that stands down forgets to give the client back.
DecideKeepsClient ==
    LET e == teardown.entry
        admits == teardown.why = "admit"
    IN  /\ teardown # None /\ teardown' = None
        /\ lock' = IF admits THEN lock ELSE None
        /\ \/ /\ Busy(e)
              /\ IF admits THEN To(lock, "start") ELSE UNCHANGED call
              /\ UNCHANGED <<entries, closing, armed, reapVars, state, hib>>
           \/ /\ ~ Busy(e) /\ teardown.why = "reap"
              /\ Leave(e, "reap")
              /\ UNCHANGED call
           \/ /\ ~ Busy(e) /\ teardown.why # "reap"
              /\ state' = [state EXCEPT ![e] = "hibernating"]
              /\ hib' = [hib EXCEPT ![e] = "stop"]
              /\ UNCHANGED <<call, entries, closing, armed, reapVars>>
        /\ UNCHANGED <<client, key, refs, runVars, startVars, bindVars>>

(* The look at inflight: a call keeps the server and its client comes back,  *)
(* which ends an admission; otherwise the entry is reaped or hibernates.     *)
Decide ==
    LET e == teardown.entry
        admits == teardown.why = "admit"
    IN  /\ teardown # None /\ teardown' = None
        /\ lock' = IF admits THEN lock ELSE None
        /\ \/ /\ Busy(e)
              /\ client' = [client EXCEPT ![e] = teardown.client]
              /\ IF admits THEN To(lock, "start") ELSE UNCHANGED call
              /\ UNCHANGED <<entries, closing, armed, reapVars, state, hib>>
           \/ /\ ~ Busy(e) /\ teardown.why = "reap"
              /\ Leave(e, "reap")
              /\ UNCHANGED <<client, call>>
           \/ /\ ~ Busy(e) /\ teardown.why # "reap"
              /\ state' = [state EXCEPT ![e] = "hibernating"]
              /\ hib' = [hib EXCEPT ![e] = "stop"]
              /\ UNCHANGED <<client, call, entries, closing, armed, reapVars>>
        /\ UNCHANGED <<key, refs, runVars, startVars, bindVars>>

\* Supervisor.Stop: the loop is cancelled, and has ended already or will.
Cancel(e) == stop' = [stop EXCEPT ![e] = sup[e] # "off"]
LoopEnded(e) == sup[e] \in {"off", "failed"}

(* finishHibernate: Stop is called, returns, and the state is settled.       *)
StopToHibernate(e) ==
    /\ hib[e] = "stop"
    /\ hib' = [hib EXCEPT ![e] = "wait"]
    /\ Cancel(e)
    /\ UNCHANGED <<entries, lockVars, key, state, leaseVars, client, reapVars, closing,
                   starts, sup, startVars, call, bindVars>>

\* Mutant: Stop cancels the loop and does not wait for it.
FinishHibernateEarly(e) ==
    /\ hib[e] = "wait" /\ lock = None
    /\ hib' = [hib EXCEPT ![e] = "no"]
    /\ state' = [state EXCEPT ![e] = "hibernated"]
    /\ UNCHANGED <<entries, lockVars, key, leaseVars, client, reapVars, closing, starts,
                   sup, stop, startVars, call, bindVars>>

FinishHibernate(e) ==
    /\ hib[e] = "wait" /\ LoopEnded(e) /\ lock = None
    /\ hib' = [hib EXCEPT ![e] = "no"]
    /\ sup' = [sup EXCEPT ![e] = "off"]
    /\ state' = [state EXCEPT ![e] = "hibernated"]
    /\ UNCHANGED <<entries, lockVars, key, leaseVars, client, reapVars, closing, starts,
                   stop, startVars, call, bindVars>>

(* closeEntryClient, and removeFailed's own teardown.                        *)
StopToClose(e) ==
    /\ closing[e] # "no" /\ ~ stop[e] /\ sup[e] # "off"
    /\ Cancel(e)
    /\ UNCHANGED <<entries, lockVars, key, state, leaseVars, client, reapVars, hib,
                   closing, starts, sup, startVars, call, bindVars>>

-----------------------------------------------------------------------------
(* The supervisor's loop, and who reads its channel.                         *)

(* A first start that fails reports its error, one that is stopped reports   *)
(* nil, which ends the goroutine that waits for it (firstStartOutcome).      *)
HandshakeFails(e) ==
    /\ sup[e] = "handshake"
    /\ sup' = [sup EXCEPT ![e] = "failed"]
    /\ IF stop[e] THEN drains' = drains \ {<<e, starts[e]>>} /\ UNCHANGED errs
       ELSE errs' = errs \cup {<<e, starts[e]>>} /\ UNCHANGED drains
    /\ UNCHANGED <<entries, lockVars, key, state, leaseVars, client, reapVars, hib,
                   closing, starts, stop, call, bindVars>>

(* poolOnStart: the handshake is done and its client published.  Without     *)
(* latePublish in Races it is not done once a teardown of the entry began.   *)
Publish(e) ==
    /\ sup[e] = "handshake"
    /\ "latePublish" \in Races \/ (Running(e) /\ closing[e] = "no" /\ ~ InTeardown(e))
    /\ sup' = [sup EXCEPT ![e] = "mark"]
    /\ client' = [client EXCEPT ![e] = starts[e]]
    /\ UNCHANGED <<entries, lockVars, key, state, leaseVars, reapVars, hib, closing,
                   starts, stop, startVars, call, bindVars>>

MarkActive(e) ==
    /\ sup[e] = "mark" /\ lock = None
    /\ sup' = [sup EXCEPT ![e] = "serving"]
    /\ state' = [state EXCEPT ![e] = IF @ \in {"starting", "waking"} THEN "active" ELSE @]
    /\ drains' = drains \ {<<e, starts[e]>>}
    /\ UNCHANGED <<entries, lockVars, key, leaseVars, client, reapVars, hib, closing,
                   starts, stop, errs, call, bindVars>>

(* The process is signalled when the loop is cancelled, and reaped.          *)
Exit(e) ==
    /\ sup[e] = "serving" /\ stop[e]
    /\ sup' = [sup EXCEPT ![e] = "off"]
    /\ UNCHANGED <<entries, lockVars, key, state, leaseVars, client, reapVars, hib,
                   closing, starts, stop, startVars, call, bindVars>>

(* reapOnLateStartFailure reads an error (removeFailed).                     *)
Drain(e, i) ==
    /\ <<e, i>> \in drains \cap errs /\ lock = None
    /\ drains' = drains \ {<<e, i>>}
    /\ errs' = errs \ {<<e, i>>}
    /\ Leave(e, "fail")
    /\ UNCHANGED <<lockVars, key, refs, client, runVars, call, bindVars>>

-----------------------------------------------------------------------------
Init ==
    /\ entries = [k \in Keys |-> None]
    /\ lock = None /\ teardown = None
    /\ key = [e \in Entries |-> None]
    /\ state = [e \in Entries |-> "new"]
    /\ refs = [e \in Entries |-> 0]
    /\ client = [e \in Entries |-> 0]
    /\ armed = [e \in Entries |-> FALSE]
    /\ fired = [e \in Entries |-> FALSE]
    /\ asked = [e \in Entries |-> FALSE]
    /\ hib = [e \in Entries |-> "no"]
    /\ closing = [e \in Entries |-> "no"]
    /\ starts = [e \in Entries |-> 0]
    /\ sup = [e \in Entries |-> "off"]
    /\ stop = [e \in Entries |-> FALSE]
    /\ errs = {} /\ drains = {}
    /\ call = [s \in Sessions |-> Quiet("out")]
    /\ pinned = [s \in Sessions |-> None]
    /\ primary = [s \in Sessions |-> None]
    /\ borrowed = [s \in Sessions |-> {}]

\* A call on its way.
CallStep(s) ==
    \/ Begin(s) \/ CheckHeld(s)
    \/ Refuse(s) \/ Reuse(s) \/ Admit(s) \/ AdmitVictim(s) \/ Start(s)
    \/ ReadyErr(s) \/ ReadyOrLater(s)
    \/ Borrow(s) \/ GetClient(s) \/ EndCall(s)

Session(s) ==
    \/ \E k \in Keys : Attach(s, k) \/ Call(s, k)
    \/ CallStep(s)
    \/ Detach(s) \/ Unborrow(s) \/ Gone(s)

Goroutine(e) ==
    \/ Fire(e) \/ ScheduleIdleReap(e) \/ Reap(e)
    \/ StopToHibernate(e) \/ FinishHibernate(e) \/ StopToClose(e)
    \/ HandshakeFails(e) \/ Publish(e) \/ MarkActive(e) \/ Exit(e)
    \/ \E i \in 1..MaxStarts : Drain(e, i)

Janitor(e) == Hibernate(e) \/ TrimLongHibernated(e)

Next ==
    \/ \E s \in Sessions : Session(s)
    \/ \E e \in Entries : Goroutine(e) \/ Janitor(e)
    \/ Decide

(* Every goroutine goes on; one that wants p.mu gets it although others take *)
(* it between (a Go mutex starves nobody).  Nobody need attach or call, and  *)
(* a handshake that hangs is stopped by its caller's cancel.                 *)
Fairness ==
    /\ WF_vars(Decide)
    /\ \A s \in Sessions : SF_vars(CallStep(s)) /\ SF_vars(Unborrow(s) \/ Gone(s))
    /\ \A e \in Entries :
          /\ WF_vars(Fire(e)) /\ SF_vars(ScheduleIdleReap(e)) /\ SF_vars(Reap(e))
          /\ WF_vars(StopToHibernate(e)) /\ SF_vars(FinishHibernate(e))
          /\ WF_vars(StopToClose(e))
          /\ WF_vars(stop[e] /\ HandshakeFails(e))
          /\ SF_vars(MarkActive(e)) /\ WF_vars(Exit(e))
          /\ SF_vars(\E i \in 1..MaxStarts : Drain(e, i))

Spec == Init /\ [][Next]_vars
FairSpec == Spec /\ Fairness

-----------------------------------------------------------------------------
(* Properties.                                                               *)

States == {"new", "gone", "starting", "active", "hibernating", "hibernated", "waking"}
Pcs == {"out", "idle", "begin", "missed", "acquire", "admit", "start", "ready", "borrow",
        "wait", "use", "ended", "leaving"}
Calls == [pc : Pcs, pinning : BOOLEAN, want : Keys \cup {None}, ent : Entries \cup {None},
          got : 0..MaxStarts]

(* Every variable has its type; the counts never fall below zero.            *)
TypeOK ==
    /\ entries \in [Keys -> Entries \cup {None}]
    /\ lock \in Sessions \cup {Pool, None}
    /\ teardown = None \/ teardown \in Teardowns
    /\ key \in [Entries -> Keys \cup {None}]
    /\ state \in [Entries -> States]
    /\ refs \in [Entries -> Nat]
    /\ client \in [Entries -> 0..MaxStarts]
    /\ armed \in [Entries -> BOOLEAN] /\ fired \in [Entries -> BOOLEAN]
    /\ asked \in [Entries -> BOOLEAN]
    /\ hib \in [Entries -> {"no", "stop", "wait"}]
    /\ closing \in [Entries -> {"no", "reap", "fail"}]
    /\ starts \in [Entries -> 0..MaxStarts]
    /\ sup \in [Entries -> {"off", "handshake", "mark", "serving", "failed"}]
    /\ stop \in [Entries -> BOOLEAN]
    /\ errs \subseteq Entries \X (1..MaxStarts) /\ drains \subseteq Entries \X (1..MaxStarts)
    /\ call \in [Sessions -> Calls]
    /\ pinned \in [Sessions -> Keys \cup {None}]
    /\ primary \in [Sessions -> Entries \cup {None}]
    /\ borrowed \in [Sessions -> SUBSET Entries]

(* A call that got a client keeps its server until it ends, unless that      *)
(* server's start is reported failed: no reap, hibernation or admission      *)
(* stops it, however its look at inflight interleaves with begin (proxy.go). *)
CallKeepsServer ==
    \A s \in Sessions :
        LET e == call[s].ent
        IN  At(s, "use") /\ closing[e] # "fail" =>
                call[s].got = starts[e] /\ ~ stop[e] /\ hib[e] = "no" /\ closing[e] = "no"

\* Some entry of e's key failed to start while sessions held leases on it.
LeasesLost(e) == \E f \in Entries : key[f] = key[e] /\ closing[f] = "fail" /\ Held(f)

(* An entry's refs are the sessions that pin it, borrow it or are about to   *)
(* pin it, as long as no entry of its key failed while leased: pins are      *)
(* released by key, borrows by entry (release, unborrow).                    *)
LeasesCounted ==
    \A e \in Entries :
        Mapped(e) /\ ~ LeasesLost(e) =>
            refs[e] = Cardinality({s \in Sessions : pinned[s] = key[e]})
                    + Cardinality({s \in Sessions : e \in borrowed[s]})
                    + Cardinality({s \in Sessions :
                                      At(s, "ready") /\ call[s].pinning /\ call[s].ent = e})

(* A session that pins the entry of a key keeps its language server: no      *)
(* entry a session's pin names is without a lease (release: "must not        *)
(* decrement a sibling's count").                                            *)
PinKeepsLease ==
    \A s \in Sessions : pinned[s] # None /\ Mapped(primary[s]) => Held(primary[s])

(* A dead entry is not reused for ever: a start that failed has somebody     *)
(* left to read its error and evict it, or is being hibernated and can be    *)
(* woken (awaitReady, reapOnLateStartFailure).                               *)
FailureHasReader ==
    \A e \in Entries :
        Mapped(e) /\ sup[e] = "failed" /\ hib[e] = "no" =>
            /\ <<e, starts[e]>> \in errs
            /\ \/ <<e, starts[e]>> \in drains
               \/ \E s \in Sessions :
                     At(s, "ready") /\ call[s].ent = e /\ call[s].got = starts[e]

(* A server that completed its handshake has its client published: the       *)
(* teardowns that stood down gave it back (beginHibernateLocked, reapEntry). *)
ActiveIsPublished ==
    \A e \in Entries :
        /\ Mapped(e) /\ state[e] = "active" /\ sup[e] = "serving" /\ ~ stop[e]
        /\ ~ InTeardown(e)
        => client[e] = starts[e]

(* A hibernated entry's supervisor has stopped, so that a wake's StartAsync  *)
(* is never refused as already running (finishHibernate, wakeLocked).        *)
HibernatedIsStopped ==
    \A e \in Entries : Mapped(e) /\ state[e] = "hibernated" => sup[e] = "off"

\* No entry leaves the map that is held and runs.
EvictsDeserved ==
    \A e \in Entries : Mapped(e) /\ ~ Mapped(e)' => LoopEnded(e) \/ ~ (Held(e) \/ Busy(e))

(* An entry leaves the map because nobody leases it, or with its server      *)
(* dead: hibernation, a late failure or a stale timer never evicts one       *)
(* that is held and runs (reapEntry, removeFailed).                          *)
EvictionIsDeserved == [][EvictsDeserved]_vars

(* When the last session has gone, every language server stops and every     *)
(* entry leaves the map (idle grace).                                        *)
IdleServersStop ==
    <>[](\A s \in Sessions : At(s, "out")) => <>[](\A e \in Entries : LoopEnded(e) /\ ~ Mapped(e))
=============================================================================
