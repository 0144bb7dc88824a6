----------------------------- MODULE ServeProxy -----------------------------
(***************************************************************************)
(* The reconnecting proxy of `plumb serve`: the pump from the client to    *)
(* the daemon, the pump back, the heartbeat, the reconnect the three share *)
(* under reconnectMu, and the ledger of requests that were written to a    *)
(* daemon and not answered.                                                *)
(*                                                                         *)
(* Connections are numbered by the generation they are published under.    *)
(* The daemon is what the proxy can see of it: it accepts frames, answers  *)
(* them in any order, drops a connection, hangs, dies, and is started      *)
(* again by whoever dials next.                                            *)
(***************************************************************************)
EXTENDS Naturals, FiniteSets

CONSTANTS
    Calls,     \* the client's requests other than initialize
    Hello,     \* the initialize request
    MaxGen,    \* bound on the generations
    MaxPid,    \* bound on the daemons started
    MaxTry,    \* maxReconnects, the attempts of the fast phase
    Races,     \* the races that may happen, see below
    None

Reqs   == Calls \cup {Hello}
Actors == {"client", "daemon", "heart"}

\* Orders of events that a run may exclude:
\*   "hungDial"   a daemon hangs while a reconnect is under way
\*   "latePid"    a daemon dies between the publication of its connection and
\*                the read of the PID file that follows
ASSUME RacesAssumption ==
    Races \subseteq {"hungDial", "latePid"}
ASSUME BoundsAssumption ==
    /\ MaxGen \in Nat \ {0} /\ MaxPid \in Nat \ {0} /\ MaxTry \in Nat \ {0}
    /\ Hello \notin Calls /\ None \notin Reqs \cup Actors

Gens == 1..MaxGen

VARIABLES
    last, alive, hung,   \* the daemon: its PID, whether it runs, whether it hangs
    server,    \* the daemon a connection leads to
    up,        \* the connections both ends of which are open
    inbox,     \* what a daemon received on a connection and has not answered
    outbox,    \* answers the proxy has not read: on the socket, or in its buffer
    gen,       \* the current generation
    conn,      \* conn # nil
    captured,  \* initializeFrame # nil
    answered,  \* initializeAnswered
    ledger,    \* outstanding: the generation a request was written under, 0 if none
    pid,       \* daemonPID
    owner,     \* who holds reconnectMu
    stage,     \* where its reconnect is
    tries,     \* its failed attempts, counted up to MaxTry
    cpc, frame, wgen,    \* the client pump: what it writes and under which generation
    dpc, dframe, dgen,   \* the daemon pump: the generation it reads, what it read
    hpc, hgen,           \* the heartbeat: the generation it probes
    heard,     \* something has come from the daemon since its ping
    probed,    \* the daemon its ping was written to
    asked,     \* the requests the client has sent
    sent,      \* the connections each request was written to
    raced,     \* history: the requests in whose accounts two goroutines have met
    results,   \* the answers of a daemon the client received, by request
    errors     \* the synthesised errors it received

daemonVars == <<last, alive, hung>>
netVars    == <<server, up, inbox, outbox>>
connVars   == <<gen, conn, captured, answered, pid>>
recVars    == <<owner, stage, tries>>
cVars      == <<cpc, frame, wgen>>
dVars      == <<dpc, dframe, dgen>>
hVars      == <<hpc, hgen, heard, probed>>
clientVars == <<asked, raced, results, errors>>
vars == <<daemonVars, netVars, connVars, ledger, recVars, cVars, dVars, hVars,
          clientVars, sent>>

TypeOK ==
    /\ last \in 1..MaxPid /\ alive \in BOOLEAN /\ hung \in BOOLEAN
    /\ server \in [Gens -> 0..MaxPid]
    /\ up \in SUBSET Gens
    /\ inbox \in [Gens -> SUBSET Reqs]
    /\ outbox \in [Gens -> SUBSET Reqs]
    /\ gen \in Gens /\ conn \in BOOLEAN
    /\ captured \in BOOLEAN /\ answered \in BOOLEAN
    /\ ledger \in [Calls -> 0..MaxGen]
    /\ pid \in 1..MaxPid
    /\ owner \in Actors \cup {None}
    /\ stage \in {"dial", "await", "publish", "sweep", "settle"}
    /\ tries \in 0..MaxTry
    /\ cpc \in {"read", "write", "track", "check", "reconnect"}
    /\ frame \in Reqs \cup {None} /\ wgen \in 0..MaxGen
    /\ dpc \in {"loop", "read", "resolve", "forward", "reconnect"}
    /\ dframe \in Reqs \cup {None} /\ dgen \in 0..MaxGen
    /\ hpc \in {"idle", "ping", "wait", "reconnect"}
    /\ hgen \in 0..MaxGen /\ heard \in BOOLEAN /\ probed \in 0..MaxPid
    /\ asked \in SUBSET Reqs
    /\ sent \in [Reqs -> SUBSET Gens]
    /\ raced \in SUBSET Reqs
    /\ results \in [Reqs -> Nat]
    /\ errors \in [Calls -> Nat]

Init ==
    /\ last = 1 /\ alive = TRUE /\ hung = FALSE
    /\ server = [g \in Gens |-> IF g = 1 THEN 1 ELSE 0]
    /\ up = {1}
    /\ inbox = [g \in Gens |-> {}]
    /\ outbox = [g \in Gens |-> {}]
    /\ gen = 1 /\ conn = TRUE
    /\ captured = FALSE /\ answered = FALSE
    /\ ledger = [r \in Calls |-> 0]
    /\ pid = 1
    /\ owner = None /\ stage = "dial" /\ tries = 0
    /\ cpc = "read" /\ frame = None /\ wgen = 0
    /\ dpc = "loop" /\ dframe = None /\ dgen = 0
    /\ hpc = "idle" /\ hgen = 0 /\ heard = FALSE /\ probed = 0
    /\ asked = {}
    /\ sent = [r \in Reqs |-> {}]
    /\ raced = {}
    /\ results = [r \in Reqs |-> 0]
    /\ errors = [r \in Calls |-> 0]

-----------------------------------------------------------------------------
(* Helpers.                                                                *)

Current == conn /\ gen \in up     \* a write to the daemon succeeds

\* The daemon pump has read the answer, or will find it in its buffer, and the
\* proxy does not know it yet.
OnItsWay(r) == \/ dpc = "resolve" /\ dframe = r
               \/ dpc = "read" /\ r \in outbox[dgen]

Swept(n) == {r \in Calls : ledger[r] \in 1..(n - 1)}

\* failOutstandingBelow(n): one error for each request written before n, also for
\* one whose answer is on its way.
FailOutstandingBelow(n) ==
    /\ raced' = raced \cup {r \in Swept(n) : OnItsWay(r)}
    /\ ledger' = [r \in Calls |-> IF r \in Swept(n) THEN 0 ELSE ledger[r]]
    /\ errors' = [r \in Calls |-> IF r \in Swept(n) THEN errors[r] + 1 ELSE errors[r]]

-----------------------------------------------------------------------------
(* pumpClientToDaemon.                                                     *)

\* The client waits for its initialize result before it sends anything else.
\* captureHandshake stores the frame before it is written.
ClientRead(r) ==
    /\ cpc = "read"
    /\ r \notin asked
    /\ r = Hello \/ results[Hello] > 0
    /\ asked' = asked \cup {r}
    /\ captured' = (captured \/ r = Hello)
    /\ frame' = r
    /\ cpc' = "write"
    /\ UNCHANGED <<daemonVars, netVars, gen, conn, answered, pid, ledger, recVars, wgen,
                   dVars, hVars, raced, results, errors, sent>>

\* Mutant: the request is recorded before it is written.
TrackFirst ==
    /\ cpc = "write"
    /\ wgen' = gen
    /\ ledger' = [r \in Calls |-> IF r = frame THEN gen ELSE ledger[r]]
    /\ IF Current
       THEN /\ inbox' = [inbox EXCEPT ![gen] = @ \cup {frame}]
            /\ sent' = [sent EXCEPT ![frame] = @ \cup {gen}]
            /\ cpc' = "track"
       ELSE cpc' = "reconnect" /\ UNCHANGED <<inbox, sent>>
    /\ raced' = IF frame = Hello /\ sent[Hello] # {} THEN raced \cup {Hello} ELSE raced
    /\ UNCHANGED <<daemonVars, server, up, outbox, connVars, recVars, frame,
                   dVars, hVars, asked, results, errors>>

\* writeDaemon: the frame reaches the daemon, or the pump wants a reconnect and
\* comes back to write the same frame, an initialize too that the reconnect has
\* replayed.
ClientWrite ==
    /\ cpc = "write"
    /\ wgen' = gen
    /\ IF Current
       THEN /\ inbox' = [inbox EXCEPT ![gen] = @ \cup {frame}]
            /\ sent' = [sent EXCEPT ![frame] = @ \cup {gen}]
            /\ cpc' = "track"
       ELSE cpc' = "reconnect" /\ UNCHANGED <<inbox, sent>>
    /\ raced' = IF frame = Hello /\ sent[Hello] # {} THEN raced \cup {Hello} ELSE raced
    /\ UNCHANGED <<daemonVars, server, up, outbox, connVars, ledger, recVars,
                   frame, dVars, hVars, asked, results, errors>>

\* The pump reads its next frame.
Idle == cpc' = "read" /\ frame' = None /\ wgen' = 0

\* trackOutstanding, after the write; initialize is not in the ledger ...
ClientTrack ==
    /\ cpc = "track"
    /\ ledger' = [r \in Calls |-> IF r = frame THEN wgen ELSE ledger[r]]
    /\ IF frame = Hello THEN Idle ELSE cpc' = "check" /\ UNCHANGED <<frame, wgen>>
    /\ UNCHANGED <<daemonVars, netVars, connVars, recVars, dVars, hVars, clientVars, sent>>

\* Mutant: the generation is not checked after the store.
NoCheck ==
    /\ cpc = "check"
    /\ Idle
    /\ UNCHANGED <<daemonVars, netVars, connVars, ledger, recVars, dVars, hVars,
                   clientVars, sent>>

\* ... and a generation that moved on in between may have swept too early.
ClientCheck ==
    /\ cpc = "check"
    /\ IF gen # wgen THEN FailOutstandingBelow(gen)
       ELSE UNCHANGED <<raced, ledger, errors>>
    /\ Idle
    /\ UNCHANGED <<daemonVars, netVars, connVars, recVars, dVars, hVars, asked, results,
                   sent>>

-----------------------------------------------------------------------------
(* pumpDaemonToClient.                                                     *)

DaemonLoop ==
    /\ dpc = "loop"
    /\ dgen' = gen
    /\ dpc' = IF conn THEN "read" ELSE "reconnect"
    /\ UNCHANGED <<daemonVars, netVars, connVars, ledger, recVars, cVars, dframe, hVars,
                   clientVars, sent>>

\* fr.read() returns a frame that is buffered also after the connection was closed
\* and replaced; what is buffered behind it is then never asked for.
DaemonFrame(r) ==
    /\ dpc = "read"
    /\ r \in outbox[dgen]
    /\ outbox' = [outbox EXCEPT ![dgen] = IF conn /\ gen = dgen THEN @ \ {r} ELSE {}]
    /\ dframe' = r
    /\ dgen' = 0
    /\ heard' = (hpc = "wait")
    /\ dpc' = "resolve"
    /\ UNCHANGED <<daemonVars, server, up, inbox, connVars, ledger, recVars, cVars, hpc,
                   hgen, probed, clientVars, sent>>

\* The connection was closed here, or by the daemon after its last answer.
DaemonEOF ==
    /\ dpc = "read"
    /\ ~ conn \/ gen # dgen \/ (dgen \notin up /\ outbox[dgen] = {})
    /\ outbox' = [outbox EXCEPT ![dgen] = {}]
    /\ dpc' = "reconnect"
    /\ UNCHANGED <<daemonVars, server, up, inbox, connVars, ledger, recVars, cVars,
                   dframe, dgen, hVars, clientVars, sent>>

\* Mutant: the ledger keeps the request that was answered.
ResolveKeeps ==
    /\ dpc = "resolve"
    /\ raced' = raced \cup {r \in Calls : r = dframe /\ r = frame /\ cpc = "track"}
    /\ answered' = (answered \/ dframe = Hello)
    /\ dpc' = "forward"
    /\ UNCHANGED <<daemonVars, netVars, gen, conn, captured, pid, ledger, recVars, cVars,
                   dframe, dgen, hVars, asked, results, errors, sent>>

\* resolveResponse, which finds nothing of a request that is not yet recorded.
DaemonResolve ==
    /\ dpc = "resolve"
    /\ raced' = raced \cup {r \in Calls : r = dframe /\ r = frame /\ cpc = "track"}
    /\ answered' = (answered \/ dframe = Hello)
    /\ ledger' = [r \in Calls |-> IF r = dframe THEN 0 ELSE ledger[r]]
    /\ dpc' = "forward"
    /\ UNCHANGED <<daemonVars, netVars, gen, conn, captured, pid, recVars, cVars, dframe,
                   dgen, hVars, asked, results, errors, sent>>

DaemonForward ==
    /\ dpc = "forward"
    /\ results' = [results EXCEPT ![dframe] = @ + 1]
    /\ dframe' = None
    /\ dpc' = "loop"
    /\ UNCHANGED <<daemonVars, netVars, connVars, ledger, recVars, cVars, dgen, hVars,
                   asked, raced, errors, sent>>

-----------------------------------------------------------------------------
(* runHeartbeat and ping.                                                  *)

\* Mutant: the generation is read when the verdict falls, not before the ping.
CaptureLate ==
    /\ hpc = "wait"
    /\ ~ heard
    /\ gen < MaxGen /\ last < MaxPid
    /\ hgen' = gen
    /\ hpc' = "reconnect"
    /\ UNCHANGED <<daemonVars, netVars, connVars, ledger, recVars, cVars, dVars, heard,
                   probed, clientVars, sent>>

HeartCapture ==
    /\ hpc = "idle"
    /\ captured
    /\ hgen' = gen
    /\ hpc' = "ping"
    /\ UNCHANGED <<daemonVars, netVars, connVars, ledger, recVars, cVars, dVars, heard,
                   probed, clientVars, sent>>

\* Until the next tick.
Quiet == hpc' = "idle" /\ hgen' = 0 /\ heard' = FALSE /\ probed' = 0

\* A write that fails leaves the recovery to the pumps.
HeartPing ==
    /\ hpc = "ping"
    /\ IF Current
       THEN hpc' = "wait" /\ probed' = server[gen] /\ UNCHANGED <<hgen, heard>>
       ELSE Quiet
    /\ UNCHANGED <<daemonVars, netVars, connVars, ledger, recVars, cVars, dVars,
                   clientVars, sent>>

\* The pong, or any other frame, arrived in time.
HeartPong ==
    /\ hpc = "wait"
    /\ heard \/ (Current /\ ~ hung)
    /\ Quiet
    /\ UNCHANGED <<daemonVars, netVars, connVars, ledger, recVars, cVars, dVars,
                   clientVars, sent>>

\* Nothing arrived; the daemon hangs, or is only slow.
HeartTimeout ==
    /\ hpc = "wait"
    /\ ~ heard
    /\ gen < MaxGen /\ last < MaxPid
    /\ hpc' = "reconnect"
    /\ UNCHANGED <<daemonVars, netVars, connVars, ledger, recVars, cVars, dVars, hgen,
                   heard, probed, clientVars, sent>>

-----------------------------------------------------------------------------
(* reconnect, by the actor that holds reconnectMu.                         *)

Wants(a) == \/ a = "client" /\ cpc = "reconnect"
            \/ a = "daemon" /\ dpc = "reconnect"
            \/ a = "heart" /\ hpc = "reconnect"

\* The generation an actor saw fail.
FailedGen(a) == IF a = "client" THEN wgen ELSE IF a = "daemon" THEN dgen ELSE hgen

\* reconnect returns: the client pump writes its frame again.
Back(a) ==
    /\ IF a = "client" THEN cpc' = "write" /\ wgen' = 0 ELSE UNCHANGED <<cpc, wgen>>
    /\ IF a = "daemon" THEN dpc' = "loop" /\ dgen' = 0 ELSE UNCHANGED <<dpc, dgen>>
    /\ IF a = "heart" THEN Quiet ELSE UNCHANGED hVars
    /\ UNCHANGED <<frame, dframe>>

\* Somebody else has already reconnected past this generation.
ReconnectSkip(a) ==
    /\ owner = None /\ Wants(a)
    /\ gen # FailedGen(a)
    /\ Back(a)
    /\ UNCHANGED <<daemonVars, netVars, connVars, ledger, recVars, clientVars, sent>>

\* The heartbeat kills the daemon it knows the PID of; then closeCurrent, which
\* leaves the daemon pump what its reader has buffered.
ReconnectBegin(a) ==
    /\ owner = None /\ Wants(a)
    /\ gen = FailedGen(a)
    /\ owner' = a
    /\ stage' = "dial"
    /\ tries' = 0
    /\ conn' = FALSE
    /\ IF a = "heart" /\ alive /\ pid = last
       THEN alive' = FALSE /\ hung' = FALSE /\ up' = {}
       ELSE up' = up \ {gen} /\ UNCHANGED <<alive, hung>>
    /\ inbox' = [inbox EXCEPT ![gen] = {}]
    /\ outbox' = [outbox EXCEPT ![gen] = IF dpc = "read" /\ dgen = gen THEN @ ELSE {}]
    /\ UNCHANGED <<last, server, gen, captured, answered, pid, ledger, cVars, dVars,
                   hVars, clientVars, sent>>

\* dial finds the running daemon or starts one; a handshake that was captured is
\* written to it at once.
ReconnectDial ==
    LET g == gen + 1
        p == IF alive THEN last ELSE last + 1
    IN  /\ owner # None /\ stage = "dial"
        /\ gen < MaxGen /\ p <= MaxPid
        /\ last' = p /\ alive' = TRUE
        /\ server' = [server EXCEPT ![g] = p]
        /\ up' = up \cup {g}
        /\ inbox' = [inbox EXCEPT ![g] = IF captured THEN {Hello} ELSE {}]
        /\ sent' = [sent EXCEPT ![Hello] = IF captured THEN @ \cup {g} ELSE @]
        /\ stage' = IF captured THEN "await" ELSE "publish"
        /\ UNCHANGED <<hung, outbox, connVars, ledger, owner, tries, cVars, dVars,
                       hVars, clientVars>>

\* Mutant: nothing remembers that the fast phase is over.
FailAgain ==
    LET g == gen + 1
    IN  /\ owner # None
        /\ \/ stage = "dial"
           \/ stage = "await" /\ (Hello \notin outbox[g] \/ g \notin up)
           \/ stage = "publish" /\ captured /\ g \notin up
        /\ stage' = "dial"
        /\ tries' = tries + 1
        /\ IF tries >= MaxTry - 1
           THEN FailOutstandingBelow(gen + 1) ELSE UNCHANGED <<raced, ledger, errors>>
        /\ up' = up \ {g}
        /\ inbox' = [inbox EXCEPT ![g] = {}]
        /\ outbox' = [outbox EXCEPT ![g] = {}]
        /\ UNCHANGED <<daemonVars, server, connVars, owner, cVars, dVars, hVars, asked,
                       results, sent>>

\* The dial, the handshake or the initialized that follows it fails or times out.
\* At the end of the fast phase
\* every request in flight is failed, once.
ReconnectFail ==
    LET g == gen + 1
    IN  /\ owner # None
        /\ \/ stage = "dial"
           \/ stage = "await" /\ (Hello \notin outbox[g] \/ g \notin up)
           \/ stage = "publish" /\ captured /\ g \notin up
        /\ stage' = "dial"
        /\ tries' = IF tries < MaxTry THEN tries + 1 ELSE tries
        /\ IF tries = MaxTry - 1
           THEN FailOutstandingBelow(gen + 1) ELSE UNCHANGED <<raced, ledger, errors>>
        /\ up' = up \ {g}
        /\ inbox' = [inbox EXCEPT ![g] = {}]
        /\ outbox' = [outbox EXCEPT ![g] = {}]
        /\ UNCHANGED <<daemonVars, server, connVars, owner, cVars, dVars, hVars, asked,
                       results, sent>>

\* consumeInitializeResponse swallows the answer of a client that has its own.
ReconnectAwait ==
    LET g == gen + 1
    IN  /\ owner # None /\ stage = "await"
        /\ Hello \in outbox[g]
        /\ outbox' = [outbox EXCEPT ![g] = @ \ {Hello}]
        /\ results' = [results EXCEPT ![Hello] = IF answered THEN @ ELSE @ + 1]
        /\ answered' = TRUE
        /\ raced' = IF ~ answered /\ OnItsWay(Hello) THEN raced \cup {Hello} ELSE raced
        /\ stage' = "publish"
        /\ UNCHANGED <<daemonVars, server, up, inbox, gen, conn, captured, pid, ledger,
                       owner, tries, cVars, dVars, hVars, asked, errors, sent>>

ReconnectPublish ==
    /\ owner # None /\ stage = "publish"
    /\ gen' = gen + 1
    /\ conn' = TRUE
    /\ stage' = "sweep"
    /\ UNCHANGED <<daemonVars, netVars, captured, answered, pid, ledger, owner, tries,
                   cVars, dVars, hVars, clientVars, sent>>

\* Mutant: the sweep does not spare the requests of the new connection.
SweepAll ==
    /\ owner # None /\ stage = "sweep"
    /\ FailOutstandingBelow(gen + 1)
    /\ stage' = "settle"
    /\ UNCHANGED <<daemonVars, netVars, connVars, owner, tries, cVars, dVars, hVars,
                   asked, results, sent>>

ReconnectSweep ==
    /\ owner # None /\ stage = "sweep"
    /\ FailOutstandingBelow(gen)
    /\ stage' = "settle"
    /\ UNCHANGED <<daemonVars, netVars, connVars, owner, tries, cVars, dVars, hVars,
                   asked, results, sent>>

\* The PID file names the daemon that was started last.
ReconnectSettle ==
    /\ owner # None /\ stage = "settle"
    /\ pid' = last
    /\ owner' = None /\ stage' = "dial" /\ tries' = 0
    /\ Back(owner)
    /\ UNCHANGED <<daemonVars, netVars, gen, conn, captured, answered, ledger, clientVars,
                   sent>>

-----------------------------------------------------------------------------
(* The daemon, and whatever happens to it.                                 *)

Answer(r, g) ==
    /\ r \in inbox[g]
    /\ g \in up /\ ~ hung
    /\ inbox' = [inbox EXCEPT ![g] = @ \ {r}]
    /\ outbox' = [outbox EXCEPT ![g] = @ \cup {r}]
    /\ UNCHANGED <<daemonVars, server, up, connVars, ledger, recVars, cVars, dVars, hVars,
                   clientVars, sent>>

\* There is a generation left for the reconnect this causes.
Room == gen + (IF owner = None THEN 0 ELSE 1) < MaxGen

Crash ==
    /\ alive /\ Room /\ last < MaxPid
    /\ "latePid" \in Races \/ owner = None \/ stage \in {"dial", "await"}
    /\ alive' = FALSE /\ hung' = FALSE
    /\ up' = {}
    /\ inbox' = [g \in Gens |-> {}]
    /\ UNCHANGED <<last, server, outbox, connVars, ledger, recVars, cVars, dVars, hVars,
                   clientVars, sent>>

\* The daemon evicts an idle connection.
Drop ==
    /\ Current /\ ~ hung /\ Room
    /\ up' = up \ {gen}
    /\ inbox' = [inbox EXCEPT ![gen] = {}]
    /\ UNCHANGED <<daemonVars, server, outbox, connVars, ledger, recVars, cVars, dVars,
                   hVars, clientVars, sent>>

Hang ==
    /\ alive /\ ~ hung /\ Room /\ last < MaxPid
    /\ "hungDial" \in Races \/ (Current /\ owner = None /\ \A a \in Actors : ~ Wants(a))
    /\ hung' = TRUE
    /\ UNCHANGED <<last, alive, netVars, connVars, ledger, recVars, cVars, dVars, hVars,
                   clientVars, sent>>

\* Another client's proxy starts the daemon again.
Spawn ==
    /\ ~ alive /\ last < MaxPid
    /\ last' = last + 1 /\ alive' = TRUE
    /\ UNCHANGED <<hung, netVars, connVars, ledger, recVars, cVars, dVars, hVars,
                   clientVars, sent>>

-----------------------------------------------------------------------------
ClientPump == ClientWrite \/ ClientTrack \/ ClientCheck
DaemonPump == DaemonLoop \/ (\E r \in Reqs : DaemonFrame(r)) \/ DaemonEOF
              \/ DaemonResolve \/ DaemonForward
Heartbeat  == HeartCapture \/ HeartPing \/ HeartPong \/ HeartTimeout
Enter(a)   == ReconnectSkip(a) \/ ReconnectBegin(a)
Reconnect  == ReconnectDial \/ ReconnectFail \/ ReconnectAwait \/ ReconnectPublish
              \/ ReconnectSweep \/ ReconnectSettle

Next ==
    \/ \E r \in Reqs : ClientRead(r)
    \/ ClientPump \/ DaemonPump \/ Heartbeat
    \/ \E a \in Actors : Enter(a)
    \/ Reconnect
    \/ \E r \in Reqs, g \in Gens : Answer(r, g)
    \/ Crash \/ Drop \/ Hang \/ Spawn

\* The goroutines run; a mutex goes round; a daemon that is dialled again and
\* again comes up, and answers.
Fairness ==
    /\ WF_vars(ClientPump) /\ WF_vars(DaemonPump) /\ WF_vars(Heartbeat)
    /\ SF_vars(\E a \in Actors : Enter(a))
    /\ SF_vars(ReconnectDial)
    /\ WF_vars(ReconnectAwait \/ ReconnectPublish \/ ReconnectSweep \/ ReconnectSettle)
    /\ WF_vars(stage = "await" /\ ReconnectFail)
    /\ SF_vars(\E r \in Reqs, g \in Gens : Answer(r, g))

Spec == Init /\ [][Next]_vars
FairSpec == Spec /\ Fairness

-----------------------------------------------------------------------------
(* Properties.                                                             *)

\* What the client receives for a request: answers of a daemon, and errors.
Received(r) == results[r] + IF r = Hello THEN 0 ELSE errors[r]

\* serve_proxy_outstanding.go:48: the client gets no second answer to a request,
\* neither from two daemons nor from a daemon and the sweep.  Three orders of the
\* goroutines are excepted: an answer that is handled before its request is in the
\* ledger; one on its way when its request is swept, or when a reconnect forwards
\* the answer of initialize; and an initialize written again that a reconnect has
\* replayed.
AnsweredOnceUnlessRaced == \A r \in Reqs \ raced : Received(r) <= 1

\* serve_proxy_outstanding.go:48: "the client gets exactly one response either way".
AnsweredOnce == \A r \in Calls : Received(r) <= 1

\* serve_proxy_outstanding.go:31: no write is replayed behind the client's back.
\* Once it was told that the outcome of a request is unconfirmed, no daemon
\* receives that request any more.
ErrorIsFinal == [][ \A r \in Calls : errors[r] > 0 => sent'[r] = sent[r] ]_vars

\* An error is synthesised only for a request whose connection was given up.
ErrorOnlyForDead ==
    [][ \A r \in Calls : errors'[r] > errors[r] => ~ conn \/ gen \notin sent[r] ]_vars

\* A request that reached a daemon is not forgotten: until the client has its
\* answer it is in the ledger, or on its way into it or out of it, and one of a
\* connection that was replaced is about to be swept.
NothingForgotten ==
    \A r \in Calls : sent[r] # {} /\ results[r] + errors[r] = 0 =>
        \/ ledger[r] = gen
        \/ ledger[r] > 0 /\ (owner # None \/ (cpc = "check" /\ frame = r))
        \/ cpc = "track" /\ frame = r
        \/ dpc = "forward" /\ dframe = r

\* serve_proxy_heartbeat.go:80: a verdict never kills another daemon than the one
\* that left the ping unanswered.
KillsOnlyProbed ==
    [][ ReconnectBegin("heart") /\ alive /\ pid = last => pid = probed ]_vars

\* Every request the client sent is answered in the end.
EveryRequestAnswered ==
    /\ (Hello \in asked) ~> (results[Hello] > 0)
    /\ \A r \in Calls : (r \in asked) ~> (results[r] + errors[r] > 0)
=============================================================================
