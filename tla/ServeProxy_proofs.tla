-------------------------- MODULE ServeProxy_proofs --------------------------
(***************************************************************************)
(* Proofs about ServeProxy, for every set of calls, every bound and every  *)
(* set of races.  The argument is one inductive invariant: a request       *)
(* is written to one connection only, it is recorded under the generation  *)
(* of that connection after the write, and whoever moves the generation on *)
(* sweeps what is older before it lets go of reconnectMu; what is recorded *)
(* later than that sweep is swept by the pump that recorded it.            *)
(***************************************************************************)
EXTENDS ServeProxy, TLAPS

\* The actor inside reconnect came from its own loop, the old connection is
\* closed until the new one is published, and there is a generation for it.
InsideReconnect ==
    owner # None =>
        /\ Wants(owner)
        /\ stage \in {"dial", "await", "publish"} => ~ conn
        /\ stage \in {"await", "publish"} => gen < MaxGen

\* A call that has not been written is unknown to daemons and to the ledger.
UnsentIsUnknown ==
    \A r \in Calls : r \notin asked \/ (frame = r /\ cpc \in {"write", "reconnect"}) =>
        sent[r] = {} /\ ledger[r] = 0 /\ errors[r] = 0

\* The frame in the client pump's hands, between its write and its record.
FrameInPump ==
    /\ cpc # "read" => frame \in asked
    /\ cpc \in {"track", "check"} => wgen \in 1..gen
    /\ cpc = "track" /\ frame \in Calls =>
           sent[frame] = {wgen} /\ ledger[frame] = 0 /\ errors[frame] = 0
    /\ cpc = "check" => frame \in Calls /\ ledger[frame] \in {0, wgen}

\* An entry of the ledger names the only connection its request was written to.
LedgerIsTrue ==
    \A r \in Calls : ledger[r] > 0 => sent[r] = {ledger[r]} /\ ledger[r] <= gen

\* After the sweep only a late record can be older than the connection.
SweptBeforeSettle ==
    owner # None /\ stage = "settle" =>
        \A r \in Calls : ledger[r] > 0 => ledger[r] = gen \/ (cpc = "check" /\ frame = r)

IInv ==
    /\ TypeOK
    /\ InsideReconnect
    /\ UnsentIsUnknown
    /\ FrameInPump
    /\ LedgerIsTrue
    /\ SweptBeforeSettle
    /\ NothingForgotten

-----------------------------------------------------------------------------
(* The initial state satisfies the invariant.                              *)
LEMMA InitInv == Init => IInv
<1> SUFFICES ASSUME Init PROVE IInv
  OBVIOUS
<1> USE BoundsAssumption DEF Init
<1>1. 1 \in Gens /\ Gens = 1..MaxGen /\ Gens \subseteq Nat
  BY DEF Gens
<1>2. server \in [Gens -> 0..MaxPid]
  BY <1>1
<1>3. inbox \in [Gens -> SUBSET Reqs] /\ outbox \in [Gens -> SUBSET Reqs]
  OBVIOUS
<1>4. sent \in [Reqs -> SUBSET Gens] /\ results \in [Reqs -> Nat]
  OBVIOUS
<1>5. ledger \in [Calls -> 0..MaxGen] /\ errors \in [Calls -> Nat]
  OBVIOUS
<1>a. /\ alive \in BOOLEAN /\ hung \in BOOLEAN /\ conn \in BOOLEAN
      /\ captured \in BOOLEAN /\ answered \in BOOLEAN /\ heard \in BOOLEAN
  BY Zenon
<1>b. last \in 1..MaxPid /\ pid \in 1..MaxPid
  OBVIOUS
<1>c. /\ tries \in 0..MaxTry /\ wgen \in 0..MaxGen /\ dgen \in 0..MaxGen
      /\ hgen \in 0..MaxGen /\ probed \in 0..MaxPid
  OBVIOUS
<1>d. up \in SUBSET Gens /\ gen \in Gens /\ asked \in SUBSET Reqs /\ raced \in SUBSET Reqs
  BY <1>1
<1>7. TypeOK
  BY <1>1, <1>2, <1>3, <1>4, <1>5, <1>a, <1>b, <1>c, <1>d DEF TypeOK
<1>8. \A r \in Calls : sent[r] = {} /\ ledger[r] = 0 /\ errors[r] = 0
  BY DEF Reqs
<1>9. UnsentIsUnknown
  BY <1>8 DEF UnsentIsUnknown
<1>10. LedgerIsTrue
  BY <1>8 DEF LedgerIsTrue
<1>11. NothingForgotten
  BY <1>8 DEF NothingForgotten
<1> QED
  BY <1>7, <1>9, <1>10, <1>11 DEF IInv, InsideReconnect, FrameInPump, SweptBeforeSettle

-----------------------------------------------------------------------------
(* Every variable keeps its type in every step.  The frame in the pump's    *)
(* hands and the room for the generation come from the invariant.          *)
LEMMA NextType == IInv /\ [Next]_vars => TypeOK'
<1> SUFFICES ASSUME IInv, [Next]_vars PROVE TypeOK'
  OBVIOUS
<1> USE BoundsAssumption DEF daemonVars, netVars, connVars, recVars, cVars, dVars, hVars,
        clientVars
<1>0. TypeOK /\ InsideReconnect /\ FrameInPump
  BY DEF IInv
<1>a. Gens \subseteq Nat /\ Gens = 1..MaxGen
  BY DEF Gens
<1>b. FailOutstandingBelow(gen) \/ FailOutstandingBelow(gen + 1) =>
        /\ ledger' \in [Calls -> 0..MaxGen] /\ errors' \in [Calls -> Nat]
        /\ raced' \in SUBSET Reqs
  <2>1. ASSUME NEW n \in Nat, FailOutstandingBelow(n)
        PROVE  raced' \in SUBSET Reqs
    BY <1>0, <2>1 DEF FailOutstandingBelow, Swept, TypeOK, Reqs
  <2>2. FailOutstandingBelow(gen) \/ FailOutstandingBelow(gen + 1) =>
          ledger' \in [Calls -> 0..MaxGen] /\ errors' \in [Calls -> Nat]
    BY <1>0 DEF FailOutstandingBelow, TypeOK
  <2>3. gen \in Nat /\ gen + 1 \in Nat
    BY <1>0, <1>a DEF TypeOK
  <2> QED
    BY <2>1, <2>2, <2>3
<1> USE <1>0, <1>a DEF TypeOK
<1>1. ASSUME NEW r \in Reqs, ClientRead(r) PROVE TypeOK'
  BY <1>1, SMTT(20) DEF ClientRead
<1>2. ASSUME ClientWrite PROVE TypeOK'
  <2>1. frame \in Reqs
    BY <1>2 DEF ClientWrite, FrameInPump
  <2>2. inbox' \in [Gens -> SUBSET Reqs] /\ sent' \in [Reqs -> SUBSET Gens]
    <3>1. CASE Current
      <4>1. /\ inbox' = [inbox EXCEPT ![gen] = @ \cup {frame}]
            /\ sent' = [sent EXCEPT ![frame] = @ \cup {gen}]
        BY <1>2, <3>1 DEF ClientWrite
      <4> QED
        BY <4>1, <2>1
    <3>2. CASE ~ Current
      BY <1>2, <3>2 DEF ClientWrite
    <3> QED
      BY <3>1, <3>2
  <2>3. wgen' \in 0..MaxGen /\ raced' \in SUBSET Reqs
    BY <1>2, SMTT(20) DEF ClientWrite, Reqs
  <2>4. cpc' \in {"track", "reconnect"}
    BY <1>2 DEF ClientWrite
  <2>5. UNCHANGED <<daemonVars, server, up, outbox, connVars, ledger, recVars, frame,
                    dVars, hVars, asked, results, errors>>
    BY <1>2 DEF ClientWrite
  <2> QED
    BY <2>2, <2>3, <2>4, <2>5, SMTT(20)
<1>3. ASSUME ClientTrack PROVE TypeOK'
  <2>1. ledger' \in [Calls -> 0..MaxGen]
    BY <1>3 DEF ClientTrack, FrameInPump
  <2>2. cpc' \in {"read", "check"} /\ frame' \in {None, frame} /\ wgen' \in {0, wgen}
    BY <1>3 DEF ClientTrack, Idle
  <2>3. UNCHANGED <<daemonVars, netVars, connVars, recVars, dVars, hVars, clientVars, sent>>
    BY <1>3 DEF ClientTrack, Idle
  <2> QED
    BY <2>1, <2>2, <2>3
<1>4. ASSUME ClientCheck PROVE TypeOK'
  <2>1. /\ ledger' \in [Calls -> 0..MaxGen] /\ errors' \in [Calls -> Nat]
        /\ raced' \in SUBSET Reqs
    BY <1>4, <1>b DEF ClientCheck
  <2>2. /\ cpc' = "read" /\ frame' = None /\ wgen' = 0
        /\ UNCHANGED <<daemonVars, netVars, connVars, recVars, dVars, hVars, asked, results,
                       sent>>
    BY <1>4 DEF ClientCheck, Idle
  <2> QED
    BY <2>1, <2>2
<1>5. ASSUME DaemonLoop PROVE TypeOK'
  BY <1>5 DEF DaemonLoop
<1>6. ASSUME NEW r \in Reqs, DaemonFrame(r) PROVE TypeOK'
  <2>1. outbox' \in [Gens -> SUBSET Reqs]
    BY <1>6 DEF DaemonFrame
  <2>2. heard' \in BOOLEAN
    BY <1>6, Zenon DEF DaemonFrame
  <2>3. /\ dframe' = r /\ dgen' = 0 /\ dpc' = "resolve"
        /\ UNCHANGED <<daemonVars, server, up, inbox, connVars, ledger, recVars, cVars, hpc,
                       hgen, probed, clientVars, sent>>
    BY <1>6 DEF DaemonFrame
  <2> QED
    BY <2>1, <2>2, <2>3
<1>7. ASSUME DaemonEOF PROVE TypeOK'
  <2>1. outbox' \in [Gens -> SUBSET Reqs]
    BY <1>7 DEF DaemonEOF
  <2>2. /\ dpc' = "reconnect"
        /\ UNCHANGED <<daemonVars, server, up, inbox, connVars, ledger, recVars, cVars, dframe,
                       dgen, hVars, clientVars, sent>>
    BY <1>7 DEF DaemonEOF
  <2> QED
    BY <2>1, <2>2
<1>8. ASSUME DaemonResolve PROVE TypeOK'
  <2>1. ledger' \in [Calls -> 0..MaxGen] /\ raced' \in SUBSET Reqs
    BY <1>8 DEF DaemonResolve, Reqs
  <2>2. answered' \in BOOLEAN
    BY <1>8, Zenon DEF DaemonResolve
  <2>3. /\ dpc' = "forward"
        /\ UNCHANGED <<daemonVars, netVars, gen, conn, captured, pid, recVars, cVars, dframe,
                       dgen, hVars, asked, results, errors, sent>>
    BY <1>8 DEF DaemonResolve
  <2> QED
    BY <2>1, <2>2, <2>3
<1>9. ASSUME DaemonForward PROVE TypeOK'
  <2>1. results' = [r \in Reqs |-> IF r = dframe THEN results[r] + 1 ELSE results[r]]
    BY <1>9 DEF DaemonForward
  <2>2. results' \in [Reqs -> Nat]
    BY <2>1
  <2>3. /\ dframe' = None /\ dpc' = "loop"
        /\ UNCHANGED <<daemonVars, netVars, connVars, ledger, recVars, cVars, dgen, hVars,
                       asked, raced, errors, sent>>
    BY <1>9 DEF DaemonForward
  <2> QED
    BY <2>2, <2>3, SMTT(20)
<1>10. ASSUME HeartCapture PROVE TypeOK'
  BY <1>10 DEF HeartCapture
<1>11. ASSUME HeartPing PROVE TypeOK'
  <2>1. probed' \in 0..MaxPid /\ hpc' \in {"idle", "wait"}
    BY <1>11 DEF HeartPing, Quiet
  <2>2. heard' \in BOOLEAN /\ hgen' \in {0, hgen}
    BY <1>11, Zenon DEF HeartPing, Quiet
  <2>3. UNCHANGED <<daemonVars, netVars, connVars, ledger, recVars, cVars, dVars, clientVars,
                    sent>>
    BY <1>11 DEF HeartPing
  <2> QED
    BY <2>1, <2>2, <2>3
<1>12. ASSUME HeartPong PROVE TypeOK'
  <2>1. heard' \in BOOLEAN
    BY <1>12, Zenon DEF HeartPong, Quiet
  <2>2. /\ hpc' = "idle" /\ hgen' = 0 /\ probed' = 0
        /\ UNCHANGED <<daemonVars, netVars, connVars, ledger, recVars, cVars, dVars,
                       clientVars, sent>>
    BY <1>12 DEF HeartPong, Quiet
  <2> QED
    BY <2>1, <2>2
<1>13. ASSUME HeartTimeout PROVE TypeOK'
  BY <1>13 DEF HeartTimeout
<1>c. ASSUME NEW a \in Actors, Back(a)
      PROVE  /\ cpc' \in {"read", "write", "track", "check", "reconnect"}
             /\ frame' \in Reqs \cup {None} /\ wgen' \in 0..MaxGen
             /\ dpc' \in {"loop", "read", "resolve", "forward", "reconnect"}
             /\ dframe' \in Reqs \cup {None} /\ dgen' \in 0..MaxGen
             /\ hpc' \in {"idle", "ping", "wait", "reconnect"}
             /\ hgen' \in 0..MaxGen /\ heard' \in BOOLEAN /\ probed' \in 0..MaxPid
  <2>1. heard' \in BOOLEAN
    BY <1>c, Zenon DEF Back, Quiet
  <2>2. /\ cpc' \in {cpc, "write"} /\ wgen' \in {0, wgen} /\ frame' = frame
        /\ dpc' \in {dpc, "loop"} /\ dgen' \in {0, dgen} /\ dframe' = dframe
    BY <1>c DEF Back
  <2>3. hpc' \in {hpc, "idle"} /\ hgen' \in {0, hgen} /\ probed' \in {0, probed}
    BY <1>c DEF Back, Quiet
  <2>4. 0 \in 0..MaxGen /\ 0 \in 0..MaxPid
    OBVIOUS
  <2> QED
    BY <2>1, <2>2, <2>3, <2>4
<1>14. ASSUME NEW a \in Actors, ReconnectSkip(a) PROVE TypeOK'
  <2>1. Back(a)
    BY <1>14 DEF ReconnectSkip
  <2>2. UNCHANGED <<daemonVars, netVars, connVars, ledger, recVars, clientVars, sent>>
    BY <1>14 DEF ReconnectSkip
  <2> QED
    BY <2>1, <2>2, <1>c
<1>15. ASSUME NEW a \in Actors, ReconnectBegin(a) PROVE TypeOK'
  <2>1. inbox' \in [Gens -> SUBSET Reqs] /\ outbox' \in [Gens -> SUBSET Reqs]
    BY <1>15 DEF ReconnectBegin
  <2>2. up' \in SUBSET Gens /\ alive' \in BOOLEAN /\ hung' \in BOOLEAN
    BY <1>15 DEF ReconnectBegin
  <2>3. conn' \in BOOLEAN
    BY <1>15, Zenon DEF ReconnectBegin
  <2>4. UNCHANGED <<last, server, gen, captured, answered, pid, ledger, cVars, dVars,
                    hVars, clientVars, sent>>
    BY <1>15 DEF ReconnectBegin
  <2>5. owner' = a /\ stage' = "dial" /\ tries' = 0
    BY <1>15 DEF ReconnectBegin
  <2> QED
    BY <2>1, <2>2, <2>3, <2>4, <2>5
<1>16. ASSUME ReconnectDial PROVE TypeOK'
  <2>1. gen + 1 \in Gens /\ last' \in 1..MaxPid
    BY <1>16 DEF ReconnectDial
  <2>2. server' \in [Gens -> 0..MaxPid] /\ up' \in SUBSET Gens
    BY <1>16, <2>1 DEF ReconnectDial
  <2>3. inbox' \in [Gens -> SUBSET Reqs]
    BY <1>16, <2>1 DEF ReconnectDial, Reqs
  <2>4. sent' \in [Reqs -> SUBSET Gens]
    BY <1>16, <2>1 DEF ReconnectDial, Reqs
  <2>5. stage' \in {"await", "publish"}
    BY <1>16 DEF ReconnectDial
  <2>6. alive' \in BOOLEAN
    BY <1>16, Zenon DEF ReconnectDial
  <2>7. UNCHANGED <<hung, outbox, connVars, ledger, owner, tries, cVars, dVars, hVars,
                    clientVars>>
    BY <1>16 DEF ReconnectDial
  <2> QED
    BY <2>1, <2>2, <2>3, <2>4, <2>5, <2>6, <2>7, SMTT(30)
<1>17. ASSUME ReconnectFail PROVE TypeOK'
  <2>1. inbox' \in [Gens -> SUBSET Reqs] /\ outbox' \in [Gens -> SUBSET Reqs]
    BY <1>17 DEF ReconnectFail
  <2>2. /\ ledger' \in [Calls -> 0..MaxGen] /\ errors' \in [Calls -> Nat]
        /\ raced' \in SUBSET Reqs
    BY <1>17, <1>b DEF ReconnectFail
  <2>3. up' \in SUBSET Gens /\ tries' \in 0..MaxTry
    BY <1>17 DEF ReconnectFail
  <2>4. stage' = "dial" /\ UNCHANGED <<daemonVars, server, connVars, owner, cVars, dVars,
                                       hVars, asked, results, sent>>
    BY <1>17 DEF ReconnectFail
  <2> QED
    BY <2>1, <2>2, <2>3, <2>4
<1>18. ASSUME ReconnectAwait PROVE TypeOK'
  <2>1. outbox' \in [Gens -> SUBSET Reqs]
    BY <1>18 DEF ReconnectAwait
  <2>2. \/ UNCHANGED results
        \/ results' = [r \in Reqs |-> IF r = Hello THEN results[r] + 1 ELSE results[r]]
    BY <1>18 DEF ReconnectAwait
  <2>3. results' \in [Reqs -> Nat]
    <3>1. results \in [Reqs -> Nat]
      OBVIOUS
    <3> QED
      BY ONLY <2>2, <3>1
  <2>4. answered' = TRUE /\ stage' = "publish" /\ raced' \in SUBSET Reqs
    BY <1>18 DEF ReconnectAwait, Reqs
  <2>5. UNCHANGED <<daemonVars, server, up, inbox, gen, conn, captured, pid, ledger,
                    owner, tries, cVars, dVars, hVars, asked, errors, sent>>
    BY <1>18 DEF ReconnectAwait
  <2> QED
    BY <2>1, <2>3, <2>4, <2>5
<1>19. ASSUME ReconnectPublish PROVE TypeOK'
  BY <1>19 DEF ReconnectPublish, InsideReconnect
<1>20. ASSUME ReconnectSweep PROVE TypeOK'
  <2>1. /\ ledger' \in [Calls -> 0..MaxGen] /\ errors' \in [Calls -> Nat]
        /\ raced' \in SUBSET Reqs
    BY <1>20, <1>b DEF ReconnectSweep
  <2>2. /\ stage' = "settle"
        /\ UNCHANGED <<daemonVars, netVars, connVars, owner, tries, cVars, dVars, hVars, asked,
                       results, sent>>
    BY <1>20 DEF ReconnectSweep
  <2> QED
    BY <2>1, <2>2
<1>21. ASSUME ReconnectSettle PROVE TypeOK'
  <2>1. owner \in Actors /\ Back(owner)
    BY <1>21 DEF ReconnectSettle
  <2>2. /\ pid' = last /\ owner' = None /\ stage' = "dial" /\ tries' = 0
        /\ UNCHANGED <<daemonVars, netVars, gen, conn, captured, answered, ledger, clientVars,
                       sent>>
    BY <1>21 DEF ReconnectSettle
  <2> QED
    BY <2>1, <2>2, <1>c, SMTT(20)
<1>22. ASSUME NEW r \in Reqs, NEW g \in Gens, Answer(r, g) PROVE TypeOK'
  <2>1. inbox' \in [Gens -> SUBSET Reqs] /\ outbox' \in [Gens -> SUBSET Reqs]
    BY <1>22 DEF Answer
  <2>2. UNCHANGED <<daemonVars, server, up, connVars, ledger, recVars, cVars, dVars, hVars,
                    clientVars, sent>>
    BY <1>22 DEF Answer
  <2> QED
    BY <2>1, <2>2
<1>23. ASSUME Crash \/ Drop \/ Hang \/ Spawn PROVE TypeOK'
  <2>1. CASE Crash
    <3>1. inbox' \in [Gens -> SUBSET Reqs] /\ up' \in SUBSET Gens
      BY <2>1 DEF Crash
    <3>2. alive' \in BOOLEAN /\ hung' \in BOOLEAN
      BY <2>1, Zenon DEF Crash
    <3>3. UNCHANGED <<last, server, outbox, connVars, ledger, recVars, cVars, dVars,
                      hVars, clientVars, sent>>
      BY <2>1 DEF Crash
    <3> QED
      BY <3>1, <3>2, <3>3
  <2>2. CASE Drop
    BY <2>2 DEF Drop
  <2>3. CASE Hang
    BY <2>3 DEF Hang
  <2>4. CASE Spawn
    BY <2>4 DEF Spawn
  <2> QED
    BY <1>23, <2>1, <2>2, <2>3, <2>4
<1>24. ASSUME UNCHANGED vars PROVE TypeOK'
  BY <1>24 DEF vars
<1> QED
  BY <1>1, <1>2, <1>3, <1>4, <1>5, <1>6, <1>7, <1>8, <1>9, <1>10, <1>11, <1>12,
     <1>13, <1>14, <1>15, <1>16, <1>17, <1>18, <1>19, <1>20, <1>21, <1>22, <1>23, <1>24
     DEF Next, ClientPump, DaemonPump, Heartbeat, Enter, Reconnect

-----------------------------------------------------------------------------
(* What the steps do to the ledger, to the errors and to where a request    *)
(* was written, request by request.                                        *)
LEMMA SweepEffect ==
  ASSUME TypeOK, NEW n \in Nat, FailOutstandingBelow(n)
  PROVE  \A r \in Calls :
            IF ledger[r] > 0 /\ ledger[r] < n
            THEN ledger'[r] = 0 /\ errors'[r] = errors[r] + 1
            ELSE ledger'[r] = ledger[r] /\ errors'[r] = errors[r]
  BY DEF TypeOK, FailOutstandingBelow, Swept

(* A write records where the frame went, a failed one nothing.              *)
LEMMA WriteEffect ==
  ASSUME IInv, ClientWrite
  PROVE  /\ frame \in Reqs /\ cpc = "write" /\ wgen' = gen
         /\ UNCHANGED <<gen, conn, ledger, owner, stage, frame, asked, results, errors, dpc,
                       dframe>>
         /\ \/ cpc' = "reconnect" /\ UNCHANGED sent
            \/ /\ cpc' = "track"
               /\ \A r \in Reqs : sent'[r] = IF r = frame THEN sent[r] \cup {gen} ELSE sent[r]
<1> USE DEF IInv, TypeOK
<1>1. frame \in Reqs
  BY DEF FrameInPump, ClientWrite
<1>2. /\ cpc = "write" /\ wgen' = gen
      /\ UNCHANGED <<gen, conn, ledger, owner, stage, frame, asked, results, errors, dpc,
                    dframe>>
  BY DEF ClientWrite, connVars, dVars, recVars
<1>3. CASE Current
  <2>1. cpc' = "track" /\ sent' = [sent EXCEPT ![frame] = @ \cup {gen}]
    BY <1>3 DEF ClientWrite
  <2> QED
    BY <1>1, <1>2, <2>1
<1>4. CASE ~ Current
  BY <1>1, <1>2, <1>4 DEF ClientWrite
<1> QED
  BY <1>3, <1>4

(* Handling an answer settles the request it answers and no other.          *)
LEMMA ForwardEffect ==
  ASSUME TypeOK, DaemonForward
  PROVE  \A r \in Reqs : results'[r] = IF r = dframe THEN results[r] + 1 ELSE results[r]
<1>1. results' = [results EXCEPT ![dframe] = @ + 1]
  BY DEF DaemonForward
<1> QED
  BY <1>1 DEF TypeOK

(* A dial replays the captured initialize, which it writes once.            *)
LEMMA DialEffect ==
  ASSUME TypeOK, ReconnectDial
  PROVE  \A r \in Calls : sent'[r] = sent[r]
<1>1. sent' = [sent EXCEPT ![Hello] = IF captured THEN @ \cup {gen + 1} ELSE @]
  BY DEF ReconnectDial
<1>2. \A r \in Calls : r # Hello /\ r \in Reqs
  BY BoundsAssumption DEF Reqs
<1> QED
  BY <1>1, <1>2 DEF TypeOK

(* Waiting for the handshake's answer settles only initialize.              *)
LEMMA AwaitEffect ==
  ASSUME TypeOK, ReconnectAwait
  PROVE  \A r \in Calls : results'[r] = results[r]
<1>1. results' = [results EXCEPT ![Hello] = IF answered THEN @ ELSE @ + 1]
  BY DEF ReconnectAwait
<1>2. \A r \in Calls : r # Hello /\ r \in Reqs
  BY BoundsAssumption DEF Reqs
<1> QED
  BY <1>1, <1>2 DEF TypeOK

\* What the invariant speaks of, and the steps that leave it alone.
coreVars == <<gen, conn, ledger, owner, stage, cpc, frame, wgen, asked, sent, results,
              errors>>

Apart ==
    \/ DaemonLoop \/ (\E r \in Reqs : DaemonFrame(r)) \/ DaemonEOF
    \/ Heartbeat
    \/ \E r \in Reqs, g \in Gens : Answer(r, g)
    \/ Crash \/ Drop \/ Hang \/ Spawn
    \/ UNCHANGED vars

(* The daemon, the heartbeat and the reads of the daemon pump leave alone   *)
(* the ledger, the client pump and the reconnect; none of them ends an      *)
(* actor's wait for reconnectMu or a forward of the daemon pump.            *)
LEMMA ApartEffect ==
  ASSUME TypeOK, Apart
  PROVE  /\ UNCHANGED coreVars
         /\ \A a \in Actors : Wants(a) => Wants(a)'
         /\ dpc = "forward" => UNCHANGED <<dpc, dframe>>
<1> USE DEF daemonVars, netVars, connVars, recVars, cVars, dVars, hVars, clientVars,
        coreVars, Wants
<1>1. CASE DaemonLoop
  BY <1>1 DEF DaemonLoop
<1>2. ASSUME NEW r \in Reqs, DaemonFrame(r)
      PROVE  /\ UNCHANGED coreVars
             /\ \A a \in Actors : Wants(a) => Wants(a)'
             /\ dpc = "forward" => UNCHANGED <<dpc, dframe>>
  BY <1>2 DEF DaemonFrame
<1>3. CASE DaemonEOF
  BY <1>3 DEF DaemonEOF
<1>4. CASE HeartCapture
  BY <1>4 DEF HeartCapture
<1>5. CASE HeartPing
  BY <1>5 DEF HeartPing, Quiet
<1>6. CASE HeartPong
  BY <1>6 DEF HeartPong, Quiet
<1>7. CASE HeartTimeout
  BY <1>7 DEF HeartTimeout
<1>8. ASSUME NEW r \in Reqs, NEW g \in Gens, Answer(r, g)
      PROVE  /\ UNCHANGED coreVars
             /\ \A a \in Actors : Wants(a) => Wants(a)'
             /\ dpc = "forward" => UNCHANGED <<dpc, dframe>>
  BY <1>8 DEF Answer
<1>9. CASE Crash
  BY <1>9 DEF Crash
<1>10. CASE Drop
  BY <1>10 DEF Drop
<1>11. CASE Hang
  BY <1>11 DEF Hang
<1>12. CASE Spawn
  BY <1>12 DEF Spawn
<1>13. CASE UNCHANGED vars
  BY <1>13 DEF vars
<1> QED
  BY <1>1, <1>2, <1>3, <1>4, <1>5, <1>6, <1>7, <1>8, <1>9, <1>10, <1>11, <1>12, <1>13
     DEF Apart, Heartbeat

-----------------------------------------------------------------------------
(* Reconnect keeps its shape: its actor waits where it came in, and the old *)
(* connection stays closed until the new one is published.                  *)
LEMMA NextInside == IInv /\ [Next]_vars => InsideReconnect'
<1> SUFFICES ASSUME IInv, [Next]_vars PROVE InsideReconnect'
  OBVIOUS
<1> USE BoundsAssumption DEF InsideReconnect, Wants, connVars, recVars, cVars, dVars, hVars,
        Actors
<1>0. TypeOK /\ InsideReconnect
  BY DEF IInv
<1>a. owner \in Actors \cup {None} /\ None \notin Actors
  BY <1>0 DEF TypeOK
<1> USE <1>0, <1>a
<1>1. ASSUME NEW r \in Reqs, ClientRead(r) PROVE InsideReconnect'
  BY <1>1 DEF ClientRead
<1>2. ASSUME ClientWrite PROVE InsideReconnect'
  BY <1>2 DEF ClientWrite
<1>3. ASSUME ClientTrack PROVE InsideReconnect'
  BY <1>3 DEF ClientTrack, Idle
<1>4. ASSUME ClientCheck PROVE InsideReconnect'
  BY <1>4 DEF ClientCheck, Idle
<1>5. ASSUME DaemonResolve PROVE InsideReconnect'
  BY <1>5 DEF DaemonResolve
<1>6. ASSUME DaemonForward PROVE InsideReconnect'
  BY <1>6 DEF DaemonForward
<1>7. ASSUME NEW a \in Actors, ReconnectSkip(a) PROVE InsideReconnect'
  BY <1>7 DEF ReconnectSkip
<1>8. ASSUME NEW a \in Actors, ReconnectBegin(a) PROVE InsideReconnect'
  BY <1>8 DEF ReconnectBegin
<1>9. ASSUME ReconnectDial PROVE InsideReconnect'
  BY <1>9 DEF ReconnectDial
<1>10. ASSUME ReconnectFail PROVE InsideReconnect'
  BY <1>10 DEF ReconnectFail
<1>11. ASSUME ReconnectAwait PROVE InsideReconnect'
  BY <1>11 DEF ReconnectAwait
<1>12. ASSUME ReconnectPublish PROVE InsideReconnect'
  BY <1>12 DEF ReconnectPublish
<1>13. ASSUME ReconnectSweep PROVE InsideReconnect'
  BY <1>13 DEF ReconnectSweep
<1>14. ASSUME ReconnectSettle PROVE InsideReconnect'
  BY <1>14 DEF ReconnectSettle
<1>15. ASSUME Apart PROVE InsideReconnect'
  BY <1>15, ApartEffect DEF coreVars
<1> QED
  BY <1>1, <1>2, <1>3, <1>4, <1>5, <1>6, <1>7, <1>8, <1>9, <1>10, <1>11, <1>12,
     <1>13, <1>14, <1>15
     DEF Next, ClientPump, DaemonPump, Enter, Reconnect, Apart

-----------------------------------------------------------------------------
(* Nobody writes, records or fails a call before the client pump has        *)
(* written it.                                                              *)
LEMMA NextUnsent == IInv /\ [Next]_vars => UnsentIsUnknown'
<1> SUFFICES ASSUME IInv, [Next]_vars PROVE UnsentIsUnknown'
  OBVIOUS
<1> USE BoundsAssumption DEF UnsentIsUnknown, Wants, connVars, recVars, cVars, dVars, hVars, clientVars
<1>0. TypeOK /\ InsideReconnect /\ UnsentIsUnknown /\ FrameInPump
  BY DEF IInv
<1>a. /\ gen \in Nat \ {0} /\ wgen \in Nat
      /\ frame \in Reqs \cup {None} /\ asked \subseteq Reqs
      /\ Calls \subseteq Reqs /\ Hello \notin Calls /\ None \notin Reqs /\ None \notin Actors
      /\ Reqs = Calls \cup {Hello}
      /\ \A r \in Calls : ledger[r] \in Nat /\ errors[r] \in Nat /\ results[r] \in Nat
  BY <1>0 DEF TypeOK, Gens, Reqs
<1> USE <1>0, <1>a
<1>1. ASSUME NEW x \in Reqs, ClientRead(x) PROVE UnsentIsUnknown'
  BY <1>1 DEF ClientRead
<1>2. ASSUME ClientWrite PROVE UnsentIsUnknown'
  <2>1. frame \in asked /\ asked' = asked /\ frame' = frame
    BY <1>2, WriteEffect DEF FrameInPump
  <2>2. /\ UNCHANGED <<ledger, errors>>
        /\ (cpc' = "reconnect" /\ UNCHANGED sent) \/ cpc' = "track"
        /\ \A r \in Calls : r # frame => sent'[r] = sent[r]
    BY <1>2, WriteEffect
  <2> QED
    BY <1>2, <2>1, <2>2, WriteEffect
<1>3. ASSUME ClientTrack PROVE UnsentIsUnknown'
  <2>1. \A r \in Calls : ledger'[r] = IF r = frame THEN wgen ELSE ledger[r]
    BY <1>3 DEF ClientTrack, Idle
  <2>2. /\ cpc = "track"
        /\ IF frame = Hello THEN cpc' = "read" ELSE cpc' = "check" /\ UNCHANGED <<frame, wgen>>
        /\ UNCHANGED <<gen, owner, stage, dpc, dframe, asked, results, errors, sent>>
    BY <1>3 DEF ClientTrack, Idle
  <2> QED
    BY <2>1, <2>2 DEF FrameInPump
<1>4. ASSUME ClientCheck PROVE UnsentIsUnknown'
  BY <1>4, SweepEffect DEF ClientCheck, Idle
<1>5. ASSUME DaemonResolve PROVE UnsentIsUnknown'
  BY <1>5 DEF DaemonResolve
<1>6. ASSUME DaemonForward PROVE UnsentIsUnknown'
  BY <1>6, ForwardEffect DEF DaemonForward
<1>7. ASSUME NEW a \in Actors, ReconnectSkip(a) PROVE UnsentIsUnknown'
  BY <1>7 DEF ReconnectSkip, Back
<1>8. ASSUME NEW a \in Actors, ReconnectBegin(a) PROVE UnsentIsUnknown'
  BY <1>8 DEF ReconnectBegin
<1>9. ASSUME ReconnectDial PROVE UnsentIsUnknown'
  BY <1>9, DialEffect DEF ReconnectDial
<1>10. ASSUME ReconnectFail PROVE UnsentIsUnknown'
  BY <1>10, SweepEffect DEF ReconnectFail
<1>11. ASSUME ReconnectAwait PROVE UnsentIsUnknown'
  BY <1>11, AwaitEffect DEF ReconnectAwait
<1>12. ASSUME ReconnectPublish PROVE UnsentIsUnknown'
  BY <1>12 DEF ReconnectPublish
<1>13. ASSUME ReconnectSweep PROVE UnsentIsUnknown'
  BY <1>13, SweepEffect DEF ReconnectSweep
<1>14. ASSUME ReconnectSettle PROVE UnsentIsUnknown'
  <2>1. owner = "client" => cpc = "reconnect"
    BY <1>14 DEF ReconnectSettle, InsideReconnect, Wants
  <2>2. owner = "daemon" => dpc = "reconnect"
    BY <1>14 DEF ReconnectSettle, InsideReconnect, Wants
  <2>3. /\ cpc' = IF owner = "client" THEN "write" ELSE cpc
        /\ dpc' = IF owner = "daemon" THEN "loop" ELSE dpc
        /\ owner # None /\ stage = "settle"
        /\ UNCHANGED <<gen, conn, ledger, frame, dframe, asked, results, errors, sent>>
    BY <1>14 DEF ReconnectSettle, Back
  <2> QED
    BY <2>1, <2>2, <2>3
<1>15. ASSUME Apart PROVE UnsentIsUnknown'
  BY <1>15, ApartEffect DEF coreVars
<1> QED
  BY <1>1, <1>2, <1>3, <1>4, <1>5, <1>6, <1>7, <1>8, <1>9, <1>10, <1>11, <1>12,
     <1>13, <1>14, <1>15
     DEF Next, ClientPump, DaemonPump, Enter, Reconnect, Apart

(* The frame in the client pump's hands was written under wgen, and its     *)
(* record is still to be made, or is the one it made.                       *)
LEMMA NextFrame == IInv /\ [Next]_vars => FrameInPump'
<1> SUFFICES ASSUME IInv, [Next]_vars PROVE FrameInPump'
  OBVIOUS
<1> USE BoundsAssumption DEF FrameInPump, Wants, connVars, recVars, cVars, dVars, hVars, clientVars
<1>0. TypeOK /\ InsideReconnect /\ UnsentIsUnknown /\ FrameInPump
  BY DEF IInv
<1>a. /\ gen \in Nat \ {0} /\ wgen \in Nat
      /\ frame \in Reqs \cup {None} /\ asked \subseteq Reqs
      /\ Calls \subseteq Reqs /\ Hello \notin Calls /\ None \notin Reqs /\ None \notin Actors
      /\ Reqs = Calls \cup {Hello}
      /\ \A r \in Calls : ledger[r] \in Nat /\ errors[r] \in Nat /\ results[r] \in Nat
  BY <1>0 DEF TypeOK, Gens, Reqs
<1> USE <1>0, <1>a
<1>1. ASSUME NEW x \in Reqs, ClientRead(x) PROVE FrameInPump'
  BY <1>1 DEF ClientRead
<1>2. ASSUME ClientWrite PROVE FrameInPump'
  <2>1. /\ frame \in asked /\ cpc = "write" /\ wgen' = gen
        /\ UNCHANGED <<gen, ledger, frame, asked, errors>>
    BY <1>2, WriteEffect
  <2>2. CASE cpc' = "reconnect"
    BY <2>1, <2>2
  <2>3. CASE cpc' = "track"
    <3>1. frame \in Calls => sent[frame] = {} /\ ledger[frame] = 0 /\ errors[frame] = 0
      BY <2>1 DEF UnsentIsUnknown
    <3>2. frame \in Calls => sent'[frame] = sent[frame] \cup {gen}
      BY <1>2, <2>3, WriteEffect
    <3> QED
      BY <2>1, <2>3, <3>1, <3>2
  <2> QED
    BY <1>2, <2>2, <2>3, WriteEffect
<1>3. ASSUME ClientTrack PROVE FrameInPump'
  BY <1>3 DEF ClientTrack, Idle
<1>4. ASSUME ClientCheck PROVE FrameInPump'
  BY <1>4, SweepEffect DEF ClientCheck, Idle
<1>5. ASSUME DaemonResolve PROVE FrameInPump'
  BY <1>5 DEF DaemonResolve
<1>6. ASSUME DaemonForward PROVE FrameInPump'
  BY <1>6, ForwardEffect DEF DaemonForward
<1>7. ASSUME NEW a \in Actors, ReconnectSkip(a) PROVE FrameInPump'
  BY <1>7 DEF ReconnectSkip, Back
<1>8. ASSUME NEW a \in Actors, ReconnectBegin(a) PROVE FrameInPump'
  BY <1>8 DEF ReconnectBegin
<1>9. ASSUME ReconnectDial PROVE FrameInPump'
  BY <1>9, DialEffect DEF ReconnectDial
<1>10. ASSUME ReconnectFail PROVE FrameInPump'
  BY <1>10, SweepEffect DEF ReconnectFail
<1>11. ASSUME ReconnectAwait PROVE FrameInPump'
  BY <1>11, AwaitEffect DEF ReconnectAwait
<1>12. ASSUME ReconnectPublish PROVE FrameInPump'
  BY <1>12 DEF ReconnectPublish
<1>13. ASSUME ReconnectSweep PROVE FrameInPump'
  BY <1>13, SweepEffect DEF ReconnectSweep
<1>14. ASSUME ReconnectSettle PROVE FrameInPump'
  <2>1. owner = "client" => cpc = "reconnect"
    BY <1>14 DEF ReconnectSettle, InsideReconnect, Wants
  <2>2. owner = "daemon" => dpc = "reconnect"
    BY <1>14 DEF ReconnectSettle, InsideReconnect, Wants
  <2>3. /\ cpc' = IF owner = "client" THEN "write" ELSE cpc
        /\ dpc' = IF owner = "daemon" THEN "loop" ELSE dpc
        /\ owner # None /\ stage = "settle"
        /\ UNCHANGED <<gen, conn, ledger, frame, dframe, asked, results, errors, sent>>
    BY <1>14 DEF ReconnectSettle, Back
  <2>4. cpc \in {"track", "check"} => wgen' = wgen
    BY <1>14, <2>1 DEF ReconnectSettle, Back
  <2> QED
    BY <2>1, <2>2, <2>3, <2>4
<1>15. ASSUME Apart PROVE FrameInPump'
  BY <1>15, ApartEffect DEF coreVars
<1> QED
  BY <1>1, <1>2, <1>3, <1>4, <1>5, <1>6, <1>7, <1>8, <1>9, <1>10, <1>11, <1>12,
     <1>13, <1>14, <1>15
     DEF Next, ClientPump, DaemonPump, Enter, Reconnect, Apart

(* A recorded generation is the one connection the request was written to.  *)
LEMMA NextLedger == IInv /\ [Next]_vars => LedgerIsTrue'
<1> SUFFICES ASSUME IInv, [Next]_vars PROVE LedgerIsTrue'
  OBVIOUS
<1> USE BoundsAssumption DEF LedgerIsTrue, connVars, recVars, cVars, dVars, hVars, clientVars
<1>0. TypeOK /\ InsideReconnect /\ UnsentIsUnknown /\ FrameInPump /\ LedgerIsTrue
  BY DEF IInv
<1>a. /\ gen \in Nat \ {0} /\ wgen \in Nat
      /\ frame \in Reqs \cup {None} /\ asked \subseteq Reqs
      /\ Calls \subseteq Reqs /\ Hello \notin Calls /\ None \notin Reqs /\ None \notin Actors
      /\ Reqs = Calls \cup {Hello}
      /\ \A r \in Calls : ledger[r] \in Nat /\ errors[r] \in Nat /\ results[r] \in Nat
  BY <1>0 DEF TypeOK, Gens, Reqs
<1> USE <1>0, <1>a
<1>1. ASSUME NEW x \in Reqs, ClientRead(x) PROVE LedgerIsTrue'
  BY <1>1 DEF ClientRead
<1>2. ASSUME ClientWrite PROVE LedgerIsTrue'
  <2>1. frame \in Calls => ledger[frame] = 0
    BY <1>2 DEF ClientWrite, UnsentIsUnknown
  <2>2. UNCHANGED <<ledger, gen>>
    BY <1>2, WriteEffect
  <2>3. \A r \in Calls : r # frame => sent'[r] = sent[r]
    BY <1>2, WriteEffect
  <2> QED
    BY <2>1, <2>2, <2>3
<1>3. ASSUME ClientTrack PROVE LedgerIsTrue'
  <2>1. \A r \in Calls : ledger'[r] = IF r = frame THEN wgen ELSE ledger[r]
    BY <1>3 DEF ClientTrack, Idle
  <2>2. /\ cpc = "track"
        /\ IF frame = Hello THEN cpc' = "read" ELSE cpc' = "check" /\ UNCHANGED <<frame, wgen>>
        /\ UNCHANGED <<gen, owner, stage, dpc, dframe, asked, results, errors, sent>>
    BY <1>3 DEF ClientTrack, Idle
  <2> QED
    BY <2>1, <2>2 DEF FrameInPump
<1>4. ASSUME ClientCheck PROVE LedgerIsTrue'
  BY <1>4, SweepEffect DEF ClientCheck, Idle
<1>5. ASSUME DaemonResolve PROVE LedgerIsTrue'
  BY <1>5 DEF DaemonResolve
<1>6. ASSUME DaemonForward PROVE LedgerIsTrue'
  BY <1>6, ForwardEffect DEF DaemonForward
<1>7. ASSUME NEW a \in Actors, ReconnectSkip(a) PROVE LedgerIsTrue'
  BY <1>7 DEF ReconnectSkip, Back
<1>8. ASSUME NEW a \in Actors, ReconnectBegin(a) PROVE LedgerIsTrue'
  BY <1>8 DEF ReconnectBegin
<1>9. ASSUME ReconnectDial PROVE LedgerIsTrue'
  BY <1>9, DialEffect DEF ReconnectDial
<1>10. ASSUME ReconnectFail PROVE LedgerIsTrue'
  BY <1>10, SweepEffect DEF ReconnectFail
<1>11. ASSUME ReconnectAwait PROVE LedgerIsTrue'
  BY <1>11, AwaitEffect DEF ReconnectAwait
<1>12. ASSUME ReconnectPublish PROVE LedgerIsTrue'
  BY <1>12 DEF ReconnectPublish
<1>13. ASSUME ReconnectSweep PROVE LedgerIsTrue'
  BY <1>13, SweepEffect DEF ReconnectSweep
<1>14. ASSUME ReconnectSettle PROVE LedgerIsTrue'
  BY <1>14 DEF ReconnectSettle, Back
<1>15. ASSUME Apart PROVE LedgerIsTrue'
  BY <1>15, ApartEffect DEF coreVars
<1> QED
  BY <1>1, <1>2, <1>3, <1>4, <1>5, <1>6, <1>7, <1>8, <1>9, <1>10, <1>11, <1>12,
     <1>13, <1>14, <1>15
     DEF Next, ClientPump, DaemonPump, Enter, Reconnect, Apart

(* After its sweep a reconnect leaves nothing old in the ledger but what    *)
(* the client pump recorded late, and that pump sweeps it itself.           *)
LEMMA NextSwept == IInv /\ [Next]_vars => SweptBeforeSettle'
<1> SUFFICES ASSUME IInv, [Next]_vars PROVE SweptBeforeSettle'
  OBVIOUS
<1> USE BoundsAssumption DEF SweptBeforeSettle, Wants, connVars, recVars, cVars, dVars, hVars, clientVars
<1>0. TypeOK /\ InsideReconnect /\ FrameInPump /\ LedgerIsTrue /\ SweptBeforeSettle
  BY DEF IInv
<1>a. /\ gen \in Nat \ {0} /\ wgen \in Nat
      /\ frame \in Reqs \cup {None} /\ asked \subseteq Reqs
      /\ Calls \subseteq Reqs /\ Hello \notin Calls /\ None \notin Reqs /\ None \notin Actors
      /\ Reqs = Calls \cup {Hello}
      /\ \A r \in Calls : ledger[r] \in Nat /\ errors[r] \in Nat /\ results[r] \in Nat
  BY <1>0 DEF TypeOK, Gens, Reqs
<1> USE <1>0, <1>a
<1>1. ASSUME NEW x \in Reqs, ClientRead(x) PROVE SweptBeforeSettle'
  BY <1>1 DEF ClientRead
<1>2. ASSUME ClientWrite PROVE SweptBeforeSettle'
  BY <1>2, WriteEffect
<1>3. ASSUME ClientTrack PROVE SweptBeforeSettle'
  BY <1>3 DEF ClientTrack, Idle
<1>4. ASSUME ClientCheck PROVE SweptBeforeSettle'
  <2>1. /\ cpc = "check" /\ cpc' = "read"
        /\ UNCHANGED <<gen, owner, stage, dpc, dframe, results, sent>>
    BY <1>4 DEF ClientCheck, Idle
  <2>2. CASE gen # wgen
    <3>1. \A r \in Calls :
             IF ledger[r] > 0 /\ ledger[r] < gen
             THEN ledger'[r] = 0 /\ errors'[r] = errors[r] + 1
             ELSE ledger'[r] = ledger[r] /\ errors'[r] = errors[r]
      BY <1>4, <2>2, SweepEffect DEF ClientCheck
    <3> QED
      BY <2>1, <3>1 DEF LedgerIsTrue, FrameInPump
  <2>3. CASE gen = wgen
    <3>1. UNCHANGED <<ledger, errors>>
      BY <1>4, <2>3 DEF ClientCheck
    <3> QED
      BY <2>1, <2>3, <3>1 DEF LedgerIsTrue, FrameInPump
  <2> QED
    BY <2>2, <2>3
<1>5. ASSUME DaemonResolve PROVE SweptBeforeSettle'
  BY <1>5 DEF DaemonResolve
<1>6. ASSUME DaemonForward PROVE SweptBeforeSettle'
  BY <1>6, ForwardEffect DEF DaemonForward
<1>7. ASSUME NEW a \in Actors, ReconnectSkip(a) PROVE SweptBeforeSettle'
  BY <1>7 DEF ReconnectSkip, Back
<1>8. ASSUME NEW a \in Actors, ReconnectBegin(a) PROVE SweptBeforeSettle'
  BY <1>8 DEF ReconnectBegin
<1>9. ASSUME ReconnectDial PROVE SweptBeforeSettle'
  BY <1>9, DialEffect DEF ReconnectDial
<1>10. ASSUME ReconnectFail PROVE SweptBeforeSettle'
  BY <1>10, SweepEffect DEF ReconnectFail
<1>11. ASSUME ReconnectAwait PROVE SweptBeforeSettle'
  BY <1>11, AwaitEffect DEF ReconnectAwait
<1>12. ASSUME ReconnectPublish PROVE SweptBeforeSettle'
  BY <1>12 DEF ReconnectPublish
<1>13. ASSUME ReconnectSweep PROVE SweptBeforeSettle'
  BY <1>13, SweepEffect DEF ReconnectSweep, LedgerIsTrue
<1>14. ASSUME ReconnectSettle PROVE SweptBeforeSettle'
  BY <1>14 DEF ReconnectSettle, Back
<1>15. ASSUME Apart PROVE SweptBeforeSettle'
  BY <1>15, ApartEffect DEF coreVars
<1> QED
  BY <1>1, <1>2, <1>3, <1>4, <1>5, <1>6, <1>7, <1>8, <1>9, <1>10, <1>11, <1>12,
     <1>13, <1>14, <1>15
     DEF Next, ClientPump, DaemonPump, Enter, Reconnect, Apart

(* No step loses a request that reached a daemon.                           *)
LEMMA NextForgotten == IInv /\ [Next]_vars => NothingForgotten'
<1> SUFFICES ASSUME IInv, [Next]_vars PROVE NothingForgotten'
  OBVIOUS
<1> USE BoundsAssumption DEF NothingForgotten, Wants, connVars, recVars, cVars, dVars, hVars, clientVars
<1>0. TypeOK /\ InsideReconnect /\ UnsentIsUnknown /\ FrameInPump /\ LedgerIsTrue
      /\ SweptBeforeSettle /\ NothingForgotten
  BY DEF IInv
<1>a. /\ gen \in Nat \ {0} /\ wgen \in Nat
      /\ frame \in Reqs \cup {None} /\ asked \subseteq Reqs
      /\ Calls \subseteq Reqs /\ Hello \notin Calls /\ None \notin Reqs /\ None \notin Actors
      /\ Reqs = Calls \cup {Hello}
      /\ \A r \in Calls : ledger[r] \in Nat /\ errors[r] \in Nat /\ results[r] \in Nat
  BY <1>0 DEF TypeOK, Gens, Reqs
<1> USE <1>0, <1>a
<1>1. ASSUME NEW x \in Reqs, ClientRead(x) PROVE NothingForgotten'
  BY <1>1 DEF ClientRead
<1>2. ASSUME ClientWrite PROVE NothingForgotten'
  BY <1>2, WriteEffect
<1>3. ASSUME ClientTrack PROVE NothingForgotten'
  <2>1. \A r \in Calls : ledger'[r] = IF r = frame THEN wgen ELSE ledger[r]
    BY <1>3 DEF ClientTrack, Idle
  <2>2. /\ cpc = "track"
        /\ IF frame = Hello THEN cpc' = "read" ELSE cpc' = "check" /\ UNCHANGED <<frame, wgen>>
        /\ UNCHANGED <<gen, owner, stage, dpc, dframe, asked, results, errors, sent>>
    BY <1>3 DEF ClientTrack, Idle
  <2> QED
    BY <2>1, <2>2 DEF FrameInPump
<1>4. ASSUME ClientCheck PROVE NothingForgotten'
  <2>1. /\ cpc = "check" /\ cpc' = "read"
        /\ UNCHANGED <<gen, owner, stage, dpc, dframe, results, sent>>
    BY <1>4 DEF ClientCheck, Idle
  <2>2. CASE gen # wgen
    <3>1. \A r \in Calls :
             IF ledger[r] > 0 /\ ledger[r] < gen
             THEN ledger'[r] = 0 /\ errors'[r] = errors[r] + 1
             ELSE ledger'[r] = ledger[r] /\ errors'[r] = errors[r]
      BY <1>4, <2>2, SweepEffect DEF ClientCheck
    <3> QED
      BY <2>1, <3>1 DEF LedgerIsTrue, FrameInPump
  <2>3. CASE gen = wgen
    <3>1. UNCHANGED <<ledger, errors>>
      BY <1>4, <2>3 DEF ClientCheck
    <3> QED
      BY <2>1, <2>3, <3>1 DEF LedgerIsTrue, FrameInPump
  <2> QED
    BY <2>2, <2>3
<1>5. ASSUME DaemonResolve PROVE NothingForgotten'
  BY <1>5 DEF DaemonResolve
<1>6. ASSUME DaemonForward PROVE NothingForgotten'
  BY <1>6, ForwardEffect DEF DaemonForward
<1>7. ASSUME NEW a \in Actors, ReconnectSkip(a) PROVE NothingForgotten'
  BY <1>7 DEF ReconnectSkip, Back
<1>8. ASSUME NEW a \in Actors, ReconnectBegin(a) PROVE NothingForgotten'
  BY <1>8 DEF ReconnectBegin
<1>9. ASSUME ReconnectDial PROVE NothingForgotten'
  BY <1>9, DialEffect DEF ReconnectDial
<1>10. ASSUME ReconnectFail PROVE NothingForgotten'
  BY <1>10, SweepEffect DEF ReconnectFail
<1>11. ASSUME ReconnectAwait PROVE NothingForgotten'
  BY <1>11, AwaitEffect DEF ReconnectAwait
<1>12. ASSUME ReconnectPublish PROVE NothingForgotten'
  BY <1>12 DEF ReconnectPublish
<1>13. ASSUME ReconnectSweep PROVE NothingForgotten'
  BY <1>13, SweepEffect DEF ReconnectSweep
<1>14. ASSUME ReconnectSettle PROVE NothingForgotten'
  <2>1. owner = "client" => cpc = "reconnect"
    BY <1>14 DEF ReconnectSettle, InsideReconnect, Wants
  <2>2. owner = "daemon" => dpc = "reconnect"
    BY <1>14 DEF ReconnectSettle, InsideReconnect, Wants
  <2>3. /\ cpc' = IF owner = "client" THEN "write" ELSE cpc
        /\ dpc' = IF owner = "daemon" THEN "loop" ELSE dpc
        /\ owner # None /\ stage = "settle"
        /\ UNCHANGED <<gen, conn, ledger, frame, dframe, asked, results, errors, sent>>
    BY <1>14 DEF ReconnectSettle, Back
  <2> QED
    BY <2>1, <2>2, <2>3 DEF SweptBeforeSettle
<1>15. ASSUME Apart PROVE NothingForgotten'
  BY <1>15, ApartEffect DEF coreVars
<1> QED
  BY <1>1, <1>2, <1>3, <1>4, <1>5, <1>6, <1>7, <1>8, <1>9, <1>10, <1>11, <1>12,
     <1>13, <1>14, <1>15
     DEF Next, ClientPump, DaemonPump, Enter, Reconnect, Apart

-----------------------------------------------------------------------------
(* The invariant holds in every state.                                      *)
LEMMA Inductive == Spec => []IInv
<1>1. IInv /\ [Next]_vars => IInv'
  BY NextType, NextInside, NextUnsent, NextFrame, NextLedger, NextSwept, NextForgotten
     DEF IInv
<1> QED
  BY InitInv, <1>1, PTL DEF Spec

(* The proxy's variables and the daemon's keep their types.                 *)
THEOREM TypeCorrect == Spec => []TypeOK
<1>1. IInv => TypeOK
  BY DEF IInv
<1> QED
  BY Inductive, <1>1, PTL

(* A request that reached a daemon stays in the ledger, in a pump's hands   *)
(* or before a sweep until its answer or its error went to the client       *)
(* (trackOutstanding, resolveResponse, failOutstandingBelow), whatever the   *)
(* order of the three actors, the answers and the failures.                  *)
THEOREM NothingIsForgotten == Spec => []NothingForgotten
<1>1. IInv => NothingForgotten
  BY DEF IInv
<1> QED
  BY Inductive, <1>1, PTL

(* A request whose error went to the client is never written again, by the  *)
(* pump's retry or by the handshake that is replayed (writeDaemon, dial).    *)
THEOREM ErrorsAreFinal == Spec => ErrorIsFinal
<1>1. IInv /\ [Next]_vars => [\A r \in Calls : errors[r] > 0 => sent'[r] = sent[r]]_vars
  <2> SUFFICES ASSUME IInv, [Next]_vars, NEW r \in Calls, errors[r] > 0
               PROVE  sent'[r] = sent[r]
    OBVIOUS
  <2>1. CASE ClientWrite
    <3>1. r # frame
      BY <2>1, WriteEffect DEF IInv, UnsentIsUnknown
    <3> QED
      BY <2>1, <3>1, WriteEffect DEF Reqs
  <2>2. CASE ReconnectDial
    BY <2>2, DialEffect DEF IInv
  <2>3. CASE Apart
    BY <2>3, ApartEffect DEF IInv, coreVars
  <2>4. ASSUME ~ ClientWrite, ~ ReconnectDial, ~ Apart PROVE UNCHANGED sent
    BY <2>4 DEF Next, ClientPump, DaemonPump, Enter, Reconnect, Apart, ClientRead,
       ClientTrack, ClientCheck, DaemonResolve, DaemonForward, ReconnectSkip, ReconnectBegin,
       ReconnectFail, ReconnectAwait, ReconnectPublish, ReconnectSweep, ReconnectSettle
  <2> QED
    BY <2>1, <2>2, <2>3, <2>4
<1> QED
  BY Inductive, <1>1, PTL DEF Spec, ErrorIsFinal

(* An error is synthesised for a request only when the connection it was    *)
(* written to has been given up: the sweep spares the requests of the        *)
(* connection in use (failOutstandingBelow, reconnect).                      *)
THEOREM ErrorsOnlyForDead == Spec => ErrorOnlyForDead
<1>1. IInv /\ [Next]_vars =>
        [\A r \in Calls : errors'[r] > errors[r] => ~ conn \/ gen \notin sent[r]]_vars
  <2> SUFFICES ASSUME IInv, [Next]_vars, NEW r \in Calls, errors'[r] > errors[r]
               PROVE  ~ conn \/ gen \notin sent[r]
    OBVIOUS
  <2>0. gen \in Nat \ {0} /\ errors[r] \in Nat /\ ledger[r] \in Nat
    BY BoundsAssumption DEF IInv, TypeOK, Gens
  <2>1. ASSUME FailOutstandingBelow(gen) PROVE gen \notin sent[r]
    <3>1. ledger[r] > 0 /\ ledger[r] < gen
      BY <2>0, <2>1, SweepEffect DEF IInv
    <3> QED
      BY <2>0, <3>1 DEF IInv, LedgerIsTrue
  <2>2. CASE ClientCheck
    BY <2>0, <2>1, <2>2 DEF ClientCheck
  <2>3. CASE ReconnectSweep
    BY <2>1, <2>3 DEF ReconnectSweep
  <2>4. CASE ReconnectFail
    BY <2>4 DEF ReconnectFail, IInv, InsideReconnect
  <2>5. CASE ClientWrite
    BY <2>0, <2>5, WriteEffect
  <2>6. CASE Apart
    BY <2>0, <2>6, ApartEffect DEF IInv, coreVars
  <2>7. ASSUME ~ ClientCheck, ~ ReconnectSweep, ~ ReconnectFail, ~ ClientWrite, ~ Apart
        PROVE  UNCHANGED errors
    BY <2>7 DEF Next, ClientPump, DaemonPump, Enter, Reconnect, Apart, ClientRead,
       ClientTrack, DaemonResolve, DaemonForward, ReconnectSkip, ReconnectBegin,
       ReconnectDial, ReconnectAwait, ReconnectPublish, ReconnectSettle, clientVars
  <2> QED
    BY <2>0, <2>2, <2>3, <2>4, <2>5, <2>6, <2>7
<1> QED
  BY Inductive, <1>1, PTL DEF Spec, ErrorOnlyForDead
-----------------------------------------------------------------------------
(* The heartbeat's verdict.                                                 *)

\* The new connection is published, its daemon's PID not yet.
Published == owner # None /\ stage \in {"sweep", "settle"}

\* An open connection leads to the daemon that runs.  While the heartbeat waits
\* for a pong or goes to give up the connection in use, the PID the proxy has is
\* that of the daemon it pinged, or of one that was replaced.
ProbeInv ==
    /\ \A g \in up : server[g] = last /\ alive
    /\ pid <= last /\ hgen <= gen
    /\ hpc \in {"wait", "reconnect"} /\ hgen = gen =>
         IF Published THEN alive /\ probed = last ELSE pid = last => probed = pid

LEMMA NextProbe ==
  ASSUME "latePid" \notin Races
  PROVE  IInv /\ ProbeInv /\ [Next]_vars => ProbeInv'
<1> SUFFICES ASSUME IInv, ProbeInv, [Next]_vars PROVE ProbeInv'
  OBVIOUS
<1> USE DEF ProbeInv, Published, connVars, daemonVars, netVars, recVars, cVars, dVars, hVars
<1>0. TypeOK /\ InsideReconnect
  BY DEF IInv
<1>a. /\ last \in Nat /\ pid \in Nat /\ gen \in Nat /\ hgen \in Nat /\ probed \in Nat
      /\ gen \in Gens /\ Gens \subseteq Nat
      /\ owner \in Actors \cup {None} /\ None \notin Actors /\ "heart" \in Actors
  BY <1>0, BoundsAssumption DEF TypeOK, Gens, Actors
<1> USE <1>a
<1>1. ASSUME NEW r \in Reqs, ClientRead(r) PROVE ProbeInv'
  BY <1>1 DEF ClientRead
<1>2. ASSUME ClientWrite PROVE ProbeInv'
  BY <1>2 DEF ClientWrite
<1>3. ASSUME ClientTrack PROVE ProbeInv'
  BY <1>3 DEF ClientTrack, Idle
<1>4. ASSUME ClientCheck PROVE ProbeInv'
  BY <1>4 DEF ClientCheck, Idle
<1>5. ASSUME DaemonLoop PROVE ProbeInv'
  BY <1>5 DEF DaemonLoop
<1>6. ASSUME NEW r \in Reqs, DaemonFrame(r) PROVE ProbeInv'
  BY <1>6 DEF DaemonFrame
<1>7. ASSUME DaemonEOF PROVE ProbeInv'
  BY <1>7 DEF DaemonEOF
<1>8. ASSUME DaemonResolve PROVE ProbeInv'
  BY <1>8 DEF DaemonResolve
<1>9. ASSUME DaemonForward PROVE ProbeInv'
  BY <1>9 DEF DaemonForward
<1>10. ASSUME HeartCapture PROVE ProbeInv'
  BY <1>10 DEF HeartCapture
<1>11. ASSUME HeartPing PROVE ProbeInv'
  BY <1>11 DEF HeartPing, Current, Quiet
<1>12. ASSUME HeartPong PROVE ProbeInv'
  BY <1>12 DEF HeartPong, Quiet
<1>13. ASSUME HeartTimeout PROVE ProbeInv'
  BY <1>13 DEF HeartTimeout
<1>14. ASSUME NEW a \in Actors, ReconnectSkip(a) PROVE ProbeInv'
  BY <1>14 DEF ReconnectSkip, Back, Quiet
<1>15. ASSUME NEW a \in Actors, ReconnectBegin(a) PROVE ProbeInv'
  BY <1>15 DEF ReconnectBegin
\* A new daemon has a PID the proxy does not know.
<1>16. ASSUME ReconnectDial PROVE ProbeInv'
  <2>1. /\ owner # None /\ stage = "dial" /\ stage' # "sweep" /\ stage' # "settle"
        /\ UNCHANGED <<owner, gen, pid, hpc, hgen, probed>>
    BY <1>16 DEF ReconnectDial
  <2>2. last' = (IF alive THEN last ELSE last + 1) /\ alive'
    BY <1>16 DEF ReconnectDial
  <2>3. \A g \in up' : server'[g] = last'
    <3>1. server' = [server EXCEPT ![gen + 1] = last'] /\ up' = up \cup {gen + 1}
      BY <1>16 DEF ReconnectDial
    <3>4. gen + 1 \in Gens
      BY <1>16, BoundsAssumption DEF ReconnectDial, Gens
    <3>2. \A g \in up : g \in Gens /\ server[g] = last'
      BY <1>0, <2>2 DEF TypeOK
    <3>3. server'[gen + 1] = last' /\ \A g \in Gens \ {gen + 1} : server'[g] = server[g]
      BY <1>0, <3>1, <3>4 DEF TypeOK
    <3> QED
      BY <3>1, <3>2, <3>3
  <2> QED
    BY <2>1, <2>2, <2>3
<1>17. ASSUME ReconnectFail PROVE ProbeInv'
  BY <1>17 DEF ReconnectFail
<1>18. ASSUME ReconnectAwait PROVE ProbeInv'
  BY <1>18 DEF ReconnectAwait
<1>19. ASSUME ReconnectPublish PROVE ProbeInv'
  BY <1>19 DEF ReconnectPublish
<1>20. ASSUME ReconnectSweep PROVE ProbeInv'
  BY <1>20 DEF ReconnectSweep
<1>21. ASSUME ReconnectSettle PROVE ProbeInv'
  BY <1>21 DEF ReconnectSettle, Back, Quiet
<1>22. ASSUME NEW r \in Reqs, NEW g \in Gens, Answer(r, g) PROVE ProbeInv'
  BY <1>22 DEF Answer
\* No daemon dies between the publication and the read of its PID.
<1>23. ASSUME Crash PROVE ProbeInv'
  BY <1>23 DEF Crash
<1>24. ASSUME Drop \/ Hang PROVE ProbeInv'
  BY <1>24 DEF Drop, Hang
<1>25. ASSUME Spawn PROVE ProbeInv'
  BY <1>25 DEF Spawn
<1>26. ASSUME UNCHANGED vars PROVE ProbeInv'
  BY <1>26 DEF vars
<1> QED
  BY <1>1, <1>2, <1>3, <1>4, <1>5, <1>6, <1>7, <1>8, <1>9, <1>10, <1>11, <1>12,
     <1>13, <1>14, <1>15, <1>16, <1>17, <1>18, <1>19, <1>20, <1>21, <1>22, <1>23, <1>24,
     <1>25, <1>26
     DEF Next, ClientPump, DaemonPump, Heartbeat, Enter, Reconnect

(* The heartbeat's verdict kills no other daemon than the one it pinged:     *)
(* the generation it read before the ping is still current, and the PID that *)
(* was read after the publication names a daemon that was started since, or  *)
(* the pinged one (ping, reconnect), as long as no daemon dies between the    *)
(* publication of its connection and the read of its PID.                    *)
THEOREM VerdictsHitTheProbed ==
  ASSUME "latePid" \notin Races
  PROVE  Spec => KillsOnlyProbed
<1>1. Init => ProbeInv
  <2> SUFFICES ASSUME Init PROVE ProbeInv
    OBVIOUS
  <2>1. 1 \in Gens
    BY BoundsAssumption DEF Gens
  <2>2. server[1] = last /\ alive
    BY <2>1, Zenon DEF Init
  <2> QED
    BY <2>2 DEF Init, ProbeInv, Published
<1>2. IInv /\ ProbeInv /\ [Next]_vars => ProbeInv'
  BY NextProbe
<1>3. IInv /\ ProbeInv /\ [Next]_vars =>
        [ReconnectBegin("heart") /\ alive /\ pid = last => pid = probed]_vars
  <2> SUFFICES ASSUME IInv, ProbeInv, ReconnectBegin("heart"), alive, pid = last
               PROVE  pid = probed
    OBVIOUS
  <2>1. owner = None /\ hpc = "reconnect" /\ gen = hgen
    BY DEF ReconnectBegin, Wants, FailedGen
  <2> QED
    BY <2>1 DEF ProbeInv, Published
<1> QED
  BY <1>1, <1>2, <1>3, Inductive, PTL DEF Spec, KillsOnlyProbed
-----------------------------------------------------------------------------
(* One answer.  An answer can be waiting on the connection in use, to a      *)
(* replayed initialize on the one a reconnect is opening, and in the buffer   *)
(* of the daemon pump on one that was given up.                              *)

Pending(g) == inbox[g] \cup outbox[g]

\* No sweep and no record to come concern the call any more.
Settled(r) == ledger[r] = 0 /\ ~ (cpc = "track" /\ frame = r)

\* What the daemon pump reads from, and the frame in its hands.
HandInv ==
    /\ dpc = "read" => dgen \in 1..gen
    /\ IF dpc \in {"resolve", "forward"} THEN dframe \in Reqs ELSE dframe = None

PendingInv ==
    \A g \in Gens :
        /\ inbox[g] \cap outbox[g] \subseteq raced
        /\ Pending(g) # {} =>
             \/ conn /\ g = gen
             \/ /\ owner # None /\ stage = "await" /\ g = gen + 1
                /\ Pending(g) \subseteq {Hello} /\ inbox[g] \cap outbox[g] = {}
             \/ dpc = "read" /\ g = dgen /\ inbox[g] = {}

\* A call whose answer is to come, or in the daemon pump's hands, has none yet;
\* one that has its answer or its error gets no second.
CallsInv ==
    \A r \in Calls \ raced :
        /\ \A g \in 1..gen : r \in Pending(g) =>
             sent[r] = {g} /\ results[r] = 0 /\ errors[r] = 0 /\ dframe # r
        /\ dframe = r =>
             /\ sent[r] # {} /\ results[r] = 0 /\ errors[r] = 0
             /\ dpc = "forward" => Settled(r)
        /\ results[r] + errors[r] > 0 => sent[r] # {} /\ Settled(r)
        /\ results[r] + errors[r] <= 1

\* The same of initialize, whose one answer to the client sets `answered'.
HelloInv ==
    /\ \A g, h \in 1..gen : Hello \in Pending(g) =>
         /\ sent[Hello] # {} /\ ~ answered /\ dframe # Hello
         /\ Hello \in Pending(h) => g = h
    /\ dframe = Hello =>
         sent[Hello] # {} /\ results[Hello] = 0 /\ (answered <=> dpc = "forward")
    /\ answered => sent[Hello] # {}
    /\ ~ answered => results[Hello] = 0
    /\ results[Hello] <= 1

\* A handshake that is waited for was written.
AwaitInv == owner # None /\ stage = "await" => sent[Hello] # {}

AnswerInv ==
    /\ HandInv /\ PendingInv /\ CallsInv /\ AwaitInv
    /\ Hello \notin raced => HelloInv

\* What the parts of AnswerInv know of types.
LEMMA AnswerTypes ==
  ASSUME TypeOK
  PROVE  /\ gen \in Nat \ {0} /\ gen \in Gens /\ wgen \in Nat /\ Gens \subseteq Nat
         /\ frame \in Reqs \cup {None} /\ dframe \in Reqs \cup {None} /\ asked \subseteq Reqs
         /\ raced \subseteq Reqs /\ Hello \in Reqs /\ Hello \notin Calls /\ None \notin Reqs /\ None \notin Actors
         /\ Reqs = Calls \cup {Hello} /\ Calls \subseteq Reqs
         /\ \A r \in Calls : ledger[r] \in Nat /\ errors[r] \in Nat
         /\ \A r \in Reqs : results[r] \in Nat
  BY BoundsAssumption DEF TypeOK, Gens, Reqs

(* Only the client pump and a dial put something on a connection.           *)
LEMMA PendingShrinks ==
  ASSUME TypeOK,
         \/ (\E r \in Reqs : DaemonFrame(r)) \/ DaemonEOF
         \/ \E a \in Actors : ReconnectBegin(a)
         \/ ReconnectFail \/ ReconnectAwait
         \/ \E r \in Reqs, g \in Gens : Answer(r, g)
         \/ Crash \/ Drop
  PROVE  \A g \in Gens :
            /\ Pending(g)' \subseteq Pending(g)
            /\ inbox'[g] \subseteq inbox[g]
            /\ inbox'[g] \cap outbox'[g] \subseteq inbox[g] \cap outbox[g]
<1> DEFINE Less == \A g \in Gens :
                      /\ Pending(g)' \subseteq Pending(g)
                      /\ inbox'[g] \subseteq inbox[g]
                      /\ inbox'[g] \cap outbox'[g] \subseteq inbox[g] \cap outbox[g]
<1> USE DEF Pending
<1>0. /\ inbox \in [Gens -> SUBSET Reqs] /\ outbox \in [Gens -> SUBSET Reqs]
      /\ up \subseteq Gens
  BY DEF TypeOK
<1>1. ASSUME NEW r \in Reqs, DaemonFrame(r) PROVE Less
  BY <1>0, <1>1 DEF DaemonFrame
<1>2. ASSUME NEW a \in Actors, ReconnectBegin(a) PROVE Less
  BY <1>0, <1>2 DEF ReconnectBegin
<1>3. CASE ReconnectFail
  BY <1>0, <1>3 DEF ReconnectFail
<1>4. CASE ReconnectAwait
  BY <1>0, <1>4 DEF ReconnectAwait
<1>5. ASSUME NEW r \in Reqs, NEW g \in Gens, Answer(r, g) PROVE Less
  BY <1>0, <1>5 DEF Answer
<1>6. CASE Crash
  BY <1>0, <1>6 DEF Crash
<1>7. CASE Drop
  BY <1>0, <1>7 DEF Drop
<1>8. CASE DaemonEOF
  BY <1>0, <1>8 DEF DaemonEOF
<1> QED
  BY <1>1, <1>2, <1>3, <1>4, <1>5, <1>6, <1>7, <1>8

(* A write that succeeds puts the frame on the connection in use.           *)
LEMMA WritePending ==
  ASSUME TypeOK, ClientWrite
  PROVE  /\ UNCHANGED <<outbox, up, captured, answered, dgen>>
         /\ raced' = IF frame = Hello /\ sent[Hello] # {} THEN raced \cup {Hello} ELSE raced
         /\ \/ /\ Current /\ cpc' = "track"
               /\ \A g \in Gens : inbox'[g] = IF g = gen THEN inbox[g] \cup {frame} ELSE inbox[g]
            \/ ~ Current /\ cpc' = "reconnect" /\ UNCHANGED <<inbox, sent>>
<1>1. /\ UNCHANGED <<outbox, up, captured, answered, dgen>>
      /\ raced' = IF frame = Hello /\ sent[Hello] # {} THEN raced \cup {Hello} ELSE raced
  BY DEF ClientWrite, connVars, dVars
<1>2. CASE Current
  BY <1>1, <1>2 DEF ClientWrite, TypeOK
<1>3. CASE ~ Current
  BY <1>1, <1>3 DEF ClientWrite
<1> QED
  BY <1>2, <1>3, <1>1

(* A dial writes initialize to the connection it opens, when there is one.  *)
LEMMA DialPending ==
  ASSUME TypeOK, ReconnectDial
  PROVE  /\ gen + 1 \in Gens
         /\ \A g \in Gens : g # gen + 1 => inbox'[g] = inbox[g]
         /\ IF captured THEN stage' = "await" /\ inbox'[gen + 1] = {Hello}
                        ELSE stage' = "publish" /\ inbox'[gen + 1] = {}
         /\ sent[Hello] \subseteq sent'[Hello]
<1>1. gen + 1 \in Gens
  BY BoundsAssumption DEF ReconnectDial, TypeOK, Gens
<1>2. /\ inbox' = [inbox EXCEPT ![gen + 1] = IF captured THEN {Hello} ELSE {}]
      /\ sent' = [sent EXCEPT ![Hello] = IF captured THEN @ \cup {gen + 1} ELSE @]
      /\ stage' = IF captured THEN "await" ELSE "publish"
  BY DEF ReconnectDial
<1> QED
  BY <1>1, <1>2, AnswerTypes DEF TypeOK
-----------------------------------------------------------------------------
(* A request has raced for good.                                            *)
LEMMA RacedGrows == [Next]_vars => raced \subseteq raced'
<1> USE DEF clientVars
<1>1. ASSUME NEW n \in {gen, gen + 1}, FailOutstandingBelow(n) PROVE raced \subseteq raced'
  BY <1>1 DEF FailOutstandingBelow
<1> QED
  BY <1>1 DEF Next, vars, ClientPump, DaemonPump, Heartbeat, Enter, Reconnect, ClientRead,
     ClientWrite, ClientTrack, ClientCheck, DaemonLoop, DaemonFrame, DaemonEOF, DaemonResolve,
     DaemonForward, HeartCapture, HeartPing, HeartPong, HeartTimeout, ReconnectSkip,
     ReconnectBegin, ReconnectDial, ReconnectFail, ReconnectAwait, ReconnectPublish,
     ReconnectSweep, ReconnectSettle, Answer, Crash, Drop, Hang, Spawn

(* The daemon pump has a frame in its hands from its read to its forward.    *)
LEMMA NextHand == IInv /\ HandInv /\ [Next]_vars => HandInv'
<1> SUFFICES ASSUME IInv, HandInv, [Next]_vars PROVE HandInv'
  OBVIOUS
<1> USE DEF HandInv, Wants, connVars, cVars, dVars, hVars
<1>0. TypeOK /\ InsideReconnect
  BY DEF IInv
<1>a. gen \in Nat /\ gen > 0
  BY <1>0, AnswerTypes
<1> USE <1>a
<1>1. ASSUME NEW r \in Reqs, ClientRead(r) PROVE HandInv'
  BY <1>1 DEF ClientRead
<1>2. ASSUME ClientWrite PROVE HandInv'
  BY <1>2 DEF ClientWrite
<1>3. ASSUME ClientTrack PROVE HandInv'
  BY <1>3 DEF ClientTrack
<1>4. ASSUME ClientCheck PROVE HandInv'
  BY <1>4 DEF ClientCheck
<1>5. ASSUME DaemonLoop PROVE HandInv'
  BY <1>5 DEF DaemonLoop
<1>6. ASSUME NEW r \in Reqs, DaemonFrame(r) PROVE HandInv'
  BY <1>6 DEF DaemonFrame
<1>7. ASSUME DaemonEOF PROVE HandInv'
  BY <1>7 DEF DaemonEOF
<1>8. ASSUME DaemonResolve PROVE HandInv'
  BY <1>8 DEF DaemonResolve
<1>9. ASSUME DaemonForward PROVE HandInv'
  BY <1>9 DEF DaemonForward
<1>10. ASSUME HeartCapture PROVE HandInv'
  BY <1>10 DEF HeartCapture
<1>11. ASSUME HeartPing PROVE HandInv'
  BY <1>11 DEF HeartPing
<1>12. ASSUME HeartPong PROVE HandInv'
  BY <1>12 DEF HeartPong
<1>13. ASSUME HeartTimeout PROVE HandInv'
  BY <1>13 DEF HeartTimeout
<1>14. ASSUME NEW a \in Actors, ReconnectSkip(a) PROVE HandInv'
  BY <1>14 DEF ReconnectSkip, Back
<1>15. ASSUME NEW a \in Actors, ReconnectBegin(a) PROVE HandInv'
  BY <1>15 DEF ReconnectBegin
<1>16. ASSUME ReconnectDial PROVE HandInv'
  BY <1>16 DEF ReconnectDial
<1>17. ASSUME ReconnectFail PROVE HandInv'
  BY <1>17 DEF ReconnectFail
<1>18. ASSUME ReconnectAwait PROVE HandInv'
  BY <1>18 DEF ReconnectAwait
<1>19. ASSUME ReconnectPublish PROVE HandInv'
  BY <1>19 DEF ReconnectPublish
<1>20. ASSUME ReconnectSweep PROVE HandInv'
  BY <1>20 DEF ReconnectSweep
<1>21. ASSUME ReconnectSettle PROVE HandInv'
  BY <1>0, <1>21 DEF ReconnectSettle, Back, InsideReconnect
<1>22. ASSUME NEW r \in Reqs, NEW g \in Gens, Answer(r, g) PROVE HandInv'
  BY <1>22 DEF Answer
<1>23. ASSUME Crash PROVE HandInv'
  BY <1>23 DEF Crash
<1>24. ASSUME Drop PROVE HandInv'
  BY <1>24 DEF Drop
<1>25. ASSUME Hang PROVE HandInv'
  BY <1>25 DEF Hang
<1>26. ASSUME Spawn PROVE HandInv'
  BY <1>26 DEF Spawn
<1>27. ASSUME UNCHANGED vars PROVE HandInv'
  BY <1>27 DEF vars
<1> QED
  BY <1>1, <1>2, <1>3, <1>4, <1>5, <1>6, <1>7, <1>8, <1>9, <1>10, <1>11, <1>12,
     <1>13, <1>14, <1>15, <1>16, <1>17, <1>18, <1>19, <1>20, <1>21, <1>22, <1>23, <1>24,
     <1>25, <1>26, <1>27
     DEF Next, ClientPump, DaemonPump, Heartbeat, Enter, Reconnect

(* An answer waits on the connection in use, on the one being opened, or in *)
(* the buffer of the daemon pump.                                            *)
LEMMA NextPending == IInv /\ AnswerInv /\ [Next]_vars => PendingInv'
<1> SUFFICES ASSUME IInv, AnswerInv, [Next]_vars PROVE PendingInv'
  OBVIOUS
<1> USE DEF PendingInv, netVars, connVars, recVars, cVars, dVars, hVars
<1>0. TypeOK /\ InsideReconnect /\ UnsentIsUnknown /\ HandInv /\ PendingInv
  BY DEF IInv, AnswerInv
<1>a. /\ gen \in Nat /\ gen \in Gens /\ Gens \subseteq Nat /\ gen \in 1..gen
      /\ owner \in Actors \cup {None}
  BY <1>0, AnswerTypes DEF TypeOK
\* A step that adds no answer to a connection.
<1>b. ASSUME UNCHANGED <<conn, gen, owner, stage>>,
             dpc = "read" => dpc' = "read" /\ dgen' = dgen,
             \A g \in Gens :
                /\ Pending(g)' \subseteq Pending(g)
                /\ inbox'[g] \subseteq inbox[g]
                /\ inbox'[g] \cap outbox'[g] \subseteq inbox[g] \cap outbox[g]
      PROVE  PendingInv'
  <2>1. raced \subseteq raced'
    BY RacedGrows
  <2> QED
    BY <1>0, <1>b, <2>1
<1>c. ASSUME UNCHANGED <<inbox, outbox>>
      PROVE  \A g \in Gens :
                /\ Pending(g)' \subseteq Pending(g)
                /\ inbox'[g] \subseteq inbox[g]
                /\ inbox'[g] \cap outbox'[g] \subseteq inbox[g] \cap outbox[g]
  BY <1>c DEF Pending
<1> USE <1>0, <1>a
<1>1. ASSUME NEW r \in Reqs, ClientRead(r) PROVE PendingInv'
  BY <1>1, <1>b, <1>c DEF ClientRead
<1>2. ASSUME ClientWrite PROVE PendingInv'
  <2>1. frame \in Reqs /\ UNCHANGED <<gen, conn, owner, stage, dpc, dgen, outbox>>
    BY <1>2, WriteEffect, WritePending
  <2>2. frame \in raced' \/ frame \notin Pending(gen)
    <3>1. CASE frame = Hello
      <4>1. sent[Hello] # {} => Hello \in raced'
        BY <1>2, <3>1, WritePending
      <4>2. Hello \notin raced /\ sent[Hello] = {} => Hello \notin Pending(gen)
        BY DEF HelloInv, AnswerInv
      <4>3. raced \subseteq raced'
        BY RacedGrows
      <4> QED
        BY <3>1, <4>1, <4>2, <4>3
    <3>2. CASE frame \in Calls
      <4>1. sent[frame] = {}
        BY <1>2, <3>2 DEF ClientWrite, UnsentIsUnknown
      <4>2. frame \notin raced => frame \notin Pending(gen)
        BY <3>2, <4>1 DEF CallsInv, AnswerInv
      <4>3. raced \subseteq raced'
        BY RacedGrows
      <4> QED
        BY <4>2, <4>3
    <3> QED
      BY <2>1, <3>1, <3>2 DEF Reqs
  <2>3. CASE Current
    <3>1. \A g \in Gens : inbox'[g] = IF g = gen THEN inbox[g] \cup {frame} ELSE inbox[g]
      BY <1>2, <2>3, WritePending
    <3>2. raced \subseteq raced'
      BY RacedGrows
    <3> QED
      BY <2>1, <2>2, <2>3, <3>1, <3>2 DEF Current, Pending
  <2>4. CASE ~ Current
    <3>1. UNCHANGED inbox
      BY <1>2, <2>4, WritePending
    <3> QED
      BY <2>1, <3>1, <1>b, <1>c
  <2> QED
    BY <2>3, <2>4
<1>3. ASSUME ClientTrack PROVE PendingInv'
  BY <1>3, <1>b, <1>c DEF ClientTrack
<1>4. ASSUME ClientCheck PROVE PendingInv'
  BY <1>4, <1>b, <1>c DEF ClientCheck
<1>5. ASSUME DaemonLoop PROVE PendingInv'
  BY <1>5, <1>b, <1>c DEF DaemonLoop
<1>6. ASSUME NEW r \in Reqs, DaemonFrame(r) PROVE PendingInv'
  <2>1. /\ dpc = "read" /\ dgen \in 1..gen /\ dgen \in Gens
        /\ UNCHANGED <<gen, conn, owner, stage, inbox>>
        /\ (conn /\ gen = dgen) \/ outbox'[dgen] = {}
    BY <1>6 DEF DaemonFrame, HandInv, TypeOK, Gens
  <2>2. Pending(dgen) # {}
    BY <1>6 DEF DaemonFrame, Pending
  <2> QED
    BY <2>1, <2>2, <1>6, PendingShrinks, RacedGrows DEF Pending
<1>7. ASSUME DaemonEOF PROVE PendingInv'
  <2>1. /\ dpc = "read" /\ dgen \in 1..gen /\ dgen \in Gens
        /\ UNCHANGED <<gen, conn, owner, stage, inbox>>
        /\ outbox'[dgen] = {}
    BY <1>7 DEF DaemonEOF, HandInv, TypeOK, Gens
  <2> QED
    BY <2>1, <1>7, PendingShrinks, RacedGrows DEF Pending
<1>8. ASSUME DaemonResolve PROVE PendingInv'
  BY <1>8, <1>b, <1>c DEF DaemonResolve
<1>9. ASSUME DaemonForward PROVE PendingInv'
  BY <1>9, <1>b, <1>c DEF DaemonForward
<1>10. ASSUME HeartCapture PROVE PendingInv'
  BY <1>10, <1>b, <1>c DEF HeartCapture
<1>11. ASSUME HeartPing PROVE PendingInv'
  BY <1>11, <1>b, <1>c DEF HeartPing
<1>12. ASSUME HeartPong PROVE PendingInv'
  BY <1>12, <1>b, <1>c DEF HeartPong
<1>13. ASSUME HeartTimeout PROVE PendingInv'
  BY <1>13, <1>b, <1>c DEF HeartTimeout
<1>14. ASSUME NEW a \in Actors, ReconnectSkip(a) PROVE PendingInv'
  BY <1>14, <1>b, <1>c DEF ReconnectSkip, Back, Wants
<1>15. ASSUME NEW a \in Actors, ReconnectBegin(a) PROVE PendingInv'
  <2>1. /\ owner = None /\ UNCHANGED <<gen, dpc, dgen>>
        /\ inbox'[gen] = {} /\ ((dpc = "read" /\ dgen = gen) \/ outbox'[gen] = {})
    BY <1>15 DEF ReconnectBegin, TypeOK
  <2> QED
    BY <2>1, <1>15, PendingShrinks, RacedGrows DEF Pending
<1>16. ASSUME ReconnectDial PROVE PendingInv'
  <2>1. /\ UNCHANGED <<outbox, conn, gen, owner, dpc, dgen>> /\ owner # None
        /\ stage = "dial" /\ ~ conn
    BY <1>16 DEF ReconnectDial, InsideReconnect
  <2>2. gen + 1 \in Gens /\ Pending(gen + 1) = {}
    BY <1>16, <2>1, DialPending DEF HandInv
  <2> QED
    BY <1>16, <2>1, <2>2, DialPending, RacedGrows DEF Pending
<1>17. ASSUME ReconnectFail PROVE PendingInv'
  <2>1. UNCHANGED <<conn, gen, owner, dpc, dgen>> /\ owner # None /\ ~ conn
    BY <1>17 DEF ReconnectFail, InsideReconnect
  <2>2. ASSUME gen + 1 \in Gens PROVE Pending(gen + 1)' = {}
    BY <1>17, <2>2 DEF ReconnectFail, TypeOK, Pending
  <2> QED
    BY <1>17, <2>1, <2>2, PendingShrinks, RacedGrows
<1>18. ASSUME ReconnectAwait PROVE PendingInv'
  <2>1. UNCHANGED <<conn, gen, owner, inbox, dpc, dgen>> /\ owner # None /\ ~ conn
    BY <1>18 DEF ReconnectAwait, InsideReconnect
  <2>2. ASSUME gen + 1 \in Gens PROVE Pending(gen + 1)' = {}
    <3>1. Hello \in outbox[gen + 1] /\ outbox'[gen + 1] = outbox[gen + 1] \ {Hello}
      BY <1>18, <2>2 DEF ReconnectAwait, TypeOK
    <3>2. Pending(gen + 1) \subseteq {Hello} /\ inbox[gen + 1] \cap outbox[gen + 1] = {}
      BY <2>1, <2>2, <3>1 DEF Pending, HandInv
    <3> QED
      BY <2>1, <2>2, <3>1, <3>2 DEF Pending
  <2> QED
    BY <1>18, <2>1, <2>2, PendingShrinks, RacedGrows
<1>19. ASSUME ReconnectPublish PROVE PendingInv'
  BY <1>19, RacedGrows DEF ReconnectPublish, InsideReconnect, Pending
<1>20. ASSUME ReconnectSweep PROVE PendingInv'
  <2>1. UNCHANGED <<inbox, outbox, conn, gen, owner, dpc, dgen>> /\ stage # "await"
    BY <1>20 DEF ReconnectSweep
  <2> QED
    BY <2>1, RacedGrows DEF Pending
<1>21. ASSUME ReconnectSettle PROVE PendingInv'
  <2>1. /\ owner # None /\ stage = "settle" /\ owner' = None
        /\ UNCHANGED <<inbox, outbox, conn, gen>>
        /\ dpc = "read" => dpc' = "read" /\ dgen' = dgen
    BY <1>21 DEF ReconnectSettle, Back, InsideReconnect, Wants
  <2> QED
    BY <2>1, RacedGrows DEF Pending
<1>22. ASSUME NEW r \in Reqs, NEW g \in Gens, Answer(r, g) PROVE PendingInv'
  BY <1>22, <1>b, PendingShrinks DEF Answer
<1>23. ASSUME Crash PROVE PendingInv'
  BY <1>23, <1>b, PendingShrinks DEF Crash
<1>24. ASSUME Drop PROVE PendingInv'
  BY <1>24, <1>b, PendingShrinks DEF Drop
<1>25. ASSUME Hang PROVE PendingInv'
  BY <1>25, <1>b, <1>c DEF Hang
<1>26. ASSUME Spawn PROVE PendingInv'
  BY <1>26, <1>b, <1>c DEF Spawn
<1>27. ASSUME UNCHANGED vars PROVE PendingInv'
  BY <1>27, <1>b, <1>c DEF vars
<1> QED
  BY <1>1, <1>2, <1>3, <1>4, <1>5, <1>6, <1>7, <1>8, <1>9, <1>10, <1>11, <1>12,
     <1>13, <1>14, <1>15, <1>16, <1>17, <1>18, <1>19, <1>20, <1>21, <1>22, <1>23, <1>24,
     <1>25, <1>26, <1>27
     DEF Next, ClientPump, DaemonPump, Heartbeat, Enter, Reconnect
(* An error goes to a call that waited in the ledger: it has no answer, and  *)
(* none is to come, unless it is on its way at that moment.                  *)
LEMMA SweepsTheUnanswered ==
  ASSUME IInv, AnswerInv, NEW n \in Nat, FailOutstandingBelow(n),
         n = gen \/ (n = gen + 1 /\ ~ conn)
  PROVE  \A r \in Calls \ raced' :
            \/ ledger'[r] = ledger[r] /\ errors'[r] = errors[r]
            \/ /\ results[r] = 0 /\ errors[r] = 0 /\ errors'[r] = 1 /\ ledger'[r] = 0
               /\ dframe # r /\ sent[r] # {} /\ \A g \in 1..gen : r \notin Pending(g)
               /\ ~ (cpc = "track" /\ frame = r)
<1>0. TypeOK /\ FrameInPump /\ LedgerIsTrue /\ HandInv /\ PendingInv /\ CallsInv
  BY DEF IInv, AnswerInv
<1> SUFFICES ASSUME NEW r \in Calls \ raced',
                    ~ (ledger'[r] = ledger[r] /\ errors'[r] = errors[r])
             PROVE  /\ results[r] = 0 /\ errors[r] = 0 /\ errors'[r] = 1 /\ ledger'[r] = 0
                    /\ dframe # r /\ sent[r] # {} /\ \A g \in 1..gen : r \notin Pending(g)
                    /\ ~ (cpc = "track" /\ frame = r)
  OBVIOUS
<1>1. ledger[r] > 0 /\ ledger[r] < n /\ ledger'[r] = 0 /\ errors'[r] = errors[r] + 1
  BY <1>0, SweepEffect
<1>2. /\ gen \in Nat \ {0} /\ gen \in Gens /\ ledger[r] \in Nat /\ errors[r] \in Nat
      /\ results[r] \in Nat
  BY <1>0, AnswerTypes
<1>3. sent[r] = {ledger[r]} /\ ledger[r] <= gen
  BY <1>0, <1>1 DEF LedgerIsTrue
<1>4. r \notin raced /\ ~ OnItsWay(r)
  <2>1. r \in Swept(n)
    BY <1>1, <1>2 DEF Swept
  <2> QED
    BY <2>1 DEF FailOutstandingBelow
<1>5. results[r] = 0 /\ errors[r] = 0
  BY <1>0, <1>1, <1>2, <1>4 DEF CallsInv, Settled
<1>6. ~ (cpc = "track" /\ frame = r)
  BY <1>0, <1>1, <1>2 DEF FrameInPump
<1>7. ASSUME NEW g \in 1..gen, r \in Pending(g) PROVE FALSE
  <2>1. g = ledger[r] /\ g \in Gens /\ Hello # r
    <3>1. sent[r] = {g}
      BY <1>0, <1>4, <1>7 DEF CallsInv
    <3>2. g \in Gens
      BY <1>2, BoundsAssumption DEF Gens
    <3> QED
      BY <1>3, <3>1, <3>2, BoundsAssumption
  <2>2. ~ (conn /\ g = gen) /\ ~ g = gen + 1
    BY <1>1, <1>2, <1>7, <2>1
  <2>3. dpc = "read" /\ g = dgen /\ inbox[g] = {}
    BY <1>0, <1>7, <2>1, <2>2 DEF PendingInv
  <2> QED
    BY <1>4, <1>7, <2>3 DEF OnItsWay, Pending
<1>8. dframe # r
  <2>1. r # None
    BY <1>0, AnswerTypes
  <2> QED
    BY <1>0, <1>1, <1>2, <1>4, <2>1 DEF HandInv, OnItsWay, CallsInv, Settled
<1> QED
  BY <1>1, <1>3, <1>5, <1>6, <1>7, <1>8

(* A handshake that is waited for was written by the dial before.            *)
LEMMA NextAwait == IInv /\ AnswerInv /\ [Next]_vars => AwaitInv'
<1> SUFFICES ASSUME IInv, AnswerInv, [Next]_vars PROVE AwaitInv'
  OBVIOUS
<1> USE DEF AwaitInv, recVars
<1>0. TypeOK /\ AwaitInv /\ HandInv
  BY DEF IInv, AnswerInv
<1>1. CASE ReconnectDial
  <2>1. /\ stage' = IF captured THEN "await" ELSE "publish"
        /\ sent' = [sent EXCEPT ![Hello] = IF captured THEN @ \cup {gen + 1} ELSE @]
    BY <1>1 DEF ReconnectDial
  <2>2. Hello \in Reqs /\ sent \in [Reqs -> SUBSET Gens]
    BY <1>0, AnswerTypes DEF TypeOK
  <2>3. captured => sent'[Hello] = sent[Hello] \cup {gen + 1}
    BY <2>1, <2>2
  <2> QED
    BY <2>1, <2>3
<1>2. CASE ClientWrite
  <2>1. Hello \in Reqs
    BY <1>0, AnswerTypes
  <2> QED
    BY <1>0, <1>2, <2>1, WriteEffect
<1>3. CASE ReconnectFail \/ ReconnectAwait \/ ReconnectPublish \/ ReconnectSweep
           \/ ReconnectSettle \/ \E a \in Actors : ReconnectBegin(a)
  BY <1>0, <1>3 DEF ReconnectFail, ReconnectAwait, ReconnectPublish, ReconnectSweep,
     ReconnectSettle, ReconnectBegin
<1>4. CASE Apart
  BY <1>0, <1>4, ApartEffect DEF coreVars
<1>5. CASE \/ (\E r \in Reqs : ClientRead(r)) \/ ClientTrack \/ ClientCheck \/ DaemonResolve
           \/ DaemonForward \/ \E a \in Actors : ReconnectSkip(a)
  BY <1>0, <1>5 DEF ClientRead, ClientTrack, ClientCheck, DaemonResolve, DaemonForward,
     ReconnectSkip
<1> QED
  BY <1>1, <1>2, <1>3, <1>4, <1>5 DEF Next, ClientPump, DaemonPump, Enter, Reconnect, Apart

(* The same of each call: see CallsInv.                                      *)
LEMMA NextCalls == IInv /\ AnswerInv /\ [Next]_vars => CallsInv'
<1> SUFFICES ASSUME IInv, AnswerInv, [Next]_vars PROVE CallsInv'
  OBVIOUS
<1> USE DEF daemonVars, netVars, connVars, recVars, cVars, dVars, hVars, clientVars
<1>0. /\ TypeOK /\ InsideReconnect /\ UnsentIsUnknown /\ FrameInPump
      /\ HandInv /\ PendingInv /\ CallsInv
  BY DEF IInv, AnswerInv
<1>a. /\ gen \in Nat \ {0} /\ gen \in Gens /\ Gens \subseteq Nat /\ 1..gen \subseteq Gens
      /\ frame \in Reqs \cup {None} /\ dframe \in Reqs \cup {None}
      /\ Hello \in Reqs /\ Hello \notin Calls /\ None \notin Reqs /\ Reqs = Calls \cup {Hello}
      /\ \A r \in Calls : ledger[r] \in Nat /\ errors[r] \in Nat /\ results[r] \in Nat
  <2>1. 1..gen \subseteq Gens
    BY <1>0, BoundsAssumption DEF TypeOK, Gens
  <2> QED
    BY <1>0, <2>1, AnswerTypes
<1>r. raced \subseteq raced'
  BY RacedGrows
\* A step that adds no answer to a connection and settles nothing.
<1>b. ASSUME UNCHANGED <<gen, ledger, results, errors, dframe>>,
             \A g \in 1..gen : Pending(g)' \subseteq Pending(g),
             \A r \in Calls : sent'[r] = sent[r],
             dpc' = "forward" => dpc = "forward",
             cpc' = "track" => cpc = "track" /\ frame' = frame
      PROVE  CallsInv'
  BY <1>0, <1>r, <1>b DEF CallsInv, Settled
<1>c. ASSUME UNCHANGED <<inbox, outbox>> PROVE \A g \in Gens : Pending(g)' = Pending(g)
  BY <1>c DEF Pending
\* A sweep.
<1>d. ASSUME NEW n \in Nat, FailOutstandingBelow(n), n = gen \/ (n = gen + 1 /\ ~ conn),
             UNCHANGED <<gen, results, dpc, dframe, sent>>,
             \A g \in 1..gen : Pending(g)' \subseteq Pending(g),
             cpc' = "track" => cpc = "track" /\ frame' = frame
      PROVE  CallsInv'
  <2>1. ASSUME NEW r \in Calls \ raced'
        PROVE  /\ \A g \in 1..gen' : r \in Pending(g)' =>
                    sent'[r] = {g} /\ results'[r] = 0 /\ errors'[r] = 0 /\ dframe' # r
               /\ dframe' = r =>
                    /\ sent'[r] # {} /\ results'[r] = 0 /\ errors'[r] = 0
                    /\ dpc' = "forward" => Settled(r)'
               /\ results'[r] + errors'[r] > 0 => sent'[r] # {} /\ Settled(r)'
               /\ results'[r] + errors'[r] <= 1
    <3>1. CASE ledger'[r] = ledger[r] /\ errors'[r] = errors[r]
      BY <1>0, <1>r, <1>d, <3>1 DEF CallsInv, Settled
    <3>2. CASE /\ results[r] = 0 /\ errors[r] = 0 /\ errors'[r] = 1 /\ ledger'[r] = 0
               /\ dframe # r /\ sent[r] # {} /\ \A g \in 1..gen : r \notin Pending(g)
               /\ ~ (cpc = "track" /\ frame = r)
      BY <1>d, <3>2 DEF Settled
    <3> QED
      BY <1>d, <3>1, <3>2, SweepsTheUnanswered
  <2> QED
    BY <2>1 DEF CallsInv
<1>1. ASSUME NEW x \in Reqs, ClientRead(x) PROVE CallsInv'
  BY <1>a, <1>1, <1>b, <1>c DEF ClientRead
<1>2. ASSUME ClientWrite PROVE CallsInv'
  <2>1. /\ cpc = "write" /\ frame \in Reqs
        /\ UNCHANGED <<gen, outbox, ledger, frame, results, errors, dpc, dframe>>
    BY <1>0, <1>2, WriteEffect, WritePending
  <2>2. CASE ~ Current
    <3>1. cpc' = "reconnect" /\ UNCHANGED <<inbox, sent>>
      BY <1>0, <1>2, <2>2, WritePending
    <3> QED
      BY <1>a, <2>1, <3>1, <1>b, <1>c
  <2>3. CASE Current
    <3>1. /\ \A g \in Gens : inbox'[g] = IF g = gen THEN inbox[g] \cup {frame} ELSE inbox[g]
          /\ \A r \in Reqs : sent'[r] = IF r = frame THEN sent[r] \cup {gen} ELSE sent[r]
      BY <1>0, <1>a, <1>2, <2>3, WriteEffect, WritePending
    <3>2. \A g \in Gens :
             Pending(g)' = IF g = gen THEN Pending(g) \cup {frame} ELSE Pending(g)
      BY <2>1, <3>1 DEF Pending
    <3>3. frame \in Calls => sent[frame] = {} /\ ledger[frame] = 0 /\ errors[frame] = 0
      BY <1>0, <2>1 DEF UnsentIsUnknown
    <3>4. frame \in Calls \ raced =>
            /\ results[frame] = 0 /\ dframe # frame
            /\ \A g \in 1..gen : frame \notin Pending(g)
      BY <1>0, <1>a, <3>3 DEF CallsInv
    <3>5. ASSUME NEW r \in Calls, r # frame
          PROVE  /\ sent'[r] = sent[r]
                 /\ \A g \in 1..gen : r \in Pending(g)' <=> r \in Pending(g)
                 /\ Settled(r)' <=> Settled(r)
      BY <1>a, <2>1, <3>1, <3>2, <3>5 DEF Settled
    <3>6. ASSUME NEW r \in Calls \ raced, r = frame
          PROVE  /\ sent'[r] = {gen} /\ dframe' # r
                 /\ \A g \in 1..gen : r \in Pending(g)' => g = gen
                 /\ results'[r] = 0 /\ errors'[r] = 0
      BY <1>a, <2>1, <3>1, <3>2, <3>3, <3>4, <3>6
    <3> QED
      BY <1>0, <1>a, <1>r, <2>1, <3>5, <3>6 DEF CallsInv
  <2> QED
    BY <2>2, <2>3
<1>3. ASSUME ClientTrack PROVE CallsInv'
  <2>1. /\ cpc = "track" /\ cpc' # "track"
        /\ UNCHANGED <<gen, inbox, outbox, raced, results, errors, dpc, dframe, sent>>
    BY <1>3 DEF ClientTrack, Idle
  <2>2. \A r \in Calls : Settled(r) => Settled(r)'
    BY <1>3, <2>1 DEF ClientTrack, Settled
  <2> QED
    BY <1>0, <1>a, <2>1, <2>2, <1>c DEF CallsInv
<1>4. ASSUME ClientCheck PROVE CallsInv'
  <2>1. /\ cpc = "check" /\ cpc' = "read"
        /\ UNCHANGED <<gen, inbox, outbox, results, dpc, dframe, sent>>
    BY <1>4 DEF ClientCheck, Idle
  <2>2. CASE FailOutstandingBelow(gen)
    BY <1>a, <2>1, <2>2, <1>c, <1>d
  <2>3. CASE UNCHANGED <<ledger, errors>>
    BY <1>a, <2>1, <2>3, <1>b, <1>c
  <2> QED
    BY <1>4, <2>2, <2>3 DEF ClientCheck
<1>5. ASSUME DaemonLoop PROVE CallsInv'
  BY <1>a, <1>5, <1>b, <1>c DEF DaemonLoop
<1>6. ASSUME NEW x \in Reqs, DaemonFrame(x) PROVE CallsInv'
  <2>1. /\ dgen \in 1..gen /\ x \in outbox[dgen] /\ dframe' = x /\ dpc' = "resolve"
        /\ UNCHANGED <<gen, inbox, raced, ledger, cpc, frame, results, errors, sent>>
    BY <1>0, <1>6 DEF DaemonFrame, HandInv
  <2>2. x \in Pending(dgen) /\ \A g \in 1..gen : Pending(g)' \subseteq Pending(g)
    BY <1>a, <1>0, <2>1, <1>6, PendingShrinks DEF Pending
  <2>3. ASSUME NEW g \in 1..gen, g = dgen, x \notin raced PROVE x \notin Pending(g)'
    <3>1. x \notin outbox'[g]
      BY <1>a, <1>0, <1>6, <2>1, <2>3 DEF DaemonFrame, TypeOK
    <3>2. x \notin inbox[g]
      BY <1>a, <1>0, <2>1, <2>3 DEF PendingInv
    <3> QED
      BY <2>1, <3>1, <3>2 DEF Pending
  <2>4. \A r \in Calls : Settled(r)' = Settled(r)
    BY <2>1 DEF Settled
  <2>5. ASSUME NEW r \in Calls \ raced', NEW g \in 1..gen', r \in Pending(g)'
        PROVE  sent'[r] = {g} /\ results'[r] = 0 /\ errors'[r] = 0 /\ dframe' # r
    <3>1. r \in Pending(g) /\ r \notin raced /\ g \in 1..gen
      BY <2>1, <2>2, <2>5
    <3>2. sent[r] = {g} /\ results[r] = 0 /\ errors[r] = 0
      BY <1>0, <3>1 DEF CallsInv
    <3>3. ASSUME r = x PROVE FALSE
      <4>1. sent[r] = {dgen}
        BY <1>0, <2>1, <2>2, <3>1, <3>3 DEF CallsInv
      <4> QED
        BY <2>3, <2>5, <3>1, <3>2, <3>3, <4>1, BoundsAssumption
    <3> QED
      BY <2>1, <3>2, <3>3
  <2>6. ASSUME NEW r \in Calls \ raced'
        PROVE  /\ dframe' = r =>
                    /\ sent'[r] # {} /\ results'[r] = 0 /\ errors'[r] = 0
                    /\ dpc' = "forward" => Settled(r)'
               /\ results'[r] + errors'[r] > 0 => sent'[r] # {} /\ Settled(r)'
               /\ results'[r] + errors'[r] <= 1
    BY <1>0, <2>1, <2>2, <2>4 DEF CallsInv
  <2> QED
    BY <2>5, <2>6 DEF CallsInv
<1>7. ASSUME DaemonEOF PROVE CallsInv'
  <2>1. \A g \in 1..gen : Pending(g)' \subseteq Pending(g)
    BY <1>0, <1>a, <1>7, PendingShrinks
  <2> QED
    BY <1>7, <2>1, <1>b DEF DaemonEOF
<1>8. ASSUME DaemonResolve PROVE CallsInv'
  <2>1. /\ \A r \in Calls : ledger'[r] = IF r = dframe THEN 0 ELSE ledger[r]
        /\ \A r \in Calls : r = dframe /\ r = frame /\ cpc = "track" => r \in raced'
        /\ UNCHANGED <<gen, inbox, outbox, cpc, frame, dframe, results, errors, sent>>
    BY <1>8 DEF DaemonResolve
  <2>2. \A r \in Calls \ raced' : (Settled(r) => Settled(r)') /\ (r = dframe => Settled(r)')
    BY <2>1 DEF Settled
  <2> QED
    BY <1>0, <1>a, <1>r, <2>1, <2>2, <1>c DEF CallsInv
<1>9. ASSUME DaemonForward PROVE CallsInv'
  <2>1. /\ dpc = "forward" /\ dframe' = None
        /\ UNCHANGED <<gen, inbox, outbox, raced, cpc, frame, ledger, errors, sent>>
    BY <1>9 DEF DaemonForward
  <2>2. \A r \in Calls : results'[r] = IF r = dframe THEN results[r] + 1 ELSE results[r]
    BY <1>0, <1>a, <1>9, ForwardEffect
  <2>3. \A r \in Calls : Settled(r)' = Settled(r)
    BY <2>1 DEF Settled
  <2> QED
    BY <1>0, <1>a, <2>1, <2>2, <2>3, <1>c DEF CallsInv
<1>10. ASSUME Heartbeat PROVE CallsInv'
  BY <1>a, <1>10, <1>b, <1>c DEF Heartbeat, HeartCapture, HeartPing, HeartPong, HeartTimeout
<1>11. ASSUME NEW a \in Actors, ReconnectSkip(a) PROVE CallsInv'
  BY <1>a, <1>11, <1>b, <1>c DEF ReconnectSkip, Back
<1>12. ASSUME NEW a \in Actors, ReconnectBegin(a) PROVE CallsInv'
  <2>1. \A g \in 1..gen : Pending(g)' \subseteq Pending(g)
    BY <1>0, <1>a, <1>12, PendingShrinks
  <2> QED
    BY <1>12, <2>1, <1>b DEF ReconnectBegin
<1>13. ASSUME ReconnectDial PROVE CallsInv'
  <2>1. \A g \in 1..gen : inbox'[g] = inbox[g]
    BY <1>0, <1>a, <1>13, DialPending
  <2>2. UNCHANGED <<gen, outbox>>
    BY <1>13 DEF ReconnectDial
  <2>3. \A g \in 1..gen : Pending(g)' \subseteq Pending(g)
    BY <2>1, <2>2 DEF Pending
  <2>4. \A r \in Calls : sent'[r] = sent[r]
    BY <1>0, <1>13, DialEffect
  <2> QED
    BY <1>13, <2>3, <2>4, <1>b DEF ReconnectDial
<1>14. ASSUME ReconnectFail PROVE CallsInv'
  <2>1. /\ ~ conn
        /\ UNCHANGED <<gen, cpc, frame, results, dpc, dframe, sent>>
    BY <1>0, <1>14 DEF ReconnectFail, InsideReconnect
  <2>2. \A g \in 1..gen : Pending(g)' \subseteq Pending(g)
    BY <1>0, <1>a, <1>14, PendingShrinks
  <2>3. CASE FailOutstandingBelow(gen + 1)
    BY <1>a, <2>1, <2>2, <2>3, <1>d
  <2>4. CASE UNCHANGED <<ledger, errors>>
    BY <2>1, <2>2, <2>4, <1>b
  <2> QED
    BY <1>14, <2>3, <2>4 DEF ReconnectFail
<1>15. ASSUME ReconnectAwait PROVE CallsInv'
  <2>1. UNCHANGED <<gen, cpc, frame, ledger, errors, dpc, dframe, sent>>
    BY <1>15 DEF ReconnectAwait
  <2>2. \A g \in 1..gen : Pending(g)' \subseteq Pending(g)
    BY <1>0, <1>a, <1>15, PendingShrinks
  <2>3. \A r \in Calls : results'[r] = results[r] /\ Settled(r)' = Settled(r)
    BY <1>0, <2>1, <1>15, AwaitEffect DEF Settled
  <2> QED
    BY <1>0, <1>r, <2>1, <2>2, <2>3 DEF CallsInv
<1>16. ASSUME ReconnectPublish PROVE CallsInv'
  <2>1. /\ gen' = gen + 1 /\ stage = "publish" /\ ~ conn /\ gen + 1 \in Gens
        /\ UNCHANGED <<inbox, outbox, raced, cpc, frame, ledger, results, errors, dpc, dframe,
                       sent>>
    BY <1>0, <1>a, <1>16, BoundsAssumption DEF ReconnectPublish, InsideReconnect, Gens
  <2>2. Pending(gen + 1) = {}
    BY <1>0, <1>a, <2>1 DEF PendingInv, HandInv
  <2>3. ASSUME NEW r, NEW g \in 1..gen', r \in Pending(g)' PROVE r \in Pending(g) /\ g \in 1..gen
    BY <1>a, <2>1, <2>2, <2>3 DEF Pending
  <2>4. \A r \in Calls : Settled(r)' = Settled(r)
    BY <2>1 DEF Settled
  <2> QED
    BY <1>0, <2>1, <2>3, <2>4 DEF CallsInv
<1>17. ASSUME ReconnectSweep PROVE CallsInv'
  <2>1. /\ FailOutstandingBelow(gen)
        /\ UNCHANGED <<gen, inbox, outbox, cpc, frame, results, dpc, dframe, sent>>
    BY <1>17 DEF ReconnectSweep
  <2> QED
    BY <1>a, <2>1, <1>c, <1>d
<1>18. ASSUME ReconnectSettle PROVE CallsInv'
  BY <1>a, <1>18, <1>b, <1>c DEF ReconnectSettle, Back
<1>19. ASSUME \/ \E x \in Reqs, g \in Gens : Answer(x, g)
              \/ Crash \/ Drop
       PROVE CallsInv'
  <2>1. \A g \in 1..gen : Pending(g)' \subseteq Pending(g)
    BY <1>0, <1>a, <1>19, PendingShrinks
  <2> QED
    BY <1>19, <2>1, <1>b DEF Answer, Crash, Drop
<1>20. ASSUME Hang \/ Spawn \/ UNCHANGED vars PROVE CallsInv'
  BY <1>a, <1>20, <1>b, <1>c DEF Hang, Spawn, vars
<1> QED
  BY <1>1, <1>2, <1>3, <1>4, <1>5, <1>6, <1>7, <1>8, <1>9, <1>10, <1>11, <1>12,
     <1>13, <1>14, <1>15, <1>16, <1>17, <1>18, <1>19, <1>20
     DEF Next, ClientPump, DaemonPump, Enter, Reconnect

(* The answer to initialize goes to the client once: out of the daemon pump, *)
(* or out of the reconnect that replays it, never both.                      *)
LEMMA NextHello == IInv /\ AnswerInv /\ [Next]_vars => (Hello \notin raced => HelloInv)'
<1> SUFFICES ASSUME IInv, AnswerInv, [Next]_vars, Hello \notin raced' PROVE HelloInv'
  OBVIOUS
<1> USE DEF daemonVars, netVars, connVars, recVars, cVars, dVars, hVars, clientVars
<1>r. Hello \notin raced
  BY RacedGrows
<1>0. TypeOK /\ InsideReconnect /\ HandInv /\ PendingInv /\ AwaitInv /\ HelloInv
  BY <1>r DEF IInv, AnswerInv
<1>a. /\ gen \in Nat \ {0} /\ gen \in Gens /\ Gens \subseteq Nat /\ 1..gen \subseteq Gens
      /\ frame \in Reqs \cup {None} /\ dframe \in Reqs \cup {None}
      /\ Hello \in Reqs /\ Hello # None /\ results[Hello] \in Nat
      /\ answered \in BOOLEAN
  <2>1. 1..gen \subseteq Gens
    BY <1>0, BoundsAssumption DEF TypeOK, Gens
  <2> QED
    BY <1>0, <2>1, AnswerTypes DEF TypeOK
<1>b. ASSUME UNCHANGED <<gen, answered, results, dframe>>,
             \A g \in 1..gen : Pending(g)' \subseteq Pending(g),
             sent[Hello] # {} => sent'[Hello] # {},
             dpc # dpc' => dpc' # "forward" /\ dpc # "forward"
      PROVE  HelloInv'
  BY <1>0, <1>b DEF HelloInv
<1>c. ASSUME UNCHANGED <<inbox, outbox>> PROVE \A g \in Gens : Pending(g)' = Pending(g)
  BY <1>c DEF Pending
<1>1. ASSUME NEW x \in Reqs, ClientRead(x) PROVE HelloInv'
  BY <1>a, <1>1, <1>b, <1>c DEF ClientRead
<1>2. ASSUME ClientWrite PROVE HelloInv'
  <2>1. /\ cpc = "write" /\ frame \in Reqs
        /\ UNCHANGED <<gen, outbox, frame, results, dpc, dframe, answered>>
    BY <1>0, <1>2, WriteEffect, WritePending
  <2>2. CASE ~ Current
    <3>1. UNCHANGED <<inbox, sent>>
      BY <1>0, <1>2, <2>2, WritePending
    <3> QED
      BY <1>a, <2>1, <3>1, <1>b, <1>c
  <2>3. CASE Current
    <3>1. /\ \A g \in Gens : inbox'[g] = IF g = gen THEN inbox[g] \cup {frame} ELSE inbox[g]
          /\ \A r \in Reqs : sent'[r] = IF r = frame THEN sent[r] \cup {gen} ELSE sent[r]
      BY <1>0, <1>a, <1>2, <2>3, WriteEffect, WritePending
    <3>2. \A g \in Gens :
             Pending(g)' = IF g = gen THEN Pending(g) \cup {frame} ELSE Pending(g)
      BY <2>1, <3>1 DEF Pending
    <3>3. CASE frame = Hello
      <4>1. sent[Hello] = {}
        BY <1>0, <1>2, <3>3, WritePending
      <4>2. sent'[Hello] # {}
        BY <1>a, <3>1, <3>3
      <4>3. ~ answered /\ dframe # Hello /\ \A g \in 1..gen : Hello \notin Pending(g)
        BY <1>0, <4>1 DEF HelloInv
      <4>4. \A g \in 1..gen : Hello \in Pending(g)' => g = gen
        BY <1>a, <3>2, <4>3
      <4> QED
        BY <1>0, <2>1, <4>2, <4>3, <4>4 DEF HelloInv
    <3>4. CASE frame # Hello
      <4>1. sent'[Hello] = sent[Hello]
        BY <1>a, <3>1, <3>4
      <4>2. \A g \in 1..gen : Hello \in Pending(g)' => Hello \in Pending(g)
        BY <1>a, <3>2, <3>4
      <4> QED
        BY <1>0, <2>1, <4>1, <4>2 DEF HelloInv
    <3> QED
      BY <3>3, <3>4
  <2> QED
    BY <2>2, <2>3
<1>3. ASSUME ClientTrack PROVE HelloInv'
  BY <1>a, <1>3, <1>b, <1>c DEF ClientTrack
<1>4. ASSUME ClientCheck PROVE HelloInv'
  BY <1>a, <1>4, <1>b, <1>c DEF ClientCheck
<1>5. ASSUME DaemonLoop PROVE HelloInv'
  BY <1>a, <1>5, <1>b, <1>c DEF DaemonLoop
<1>6. ASSUME NEW x \in Reqs, DaemonFrame(x) PROVE HelloInv'
  <2>1. /\ dgen \in 1..gen /\ x \in outbox[dgen] /\ dframe' = x /\ dpc' = "resolve"
        /\ UNCHANGED <<gen, inbox, answered, results, sent>>
    BY <1>0, <1>6 DEF DaemonFrame, HandInv
  <2>2. x \in Pending(dgen) /\ \A g \in 1..gen : Pending(g)' \subseteq Pending(g)
    BY <1>a, <1>0, <2>1, <1>6, PendingShrinks DEF Pending
  <2>3. CASE x = Hello
    <3>1. /\ sent[Hello] # {} /\ ~ answered
          /\ \A g \in 1..gen : Hello \in Pending(g) => g = dgen
      BY <1>0, <2>1, <2>2, <2>3 DEF HelloInv
    <3>2. ASSUME NEW g \in 1..gen, g = dgen PROVE Hello \notin Pending(g)'
      <4>1. Hello \notin outbox'[g]
        BY <1>a, <1>0, <1>6, <2>1, <2>3, <3>2 DEF DaemonFrame, TypeOK
      <4>2. Hello \notin inbox[g]
        BY <1>a, <1>r, <1>0, <2>1, <2>3, <3>2 DEF PendingInv
      <4> QED
        BY <2>1, <4>1, <4>2 DEF Pending
    <3>3. \A g \in 1..gen : Hello \notin Pending(g)'
      BY <2>2, <3>1, <3>2
    <3> QED
      BY <1>0, <2>1, <2>3, <3>1, <3>3 DEF HelloInv
  <2>4. CASE x # Hello
    BY <1>0, <2>1, <2>2, <2>4 DEF HelloInv
  <2> QED
    BY <2>3, <2>4
<1>7. ASSUME DaemonEOF PROVE HelloInv'
  <2>1. \A g \in 1..gen : Pending(g)' \subseteq Pending(g)
    BY <1>0, <1>a, <1>7, PendingShrinks
  <2> QED
    BY <1>7, <2>1, <1>b DEF DaemonEOF
<1>8. ASSUME DaemonResolve PROVE HelloInv'
  <2>1. /\ dpc' = "forward" /\ answered' = (answered \/ dframe = Hello)
        /\ dpc = "resolve"
        /\ UNCHANGED <<gen, inbox, outbox, dframe, results, sent>>
    BY <1>8 DEF DaemonResolve
  <2>2. \A g \in 1..gen : Pending(g)' = Pending(g)
    BY <1>a, <2>1, <1>c
  <2>3. CASE dframe = Hello
    <3>1. answered' /\ \A g \in 1..gen : Hello \notin Pending(g)
      BY <1>0, <2>1, <2>3 DEF HelloInv
    <3> QED
      BY <1>0, <2>1, <2>2, <2>3, <3>1 DEF HelloInv
  <2>4. CASE dframe # Hello
    <3>1. answered' <=> answered
      BY <2>1, <2>4
    <3> QED
      BY <1>0, <2>1, <2>2, <2>4, <3>1 DEF HelloInv
  <2> QED
    BY <2>3, <2>4
<1>9. ASSUME DaemonForward PROVE HelloInv'
  <2>1. /\ dpc = "forward" /\ dframe' = None /\ dpc' = "loop"
        /\ UNCHANGED <<gen, inbox, outbox, answered, sent>>
    BY <1>9 DEF DaemonForward
  <2>2. results'[Hello] = IF dframe = Hello THEN results[Hello] + 1 ELSE results[Hello]
    BY <1>0, <1>a, <1>9, ForwardEffect
  <2>3. \A g \in 1..gen : Pending(g)' = Pending(g)
    BY <1>a, <2>1, <1>c
  <2>4. CASE dframe = Hello
    <3>1. results'[Hello] = 1 /\ answered
      BY <1>0, <2>1, <2>2, <2>4 DEF HelloInv
    <3> QED
      BY <1>0, <1>a, <2>1, <2>3, <2>4, <3>1 DEF HelloInv
  <2>5. CASE dframe # Hello
    BY <1>0, <1>a, <2>1, <2>2, <2>3, <2>5 DEF HelloInv
  <2> QED
    BY <2>4, <2>5
<1>10. ASSUME Heartbeat PROVE HelloInv'
  BY <1>a, <1>10, <1>b, <1>c DEF Heartbeat, HeartCapture, HeartPing, HeartPong, HeartTimeout
<1>11. ASSUME NEW a \in Actors, ReconnectSkip(a) PROVE HelloInv'
  BY <1>a, <1>11, <1>b, <1>c DEF ReconnectSkip, Back, Wants
<1>12. ASSUME NEW a \in Actors, ReconnectBegin(a) PROVE HelloInv'
  <2>1. \A g \in 1..gen : Pending(g)' \subseteq Pending(g)
    BY <1>0, <1>a, <1>12, PendingShrinks
  <2> QED
    BY <1>12, <2>1, <1>b DEF ReconnectBegin
<1>13. ASSUME ReconnectDial PROVE HelloInv'
  <2>1. \A g \in 1..gen : inbox'[g] = inbox[g]
    BY <1>0, <1>a, <1>13, DialPending
  <2>2. UNCHANGED <<gen, outbox>>
    BY <1>13 DEF ReconnectDial
  <2>3. \A g \in 1..gen : Pending(g)' \subseteq Pending(g)
    BY <2>1, <2>2 DEF Pending
  <2>4. sent[Hello] \subseteq sent'[Hello]
    BY <1>0, <1>13, DialPending
  <2> QED
    BY <1>13, <2>3, <2>4, <1>b DEF ReconnectDial
<1>14. ASSUME ReconnectFail PROVE HelloInv'
  <2>1. UNCHANGED <<gen, answered, results, dpc, dframe, sent>>
    BY <1>14 DEF ReconnectFail
  <2>2. \A g \in 1..gen : Pending(g)' \subseteq Pending(g)
    BY <1>0, <1>a, <1>14, PendingShrinks
  <2> QED
    BY <2>1, <2>2, <1>b
\* Either the client has its answer, and the new one is swallowed, or none is on
\* its way.
<1>15. ASSUME ReconnectAwait PROVE HelloInv'
  <2>1. /\ answered' /\ ~ conn /\ owner # None /\ stage = "await"
        /\ answered \/ ~ OnItsWay(Hello)
        /\ UNCHANGED <<gen, dpc, dframe, sent>>
    BY <1>0, <1>15 DEF ReconnectAwait, InsideReconnect
  <2>2. results'[Hello] = IF answered THEN results[Hello] ELSE results[Hello] + 1
    BY <1>0, <1>a, <1>15 DEF ReconnectAwait, TypeOK
  <2>3. sent[Hello] # {}
    BY <1>0, <2>1 DEF AwaitInv
  <2>4. \A g \in 1..gen : Hello \notin Pending(g)
    <3>1. CASE answered
      BY <1>0, <3>1 DEF HelloInv
    <3>2. CASE ~ OnItsWay(Hello)
      <4>1. ASSUME NEW g \in 1..gen, Hello \in Pending(g) PROVE FALSE
        <5>1. g \in Gens /\ g # gen + 1
          BY <1>a
        <5>2. dpc = "read" /\ g = dgen /\ inbox[g] = {}
          BY <1>0, <2>1, <4>1, <5>1 DEF PendingInv
        <5> QED
          BY <3>2, <4>1, <5>2 DEF OnItsWay, Pending
      <4> QED
        BY <4>1
    <3> QED
      BY <2>1, <3>1, <3>2
  <2>5. \A g \in 1..gen : Hello \notin Pending(g)'
    BY <1>0, <1>a, <2>4, <1>15, PendingShrinks
  <2>6. dframe = Hello => dpc = "forward" /\ answered
    BY <1>0, <1>a, <2>1 DEF HandInv, OnItsWay, HelloInv
  <2>7. CASE answered
    BY <1>0, <2>1, <2>2, <2>3, <2>5, <2>6, <2>7 DEF HelloInv
  <2>8. CASE ~ answered
    <3>1. results'[Hello] = 1 /\ dframe # Hello
      BY <1>0, <2>2, <2>6, <2>8 DEF HelloInv
    <3> QED
      BY <2>1, <2>3, <2>5, <3>1 DEF HelloInv
  <2> QED
    BY <2>7, <2>8
<1>16. ASSUME ReconnectPublish PROVE HelloInv'
  <2>1. /\ gen' = gen + 1 /\ stage = "publish" /\ ~ conn /\ gen + 1 \in Gens
        /\ UNCHANGED <<inbox, outbox, answered, results, dpc, dframe, sent>>
    BY <1>0, <1>a, <1>16, BoundsAssumption DEF ReconnectPublish, InsideReconnect, Gens
  <2>2. Pending(gen + 1) = {}
    BY <1>0, <1>a, <2>1 DEF PendingInv, HandInv
  <2>3. ASSUME NEW g \in 1..gen', Hello \in Pending(g)' PROVE Hello \in Pending(g) /\ g \in 1..gen
    BY <1>a, <2>1, <2>2, <2>3 DEF Pending
  <2> QED
    BY <1>0, <2>1, <2>3 DEF HelloInv
<1>17. ASSUME ReconnectSweep PROVE HelloInv'
  BY <1>a, <1>17, <1>b, <1>c DEF ReconnectSweep
<1>18. ASSUME ReconnectSettle PROVE HelloInv'
  BY <1>a, <1>0, <1>18, <1>b, <1>c DEF ReconnectSettle, Back, InsideReconnect, Wants
<1>19. ASSUME \/ \E x \in Reqs, g \in Gens : Answer(x, g)
              \/ Crash \/ Drop
       PROVE HelloInv'
  <2>1. \A g \in 1..gen : Pending(g)' \subseteq Pending(g)
    BY <1>0, <1>a, <1>19, PendingShrinks
  <2> QED
    BY <1>19, <2>1, <1>b DEF Answer, Crash, Drop
<1>20. ASSUME Hang \/ Spawn \/ UNCHANGED vars PROVE HelloInv'
  BY <1>a, <1>20, <1>b, <1>c DEF Hang, Spawn, vars
<1> QED
  BY <1>1, <1>2, <1>3, <1>4, <1>5, <1>6, <1>7, <1>8, <1>9, <1>10, <1>11, <1>12,
     <1>13, <1>14, <1>15, <1>16, <1>17, <1>18, <1>19, <1>20
     DEF Next, ClientPump, DaemonPump, Enter, Reconnect

LEMMA InitAnswer == Init => AnswerInv
<1> SUFFICES ASSUME Init PROVE AnswerInv
  OBVIOUS
<1>1. 1 \in Gens /\ Hello \in Reqs /\ None \notin Reqs /\ Calls \subseteq Reqs
  BY BoundsAssumption DEF Gens, Reqs
<1>2. \A g \in Gens : inbox[g] = {} /\ outbox[g] = {} /\ Pending(g) = {}
  BY DEF Init, Pending
<1>3. /\ \A r \in Reqs : sent[r] = {} /\ results[r] = 0
      /\ \A r \in Calls : ledger[r] = 0 /\ errors[r] = 0
  BY DEF Init
<1>4. HandInv /\ PendingInv /\ AwaitInv
  BY <1>2 DEF Init, HandInv, PendingInv, AwaitInv
<1>5. 1..gen \subseteq Gens
  BY <1>1, BoundsAssumption DEF Init, Gens
<1>6. CallsInv
  BY <1>1, <1>2, <1>3, <1>5 DEF Init, CallsInv, Settled
<1>7. HelloInv
  BY <1>1, <1>2, <1>3, <1>5 DEF Init, HelloInv
<1> QED
  BY <1>4, <1>6, <1>7 DEF AnswerInv

(* The client gets one answer to a request: not a second from another daemon *)
(* nor an error of the sweep beside a daemon's answer (trackOutstanding,     *)
(* resolveResponse, failOutstandingBelow, consumeInitializeResponse), unless *)
(* the answer was handled before its request was recorded, was on its way    *)
(* when the request was swept or initialize's answer was forwarded by a       *)
(* reconnect, or initialize was written again after its replay.              *)
THEOREM OneAnswer == Spec => []AnsweredOnceUnlessRaced
<1>1. IInv /\ AnswerInv /\ [Next]_vars => AnswerInv'
  BY NextHand, NextPending, NextAwait, NextCalls, NextHello DEF AnswerInv
<1>2. IInv /\ AnswerInv => AnsweredOnceUnlessRaced
  <2> SUFFICES ASSUME IInv, AnswerInv, NEW r \in Reqs \ raced PROVE Received(r) <= 1
    BY DEF AnsweredOnceUnlessRaced
  <2>1. CASE r = Hello
    <3>1. results[Hello] \in Nat /\ results[Hello] <= 1
      BY <2>1, AnswerTypes DEF AnswerInv, HelloInv, IInv
    <3> QED
      BY <2>1, <3>1 DEF Received
  <2>2. CASE r # Hello
    <3>1. r \in Calls \ raced
      BY <2>2 DEF Reqs
    <3> QED
      BY <2>2, <3>1 DEF AnswerInv, CallsInv, Received
  <2> QED
    BY <2>1, <2>2
<1> QED
  BY InitAnswer, <1>1, <1>2, Inductive, PTL DEF Spec
=============================================================================
