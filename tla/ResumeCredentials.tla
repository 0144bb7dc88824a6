------------------------- MODULE ResumeCredentials --------------------------
(***************************************************************************)
(* The resume credentials of one conversation: the daemon's table of their *)
(* generations (internal/sessionstate/resume_credential*.go), the          *)
(* connections that mint, claim, release and replace them                  *)
(* (internal/cli/conn_resume_*.go, conn_restore.go), and the serve         *)
(* processes that keep one per conversation in a file and present it       *)
(* (internal/cli/serve_resume*.go).                                        *)
(*                                                                         *)
(* A proxy session ID is its serve process, and a plumb session ID the     *)
(* connection that first drew it.  Each call of the store is one step, and *)
(* so is the whole initialize exchange up to its answer.                   *)
(***************************************************************************)
EXTENDS Naturals, FiniteSets

CONSTANTS
    Procs,       \* serve processes; each one's proxy session ID
    MaxConns,    \* bound: connections over the whole run
    MaxSecrets,  \* bound: credentials minted
    MaxMishaps,  \* bound: deaths of the daemon and writes of the store that fail
    FailureLimit \* ResumeFailureLimit

ASSUME ResumeAssumption ==
    /\ MaxConns \in Nat /\ MaxSecrets \in Nat /\ MaxMishaps \in Nat
    /\ FailureLimit \in Nat \ {0}

Conns == 1..MaxConns
Secrets == 1..MaxSecrets
NoSecret == 0
Recoveries == {"established", "restored", "degraded", "superseded"}
Stages == {"idle", "lookup", "claim", "lost", "adopt", "persist", "issue", "release",
           "relink", "reply"}

VARIABLES
    process,     \* a process: what it holds in memory
    entry,       \* the file of the conversation in the resume store
    rowId, rowLinked,   \* session_names: the session ID and the linkage of a process
    cred,        \* resume_credential by secret
    connection,  \* connSession by number
    made, minted,       \* connections and secrets so far
    mishaps,
    cut,         \* ghost: secrets whose claim the daemon's death or a failed release cut
                 \* off, or that a release of an older one of their row left behind
    heir         \* ghost: the successor issued to the claimant of a secret

ghosts == <<cut, heir>>
resumeVars == <<process, entry, rowId, rowLinked, cred, connection, made, minted,
                mishaps, ghosts>>

Process == [alive : BOOLEAN, secret : 0..MaxSecrets, linked : BOOLEAN, owns : BOOLEAN,
            presented : BOOLEAN]
NewProcess == [alive |-> TRUE, secret |-> NoSecret, linked |-> FALSE, owns |-> FALSE,
               presented |-> FALSE]
Gone == [NewProcess EXCEPT !.alive = FALSE]
Credential == [row : Procs, gen : Nat, fails : 0..FailureLimit,
               state : {"current", "superseded", "revoked"}]
NoCredential == [state |-> "none"]
Connection ==
    [of : Procs, state : {"up", "lost"}, recovery : Recoveries, retries : BOOLEAN,
     id : Conns, pending : 0..MaxSecrets,
     at : Stages, secret : 0..MaxSecrets, old : 0..MaxConns, consumed : Nat,
     note : 0..MaxSecrets, answer : {"none", "restored", "superseded", "revoked"}]
NoConnection == [state |-> "free"]
Ended == [state |-> "ended"]

ResumeTypeOK ==
    /\ process \in [Procs -> Process]
    /\ entry \in 0..MaxSecrets
    /\ rowId \in [Procs -> 0..MaxConns] /\ rowLinked \in [Procs -> BOOLEAN]
    /\ cred \in [Secrets -> Credential \cup {NoCredential}]
    /\ connection \in [Conns -> Connection \cup {NoConnection, Ended}]
    /\ made \in 0..MaxConns /\ minted \in 0..MaxSecrets
    /\ mishaps \in 0..MaxMishaps
    /\ cut \in SUBSET (0..MaxSecrets) /\ heir \in [Secrets -> 0..MaxSecrets]
    /\ \A s \in Secrets : cred[s].state = "current" => cred[s].fails < FailureLimit

ResumeInit ==
    /\ process = [p \in Procs |-> NewProcess]
    /\ entry = NoSecret
    /\ rowId = [p \in Procs |-> 0] /\ rowLinked = [p \in Procs |-> FALSE]
    /\ cred = [s \in Secrets |-> NoCredential]
    /\ connection = [c \in Conns |-> NoConnection]
    /\ made = 0 /\ minted = 0 /\ mishaps = 0
    /\ cut = {} /\ heir = [s \in Secrets |-> NoSecret]

-----------------------------------------------------------------------------
(* The table.                                                               *)

Of(p) == {s \in Secrets : cred[s] # NoCredential /\ cred[s].row = p}
CurrentOf(p) == {s \in Of(p) : cred[s].state = "current"}
Linked(s) == cred[s] # NoCredential /\ rowLinked[cred[s].row]

Top(p) == CHOOSE g \in {0} \cup {cred[s].gen : s \in Of(p)} :
              \A s \in Of(p) : cred[s].gen =< g

\* mintLocked: supersede the row's current credential, insert the next one and
\* keep of each row no more than the newest of those that are not current.
Minted(p, secret, atLeast) ==
    LET next == 1 + (IF Top(p) >= atLeast THEN Top(p) ELSE atLeast)
        Stale(s) == cred[s] # NoCredential /\ (cred[s].row = p \/ cred[s].state # "current")
        Old(s) == Stale(s) /\ \E t \in Of(cred[s].row) : Stale(t) /\ cred[t].gen > cred[s].gen
    IN  [s \in Secrets |->
           IF s = secret THEN [row |-> p, gen |-> next, fails |-> 0, state |-> "current"]
           ELSE IF Old(s) THEN NoCredential
           ELSE IF s \in CurrentOf(p) THEN [cred[s] EXCEPT !.state = "superseded"]
           ELSE cred[s]]

\* The daemon dies, or a write of the store fails.
Mishap == mishaps < MaxMishaps /\ mishaps' = mishaps + 1
NoMishap == UNCHANGED mishaps

-----------------------------------------------------------------------------
(* Connections.                                                             *)

LiveConn(c) == connection[c].state \in {"up", "lost"}
Up(p, c) == connection[c].state = "up" /\ connection[c].of = p
Here(c, stage) == LiveConn(c) /\ connection[c].at = stage
Idle(c) == Here(c, "idle")
Held(id) == \E c \in Conns : LiveConn(c) /\ connection[c].id = id
Proven(c) == connection[c].recovery \in {"established", "restored"}

Fresh(p, c) ==
    [of |-> p, state |-> "up", recovery |-> "established", retries |-> FALSE, id |-> c,
     pending |-> NoSecret, at |-> "idle", secret |-> NoSecret, old |-> 0, consumed |-> 0,
     note |-> NoSecret, answer |-> "none"]

\* initialize: restoreIdentity and, for a proven identity, mintResumeCredential.
Initialize(p) ==
    LET c == made + 1
        new == minted + 1
        Attach(recovery, id) ==
            /\ minted < MaxSecrets /\ minted' = new
            /\ connection' = [connection EXCEPT ![c] =
                 [Fresh(p, c) EXCEPT !.recovery = recovery, !.id = id, !.pending = new]]
            /\ cred' = Minted(p, new, 0)
    IN  /\ process[p].alive /\ made < MaxConns
        /\ \A d \in Conns : ~ Up(p, d)
        /\ made' = c
        /\ \/ /\ rowId[p] = 0
              /\ rowId' = [rowId EXCEPT ![p] = c]
              /\ Attach("established", c)
           \/ /\ rowId[p] # 0 /\ ~ Held(rowId[p])
              /\ Attach("restored", rowId[p])
              /\ UNCHANGED rowId
           \/ /\ rowId[p] # 0 /\ Held(rowId[p])
              /\ connection' = [connection EXCEPT ![c] =
                   [Fresh(p, c) EXCEPT !.recovery = "degraded", !.retries = TRUE]]
              /\ UNCHANGED <<rowId, minted, cred>>
        /\ UNCHANGED <<process, entry, rowLinked, mishaps, ghosts>>

\* scheduleRestoreRetry: the identity is free by now.
Converge(c) ==
    /\ connection[c].state = "up" /\ connection[c].retries
    /\ connection[c].recovery = "degraded" /\ minted < MaxSecrets
    /\ ~ Held(rowId[connection[c].of])
    /\ connection' = [connection EXCEPT ![c].recovery = "restored",
                        ![c].id = rowId[connection[c].of], ![c].pending = minted + 1]
    /\ minted' = minted + 1
    /\ cred' = Minted(connection[c].of, minted + 1, 0)
    /\ UNCHANGED <<process, entry, rowId, rowLinked, made, mishaps, ghosts>>

\* Any result carries the pending credential; the proxy observes it.
Disclose(c) ==
    LET p == connection[c].of
        s == connection[c].pending
    IN  /\ connection[c].state = "up" /\ s # NoSecret
        /\ connection' = [connection EXCEPT ![c].pending = NoSecret]
        /\ process' = [process EXCEPT ![p].secret = s]
        /\ entry' = IF process[p].linked /\ process[p].owns THEN s ELSE entry
        /\ UNCHANGED <<rowId, rowLinked, cred, made, minted, mishaps, ghosts>>

-----------------------------------------------------------------------------
(* session_start.                                                           *)

Goes(c, stage) == connection' = [connection EXCEPT ![c].at = stage]

\* claim in the proxy: whether the call presents the stored credential.
Presents(p, c) ==
    connection[c].recovery = "established" /\ ~ process[p].presented /\ entry # NoSecret

SessionStart(p, c) ==
    /\ Up(p, c) /\ Idle(c) /\ ~ process[p].linked
    /\ connection[c].recovery = "established" => connection[c].pending = NoSecret
    /\ \/ /\ Presents(p, c)
          /\ connection' = [connection EXCEPT ![c].at = "lookup", ![c].secret = entry]
          /\ process' = [process EXCEPT ![p].presented = TRUE]
       \/ /\ ~ Presents(p, c)
          /\ Goes(c, "relink")
          /\ UNCHANGED process
    /\ UNCHANGED <<entry, rowId, rowLinked, cred, made, minted, mishaps, ghosts>>

\* countFailedPresentation
Counted ==
    [s \in Secrets |->
        IF Linked(s) /\ cred[s].state = "current"
        THEN [cred[s] EXCEPT !.fails = @ + 1,
                             !.state = IF cred[s].fails + 1 >= FailureLimit THEN "revoked" ELSE @]
        ELSE cred[s]]

Refuses(c, answer) ==
    connection' = [connection EXCEPT ![c].at = "relink", ![c].answer = answer]

Lookup(c) ==
    LET s == connection[c].secret
        Found(state) == cred[s].state = state /\ (state = "revoked" \/ Linked(s))
    IN  /\ Here(c, "lookup")
        /\ \/ /\ Found("current") /\ cred[s].row # connection[c].of
              /\ connection' = [connection EXCEPT ![c].at = "claim", ![c].old = rowId[cred[s].row]]
              /\ UNCHANGED cred
           \/ /\ Found("current") /\ cred[s].row = connection[c].of
              /\ Goes(c, "relink")
              /\ UNCHANGED cred
           \/ \E state \in {"superseded", "revoked"} :
                 Found(state) /\ Refuses(c, state) /\ UNCHANGED cred
           \/ /\ \A state \in {"current", "superseded", "revoked"} : ~ Found(state)
              /\ cred' = Counted
              /\ Goes(c, "relink")
        /\ UNCHANGED <<process, entry, rowId, rowLinked, made, minted, mishaps, ghosts>>

\* ClaimResumeCredential: one conditional update.
WinsLookedUp(s) == cred[s] # NoCredential   \* mutant: the claim trusts the lookup

Wins(s) == Linked(s) /\ cred[s].state = "current"

ClaimIt(c) ==
    LET s == connection[c].secret
    IN  /\ Here(c, "claim")
        /\ \/ /\ Wins(s)
              /\ cred' = [cred EXCEPT ![s].state = "superseded"]
              /\ connection' = [connection EXCEPT ![c].at = "adopt", ![c].consumed = cred[s].gen]
           \/ ~ Wins(s) /\ Goes(c, "lost") /\ UNCHANGED cred
        /\ UNCHANGED <<process, entry, rowId, rowLinked, made, minted, mishaps, ghosts>>

\* lostResume
Lost(c) ==
    LET s == connection[c].secret
    IN  /\ Here(c, "lost")
        /\ \/ /\ cred[s].state = "superseded" /\ Linked(s)
              /\ connection' = [connection EXCEPT ![c].at = "relink", ![c].answer = "superseded",
                                                  ![c].recovery = "superseded"]
           \/ cred[s].state = "revoked" /\ Refuses(c, "revoked")
           \/ /\ cred[s].state # "revoked" /\ ~ (cred[s].state = "superseded" /\ Linked(s))
              /\ Goes(c, "relink")
        /\ UNCHANGED <<process, entry, rowId, rowLinked, cred, made, minted, mishaps, ghosts>>

\* adoptStoredID: refused while a live session has the ID.
AdoptableAlways(id) == id \in Conns   \* mutant: the ID is taken from its live owner

Adoptable(id) == ~ Held(id)

Adopt(c) ==
    /\ Here(c, "adopt")
    /\ \/ /\ Adoptable(connection[c].old)
          /\ connection' = [connection EXCEPT ![c].at = "persist", ![c].id = connection[c].old]
       \/ ~ Adoptable(connection[c].old) /\ Goes(c, "release")
    /\ UNCHANGED <<process, entry, rowId, rowLinked, cred, made, minted, mishaps, ghosts>>

\* The name and the record; an adopted session has its predecessor's linkage.
Persist(c) ==
    LET p == connection[c].of
    IN  /\ Here(c, "persist")
        /\ \/ /\ rowId' = [rowId EXCEPT ![p] = connection[c].id]
              /\ rowLinked' = [rowLinked EXCEPT ![p] = TRUE]
              /\ connection' = [connection EXCEPT ![c].at = "issue", ![c].recovery = "restored",
                                                  ![c].answer = "restored"]
              /\ NoMishap
           \/ /\ Mishap
              /\ connection' = [connection EXCEPT ![c].at = "release", ![c].recovery = "degraded"]
              /\ UNCHANGED <<rowId, rowLinked>>
        /\ UNCHANGED <<process, entry, cred, made, minted, ghosts>>

\* issueSuccessor
Issue(c) ==
    /\ Here(c, "issue")
    /\ \/ /\ minted < MaxSecrets /\ minted' = minted + 1
          /\ cred' = Minted(connection[c].of, minted + 1, connection[c].consumed)
          /\ connection' = [connection EXCEPT ![c].at = "relink", ![c].note = minted + 1]
          /\ heir' = [heir EXCEPT ![connection[c].secret] = minted + 1]
          /\ NoMishap
       \/ Mishap /\ Goes(c, "release") /\ UNCHANGED <<minted, cred, heir>>
    /\ UNCHANGED <<process, entry, rowId, rowLinked, made, cut>>

\* releaseClaim
ReleasedNever(s) ==   \* mutant: a restore that cannot be completed keeps the credential
    [t \in Secrets |-> IF t = s THEN cred[s] ELSE cred[t]]

Released(s) ==
    IF cred[s].state = "superseded" /\ CurrentOf(cred[s].row) = {}
    THEN [cred EXCEPT ![s].state = "current"] ELSE cred

\* The generations of its row that are past s.
Later(s) == {t \in Secrets : /\ cred[s] # NoCredential /\ t \in Of(cred[s].row)
                             /\ cred[t].gen > cred[s].gen}

ReleaseClaim(c) ==
    LET s == connection[c].secret
    IN  /\ Here(c, "release")
        /\ \/ /\ cred' = Released(s) /\ NoMishap
              /\ cut' = IF cred' # cred THEN cut \cup Later(s) ELSE cut
           \/ Mishap /\ cut' = cut \cup {s} /\ UNCHANGED cred
        /\ Goes(c, "relink")
        /\ UNCHANGED <<process, entry, rowId, rowLinked, made, minted, heir>>

\* relinkTo, and reissueAfterRevocation.
Relink(c) ==
    LET p == connection[c].of
        reissues == connection[c].answer = "revoked" /\ Proven(c)
    IN  /\ Here(c, "relink")
        /\ rowLinked' = [rowLinked EXCEPT ![p] = @ \/ Proven(c)]
        /\ \/ /\ reissues /\ minted < MaxSecrets /\ minted' = minted + 1
              /\ cred' = Minted(p, minted + 1, 0)
              /\ connection' = [connection EXCEPT ![c].at = "reply", ![c].pending = minted + 1]
           \/ ~ reissues /\ Goes(c, "reply") /\ UNCHANGED <<minted, cred>>
        /\ UNCHANGED <<process, entry, rowId, made, mishaps, ghosts>>

\* The answer, and the proxy's observe; nothing of it reaches a proxy that is gone.
Owns(c, told) == connection[c].secret = NoSecret \/ told # NoSecret

Reply(c) ==
    LET p == connection[c].of
        told == IF connection[c].note # NoSecret THEN connection[c].note ELSE connection[c].pending
        secret == IF told # NoSecret THEN told ELSE process[p].secret
        over == [connection[c] EXCEPT !.at = "idle", !.secret = NoSecret, !.old = 0,
                    !.consumed = 0, !.note = NoSecret, !.answer = "none",
                    !.pending = IF connection[c].note # NoSecret THEN @ ELSE NoSecret]
    IN  /\ Here(c, "reply")
        /\ connection' = [connection EXCEPT ![c] = over]
        /\ \/ /\ connection[c].state = "up"
              /\ process' = [process EXCEPT ![p].secret = secret, ![p].linked = TRUE,
                                            ![p].owns = Owns(c, told)]
              /\ entry' = IF Owns(c, told) /\ secret # NoSecret THEN secret ELSE entry
           \/ connection[c].state = "lost" /\ UNCHANGED <<process, entry>>
        /\ UNCHANGED <<rowId, rowLinked, cred, made, minted, mishaps, ghosts>>

-----------------------------------------------------------------------------
(* What ends, and what the client does.                                     *)

\* The connections break: the daemon lets their calls finish before it detaches.
Breaks(broken) ==
    connection' = [c \in Conns |-> IF c \in broken THEN [connection[c] EXCEPT !.state = "lost"]
                                   ELSE connection[c]]

BreakOff(p, c) ==
    /\ Up(p, c) /\ Breaks({c})
    /\ UNCHANGED <<process, entry, rowId, rowLinked, cred, made, minted, mishaps, ghosts>>

Detach(c) ==
    /\ connection[c].state = "lost" /\ Idle(c)
    /\ connection' = [connection EXCEPT ![c] = Ended]
    /\ UNCHANGED <<process, entry, rowId, rowLinked, cred, made, minted, mishaps, ghosts>>

Exit(p) ==
    /\ process[p].alive
    /\ process' = [process EXCEPT ![p] = Gone]
    /\ Breaks({c \in Conns : Up(p, c)})
    /\ UNCHANGED <<entry, rowId, rowLinked, cred, made, minted, mishaps, ghosts>>

\* The connections that have the credential claimed.
Claimed(s) == {c \in Conns : /\ \E stage \in {"adopt", "persist", "issue", "release"} : Here(c, stage)
                             /\ connection[c].secret = s}

DaemonDies ==
    /\ Mishap
    /\ cut' = cut \cup {s \in Secrets : Claimed(s) # {}}
    /\ connection' = [c \in Conns |-> IF c =< made THEN Ended ELSE connection[c]]
    /\ UNCHANGED <<process, entry, rowId, rowLinked, cred, made, minted, heir>>

\* The client goes over to another conversation: SaveIdentity replaces the
\* linkage and revokes the credentials of the row.
MovesOn(p, c) ==
    /\ Up(p, c) /\ Idle(c) /\ process[p].linked /\ rowLinked[p] /\ Proven(c)
    /\ rowLinked' = [rowLinked EXCEPT ![p] = FALSE]
    /\ cred' = [s \in Secrets |-> IF s \in Of(p) THEN [cred[s] EXCEPT !.state = "revoked"]
                                  ELSE cred[s]]
    /\ UNCHANGED <<process, entry, rowId, connection, made, minted, mishaps, ghosts>>

ResumeNext ==
    \/ DaemonDies
    \/ \E p \in Procs : Initialize(p) \/ Exit(p)
    \/ \E p \in Procs, c \in Conns : SessionStart(p, c) \/ BreakOff(p, c) \/ MovesOn(p, c)
    \/ \E c \in Conns :
          \/ Converge(c) \/ Disclose(c) \/ Lookup(c) \/ ClaimIt(c) \/ Lost(c) \/ Adopt(c)
          \/ Persist(c) \/ Issue(c) \/ ReleaseClaim(c) \/ Relink(c) \/ Reply(c) \/ Detach(c)

ResumeSpec == ResumeInit /\ [][ResumeNext]_resumeVars

-----------------------------------------------------------------------------
(* Properties.                                                              *)

\* One credential resumes for one claimant at a time, whatever the others have
\* looked up before.
OneClaimant ==
    \A c, d \in Conns, s \in Secrets : c \in Claimed(s) /\ d \in Claimed(s) => c = d

\* No two live connections answer to one plumb session ID: not a resumed one
\* and the predecessor that comes back by its proxy credential, nor a
\* connection and the one it left behind.
OneHolder ==
    \A c, d \in Conns :
        LiveConn(c) /\ LiveConn(d) /\ c # d => connection[c].id # connection[d].id

Overtaken(s) == Later(s) # {}

\* The successor is past what it succeeds, although it may be of another row.
Succeeded(s) == /\ heir[s] # NoSecret
                /\ cred[heir[s]] # NoCredential => cred[heir[s]].gen > cred[s].gen

\* A credential is used up only for a newer one, of its own row or issued to its
\* claimant, unless the daemon died, or the store failed to give it back, while a
\* call had it claimed, or the release of an older one of its row came first.
ConsumedForSuccessor ==
    \A s \in Secrets :
        cred[s].state = "superseded" =>
            s \in cut \/ Claimed(s) # {} \/ Overtaken(s) \/ Succeeded(s)

\* A generation that a newer one of its row has overtaken stays as it is
\* (resume_credential_rotate.go:71).
OvertakenStays ==
    [][\A s \in Secrets : cred[s].state = "superseded" /\ Overtaken(s)
                             => cred'[s].state # "current"]_resumeVars

=============================================================================
