---------------------- MODULE ResumeCredentials_proofs -----------------------
(* Theorems about ResumeCredentials, for any number of serve processes,      *)
(* connections, credentials and mishaps.                                     *)
EXTENDS ResumeCredentials, WellFoundedInduction, TLAPS

\* What a connection knows has been drawn or minted, its session has a row, and a
\* claim names a credential and the session it is to become.
WithinBounds(r, drawn, secrets, rows) ==
    /\ r.id =< drawn /\ r.old =< drawn
    /\ r.pending =< secrets /\ r.secret =< secrets
    /\ r.note =< secrets /\ r.consumed =< secrets
    /\ rows[r.of] # 0
    /\ r.at \in {"lookup", "claim"} => r.secret # NoSecret
    /\ r.at \in {"claim", "adopt"} => r.old # 0

Within(r) == WithinBounds(r, made, minted, rowId)
WithinNext(r) == WithinBounds(r, made', minted', rowId')

Creds == [Secrets -> Credential \cup {NoCredential}]
Connections == [Conns -> Connection \cup {NoConnection, Ended}]

GhostsOK == cut \in SUBSET (0..MaxSecrets) /\ heir \in [Secrets -> 0..MaxSecrets]

ProcsOK ==
    /\ process \in [Procs -> Process] /\ \A p \in Procs : process[p].secret =< minted
    /\ entry \in 0..minted
    /\ rowId \in [Procs -> 0..made] /\ rowLinked \in [Procs -> BOOLEAN]
    /\ made \in 0..MaxConns /\ minted \in 0..MaxSecrets /\ mishaps \in 0..MaxMishaps
    /\ GhostsOK

TableOK ==
    /\ cred \in Creds
    /\ \A s \in Secrets :
          cred[s] # NoCredential =>
             /\ cred[s].gen =< minted /\ rowId[cred[s].row] # 0
             /\ cred[s].state # "revoked" => cred[s].fails < FailureLimit

ConnsOK ==
    /\ connection \in Connections
    /\ \A c \in Conns : LiveConn(c) => Within(connection[c])

\* A claim takes the credential from every other claimant.
ClaimedUsed == \A s \in Secrets : Claimed(s) # {} => cred[s].state # "current"

Sound == ConnsOK /\ OneHolder /\ OneClaimant /\ ClaimedUsed
IInv == ProcsOK /\ TableOK /\ Sound

Claiming == {"adopt", "persist", "issue", "release"}

-----------------------------------------------------------------------------
(* The table.                                                                *)

LEMMA LargestExists ==
    ASSUME NEW n \in Nat, NEW T \in SUBSET (0..n), T # {}
    PROVE  \E m \in T : \A t \in T : t =< m
<1> DEFINE R == OpToRel(<, Nat)
           D == {n - t : t \in T}
<1>1. IsWellFoundedOn(R, Nat)
  BY NatLessThanWellFounded
<1>2. D \in SUBSET Nat /\ D # {}
  <2>1. \A t \in T : t \in 0..n /\ n - t \in Nat
    OBVIOUS
  <2> QED
    BY <2>1
<1>3. \E x \in D : \A y \in D : ~ (<<y, x>> \in R)
  <2> HIDE DEF R, D
  <2> QED
    BY <1>1, <1>2, WFMin
<1>4. PICK x \in D : \A y \in D : ~ (<<y, x>> \in R)
  BY <1>3
<1>5. \A y \in D : ~ y < x
  BY <1>2, <1>4 DEF OpToRel
<1>6. PICK m \in T : x = n - m
  BY <1>4
<1>7. ASSUME NEW t \in T PROVE t =< m
  <2>1. ~ (n - t) < n - m
    BY <1>5, <1>6
  <2> QED
    BY <2>1
<1> QED
  BY <1>7

LEMMA TopIsLargest ==
    ASSUME ProcsOK, TableOK, NEW p \in Procs
    PROVE  Top(p) \in 0..minted /\ \A s \in Of(p) : cred[s].gen =< Top(p)
<1> DEFINE T == {0} \cup {cred[s].gen : s \in Of(p)}
<1>1. minted \in Nat /\ \A s \in Of(p) : cred[s].gen \in 0..minted
  BY ResumeAssumption DEF ProcsOK, TableOK, Creds, Of, Credential
<1>2. T \in SUBSET (0..minted) /\ T # {}
  BY <1>1
<1>3. \E m \in T : \A t \in T : t =< m
  <2> HIDE DEF T
  <2> QED
    BY <1>1, <1>2, LargestExists
<1>4. \E m \in T : \A s \in Of(p) : cred[s].gen =< m
  BY <1>3
<1>5. Top(p) \in T /\ \A s \in Of(p) : cred[s].gen =< Top(p)
  BY <1>4 DEF Top
<1> QED
  BY <1>2, <1>5

\* A new credential is the only one that becomes current, and the newest.
LEMMA MintedTable ==
    ASSUME ProcsOK, TableOK, NEW p \in Procs, minted < MaxSecrets,
           NEW k \in 0..minted
    PROVE  /\ Minted(p, minted + 1, k) \in Creds
           /\ \A s \in Secrets : Minted(p, minted + 1, k)[s] # NoCredential =>
                 /\ Minted(p, minted + 1, k)[s].gen =< minted + 1
                 /\ Minted(p, minted + 1, k)[s].state # "revoked"
                       => Minted(p, minted + 1, k)[s].fails < FailureLimit
                 /\ \/ Minted(p, minted + 1, k)[s].row = p
                    \/ /\ cred[s] # NoCredential
                       /\ Minted(p, minted + 1, k)[s].row = cred[s].row
           /\ \A s \in Secrets : Minted(p, minted + 1, k)[s].state = "current"
                 => s = minted + 1 \/ cred[s].state = "current"
<1> DEFINE new == minted + 1
           next == 1 + (IF Top(p) >= k THEN Top(p) ELSE k)
           fresh == [row |-> p, gen |-> next, fails |-> 0, state |-> "current"]
           M == Minted(p, new, k)
<1>1. minted \in Nat /\ next \in 1..new /\ FailureLimit \in Nat \ {0}
  BY TopIsLargest, ResumeAssumption DEF ProcsOK
<1>2. fresh \in Credential /\ fresh.row = p /\ fresh.gen =< new /\ fresh.fails < FailureLimit
  BY <1>1 DEF Credential
<1>3. ASSUME NEW s \in Secrets, cred[s] # NoCredential
      PROVE  /\ cred[s] \in Credential /\ cred[s].gen \in Nat /\ cred[s].gen =< minted
             /\ [cred[s] EXCEPT !.state = "superseded"] \in Credential
             /\ [cred[s] EXCEPT !.state = "superseded"].gen = cred[s].gen
             /\ [cred[s] EXCEPT !.state = "superseded"].fails = cred[s].fails
             /\ [cred[s] EXCEPT !.state = "superseded"].row = cred[s].row
             /\ [cred[s] EXCEPT !.state = "superseded"].state = "superseded"
  <2>1. cred[s] \in Credential /\ cred[s].gen =< minted
    BY <1>3 DEF TableOK, Creds
  <2> QED
    BY <2>1 DEF Credential
<1>4. NoCredential.state = "none"
  BY DEF NoCredential
<1>5. ASSUME NEW s \in Secrets
      PROVE  \/ s = new /\ M[s] = fresh
             \/ s # new /\ M[s] = NoCredential
             \/ /\ s # new /\ s \in CurrentOf(p)
                /\ M[s] = [cred[s] EXCEPT !.state = "superseded"]
             \/ s # new /\ M[s] = cred[s]
  BY DEF Minted
<1>6. M = [s \in Secrets |-> M[s]]
  BY DEF Minted
<1>7. ASSUME NEW s \in Secrets
      PROVE  /\ M[s] \in Credential \cup {NoCredential}
             /\ M[s] # NoCredential =>
                   /\ M[s].gen =< new /\ (M[s].state # "revoked" => M[s].fails < FailureLimit)
                   /\ M[s].row = p \/ (cred[s] # NoCredential /\ M[s].row = cred[s].row)
             /\ M[s].state = "current" => s = new \/ cred[s].state = "current"
  <2> HIDE DEF M, fresh, next
  <2>1. CASE M[s] = fresh /\ s = new
    BY <1>2, <2>1 DEF new
  <2>2. CASE M[s] = NoCredential
    BY <1>4, <2>2
  <2>3. CASE s \in CurrentOf(p) /\ M[s] = [cred[s] EXCEPT !.state = "superseded"]
    <3>1. cred[s] # NoCredential /\ cred[s].state = "current"
      BY <2>3 DEF CurrentOf, Of
    <3>2. cred[s].fails < FailureLimit
      BY <3>1 DEF TableOK
    <3>3. /\ M[s] \in Credential /\ M[s].gen = cred[s].gen /\ M[s].fails = cred[s].fails
          /\ M[s].row = cred[s].row /\ M[s].state = "superseded"
      BY <1>3, <2>3, <3>1
    <3>4. cred[s].gen \in Nat /\ cred[s].gen =< minted
      BY <1>3, <3>1
    <3>5. M[s].gen =< new
      BY <1>1, <3>3, <3>4 DEF new
    <3> QED
      BY <3>1, <3>2, <3>3, <3>5
  <2>4. CASE M[s] = cred[s]
    <3>1. cred[s] \in Credential \cup {NoCredential}
      BY DEF TableOK, Creds
    <3>2. cred[s] # NoCredential =>
             cred[s].gen =< new /\ (cred[s].state # "revoked" => cred[s].fails < FailureLimit)
      <4> SUFFICES ASSUME cred[s] # NoCredential
                   PROVE  cred[s].gen =< new /\ (cred[s].state # "revoked" => cred[s].fails < FailureLimit)
        OBVIOUS
      <4>1. cred[s].gen \in Nat /\ cred[s].gen =< minted
        BY <1>3
      <4>2. cred[s].state # "revoked" => cred[s].fails < FailureLimit
        BY DEF TableOK
      <4> QED
        BY <1>1, <4>1, <4>2
    <3> QED
      BY <2>4, <3>1, <3>2
  <2> QED
    BY <1>5, <2>1, <2>2, <2>3, <2>4
<1>8. M \in Creds
  <2> HIDE DEF M
  <2> QED
    BY <1>6, <1>7 DEF Creds
<1> QED
  BY <1>7, <1>8

LEMMA LiveIs ==
    ASSUME ConnsOK, NEW c \in Conns, LiveConn(c)
    PROVE  /\ connection[c] \in Connection /\ Within(connection[c])
           /\ connection[c].of \in Procs
BY DEF ConnsOK, Connections, LiveConn, NoConnection, Ended, Connection

LEMMA Numbers ==
    ASSUME IInv
    PROVE  /\ made \in Nat /\ minted \in Nat /\ MaxConns \in Nat /\ MaxSecrets \in Nat
           /\ FailureLimit \in Nat \ {0}
           /\ made =< MaxConns /\ minted =< MaxSecrets
           /\ \A p \in Procs : /\ rowId[p] \in 0..made /\ process[p] \in Process
                               /\ process[p].secret \in 0..minted
BY ResumeAssumption DEF IInv, ProcsOK, Process

\* No row loses its session.
RowsKept == \A p \in Procs : rowId[p] # 0 => rowId'[p] # 0

\* The table where no credential is minted, and none changes rows.
LEMMA TableKept ==
    ASSUME IInv, RowsKept, minted' = minted, NEW T, cred' = [s \in Secrets |-> T[s]],
           \A s \in Secrets :
              \/ T[s] = cred[s]
              \/ /\ cred[s] # NoCredential /\ T[s] \in Credential
                 /\ T[s].row = cred[s].row /\ T[s].gen = cred[s].gen
                 /\ T[s].state # "revoked" => T[s].fails < FailureLimit
    PROVE  TableOK'
<1>0. TableOK
  BY DEF IInv
<1>1. \A s \in Secrets : cred'[s] = T[s]
  OBVIOUS
<1>2. cred' \in Creds
  BY <1>0 DEF TableOK, Creds
<1>3. ASSUME NEW s \in Secrets, cred'[s] # NoCredential
      PROVE  /\ cred'[s].gen =< minted' /\ rowId'[cred'[s].row] # 0
             /\ cred'[s].state # "revoked" => cred'[s].fails < FailureLimit
  <2>1. cred[s] # NoCredential
    BY <1>1, <1>3
  <2>2. cred[s] \in Credential /\ cred[s].gen =< minted /\ rowId[cred[s].row] # 0
    BY <1>0, <2>1 DEF TableOK, Creds
  <2>3. cred[s].row \in Procs
    BY <2>2 DEF Credential
  <2>4. rowId'[cred[s].row] # 0
    BY <2>2, <2>3 DEF RowsKept
  <2> QED
    BY <1>0, <1>1, <2>1, <2>2, <2>4 DEF TableOK
<1> QED
  BY <1>2, <1>3 DEF TableOK

LEMMA TableStays ==
    ASSUME IInv, RowsKept, UNCHANGED <<cred, minted>>
    PROVE  TableOK'
<1>1. cred = [s \in Secrets |-> cred[s]]
  BY DEF IInv, TableOK, Creds
<1> QED
  BY <1>1, TableKept

\* The table where one is minted, which nobody can have claimed.
LEMMA TableMints ==
    ASSUME IInv, RowsKept, NEW p \in Procs, rowId'[p] # 0, NEW k \in 0..minted,
           minted < MaxSecrets, minted' = minted + 1, cred' = Minted(p, minted + 1, k)
    PROVE  /\ TableOK'
           /\ \A s \in Secrets : cred'[s].state = "current"
                                 => cred[s].state = "current" \/ Claimed(s) = {}
<1>0. ProcsOK /\ TableOK /\ ConnsOK
  BY DEF IInv, Sound
<1>1. /\ cred' \in Creds
      /\ \A s \in Secrets : cred'[s] # NoCredential =>
            /\ cred'[s].gen =< minted + 1
            /\ cred'[s].state # "revoked" => cred'[s].fails < FailureLimit
            /\ cred'[s].row = p \/ (cred[s] # NoCredential /\ cred'[s].row = cred[s].row)
      /\ \A s \in Secrets : cred'[s].state = "current"
            => s = minted + 1 \/ cred[s].state = "current"
  BY <1>0, MintedTable
<1>2. \A s \in Secrets : cred[s] # NoCredential =>
         cred[s].row \in Procs /\ rowId[cred[s].row] # 0
  BY <1>0 DEF TableOK, Creds, Credential
<1>3. \A s \in Secrets : cred'[s] # NoCredential => rowId'[cred'[s].row] # 0
  BY <1>1, <1>2 DEF RowsKept
<1>4. TableOK'
  BY <1>1, <1>3 DEF TableOK
<1>5. ASSUME NEW c \in Claimed(minted + 1) PROVE FALSE
  <2>1. c \in Conns /\ LiveConn(c) /\ connection[c].secret = minted + 1
    BY <1>5 DEF Claimed, Here
  <2>2. connection[c].secret =< minted
    BY <1>0, <2>1, LiveIs DEF Within, WithinBounds
  <2> QED
    BY <2>1, <2>2, Numbers
<1>6. Claimed(minted + 1) = {}
  BY <1>5
<1> QED
  BY <1>1, <1>4, <1>6

-----------------------------------------------------------------------------
(* Connections.                                                              *)

\* What was known stays known.
LEMMA StillWithin ==
    ASSUME NEW q \in Connection, Within(q), RowsKept,
           made \in Nat, minted \in Nat, made' \in Nat, minted' \in Nat,
           made =< made', minted =< minted'
    PROVE  WithinNext(q)
<1>1. /\ q.id \in Nat /\ q.old \in Nat /\ q.pending \in Nat /\ q.secret \in Nat
      /\ q.note \in Nat /\ q.consumed \in Nat /\ q.of \in Procs
  BY ResumeAssumption DEF Connection, Conns
<1> QED
  BY <1>1 DEF Within, WithinNext, WithinBounds, RowsKept

\* One connection goes on: it keeps its ID or takes one that is free, and claims
\* nothing that it had not, unless nobody has.
LEMMA Stepped ==
    ASSUME IInv, RowsKept, NEW c \in Conns, NEW r \in Connection,
           connection' = [connection EXCEPT ![c] = r],
           (LiveConn(c) /\ r.id = connection[c].id) \/ ~ Held(r.id),
           \/ r.at \notin Claiming
           \/ LiveConn(c) /\ connection[c].at \in Claiming /\ r.secret = connection[c].secret
           \/ Claimed(r.secret) = {} /\ cred'[r.secret].state # "current",
           \A s \in Secrets : cred'[s].state = "current"
              => \/ cred[s].state = "current" \/ Claimed(s) = {}
                 \/ Claimed(s) \subseteq {c} /\ r.at \notin Claiming,
           made' \in Nat, minted' \in Nat, made =< made', minted =< minted',
           WithinNext(r)
    PROVE  Sound'
<1>0. ConnsOK /\ OneHolder /\ OneClaimant /\ ClaimedUsed /\ made \in Nat /\ minted \in Nat
  BY Numbers DEF IInv, Sound
<1>1. /\ connection' \in Connections /\ connection'[c] = r
      /\ \A d \in Conns : d # c => connection'[d] = connection[d]
  BY <1>0 DEF ConnsOK, Connections
<1>2. ASSUME NEW d \in Conns, LiveConn(d)' PROVE WithinNext(connection'[d])
  <2>1. CASE d = c
    BY <1>1, <2>1
  <2>2. CASE d # c
    <3>1. connection'[d] = connection[d] /\ LiveConn(d)
      BY <1>1, <1>2, <2>2 DEF LiveConn
    <3>2. connection[d] \in Connection /\ Within(connection[d])
      BY <1>0, <3>1, LiveIs
    <3>3. WithinNext(connection[d])
      BY <1>0, <3>2, StillWithin
    <3> QED
      BY <3>1, <3>3
  <2> QED
    BY <2>1, <2>2
<1>3. ASSUME NEW d \in Conns, NEW e \in Conns, LiveConn(d)', LiveConn(e)', d # e
      PROVE  connection'[d].id # connection'[e].id
  <2>1. \A x \in Conns : x # c /\ LiveConn(x)' => LiveConn(x) /\ connection'[x].id = connection[x].id
    BY <1>1 DEF LiveConn
  <2>2. \A x \in Conns : x # c /\ LiveConn(x) => connection[x].id # r.id
    BY <1>0 DEF OneHolder, Held
  <2>3. CASE d # c /\ e # c
    BY <1>0, <1>3, <2>1, <2>3 DEF OneHolder
  <2>4. CASE d = c
    BY <1>1, <1>3, <2>1, <2>2, <2>4
  <2>5. CASE e = c
    BY <1>1, <1>3, <2>1, <2>2, <2>5
  <2> QED
    BY <2>3, <2>4, <2>5
<1>4. ASSUME NEW s \in Secrets
      PROVE  \/ Claimed(s)' \subseteq Claimed(s) /\ (r.at \notin Claiming => c \notin Claimed(s)')
             \/ Claimed(s)' \subseteq {c} /\ cred'[s].state # "current"
  <2>1. ASSUME NEW d \in Claimed(s)'
        PROVE  d \in Conns /\ LiveConn(d)' /\ connection'[d].at \in Claiming /\ connection'[d].secret = s
    BY <2>1 DEF Claimed, Here, Claiming
  <2>2. ASSUME NEW d \in Claimed(s)', d # c PROVE d \in Claimed(s)
    <3>1. d \in Conns /\ LiveConn(d) /\ connection[d].at \in Claiming /\ connection[d].secret = s
      BY <1>1, <2>1, <2>2 DEF LiveConn
    <3> QED
      BY <3>1 DEF Claimed, Here, Claiming
  <2>3. c \in Claimed(s)' => r.at \in Claiming /\ r.secret = s
    BY <1>1, <2>1
  <2>4. CASE c \notin Claimed(s)'
    BY <2>2, <2>4
  <2>5. CASE c \in Claimed(s)' /\ LiveConn(c) /\ connection[c].at \in Claiming /\ connection[c].secret = s
    <3>1. c \in Claimed(s)
      BY <2>5 DEF Claimed, Here, Claiming
    <3> QED
      BY <2>2, <2>3, <3>1
  <2>6. CASE c \in Claimed(s)' /\ Claimed(s) = {} /\ cred'[s].state # "current"
    BY <2>2, <2>6
  <2> QED
    BY <2>3, <2>4, <2>5, <2>6
<1>5. OneClaimant'
  <2>1. \A s \in Secrets : \A d, e \in Claimed(s) : d \in Conns /\ e \in Conns
    BY DEF Claimed
  <2>2. \A s \in Secrets : \A d, e \in Claimed(s) : d = e
    BY <1>0, <2>1 DEF OneClaimant
  <2>3. ASSUME NEW s \in Secrets, NEW d \in Claimed(s)', NEW e \in Claimed(s)' PROVE d = e
    BY <1>4, <2>2
  <2> QED
    BY <2>3 DEF OneClaimant
<1>6. ASSUME NEW s \in Secrets, NEW d \in Claimed(s)' PROVE cred'[s].state # "current"
  <2>1. SUFFICES ASSUME cred'[s].state = "current" PROVE FALSE
    OBVIOUS
  <2>2. d \in Claimed(s) /\ (r.at \notin Claiming => c \notin Claimed(s)')
    BY <1>4, <2>1
  <2>3. cred[s].state # "current"
    BY <1>0, <2>2 DEF ClaimedUsed
  <2>4. Claimed(s) \subseteq {c} /\ r.at \notin Claiming
    BY <2>1, <2>2, <2>3
  <2> QED
    BY <2>2, <2>4
<1>7. ClaimedUsed'
  BY <1>6 DEF ClaimedUsed
<1>8. OneHolder'
  BY <1>3 DEF OneHolder
<1>9. ConnsOK'
  BY <1>1, <1>2 DEF ConnsOK, Connections, Within, WithinNext
<1> QED
  BY <1>5, <1>7, <1>8, <1>9 DEF Sound

\* Connections end or keep what they have, and no credential becomes current.
LEMMA Fewer ==
    ASSUME IInv, connection' \in Connections,
           \A c \in Conns : LiveConn(c)' =>
              /\ LiveConn(c) /\ WithinNext(connection'[c])
              /\ connection'[c].id = connection[c].id
              /\ connection'[c].at = connection[c].at
              /\ connection'[c].secret = connection[c].secret,
           \A s \in Secrets : cred'[s].state = "current" => cred[s].state = "current"
    PROVE  Sound'
<1>0. ConnsOK /\ OneHolder /\ OneClaimant /\ ClaimedUsed
  BY DEF IInv, Sound
<1>1. ASSUME NEW s \in Secrets, NEW c \in Claimed(s)' PROVE c \in Claimed(s)
  BY <1>1 DEF Claimed, Here
<1>2. \A s \in Secrets : Claimed(s)' \subseteq Claimed(s)
  BY <1>1
<1>3. OneHolder'
  BY <1>0 DEF OneHolder
<1>4. OneClaimant'
  BY <1>0, <1>2 DEF OneClaimant
<1>5. ClaimedUsed'
  BY <1>0, <1>2 DEF ClaimedUsed
<1>6. ConnsOK'
  BY DEF ConnsOK, Connections, Within, WithinNext
<1> QED
  BY <1>3, <1>4, <1>5, <1>6 DEF Sound

-----------------------------------------------------------------------------
(* The processes and the files.                                              *)

LEMMA ProcsKept ==
    ASSUME IInv, UNCHANGED <<process, entry, rowId, rowLinked, made>>,
           minted' = minted \/ (minted < MaxSecrets /\ minted' = minted + 1),
           mishaps' = mishaps \/ Mishap, GhostsOK'
    PROVE  ProcsOK' /\ RowsKept
<1>1. RowsKept
  BY DEF RowsKept
<1>2. ProcsOK /\ minted \in Nat /\ minted' \in Nat /\ minted' =< MaxSecrets /\ minted =< minted'
  BY Numbers DEF IInv
<1>3. mishaps' \in 0..MaxMishaps
  BY ResumeAssumption, <1>2 DEF ProcsOK, Mishap
<1>4. entry \in 0..minted' /\ \A p \in Procs : process[p].secret =< minted'
  <2>1. \A p \in Procs : process[p].secret \in Nat /\ process[p].secret =< minted
    BY Numbers
  <2> QED
    BY <1>2, <2>1 DEF ProcsOK
<1> QED
  BY <1>1, <1>2, <1>3, <1>4, Numbers DEF ProcsOK

LEMMA GhostsStay == IInv /\ UNCHANGED ghosts => GhostsOK'
BY DEF IInv, ProcsOK, GhostsOK, ghosts

\* The connection that takes a step.
LEMMA OneConnection ==
    ASSUME IInv, NEW c \in Conns, LiveConn(c)
    PROVE  /\ connection[c] \in Connection /\ Within(connection[c])
           /\ connection[c].of \in Procs /\ rowId[connection[c].of] # 0
           /\ connection[c].state \in {"up", "lost"} /\ connection[c].at \in Stages
           /\ connection[c].secret \in 0..minted /\ connection[c].pending \in 0..minted
           /\ connection[c].note \in 0..minted /\ connection[c].consumed \in 0..minted
           /\ connection[c].id \in 1..made /\ connection[c].old \in 0..made
<1>1. connection[c] \in Connection /\ Within(connection[c])
  BY LiveIs DEF IInv, Sound
<1>2. made \in Nat /\ minted \in Nat /\ MaxConns \in Nat /\ MaxSecrets \in Nat
  BY Numbers
<1> QED
  BY <1>1, <1>2 DEF Connection, Within, WithinBounds, Conns

\* A step of one connection that neither mints nor changes the table.
LEMMA Moves ==
    ASSUME IInv, NEW c \in Conns, LiveConn(c), NEW r \in Connection,
           connection' = [connection EXCEPT ![c] = r],
           r.id = connection[c].id \/ ~ Held(r.id),
           r.at \in Claiming => connection[c].at \in Claiming /\ r.secret = connection[c].secret,
           RowsKept, WithinNext(r), UNCHANGED <<made, minted, cred>>
    PROVE  TableOK' /\ Sound'
<1>1. TableOK'
  BY TableStays
<1>2. made' \in Nat /\ minted' \in Nat /\ made =< made' /\ minted =< minted'
  BY Numbers
<1>3. \/ r.at \notin Claiming
      \/ LiveConn(c) /\ connection[c].at \in Claiming /\ r.secret = connection[c].secret
      \/ Claimed(r.secret) = {} /\ cred'[r.secret].state # "current"
  OBVIOUS
<1>4. \A s \in Secrets : cred'[s].state = "current"
         => \/ cred[s].state = "current" \/ Claimed(s) = {}
            \/ Claimed(s) \subseteq {c} /\ r.at \notin Claiming
  OBVIOUS
<1>5. (LiveConn(c) /\ r.id = connection[c].id) \/ ~ Held(r.id)
  OBVIOUS
<1>6. Sound'
  BY <1>2, <1>3, <1>4, <1>5, Stepped
<1> QED
  BY <1>1, <1>6

\* A connection at another stage.
LEMMA AtStage ==
    ASSUME NEW q \in Connection, NEW stage \in Stages
    PROVE  /\ [q EXCEPT !.at = stage] \in Connection
           /\ [q EXCEPT !.at = stage].at = stage
           /\ [q EXCEPT !.at = stage].id = q.id
           /\ [q EXCEPT !.at = stage].secret = q.secret
           /\ Within(q) /\ stage \notin {"lookup", "claim", "adopt"}
                 => Within([q EXCEPT !.at = stage])
BY DEF Connection, Within, WithinBounds

LEMMA GoesOn ==
    ASSUME IInv, NEW c \in Conns, LiveConn(c), NEW stage \in Stages, Goes(c, stage),
           stage \notin {"lookup", "claim", "adopt"},
           stage \in Claiming => connection[c].at \in Claiming,
           RowsKept, UNCHANGED <<made, minted, cred>>
    PROVE  TableOK' /\ Sound'
<1> DEFINE r == [connection[c] EXCEPT !.at = stage]
<1>1. connection[c] \in Connection /\ Within(connection[c])
  BY OneConnection
<1>2. /\ r \in Connection /\ r.at = stage /\ r.id = connection[c].id
      /\ r.secret = connection[c].secret /\ Within(r)
  BY <1>1, AtStage
<1>3. connection' = [connection EXCEPT ![c] = r]
  BY DEF Goes
<1> HIDE DEF r
<1>4. WithinNext(r)
  BY <1>2, Numbers, StillWithin
<1> QED
  BY <1>2, <1>3, <1>4, Moves

\* The session ends its presentation, and no credential becomes current but one
\* that it alone had claimed.
LEMMA Leaves ==
    ASSUME IInv, NEW c \in Conns, LiveConn(c), Goes(c, "relink"), RowsKept,
           UNCHANGED <<made, minted>>,
           \A s \in Secrets : cred'[s].state = "current"
              => cred[s].state = "current" \/ Claimed(s) \subseteq {c}
    PROVE  Sound'
<1> DEFINE r == [connection[c] EXCEPT !.at = "relink"]
<1>1. connection[c] \in Connection /\ Within(connection[c])
  BY OneConnection
<1>2. /\ r \in Connection /\ r.at = "relink" /\ r.id = connection[c].id /\ Within(r)
  BY <1>1, AtStage DEF Stages
<1>3. connection' = [connection EXCEPT ![c] = r]
  BY DEF Goes
<1> HIDE DEF r
<1>4. WithinNext(r) /\ r.at \notin Claiming
  BY <1>2, Numbers, StillWithin DEF Claiming
<1>5. made' \in Nat /\ minted' \in Nat /\ made =< made' /\ minted =< minted'
  BY Numbers
<1>6. \A s \in Secrets : cred'[s].state = "current"
         => \/ cred[s].state = "current" \/ Claimed(s) = {}
            \/ Claimed(s) \subseteq {c} /\ r.at \notin Claiming
  BY <1>4
<1> QED
  BY <1>2, <1>3, <1>4, <1>5, <1>6, Stepped

LEMMA Refused ==
    ASSUME IInv, NEW c \in Conns, LiveConn(c), NEW answer \in {"superseded", "revoked"},
           Refuses(c, answer), RowsKept, UNCHANGED <<made, minted, cred>>
    PROVE  TableOK' /\ Sound'
<1> DEFINE q == connection[c]
           r == [q EXCEPT !.at = "relink", !.answer = answer]
<1>1. q \in Connection /\ Within(q)
  BY OneConnection
<1>2. connection' = [connection EXCEPT ![c] = r]
  BY DEF Refuses
<1> HIDE DEF q
<1>3. r \in Connection
  BY <1>1 DEF Connection, Stages
<1>4. /\ r.id = q.id /\ r.of = q.of /\ r.old = q.old /\ r.pending = q.pending
      /\ r.note = q.note /\ r.consumed = q.consumed /\ r.at = "relink" /\ r.secret = q.secret
  BY <1>1 DEF Connection
<1> HIDE DEF r
<1>5. Within(r) /\ r.at \notin Claiming
  BY <1>1, <1>4 DEF Within, WithinBounds, Claiming
<1>6. WithinNext(r)
  BY <1>3, <1>5, Numbers, StillWithin
<1>7. r.id = connection[c].id
  BY <1>4 DEF q
<1> QED
  BY <1>2, <1>3, <1>5, <1>6, <1>7, Moves

\* A step of one connection that mints, and claims nothing new.
LEMMA Mints ==
    ASSUME IInv, RowsKept, NEW c \in Conns, NEW p \in Procs, rowId'[p] # 0,
           NEW k \in 0..minted, minted < MaxSecrets, minted' = minted + 1,
           cred' = Minted(p, minted + 1, k), made' \in Nat, made =< made',
           NEW r \in Connection, connection' = [connection EXCEPT ![c] = r],
           (LiveConn(c) /\ r.id = connection[c].id) \/ ~ Held(r.id),
           \/ r.at \notin Claiming
           \/ LiveConn(c) /\ connection[c].at \in Claiming /\ r.secret = connection[c].secret,
           WithinNext(r)
    PROVE  TableOK' /\ Sound'
<1>1. /\ TableOK'
      /\ \A s \in Secrets : cred'[s].state = "current"
                            => cred[s].state = "current" \/ Claimed(s) = {}
  BY TableMints
<1>2. minted' \in Nat /\ minted =< minted'
  BY Numbers
<1>3. \/ r.at \notin Claiming
      \/ LiveConn(c) /\ connection[c].at \in Claiming /\ r.secret = connection[c].secret
      \/ Claimed(r.secret) = {} /\ cred'[r.secret].state # "current"
  OBVIOUS
<1>4. \A s \in Secrets : cred'[s].state = "current"
         => \/ cred[s].state = "current" \/ Claimed(s) = {}
            \/ Claimed(s) \subseteq {c} /\ r.at \notin Claiming
  BY <1>1
<1>5. Sound'
  BY <1>2, <1>3, <1>4, Stepped
<1> QED
  BY <1>1, <1>5

-----------------------------------------------------------------------------
(* The steps, one lemma for each.                                            *)

LEMMA FreshIs ==
    ASSUME NEW p \in Procs, NEW c \in Conns
    PROVE  /\ Fresh(p, c) \in Connection
           /\ Fresh(p, c).of = p /\ Fresh(p, c).at = "idle" /\ Fresh(p, c).secret = 0
           /\ Fresh(p, c).old = 0 /\ Fresh(p, c).consumed = 0 /\ Fresh(p, c).note = 0
           /\ Fresh(p, c).id = c /\ Fresh(p, c).pending = 0
<1>1. 0 \in 0..MaxSecrets /\ 0 \in 0..MaxConns /\ 0 \in Nat
  BY ResumeAssumption
<1>2. Fresh(p, c) \in Connection
  BY <1>1 DEF Fresh, Connection, NoSecret, Stages, Recoveries
<1> QED
  BY <1>2 DEF Fresh, NoSecret

LEMMA StepInitialize == \A p \in Procs : IInv /\ Initialize(p) => IInv'
<1> SUFFICES ASSUME NEW p \in Procs, IInv, Initialize(p) PROVE IInv'
  OBVIOUS
<1> DEFINE c == made + 1
           new == minted + 1
<1>0. /\ made \in Nat /\ minted \in Nat /\ MaxConns \in Nat /\ MaxSecrets \in Nat
      /\ made < MaxConns /\ made' = c /\ minted =< MaxSecrets
      /\ rowId \in [Procs -> 0..made]
  BY Numbers DEF Initialize, IInv, ProcsOK
<1>1. c \in Conns /\ made' \in Nat /\ made =< made' /\ c # 0 /\ 0 \in 0..minted
  BY <1>0 DEF Conns
<1>2. ~ Held(c)
  <2>1. \A d \in Conns : LiveConn(d) => connection[d].id \in 1..made
    BY OneConnection
  <2> QED
    BY <1>0, <2>1 DEF Held
<1>3. UNCHANGED <<process, entry, rowLinked, mishaps, ghosts>>
  BY DEF Initialize
<1>4. ASSUME NEW r \in Connection, r.of = p, r.id \in Conns, r.id =< made', r.at = "idle",
             r.secret = 0, r.old = 0, r.consumed = 0, r.note = 0,
             r.pending \in 0..minted', minted' \in Nat, rowId'[p] # 0
      PROVE  r.at \notin Claiming /\ WithinNext(r)
  BY <1>0, <1>4 DEF WithinNext, WithinBounds, Claiming
<1>f. /\ Fresh(p, c) \in Connection
      /\ Fresh(p, c).of = p /\ Fresh(p, c).at = "idle" /\ Fresh(p, c).secret = 0
      /\ Fresh(p, c).old = 0 /\ Fresh(p, c).consumed = 0 /\ Fresh(p, c).note = 0
      /\ Fresh(p, c).id = c /\ Fresh(p, c).pending = 0
  BY <1>1, FreshIs
<1>5. ASSUME rowId' \in [Procs -> 0..made'], minted' \in 0..MaxSecrets, minted =< minted'
      PROVE  ProcsOK'
  <2>1. entry \in 0..minted' /\ \A q \in Procs : process[q].secret =< minted'
    <3>1. \A q \in Procs : process[q].secret \in Nat /\ process[q].secret =< minted
      BY Numbers
    <3> QED
      BY <1>0, <1>5, <3>1 DEF IInv, ProcsOK
  <2> QED
    BY <1>0, <1>1, <1>3, <1>5, <2>1, GhostsStay DEF IInv, ProcsOK
<1>6. CASE /\ rowId[p] = 0 /\ rowId' = [rowId EXCEPT ![p] = c]
           /\ minted < MaxSecrets /\ minted' = new /\ cred' = Minted(p, new, 0)
           /\ connection' = [connection EXCEPT ![c] =
                 [Fresh(p, c) EXCEPT !.recovery = "established", !.id = c, !.pending = new]]
  <2> DEFINE r == [Fresh(p, c) EXCEPT !.recovery = "established", !.id = c, !.pending = new]
  <2>1. rowId' \in [Procs -> 0..made'] /\ rowId'[p] # 0 /\ RowsKept
    BY <1>0, <1>1, <1>6 DEF RowsKept
  <2>2. minted' \in 0..MaxSecrets /\ minted =< minted' /\ new \in 0..minted'
    BY <1>0, <1>6
  <2>3. /\ r \in Connection /\ r.of = p /\ r.id = c /\ r.pending = new /\ r.at = "idle"
        /\ r.secret = 0 /\ r.old = 0 /\ r.consumed = 0 /\ r.note = 0
    <3>1. new \in 0..MaxSecrets /\ "established" \in Recoveries
      BY <1>0, <2>2 DEF Recoveries
    <3> HIDE DEF c, new
    <3> QED
      BY <1>1, <1>f, <2>1, <3>1 DEF Connection
  <2>4. r.at \notin Claiming /\ WithinNext(r)
    <3>1. c =< made' /\ minted' \in Nat
      BY <1>0, <2>2
    <3> HIDE DEF r, c, new
    <3> QED
      BY <1>1, <1>4, <2>1, <2>2, <2>3, <3>1
  <2>5. TableOK' /\ Sound'
    <3>1. connection' = [connection EXCEPT ![c] = r]
      BY <1>6
    <3> HIDE DEF r
    <3> QED
      BY <1>1, <1>2, <1>6, <2>1, <2>3, <2>4, <3>1, Mints, ZenonT(40)
  <2> QED
    BY <1>5, <2>1, <2>2, <2>5 DEF IInv
<1>7. CASE /\ rowId[p] # 0 /\ ~ Held(rowId[p]) /\ UNCHANGED rowId
           /\ minted < MaxSecrets /\ minted' = new /\ cred' = Minted(p, new, 0)
           /\ connection' = [connection EXCEPT ![c] =
                 [Fresh(p, c) EXCEPT !.recovery = "restored", !.id = rowId[p], !.pending = new]]
  <2> DEFINE r == [Fresh(p, c) EXCEPT !.recovery = "restored", !.id = rowId[p], !.pending = new]
  <2>1. /\ rowId' \in [Procs -> 0..made'] /\ rowId'[p] # 0 /\ RowsKept
        /\ rowId[p] \in Conns /\ rowId[p] =< made'
    BY <1>0, <1>1, <1>7 DEF RowsKept, Conns
  <2>2. minted' \in 0..MaxSecrets /\ minted =< minted' /\ new \in 0..minted'
    BY <1>0, <1>7
  <2>3. /\ r \in Connection /\ r.of = p /\ r.id = rowId[p] /\ r.pending = new /\ r.at = "idle"
        /\ r.secret = 0 /\ r.old = 0 /\ r.consumed = 0 /\ r.note = 0
    <3>1. new \in 0..MaxSecrets /\ "restored" \in Recoveries
      BY <1>0, <2>2 DEF Recoveries
    <3> HIDE DEF c, new
    <3> QED
      BY <1>1, <1>f, <2>1, <3>1 DEF Connection
  <2>4. r.at \notin Claiming /\ WithinNext(r)
    <3>1. c =< made' /\ minted' \in Nat
      BY <1>0, <2>2
    <3> HIDE DEF r, c, new
    <3> QED
      BY <1>1, <1>4, <2>1, <2>2, <2>3, <3>1
  <2>5. TableOK' /\ Sound'
    <3>1. connection' = [connection EXCEPT ![c] = r] /\ ~ Held(r.id)
      BY <1>7, <2>3
    <3> HIDE DEF r
    <3> QED
      BY <1>1, <1>7, <2>1, <2>3, <2>4, <3>1, Mints
  <2> QED
    BY <1>5, <2>1, <2>2, <2>5 DEF IInv
<1>8. CASE /\ rowId[p] # 0 /\ UNCHANGED <<rowId, minted, cred>>
           /\ connection' = [connection EXCEPT ![c] =
                 [Fresh(p, c) EXCEPT !.recovery = "degraded", !.retries = TRUE]]
  <2> DEFINE r == [Fresh(p, c) EXCEPT !.recovery = "degraded", !.retries = TRUE]
  <2>1. rowId' \in [Procs -> 0..made'] /\ rowId'[p] # 0 /\ RowsKept
    BY <1>0, <1>1, <1>8 DEF RowsKept
  <2>2. minted' \in 0..MaxSecrets /\ minted =< minted' /\ 0 \in 0..minted'
    BY <1>0, <1>8
  <2>3. /\ r \in Connection /\ r.of = p /\ r.id = c /\ r.pending = 0 /\ r.at = "idle"
        /\ r.secret = 0 /\ r.old = 0 /\ r.consumed = 0 /\ r.note = 0
    <3> HIDE DEF c
    <3> QED
      BY <1>f DEF Connection, Recoveries
  <2>4. r.at \notin Claiming /\ WithinNext(r)
    <3>1. c =< made' /\ minted' \in Nat
      BY <1>0, <2>2
    <3> HIDE DEF r, c
    <3> QED
      BY <1>1, <1>4, <2>1, <2>2, <2>3, <3>1
  <2>5. TableOK' /\ Sound'
    <3>1. connection' = [connection EXCEPT ![c] = r] /\ ~ Held(r.id)
      BY <1>2, <1>8, <2>3
    <3>2. TableOK'
      BY <1>8, <2>1, TableStays
    <3>3. minted' \in Nat /\ minted =< minted' /\ UNCHANGED cred
      BY <1>0, <1>8
    <3>4. \A s \in Secrets : cred'[s].state = "current"
             => \/ cred[s].state = "current" \/ Claimed(s) = {}
                \/ Claimed(s) \subseteq {c} /\ r.at \notin Claiming
      BY <3>3
    <3> HIDE DEF r
    <3>5. Sound'
      BY <1>1, <2>1, <2>3, <2>4, <3>1, <3>3, <3>4, Stepped
    <3> QED
      BY <3>2, <3>5
  <2> QED
    BY <1>5, <2>1, <2>2, <2>5 DEF IInv
<1> QED
  BY <1>6, <1>7, <1>8 DEF Initialize

LEMMA StepExit == \A p \in Procs : IInv /\ Exit(p) => ProcsOK'
<1> SUFFICES ASSUME NEW p \in Procs, IInv, Exit(p) PROVE ProcsOK'
  OBVIOUS
<1>1. /\ process' = [process EXCEPT ![p] = Gone]
      /\ UNCHANGED <<entry, rowId, rowLinked, made, minted, mishaps, ghosts>>
  BY DEF Exit
<1>2. Gone \in Process /\ Gone.secret = 0 /\ minted \in Nat
  <2>1. NewProcess \in Process /\ NewProcess.secret = 0
    BY ResumeAssumption DEF NewProcess, Process, NoSecret
  <2> QED
    BY <2>1, Numbers DEF Gone, Process
<1>3. process' \in [Procs -> Process] /\ \A q \in Procs : process'[q].secret =< minted
  BY <1>1, <1>2 DEF IInv, ProcsOK
<1> QED
  BY <1>1, <1>3, GhostsStay DEF IInv, ProcsOK

\* Connections are lost, and keep all they have.
LEMMA Broken ==
    ASSUME IInv, NEW broken \in SUBSET Conns, \A c \in broken : connection[c].state = "up",
           Breaks(broken), UNCHANGED <<rowId, cred, made, minted>>
    PROVE  TableOK' /\ Sound'
<1>1. RowsKept
  BY DEF RowsKept
<1>2. ASSUME NEW c \in broken
      PROVE  /\ [connection[c] EXCEPT !.state = "lost"] \in Connection
             /\ [connection[c] EXCEPT !.state = "lost"].state = "lost"
             /\ [connection[c] EXCEPT !.state = "lost"].id = connection[c].id
             /\ [connection[c] EXCEPT !.state = "lost"].at = connection[c].at
             /\ [connection[c] EXCEPT !.state = "lost"].secret = connection[c].secret
             /\ Within([connection[c] EXCEPT !.state = "lost"])
  <2>1. connection[c] \in Connection /\ Within(connection[c])
    BY <1>2, OneConnection DEF LiveConn
  <2> QED
    BY <2>1 DEF Connection, Within, WithinBounds
<1>3. \A c \in Conns : connection'[c] = IF c \in broken THEN [connection[c] EXCEPT !.state = "lost"]
                                        ELSE connection[c]
  BY DEF Breaks
<1>4. connection' \in Connections
  BY <1>2 DEF Breaks, IInv, Sound, ConnsOK, Connections
<1>5. \A c \in Conns :
        LiveConn(c)' => /\ LiveConn(c) /\ Within(connection'[c])
                        /\ connection'[c].id = connection[c].id
                        /\ connection'[c].at = connection[c].at
                        /\ connection'[c].secret = connection[c].secret
  BY <1>2, <1>3, OneConnection, ZenonT(40) DEF LiveConn
<1>6. \A c \in Conns : Within(connection'[c]) => WithinNext(connection'[c])
  BY DEF Within, WithinNext
<1>7. Sound'
  BY <1>4, <1>5, <1>6, Fewer
<1>8. TableOK'
  BY <1>1, TableStays
<1> QED
  BY <1>7, <1>8

LEMMA StepEnding ==
    /\ \A p \in Procs : IInv /\ Exit(p) => IInv'
    /\ \A p \in Procs, c \in Conns : IInv /\ BreakOff(p, c) => IInv'
<1>1. ASSUME NEW p \in Procs, IInv, Exit(p) PROVE IInv'
  <2>1. TableOK' /\ Sound'
    <3> DEFINE broken == {c \in Conns : Up(p, c)}
    <3>1. /\ broken \in SUBSET Conns /\ \A c \in broken : connection[c].state = "up"
          /\ Breaks(broken) /\ UNCHANGED <<rowId, cred, made, minted>>
      BY <1>1 DEF Exit, Up
    <3> QED
      BY <1>1, <3>1, Broken
  <2> QED
    BY <1>1, <2>1, StepExit DEF IInv
<1>2. ASSUME NEW p \in Procs, NEW c \in Conns, IInv, BreakOff(p, c) PROVE IInv'
  <2>1. ProcsOK'
    BY <1>2, GhostsStay, ProcsKept DEF BreakOff
  <2>2. TableOK' /\ Sound'
    BY <1>2, Broken DEF BreakOff, Up
  <2> QED
    BY <2>1, <2>2 DEF IInv
<1> QED
  BY <1>1, <1>2

LEMMA StepDaemonDies == IInv /\ DaemonDies => IInv'
<1> SUFFICES ASSUME IInv, DaemonDies PROVE IInv'
  OBVIOUS
<1>1. /\ Mishap /\ cut' = cut \cup {s \in Secrets : Claimed(s) # {}}
      /\ connection' = [c \in Conns |-> IF c =< made THEN Ended ELSE connection[c]]
      /\ UNCHANGED <<process, entry, rowId, rowLinked, cred, made, minted, heir>>
  BY DEF DaemonDies
<1>2. GhostsOK'
  <2>1. {s \in Secrets : Claimed(s) # {}} \subseteq 0..MaxSecrets
    BY DEF Secrets
  <2>2. GhostsOK
    BY DEF IInv, ProcsOK
  <2> HIDE DEF Secrets
  <2> QED
    BY <1>1, <2>1, <2>2 DEF GhostsOK
<1>3. ProcsOK' /\ RowsKept
  BY <1>1, <1>2, ProcsKept
<1>4. \A c \in Conns : LiveConn(c)' => LiveConn(c) /\ connection'[c] = connection[c]
  BY <1>1 DEF LiveConn, Ended
<1>5. \A c \in Conns : LiveConn(c) => WithinNext(connection[c])
  <2>1. \A c \in Conns : LiveConn(c) => Within(connection[c])
    BY OneConnection
  <2> QED
    BY <1>1, <2>1 DEF Within, WithinNext
<1>6. connection' \in Connections
  BY <1>1 DEF IInv, Sound, ConnsOK, Connections
<1>7. Sound'
  BY <1>1, <1>4, <1>5, <1>6, Fewer
<1> QED
  BY <1>1, <1>3, <1>7, TableStays DEF IInv

LEMMA StepDetach == \A c \in Conns : IInv /\ Detach(c) => IInv'
<1> SUFFICES ASSUME NEW c \in Conns, IInv, Detach(c) PROVE IInv'
  OBVIOUS
<1>1. /\ connection' = [connection EXCEPT ![c] = Ended]
      /\ UNCHANGED <<process, entry, rowId, rowLinked, cred, made, minted, mishaps, ghosts>>
  BY DEF Detach
<1>2. ProcsOK' /\ RowsKept
  BY <1>1, GhostsStay, ProcsKept
<1>3. connection' \in Connections
  BY <1>1 DEF IInv, Sound, ConnsOK, Connections
<1>4. \A d \in Conns : LiveConn(d)' => LiveConn(d) /\ connection'[d] = connection[d]
  BY <1>1 DEF LiveConn, Ended, IInv, Sound, ConnsOK, Connections
<1>5. \A d \in Conns : LiveConn(d) => WithinNext(connection[d])
  <2>1. \A d \in Conns : LiveConn(d) => Within(connection[d])
    BY OneConnection
  <2> QED
    BY <1>1, <2>1 DEF Within, WithinNext
<1>6. Sound'
  BY <1>1, <1>3, <1>4, <1>5, Fewer
<1> QED
  BY <1>1, <1>2, <1>6, TableStays DEF IInv

LEMMA StepConverge == \A c \in Conns : IInv /\ Converge(c) => IInv'
<1> SUFFICES ASSUME NEW c \in Conns, IInv, Converge(c) PROVE IInv'
  OBVIOUS
<1> DEFINE q == connection[c]
           p == q.of
           r == [q EXCEPT !.recovery = "restored", !.id = rowId[p], !.pending = minted + 1]
<1>1. /\ LiveConn(c) /\ ~ Held(rowId[p]) /\ minted < MaxSecrets /\ minted' = minted + 1
      /\ connection' = [connection EXCEPT ![c] = r]
      /\ cred' = Minted(p, minted + 1, 0)
      /\ UNCHANGED <<process, entry, rowId, rowLinked, made, mishaps, ghosts>>
  BY DEF Converge, LiveConn
<1>2. q \in Connection /\ Within(q) /\ p \in Procs /\ rowId[p] # 0
  BY <1>1, OneConnection
<1>3. /\ made \in Nat /\ minted \in Nat /\ MaxConns \in Nat /\ MaxSecrets \in Nat
      /\ made =< MaxConns /\ rowId[p] \in 0..made
  BY <1>2, Numbers
<1>4. ProcsOK' /\ RowsKept
  BY <1>1, GhostsStay, ProcsKept
<1>5. WithinNext(q)
  BY <1>1, <1>2, <1>3, <1>4, StillWithin
<1>6. rowId[p] \in Conns /\ rowId[p] =< made' /\ minted + 1 \in 0..MaxSecrets /\ 0 \in 0..minted
  BY <1>1, <1>2, <1>3 DEF Conns
<1>7. /\ r \in Connection /\ r.id = rowId[p] /\ r.at = q.at /\ r.secret = q.secret
      /\ WithinNext(r)
  <2> HIDE DEF q, p
  <2>1. r \in Connection
    BY <1>2, <1>6 DEF Connection, Recoveries
  <2>2. /\ r.id = rowId[p] /\ r.of = q.of /\ r.old = q.old /\ r.pending = minted + 1
        /\ r.note = q.note /\ r.consumed = q.consumed /\ r.at = q.at /\ r.secret = q.secret
    BY <1>2 DEF Connection
  <2> HIDE DEF r
  <2> QED
    BY <1>1, <1>3, <1>5, <1>6, <2>1, <2>2 DEF WithinNext, WithinBounds
<1>8. TableOK' /\ Sound'
  <2>1. rowId'[p] # 0 /\ made' \in Nat /\ made =< made'
    BY <1>1, <1>2, <1>3
  <2>2. \/ r.at \notin Claiming
        \/ LiveConn(c) /\ connection[c].at \in Claiming /\ r.secret = connection[c].secret
    BY <1>1, <1>7
  <2>3. ~ Held(r.id)
    BY <1>1, <1>7
  <2> HIDE DEF r, p
  <2> QED
    BY <1>1, <1>2, <1>4, <1>6, <1>7, <2>1, <2>2, <2>3, Mints
<1> QED
  BY <1>4, <1>8 DEF IInv

LEMMA StepDisclose == \A c \in Conns : IInv /\ Disclose(c) => IInv'
<1> SUFFICES ASSUME NEW c \in Conns, IInv, Disclose(c) PROVE IInv'
  OBVIOUS
<1> DEFINE q == connection[c]
           p == q.of
           r == [q EXCEPT !.pending = NoSecret]
<1>1. /\ LiveConn(c) /\ connection' = [connection EXCEPT ![c] = r]
      /\ process' = [process EXCEPT ![p].secret = q.pending]
      /\ entry' \in {q.pending, entry}
      /\ UNCHANGED <<rowId, rowLinked, cred, made, minted, mishaps, ghosts>>
  BY DEF Disclose, LiveConn
<1>2. q \in Connection /\ Within(q) /\ p \in Procs /\ q.pending \in 0..minted
  BY <1>1, OneConnection
<1>3. /\ minted \in Nat /\ MaxSecrets \in Nat /\ minted =< MaxSecrets /\ made \in Nat
      /\ q.pending \in 0..MaxSecrets
  BY <1>2, Numbers
<1>4. /\ process \in [Procs -> Process] /\ \A x \in Procs : process[x].secret =< minted
      /\ entry \in 0..minted
  BY DEF IInv, ProcsOK
<1>5. ProcsOK'
  <2>1. /\ [process[p] EXCEPT !.secret = q.pending] \in Process
        /\ [process[p] EXCEPT !.secret = q.pending].secret =< minted
    BY <1>2, <1>3, <1>4 DEF Process
  <2>2. process' = [process EXCEPT ![p] = [process[p] EXCEPT !.secret = q.pending]]
    BY <1>1
  <2>3. process' \in [Procs -> Process] /\ \A x \in Procs : process'[x].secret =< minted
    BY <1>2, <1>4, <2>1, <2>2
  <2>4. entry' \in 0..minted
    BY <1>1, <1>2, <1>4
  <2> QED
    BY <1>1, <2>3, <2>4, GhostsStay DEF IInv, ProcsOK
<1>6. /\ r \in Connection /\ r.id = q.id /\ r.at = q.at /\ r.secret = q.secret /\ Within(r)
  <2> HIDE DEF q
  <2> QED
    BY <1>2, <1>3 DEF Connection, Within, WithinBounds, NoSecret
<1>7. RowsKept /\ WithinNext(r)
  BY <1>1, <1>6 DEF RowsKept, Within, WithinNext
<1>8. TableOK' /\ Sound'
  <2> HIDE DEF r
  <2> QED
    BY <1>1, <1>6, <1>7, Moves
<1> QED
  BY <1>5, <1>8 DEF IInv

LEMMA StepSessionStart ==
    \A p \in Procs, c \in Conns : IInv /\ SessionStart(p, c) => IInv'
<1> SUFFICES ASSUME NEW p \in Procs, NEW c \in Conns, IInv, SessionStart(p, c) PROVE IInv'
  OBVIOUS
<1> DEFINE q == connection[c]
           r == [q EXCEPT !.at = "lookup", !.secret = entry]
<1>1. /\ LiveConn(c)
      /\ UNCHANGED <<entry, rowId, rowLinked, cred, made, minted, mishaps, ghosts>>
  BY DEF SessionStart, Idle, Here
<1>2. RowsKept /\ q \in Connection /\ Within(q)
  BY <1>1, OneConnection DEF RowsKept
<1>3. CASE UNCHANGED process /\ Goes(c, "relink")
  <2>1. ProcsOK'
    BY <1>1, <1>3, GhostsStay, ProcsKept
  <2>2. TableOK' /\ Sound'
    BY <1>1, <1>2, <1>3, GoesOn DEF Stages, Claiming
  <2> QED
    BY <2>1, <2>2 DEF IInv
<1>4. CASE /\ entry # NoSecret
           /\ connection' = [connection EXCEPT ![c] = r]
           /\ process' = [process EXCEPT ![p].presented = TRUE]
  <2>1. /\ process \in [Procs -> Process] /\ \A x \in Procs : process[x].secret =< minted
        /\ entry \in 0..minted /\ minted \in Nat /\ MaxSecrets \in Nat /\ minted =< MaxSecrets
    BY Numbers DEF IInv, ProcsOK
  <2>2. ProcsOK'
    <3>1. /\ [process[p] EXCEPT !.presented = TRUE] \in Process
          /\ [process[p] EXCEPT !.presented = TRUE].secret = process[p].secret
      BY <2>1 DEF Process
    <3>2. process' = [process EXCEPT ![p] = [process[p] EXCEPT !.presented = TRUE]]
      BY <1>4
    <3>3. process' \in [Procs -> Process] /\ \A x \in Procs : process'[x].secret =< minted
      BY <2>1, <3>1, <3>2
    <3> QED
      BY <1>1, <3>3, GhostsStay DEF IInv, ProcsOK
  <2>3. r \in Connection /\ r.id = q.id /\ r.at \notin Claiming /\ Within(r)
    <3>1. entry \in 0..MaxSecrets /\ "lookup" \in Stages
      BY <2>1 DEF Stages
    <3> HIDE DEF q
    <3>2. r \in Connection
      BY <1>2, <3>1 DEF Connection
    <3>3. /\ r.id = q.id /\ r.of = q.of /\ r.old = q.old /\ r.pending = q.pending
          /\ r.note = q.note /\ r.consumed = q.consumed
          /\ r.at = "lookup" /\ r.secret = entry
      BY <1>2 DEF Connection
    <3> HIDE DEF r
    <3> QED
      BY <1>2, <1>4, <2>1, <3>2, <3>3 DEF Within, WithinBounds, Claiming
  <2>4. WithinNext(r)
    BY <1>1, <2>3 DEF Within, WithinNext
  <2>5. TableOK' /\ Sound'
    <3> HIDE DEF r
    <3> QED
      BY <1>1, <1>2, <1>4, <2>3, <2>4, Moves
  <2> QED
    BY <2>2, <2>5 DEF IInv
<1> QED
  BY <1>3, <1>4 DEF SessionStart, Presents

LEMMA StepMovesOn == \A p \in Procs, c \in Conns : IInv /\ MovesOn(p, c) => IInv'
<1> SUFFICES ASSUME NEW p \in Procs, NEW c \in Conns, IInv, MovesOn(p, c) PROVE IInv'
  OBVIOUS
<1> DEFINE T == [s \in Secrets |-> IF s \in Of(p) THEN [cred[s] EXCEPT !.state = "revoked"]
                                   ELSE cred[s]]
<1>1. /\ rowLinked' = [rowLinked EXCEPT ![p] = FALSE] /\ cred' = T
      /\ UNCHANGED <<process, entry, rowId, connection, made, minted, mishaps, ghosts>>
  BY DEF MovesOn
<1>2. ProcsOK' /\ RowsKept
  BY <1>1, GhostsStay DEF IInv, ProcsOK, RowsKept
<1>3. ASSUME NEW s \in Secrets
      PROVE  /\ \/ T[s] = cred[s]
                \/ /\ cred[s] # NoCredential /\ T[s] \in Credential
                   /\ T[s].row = cred[s].row /\ T[s].gen = cred[s].gen
                   /\ T[s].state # "revoked" => T[s].fails < FailureLimit
             /\ T[s].state = "current" => cred[s].state = "current"
  <2>1. CASE s \notin Of(p)
    BY <2>1
  <2>2. CASE s \in Of(p)
    <3>1. cred[s] # NoCredential /\ cred[s] \in Credential
      BY <2>2 DEF Of, IInv, TableOK, Creds
    <3>2. T[s] = [cred[s] EXCEPT !.state = "revoked"]
      BY <2>2
    <3>3. /\ [cred[s] EXCEPT !.state = "revoked"] \in Credential
          /\ [cred[s] EXCEPT !.state = "revoked"].row = cred[s].row
          /\ [cred[s] EXCEPT !.state = "revoked"].gen = cred[s].gen
          /\ [cred[s] EXCEPT !.state = "revoked"].state = "revoked"
      BY <3>1 DEF Credential
    <3> QED
      BY <3>1, <3>2, <3>3
  <2> QED
    BY <2>1, <2>2
<1>4. T = [s \in Secrets |-> T[s]]
  OBVIOUS
<1> HIDE DEF T
<1>5. TableOK'
  BY <1>1, <1>2, <1>3, <1>4, TableKept
<1>6. Sound'
  <2>1. connection' \in Connections
    BY <1>1 DEF IInv, Sound, ConnsOK, Connections
  <2>2. \A d \in Conns : LiveConn(d)' => LiveConn(d) /\ connection'[d] = connection[d]
    BY <1>1 DEF LiveConn
  <2>3. \A d \in Conns : LiveConn(d) => WithinNext(connection[d])
    <3>1. \A d \in Conns : LiveConn(d) => Within(connection[d])
      BY OneConnection
    <3> QED
      BY <1>1, <3>1 DEF Within, WithinNext
  <2>4. \A s \in Secrets : cred'[s].state = "current" => cred[s].state = "current"
    BY <1>1, <1>3
  <2> QED
    BY <2>1, <2>2, <2>3, <2>4, Fewer
<1> QED
  BY <1>2, <1>5, <1>6 DEF IInv

LEMMA StepLookup == \A c \in Conns : IInv /\ Lookup(c) => IInv'
<1> SUFFICES ASSUME NEW c \in Conns, IInv, Lookup(c) PROVE IInv'
  OBVIOUS
<1> DEFINE q == connection[c]
           s == q.secret
<1>1. /\ LiveConn(c) /\ q.at = "lookup"
      /\ UNCHANGED <<process, entry, rowId, rowLinked, made, minted, mishaps, ghosts>>
  BY DEF Lookup, Here
<1>2. /\ q \in Connection /\ Within(q) /\ s \in 0..minted /\ s # 0
      /\ minted \in Nat /\ MaxSecrets \in Nat /\ minted =< MaxSecrets
  BY <1>1, OneConnection, Numbers DEF Within, WithinBounds, NoSecret
<1>3. s \in Secrets
  BY <1>2 DEF Secrets
<1>4. ProcsOK' /\ RowsKept
  BY <1>1, GhostsStay, ProcsKept
<1>5. WithinNext(q)
  BY <1>1, <1>2 DEF Within, WithinNext
<1>6. CASE /\ Linked(s) /\ UNCHANGED cred
           /\ connection' = [connection EXCEPT ![c].at = "claim", ![c].old = rowId[cred[s].row]]
  <2> DEFINE r == [q EXCEPT !.at = "claim", !.old = rowId[cred[s].row]]
  <2>1. cred[s] \in Credential /\ rowId[cred[s].row] # 0
    BY <1>3, <1>6 DEF Linked, IInv, TableOK, Creds
  <2>2. rowId[cred[s].row] \in 0..made /\ made \in Nat /\ made =< MaxConns /\ MaxConns \in Nat
    BY <2>1, Numbers DEF Credential
  <2>3. rowId[cred[s].row] \in 0..MaxConns /\ "claim" \in Stages
    BY <2>2 DEF Stages
  <2> HIDE DEF q
  <2>4. r \in Connection
    BY <1>2, <2>3 DEF Connection
  <2>5. /\ r.id = q.id /\ r.of = q.of /\ r.old = rowId[cred[s].row] /\ r.pending = q.pending
        /\ r.note = q.note /\ r.consumed = q.consumed /\ r.at = "claim" /\ r.secret = q.secret
    BY <1>2 DEF Connection
  <2>6. connection' = [connection EXCEPT ![c] = r]
    BY <1>6 DEF q
  <2>7. rowId[cred[s].row] =< made'
    BY <1>1, <2>2
  <2> HIDE DEF r
  <2>8. WithinNext(r) /\ r.at \notin Claiming
    BY <1>2, <1>5, <2>1, <2>5, <2>7 DEF WithinNext, WithinBounds, Claiming, NoSecret
  <2>9. r.id = connection[c].id
    BY <2>5 DEF q
  <2>10. TableOK' /\ Sound'
    BY <1>1, <1>4, <1>6, <2>4, <2>6, <2>8, <2>9, Moves
  <2> QED
    BY <1>4, <2>10 DEF IInv
<1>7. CASE Goes(c, "relink") /\ UNCHANGED cred
  <2>1. TableOK' /\ Sound'
    BY <1>1, <1>4, <1>7, GoesOn DEF Stages, Claiming
  <2> QED
    BY <1>4, <2>1 DEF IInv
<1>8. ASSUME NEW state \in {"superseded", "revoked"}, Refuses(c, state), UNCHANGED cred
      PROVE  IInv'
  <2>1. TableOK' /\ Sound'
    BY <1>1, <1>4, <1>8, Refused
  <2> QED
    BY <1>4, <2>1 DEF IInv
<1>9. CASE cred' = Counted /\ Goes(c, "relink")
  <2>1. ASSUME NEW t \in Secrets
        PROVE  /\ \/ Counted[t] = cred[t]
                  \/ /\ cred[t] # NoCredential /\ Counted[t] \in Credential
                     /\ Counted[t].row = cred[t].row /\ Counted[t].gen = cred[t].gen
                     /\ Counted[t].state # "revoked" => Counted[t].fails < FailureLimit
               /\ Counted[t].state = "current" => cred[t].state = "current"
    <3>1. CASE ~ (Linked(t) /\ cred[t].state = "current")
      BY <3>1 DEF Counted
    <3>2. CASE Linked(t) /\ cred[t].state = "current"
      <4> DEFINE state == IF cred[t].fails + 1 >= FailureLimit THEN "revoked" ELSE cred[t].state
                 u == [cred[t] EXCEPT !.fails = cred[t].fails + 1, !.state = state]
      <4>1. cred[t] # NoCredential /\ cred[t] \in Credential /\ cred[t].fails < FailureLimit
        BY <3>2 DEF Linked, IInv, TableOK, Creds
      <4>2. Counted[t] = u
        BY <3>2 DEF Counted
      <4>3. /\ state \in {"current", "revoked"}
            /\ cred[t].fails + 1 \in 0..FailureLimit
            /\ state # "revoked" => cred[t].fails + 1 < FailureLimit
        BY <3>2, <4>1, Numbers DEF Credential
      <4> HIDE DEF state
      <4>4. /\ u \in Credential /\ u.row = cred[t].row /\ u.gen = cred[t].gen
            /\ u.state = state /\ u.fails = cred[t].fails + 1
        BY <4>1, <4>3 DEF Credential
      <4> HIDE DEF u
      <4> QED
        BY <3>2, <4>1, <4>2, <4>3, <4>4
    <3> QED
      BY <3>1, <3>2
  <2>2. Counted = [t \in Secrets |-> Counted[t]]
    BY DEF Counted
  <2>3. TableOK'
    BY <1>1, <1>4, <1>9, <2>1, <2>2, TableKept
  <2>4. \A t \in Secrets : cred'[t].state = "current" => cred[t].state = "current"
    BY <1>9, <2>1
  <2>5. Sound'
    BY <1>1, <1>4, <1>9, <2>4, Leaves DEF Stages
  <2> QED
    BY <1>4, <2>3, <2>5 DEF IInv
<1> QED
  BY <1>6, <1>7, <1>8, <1>9 DEF Lookup

LEMMA StepClaimIt == \A c \in Conns : IInv /\ ClaimIt(c) => IInv'
<1> SUFFICES ASSUME NEW c \in Conns, IInv, ClaimIt(c) PROVE IInv'
  OBVIOUS
<1> DEFINE q == connection[c]
           s == q.secret
<1>1. /\ LiveConn(c) /\ q.at = "claim"
      /\ UNCHANGED <<process, entry, rowId, rowLinked, made, minted, mishaps, ghosts>>
  BY DEF ClaimIt, Here
<1>2. /\ q \in Connection /\ Within(q) /\ s \in 0..minted /\ s # 0 /\ q.old # 0
      /\ minted \in Nat /\ MaxSecrets \in Nat /\ minted =< MaxSecrets
  BY <1>1, OneConnection, Numbers DEF Within, WithinBounds, NoSecret
<1>3. s \in Secrets
  BY <1>2 DEF Secrets
<1>4. ProcsOK' /\ RowsKept
  BY <1>1, GhostsStay, ProcsKept
<1>5. CASE ~ Wins(s) /\ Goes(c, "lost") /\ UNCHANGED cred
  <2>1. TableOK' /\ Sound'
    BY <1>1, <1>4, <1>5, GoesOn DEF Stages, Claiming
  <2> QED
    BY <1>4, <2>1 DEF IInv
<1>6. CASE /\ Wins(s) /\ cred' = [cred EXCEPT ![s].state = "superseded"]
           /\ connection' = [connection EXCEPT ![c].at = "adopt", ![c].consumed = cred[s].gen]
  <2> DEFINE r == [q EXCEPT !.at = "adopt", !.consumed = cred[s].gen]
  <2>1. /\ cred[s] # NoCredential /\ cred[s] \in Credential /\ cred[s].state = "current"
        /\ cred[s].gen =< minted /\ cred[s].fails < FailureLimit
    BY <1>3, <1>6 DEF Wins, Linked, IInv, TableOK, Creds
  <2>2. /\ [cred[s] EXCEPT !.state = "superseded"] \in Credential
        /\ [cred[s] EXCEPT !.state = "superseded"].row = cred[s].row
        /\ [cred[s] EXCEPT !.state = "superseded"].gen = cred[s].gen
        /\ [cred[s] EXCEPT !.state = "superseded"].fails = cred[s].fails
        /\ [cred[s] EXCEPT !.state = "superseded"].state = "superseded"
    BY <2>1 DEF Credential
  <2>3. /\ cred' = [t \in Secrets |-> cred'[t]]
        /\ \A t \in Secrets : t # s => cred'[t] = cred[t]
        /\ cred'[s] = [cred[s] EXCEPT !.state = "superseded"]
    BY <1>3, <1>6 DEF IInv, TableOK, Creds
  <2>4. \A t \in Secrets :
           \/ cred'[t] = cred[t]
           \/ /\ cred[t] # NoCredential /\ cred'[t] \in Credential
              /\ cred'[t].row = cred[t].row /\ cred'[t].gen = cred[t].gen
              /\ cred'[t].state # "revoked" => cred'[t].fails < FailureLimit
    BY <2>1, <2>2, <2>3
  <2>5. TableOK'
    <3>1. \E T : /\ cred' = [t \in Secrets |-> T[t]]
                 /\ \A t \in Secrets :
                       \/ T[t] = cred[t]
                       \/ /\ cred[t] # NoCredential /\ T[t] \in Credential
                          /\ T[t].row = cred[t].row /\ T[t].gen = cred[t].gen
                          /\ T[t].state # "revoked" => T[t].fails < FailureLimit
      BY <2>3, <2>4
    <3> QED
      BY <1>1, <1>4, <3>1, TableKept
  <2>6. Claimed(s) = {}
    BY <1>3, <2>1 DEF IInv, Sound, ClaimedUsed
  <2>7. "adopt" \in Stages /\ cred[s].gen \in Nat
    BY <2>1 DEF Stages, Credential
  <2>8. connection' = [connection EXCEPT ![c] = r]
    BY <1>6
  <2> HIDE DEF q
  <2>9. r \in Connection
    BY <1>2, <2>7 DEF Connection
  <2>10. /\ r.id = q.id /\ r.of = q.of /\ r.old = q.old /\ r.pending = q.pending
         /\ r.note = q.note /\ r.consumed = cred[s].gen /\ r.at = "adopt" /\ r.secret = s
    BY <1>2 DEF Connection
  <2> HIDE DEF r, s
  <2>11. WithinNext(r)
    BY <1>1, <1>2, <2>1, <2>10 DEF Within, WithinNext, WithinBounds
  <2>12. Claimed(r.secret) = {} /\ cred'[r.secret].state # "current"
    BY <2>2, <2>3, <2>6, <2>10
  <2>13. \A t \in Secrets : cred'[t].state = "current" => cred[t].state = "current"
    BY <2>2, <2>3
  <2>14. made' \in Nat /\ minted' \in Nat /\ made =< made' /\ minted =< minted'
    BY <1>1, Numbers
  <2>15. LiveConn(c) /\ r.id = connection[c].id
    BY <1>1, <2>10 DEF q
  <2>16. Sound'
    BY <1>4, <2>8, <2>9, <2>11, <2>12, <2>13, <2>14, <2>15, Stepped
  <2> QED
    BY <1>4, <2>5, <2>16 DEF IInv
<1> QED
  BY <1>5, <1>6 DEF ClaimIt

LEMMA StepLost == \A c \in Conns : IInv /\ Lost(c) => IInv'
<1> SUFFICES ASSUME NEW c \in Conns, IInv, Lost(c) PROVE IInv'
  OBVIOUS
<1> DEFINE q == connection[c]
           r == [q EXCEPT !.at = "relink", !.answer = "superseded", !.recovery = "superseded"]
<1>1. /\ LiveConn(c)
      /\ UNCHANGED <<process, entry, rowId, rowLinked, cred, made, minted, mishaps, ghosts>>
  BY DEF Lost, Here
<1>2. ProcsOK' /\ RowsKept
  BY <1>1, GhostsStay, ProcsKept
<1>3. CASE connection' = [connection EXCEPT ![c] = r]
  <2>1. q \in Connection /\ Within(q)
    BY <1>1, OneConnection
  <2> HIDE DEF q
  <2>2. r \in Connection
    BY <2>1 DEF Connection, Stages, Recoveries
  <2>3. /\ r.id = q.id /\ r.of = q.of /\ r.old = q.old /\ r.pending = q.pending
        /\ r.note = q.note /\ r.consumed = q.consumed /\ r.at = "relink" /\ r.secret = q.secret
    BY <2>1 DEF Connection
  <2> HIDE DEF r
  <2>4. WithinNext(r) /\ r.at \notin Claiming
    BY <1>1, <2>1, <2>3 DEF Within, WithinNext, WithinBounds, Claiming
  <2>5. r.id = connection[c].id
    BY <2>3 DEF q
  <2>6. TableOK' /\ Sound'
    BY <1>1, <1>2, <1>3, <2>2, <2>4, <2>5, Moves
  <2> QED
    BY <1>2, <2>6 DEF IInv
<1>4. CASE Refuses(c, "revoked")
  <2>1. TableOK' /\ Sound'
    BY <1>1, <1>2, <1>4, Refused
  <2> QED
    BY <1>2, <2>1 DEF IInv
<1>5. CASE Goes(c, "relink")
  <2>1. TableOK' /\ Sound'
    BY <1>1, <1>2, <1>5, GoesOn DEF Stages, Claiming
  <2> QED
    BY <1>2, <2>1 DEF IInv
<1> QED
  BY <1>3, <1>4, <1>5 DEF Lost

LEMMA StepAdopt == \A c \in Conns : IInv /\ Adopt(c) => IInv'
<1> SUFFICES ASSUME NEW c \in Conns, IInv, Adopt(c) PROVE IInv'
  OBVIOUS
<1> DEFINE q == connection[c]
           r == [q EXCEPT !.at = "persist", !.id = q.old]
<1>1. /\ LiveConn(c) /\ q.at = "adopt"
      /\ UNCHANGED <<process, entry, rowId, rowLinked, cred, made, minted, mishaps, ghosts>>
  BY DEF Adopt, Here
<1>2. ProcsOK' /\ RowsKept
  BY <1>1, GhostsStay, ProcsKept
<1>3. CASE ~ Held(q.old) /\ connection' = [connection EXCEPT ![c] = r]
  <2>1. /\ q \in Connection /\ Within(q) /\ q.old \in 0..made /\ q.old # 0
        /\ made \in Nat /\ MaxConns \in Nat /\ made =< MaxConns
    BY <1>1, OneConnection, Numbers DEF Within, WithinBounds
  <2>2. q.old \in Conns /\ q.old =< made
    BY <2>1 DEF Conns
  <2> HIDE DEF q
  <2>3. r \in Connection
    BY <2>1, <2>2 DEF Connection, Stages
  <2>4. /\ r.id = q.old /\ r.of = q.of /\ r.old = q.old /\ r.pending = q.pending
        /\ r.note = q.note /\ r.consumed = q.consumed /\ r.at = "persist" /\ r.secret = q.secret
    BY <2>1 DEF Connection
  <2> HIDE DEF r
  <2>5. WithinNext(r)
    BY <1>1, <2>1, <2>2, <2>4 DEF Within, WithinNext, WithinBounds
  <2>6. ~ Held(r.id) /\ connection[c].at \in Claiming /\ r.secret = connection[c].secret
    BY <1>1, <1>3, <2>4 DEF q, Claiming
  <2>7. TableOK' /\ Sound'
    BY <1>1, <1>2, <1>3, <2>3, <2>5, <2>6, Moves
  <2> QED
    BY <1>2, <2>7 DEF IInv
<1>4. CASE Goes(c, "release")
  <2>1. TableOK' /\ Sound'
    BY <1>1, <1>2, <1>4, GoesOn DEF Stages, Claiming
  <2> QED
    BY <1>2, <2>1 DEF IInv
<1> QED
  BY <1>3, <1>4 DEF Adopt, Adoptable

LEMMA StepPersist == \A c \in Conns : IInv /\ Persist(c) => IInv'
<1> SUFFICES ASSUME NEW c \in Conns, IInv, Persist(c) PROVE IInv'
  OBVIOUS
<1> DEFINE q == connection[c]
           p == q.of
<1>1. /\ LiveConn(c) /\ q.at = "persist"
      /\ UNCHANGED <<process, entry, cred, made, minted, ghosts>>
  BY DEF Persist, Here
<1>2. q \in Connection /\ Within(q) /\ p \in Procs /\ q.id \in 1..made
  BY <1>1, OneConnection
<1>3. ASSUME NEW stage \in {"issue", "release"}, NEW recovery \in Recoveries,
             NEW answer \in {"none", "restored"}, RowsKept,
             NEW r \in Connection, connection' = [connection EXCEPT ![c] = r],
             r.id = q.id, r.of = q.of, r.old = q.old, r.pending = q.pending, r.note = q.note,
             r.consumed = q.consumed, r.secret = q.secret, r.at = stage
      PROVE  TableOK' /\ Sound'
  <2>1. Within(r)
    BY <1>2, <1>3 DEF Within, WithinBounds
  <2>2. WithinNext(r)
    BY <1>1, <1>3, <2>1, Numbers, StillWithin
  <2> QED
    BY <1>1, <1>3, <2>2, Moves DEF Claiming
<1>4. CASE /\ rowId' = [rowId EXCEPT ![p] = q.id] /\ rowLinked' = [rowLinked EXCEPT ![p] = TRUE]
           /\ UNCHANGED mishaps
           /\ connection' = [connection EXCEPT ![c].at = "issue", ![c].recovery = "restored",
                                               ![c].answer = "restored"]
  <2> DEFINE r == [q EXCEPT !.at = "issue", !.recovery = "restored", !.answer = "restored"]
  <2>1. made \in Nat /\ q.id # 0 /\ q.id \in 0..made
    BY <1>2, Numbers
  <2>2. ProcsOK' /\ RowsKept
    <3>1. rowId \in [Procs -> 0..made] /\ rowLinked \in [Procs -> BOOLEAN]
      BY DEF IInv, ProcsOK
    <3> HIDE DEF p, q
    <3>2. rowId' \in [Procs -> 0..made] /\ rowLinked' \in [Procs -> BOOLEAN] /\ RowsKept
      BY <1>2, <1>4, <2>1, <3>1 DEF RowsKept
    <3> QED
      BY <1>1, <1>4, <3>2, GhostsStay DEF IInv, ProcsOK
  <2>3. connection' = [connection EXCEPT ![c] = r]
    BY <1>4
  <2> HIDE DEF q
  <2>4. r \in Connection
    BY <1>2 DEF Connection, Stages, Recoveries
  <2>5. /\ r.id = q.id /\ r.of = q.of /\ r.old = q.old /\ r.pending = q.pending
        /\ r.note = q.note /\ r.consumed = q.consumed /\ r.secret = q.secret /\ r.at = "issue"
    BY <1>2 DEF Connection
  <2> HIDE DEF r
  <2>6. TableOK' /\ Sound'
    BY <1>3, <2>2, <2>3, <2>4, <2>5 DEF Recoveries
  <2> QED
    BY <2>2, <2>6 DEF IInv
<1>5. CASE /\ Mishap /\ UNCHANGED <<rowId, rowLinked>>
           /\ connection' = [connection EXCEPT ![c].at = "release", ![c].recovery = "degraded"]
  <2> DEFINE r == [q EXCEPT !.at = "release", !.recovery = "degraded"]
  <2>1. ProcsOK' /\ RowsKept
    BY <1>1, <1>5, GhostsStay, ProcsKept
  <2>2. connection' = [connection EXCEPT ![c] = r]
    BY <1>5
  <2> HIDE DEF q
  <2>3. r \in Connection
    BY <1>2 DEF Connection, Stages, Recoveries
  <2>4. /\ r.id = q.id /\ r.of = q.of /\ r.old = q.old /\ r.pending = q.pending
        /\ r.note = q.note /\ r.consumed = q.consumed /\ r.secret = q.secret /\ r.at = "release"
    BY <1>2 DEF Connection
  <2> HIDE DEF r
  <2>5. TableOK' /\ Sound'
    BY <1>3, <2>1, <2>2, <2>3, <2>4 DEF Recoveries
  <2> QED
    BY <2>1, <2>5 DEF IInv
<1> QED
  BY <1>4, <1>5 DEF Persist, NoMishap

\* What a call left behind used up.
LEMMA StepIssue == \A c \in Conns : IInv /\ Issue(c) => IInv'
<1> SUFFICES ASSUME NEW c \in Conns, IInv, Issue(c) PROVE IInv'
  OBVIOUS
<1> DEFINE q == connection[c]
           p == q.of
           new == minted + 1
           r == [q EXCEPT !.at = "relink", !.note = new]
<1>1. /\ LiveConn(c) /\ q.at = "issue"
      /\ UNCHANGED <<process, entry, rowId, rowLinked, made, cut>>
  BY DEF Issue, Here
<1>2. CASE Mishap /\ Goes(c, "release") /\ UNCHANGED <<minted, cred, heir>>
  <2>1. ProcsOK' /\ RowsKept
    BY <1>1, <1>2, GhostsStay, ProcsKept DEF ghosts
  <2>2. TableOK' /\ Sound'
    BY <1>1, <1>2, <2>1, GoesOn DEF Stages, Claiming
  <2> QED
    BY <2>1, <2>2 DEF IInv
<1>3. CASE /\ minted < MaxSecrets /\ minted' = new /\ cred' = Minted(p, new, q.consumed)
           /\ connection' = [connection EXCEPT ![c].at = "relink", ![c].note = new]
           /\ heir' = [heir EXCEPT ![q.secret] = new] /\ UNCHANGED mishaps
  <2>1. /\ q \in Connection /\ Within(q) /\ p \in Procs /\ rowId[p] # 0
        /\ q.consumed \in 0..minted
    BY <1>1, OneConnection
  <2>2. ProcsOK' /\ RowsKept
    <3>1. new \in 0..MaxSecrets
      BY <1>3, Numbers
    <3>2. GhostsOK'
      BY <1>1, <1>3, <3>1 DEF IInv, ProcsOK, GhostsOK
    <3> QED
      BY <1>1, <1>3, <3>2, ProcsKept
  <2>3. /\ made \in Nat /\ minted \in Nat /\ MaxSecrets \in Nat /\ new \in 0..MaxSecrets
        /\ made' \in Nat /\ made =< made'
    BY <1>1, <1>3, Numbers
  <2>4. WithinNext(q)
    BY <1>1, <1>3, <2>1, <2>2, <2>3, StillWithin
  <2>5. connection' = [connection EXCEPT ![c] = r]
    BY <1>3
  <2> HIDE DEF q
  <2>6. r \in Connection
    BY <2>1, <2>3 DEF Connection, Stages
  <2>7. /\ r.id = q.id /\ r.of = q.of /\ r.old = q.old /\ r.pending = q.pending
        /\ r.note = new /\ r.consumed = q.consumed /\ r.secret = q.secret /\ r.at = "relink"
    BY <2>1 DEF Connection
  <2> HIDE DEF r
  <2>8. WithinNext(r) /\ r.at \notin Claiming
    BY <1>3, <2>3, <2>4, <2>7 DEF WithinNext, WithinBounds, Claiming
  <2>9. LiveConn(c) /\ r.id = connection[c].id /\ rowId'[p] # 0
    BY <1>1, <2>1, <2>7 DEF q
  <2> HIDE DEF p
  <2>10. TableOK' /\ Sound'
    BY <1>3, <2>1, <2>2, <2>3, <2>5, <2>6, <2>8, <2>9, Mints
  <2> QED
    BY <2>2, <2>10 DEF IInv
<1> QED
  BY <1>2, <1>3 DEF Issue, NoMishap

LEMMA StepReleaseClaim == \A c \in Conns : IInv /\ ReleaseClaim(c) => IInv'
<1> SUFFICES ASSUME NEW c \in Conns, IInv, ReleaseClaim(c) PROVE IInv'
  OBVIOUS
<1> DEFINE s == connection[c].secret
<1>1. /\ LiveConn(c) /\ connection[c].at = "release" /\ Goes(c, "relink")
      /\ UNCHANGED <<process, entry, rowId, rowLinked, made, minted, heir>>
  BY DEF ReleaseClaim, Here
<1>2. s \in 0..MaxSecrets /\ Secrets \subseteq 0..MaxSecrets
  <2>1. s \in 0..minted /\ minted \in Nat /\ MaxSecrets \in Nat /\ minted =< MaxSecrets
    BY <1>1, OneConnection, Numbers
  <2> QED
    BY <2>1 DEF Secrets
<1>3. CASE Mishap /\ cut' = cut \cup {s} /\ UNCHANGED cred
  <2>1. ProcsOK' /\ RowsKept
    <3>1. GhostsOK'
      BY <1>1, <1>2, <1>3 DEF IInv, ProcsOK, GhostsOK
    <3> QED
      BY <1>1, <1>3, <3>1, ProcsKept
  <2>2. TableOK' /\ Sound'
    BY <1>1, <1>3, <2>1, GoesOn DEF Stages, Claiming
  <2> QED
    BY <2>1, <2>2 DEF IInv
<1>4. CASE /\ cred' = Released(s) /\ UNCHANGED mishaps
           /\ cut' = IF cred' # cred THEN cut \cup Later(s) ELSE cut
  <2>1. ProcsOK' /\ RowsKept
    <3>1. GhostsOK'
      BY <1>1, <1>2, <1>4 DEF IInv, ProcsOK, GhostsOK, Later
    <3> QED
      BY <1>1, <1>4, <3>1, ProcsKept
  <2>2. ASSUME UNCHANGED cred PROVE TableOK' /\ Sound'
    BY <1>1, <2>1, <2>2, GoesOn DEF Stages, Claiming
  <2>3. ASSUME cred[s].state = "superseded", s \in Secrets,
               cred' = [cred EXCEPT ![s].state = "current"]
        PROVE  TableOK' /\ Sound'
    <3>1. cred[s] # NoCredential /\ cred[s] \in Credential /\ cred[s].fails < FailureLimit
      BY <2>3 DEF NoCredential, IInv, TableOK, Creds
    <3>2. /\ [cred[s] EXCEPT !.state = "current"] \in Credential
          /\ [cred[s] EXCEPT !.state = "current"].row = cred[s].row
          /\ [cred[s] EXCEPT !.state = "current"].gen = cred[s].gen
          /\ [cred[s] EXCEPT !.state = "current"].fails = cred[s].fails
      BY <3>1 DEF Credential
    <3>3. /\ cred' = [t \in Secrets |-> cred'[t]]
          /\ \A t \in Secrets : t # s => cred'[t] = cred[t]
          /\ cred'[s] = [cred[s] EXCEPT !.state = "current"]
      BY <2>3 DEF IInv, TableOK, Creds
    <3>a. \A t \in Secrets :
             \/ cred'[t] = cred[t]
             \/ /\ cred[t] # NoCredential /\ cred'[t] \in Credential
                /\ cred'[t].row = cred[t].row /\ cred'[t].gen = cred[t].gen
                /\ cred'[t].state # "revoked" => cred'[t].fails < FailureLimit
      BY <3>1, <3>2, <3>3
    <3>4. \E T : /\ cred' = [t \in Secrets |-> T[t]]
                 /\ \A t \in Secrets :
                       \/ T[t] = cred[t]
                       \/ /\ cred[t] # NoCredential /\ T[t] \in Credential
                          /\ T[t].row = cred[t].row /\ T[t].gen = cred[t].gen
                          /\ T[t].state # "revoked" => T[t].fails < FailureLimit
      BY <3>3, <3>a
    <3>5. TableOK'
      BY <1>1, <2>1, <3>4, TableKept
    <3>6. \A t \in Secrets : cred'[t].state = "current"
                             => cred[t].state = "current" \/ Claimed(t) \subseteq {c}
      <4>1. c \in Claimed(s)
        BY <1>1 DEF Claimed, Here
      <4>2. \A d \in Claimed(s) : d \in Conns
        BY DEF Claimed
      <4>3. Claimed(s) \subseteq {c}
        BY <2>3, <4>1, <4>2 DEF IInv, Sound, OneClaimant
      <4> QED
        BY <3>3, <4>3
    <3>7. Sound'
      BY <1>1, <2>1, <3>6, Leaves
    <3> QED
      BY <3>5, <3>7
  <2>4. TableOK' /\ Sound'
    <3>1. cred \in Creds
      BY DEF IInv, TableOK
    <3>2. CASE s \notin Secrets
      <4>1. [cred EXCEPT ![s].state = "current"] = cred
        BY <3>1, <3>2 DEF Creds
      <4> QED
        BY <1>4, <2>2, <4>1 DEF Released
    <3>3. CASE s \in Secrets
      BY <1>4, <2>2, <2>3, <3>3 DEF Released
    <3> QED
      BY <3>2, <3>3
  <2> QED
    BY <2>1, <2>4 DEF IInv
<1> QED
  BY <1>3, <1>4 DEF ReleaseClaim, NoMishap

LEMMA StepRelink == \A c \in Conns : IInv /\ Relink(c) => IInv'
<1> SUFFICES ASSUME NEW c \in Conns, IInv, Relink(c) PROVE IInv'
  OBVIOUS
<1> DEFINE q == connection[c]
           p == q.of
           new == minted + 1
           r == [q EXCEPT !.at = "reply", !.pending = new]
<1>1. /\ LiveConn(c) /\ rowLinked' = [rowLinked EXCEPT ![p] = rowLinked[p] \/ Proven(c)]
      /\ UNCHANGED <<process, entry, rowId, made, mishaps, ghosts>>
  BY DEF Relink, Here
<1>2. q \in Connection /\ Within(q) /\ p \in Procs /\ rowId[p] # 0
  BY <1>1, OneConnection
<1>3. RowsKept
  BY <1>1 DEF RowsKept
<1>4. rowLinked' \in [Procs -> BOOLEAN]
  <2>1. rowLinked \in [Procs -> BOOLEAN]
    BY DEF IInv, ProcsOK
  <2>2. (rowLinked[p] \/ Proven(c)) \in BOOLEAN
    BY DEF Proven
  <2> HIDE DEF p
  <2> QED
    BY <1>1, <2>1, <2>2
<1>5. CASE Goes(c, "reply") /\ UNCHANGED <<minted, cred>>
  <2>1. ProcsOK'
    BY <1>1, <1>4, <1>5, GhostsStay DEF IInv, ProcsOK
  <2>2. TableOK' /\ Sound'
    BY <1>1, <1>3, <1>5, GoesOn DEF Stages, Claiming
  <2> QED
    BY <2>1, <2>2 DEF IInv
<1>6. CASE /\ minted < MaxSecrets /\ minted' = new /\ cred' = Minted(p, new, 0)
           /\ connection' = [connection EXCEPT ![c].at = "reply", ![c].pending = new]
  <2>1. /\ made \in Nat /\ minted \in Nat /\ MaxSecrets \in Nat /\ new \in 0..MaxSecrets
        /\ made' \in Nat /\ made =< made' /\ 0 \in 0..minted
    BY <1>1, <1>6, Numbers
  <2>2. ProcsOK'
    <3>1. GhostsOK'
      BY <1>1, GhostsStay
    <3>2. \A x \in Procs : process[x].secret \in Nat /\ process[x].secret =< minted
      BY Numbers
    <3>3. entry \in 0..minted' /\ \A x \in Procs : process[x].secret =< minted'
      BY <1>6, <2>1, <3>2 DEF IInv, ProcsOK
    <3> QED
      BY <1>1, <1>4, <1>6, <2>1, <3>1, <3>3 DEF IInv, ProcsOK
  <2>3. WithinNext(q)
    BY <1>1, <1>2, <1>3, <1>6, <2>1, StillWithin
  <2>4. connection' = [connection EXCEPT ![c] = r]
    BY <1>6
  <2> HIDE DEF q
  <2>5. r \in Connection
    BY <1>2, <2>1 DEF Connection, Stages
  <2>6. /\ r.id = q.id /\ r.of = q.of /\ r.old = q.old /\ r.pending = new
        /\ r.note = q.note /\ r.consumed = q.consumed /\ r.secret = q.secret /\ r.at = "reply"
    BY <1>2 DEF Connection
  <2> HIDE DEF r
  <2>7. WithinNext(r) /\ r.at \notin Claiming
    BY <1>6, <2>1, <2>3, <2>6 DEF WithinNext, WithinBounds, Claiming
  <2>8. LiveConn(c) /\ r.id = connection[c].id /\ rowId'[p] # 0
    BY <1>1, <1>2, <2>6 DEF q
  <2> HIDE DEF p
  <2>9. TableOK' /\ Sound'
    BY <1>2, <1>3, <1>6, <2>1, <2>4, <2>5, <2>7, <2>8, Mints
  <2> QED
    BY <2>2, <2>9 DEF IInv
<1> QED
  BY <1>5, <1>6 DEF Relink

LEMMA StepReply == \A c \in Conns : IInv /\ Reply(c) => IInv'
<1> SUFFICES ASSUME NEW c \in Conns, IInv, Reply(c) PROVE IInv'
  OBVIOUS
<1> DEFINE q == connection[c]
           p == q.of
           told == IF q.note # NoSecret THEN q.note ELSE q.pending
           secret == IF told # NoSecret THEN told ELSE process[p].secret
           owns == Owns(c, told)
           left == IF q.note # NoSecret THEN q.pending ELSE NoSecret
           r == [q EXCEPT !.at = "idle", !.secret = NoSecret, !.old = 0, !.consumed = 0,
                          !.note = NoSecret, !.answer = "none", !.pending = left]
<1>1. /\ LiveConn(c) /\ UNCHANGED <<rowId, rowLinked, cred, made, minted, mishaps, ghosts>>
      /\ connection' = [connection EXCEPT ![c] = r]
      /\ \/ /\ process' = [process EXCEPT ![p].secret = secret, ![p].linked = TRUE,
                                          ![p].owns = owns]
            /\ entry' \in {secret, entry}
         \/ UNCHANGED <<process, entry>>
  BY DEF Reply, Here
<1>2. /\ q \in Connection /\ Within(q) /\ p \in Procs
      /\ q.note \in 0..minted /\ q.pending \in 0..minted
  BY <1>1, OneConnection
<1>3. /\ minted \in Nat /\ MaxSecrets \in Nat /\ minted =< MaxSecrets
      /\ process[p] \in Process /\ process[p].secret \in 0..minted
  BY <1>2, Numbers
<1>4. secret \in 0..minted /\ left \in 0..minted /\ owns \in BOOLEAN
  BY <1>2, <1>3 DEF Owns, NoSecret
<1>5. ProcsOK'
  <2>1. /\ process \in [Procs -> Process] /\ \A x \in Procs : process[x].secret =< minted
        /\ entry \in 0..minted
    BY DEF IInv, ProcsOK
  <2>2. CASE UNCHANGED <<process, entry>>
    BY <1>1, <2>2, GhostsStay DEF IInv, ProcsOK
  <2>3. CASE /\ process' = [process EXCEPT ![p].secret = secret, ![p].linked = TRUE,
                                           ![p].owns = owns]
             /\ entry' \in {secret, entry}
    <3> HIDE DEF secret, owns, p
    <3> DEFINE u == [process[p] EXCEPT !.secret = secret, !.linked = TRUE, !.owns = owns]
    <3>1. process' = [process EXCEPT ![p] = u]
      BY <2>3
    <3>2. secret \in 0..MaxSecrets /\ secret =< minted
      BY <1>3, <1>4
    <3>3. u \in Process /\ u.secret = secret
      BY <1>3, <1>4, <3>2 DEF Process
    <3> HIDE DEF u
    <3>4. process' \in [Procs -> Process] /\ \A x \in Procs : process'[x].secret =< minted
      BY <1>2, <2>1, <3>1, <3>2, <3>3
    <3>5. entry' \in 0..minted
      BY <1>4, <2>1, <2>3
    <3> QED
      BY <1>1, <3>4, <3>5, GhostsStay DEF IInv, ProcsOK
  <2> QED
    BY <1>1, <2>2, <2>3
<1>6. RowsKept /\ left \in 0..MaxSecrets /\ left =< minted
  BY <1>1, <1>3, <1>4 DEF RowsKept
<1>a. 0 \in 0..MaxSecrets /\ 0 \in 0..MaxConns /\ 0 \in Nat
  BY ResumeAssumption
<1> HIDE DEF left, q
<1>7. r \in Connection
  BY <1>2, <1>6, <1>a DEF Connection, Stages, NoSecret
<1>8. /\ r.id = q.id /\ r.of = q.of /\ r.old = 0 /\ r.pending = left
      /\ r.note = 0 /\ r.consumed = 0 /\ r.secret = 0 /\ r.at = "idle"
  BY <1>2 DEF Connection, NoSecret
<1> HIDE DEF r
<1>9. Within(r) /\ r.at \notin Claiming
  BY <1>2, <1>3, <1>6, <1>8, Numbers DEF Within, WithinBounds, Claiming
<1>10. WithinNext(r)
  BY <1>1, <1>9 DEF Within, WithinNext
<1>11. r.id = connection[c].id
  BY <1>8 DEF q
<1>12. TableOK' /\ Sound'
  BY <1>1, <1>6, <1>7, <1>9, <1>10, <1>11, Moves
<1> QED
  BY <1>5, <1>12 DEF IInv

-----------------------------------------------------------------------------
(* The invariant.                                                            *)

LEMMA InitInv == ResumeInit => IInv
<1> SUFFICES ASSUME ResumeInit PROVE IInv
  OBVIOUS
<1>1. ProcsOK
  <2>1. NewProcess \in Process /\ NewProcess.secret = 0
    BY ResumeAssumption DEF NewProcess, Process, NoSecret
  <2> QED
    BY <2>1, ResumeAssumption DEF ResumeInit, ProcsOK, GhostsOK, NoSecret
<1>2. TableOK
  BY DEF ResumeInit, TableOK, Creds
<1>3. \A c \in Conns : ~ LiveConn(c)
  BY DEF ResumeInit, LiveConn, NoConnection
<1>4. ConnsOK
  BY <1>3 DEF ResumeInit, ConnsOK, Connections
<1>5. OneHolder /\ OneClaimant /\ ClaimedUsed
  <2>1. \A s \in Secrets : \A c \in Claimed(s) : FALSE
    BY <1>3 DEF Claimed, Here
  <2> QED
    BY <1>3, <2>1 DEF OneHolder, OneClaimant, ClaimedUsed
<1> QED
  BY <1>1, <1>2, <1>4, <1>5 DEF IInv, Sound

LEMMA Stutter == IInv /\ UNCHANGED resumeVars => IInv'
<1> SUFFICES ASSUME IInv, UNCHANGED resumeVars PROVE IInv'
  OBVIOUS
<1>1. UNCHANGED <<process, entry, rowId, rowLinked, cred, connection, made, minted, mishaps, ghosts>>
  BY DEF resumeVars
<1>2. ProcsOK' /\ RowsKept
  BY <1>1, GhostsStay, ProcsKept
<1>3. TableOK'
  BY <1>1, <1>2, TableStays
<1>4. Sound'
  <2>1. connection' \in Connections
    BY <1>1 DEF IInv, Sound, ConnsOK, Connections
  <2>2. \A d \in Conns : LiveConn(d)' => LiveConn(d) /\ connection'[d] = connection[d]
    BY <1>1 DEF LiveConn
  <2>3. \A d \in Conns : LiveConn(d) => WithinNext(connection[d])
    <3>1. \A d \in Conns : LiveConn(d) => Within(connection[d])
      BY OneConnection
    <3> QED
      BY <1>1, <3>1 DEF Within, WithinNext
  <2> QED
    BY <1>1, <2>1, <2>2, <2>3, Fewer
<1> QED
  BY <1>2, <1>3, <1>4 DEF IInv

LEMMA Preserved == IInv /\ [ResumeNext]_resumeVars => IInv'
<1> SUFFICES ASSUME IInv, [ResumeNext]_resumeVars PROVE IInv'
  OBVIOUS
<1>1. CASE UNCHANGED resumeVars
  BY <1>1, Stutter
<1>2. CASE DaemonDies
  BY <1>2, StepDaemonDies
<1>3. ASSUME NEW p \in Procs, Initialize(p) PROVE IInv'
  BY <1>3, StepInitialize
<1>4. ASSUME NEW p \in Procs, Exit(p) PROVE IInv'
  BY <1>4, StepEnding
<1>5. ASSUME NEW p \in Procs, NEW c \in Conns,
             SessionStart(p, c) \/ BreakOff(p, c) \/ MovesOn(p, c)
      PROVE  IInv'
  BY <1>5, StepSessionStart, StepEnding, StepMovesOn
<1>6. ASSUME NEW c \in Conns,
             \/ Converge(c) \/ Disclose(c) \/ Lookup(c) \/ ClaimIt(c) \/ Lost(c) \/ Adopt(c)
             \/ Persist(c) \/ Issue(c) \/ ReleaseClaim(c) \/ Relink(c) \/ Reply(c) \/ Detach(c)
      PROVE  IInv'
  BY <1>6, StepConverge, StepDisclose, StepLookup, StepClaimIt, StepLost, StepAdopt,
     StepPersist, StepIssue, StepReleaseClaim, StepRelink, StepReply, StepDetach
<1> QED
  BY <1>1, <1>2, <1>3, <1>4, <1>5, <1>6 DEF ResumeNext

LEMMA Invariance == ResumeSpec => []IInv
<1> QED
  BY InitInv, Preserved, PTL DEF ResumeSpec

\* Every variable keeps its type, and a credential that can be presented has
\* failures left (countFailedPresentation).
THEOREM ResumeTypeCorrect == ResumeSpec => []ResumeTypeOK
<1>1. IInv => ResumeTypeOK
  <2> SUFFICES ASSUME IInv PROVE ResumeTypeOK
    OBVIOUS
  <2>1. entry \in 0..MaxSecrets /\ rowId \in [Procs -> 0..MaxConns]
    <3>1. /\ entry \in 0..minted /\ rowId \in [Procs -> 0..made] /\ 0..minted \subseteq 0..MaxSecrets
          /\ 0..made \subseteq 0..MaxConns
      BY Numbers DEF IInv, ProcsOK
    <3> QED
      BY <3>1
  <2>2. \A s \in Secrets : cred[s].state = "current" => cred[s].fails < FailureLimit
    BY DEF IInv, TableOK, NoCredential
  <2> QED
    BY <2>1, <2>2 DEF IInv, ProcsOK, GhostsOK, TableOK, Sound, ConnsOK, Creds, Connections, ResumeTypeOK
<1> QED
  BY Invariance, <1>1, PTL

\* No two live connections answer to one plumb session ID (adoptStoredID,
\* restoreIdentity, scheduleRestoreRetry).
THEOREM HolderIsOne == ResumeSpec => []OneHolder
<1>1. IInv => OneHolder
  BY DEF IInv, Sound
<1> QED
  BY Invariance, <1>1, PTL

\* One credential resumes for one claimant at a time (ClaimResumeCredential,
\* releaseClaim).
THEOREM ClaimantIsOne == ResumeSpec => []OneClaimant
<1>1. IInv => OneClaimant
  BY DEF IInv, Sound
<1> QED
  BY Invariance, <1>1, PTL

-----------------------------------------------------------------------------
(* What a credential is used up for.                                         *)

Exists(s) == cred[s] # NoCredential
Firm == {"adopt", "persist", "issue"}
Claims(c) == LiveConn(c) /\ connection[c].at \in Claiming
Firmly(c) == LiveConn(c) /\ connection[c].at \in Firm

Numbered == \A c \in Conns : LiveConn(c) => c =< made

Drawn ==
    \A s \in Secrets : (Exists(s) \/ heir[s] # NoSecret => s =< minted) /\ heir[s] =< minted

\* The generations of one row differ, and nothing is past its current one but
\* what a release left behind.
OneEach ==
    \A s, t \in Secrets :
        Exists(s) /\ Exists(t) /\ cred[s].row = cred[t].row /\ s # t => cred[s].gen # cred[t].gen
NewestServes ==
    \A s, t \in Secrets : cred[s].state = "current" /\ t \in Later(s) => t \in cut

HeirsNewer ==
    \A s \in Secrets :
        heir[s] # NoSecret /\ Exists(s) /\ Exists(heir[s]) => cred[heir[s]].gen > cred[s].gen

\* A claimant knows the generation that it used up.
KnowsConsumed ==
    \A c \in Conns : Firmly(c) =>
        /\ connection[c].secret \in Secrets
        /\ Exists(connection[c].secret)
              => connection[c].consumed = cred[connection[c].secret].gen

Generations == Drawn /\ OneEach /\ NewestServes /\ HeirsNewer
Uses == Numbered /\ Generations /\ KnowsConsumed /\ ConsumedForSuccessor
UInv == IInv /\ Uses

\* The table but for the states of its credentials.
SameTable ==
    \A s \in Secrets :
        /\ Exists(s)' <=> Exists(s)
        /\ Exists(s) => cred'[s].row = cred[s].row /\ cred'[s].gen = cred[s].gen

\* The connections of a step that neither claims nor ends a claim.
Holding ==
    \A c \in Conns : Claims(c) => Claims(c)' /\ connection'[c].secret = connection[c].secret
NoNewClaims ==
    \A c \in Conns : Firmly(c)' => /\ Firmly(c)
                                   /\ connection'[c].secret = connection[c].secret
                                   /\ connection'[c].consumed = connection[c].consumed
NumberedNext == \A c \in Conns : LiveConn(c)' => c =< made'
Quietly == Holding /\ NoNewClaims /\ NumberedNext

LEMMA Rows ==
    ASSUME IInv
    PROVE  /\ \A s \in Secrets : Exists(s) =>
                 /\ cred[s] \in Credential /\ cred[s].gen \in Nat /\ cred[s].row \in Procs
                 /\ cred[s].gen =< minted
           /\ \A s \in Secrets : cred[s].state \in {"current", "superseded", "revoked"}
                                 <=> Exists(s)
<1>1. \A s \in Secrets : cred[s] \in Credential \cup {NoCredential}
  BY DEF IInv, TableOK, Creds
<1>2. \A s \in Secrets : Exists(s) => cred[s] \in Credential /\ cred[s].gen =< minted
  BY <1>1 DEF Exists, IInv, TableOK
<1>3. NoCredential.state = "none"
  BY DEF NoCredential
<1>4. \A x \in Credential : /\ x.gen \in Nat /\ x.row \in Procs
                            /\ x.state \in {"current", "superseded", "revoked"}
  BY DEF Credential
<1>5. \A s \in Secrets : ~ Exists(s) => cred[s].state = "none"
  BY <1>3 DEF Exists
<1> QED
  BY <1>2, <1>4, <1>5

LEMMA LaterIs ==
    \A s \in Secrets : \A t : t \in Later(s) <=>
        /\ t \in Secrets /\ Exists(s) /\ Exists(t)
        /\ cred[t].row = cred[s].row /\ cred[t].gen > cred[s].gen
BY DEF Later, Of, Exists

LEMMA LaterStays == SameTable => \A s \in Secrets : Later(s)' = Later(s)
<1> SUFFICES ASSUME SameTable, NEW s \in Secrets PROVE Later(s)' = Later(s)
  OBVIOUS
<1>1. Later(s) = {t \in Secrets : /\ Exists(s) /\ Exists(t)
                                  /\ cred[t].row = cred[s].row /\ cred[t].gen > cred[s].gen}
  BY DEF Later, Of, Exists
<1>2. Later(s)' = {t \in Secrets : /\ Exists(s)' /\ Exists(t)'
                                   /\ cred'[t].row = cred'[s].row /\ cred'[t].gen > cred'[s].gen}
  BY DEF Later, Of, Exists
<1> HIDE DEF Later
<1> QED
  BY <1>1, <1>2 DEF SameTable

\* A claim of s is a connection of Claims that bears s.
LEMMA ClaimedIs ==
    \A s, c : c \in Claimed(s) <=> c \in Conns /\ Claims(c) /\ connection[c].secret = s
BY DEF Claimed, Claims, Here, Claiming

LEMMA HeldOn == Holding => \A s : Claimed(s) # {} => Claimed(s)' # {}
<1> SUFFICES ASSUME Holding, NEW s, NEW c \in Claimed(s) PROVE c \in Claimed(s)'
  OBVIOUS
<1>1. c \in Conns /\ Claims(c)' /\ connection'[c].secret = s
  BY ClaimedIs DEF Holding
<1> QED
  BY <1>1 DEF Claimed, Claims, Here, Claiming

\* No secret is minted, and the generations stay.
LEMMA NothingMinted ==
    ASSUME UInv, SameTable, UNCHANGED <<minted, heir>>, cut \subseteq cut',
           \A s \in Secrets : cred'[s].state = "current" => cred[s].state = "current",
           \A s \in Secrets : cred'[s].state = "superseded"
                                => cred[s].state = "superseded" \/ Claimed(s)' # {},
           \A s \in Secrets : Claimed(s) # {} /\ cred[s].state = "superseded"
                                => Claimed(s)' # {} \/ s \in cut' \/ Overtaken(s)
    PROVE  Generations' /\ ConsumedForSuccessor'
<1>0. \A s \in Secrets : Later(s)' = Later(s)
  BY LaterStays
<1>h. heir \in [Secrets -> 0..MaxSecrets] /\ MaxSecrets \in Nat
  BY Numbers DEF UInv, IInv, ProcsOK, GhostsOK
<1>i. \A s \in Secrets : heir[s] # NoSecret => heir[s] \in Secrets
  BY <1>h DEF Secrets, NoSecret
<1>1. Drawn'
  <2>1. \A s \in Secrets : Exists(s)' <=> Exists(s)
    BY DEF SameTable
  <2>2. Drawn
    BY DEF UInv, Uses, Generations
  <2> QED
    BY <2>1, <2>2 DEF Drawn
<1>2. OneEach'
  <2>1. OneEach
    BY DEF UInv, Uses, Generations
  <2> QED
    BY <2>1 DEF OneEach, SameTable
<1>3. NewestServes'
  <2>1. NewestServes
    BY DEF UInv, Uses, Generations
  <2> QED
    BY <1>0, <2>1 DEF NewestServes
<1>4. HeirsNewer'
  <2>1. HeirsNewer
    BY DEF UInv, Uses, Generations
  <2> QED
    BY <1>i, <2>1 DEF HeirsNewer, SameTable
<1>5. ASSUME NEW s \in Secrets, cred'[s].state = "superseded"
      PROVE  s \in cut' \/ Claimed(s)' # {} \/ Overtaken(s)' \/ Succeeded(s)'
  <2>1. SUFFICES ASSUME cred[s].state = "superseded" PROVE s \in cut' \/ Claimed(s)' # {} \/ Overtaken(s)' \/ Succeeded(s)'
    BY <1>5
  <2>2. s \in cut \/ Claimed(s) # {} \/ Overtaken(s) \/ Succeeded(s)
    BY <2>1 DEF UInv, Uses, ConsumedForSuccessor
  <2>3. Overtaken(s) => Overtaken(s)'
    BY <1>0 DEF Overtaken
  <2>4. Succeeded(s) => Succeeded(s)'
    <3>1. Exists(s)
      BY <2>1, Rows DEF UInv
    <3>2. ASSUME Succeeded(s) PROVE Succeeded(s)'
      <4>1. /\ heir[s] # NoSecret /\ heir[s] \in Secrets
            /\ Exists(heir[s]) => cred[heir[s]].gen > cred[s].gen
        BY <1>i, <3>2 DEF Succeeded, Exists
      <4>2. /\ heir'[s] = heir[s] /\ cred'[s].gen = cred[s].gen
            /\ Exists(heir[s])' => Exists(heir[s]) /\ cred'[heir[s]].gen = cred[heir[s]].gen
        BY <3>1, <4>1 DEF SameTable, Exists
      <4> QED
        BY <4>1, <4>2 DEF Succeeded, Exists
    <3> QED
      BY <3>2
  <2> QED
    BY <2>1, <2>2, <2>3, <2>4
<1>6. ConsumedForSuccessor'
  BY <1>5 DEF ConsumedForSuccessor
<1> QED
  BY <1>1, <1>2, <1>3, <1>4, <1>6 DEF Generations

\* Where nothing is claimed, a claimant knows what it knew.
LEMMA StillKnown ==
    ASSUME UInv, NoNewClaims, NumberedNext,
           \A s \in Secrets : s =< minted /\ Exists(s)' => Exists(s) /\ cred'[s].gen = cred[s].gen
    PROVE  KnowsConsumed' /\ Numbered'
<1>1. ASSUME NEW c \in Conns, Firmly(c)', NEW s, s = connection'[c].secret
      PROVE  s \in Secrets /\ (Exists(s)' => connection'[c].consumed = cred'[s].gen)
  <2>1. /\ Firmly(c) /\ s = connection[c].secret
        /\ connection'[c].consumed = connection[c].consumed
    BY <1>1 DEF NoNewClaims
  <2>2. s \in Secrets /\ (Exists(s) => connection[c].consumed = cred[s].gen)
    BY <2>1 DEF UInv, Uses, KnowsConsumed
  <2>3. s =< minted
    BY <2>1, OneConnection, Numbers DEF UInv, Firmly
  <2> QED
    BY <2>1, <2>2, <2>3
<1>2. KnowsConsumed'
  BY <1>1 DEF KnowsConsumed, Exists
<1>3. Numbered'
  BY DEF NumberedNext, Numbered
<1> QED
  BY <1>2, <1>3

\* What a mint leaves of the table: the new generation is past all of its row, and
\* where a generation that has been used up stays, so does what is past it.
LEMMA MintLeaves ==
    ASSUME UInv, NEW p \in Procs, NEW k \in 0..minted, minted < MaxSecrets,
           NEW new, new = minted + 1, NEW M, M = Minted(p, new, k)
    PROVE  /\ new \in Secrets /\ ~ Exists(new)
           /\ M[new] # NoCredential /\ M[new].row = p /\ M[new].state = "current"
           /\ M[new].gen > k /\ \A s \in Of(p) : M[new].gen > cred[s].gen
           /\ \A s \in Secrets : s # new /\ M[s] # NoCredential =>
                 /\ Exists(s) /\ M[s].row = cred[s].row /\ M[s].gen = cred[s].gen
                 /\ M[s].state = "current" => cred[s].state = "current" /\ cred[s].row # p
                 /\ M[s].state = "superseded" => cred[s].state = "superseded" \/ cred[s].row = p
           /\ \A s \in Secrets : s # new /\ M[s] # NoCredential /\ cred[s].row # p
                                 /\ cred[s].state # "current"
                 => \A t \in Later(s) : M[t] # NoCredential
<1> DEFINE next == 1 + (IF Top(p) >= k THEN Top(p) ELSE k)
           fresh == [row |-> p, gen |-> next, fails |-> 0, state |-> "current"]
           Stale(s) == cred[s] # NoCredential /\ (cred[s].row = p \/ cred[s].state # "current")
           Old(s) == Stale(s) /\ \E t \in Of(cred[s].row) : Stale(t) /\ cred[t].gen > cred[s].gen
<1>1. /\ minted \in Nat /\ MaxSecrets \in Nat /\ Top(p) \in 0..minted
      /\ \A s \in Of(p) : cred[s].gen =< Top(p)
  BY TopIsLargest, Numbers DEF UInv, IInv
<1>2. next \in Nat /\ next > k /\ next > Top(p)
  BY <1>1
<1>3. new \in Secrets /\ ~ Exists(new)
  BY <1>1 DEF Secrets, UInv, Uses, Generations, Drawn
<1>4. \A s \in Secrets : Exists(s) =>
         cred[s] \in Credential /\ cred[s].gen \in Nat /\ cred[s].row \in Procs
  BY Rows DEF UInv
<1>5. /\ M[new] = fresh
      /\ \A s \in Secrets : s # new =>
            \/ Old(s) /\ M[s] = NoCredential
            \/ /\ ~ Old(s) /\ s \in CurrentOf(p)
               /\ M[s] = [cred[s] EXCEPT !.state = "superseded"]
            \/ ~ Old(s) /\ s \notin CurrentOf(p) /\ M[s] = cred[s]
  BY <1>3 DEF Minted
<1> HIDE DEF next
<1>6. /\ M[new] # NoCredential /\ M[new].row = p /\ M[new].state = "current" /\ M[new].gen = next
  <2>1. fresh.state = "current" /\ fresh.row = p /\ fresh.gen = next
    OBVIOUS
  <2>2. NoCredential.state = "none"
    BY DEF NoCredential
  <2> HIDE DEF fresh
  <2> QED
    BY <1>5, <2>1, <2>2
<1>7. \A s \in Of(p) : next > cred[s].gen
  BY <1>1, <1>2, <1>4 DEF Of, Exists
<1>8. ASSUME NEW s \in Secrets, s # new, M[s] # NoCredential
      PROVE  /\ Exists(s) /\ M[s].row = cred[s].row /\ M[s].gen = cred[s].gen
             /\ M[s].state = "current" => cred[s].state = "current" /\ cred[s].row # p
             /\ M[s].state = "superseded" => cred[s].state = "superseded" \/ cred[s].row = p
  <2> HIDE DEF Old, fresh
  <2>1. CASE s \in CurrentOf(p) /\ M[s] = [cred[s] EXCEPT !.state = "superseded"]
    <3>1. Exists(s) /\ cred[s] \in Credential /\ cred[s].row = p
      BY <1>4, <2>1 DEF CurrentOf, Of, Exists
    <3>2. M[s].row = cred[s].row /\ M[s].gen = cred[s].gen /\ M[s].state = "superseded"
      BY <2>1, <3>1 DEF Credential
    <3> QED
      BY <3>1, <3>2
  <2>2. CASE s \notin CurrentOf(p) /\ M[s] = cred[s]
    BY <1>8, <2>2 DEF CurrentOf, Of, Exists
  <2> QED
    BY <1>5, <1>8, <2>1, <2>2
<1>9. ASSUME NEW s \in Secrets, s # new, M[s] # NoCredential, cred[s].row # p,
             cred[s].state # "current", NEW t \in Later(s)
      PROVE  M[t] # NoCredential
  <2>1. Exists(s)
    BY <1>8, <1>9
  <2>2. /\ t \in Secrets /\ Exists(t) /\ cred[t].row = cred[s].row /\ cred[t].gen > cred[s].gen
    BY <1>9, LaterIs
  <2>3. ~ Old(s) /\ Stale(s) /\ t \in Of(cred[s].row)
    <3>1. ~ Old(s)
      BY <1>5, <1>9
    <3>2. Stale(s) /\ t \in Of(cred[s].row)
      BY <1>9, <2>1, <2>2 DEF Exists, Of
    <3> QED
      BY <3>1, <3>2
  <2>4. ~ Stale(t)
    BY <2>2, <2>3
  <2>5. ~ Old(t)
    BY <2>4
  <2>6. t # new /\ t \notin CurrentOf(p)
    BY <1>3, <1>9, <2>2 DEF CurrentOf, Of
  <2>7. M[t] = cred[t]
    <3> HIDE DEF Old, fresh, Stale
    <3> QED
      BY <1>5, <2>2, <2>5, <2>6
  <2> QED
    BY <2>2, <2>7 DEF Exists
<1> QED
  BY <1>2, <1>3, <1>6, <1>7, <1>8, <1>9

\* A secret is minted, perhaps as the successor of one that the claimant knows.
LEMMA OneMinted ==
    ASSUME UInv, NEW p \in Procs, NEW k \in 0..minted, minted < MaxSecrets,
           NEW new, new = minted + 1, minted' = new, cred' = Minted(p, new, k),
           UNCHANGED cut,
           \/ UNCHANGED heir
           \/ \E s \in Secrets : /\ s =< minted /\ heir' = [heir EXCEPT ![s] = new]
                                 /\ Exists(s) => cred[s].gen =< k,
           \A s \in Secrets : Claimed(s) # {} => Claimed(s)' # {} \/ heir'[s] = new
    PROVE  Generations' /\ ConsumedForSuccessor'
<1>1. /\ new \in Secrets /\ ~ Exists(new) /\ minted \in Nat
      /\ cred'[new] # NoCredential /\ cred'[new].row = p /\ cred'[new].state = "current"
      /\ cred'[new].gen > k /\ \A s \in Of(p) : cred'[new].gen > cred[s].gen
      /\ k \in Nat
  BY MintLeaves, Numbers DEF UInv
<1>2. ASSUME NEW s \in Secrets, s # new, cred'[s] # NoCredential
      PROVE  /\ Exists(s) /\ cred'[s].row = cred[s].row /\ cred'[s].gen = cred[s].gen
             /\ cred'[s].state = "current" => cred[s].state = "current" /\ cred[s].row # p
             /\ cred'[s].state = "superseded" => cred[s].state = "superseded" \/ cred[s].row = p
  BY <1>2, MintLeaves
<1>3. \A s \in Secrets : s # new /\ cred'[s] # NoCredential /\ cred[s].row # p
                         /\ cred[s].state # "current"
         => \A t \in Later(s) : cred'[t] # NoCredential
  BY MintLeaves
<1>4. \A s \in Secrets : Exists(s) => cred[s].gen \in Nat /\ cred[s].row \in Procs
  BY Rows DEF UInv
<1>g. cred'[new].gen \in Nat
  <2>1. Minted(p, minted + 1, k) \in Creds
    BY MintedTable DEF UInv, IInv
  <2> QED
    BY <1>1, <2>1 DEF Creds, Credential
<1>5. /\ heir \in [Secrets -> 0..MaxSecrets] /\ MaxSecrets \in Nat
      /\ \A s \in Secrets : (Exists(s) \/ heir[s] # NoSecret => s =< minted) /\ heir[s] =< minted
  BY Numbers DEF UInv, Uses, Generations, Drawn, IInv, ProcsOK, GhostsOK
<1>6. ASSUME NEW s \in Secrets
      PROVE  \/ heir'[s] = heir[s]
             \/ s =< minted /\ heir'[s] = new /\ (Exists(s) => cred[s].gen =< k)
  BY <1>5
<1>7. \A s \in Secrets : s \in Nat
  BY DEF Secrets
<1>8. Drawn'
  <2>1. ASSUME NEW s \in Secrets
        PROVE  (cred'[s] # NoCredential \/ heir'[s] # NoSecret => s =< new) /\ heir'[s] =< new
    <3>1. cred'[s] # NoCredential => s =< new
      BY <1>1, <1>2, <1>5, <1>7, <2>1
    <3>2. (heir'[s] # NoSecret => s =< new) /\ heir'[s] =< new
      BY <1>1, <1>5, <1>6, <1>7, <2>1
    <3> QED
      BY <3>1, <3>2
  <2> QED
    BY <2>1 DEF Drawn, Exists
\* The rows.
<1>9. ASSUME NEW s \in Secrets, NEW t \in Secrets, cred'[s] # NoCredential,
             cred'[t] # NoCredential, cred'[s].row = cred'[t].row, s # t
      PROVE  /\ cred'[s].gen # cred'[t].gen
             /\ cred'[s].gen \in Nat /\ cred'[t].gen \in Nat
             /\ s = new => cred'[s].gen > cred'[t].gen
  <2>1. CASE s = new
    <3>1. t \in Of(p) /\ cred'[t].gen = cred[t].gen /\ cred[t].gen \in Nat
      BY <1>1, <1>2, <1>4, <1>9, <2>1 DEF Of, Exists
    <3> QED
      BY <1>1, <1>g, <2>1, <3>1
  <2>2. CASE t = new
    <3>1. s \in Of(p) /\ cred'[s].gen = cred[s].gen /\ cred[s].gen \in Nat
      BY <1>1, <1>2, <1>4, <1>9, <2>2 DEF Of, Exists
    <3> QED
      BY <1>1, <1>9, <1>g, <2>2, <3>1
  <2>3. CASE s # new /\ t # new
    <3>1. OneEach
      BY DEF UInv, Uses, Generations
    <3> QED
      BY <1>2, <1>4, <1>9, <2>3, <3>1 DEF OneEach
  <2> QED
    BY <2>1, <2>2, <2>3
<1>10. OneEach'
  BY <1>9 DEF OneEach, Exists
<1>11. ASSUME NEW s \in Secrets, NEW t
       PROVE  t \in Later(s)' <=> /\ t \in Secrets
                                  /\ cred'[s] # NoCredential /\ cred'[t] # NoCredential
                                  /\ cred'[t].row = cred'[s].row /\ cred'[t].gen > cred'[s].gen
  BY DEF Later, Of
<1>12. NewestServes'
  <2>1. SUFFICES ASSUME NEW s \in Secrets, NEW t \in Secrets, cred'[s].state = "current",
                        t \in Later(s)'
                 PROVE  t \in cut'
    BY DEF NewestServes
  <2>2. /\ cred'[s] # NoCredential /\ cred'[t] # NoCredential
        /\ cred'[t].row = cred'[s].row /\ cred'[t].gen > cred'[s].gen
    BY <1>11, <2>1
  <2>3. s # new
    <3>1. SUFFICES ASSUME s = new PROVE FALSE
      OBVIOUS
    <3>2. CASE s = t
      BY <1>g, <2>2, <3>1, <3>2
    <3>3. CASE s # t
      BY <1>9, <2>2, <3>1, <3>3
    <3> QED
      BY <3>2, <3>3
  <2>4. cred[s].state = "current" /\ cred[s].row # p /\ Exists(s)
    BY <1>2, <2>1, <2>2, <2>3
  <2>5. t # new
    BY <1>1, <1>2, <2>2, <2>3, <2>4
  <2>6. t \in Later(s)
    BY <1>2, <2>2, <2>3, <2>5, LaterIs
  <2>7. t \in cut
    BY <2>4, <2>6 DEF UInv, Uses, Generations, NewestServes
  <2> QED
    BY <2>7
\* The successors.
<1>13. ASSUME NEW s \in Secrets, heir'[s] # NoSecret, cred'[s] # NoCredential,
              cred'[heir'[s]] # NoCredential, heir'[s] \in Secrets
       PROVE  cred'[heir'[s]].gen > cred'[s].gen
  <2>1. s # new
    BY <1>1, <1>5, <1>6, <1>7, <1>13
  <2>2. Exists(s) /\ cred'[s].gen = cred[s].gen /\ cred[s].gen \in Nat
    BY <1>2, <1>4, <1>13, <2>1
  <2>3. CASE heir'[s] = new /\ cred[s].gen =< k
    BY <1>1, <1>g, <2>2, <2>3
  <2>4. CASE heir'[s] = heir[s]
    <3>1. heir[s] # new
      BY <1>1, <1>5, <2>4
    <3>2. Exists(heir[s]) /\ cred'[heir[s]].gen = cred[heir[s]].gen
      BY <1>2, <1>13, <2>4, <3>1
    <3>3. cred[heir[s]].gen > cred[s].gen
      BY <1>13, <2>2, <2>4, <3>2 DEF UInv, Uses, Generations, HeirsNewer
    <3> QED
      BY <2>2, <2>4, <3>2, <3>3
  <2> QED
    BY <1>6, <2>2, <2>3, <2>4
<1>14. \A s \in Secrets : heir'[s] # NoSecret => heir'[s] \in Secrets
  <2>1. \A s \in Secrets : heir[s] # NoSecret => heir[s] \in Secrets
    BY <1>5 DEF Secrets, NoSecret
  <2> QED
    BY <1>1, <1>6, <2>1
<1>15. HeirsNewer'
  <2>1. SUFFICES ASSUME NEW s \in Secrets, heir'[s] # NoSecret, cred'[s] # NoCredential,
                        cred'[heir'[s]] # NoCredential
                 PROVE  cred'[heir'[s]].gen > cred'[s].gen
    BY DEF HeirsNewer, Exists
  <2> QED
    BY <1>13, <1>14, <2>1
<1>16. ASSUME NEW s \in Secrets, cred'[s].state = "superseded"
       PROVE  s \in cut' \/ Claimed(s)' # {} \/ Overtaken(s)' \/ Succeeded(s)'
  <2>0. s # new /\ cred'[s] # NoCredential
    BY <1>1, <1>16 DEF NoCredential
  <2>1. /\ Exists(s) /\ cred'[s].row = cred[s].row /\ cred'[s].gen = cred[s].gen
        /\ cred[s].state = "superseded" \/ cred[s].row = p
    BY <1>2, <1>16, <2>0
  <2>2. CASE cred[s].row = p
    <3>1. s \in Of(p)
      BY <2>1, <2>2 DEF Of, Exists
    <3>2. new \in Later(s)'
      BY <1>1, <1>11, <2>0, <2>1, <2>2, <3>1
    <3> QED
      BY <3>2 DEF Overtaken
  <2>3. CASE cred[s].row # p /\ cred[s].state = "superseded"
    <3>1. s \in cut \/ Claimed(s) # {} \/ Overtaken(s) \/ Succeeded(s)
      BY <2>3 DEF UInv, Uses, ConsumedForSuccessor
    <3>2. heir'[s] = new => Succeeded(s)'
      <4>1. SUFFICES ASSUME heir'[s] = new PROVE heir'[s] # NoSecret /\ cred'[heir'[s]].gen > cred'[s].gen
        BY DEF Succeeded
      <4>2. new # NoSecret
        BY <1>1, <1>7 DEF NoSecret
      <4> QED
        BY <1>1, <1>13, <2>0, <4>1, <4>2
    <3>3. Claimed(s) # {} => Claimed(s)' # {} \/ Succeeded(s)'
      BY <3>2
    <3>4. ASSUME NEW t \in Later(s) PROVE Overtaken(s)'
      <4>1. cred[s].state # "current"
        BY <2>3
      <4>2. cred'[t] # NoCredential
        BY <1>3, <2>0, <2>3, <3>4, <4>1
      <4>3. /\ t \in Secrets /\ Exists(t) /\ cred[t].row = cred[s].row
            /\ cred[t].gen > cred[s].gen
        BY <3>4, LaterIs
      <4>4. t # new
        BY <1>1, <4>3
      <4>5. cred'[t].row = cred[t].row /\ cred'[t].gen = cred[t].gen
        BY <1>2, <4>2, <4>3, <4>4
      <4>6. t \in Later(s)'
        BY <1>11, <2>0, <2>1, <4>2, <4>3, <4>5
      <4> QED
        BY <4>6 DEF Overtaken
    <3>5. ASSUME Succeeded(s) PROVE Succeeded(s)'
      <4>1. heir[s] # NoSecret
        BY <3>5 DEF Succeeded
      <4>2. CASE heir'[s] = new
        BY <3>2, <4>2
      <4>3. CASE heir'[s] = heir[s]
        <5>1. heir'[s] # NoSecret /\ heir'[s] \in Secrets
          BY <1>14, <4>1, <4>3
        <5>2. cred'[heir'[s]] # NoCredential => cred'[heir'[s]].gen > cred'[s].gen
          BY <1>13, <2>0, <5>1
        <5> QED
          BY <5>1, <5>2 DEF Succeeded
      <4> QED
        BY <1>6, <4>2, <4>3
    <3> QED
      BY <3>1, <3>3, <3>4, <3>5 DEF Overtaken
  <2> QED
    BY <2>1, <2>2, <2>3
<1>17. ConsumedForSuccessor'
  BY <1>16 DEF ConsumedForSuccessor
<1> QED
  BY <1>8, <1>10, <1>12, <1>15, <1>17 DEF Generations

-----------------------------------------------------------------------------
(* The steps again, for what they use up.                                    *)

\* One connection goes on, with the claim that it had.
LEMMA OneGoesOn ==
    ASSUME UInv, NEW c \in Conns, NEW r, connection' = [connection EXCEPT ![c] = r],
           made' \in Nat, made =< made', LiveConn(c) \/ c = made',
           Claims(c) => /\ r.state \in {"up", "lost"} /\ r.at \in Claiming
                        /\ r.secret = connection[c].secret,
           r.at \in Firm => /\ Firmly(c) /\ r.secret = connection[c].secret
                            /\ r.consumed = connection[c].consumed
    PROVE  Quietly
<1>1. /\ connection'[c] = r /\ \A d \in Conns : d # c => connection'[d] = connection[d]
  BY DEF UInv, IInv, Sound, ConnsOK, Connections
<1>2. Holding
  <2>1. ASSUME NEW d \in Conns, Claims(d)
        PROVE  Claims(d)' /\ connection'[d].secret = connection[d].secret
    BY <1>1, <2>1 DEF Claims, LiveConn
  <2> QED
    BY <2>1 DEF Holding
<1>3. NoNewClaims
  <2>1. ASSUME NEW d \in Conns, Firmly(d)'
        PROVE  /\ Firmly(d) /\ connection'[d].secret = connection[d].secret
               /\ connection'[d].consumed = connection[d].consumed
    BY <1>1, <2>1 DEF Firmly, LiveConn
  <2> QED
    BY <2>1 DEF NoNewClaims
<1>4. NumberedNext
  <2>1. ASSUME NEW d \in Conns, LiveConn(d)' PROVE d =< made'
    <3>1. d \in Nat /\ c \in Nat /\ made \in Nat
      BY Numbers DEF Conns, UInv
    <3>2. \A x \in Conns : LiveConn(x) => x =< made
      BY DEF UInv, Uses, Numbered
    <3>3. CASE d = c
      BY <3>1, <3>2, <3>3
    <3>4. CASE d # c
      <4>1. LiveConn(d)
        BY <1>1, <2>1, <3>4 DEF LiveConn
      <4> QED
        BY <3>1, <3>2, <4>1
    <3> QED
      BY <3>3, <3>4
  <2> QED
    BY <2>1 DEF NumberedNext
<1> QED
  BY <1>2, <1>3, <1>4 DEF Quietly

\* A step that neither claims nor mints, and lets no credential become current.
LEMMA QuietStep ==
    ASSUME UInv, Quietly, SameTable, UNCHANGED <<minted, ghosts>>,
           \A s \in Secrets : cred'[s].state = "current" => cred[s].state = "current",
           \A s \in Secrets : cred'[s].state = "superseded" => cred[s].state = "superseded"
    PROVE  Uses'
<1>1. \A s \in Secrets : s =< minted /\ Exists(s)' => Exists(s) /\ cred'[s].gen = cred[s].gen
  BY DEF SameTable
<1>2. KnowsConsumed' /\ Numbered' /\ \A s : Claimed(s) # {} => Claimed(s)' # {}
  BY <1>1, StillKnown, HeldOn DEF Quietly
<1>3. UNCHANGED <<minted, heir>> /\ cut \subseteq cut'
  BY DEF ghosts
<1>4. Generations' /\ ConsumedForSuccessor'
  BY <1>2, <1>3, NothingMinted
<1> QED
  BY <1>2, <1>4 DEF Uses

LEMMA SameCreds == UNCHANGED cred =>
    /\ SameTable
    /\ \A s \in Secrets : cred'[s].state = "current" => cred[s].state = "current"
    /\ \A s \in Secrets : cred'[s].state = "superseded" => cred[s].state = "superseded"
BY DEF SameTable, Exists

LEMMA StillStep ==
    ASSUME UInv, Quietly, UNCHANGED <<cred, minted, ghosts>> PROVE Uses'
BY SameCreds, QuietStep

\* A step that mints, and neither claims nor ends a claim.
LEMMA QuietMint ==
    ASSUME UInv, Quietly, NEW p \in Procs, minted < MaxSecrets, minted' = minted + 1,
           cred' = Minted(p, minted + 1, 0), UNCHANGED ghosts
    PROVE  Uses'
<1>1. minted \in Nat /\ 0 \in 0..minted
  BY Numbers DEF UInv
<1>2. \A s \in Secrets : s # minted + 1 /\ cred'[s] # NoCredential
                            => Exists(s) /\ cred'[s].gen = cred[s].gen
  BY <1>1, MintLeaves
<1>3. \A s \in Secrets : s =< minted /\ Exists(s)' => Exists(s) /\ cred'[s].gen = cred[s].gen
  <2>1. \A s \in Secrets : s =< minted => s # minted + 1
    BY <1>1 DEF Secrets
  <2> QED
    BY <1>2, <2>1 DEF Exists
<1>4. KnowsConsumed' /\ Numbered' /\ \A s : Claimed(s) # {} => Claimed(s)' # {}
  BY <1>3, StillKnown, HeldOn DEF Quietly
<1>5. UNCHANGED <<heir, cut>>
  BY DEF ghosts
<1>6. Generations' /\ ConsumedForSuccessor'
  BY <1>1, <1>4, <1>5, OneMinted
<1> QED
  BY <1>4, <1>6 DEF Uses

\* What the steps below ask of a record: the fields that no update names stay.
LEMMA NowAt ==
    ASSUME NEW q \in Connection, NEW stage
    PROVE  /\ [q EXCEPT !.at = stage].at = stage
           /\ [q EXCEPT !.at = stage].state = q.state
           /\ [q EXCEPT !.at = stage].secret = q.secret
           /\ [q EXCEPT !.at = stage].consumed = q.consumed
BY DEF Connection

LEMMA OneQuiet ==
    ASSUME UInv, NEW c \in Conns, LiveConn(c), ~ Claims(c), UNCHANGED made,
           NEW r, connection' = [connection EXCEPT ![c] = r], r.at \notin Claiming
    PROVE  Quietly
<1>1. made' \in Nat /\ made =< made'
  BY Numbers DEF UInv
<1>2. r.at \notin Firm
  BY DEF Firm, Claiming
<1> QED
  BY <1>1, <1>2, OneGoesOn

LEMMA GoesQuietly ==
    ASSUME UInv, NEW c \in Conns, LiveConn(c), ~ Claims(c), UNCHANGED made,
           NEW stage, Goes(c, stage), stage \notin Claiming
    PROVE  Quietly
<1> DEFINE r == [connection[c] EXCEPT !.at = stage]
<1>1. r.at = stage
  BY OneConnection, NowAt DEF UInv
<1>2. connection' = [connection EXCEPT ![c] = r]
  BY DEF Goes
<1> HIDE DEF r
<1> QED
  BY <1>1, <1>2, OneQuiet

\* One connection ends what it had claimed.
LEMMA OneLetsGo ==
    ASSUME UInv, NEW c \in Conns, LiveConn(c), UNCHANGED made,
           NEW r, connection' = [connection EXCEPT ![c] = r], r.at \notin Claiming
    PROVE  /\ NoNewClaims /\ NumberedNext
           /\ \A s : Claimed(s) # {} => Claimed(s)' # {} \/ s = connection[c].secret
<1>1. /\ connection'[c] = r /\ \A d \in Conns : d # c => connection'[d] = connection[d]
  BY DEF UInv, IInv, Sound, ConnsOK, Connections
<1>2. NoNewClaims
  <2>1. ASSUME NEW d \in Conns, Firmly(d)'
        PROVE  /\ Firmly(d) /\ connection'[d].secret = connection[d].secret
               /\ connection'[d].consumed = connection[d].consumed
    BY <1>1, <2>1 DEF Firmly, LiveConn, Firm, Claiming
  <2> QED
    BY <2>1 DEF NoNewClaims
<1>3. NumberedNext
  <2>1. \A d \in Conns : LiveConn(d)' => LiveConn(d)
    BY <1>1 DEF LiveConn
  <2> QED
    BY <2>1 DEF UInv, Uses, Numbered, NumberedNext
<1>4. ASSUME NEW s, NEW d \in Claimed(s) PROVE d \in Claimed(s)' \/ s = connection[c].secret
  <2>1. d \in Conns /\ Claims(d) /\ connection[d].secret = s
    BY <1>4, ClaimedIs
  <2>2. CASE d = c
    BY <2>1, <2>2
  <2>3. CASE d # c
    BY <1>1, <2>1, <2>3 DEF Claimed, Claims, Here, Claiming, LiveConn
  <2> QED
    BY <2>2, <2>3
<1> QED
  BY <1>2, <1>3, <1>4

LEMMA UseInitialize == \A p \in Procs : UInv /\ Initialize(p) => Uses'
<1> SUFFICES ASSUME NEW p \in Procs, UInv, Initialize(p) PROVE Uses'
  OBVIOUS
<1> DEFINE c == made + 1
           new == minted + 1
<1>1. /\ made \in Nat /\ made < MaxConns /\ MaxConns \in Nat /\ made' = c
      /\ UNCHANGED ghosts
  BY Numbers DEF UInv, Initialize
<1>2. c \in Conns /\ made' \in Nat /\ made =< made' /\ ~ LiveConn(c)
  BY <1>1 DEF Conns, UInv, Uses, Numbered
<1>3. Fresh(p, c) \in Connection /\ Fresh(p, c).at = "idle"
  BY <1>2, FreshIs
<1>4. ASSUME NEW r, connection' = [connection EXCEPT ![c] = r], r.at = "idle" PROVE Quietly
  BY <1>1, <1>2, <1>4, OneGoesOn DEF Claims, Firm
<1> HIDE DEF c
<1>5. CASE /\ minted < MaxSecrets /\ minted' = minted + 1 /\ cred' = Minted(p, minted + 1, 0)
           /\ \E recovery, id : connection' = [connection EXCEPT ![c] =
                 [Fresh(p, c) EXCEPT !.recovery = recovery, !.id = id, !.pending = new]]
  <2>1. PICK recovery, id : connection' = [connection EXCEPT ![c] =
                 [Fresh(p, c) EXCEPT !.recovery = recovery, !.id = id, !.pending = new]]
    BY <1>5
  <2> DEFINE r == [Fresh(p, c) EXCEPT !.recovery = recovery, !.id = id, !.pending = new]
  <2>2. r.at = "idle"
    BY <1>3 DEF Connection
  <2>3. Quietly
    <3> HIDE DEF r
    <3> QED
      BY <1>4, <2>1, <2>2 DEF r
  <2> QED
    BY <1>1, <1>5, <2>3, QuietMint
<1>6. CASE /\ UNCHANGED <<minted, cred>>
           /\ connection' = [connection EXCEPT ![c] =
                 [Fresh(p, c) EXCEPT !.recovery = "degraded", !.retries = TRUE]]
  <2> DEFINE r == [Fresh(p, c) EXCEPT !.recovery = "degraded", !.retries = TRUE]
  <2>1. r.at = "idle"
    BY <1>3 DEF Connection
  <2>2. Quietly
    BY <1>4, <1>6, <2>1
  <2> QED
    BY <1>1, <1>6, <2>2, StillStep
<1>7. \/ /\ minted < MaxSecrets /\ minted' = minted + 1 /\ cred' = Minted(p, minted + 1, 0)
         /\ connection' = [connection EXCEPT ![c] =
              [Fresh(p, c) EXCEPT !.recovery = "established", !.id = c, !.pending = new]]
      \/ /\ minted < MaxSecrets /\ minted' = minted + 1 /\ cred' = Minted(p, minted + 1, 0)
         /\ connection' = [connection EXCEPT ![c] =
              [Fresh(p, c) EXCEPT !.recovery = "restored", !.id = rowId[p], !.pending = new]]
      \/ /\ UNCHANGED <<minted, cred>>
         /\ connection' = [connection EXCEPT ![c] =
              [Fresh(p, c) EXCEPT !.recovery = "degraded", !.retries = TRUE]]
  BY DEF Initialize, c
<1> HIDE DEF new
<1> QED
  BY <1>5, <1>6, <1>7

\* The connections break, or end with no call under way.
LEMMA BreaksQuietly ==
    ASSUME UInv, NEW broken \in SUBSET Conns, \A c \in broken : connection[c].state = "up",
           Breaks(broken), UNCHANGED made
    PROVE  Quietly
<1>1. ASSUME NEW c \in Conns
      PROVE  /\ LiveConn(c)' <=> LiveConn(c)
             /\ LiveConn(c) => /\ connection'[c].at = connection[c].at
                               /\ connection'[c].secret = connection[c].secret
                               /\ connection'[c].consumed = connection[c].consumed
  <2>1. connection'[c] = IF c \in broken THEN [connection[c] EXCEPT !.state = "lost"]
                         ELSE connection[c]
    BY DEF Breaks
  <2>2. CASE c \in broken
    <3>1. connection[c] \in Connection
      BY <2>2, OneConnection DEF UInv, LiveConn
    <3>2. connection'[c] = [connection[c] EXCEPT !.state = "lost"] /\ LiveConn(c)
      BY <2>1, <2>2 DEF LiveConn
    <3>3. /\ connection'[c].state = "lost" /\ connection'[c].at = connection[c].at
          /\ connection'[c].secret = connection[c].secret
          /\ connection'[c].consumed = connection[c].consumed
      BY <3>1, <3>2 DEF Connection
    <3> QED
      BY <3>2, <3>3 DEF LiveConn
  <2>3. CASE c \notin broken
    BY <2>1, <2>3 DEF LiveConn
  <2> QED
    BY <2>2, <2>3
<1>2. \A c \in Conns : Claims(c)' <=> Claims(c)
  BY <1>1 DEF Claims
<1>3. \A c \in Conns : Firmly(c)' <=> Firmly(c)
  BY <1>1 DEF Firmly
<1>4. Holding
  BY <1>1, <1>2 DEF Holding, Claims
<1>5. NoNewClaims
  BY <1>1, <1>3 DEF NoNewClaims, Firmly
<1>6. NumberedNext
  BY <1>1 DEF NumberedNext, UInv, Uses, Numbered
<1> QED
  BY <1>4, <1>5, <1>6 DEF Quietly

LEMMA UseEnding ==
    /\ \A p \in Procs : UInv /\ Exit(p) => Uses'
    /\ \A p \in Procs, c \in Conns : UInv /\ BreakOff(p, c) => Uses'
    /\ \A c \in Conns : UInv /\ Detach(c) => Uses'
<1>1. ASSUME NEW p \in Procs, UInv, Exit(p) PROVE Uses'
  <2> DEFINE broken == {c \in Conns : Up(p, c)}
  <2>1. /\ broken \in SUBSET Conns /\ \A c \in broken : connection[c].state = "up"
        /\ Breaks(broken) /\ UNCHANGED <<cred, made, minted, ghosts>>
    BY <1>1 DEF Exit, Up
  <2> HIDE DEF broken
  <2>2. Quietly
    BY <1>1, <2>1, BreaksQuietly
  <2> QED
    BY <1>1, <2>1, <2>2, StillStep
<1>2. ASSUME NEW p \in Procs, NEW c \in Conns, UInv, BreakOff(p, c) PROVE Uses'
  <2>1. Quietly
    BY <1>2, BreaksQuietly DEF BreakOff, Up
  <2> QED
    BY <1>2, <2>1, StillStep DEF BreakOff
<1>3. ASSUME NEW c \in Conns, UInv, Detach(c) PROVE Uses'
  <2>1. /\ LiveConn(c) /\ ~ Claims(c) /\ UNCHANGED <<cred, made, minted, ghosts>>
        /\ connection' = [connection EXCEPT ![c] = Ended]
    BY <1>3 DEF Detach, Idle, Here, Claims, Claiming
  <2>2. Quietly
    <3>1. connection'[c] = Ended /\ \A d \in Conns : d # c => connection'[d] = connection[d]
      BY <1>3, <2>1 DEF UInv, IInv, Sound, ConnsOK, Connections
    <3>2. ~ LiveConn(c)' /\ ~ Claims(c)' /\ ~ Firmly(c)'
      BY <3>1 DEF LiveConn, Claims, Firmly, Ended
    <3>3. Holding
      BY <2>1, <3>1 DEF Holding, Claims, LiveConn
    <3>4. NoNewClaims
      BY <3>1, <3>2 DEF NoNewClaims, Firmly, LiveConn
    <3>5. NumberedNext
      BY <1>3, <2>1, <3>1, <3>2 DEF NumberedNext, LiveConn, UInv, Uses, Numbered
    <3> QED
      BY <3>3, <3>4, <3>5 DEF Quietly
  <2> QED
    BY <1>3, <2>1, <2>2, StillStep
<1> QED
  BY <1>1, <1>2, <1>3

LEMMA UseDaemonDies == UInv /\ DaemonDies => Uses'
<1> SUFFICES ASSUME UInv, DaemonDies PROVE Uses'
  OBVIOUS
<1>1. /\ cut' = cut \cup {s \in Secrets : Claimed(s) # {}}
      /\ connection' = [c \in Conns |-> IF c =< made THEN Ended ELSE connection[c]]
      /\ UNCHANGED <<cred, made, minted, heir>>
  BY DEF DaemonDies
<1>2. \A c \in Conns : ~ LiveConn(c)'
  <2>1. \A c \in Conns : LiveConn(c) => c =< made
    BY DEF UInv, Uses, Numbered
  <2> QED
    BY <1>1, <2>1 DEF LiveConn, Ended
<1>3. KnowsConsumed' /\ Numbered'
  BY <1>2 DEF KnowsConsumed, Numbered, Firmly
<1>4. Generations' /\ ConsumedForSuccessor'
  BY <1>1, SameCreds, NothingMinted
<1> QED
  BY <1>3, <1>4 DEF Uses

LEMMA UseConverge == \A c \in Conns : UInv /\ Converge(c) => Uses'
<1> SUFFICES ASSUME NEW c \in Conns, UInv, Converge(c) PROVE Uses'
  OBVIOUS
<1> DEFINE q == connection[c]
           p == q.of
           r == [q EXCEPT !.recovery = "restored", !.id = rowId[p], !.pending = minted + 1]
<1>1. /\ LiveConn(c) /\ minted < MaxSecrets /\ minted' = minted + 1
      /\ connection' = [connection EXCEPT ![c] = r]
      /\ cred' = Minted(p, minted + 1, 0) /\ UNCHANGED <<made, ghosts>>
  BY DEF Converge, LiveConn
<1>2. q \in Connection /\ p \in Procs /\ q.state \in {"up", "lost"}
  BY <1>1, OneConnection DEF UInv
<1>3. r.state = q.state /\ r.at = q.at /\ r.secret = q.secret /\ r.consumed = q.consumed
  BY <1>2 DEF Connection
<1>4. Quietly
  <2>1. made' \in Nat /\ made =< made'
    BY <1>1, Numbers DEF UInv
  <2> HIDE DEF r
  <2> QED
    BY <1>1, <1>2, <1>3, <2>1, OneGoesOn DEF Claims, Firmly
<1> QED
  BY <1>1, <1>2, <1>4, QuietMint

LEMMA UseDisclose == \A c \in Conns : UInv /\ Disclose(c) => Uses'
<1> SUFFICES ASSUME NEW c \in Conns, UInv, Disclose(c) PROVE Uses'
  OBVIOUS
<1> DEFINE q == connection[c]
           r == [q EXCEPT !.pending = NoSecret]
<1>1. /\ LiveConn(c) /\ connection' = [connection EXCEPT ![c] = r]
      /\ UNCHANGED <<cred, made, minted, ghosts>>
  BY DEF Disclose, LiveConn
<1>2. q \in Connection /\ q.state \in {"up", "lost"}
  BY <1>1, OneConnection DEF UInv
<1>3. r.state = q.state /\ r.at = q.at /\ r.secret = q.secret /\ r.consumed = q.consumed
  BY <1>2 DEF Connection
<1>4. Quietly
  <2>1. made' \in Nat /\ made =< made'
    BY <1>1, Numbers DEF UInv
  <2> HIDE DEF r
  <2> QED
    BY <1>1, <1>2, <1>3, <2>1, OneGoesOn DEF Claims, Firmly
<1> QED
  BY <1>1, <1>4, StillStep

LEMMA UseSessionStart ==
    \A p \in Procs, c \in Conns : UInv /\ SessionStart(p, c) => Uses'
<1> SUFFICES ASSUME NEW p \in Procs, NEW c \in Conns, UInv, SessionStart(p, c) PROVE Uses'
  OBVIOUS
<1> DEFINE r == [connection[c] EXCEPT !.at = "lookup", !.secret = entry]
<1>1. /\ LiveConn(c) /\ ~ Claims(c) /\ UNCHANGED <<cred, made, minted, ghosts>>
  BY DEF SessionStart, Idle, Here, Claims, Claiming
<1>2. CASE connection' = [connection EXCEPT ![c] = r]
  <2>1. r.at = "lookup"
    BY <1>1, OneConnection DEF UInv, Connection
  <2>2. r.at \notin Claiming
    BY <2>1 DEF Claiming
  <2> HIDE DEF r
  <2>3. Quietly
    BY <1>1, <1>2, <2>2, OneQuiet
  <2> QED
    BY <1>1, <2>3, StillStep
<1>3. CASE Goes(c, "relink")
  <2>1. Quietly
    BY <1>1, <1>3, GoesQuietly DEF Claiming
  <2> QED
    BY <1>1, <2>1, StillStep
<1> QED
  BY <1>2, <1>3 DEF SessionStart

LEMMA UseMovesOn == \A p \in Procs, c \in Conns : UInv /\ MovesOn(p, c) => Uses'
<1> SUFFICES ASSUME NEW p \in Procs, NEW c \in Conns, UInv, MovesOn(p, c) PROVE Uses'
  OBVIOUS
<1>1. UNCHANGED <<connection, made, minted, ghosts>>
  BY DEF MovesOn
<1>2. ASSUME NEW s \in Secrets
      PROVE  /\ Exists(s)' <=> Exists(s)
             /\ Exists(s) => cred'[s].row = cred[s].row /\ cred'[s].gen = cred[s].gen
             /\ cred'[s].state \in {"revoked", cred[s].state}
  <2>1. cred'[s] = IF s \in Of(p) THEN [cred[s] EXCEPT !.state = "revoked"] ELSE cred[s]
    BY DEF MovesOn
  <2>2. CASE s \in Of(p)
    <3>1. Exists(s) /\ cred[s] \in Credential
      BY <2>2, Rows DEF Of, Exists, UInv
    <3>2. /\ cred'[s].row = cred[s].row /\ cred'[s].gen = cred[s].gen
          /\ cred'[s].state = "revoked"
      BY <2>1, <2>2, <3>1 DEF Credential
    <3>3. Exists(s)'
      BY <3>2 DEF Exists, NoCredential
    <3> QED
      BY <3>1, <3>2, <3>3
  <2>3. CASE s \notin Of(p)
    BY <2>1, <2>3 DEF Exists
  <2> QED
    BY <2>2, <2>3
<1>3. SameTable
  BY <1>2 DEF SameTable
<1>4. Quietly
  <2>1. \A d \in Conns : /\ LiveConn(d)' <=> LiveConn(d)
                         /\ Claims(d)' <=> Claims(d)
                         /\ Firmly(d)' <=> Firmly(d)
    BY <1>1 DEF LiveConn, Claims, Firmly
  <2> QED
    BY <1>1, <2>1 DEF Quietly, Holding, NoNewClaims, NumberedNext, UInv, Uses, Numbered
<1> QED
  BY <1>1, <1>2, <1>3, <1>4, QuietStep

LEMMA UseLookup == \A c \in Conns : UInv /\ Lookup(c) => Uses'
<1> SUFFICES ASSUME NEW c \in Conns, UInv, Lookup(c) PROVE Uses'
  OBVIOUS
<1> DEFINE q == connection[c]
           s == q.secret
<1>1. /\ LiveConn(c) /\ ~ Claims(c) /\ UNCHANGED <<made, minted, ghosts>>
      /\ q \in Connection
  BY OneConnection DEF Lookup, Here, Claims, Claiming, UInv
<1>2. CASE connection' = [connection EXCEPT ![c].at = "claim", ![c].old = rowId[cred[s].row]]
           /\ UNCHANGED cred
  <2> DEFINE r == [q EXCEPT !.at = "claim", !.old = rowId[cred[s].row]]
  <2>1. r.at = "claim"
    BY <1>1 DEF Connection
  <2>2. connection' = [connection EXCEPT ![c] = r] /\ r.at \notin Claiming
    BY <1>2, <2>1 DEF Claiming
  <2> HIDE DEF r
  <2>3. Quietly
    BY <1>1, <2>2, OneQuiet
  <2> QED
    BY <1>1, <1>2, <2>3, StillStep
<1>3. CASE Goes(c, "relink") /\ UNCHANGED cred
  <2>1. Quietly
    BY <1>1, <1>3, GoesQuietly DEF Claiming
  <2> QED
    BY <1>1, <1>3, <2>1, StillStep
<1>4. ASSUME NEW answer, Refuses(c, answer), UNCHANGED cred PROVE Uses'
  <2> DEFINE r == [q EXCEPT !.at = "relink", !.answer = answer]
  <2>1. r.at = "relink"
    BY <1>1 DEF Connection
  <2>2. connection' = [connection EXCEPT ![c] = r] /\ r.at \notin Claiming
    BY <1>4, <2>1 DEF Claiming, Refuses
  <2> HIDE DEF r
  <2>3. Quietly
    BY <1>1, <2>2, OneQuiet
  <2> QED
    BY <1>1, <1>4, <2>3, StillStep
<1>5. CASE cred' = Counted /\ Goes(c, "relink")
  <2>1. ASSUME NEW t \in Secrets
        PROVE  /\ Exists(t)' <=> Exists(t)
               /\ Exists(t) => cred'[t].row = cred[t].row /\ cred'[t].gen = cred[t].gen
               /\ cred'[t].state \in {"revoked", cred[t].state}
    <3>1. CASE ~ (Linked(t) /\ cred[t].state = "current")
      BY <1>5, <3>1 DEF Counted, Exists
    <3>2. CASE Linked(t) /\ cred[t].state = "current"
      <4> DEFINE state == IF cred[t].fails + 1 >= FailureLimit THEN "revoked" ELSE cred[t].state
                 fails == cred[t].fails + 1
                 u == [cred[t] EXCEPT !.fails = fails, !.state = state]
      <4>1. Exists(t) /\ cred[t] \in Credential
        BY <3>2, Rows DEF Linked, Exists, UInv
      <4>2. cred'[t] = u
        BY <1>5, <3>2 DEF Counted
      <4>3. state \in {"revoked", "current"} /\ state \in {"revoked", cred[t].state}
        BY <3>2
      <4> HIDE DEF state, fails
      <4>4. u.row = cred[t].row /\ u.gen = cred[t].gen /\ u.state = state
        BY <4>1 DEF Credential
      <4> HIDE DEF u
      <4>5. Exists(t)'
        BY <4>2, <4>3, <4>4 DEF Exists, NoCredential
      <4> QED
        BY <4>1, <4>2, <4>3, <4>4, <4>5
    <3> QED
      BY <3>1, <3>2
  <2>2. SameTable
    BY <2>1 DEF SameTable
  <2>3. Quietly
    BY <1>1, <1>5, GoesQuietly DEF Claiming
  <2> QED
    BY <1>1, <2>1, <2>2, <2>3, QuietStep
<1> QED
  BY <1>2, <1>3, <1>4, <1>5 DEF Lookup

\* The claim of a current generation: from here on it is used up.
LEMMA ClaimWins ==
    ASSUME UInv, NEW c \in Conns, LiveConn(c), NEW s \in Secrets, Wins(s),
           cred' = [cred EXCEPT ![s].state = "superseded"],
           NEW r, connection' = [connection EXCEPT ![c] = r],
           r.state \in {"up", "lost"}, r.at = "adopt", r.secret = s, r.consumed = cred[s].gen,
           ~ Claims(c), UNCHANGED <<made, minted, ghosts>>
    PROVE  Uses'
<1>1. Exists(s) /\ cred[s] \in Credential /\ cred[s].state = "current"
  BY Rows DEF Wins, Linked, Exists, UInv
<1>2. /\ \A t \in Secrets : t # s => cred'[t] = cred[t]
      /\ cred'[s] = [cred[s] EXCEPT !.state = "superseded"]
  BY DEF UInv, IInv, TableOK, Creds
<1>3. cred'[s].row = cred[s].row /\ cred'[s].gen = cred[s].gen /\ cred'[s].state = "superseded"
  BY <1>1, <1>2 DEF Credential
<1>4. Exists(s)'
  BY <1>3 DEF Exists, NoCredential
<1>5. SameTable
  <2>1. \A t \in Secrets : t # s => (Exists(t)' <=> Exists(t))
    BY <1>2 DEF Exists
  <2> QED
    BY <1>1, <1>2, <1>3, <1>4, <2>1 DEF SameTable
<1>6. /\ connection'[c] = r /\ \A d \in Conns : d # c => connection'[d] = connection[d]
  BY DEF UInv, IInv, Sound, ConnsOK, Connections
<1>7. c \in Claimed(s)'
  BY <1>6 DEF Claimed, Here, LiveConn
<1>8. ASSUME NEW t, NEW d \in Claimed(t) PROVE d \in Claimed(t)'
  <2>1. d \in Conns /\ Claims(d) /\ connection[d].secret = t /\ d # c
    BY <1>8, ClaimedIs
  <2> QED
    BY <1>6, <2>1 DEF Claimed, Claims, Here, Claiming, LiveConn
<1>9. Generations' /\ ConsumedForSuccessor'
  <2>1. /\ \A t \in Secrets : cred'[t].state = "current" => cred[t].state = "current"
        /\ \A t \in Secrets : cred'[t].state = "superseded"
                                => cred[t].state = "superseded" \/ Claimed(t)' # {}
    BY <1>1, <1>2, <1>3, <1>7
  <2>2. \A t \in Secrets : Claimed(t) # {} => Claimed(t)' # {}
    BY <1>8
  <2>3. UNCHANGED <<minted, heir>> /\ cut \subseteq cut'
    BY DEF ghosts
  <2> QED
    BY <1>5, <2>1, <2>2, <2>3, NothingMinted
<1>10. KnowsConsumed'
  <2>1. ASSUME NEW d \in Conns, Firmly(d)', NEW t, t = connection'[d].secret
        PROVE  t \in Secrets /\ (Exists(t)' => connection'[d].consumed = cred'[t].gen)
    <3>1. CASE d = c
      BY <1>3, <1>6, <2>1, <3>1
    <3>2. CASE d # c
      <4>1. Firmly(d) /\ t = connection[d].secret /\ connection'[d] = connection[d]
        BY <1>6, <2>1, <3>2 DEF Firmly, LiveConn
      <4>2. t \in Secrets /\ (Exists(t) => connection[d].consumed = cred[t].gen)
        BY <4>1 DEF UInv, Uses, KnowsConsumed
      <4> QED
        BY <1>5, <4>1, <4>2 DEF SameTable
    <3> QED
      BY <3>1, <3>2
  <2> QED
    BY <2>1 DEF KnowsConsumed, Exists
<1>11. Numbered'
  <2>1. \A d \in Conns : LiveConn(d)' => LiveConn(d)
    BY <1>6 DEF LiveConn
  <2> QED
    BY <2>1 DEF UInv, Uses, Numbered
<1> QED
  BY <1>9, <1>10, <1>11 DEF Uses

LEMMA SecretIs ==
    ASSUME UInv, NEW c \in Conns, LiveConn(c), connection[c].at \in {"claim"} \cup Firm
    PROVE  connection[c].secret \in Secrets
<1>1. CASE connection[c].at = "claim"
  <2>1. /\ Within(connection[c]) /\ connection[c].secret \in 0..minted
        /\ minted =< MaxSecrets /\ minted \in Nat /\ MaxSecrets \in Nat
    BY OneConnection, Numbers DEF UInv
  <2> QED
    BY <1>1, <2>1 DEF Within, WithinBounds, Secrets, NoSecret
<1>2. CASE connection[c].at \in Firm
  BY <1>2 DEF UInv, Uses, KnowsConsumed, Firmly
<1> QED
  BY <1>1, <1>2

LEMMA UseClaimIt == \A c \in Conns : UInv /\ ClaimIt(c) => Uses'
<1> SUFFICES ASSUME NEW c \in Conns, UInv, ClaimIt(c) PROVE Uses'
  OBVIOUS
<1> DEFINE q == connection[c]
           s == q.secret
<1>1. /\ LiveConn(c) /\ ~ Claims(c) /\ UNCHANGED <<made, minted, ghosts>>
      /\ q \in Connection /\ q.at = "claim" /\ q.state \in {"up", "lost"}
  BY OneConnection DEF ClaimIt, Here, Claims, Claiming, UInv
<1>2. CASE Goes(c, "lost") /\ UNCHANGED cred
  <2>1. Quietly
    BY <1>1, <1>2, GoesQuietly DEF Claiming
  <2> QED
    BY <1>1, <1>2, <2>1, StillStep
<1>3. CASE /\ Wins(s) /\ cred' = [cred EXCEPT ![s].state = "superseded"]
           /\ connection' = [connection EXCEPT ![c].at = "adopt", ![c].consumed = cred[s].gen]
  <2> DEFINE gen == cred[s].gen
             r == [q EXCEPT !.at = "adopt", !.consumed = gen]
  <2>1. s \in Secrets
    BY <1>1, SecretIs
  <2>2. connection' = [connection EXCEPT ![c] = r]
    BY <1>3
  <2>3. gen = cred[s].gen
    OBVIOUS
  <2> HIDE DEF gen, q, s
  <2>4. r.state = q.state /\ r.at = "adopt" /\ r.secret = q.secret /\ r.consumed = gen
    BY <1>1 DEF Connection
  <2>5. r.secret = s
    BY <2>4 DEF s
  <2> HIDE DEF r
  <2> QED
    BY <1>1, <1>3, <2>1, <2>2, <2>3, <2>4, <2>5, ClaimWins
<1> QED
  BY <1>2, <1>3 DEF ClaimIt

LEMMA UseLost == \A c \in Conns : UInv /\ Lost(c) => Uses'
<1> SUFFICES ASSUME NEW c \in Conns, UInv, Lost(c) PROVE Uses'
  OBVIOUS
<1> DEFINE q == connection[c]
<1>1. /\ LiveConn(c) /\ ~ Claims(c) /\ UNCHANGED <<cred, made, minted, ghosts>>
      /\ q \in Connection
  BY OneConnection DEF Lost, Here, Claims, Claiming, UInv
<1>2. ASSUME NEW r, connection' = [connection EXCEPT ![c] = r], r.at = "relink" PROVE Uses'
  <2>1. r.at \notin Claiming
    BY <1>2 DEF Claiming
  <2>2. Quietly
    BY <1>1, <1>2, <2>1, OneQuiet
  <2> QED
    BY <1>1, <2>2, StillStep
<1>3. CASE connection' = [connection EXCEPT ![c].at = "relink", ![c].answer = "superseded",
                                            ![c].recovery = "superseded"]
  <2> DEFINE r == [q EXCEPT !.at = "relink", !.answer = "superseded", !.recovery = "superseded"]
  <2>1. r.at = "relink" /\ connection' = [connection EXCEPT ![c] = r]
    BY <1>1, <1>3 DEF Connection
  <2> HIDE DEF r
  <2> QED
    BY <1>2, <2>1
<1>4. CASE Refuses(c, "revoked")
  <2> DEFINE r == [q EXCEPT !.at = "relink", !.answer = "revoked"]
  <2>1. r.at = "relink" /\ connection' = [connection EXCEPT ![c] = r]
    BY <1>1, <1>4 DEF Connection, Refuses
  <2> HIDE DEF r
  <2> QED
    BY <1>2, <2>1
<1>5. CASE Goes(c, "relink")
  <2> DEFINE r == [q EXCEPT !.at = "relink"]
  <2>1. r.at = "relink" /\ connection' = [connection EXCEPT ![c] = r]
    BY <1>1, <1>5 DEF Connection, Goes
  <2> HIDE DEF r
  <2> QED
    BY <1>2, <2>1
<1> QED
  BY <1>3, <1>4, <1>5 DEF Lost

\* The claimant goes on with what it has claimed.
LEMMA ClaimantGoesOn ==
    ASSUME UInv, NEW c \in Conns, Firmly(c), UNCHANGED <<cred, made, minted, ghosts>>,
           NEW r, connection' = [connection EXCEPT ![c] = r], r.state = connection[c].state,
           r.at \in Claiming, r.secret = connection[c].secret,
           r.consumed = connection[c].consumed
    PROVE  Uses'
<1>1. made' \in Nat /\ made =< made' /\ LiveConn(c) /\ r.state \in {"up", "lost"}
  BY Numbers DEF UInv, Firmly, LiveConn
<1>2. Quietly
  BY <1>1, OneGoesOn
<1> QED
  BY <1>2, StillStep

LEMMA UseAdopt == \A c \in Conns : UInv /\ Adopt(c) => Uses'
<1> SUFFICES ASSUME NEW c \in Conns, UInv, Adopt(c) PROVE Uses'
  OBVIOUS
<1> DEFINE q == connection[c]
<1>1. Firmly(c) /\ UNCHANGED <<cred, made, minted, ghosts>> /\ q \in Connection
  BY OneConnection DEF Adopt, Here, Firmly, Firm, UInv
<1>2. CASE connection' = [connection EXCEPT ![c].at = "persist", ![c].id = connection[c].old]
  <2> DEFINE r == [q EXCEPT !.at = "persist", !.id = q.old]
  <2>1. r.state = q.state /\ r.at = "persist" /\ r.secret = q.secret /\ r.consumed = q.consumed
    BY <1>1 DEF Connection
  <2>2. connection' = [connection EXCEPT ![c] = r] /\ r.at \in Claiming
    BY <1>2, <2>1 DEF Claiming
  <2> HIDE DEF r
  <2> QED
    BY <1>1, <2>1, <2>2, ClaimantGoesOn
<1>3. CASE Goes(c, "release")
  <2> DEFINE r == [q EXCEPT !.at = "release"]
  <2>1. r.state = q.state /\ r.at = "release" /\ r.secret = q.secret /\ r.consumed = q.consumed
    BY <1>1 DEF Connection
  <2>2. connection' = [connection EXCEPT ![c] = r] /\ r.at \in Claiming
    BY <1>3, <2>1 DEF Claiming, Goes
  <2> HIDE DEF r
  <2> QED
    BY <1>1, <2>1, <2>2, ClaimantGoesOn
<1> QED
  BY <1>2, <1>3 DEF Adopt

LEMMA UsePersist == \A c \in Conns : UInv /\ Persist(c) => Uses'
<1> SUFFICES ASSUME NEW c \in Conns, UInv, Persist(c) PROVE Uses'
  OBVIOUS
<1> DEFINE q == connection[c]
<1>1. Firmly(c) /\ UNCHANGED <<cred, made, minted, ghosts>> /\ q \in Connection
  BY OneConnection DEF Persist, Here, Firmly, Firm, UInv
<1>2. CASE connection' = [connection EXCEPT ![c].at = "issue", ![c].recovery = "restored",
                                            ![c].answer = "restored"]
  <2> DEFINE r == [q EXCEPT !.at = "issue", !.recovery = "restored", !.answer = "restored"]
  <2>1. r.state = q.state /\ r.at = "issue" /\ r.secret = q.secret /\ r.consumed = q.consumed
    BY <1>1 DEF Connection
  <2>2. connection' = [connection EXCEPT ![c] = r] /\ r.at \in Claiming
    BY <1>2, <2>1 DEF Claiming
  <2> HIDE DEF r
  <2> QED
    BY <1>1, <2>1, <2>2, ClaimantGoesOn
<1>3. CASE connection' = [connection EXCEPT ![c].at = "release", ![c].recovery = "degraded"]
  <2> DEFINE r == [q EXCEPT !.at = "release", !.recovery = "degraded"]
  <2>1. r.state = q.state /\ r.at = "release" /\ r.secret = q.secret /\ r.consumed = q.consumed
    BY <1>1 DEF Connection
  <2>2. connection' = [connection EXCEPT ![c] = r] /\ r.at \in Claiming
    BY <1>3, <2>1 DEF Claiming
  <2> HIDE DEF r
  <2> QED
    BY <1>1, <2>1, <2>2, ClaimantGoesOn
<1> QED
  BY <1>2, <1>3 DEF Persist

\* The successor: it is past what its claimant used up.
LEMMA UseIssue == \A c \in Conns : UInv /\ Issue(c) => Uses'
<1> SUFFICES ASSUME NEW c \in Conns, UInv, Issue(c) PROVE Uses'
  OBVIOUS
<1> DEFINE q == connection[c]
           s == q.secret
           new == minted + 1
           r == [q EXCEPT !.at = "relink", !.note = new]
<1>1. /\ LiveConn(c) /\ Firmly(c) /\ UNCHANGED <<made, cut>> /\ q \in Connection
      /\ q.of \in Procs /\ q.consumed \in 0..minted /\ s =< minted
  BY OneConnection, Numbers DEF Issue, Here, Firmly, Firm, UInv
<1>2. CASE Goes(c, "release") /\ UNCHANGED <<minted, cred, heir>>
  <2> DEFINE u == [q EXCEPT !.at = "release"]
  <2>1. u.state = q.state /\ u.at = "release" /\ u.secret = q.secret /\ u.consumed = q.consumed
    BY <1>1 DEF Connection
  <2>2. connection' = [connection EXCEPT ![c] = u] /\ u.at \in Claiming
    BY <1>2, <2>1 DEF Claiming, Goes
  <2>3. UNCHANGED <<cred, made, minted, ghosts>>
    BY <1>1, <1>2 DEF ghosts
  <2> HIDE DEF u
  <2> QED
    BY <1>1, <2>1, <2>2, <2>3, ClaimantGoesOn
<1>3. CASE /\ minted < MaxSecrets /\ minted' = new /\ cred' = Minted(q.of, new, q.consumed)
           /\ connection' = [connection EXCEPT ![c].at = "relink", ![c].note = new]
           /\ heir' = [heir EXCEPT ![s] = new]
  <2>1. s \in Secrets /\ (Exists(s) => cred[s].gen =< q.consumed)
    <3>1. s \in Secrets /\ (Exists(s) => q.consumed = cred[s].gen)
      BY <1>1 DEF UInv, Uses, KnowsConsumed
    <3> QED
      BY <1>1, <3>1
  <2>2. r.at = "relink" /\ connection' = [connection EXCEPT ![c] = r]
    BY <1>1, <1>3 DEF Connection
  <2>3. r.at \notin Claiming
    BY <2>2 DEF Claiming
  <2> HIDE DEF r
  <2>4. /\ NoNewClaims /\ NumberedNext
        /\ \A t : Claimed(t) # {} => Claimed(t)' # {} \/ t = connection[c].secret
    BY <1>1, <2>2, <2>3, OneLetsGo
  <2>5. \A t \in Secrets : Claimed(t) # {} => Claimed(t)' # {} \/ heir'[t] = new
    <3>1. heir'[s] = new
      BY <1>3, <2>1 DEF UInv, IInv, ProcsOK, GhostsOK
    <3> QED
      BY <2>4, <3>1
  <2>6. Generations' /\ ConsumedForSuccessor'
    <3>1. \E t \in Secrets : /\ t =< minted /\ heir' = [heir EXCEPT ![t] = new]
                             /\ Exists(t) => cred[t].gen =< q.consumed
      BY <1>1, <1>3, <2>1
    <3>2. UNCHANGED cut
      BY <1>1
    <3> QED
      BY <1>1, <1>3, <2>5, <3>1, <3>2, OneMinted
  <2>7. \A t \in Secrets : t =< minted /\ Exists(t)' => Exists(t) /\ cred'[t].gen = cred[t].gen
    <3>1. \A t \in Secrets : t # new /\ cred'[t] # NoCredential
                                => Exists(t) /\ cred'[t].gen = cred[t].gen
      BY <1>1, <1>3, MintLeaves
    <3>2. \A t \in Secrets : t =< minted => t # new
      BY Numbers DEF Secrets, UInv
    <3> QED
      BY <3>1, <3>2 DEF Exists
  <2>8. KnowsConsumed' /\ Numbered'
    BY <2>4, <2>7, StillKnown
  <2> QED
    BY <2>6, <2>8 DEF Uses
<1> QED
  BY <1>2, <1>3 DEF Issue

\* What is given back becomes current again, and what was past it is left behind.
LEMMA GivenBack ==
    ASSUME UInv, NEW s \in Secrets, cred[s].state = "superseded", CurrentOf(cred[s].row) = {},
           cred' = [cred EXCEPT ![s].state = "current"], cut' = cut \cup Later(s),
           UNCHANGED <<minted, heir>>,
           \A t : Claimed(t) # {} => Claimed(t)' # {} \/ t = s
    PROVE  SameTable /\ Generations' /\ ConsumedForSuccessor'
<1>1. Exists(s) /\ cred[s] \in Credential
  BY Rows DEF UInv
<1>2. /\ \A t \in Secrets : t # s => cred'[t] = cred[t]
      /\ cred'[s] = [cred[s] EXCEPT !.state = "current"]
  BY DEF UInv, IInv, TableOK, Creds
<1>3. cred'[s].row = cred[s].row /\ cred'[s].gen = cred[s].gen /\ cred'[s].state = "current"
  BY <1>1, <1>2 DEF Credential
<1>4. SameTable
  <2>1. Exists(s)'
    BY <1>3 DEF Exists, NoCredential
  <2>2. \A t \in Secrets : t # s => (Exists(t)' <=> Exists(t))
    BY <1>2 DEF Exists
  <2> QED
    BY <1>1, <1>2, <1>3, <2>1, <2>2 DEF SameTable
<1>5. \A t \in Secrets : Later(t)' = Later(t)
  BY <1>4, LaterStays
<1>6. Drawn' /\ OneEach' /\ HeirsNewer'
  <2>1. Drawn /\ OneEach /\ HeirsNewer
    BY DEF UInv, Uses, Generations
  <2>2. \A t \in Secrets : heir[t] # NoSecret => heir[t] \in Secrets
    BY Numbers DEF Secrets, NoSecret, UInv, IInv, ProcsOK, GhostsOK
  <2>3. Drawn'
    BY <1>4, <2>1 DEF Drawn, SameTable
  <2>4. OneEach'
    BY <1>4, <2>1 DEF OneEach, SameTable
  <2>5. HeirsNewer'
    BY <1>4, <2>1, <2>2 DEF HeirsNewer, SameTable
  <2> QED
    BY <2>3, <2>4, <2>5
<1>7. NewestServes'
  <2>1. SUFFICES ASSUME NEW t \in Secrets, NEW u \in Secrets, cred'[t].state = "current",
                        u \in Later(t)
                 PROVE  u \in cut'
    BY <1>5 DEF NewestServes
  <2>2. CASE t = s
    BY <2>1, <2>2
  <2>3. CASE t # s
    BY <1>2, <2>1, <2>3 DEF UInv, Uses, Generations, NewestServes
  <2> QED
    BY <2>2, <2>3
<1>8. ASSUME NEW t \in Secrets, cred'[t].state = "superseded"
      PROVE  t \in cut' \/ Claimed(t)' # {} \/ Overtaken(t)' \/ Succeeded(t)'
  <2>1. t # s /\ cred[t].state = "superseded"
    BY <1>2, <1>3, <1>8
  <2>2. t \in cut \/ Claimed(t) # {} \/ Overtaken(t) \/ Succeeded(t)
    BY <2>1 DEF UInv, Uses, ConsumedForSuccessor
  <2>3. Overtaken(t) => Overtaken(t)'
    BY <1>5 DEF Overtaken
  <2>4. Claimed(t) # {} => Claimed(t)' # {}
    BY <2>1
  <2>5. ASSUME Succeeded(t) PROVE Succeeded(t)'
    <3>1. heir[t] # NoSecret /\ (Exists(heir[t]) => cred[heir[t]].gen > cred[t].gen)
      BY <2>5 DEF Succeeded, Exists
    <3>2. heir[t] \in Secrets
      BY <3>1, Numbers DEF Secrets, NoSecret, UInv, IInv, ProcsOK, GhostsOK
    <3>3. /\ heir'[t] = heir[t] /\ cred'[t].gen = cred[t].gen
          /\ cred'[heir[t]] # NoCredential
                => Exists(heir[t]) /\ cred'[heir[t]].gen = cred[heir[t]].gen
      BY <1>2, <1>4, <2>1, <3>2 DEF SameTable, Exists
    <3> QED
      BY <3>1, <3>3 DEF Succeeded
  <2> QED
    BY <2>2, <2>3, <2>4, <2>5
<1>9. ConsumedForSuccessor'
  BY <1>8 DEF ConsumedForSuccessor
<1> QED
  BY <1>4, <1>6, <1>7, <1>9 DEF Generations

LEMMA UseReleaseClaim == \A c \in Conns : UInv /\ ReleaseClaim(c) => Uses'
<1> SUFFICES ASSUME NEW c \in Conns, UInv, ReleaseClaim(c) PROVE Uses'
  OBVIOUS
<1>1. PICK s : s = connection[c].secret
  OBVIOUS
<1>2. /\ LiveConn(c) /\ connection[c] \in Connection /\ connection[c].at = "release"
      /\ Goes(c, "relink") /\ UNCHANGED <<made, minted, heir>>
  BY OneConnection DEF ReleaseClaim, Here, UInv
<1>3. /\ NoNewClaims /\ NumberedNext
      /\ \A t : Claimed(t) # {} => Claimed(t)' # {} \/ t = s
  <2> DEFINE r == [connection[c] EXCEPT !.at = "relink"]
  <2>1. r.at = "relink" /\ connection' = [connection EXCEPT ![c] = r]
    BY <1>2 DEF Connection, Goes
  <2>2. r.at \notin Claiming
    BY <2>1 DEF Claiming
  <2> HIDE DEF r
  <2> QED
    BY <1>1, <1>2, <2>1, <2>2, OneLetsGo
<1>4. ASSUME SameTable, Generations', ConsumedForSuccessor' PROVE Uses'
  <2>1. \A t \in Secrets : t =< minted /\ Exists(t)' => Exists(t) /\ cred'[t].gen = cred[t].gen
    BY <1>4 DEF SameTable
  <2>2. KnowsConsumed' /\ Numbered'
    BY <1>3, <2>1, StillKnown
  <2> QED
    BY <1>4, <2>2 DEF Uses
<1>5. ASSUME UNCHANGED cred, cut \subseteq cut',
             s \in Secrets /\ cred[s].state = "superseded" => s \in cut' \/ Overtaken(s)
      PROVE  Uses'
  <2>1. \A t \in Secrets : Claimed(t) # {} /\ cred[t].state = "superseded"
                              => Claimed(t)' # {} \/ t \in cut' \/ Overtaken(t)
    BY <1>3, <1>5
  <2>2. /\ SameTable
        /\ \A t \in Secrets : cred'[t].state = "current" => cred[t].state = "current"
        /\ \A t \in Secrets : cred'[t].state = "superseded"
                                => cred[t].state = "superseded" \/ Claimed(t)' # {}
    BY <1>5, SameCreds
  <2>3. Generations' /\ ConsumedForSuccessor'
    BY <1>2, <1>5, <2>1, <2>2, NothingMinted
  <2> QED
    BY <1>4, <2>2, <2>3
<1>6. CASE cut' = cut \cup {s} /\ UNCHANGED cred
  BY <1>5, <1>6
<1>7. CASE cred' = Released(s) /\ cut' = IF cred' # cred THEN cut \cup Later(s) ELSE cut
  <2>1. CASE s \in Secrets /\ cred[s].state = "superseded" /\ CurrentOf(cred[s].row) = {}
    <3>1. cred' = [cred EXCEPT ![s].state = "current"]
      BY <1>7, <2>1 DEF Released
    <3>2. cred' # cred
      BY <2>1, <3>1, Rows DEF UInv, IInv, TableOK, Creds, Credential
    <3>3. cut' = cut \cup Later(s)
      BY <1>7, <3>2
    <3>4. SameTable /\ Generations' /\ ConsumedForSuccessor'
      BY <1>2, <1>3, <2>1, <3>1, <3>3, GivenBack
    <3> QED
      BY <1>4, <3>4
  <2>2. CASE ~ (s \in Secrets /\ cred[s].state = "superseded" /\ CurrentOf(cred[s].row) = {})
    <3>1. UNCHANGED cred
      <4>1. CASE s \in Secrets
        BY <1>7, <2>2, <4>1 DEF Released
      <4>2. CASE s \notin Secrets
        <5>1. [cred EXCEPT ![s].state = "current"] = cred
          BY <4>2 DEF UInv, IInv, TableOK, Creds
        <5> QED
          BY <1>7, <5>1 DEF Released
      <4> QED
        BY <4>1, <4>2
    <3>2. cut' = cut
      BY <1>7, <3>1
    <3>3. ASSUME s \in Secrets, cred[s].state = "superseded" PROVE s \in cut' \/ Overtaken(s)
      <4>1. PICK t \in CurrentOf(cred[s].row) : TRUE
        BY <2>2, <3>3
      <4>2. /\ t \in Secrets /\ Exists(t) /\ cred[t].row = cred[s].row
            /\ cred[t].state = "current" /\ t # s
        BY <3>3, <4>1 DEF CurrentOf, Of, Exists
      <4>3. Exists(s) /\ cred[s].gen \in Nat /\ cred[t].gen \in Nat
        BY <3>3, <4>2, Rows DEF UInv
      <4>4. cred[s].gen # cred[t].gen
        BY <3>3, <4>2, <4>3 DEF UInv, Uses, Generations, OneEach
      <4>5. CASE cred[t].gen > cred[s].gen
        <5>1. t \in Later(s)
          BY <3>3, <4>2, <4>3, <4>5, LaterIs
        <5> QED
          BY <5>1 DEF Overtaken
      <4>6. CASE cred[s].gen > cred[t].gen
        <5>1. s \in Later(t)
          BY <3>3, <4>2, <4>3, <4>6, LaterIs
        <5> QED
          BY <3>2, <3>3, <4>2, <5>1 DEF UInv, Uses, Generations, NewestServes
      <4> QED
        BY <4>3, <4>4, <4>5, <4>6
    <3> QED
      BY <1>5, <3>1, <3>2, <3>3
  <2> QED
    BY <2>1, <2>2
<1> QED
  BY <1>1, <1>6, <1>7 DEF ReleaseClaim

LEMMA UseRelink == \A c \in Conns : UInv /\ Relink(c) => Uses'
<1> SUFFICES ASSUME NEW c \in Conns, UInv, Relink(c) PROVE Uses'
  OBVIOUS
<1> DEFINE q == connection[c]
           new == minted + 1
           r == [q EXCEPT !.at = "reply", !.pending = new]
<1>1. /\ LiveConn(c) /\ ~ Claims(c) /\ UNCHANGED <<made, ghosts>>
      /\ q \in Connection /\ q.of \in Procs
  BY OneConnection DEF Relink, Here, Claims, Claiming, UInv
<1>2. CASE Goes(c, "reply") /\ UNCHANGED <<minted, cred>>
  <2>1. Quietly
    BY <1>1, <1>2, GoesQuietly DEF Claiming
  <2> QED
    BY <1>1, <1>2, <2>1, StillStep
<1>3. CASE /\ minted < MaxSecrets /\ minted' = new /\ cred' = Minted(q.of, new, 0)
           /\ connection' = [connection EXCEPT ![c].at = "reply", ![c].pending = new]
  <2>1. r.at = "reply" /\ connection' = [connection EXCEPT ![c] = r]
    BY <1>1, <1>3 DEF Connection
  <2>2. r.at \notin Claiming
    BY <2>1 DEF Claiming
  <2> HIDE DEF r
  <2>3. Quietly
    BY <1>1, <2>1, <2>2, OneQuiet
  <2> QED
    BY <1>1, <1>3, <2>3, QuietMint
<1> QED
  BY <1>2, <1>3 DEF Relink

LEMMA UseReply == \A c \in Conns : UInv /\ Reply(c) => Uses'
<1> SUFFICES ASSUME NEW c \in Conns, UInv, Reply(c) PROVE Uses'
  OBVIOUS
<1> DEFINE q == connection[c]
           left == IF q.note # NoSecret THEN q.pending ELSE NoSecret
           r == [q EXCEPT !.at = "idle", !.secret = NoSecret, !.old = 0, !.consumed = 0,
                          !.note = NoSecret, !.answer = "none", !.pending = left]
<1>1. /\ LiveConn(c) /\ ~ Claims(c) /\ UNCHANGED <<cred, made, minted, ghosts>>
      /\ q \in Connection /\ connection' = [connection EXCEPT ![c] = r]
  BY OneConnection DEF Reply, Here, Claims, Claiming, UInv
<1> HIDE DEF left
<1>2. r.at = "idle"
  BY <1>1 DEF Connection
<1>3. r.at \notin Claiming
  BY <1>2 DEF Claiming
<1> HIDE DEF r
<1>4. Quietly
  BY <1>1, <1>3, OneQuiet
<1> QED
  BY <1>1, <1>4, StillStep

LEMMA UseStutter == UInv /\ UNCHANGED resumeVars => Uses'
<1> SUFFICES ASSUME UInv, UNCHANGED resumeVars PROVE Uses'
  OBVIOUS
<1>1. UNCHANGED <<connection, cred, made, minted, ghosts>>
  BY DEF resumeVars
<1>2. Quietly
  <2>1. \A d \in Conns : /\ LiveConn(d)' <=> LiveConn(d)
                         /\ Claims(d)' <=> Claims(d)
                         /\ Firmly(d)' <=> Firmly(d)
    BY <1>1 DEF LiveConn, Claims, Firmly
  <2> QED
    BY <1>1, <2>1 DEF Quietly, Holding, NoNewClaims, NumberedNext, UInv, Uses, Numbered
<1> QED
  BY <1>1, <1>2, StillStep

LEMMA InitUses == ResumeInit => Uses
<1> SUFFICES ASSUME ResumeInit PROVE Uses
  OBVIOUS
<1>1. \A c \in Conns : ~ LiveConn(c)
  BY DEF ResumeInit, LiveConn, NoConnection
<1>2. Numbered /\ KnowsConsumed
  BY <1>1 DEF Numbered, KnowsConsumed, Firmly
<1>3. \A s \in Secrets : ~ Exists(s) /\ cred[s].state = "none" /\ heir[s] = 0
  BY DEF ResumeInit, Exists, NoCredential, NoSecret
<1>4. Generations /\ ConsumedForSuccessor
  <2>1. Drawn
    BY <1>3, ResumeAssumption DEF ResumeInit, Drawn, NoSecret
  <2> QED
    BY <1>3, <2>1 DEF Generations, OneEach, NewestServes, HeirsNewer, ConsumedForSuccessor
<1> QED
  BY <1>2, <1>4 DEF Uses

LEMMA UsesKept == UInv /\ [ResumeNext]_resumeVars => UInv'
<1> SUFFICES ASSUME UInv, [ResumeNext]_resumeVars PROVE UInv'
  OBVIOUS
<1>1. IInv'
  BY Preserved DEF UInv
<1>2. Uses'
  <2>1. CASE UNCHANGED resumeVars
    BY <2>1, UseStutter
  <2>2. CASE DaemonDies
    BY <2>2, UseDaemonDies
  <2>3. ASSUME NEW p \in Procs, Initialize(p) \/ Exit(p) PROVE Uses'
    BY <2>3, UseInitialize, UseEnding
  <2>4. ASSUME NEW p \in Procs, NEW c \in Conns,
               SessionStart(p, c) \/ BreakOff(p, c) \/ MovesOn(p, c)
        PROVE  Uses'
    BY <2>4, UseSessionStart, UseEnding, UseMovesOn
  <2>5. ASSUME NEW c \in Conns,
               \/ Converge(c) \/ Disclose(c) \/ Lookup(c) \/ ClaimIt(c) \/ Lost(c) \/ Adopt(c)
               \/ Persist(c) \/ Issue(c) \/ ReleaseClaim(c) \/ Relink(c) \/ Reply(c) \/ Detach(c)
        PROVE  Uses'
    BY <2>5, UseConverge, UseDisclose, UseLookup, UseClaimIt, UseLost, UseAdopt,
       UsePersist, UseIssue, UseReleaseClaim, UseRelink, UseReply, UseEnding
  <2> QED
    BY <2>1, <2>2, <2>3, <2>4, <2>5 DEF ResumeNext
<1> QED
  BY <1>1, <1>2 DEF UInv

\* A credential is used up only for a newer one, of its own row or issued to its
\* claimant, but for what `cut' names (ClaimResumeCredential, mintLocked,
\* IssueResumeSuccessor, ReleaseResumeCredential, pruneCredentialsLocked).
THEOREM UsedForASuccessor == ResumeSpec => []ConsumedForSuccessor
<1>1. ResumeInit => UInv
  BY InitInv, InitUses DEF UInv
<1>2. UInv => ConsumedForSuccessor
  BY DEF UInv, Uses
<1> QED
  BY <1>1, <1>2, UsesKept, PTL DEF ResumeSpec

=============================================================================
