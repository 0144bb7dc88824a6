--------------------------- MODULE RpcConn_proofs ---------------------------
(* Theorems about RpcConn, for any number of calls, notifications and         *)
(* requests of the server, and at the end about the types of both links of a  *)
(* session.                                                                  *)
EXTENDS MCLinks, ResumeCredentials_proofs, SequenceTheorems, TLAPS

\* What was handed to the handler and what waits for it.
Read == delivered \o notifyQ

\* How far a call is, and what became of its frames.
CallPhase ==
    \A c \in Callers :
        /\ callAt[c] = "idle" => wire[Request(c)] = "no"
        /\ callAt[c] \in {"idle", "send", "wait"} => wire[CancelOf(c)] = "no"
        /\ callAt[c] = "wait" => wire[Request(c)] = "written"
        /\ callAt[c] # "done" => outcome[c] = "none"

\* Notifications are numbered as they begin, and acknowledged when written.
NotePhase ==
    /\ noteAt = "send" => noteNo \in 1..MaxNotes
    /\ \A n \in 1..MaxNotes : wire[Note(n)] # "no" => n =< noteNo
    /\ \A n \in acked : wire[Note(n)] = "written"
    /\ \A i \in 1..Len(noteWire) : noteWire[i] =< noteNo

\* The notifications on their way to readLoop are the later ones, in order.
OnTheWay ==
    /\ Len(Read) =< diagNo
    /\ \A i \in 1..Len(inbound) :
          inbound[i][1] = "diag" => Len(Read) < inbound[i][2] /\ inbound[i][2] =< diagNo
    /\ \A i, j \in 1..Len(inbound) :
          i < j /\ inbound[i][1] = "diag" /\ inbound[j][1] = "diag"
             => inbound[i][2] < inbound[j][2]

RpcInv == /\ RpcTypeOK /\ CallPhase /\ NotePhase /\ OnTheWay
        /\ CancelFollowsRequest /\ AckedInOrder /\ DeliveredInOrder

-----------------------------------------------------------------------------
(* Frames.                                                                   *)

LEMMA FramesDiffer ==
    /\ \A c, d \in Callers : (Request(c) = Request(d) => c = d) /\ Request(c) # CancelOf(d)
    /\ \A c, d \in Callers : CancelOf(c) = CancelOf(d) => c = d
    /\ \A c \in Callers, n \in 1..MaxNotes : Request(c) # Note(n) /\ CancelOf(c) # Note(n)
    /\ \A c \in Callers, q \in Asks : Request(c) # Response(q) /\ CancelOf(c) # Response(q)
    /\ \A n \in 1..MaxNotes, q \in Asks : Note(n) # Response(q)
    /\ \A n, m \in 1..MaxNotes : Note(n) = Note(m) => n = m
BY DEF Request, CancelOf, Note, Response

LEMMA FramesAre ==
    /\ \A c \in Callers : Request(c) \in Frames /\ CancelOf(c) \in Frames
    /\ \A n \in 1..MaxNotes : Note(n) \in Frames
    /\ \A q \in Asks : Response(q) \in Frames
BY DEF Frames

LEMMA FrameOfNote ==
    ASSUME NEW f \in Frames, f[1] = "note"
    PROVE  f[2] \in 1..MaxNotes /\ f = Note(f[2])
BY DEF Frames, Request, CancelOf, Note, Response

-----------------------------------------------------------------------------
(* Types.                                                                    *)

\* Every variable keeps its type.
LEMMA NextType == RpcInv /\ [RpcNext]_rpcVars => RpcTypeOK'
<1> SUFFICES ASSUME RpcInv, [RpcNext]_rpcVars PROVE RpcTypeOK'
  OBVIOUS
<1> USE RpcAssumption DEF RpcTypeOK
<1>0. RpcTypeOK /\ NotePhase
  BY DEF RpcInv
<1>1. ASSUME NEW f \in Frames, WriteBegin(f) PROVE RpcTypeOK'
  BY <1>0, <1>1 DEF WriteBegin, callVars, noteVars, peerVars, readVars
<1>2. ASSUME NEW f \in Frames, WriteEnd(f) PROVE RpcTypeOK'
  <2>1. f[1] = "note" => Append(noteWire, f[2]) \in Seq(1..MaxNotes)
    BY <1>0, FrameOfNote
  <2>2. noteWire' \in Seq(1..MaxNotes)
    BY <1>0, <1>2, <2>1 DEF WriteEnd
  <2>a. \E x \in {"written", "failed"} : wire' = [wire EXCEPT ![f] = x]
    BY <1>2 DEF WriteEnd
  <2>3. wire' \in [Frames -> {"no", "queued", "writing", "written", "failed"}]
    BY <1>0, <2>a
  <2>4. UNCHANGED <<closed, callVars, noteVars, peerVars, readVars>>
    BY <1>2 DEF WriteEnd
  <2> QED
    BY <1>0, <2>2, <2>3, <2>4 DEF callVars, noteVars, peerVars, readVars
<1>3. ASSUME NEW c \in Callers, CallBegin(c) PROVE RpcTypeOK'
  <2>1. /\ wire' \in [Frames -> {"no", "queued", "writing", "written", "failed"}]
        /\ callAt' \in [Callers -> {"idle", "send", "wait", "cancel", "done"}]
    BY <1>0, <1>3, FramesAre DEF CallBegin, Return, Sends
  <2>2. outcome' \in [Callers -> {"none", "ok", "ctx", "error"}] /\ waiting' \in SUBSET Callers
    BY <1>0, <1>3 DEF CallBegin, Return
  <2>3. UNCHANGED <<closed, noteWire, ctxEnded, noteVars, peerVars, readVars>>
    BY <1>3 DEF CallBegin
  <2> QED
    BY <1>0, <2>1, <2>2, <2>3 DEF noteVars, peerVars, readVars
<1>4. ASSUME NEW c \in Callers, CallSent(c) PROVE RpcTypeOK'
  BY <1>0, <1>4 DEF CallSent, Return, CallGoes, GivesUp, noteVars, peerVars, readVars
<1>5. ASSUME NEW c \in Callers, CallReturns(c) PROVE RpcTypeOK'
  <2>1. /\ wire' \in [Frames -> {"no", "queued", "writing", "written", "failed"}]
        /\ callAt' \in [Callers -> {"idle", "send", "wait", "cancel", "done"}]
    BY <1>0, <1>5, FramesAre DEF CallReturns, Return, CallGoes, Sends
  <2>2. outcome' \in [Callers -> {"none", "ok", "ctx", "error"}] /\ waiting' \in SUBSET Callers
    BY <1>0, <1>5 DEF CallReturns, Return, CallGoes
  <2>3. UNCHANGED <<closed, noteWire, ctxEnded, noteVars, peerVars, readVars>>
    BY <1>5 DEF CallReturns
  <2> QED
    BY <1>0, <2>1, <2>2, <2>3 DEF noteVars, peerVars, readVars
<1>6. ASSUME NEW c \in Callers, CallCancelled(c) PROVE RpcTypeOK'
  BY <1>0, <1>6 DEF CallCancelled, Return, GivesUp, noteVars, peerVars, readVars
<1>7. ASSUME NEW c \in Callers, CtxEnds(c) PROVE RpcTypeOK'
  BY <1>0, <1>7 DEF CtxEnds, noteVars, peerVars, readVars
<1>8. CASE NotifyBegin
  BY <1>0, <1>8, FramesAre DEF NotifyBegin, Sends, callVars, peerVars, readVars
<1>9. CASE NotifyEnd
  BY <1>0, <1>9 DEF NotifyEnd, NotePhase, GivesUp, callVars, peerVars, readVars
<1>10. CASE ReadReply
  <2>1. inbound' \in Seq(Incoming)
    BY <1>0, <1>10 DEF ReadReply, Head1
  <2>2. reply' \in [Callers -> {"none", "reply", "ask"}]
    BY <1>0, <1>10 DEF ReadReply, ToCaller
  <2> QED
    BY <1>0, <1>10, <2>1, <2>2 DEF ReadReply, callVars, noteVars, peerVars
<1>11. CASE ReadDiag
  <2>1. inbound # <<>> /\ inbound' = Tail(inbound) /\ Head(inbound)[1] = "diag"
    BY <1>11 DEF ReadDiag, Head1
  <2>2. Head(inbound) \in Incoming
    BY <1>0, <2>1
  <2>3. Head(inbound)[2] \in 1..MaxDiags
    BY <2>1, <2>2 DEF Incoming
  <2>4. notifyQ' \in Seq(1..MaxDiags) /\ Len(notifyQ') =< NotifyQueue
    BY <1>0, <1>11, <2>3 DEF ReadDiag
  <2>5. inbound' \in Seq(Incoming)
    BY <1>0, <2>1
  <2> QED
    BY <1>0, <1>11, <2>4, <2>5 DEF ReadDiag, callVars, noteVars, peerVars
<1>12. CASE ReadAsk
  <2>1. inbound # <<>> /\ inbound' = Tail(inbound) /\ Head(inbound)[1] = "ask"
    BY <1>12 DEF ReadAsk, Head1
  <2>2. Head(inbound) \in Incoming
    BY <1>0, <2>1
  <2>3. Head(inbound)[2] \in Asks
    BY <2>1, <2>2 DEF Incoming
  <2>4. inbound' \in Seq(Incoming)
    BY <1>0, <2>1
  <2>5. reply' \in [Callers -> {"none", "reply", "ask"}]
    BY <1>0, <1>12 DEF ReadAsk, ToCaller
  <2>6. wire' \in [Frames -> {"no", "queued", "writing", "written", "failed"}]
    BY <1>0, <1>12, <2>3, FramesAre DEF ReadAsk, Sends
  <2> QED
    BY <1>0, <1>12, <2>4, <2>5, <2>6 DEF ReadAsk, callVars, noteVars, peerVars
<1>13. CASE ReadEof
  BY <1>0, <1>13 DEF ReadEof, callVars, noteVars, peerVars, readVars
<1>14. CASE Deliver
  <2>1. notifyQ # <<>> /\ notifyQ' = Tail(notifyQ)
    BY <1>14 DEF Deliver
  <2>2. /\ notifyQ' \in Seq(1..MaxDiags) /\ Len(notifyQ') = Len(notifyQ) - 1
        /\ Head(notifyQ) \in 1..MaxDiags
    BY <1>0, <2>1
  <2>3. Len(notifyQ') =< NotifyQueue
    BY <1>0, <2>2
  <2>4. delivered' \in Seq(1..MaxDiags)
    BY <1>0, <1>14, <2>2 DEF Deliver
  <2> QED
    BY <1>0, <1>14, <2>2, <2>3, <2>4 DEF Deliver, callVars, noteVars, peerVars
<1>15. CASE Close
  BY <1>0, <1>15 DEF Close, callVars, noteVars, peerVars, readVars
<1>16. ASSUME NEW c \in Callers, ServerReplies(c) PROVE RpcTypeOK'
  <2>1. inbound' \in Seq(Incoming)
    BY <1>0, <1>16 DEF ServerReplies, ServerSends, Incoming
  <2> QED
    BY <1>0, <1>16, <2>1 DEF ServerReplies, ServerSends, callVars, noteVars
<1>17. CASE ServerNotifies
  <2>1. diagNo + 1 \in 1..MaxDiags
    BY <1>0, <1>17 DEF ServerNotifies
  <2>2. <<"diag", diagNo + 1>> \in Incoming
    BY <2>1 DEF Incoming
  <2>3. inbound' \in Seq(Incoming)
    BY <1>0, <1>17, <2>2 DEF ServerNotifies, ServerSends
  <2> QED
    BY <1>0, <1>17, <2>1, <2>3 DEF ServerNotifies, ServerSends, callVars, noteVars
<1>18. ASSUME NEW q \in Asks, ServerAsks(q) PROVE RpcTypeOK'
  <2>1. inbound' \in Seq(Incoming)
    BY <1>0, <1>18 DEF ServerAsks, ServerSends, Incoming
  <2> QED
    BY <1>0, <1>18, <2>1 DEF ServerAsks, ServerSends, callVars, noteVars
<1>19. ASSUME NEW q \in Asks, ResponseStalls(q) PROVE RpcTypeOK'
  BY <1>0, <1>19 DEF ResponseStalls, callVars, noteVars, peerVars, readVars
<1>20. CASE ServerExits
  BY <1>0, <1>20 DEF ServerExits, callVars, noteVars, readVars
<1>21. CASE UNCHANGED rpcVars
  BY <1>0, <1>21 DEF rpcVars, callVars, noteVars, peerVars, readVars
<1> QED
  BY <1>1, <1>2, <1>3, <1>4, <1>5, <1>6, <1>7, <1>8, <1>9, <1>10, <1>11, <1>12, <1>13,
     <1>14, <1>15, <1>16, <1>17, <1>18, <1>19, <1>20, <1>21 DEF RpcNext, ReadOne

-----------------------------------------------------------------------------
(* Calls and their cancellation.                                             *)

\* What nothing but its own sender may do to the frames of a call.
FramesOfCallsKept ==
    \A c \in Callers : \A f \in {Request(c), CancelOf(c)} :
        /\ wire'[f] = "no" <=> wire[f] = "no"
        /\ wire[f] \in {"written", "failed"} => wire'[f] = wire[f]

LEMMA CallsKept ==
    ASSUME RpcInv, FramesOfCallsKept, UNCHANGED <<callAt, outcome>>, closed => closed'
    PROVE  CallPhase' /\ CancelFollowsRequest'
BY DEF RpcInv, FramesOfCallsKept, CallPhase, CancelFollowsRequest

LEMMA SendsOther ==
    ASSUME RpcInv, NEW f \in Frames, Sends(f),
           \A c \in Callers : f # Request(c) /\ f # CancelOf(c)
    PROVE  FramesOfCallsKept
BY DEF RpcInv, RpcTypeOK, Sends, FramesOfCallsKept

\* A call sends its cancellation once its request is written, and no frame that
\* was written is sent again.
LEMMA NextCall == RpcInv /\ [RpcNext]_rpcVars => CallPhase' /\ CancelFollowsRequest'
<1> SUFFICES ASSUME RpcInv, [RpcNext]_rpcVars PROVE CallPhase' /\ CancelFollowsRequest'
  OBVIOUS
<1>0. RpcTypeOK /\ CallPhase /\ CancelFollowsRequest
  BY DEF RpcInv
<1>a. ASSUME UNCHANGED wire PROVE FramesOfCallsKept
  BY <1>a DEF FramesOfCallsKept
<1>1. ASSUME NEW f \in Frames, WriteBegin(f) PROVE CallPhase' /\ CancelFollowsRequest'
  <2>1. wire[f] = "queued" /\ wire' = [wire EXCEPT ![f] = "writing"]
    BY <1>1 DEF WriteBegin
  <2>2. FramesOfCallsKept
    BY <1>0, <2>1, FramesAre DEF FramesOfCallsKept, RpcTypeOK
  <2>3. UNCHANGED <<callAt, outcome, closed>>
    BY <1>1 DEF WriteBegin, callVars
  <2> QED
    BY <2>2, <2>3, CallsKept
<1>2. ASSUME NEW f \in Frames, WriteEnd(f) PROVE CallPhase' /\ CancelFollowsRequest'
  <2>1. wire[f] = "writing" /\ \E x \in {"written", "failed"} : wire' = [wire EXCEPT ![f] = x]
    BY <1>2 DEF WriteEnd
  <2>2. FramesOfCallsKept
    BY <1>0, <2>1, FramesAre DEF FramesOfCallsKept, RpcTypeOK
  <2>3. UNCHANGED <<callAt, outcome, closed>>
    BY <1>2 DEF WriteEnd, callVars
  <2> QED
    BY <2>2, <2>3, CallsKept
<1>3. ASSUME NEW c \in Callers, CallBegin(c) PROVE CallPhase' /\ CancelFollowsRequest'
  <2>1. callAt[c] = "idle" /\ wire[Request(c)] = "no" /\ wire[CancelOf(c)] = "no"
    BY <1>0, <1>3 DEF CallBegin, CallPhase
  <2>2. /\ \A d \in Callers : wire'[CancelOf(d)] = wire[CancelOf(d)]
        /\ \A d \in Callers : d # c => wire'[Request(d)] = wire[Request(d)]
    BY <1>0, <1>3, FramesAre, FramesDiffer DEF CallBegin, Sends, RpcTypeOK
  <2>3. \A d \in Callers : d # c => callAt'[d] = callAt[d] /\ outcome'[d] = outcome[d]
    BY <1>0, <1>3 DEF CallBegin, Return, RpcTypeOK
  <2>4. \/ callAt'[c] = "done" /\ wire'[Request(c)] = "no"
        \/ callAt'[c] = "send" /\ outcome'[c] = outcome[c]
    BY <1>0, <1>3, <2>1 DEF CallBegin, Return, RpcTypeOK
  <2>5. outcome[c] = "none" /\ UNCHANGED closed
    BY <1>0, <1>3, <2>1 DEF CallBegin, CallPhase
  <2>6. CallPhase'
    BY <1>0, <2>1, <2>2, <2>3, <2>4, <2>5 DEF CallPhase
  <2>7. CancelFollowsRequest'
    BY <1>0, <2>1, <2>2, <2>3, <2>4, <2>5 DEF CancelFollowsRequest
  <2> QED
    BY <2>6, <2>7
<1>4. ASSUME NEW c \in Callers, CallSent(c) PROVE CallPhase' /\ CancelFollowsRequest'
  <2>1. callAt[c] = "send" /\ wire[CancelOf(c)] = "no" /\ outcome[c] = "none"
    BY <1>0, <1>4 DEF CallSent, CallPhase
  <2>2. UNCHANGED wire /\ (closed => closed')
    BY <1>4 DEF CallSent, GivesUp
  <2>3. \A d \in Callers : d # c => callAt'[d] = callAt[d] /\ outcome'[d] = outcome[d]
    BY <1>0, <1>4 DEF CallSent, Return, CallGoes, RpcTypeOK
  <2>4. \/ callAt'[c] = "wait" /\ wire[Request(c)] = "written" /\ outcome'[c] = outcome[c]
        \/ callAt'[c] = "done" /\ outcome'[c] = "error"
    BY <1>0, <1>4 DEF CallSent, Return, CallGoes, RpcTypeOK
  <2>5. CallPhase'
    BY <1>0, <2>1, <2>2, <2>3, <2>4 DEF CallPhase
  <2>6. CancelFollowsRequest'
    BY <1>0, <2>1, <2>2, <2>3, <2>4 DEF CancelFollowsRequest
  <2> QED
    BY <2>5, <2>6
<1>5. ASSUME NEW c \in Callers, CallReturns(c) PROVE CallPhase' /\ CancelFollowsRequest'
  <2>1. /\ callAt[c] = "wait" /\ wire[Request(c)] = "written" /\ wire[CancelOf(c)] = "no"
        /\ outcome[c] = "none"
    BY <1>0, <1>5 DEF CallReturns, CallPhase
  <2>2. /\ \A d \in Callers : wire'[Request(d)] = wire[Request(d)]
        /\ \A d \in Callers : d # c => wire'[CancelOf(d)] = wire[CancelOf(d)]
    BY <1>0, <1>5, FramesAre, FramesDiffer DEF CallReturns, Sends, RpcTypeOK
  <2>3. \A d \in Callers : d # c => callAt'[d] = callAt[d] /\ outcome'[d] = outcome[d]
    BY <1>0, <1>5 DEF CallReturns, Return, CallGoes, RpcTypeOK
  <2>4. \/ callAt'[c] = "done" /\ UNCHANGED wire /\ (outcome'[c] = "ctx" => closed)
        \/ callAt'[c] = "cancel" /\ outcome'[c] = outcome[c]
    BY <1>0, <1>5 DEF CallReturns, Return, CallGoes, RpcTypeOK
  <2>5. UNCHANGED closed
    BY <1>5 DEF CallReturns
  <2>6. CallPhase'
    BY <1>0, <2>1, <2>2, <2>3, <2>4 DEF CallPhase
  <2>7. CancelFollowsRequest'
    BY <1>0, <2>1, <2>2, <2>3, <2>4, <2>5 DEF CancelFollowsRequest
  <2> QED
    BY <2>6, <2>7
<1>6. ASSUME NEW c \in Callers, CallCancelled(c) PROVE CallPhase' /\ CancelFollowsRequest'
  <2>1. callAt'[c] = "done" /\ UNCHANGED wire /\ (closed => closed')
    BY <1>0, <1>6 DEF CallCancelled, Return, GivesUp, RpcTypeOK
  <2>2. closed' \/ wire[CancelOf(c)] \in {"written", "failed"}
    BY <1>6 DEF CallCancelled, GivesUp
  <2>3. \A d \in Callers : d # c => callAt'[d] = callAt[d] /\ outcome'[d] = outcome[d]
    BY <1>0, <1>6 DEF CallCancelled, Return, RpcTypeOK
  <2>4. CallPhase'
    BY <1>0, <2>1, <2>3 DEF CallPhase
  <2>5. CancelFollowsRequest'
    BY <1>0, <2>1, <2>2, <2>3 DEF CancelFollowsRequest
  <2> QED
    BY <2>4, <2>5
<1>7. ASSUME NEW c \in Callers, CtxEnds(c) PROVE CallPhase' /\ CancelFollowsRequest'
  BY <1>7, <1>a, CallsKept DEF CtxEnds
<1>8. ASSUME NotifyBegin PROVE CallPhase' /\ CancelFollowsRequest'
  <2>1. noteNo + 1 \in 1..MaxNotes /\ Sends(Note(noteNo + 1))
    BY <1>0, <1>8, RpcAssumption DEF NotifyBegin, RpcTypeOK
  <2>2. FramesOfCallsKept
    BY <2>1, SendsOther, FramesAre, FramesDiffer
  <2>3. UNCHANGED <<callAt, outcome, closed>>
    BY <1>8 DEF NotifyBegin, callVars
  <2> QED
    BY <2>2, <2>3, CallsKept
<1>9. ASSUME NotifyEnd PROVE CallPhase' /\ CancelFollowsRequest'
  <2>1. UNCHANGED <<wire, callAt, outcome>> /\ (closed => closed')
    BY <1>9 DEF NotifyEnd, GivesUp, callVars
  <2> QED
    BY <2>1, <1>a, CallsKept
<1>10. ASSUME ReadReply \/ ReadDiag \/ ReadEof \/ Deliver \/ Close
       PROVE  CallPhase' /\ CancelFollowsRequest'
  <2>1. UNCHANGED <<wire, callAt, outcome>> /\ (closed => closed')
    BY <1>10 DEF ReadReply, ReadDiag, ReadEof, Deliver, Close, callVars
  <2> QED
    BY <2>1, <1>a, CallsKept
<1>11. ASSUME ReadAsk PROVE CallPhase' /\ CancelFollowsRequest'
  <2>1. inbound # <<>> /\ Head(inbound)[1] = "ask"
    BY <1>11 DEF ReadAsk, Head1
  <2>2. Head(inbound) \in Incoming
    BY <1>0, <2>1 DEF RpcTypeOK
  <2>3. Head(inbound)[2] \in Asks
    BY <2>1, <2>2 DEF Incoming
  <2>4. UNCHANGED wire \/ Sends(Response(Head(inbound)[2]))
    BY <1>11 DEF ReadAsk
  <2>5. FramesOfCallsKept
    BY <1>a, <2>3, <2>4, SendsOther, FramesAre, FramesDiffer
  <2>6. UNCHANGED <<callAt, outcome, closed>>
    BY <1>11 DEF ReadAsk, callVars
  <2> QED
    BY <2>5, <2>6, CallsKept
<1>12. ASSUME NEW c \in Callers, ServerReplies(c) PROVE CallPhase' /\ CancelFollowsRequest'
  <2>1. UNCHANGED <<wire, callAt, outcome, closed>>
    BY <1>12 DEF ServerReplies, ServerSends, callVars
  <2> QED
    BY <2>1, <1>a, CallsKept
<1>13. ASSUME NEW q \in Asks, ServerAsks(q) \/ ResponseStalls(q)
       PROVE  CallPhase' /\ CancelFollowsRequest'
  <2>1. UNCHANGED <<wire, callAt, outcome>> /\ (closed => closed')
    BY <1>13 DEF ServerAsks, ResponseStalls, ServerSends, callVars
  <2> QED
    BY <2>1, <1>a, CallsKept
<1>14. ASSUME ServerNotifies \/ ServerExits \/ UNCHANGED rpcVars
       PROVE  CallPhase' /\ CancelFollowsRequest'
  <2>1. UNCHANGED <<wire, callAt, outcome, closed>>
    BY <1>14 DEF ServerNotifies, ServerExits, ServerSends, rpcVars, callVars
  <2> QED
    BY <2>1, <1>a, CallsKept
<1> QED
  BY <1>1, <1>2, <1>3, <1>4, <1>5, <1>6, <1>7, <1>8, <1>9, <1>10, <1>11, <1>12, <1>13,
     <1>14 DEF RpcNext, ReadOne

-----------------------------------------------------------------------------
(* Notifications to the server.                                              *)

\* A notification keeps what became of it unless it is being written.
NotesKept ==
    \A n \in 1..MaxNotes : wire'[Note(n)] = wire[Note(n)]

LEMMA NotesStay ==
    ASSUME RpcInv, NotesKept, UNCHANGED <<noteNo, noteAt, acked, noteWire>>
    PROVE  NotePhase' /\ AckedInOrder'
<1>1. acked \in SUBSET (1..MaxNotes)
  BY DEF RpcInv, RpcTypeOK
<1>2. NotePhase'
  BY <1>1 DEF RpcInv, NotesKept, NotePhase
<1> QED
  BY <1>2 DEF RpcInv, AckedInOrder

LEMMA SendsNoNote ==
    ASSUME RpcInv, NEW f \in Frames, Sends(f), \A n \in 1..MaxNotes : f # Note(n)
    PROVE  NotesKept
BY FramesAre DEF RpcInv, RpcTypeOK, Sends, NotesKept

\* Notify acknowledges what is written, and begins the next one after that.
LEMMA NextNote == RpcInv /\ [RpcNext]_rpcVars => NotePhase' /\ AckedInOrder'
<1> SUFFICES ASSUME RpcInv, [RpcNext]_rpcVars PROVE NotePhase' /\ AckedInOrder'
  OBVIOUS
<1>0. RpcTypeOK /\ NotePhase /\ AckedInOrder
  BY DEF RpcInv
<1>t. /\ noteWire \in Seq(1..MaxNotes) /\ noteNo \in 0..MaxNotes
      /\ acked \in SUBSET (1..MaxNotes) /\ MaxNotes \in Nat
  BY <1>0, RpcAssumption DEF RpcTypeOK
<1>a. UNCHANGED wire => NotesKept
  BY DEF NotesKept
<1>1. ASSUME NEW f \in Frames, WriteBegin(f) PROVE NotePhase' /\ AckedInOrder'
  <2>1. wire[f] = "queued" /\ wire' = [wire EXCEPT ![f] = "writing"]
    BY <1>1 DEF WriteBegin
  <2>2. \A n \in 1..MaxNotes : /\ wire'[Note(n)] # "no" => wire[Note(n)] # "no"
                               /\ wire[Note(n)] = "written" => wire'[Note(n)] = "written"
    BY <1>0, <2>1, FramesAre DEF RpcTypeOK
  <2>3. UNCHANGED <<noteNo, noteAt, acked, noteWire>>
    BY <1>1 DEF WriteBegin, noteVars
  <2>4. NotePhase'
    BY <1>0, <1>t, <2>2, <2>3 DEF NotePhase
  <2> QED
    BY <1>0, <2>3, <2>4 DEF AckedInOrder
<1>2. ASSUME NEW f \in Frames, WriteEnd(f) PROVE NotePhase' /\ AckedInOrder'
  <2>1. wire[f] = "writing" /\ \E x \in {"written", "failed"} : wire' = [wire EXCEPT ![f] = x]
    BY <1>2 DEF WriteEnd
  <2>2. \A n \in 1..MaxNotes : /\ wire'[Note(n)] # "no" => wire[Note(n)] # "no"
                               /\ wire[Note(n)] = "written" => wire'[Note(n)] = "written"
    BY <1>0, <2>1, FramesAre DEF RpcTypeOK
  <2>3. UNCHANGED <<noteNo, noteAt, acked>>
    BY <1>2 DEF WriteEnd, noteVars
  <2>4. CASE UNCHANGED noteWire
    <3>1. NotePhase'
      BY <1>0, <1>t, <2>2, <2>3, <2>4 DEF NotePhase
    <3> QED
      BY <1>0, <2>3, <2>4, <3>1 DEF AckedInOrder
  <2>5. CASE f[1] = "note" /\ noteWire' = Append(noteWire, f[2])
    <3>1. PICK n \in 1..MaxNotes : f = Note(n) /\ n = f[2]
      BY <2>5, FrameOfNote
    <3>2. n =< noteNo /\ n \notin acked
      BY <1>0, <2>1, <3>1 DEF NotePhase
    <3>3. /\ Len(noteWire') = Len(noteWire) + 1 /\ noteWire'[Len(noteWire) + 1] = n
          /\ \A i \in 1..Len(noteWire) : noteWire'[i] = noteWire[i]
      BY <1>t, <2>5, <3>1, AppendProperties
    <3>4. \A i \in 1..Len(noteWire') : i \in 1..Len(noteWire) \/ i = Len(noteWire) + 1
      BY <1>t, <3>3, LenProperties
    <3>5. NotePhase'
      BY <1>0, <1>t, <2>2, <2>3, <3>2, <3>3, <3>4 DEF NotePhase
    <3>6. ASSUME NEW i \in 1..Len(noteWire'), NEW j \in 1..Len(noteWire'),
                 i < j, noteWire'[j] < noteWire'[i]
          PROVE  noteWire'[j] \notin acked'
      <4>1. CASE j = Len(noteWire) + 1
        BY <2>3, <3>2, <3>3, <4>1
      <4>2. CASE j \in 1..Len(noteWire)
        <5>1. i \in 1..Len(noteWire)
          BY <1>t, <3>4, <3>6, <4>2, LenProperties
        <5> QED
          BY <1>0, <2>3, <3>3, <3>6, <4>2, <5>1 DEF AckedInOrder
      <4> QED
        BY <3>4, <4>1, <4>2
    <3> QED
      BY <3>5, <3>6 DEF AckedInOrder
  <2> QED
    BY <1>2, <2>4, <2>5 DEF WriteEnd
<1>3. ASSUME NEW c \in Callers,
             CallBegin(c) \/ CallSent(c) \/ CallReturns(c) \/ CallCancelled(c) \/ CtxEnds(c)
      PROVE  NotePhase' /\ AckedInOrder'
  <2>1. UNCHANGED <<noteNo, noteAt, acked, noteWire>>
    BY <1>3 DEF CallBegin, CallSent, CallReturns, CallCancelled, CtxEnds, noteVars
  <2>2. UNCHANGED wire \/ Sends(Request(c)) \/ Sends(CancelOf(c))
    BY <1>3 DEF CallBegin, CallSent, CallReturns, CallCancelled, CtxEnds
  <2>3. NotesKept
    BY <1>a, <2>2, SendsNoNote, FramesAre, FramesDiffer
  <2> QED
    BY <2>1, <2>3, NotesStay
<1>4. ASSUME NotifyBegin PROVE NotePhase' /\ AckedInOrder'
  <2>1. /\ noteAt = "idle" /\ noteNo + 1 \in 1..MaxNotes
        /\ noteNo' = noteNo + 1 /\ noteAt' = "send" /\ Sends(Note(noteNo + 1))
        /\ UNCHANGED <<acked, noteWire>>
    BY <1>4, <1>t DEF NotifyBegin
  <2>2. \A n \in 1..MaxNotes : n # noteNo + 1 => wire'[Note(n)] = wire[Note(n)]
    BY <1>0, <2>1, FramesAre, FramesDiffer DEF Sends, RpcTypeOK
  <2>3. noteNo + 1 \notin acked
    BY <1>0, <1>t, <2>1 DEF NotePhase
  <2>4. \A n \in 1..MaxNotes : wire'[Note(n)] # "no" => n =< noteNo'
    BY <1>0, <1>t, <2>1, <2>2 DEF NotePhase
  <2>5. \A n \in acked' : wire'[Note(n)] = "written"
    BY <1>0, <1>t, <2>1, <2>2, <2>3 DEF NotePhase
  <2>6. \A i \in 1..Len(noteWire') : noteWire'[i] =< noteNo'
    BY <1>0, <1>t, <2>1 DEF NotePhase
  <2>7. AckedInOrder'
    BY <1>0, <2>1 DEF AckedInOrder
  <2> QED
    BY <2>1, <2>4, <2>5, <2>6, <2>7 DEF NotePhase
<1>5. ASSUME NotifyEnd PROVE NotePhase' /\ AckedInOrder'
  <2>1. noteAt = "send" /\ noteAt' = "idle" /\ UNCHANGED <<noteNo, wire, noteWire>>
    BY <1>5 DEF NotifyEnd
  <2>2. \/ UNCHANGED acked
        \/ wire[Note(noteNo)] = "written" /\ acked' = acked \cup {noteNo}
    BY <1>5 DEF NotifyEnd
  <2>3. NotePhase'
    BY <1>0, <1>t, <2>1, <2>2 DEF NotePhase
  <2>4. ASSUME NEW i \in 1..Len(noteWire), NEW j \in 1..Len(noteWire),
               i < j, noteWire[j] < noteWire[i]
        PROVE  noteWire[j] \notin acked'
    <3>1. noteWire[j] \notin acked
      BY <1>0, <2>4 DEF AckedInOrder
    <3>2. noteWire[i] =< noteNo /\ noteWire[i] \in Nat /\ noteWire[j] \in Nat
      BY <1>0, <1>t DEF NotePhase
    <3> QED
      BY <1>t, <2>2, <2>4, <3>1, <3>2
  <2> QED
    BY <2>1, <2>3, <2>4 DEF AckedInOrder
<1>6. ASSUME ReadReply \/ ReadDiag \/ ReadEof \/ Deliver \/ Close
      PROVE  NotePhase' /\ AckedInOrder'
  <2>1. UNCHANGED <<wire, noteNo, noteAt, acked, noteWire>>
    BY <1>6 DEF ReadReply, ReadDiag, ReadEof, Deliver, Close, noteVars
  <2> QED
    BY <2>1, <1>a, NotesStay
<1>7. ASSUME ReadAsk PROVE NotePhase' /\ AckedInOrder'
  <2>1. inbound # <<>> /\ Head(inbound)[1] = "ask"
    BY <1>7 DEF ReadAsk, Head1
  <2>2. Head(inbound) \in Incoming
    BY <1>0, <2>1 DEF RpcTypeOK
  <2>3. Head(inbound)[2] \in Asks
    BY <2>1, <2>2 DEF Incoming
  <2>4. UNCHANGED wire \/ Sends(Response(Head(inbound)[2]))
    BY <1>7 DEF ReadAsk
  <2>5. NotesKept
    BY <1>a, <2>3, <2>4, SendsNoNote, FramesAre, FramesDiffer
  <2>6. UNCHANGED <<noteNo, noteAt, acked, noteWire>>
    BY <1>7 DEF ReadAsk, noteVars
  <2> QED
    BY <2>5, <2>6, NotesStay
<1>8. ASSUME NEW c \in Callers, ServerReplies(c) PROVE NotePhase' /\ AckedInOrder'
  <2>1. UNCHANGED <<wire, noteNo, noteAt, acked, noteWire>>
    BY <1>8 DEF ServerReplies, ServerSends, noteVars
  <2> QED
    BY <2>1, <1>a, NotesStay
<1>9. ASSUME NEW q \in Asks, ServerAsks(q) \/ ResponseStalls(q)
      PROVE  NotePhase' /\ AckedInOrder'
  <2>1. UNCHANGED <<wire, noteNo, noteAt, acked, noteWire>>
    BY <1>9 DEF ServerAsks, ResponseStalls, ServerSends, noteVars
  <2> QED
    BY <2>1, <1>a, NotesStay
<1>10. ASSUME ServerNotifies \/ ServerExits \/ UNCHANGED rpcVars
       PROVE  NotePhase' /\ AckedInOrder'
  <2>1. UNCHANGED <<wire, noteNo, noteAt, acked, noteWire>>
    BY <1>10 DEF ServerNotifies, ServerExits, ServerSends, rpcVars, noteVars
  <2> QED
    BY <2>1, <1>a, NotesStay
<1> QED
  BY <1>1, <1>2, <1>3, <1>4, <1>5, <1>6, <1>7, <1>8, <1>9, <1>10 DEF RpcNext, ReadOne

-----------------------------------------------------------------------------
(* Notifications of the server.                                              *)

LEMMA IncomingTypes ==
    ASSUME RpcTypeOK
    PROVE  /\ \A i \in 1..Len(inbound) :
                 inbound[i][1] = "diag" =>
                    inbound[i][2] \in 1..MaxDiags /\ inbound[i] = <<"diag", inbound[i][2]>>
           /\ Read \in Seq(1..MaxDiags) /\ Len(Read) \in Nat /\ diagNo \in Nat
           /\ Len(inbound) \in Nat /\ MaxDiags \in Nat
<1>1. /\ inbound \in Seq(Incoming) /\ notifyQ \in Seq(1..MaxDiags)
      /\ delivered \in Seq(1..MaxDiags) /\ diagNo \in Nat /\ MaxDiags \in Nat
  BY RpcAssumption DEF RpcTypeOK
<1>2. Read \in Seq(1..MaxDiags)
  BY <1>1, ConcatProperties DEF Read
<1>3. Len(Read) \in Nat /\ Len(inbound) \in Nat
  BY <1>1, <1>2, LenProperties
<1>4. ASSUME NEW i \in 1..Len(inbound), inbound[i][1] = "diag"
      PROVE  inbound[i][2] \in 1..MaxDiags /\ inbound[i] = <<"diag", inbound[i][2]>>
  <2>1. inbound[i] \in Incoming
    BY <1>1, ElementOfSeq
  <2> QED
    BY <1>4, <2>1 DEF Incoming
<1> QED
  BY <1>1, <1>2, <1>3, <1>4

\* DeliveredInOrder, element by element.
EachInOrder ==
    /\ \A i \in 1..Len(Read) : Read[i] = i
    /\ \A n \in 1..diagNo :
          n =< Len(Read) \/ \E i \in 1..Len(inbound) : inbound[i] = <<"diag", n>>

LEMMA ReadInOrder == RpcTypeOK => (DeliveredInOrder <=> EachInOrder)
<1> SUFFICES ASSUME RpcTypeOK PROVE DeliveredInOrder <=> EachInOrder
  OBVIOUS
<1>1. Read \in Seq(1..MaxDiags)
  BY IncomingTypes
<1>2. Read = [i \in 1..Len(Read) |-> i] <=> \A i \in 1..Len(Read) : Read[i] = i
  <2>1. Read = [i \in 1..Len(Read) |-> Read[i]]
    BY <1>1, LenProperties
  <2> QED
    BY <2>1
<1> QED
  BY <1>2 DEF DeliveredInOrder, EachInOrder, Read

LEMMA NextInOrder == RpcTypeOK' => (DeliveredInOrder' <=> EachInOrder')
BY ReadInOrder, PTL

LEMMA NothingRead ==
    ASSUME RpcInv, UNCHANGED <<inbound, notifyQ, delivered, diagNo>>
    PROVE  OnTheWay' /\ DeliveredInOrder'
BY DEF RpcInv, OnTheWay, DeliveredInOrder, Read

\* A frame of another kind is taken from the head.
LEMMA OtherRead ==
    ASSUME RpcInv, RpcTypeOK', inbound # <<>>, Head(inbound)[1] # "diag",
           inbound' = Tail(inbound), UNCHANGED <<notifyQ, delivered, diagNo>>
    PROVE  OnTheWay' /\ DeliveredInOrder'
<1>0. RpcTypeOK /\ OnTheWay /\ DeliveredInOrder
  BY DEF RpcInv
<1>1. inbound \in Seq(Incoming)
  BY <1>0 DEF RpcTypeOK
<1>2. /\ Len(inbound) \in Nat /\ Len(inbound') = Len(inbound) - 1 /\ Head(inbound) = inbound[1]
      /\ \A i \in 1..Len(inbound') : i + 1 \in 1..Len(inbound) /\ inbound'[i] = inbound[i + 1]
  BY <1>1, HeadTailProperties, LenProperties
<1>3. Read' = Read
  BY DEF Read
<1>4. Len(Read) \in Nat
  BY <1>0, IncomingTypes
<1>5. OnTheWay'
  <2>1. ASSUME NEW i \in 1..Len(inbound'), inbound'[i][1] = "diag"
        PROVE  Len(Read') < inbound'[i][2] /\ inbound'[i][2] =< diagNo'
    BY <1>0, <1>2, <1>3, <2>1 DEF OnTheWay
  <2>2. ASSUME NEW i \in 1..Len(inbound'), NEW j \in 1..Len(inbound'), i < j,
               inbound'[i][1] = "diag", inbound'[j][1] = "diag"
        PROVE  inbound'[i][2] < inbound'[j][2]
    <3>1. i + 1 < j + 1
      BY <1>2, <2>2
    <3> QED
      BY <1>0, <1>2, <2>2, <3>1 DEF OnTheWay
  <2> QED
    BY <1>0, <1>3, <2>1, <2>2 DEF OnTheWay
<1>6. ASSUME NEW n \in 1..diagNo', ~ n =< Len(Read')
      PROVE  \E i \in 1..Len(inbound') : inbound'[i] = <<"diag", n>>
  <2>1. PICK i \in 1..Len(inbound) : inbound[i] = <<"diag", n>>
    BY <1>0, <1>3, <1>6, ReadInOrder DEF EachInOrder
  <2>2. i # 1
    BY <1>2, <2>1
  <2>3. i - 1 \in 1..Len(inbound') /\ (i - 1) + 1 = i
    BY <1>2, <2>2
  <2> QED
    BY <1>2, <2>1, <2>3
<1>7. \A i \in 1..Len(Read') : Read'[i] = i
  BY <1>0, <1>3, ReadInOrder DEF EachInOrder
<1>8. DeliveredInOrder'
  BY <1>6, <1>7, NextInOrder DEF EachInOrder
<1> QED
  BY <1>5, <1>8

\* readLoop hands the next one to notifyLoop: it is the one that follows.
LEMMA DiagRead == RpcInv /\ RpcTypeOK' /\ ReadDiag => OnTheWay' /\ DeliveredInOrder'
<1> SUFFICES ASSUME RpcInv, RpcTypeOK', ReadDiag PROVE OnTheWay' /\ DeliveredInOrder'
  OBVIOUS
<1> DEFINE n == Head(inbound)[2]
<1>0. RpcTypeOK /\ OnTheWay /\ DeliveredInOrder
  BY DEF RpcInv
<1>1. /\ inbound # <<>> /\ Head(inbound)[1] = "diag" /\ inbound' = Tail(inbound)
      /\ notifyQ' = Append(notifyQ, n) /\ UNCHANGED <<delivered, diagNo>>
  BY DEF ReadDiag, Head1, peerVars
<1>2. /\ inbound \in Seq(Incoming) /\ notifyQ \in Seq(1..MaxDiags)
      /\ delivered \in Seq(1..MaxDiags)
  BY <1>0 DEF RpcTypeOK
<1>3. /\ Len(inbound) \in Nat \ {0} /\ Len(inbound') = Len(inbound) - 1
      /\ Head(inbound) = inbound[1]
      /\ \A i \in 1..Len(inbound') : i + 1 \in 1..Len(inbound) /\ inbound'[i] = inbound[i + 1]
  BY <1>1, <1>2, HeadTailProperties, LenProperties
<1>t. /\ Read \in Seq(1..MaxDiags) /\ Len(Read) \in Nat /\ diagNo \in Nat /\ n \in 1..MaxDiags
      /\ inbound[1] = <<"diag", n>>
  BY <1>0, <1>1, <1>3, IncomingTypes
<1>4. Len(Read) < n /\ n =< diagNo
  BY <1>0, <1>1, <1>3 DEF OnTheWay
<1>5. n = Len(Read) + 1
  <2>1. CASE n > Len(Read) + 1
    <3>1. Len(Read) + 1 \in 1..diagNo /\ ~ Len(Read) + 1 =< Len(Read)
      BY <1>t, <1>4, <2>1
    <3>2. PICK i \in 1..Len(inbound) : inbound[i] = <<"diag", Len(Read) + 1>>
      BY <1>0, <3>1, ReadInOrder DEF EachInOrder
    <3>3. i # 1
      BY <1>t, <2>1, <3>2
    <3>4. 1 < i /\ 1 \in 1..Len(inbound)
      BY <1>3, <3>3
    <3>5. inbound[1][2] < inbound[i][2]
      BY <1>0, <1>t, <3>2, <3>4 DEF OnTheWay
    <3> QED
      BY <1>t, <2>1, <3>2, <3>5
  <2> QED
    BY <1>t, <1>4, <2>1
<1> HIDE DEF n
<1>6. Read' = Append(Read, n)
  <2>1. Append(notifyQ, n) = notifyQ \o <<n>> /\ Append(Read, n) = Read \o <<n>>
    BY <1>2, <1>t, AppendIsConcat
  <2>2. <<n>> \in Seq(1..MaxDiags)
    BY <1>t
  <2>3. delivered \o (notifyQ \o <<n>>) = (delivered \o notifyQ) \o <<n>>
    BY <1>2, <2>2, ConcatAssociative
  <2> QED
    BY <1>1, <2>1, <2>3 DEF Read
<1>7. /\ Len(Read') = n
      /\ \A i \in 1..Len(Read) : Read'[i] = Read[i]
      /\ Read'[n] = n
  BY <1>t, <1>5, <1>6, AppendProperties
<1>8. ASSUME NEW i \in 1..Len(Read') PROVE Read'[i] = i
  <2>1. CASE i = n
    BY <1>7, <2>1
  <2>2. CASE i # n
    <3>1. i \in 1..Len(Read)
      BY <1>t, <1>5, <1>7, <2>2
    <3> QED
      BY <1>0, <1>7, <3>1, ReadInOrder DEF EachInOrder
  <2> QED
    BY <2>1, <2>2
<1>9. ASSUME NEW m \in 1..diagNo', ~ m =< Len(Read')
      PROVE  \E i \in 1..Len(inbound') : inbound'[i] = <<"diag", m>>
  <2>1. m \in 1..diagNo /\ ~ m =< Len(Read) /\ m # n
    BY <1>1, <1>t, <1>5, <1>7, <1>9
  <2>2. PICK i \in 1..Len(inbound) : inbound[i] = <<"diag", m>>
    BY <1>0, <2>1, ReadInOrder DEF EachInOrder
  <2>3. i # 1
    BY <1>t, <2>1, <2>2
  <2>4. i - 1 \in 1..Len(inbound') /\ (i - 1) + 1 = i
    BY <1>3, <2>3
  <2> QED
    BY <1>3, <2>2, <2>4
<1>10. DeliveredInOrder'
  BY <1>8, <1>9, NextInOrder DEF EachInOrder
<1>11. ASSUME NEW i \in 1..Len(inbound'), inbound'[i][1] = "diag"
       PROVE  Len(Read') < inbound'[i][2] /\ inbound'[i][2] =< diagNo'
  <2>1. i + 1 \in 1..Len(inbound) /\ inbound'[i] = inbound[i + 1] /\ 1 < i + 1
    BY <1>3
  <2>2. inbound[1][2] < inbound[i + 1][2] /\ inbound[i + 1][2] =< diagNo
    BY <1>0, <1>3, <1>t, <1>11, <2>1 DEF OnTheWay
  <2> QED
    BY <1>1, <1>7, <1>t, <2>1, <2>2
<1>12. ASSUME NEW i \in 1..Len(inbound'), NEW j \in 1..Len(inbound'), i < j,
              inbound'[i][1] = "diag", inbound'[j][1] = "diag"
       PROVE  inbound'[i][2] < inbound'[j][2]
  <2>1. i + 1 < j + 1
    BY <1>3, <1>12
  <2> QED
    BY <1>0, <1>3, <1>12, <2>1 DEF OnTheWay
<1>13. OnTheWay'
  BY <1>1, <1>4, <1>7, <1>11, <1>12 DEF OnTheWay
<1> QED
  BY <1>10, <1>13

\* notifyLoop takes the head of the queue.
LEMMA DiagDelivered == RpcInv /\ Deliver => OnTheWay' /\ DeliveredInOrder'
<1> SUFFICES ASSUME RpcInv, Deliver PROVE OnTheWay' /\ DeliveredInOrder'
  OBVIOUS
<1>1. /\ notifyQ # <<>> /\ delivered' = Append(delivered, Head(notifyQ))
      /\ notifyQ' = Tail(notifyQ) /\ UNCHANGED <<inbound, diagNo>>
  BY DEF Deliver, peerVars
<1>2. notifyQ \in Seq(1..MaxDiags) /\ delivered \in Seq(1..MaxDiags)
  BY DEF RpcInv, RpcTypeOK
<1>3. Read' = Read
  <2>1. /\ Head(notifyQ) \in 1..MaxDiags /\ Tail(notifyQ) \in Seq(1..MaxDiags)
    BY <1>1, <1>2, HeadTailProperties
  <2>a. <<Head(notifyQ)>> \in Seq(1..MaxDiags)
    BY <2>1
  <2>2. delivered' = delivered \o <<Head(notifyQ)>>
    BY <1>1, <1>2, <2>1, AppendIsConcat
  <2>3. (delivered \o <<Head(notifyQ)>>) \o Tail(notifyQ)
           = delivered \o (<<Head(notifyQ)>> \o Tail(notifyQ))
    BY <1>2, <2>1, <2>a, ConcatAssociative
  <2>4. <<Head(notifyQ)>> \o Tail(notifyQ) = notifyQ
    BY <1>1, <1>2
  <2> QED
    BY <1>1, <2>2, <2>3, <2>4 DEF Read
<1> QED
  BY <1>1, <1>3 DEF RpcInv, OnTheWay, DeliveredInOrder, Read

\* The server sends a frame of another kind.
LEMMA OtherSent ==
    ASSUME RpcInv, RpcTypeOK', NEW m \in Incoming, m[1] # "diag", ServerSends(m), UNCHANGED diagNo
    PROVE  OnTheWay' /\ DeliveredInOrder'
<1>0. RpcTypeOK /\ OnTheWay /\ DeliveredInOrder
  BY DEF RpcInv
<1>1. inbound' = Append(inbound, m) /\ UNCHANGED <<notifyQ, delivered>>
  BY DEF ServerSends
<1>2. inbound \in Seq(Incoming)
  BY <1>0 DEF RpcTypeOK
<1>3. /\ Len(inbound) \in Nat /\ Len(inbound') = Len(inbound) + 1
      /\ \A i \in 1..Len(inbound) : inbound'[i] = inbound[i]
      /\ inbound'[Len(inbound) + 1] = m
  BY <1>1, <1>2, AppendProperties, LenProperties
<1>4. Read' = Read
  BY <1>1 DEF Read
<1>5. \A i \in 1..Len(inbound') : inbound'[i][1] = "diag" => i \in 1..Len(inbound)
  BY <1>3
<1>6. OnTheWay'
  BY <1>0, <1>3, <1>4, <1>5 DEF OnTheWay
<1>7. ASSUME NEW n \in 1..diagNo', ~ n =< Len(Read')
      PROVE  \E i \in 1..Len(inbound') : inbound'[i] = <<"diag", n>>
  <2>1. PICK i \in 1..Len(inbound) : inbound[i] = <<"diag", n>>
    BY <1>0, <1>4, <1>7, ReadInOrder DEF EachInOrder
  <2> QED
    BY <1>3, <2>1
<1>8. \A i \in 1..Len(Read') : Read'[i] = i
  BY <1>0, <1>4, ReadInOrder DEF EachInOrder
<1> QED
  BY <1>6, <1>7, <1>8, NextInOrder DEF EachInOrder

\* The server sends the next notification, after all that are under way.
LEMMA DiagSent == RpcInv /\ RpcTypeOK' /\ ServerNotifies => OnTheWay' /\ DeliveredInOrder'
<1> SUFFICES ASSUME RpcInv, RpcTypeOK', ServerNotifies PROVE OnTheWay' /\ DeliveredInOrder'
  OBVIOUS
<1> DEFINE d == diagNo + 1
           m == <<"diag", d>>
<1>0. RpcTypeOK /\ OnTheWay /\ DeliveredInOrder
  BY DEF RpcInv
<1>1. inbound' = Append(inbound, m) /\ diagNo' = d /\ UNCHANGED <<notifyQ, delivered>>
  BY DEF ServerNotifies, ServerSends
<1>2. inbound \in Seq(Incoming) /\ diagNo \in Nat /\ Len(Read) \in Nat
  BY <1>0, IncomingTypes DEF RpcTypeOK
<1>a. m \in Incoming
  BY <1>0, RpcAssumption DEF ServerNotifies, RpcTypeOK, Incoming
<1>3. /\ Len(inbound) \in Nat /\ Len(inbound') = Len(inbound) + 1
      /\ \A i \in 1..Len(inbound) : inbound'[i] = inbound[i]
      /\ inbound'[Len(inbound) + 1] = m
  BY <1>1, <1>2, <1>a, AppendProperties, LenProperties
<1>4. Read' = Read
  BY <1>1 DEF Read
<1>5. \A i \in 1..Len(inbound') : i \in 1..Len(inbound) \/ i = Len(inbound) + 1
  BY <1>3
<1>6. m[1] = "diag" /\ m[2] = d /\ Len(Read) < d
  BY <1>0, <1>2 DEF OnTheWay
<1>b. \A i \in 1..Len(inbound) :
         inbound[i][1] = "diag" =>
            inbound[i][2] \in Nat /\ Len(Read) < inbound[i][2] /\ inbound[i][2] < d
  BY <1>0, <1>2, IncomingTypes DEF OnTheWay
<1> HIDE DEF m
<1>7. ASSUME NEW i \in 1..Len(inbound'), inbound'[i][1] = "diag"
      PROVE  Len(Read') < inbound'[i][2] /\ inbound'[i][2] =< diagNo'
  BY <1>1, <1>2, <1>3, <1>4, <1>5, <1>6, <1>7, <1>b
<1>8. ASSUME NEW i \in 1..Len(inbound'), NEW j \in 1..Len(inbound'), i < j,
             inbound'[i][1] = "diag", inbound'[j][1] = "diag"
      PROVE  inbound'[i][2] < inbound'[j][2]
  <2>1. i \in 1..Len(inbound)
    BY <1>3, <1>5, <1>8
  <2>2. CASE j \in 1..Len(inbound)
    BY <1>0, <1>3, <1>8, <2>1, <2>2 DEF OnTheWay
  <2>3. CASE j = Len(inbound) + 1
    BY <1>3, <1>6, <1>8, <1>b, <2>1, <2>3
  <2> QED
    BY <1>5, <2>2, <2>3
<1>9. OnTheWay'
  <2>1. Len(Read') =< diagNo'
    BY <1>1, <1>2, <1>4, <1>6
  <2> QED
    BY <1>7, <1>8, <2>1 DEF OnTheWay
<1>10. ASSUME NEW n \in 1..diagNo', ~ n =< Len(Read')
       PROVE  \E i \in 1..Len(inbound') : inbound'[i] = <<"diag", n>>
  <2>1. CASE n = d
    <3>1. Len(inbound) + 1 \in 1..Len(inbound')
      BY <1>3
    <3> QED
      BY <1>3, <2>1, <3>1 DEF m
  <2>2. CASE n # d
    <3>1. n \in 1..diagNo
      BY <1>1, <1>2, <2>2
    <3>2. PICK i \in 1..Len(inbound) : inbound[i] = <<"diag", n>>
      BY <1>0, <1>4, <1>10, <3>1, ReadInOrder DEF EachInOrder
    <3>3. i \in 1..Len(inbound')
      BY <1>3
    <3> QED
      BY <1>3, <3>2, <3>3
  <2> QED
    BY <2>1, <2>2
<1>11. \A i \in 1..Len(Read') : Read'[i] = i
  BY <1>0, <1>4, ReadInOrder DEF EachInOrder
<1> QED
  BY <1>9, <1>10, <1>11, NextInOrder DEF EachInOrder

\* Nothing else touches what the server sends.
LEMMA NextDiag == RpcInv /\ RpcTypeOK' /\ [RpcNext]_rpcVars => OnTheWay' /\ DeliveredInOrder'
<1> SUFFICES ASSUME RpcInv, RpcTypeOK', [RpcNext]_rpcVars PROVE OnTheWay' /\ DeliveredInOrder'
  OBVIOUS
<1>1. ASSUME NEW f \in Frames, WriteBegin(f) \/ WriteEnd(f) PROVE OnTheWay' /\ DeliveredInOrder'
  BY <1>1, NothingRead DEF WriteBegin, WriteEnd, peerVars, readVars
<1>2. ASSUME NEW c \in Callers,
             CallBegin(c) \/ CallSent(c) \/ CallReturns(c) \/ CallCancelled(c) \/ CtxEnds(c)
      PROVE  OnTheWay' /\ DeliveredInOrder'
  BY <1>2, NothingRead
     DEF CallBegin, CallSent, CallReturns, CallCancelled, CtxEnds, peerVars, readVars
<1>3. ASSUME NotifyBegin \/ NotifyEnd \/ ReadEof \/ Close \/ ServerExits \/ UNCHANGED rpcVars
      PROVE  OnTheWay' /\ DeliveredInOrder'
  BY <1>3, NothingRead
     DEF NotifyBegin, NotifyEnd, ReadEof, Close, ServerExits, rpcVars, peerVars, readVars
<1>4. ASSUME NEW q \in Asks, ResponseStalls(q) PROVE OnTheWay' /\ DeliveredInOrder'
  BY <1>4, NothingRead DEF ResponseStalls, peerVars, readVars
<1>5. ASSUME ReadReply \/ ReadAsk PROVE OnTheWay' /\ DeliveredInOrder'
  BY <1>5, OtherRead DEF ReadReply, ReadAsk, Head1, peerVars
<1>6. ASSUME ReadDiag PROVE OnTheWay' /\ DeliveredInOrder'
  BY <1>6, DiagRead
<1>7. ASSUME Deliver PROVE OnTheWay' /\ DeliveredInOrder'
  BY <1>7, DiagDelivered
<1>8. ASSUME NEW c \in Callers, ServerReplies(c) PROVE OnTheWay' /\ DeliveredInOrder'
  <2>1. <<"reply", c>> \in Incoming /\ <<"reply", c>>[1] # "diag"
    BY DEF Incoming
  <2>2. ServerSends(<<"reply", c>>) /\ UNCHANGED diagNo
    BY <1>8 DEF ServerReplies
  <2> QED
    BY <2>1, <2>2, OtherSent
<1>9. ASSUME NEW q \in Asks, ServerAsks(q) PROVE OnTheWay' /\ DeliveredInOrder'
  <2>1. <<"ask", q>> \in Incoming /\ <<"ask", q>>[1] # "diag"
    BY DEF Incoming
  <2>2. ServerSends(<<"ask", q>>) /\ UNCHANGED diagNo
    BY <1>9 DEF ServerAsks
  <2> QED
    BY <2>1, <2>2, OtherSent
<1>10. ASSUME ServerNotifies PROVE OnTheWay' /\ DeliveredInOrder'
  BY <1>10, DiagSent
<1> QED
  BY <1>1, <1>2, <1>3, <1>4, <1>5, <1>6, <1>7, <1>8, <1>9, <1>10 DEF RpcNext, ReadOne

-----------------------------------------------------------------------------
(* The theorems.                                                             *)

LEMMA RpcInitInv == RpcInit => RpcInv
<1> SUFFICES ASSUME RpcInit PROVE RpcInv
  OBVIOUS
<1>1. RpcTypeOK
  <2>1. <<>> \in Seq(1..MaxNotes) /\ <<>> \in Seq(1..MaxDiags) /\ <<>> \in Seq(Incoming)
    OBVIOUS
  <2>2. /\ noteWire = <<>> /\ inbound = <<>> /\ notifyQ = <<>> /\ delivered = <<>>
        /\ Len(notifyQ) = 0
    BY DEF RpcInit
  <2>3. /\ wire \in [Frames -> {"no", "queued", "writing", "written", "failed"}]
        /\ callAt \in [Callers -> {"idle", "send", "wait", "cancel", "done"}]
        /\ outcome \in [Callers -> {"none", "ok", "ctx", "error"}]
        /\ ctxEnded \in [Callers -> BOOLEAN]
        /\ reply \in [Callers -> {"none", "reply", "ask"}]
    BY DEF RpcInit
  <2>4. noteNo \in 0..MaxNotes /\ diagNo \in 0..MaxDiags /\ Len(notifyQ) =< NotifyQueue
    BY <2>2, RpcAssumption DEF RpcInit
  <2>5. /\ noteWire \in Seq(1..MaxNotes) /\ inbound \in Seq(Incoming)
        /\ notifyQ \in Seq(1..MaxDiags) /\ delivered \in Seq(1..MaxDiags)
    BY <2>1, <2>2
  <2> QED
    BY <2>3, <2>4, <2>5 DEF RpcInit, RpcTypeOK
<1>2. CallPhase /\ CancelFollowsRequest
  BY FramesAre DEF RpcInit, CallPhase, CancelFollowsRequest
<1>3. NotePhase /\ AckedInOrder
  BY FramesAre DEF RpcInit, NotePhase, AckedInOrder
<1>4. Len(inbound) = 0 /\ Read = <<>> /\ Len(Read) = 0 /\ diagNo = 0
  BY DEF RpcInit, Read
<1>5. OnTheWay
  BY <1>4 DEF OnTheWay
<1>6. DeliveredInOrder
  BY <1>1, <1>4, ReadInOrder DEF EachInOrder
<1> QED
  BY <1>1, <1>2, <1>3, <1>5, <1>6 DEF RpcInv

LEMMA RpcInvariance == RpcSpec => []RpcInv
<1>1. RpcInv /\ [RpcNext]_rpcVars => RpcInv'
  BY NextType, NextCall, NextNote, NextDiag DEF RpcInv
<1> QED
  BY RpcInitInv, <1>1, PTL DEF RpcSpec

\* Every variable of the connection keeps its type.
THEOREM RpcTypeCorrect == RpcSpec => []RpcTypeOK
<1>1. RpcInv => RpcTypeOK
  BY DEF RpcInv
<1> QED
  BY RpcInvariance, <1>1, PTL

\* A cancellation never overtakes its request, and a call that was given up has
\* sent one unless the connection goes down.
THEOREM CancelsFollow == RpcSpec => []CancelFollowsRequest
<1>1. RpcInv => CancelFollowsRequest
  BY DEF RpcInv
<1> QED
  BY RpcInvariance, <1>1, PTL

\* Neither the bounded queue nor the goroutines that write let one notification
\* overtake another.
THEOREM MessagesKeepOrder == RpcSpec => []MessagesInOrder
<1>1. RpcInv => MessagesInOrder
  BY DEF RpcInv, MessagesInOrder
<1> QED
  BY RpcInvariance, <1>1, PTL

-----------------------------------------------------------------------------
(* Both links of a session.                                                  *)

\* Neither link leaves its types: a session in which the conversation resumes over
\* a new connection, or talks to a language server, while the other link rests.
THEOREM LinksTypeCorrect == LinksSpec => []LinksTypeOK
<1>1. LinksInit => ResumeInit /\ RpcInit
  BY DEF LinksInit
<1>2. [LinksNext]_<<link, resumeVars, rpcVars>> => [ResumeNext]_resumeVars /\ [RpcNext]_rpcVars
  BY DEF LinksNext
<1>3. LinksSpec => ResumeSpec /\ RpcSpec
  BY <1>1, <1>2, PTL DEF LinksSpec, ResumeSpec, RpcSpec
<1>4. ResumeTypeOK /\ RpcTypeOK => LinksTypeOK
  BY DEF LinksTypeOK
<1> QED
  BY <1>3, <1>4, ResumeTypeCorrect, RpcTypeCorrect, PTL
=============================================================================
