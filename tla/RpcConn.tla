------------------------------ MODULE RpcConn -------------------------------
(***************************************************************************)
(* The JSON-RPC connection to a language server: calls and their           *)
(* cancellation, notifications both ways, requests of the server, writes   *)
(* that stall, and the close (internal/lsp/jsonrpc/conn.go).               *)
(*                                                                         *)
(* Every frame is written by a goroutine of its own under wrMu while its   *)
(* sender waits in sendCtx; time is left out, so a timer of sendCtx or the *)
(* end of a context may come at any moment.                                *)
(***************************************************************************)
EXTENDS Naturals, Sequences

CONSTANTS
    Callers,      \* calls in progress; also their ids
    Asks,         \* requests of the server
    SameId,       \* the caller whose id a request of the server bears, or "none"
    MaxNotes,     \* bound: notifications sent, one after the other
    MaxDiags,     \* bound: notifications of the server
    NotifyQueue   \* notifyQueueSize

ASSUME RpcAssumption ==
    /\ MaxNotes \in Nat /\ MaxDiags \in Nat /\ NotifyQueue \in Nat \ {0}
    /\ SameId \in [Asks -> Callers \cup {"none"}]

Request(c) == <<"request", c>>
CancelOf(c) == <<"cancel", c>>
Note(n) == <<"note", n>>
Response(q) == <<"response", q>>
Frames == {Request(c) : c \in Callers} \cup {CancelOf(c) : c \in Callers}
          \cup {Note(n) : n \in 1..MaxNotes} \cup {Response(q) : q \in Asks}
Incoming == {<<"reply", c>> : c \in Callers} \cup {<<"diag", n>> : n \in 1..MaxDiags}
            \cup {<<"ask", q>> : q \in Asks}

VARIABLES
    serverUp,    \* the server process runs
    closed,      \* Conn.done is closed
    wire,        \* what became of a frame
    callAt,      \* where a Call is
    outcome,     \* what it returned
    ctxEnded,    \* its context is done
    waiting,     \* Conn.pending
    reply,       \* pending.ch: "none", "reply", or "ask" for a request taken for one
    noteNo, noteAt, acked,   \* the Notify in progress; those that returned nil
    noteWire,    \* notifications in the order the server reads them
    replied, diagNo, asksSent,  \* what the server has sent
    inbound,     \* sent by the server and not read yet
    notifyQ,     \* Conn.notifyQ
    delivered    \* notifications handed to the handler

callVars == <<callAt, outcome, ctxEnded, waiting>>
noteVars == <<noteNo, noteAt, acked>>
peerVars == <<serverUp, replied, diagNo, asksSent>>
readVars == <<reply, inbound, notifyQ, delivered>>
rpcVars == <<closed, wire, noteWire, callVars, noteVars, peerVars, readVars>>

RpcTypeOK ==
    /\ serverUp \in BOOLEAN /\ closed \in BOOLEAN
    /\ wire \in [Frames -> {"no", "queued", "writing", "written", "failed"}]
    /\ callAt \in [Callers -> {"idle", "send", "wait", "cancel", "done"}]
    /\ outcome \in [Callers -> {"none", "ok", "ctx", "error"}]
    /\ ctxEnded \in [Callers -> BOOLEAN]
    /\ waiting \in SUBSET Callers
    /\ reply \in [Callers -> {"none", "reply", "ask"}]
    /\ noteNo \in 0..MaxNotes /\ noteAt \in {"idle", "send"} /\ acked \in SUBSET (1..MaxNotes)
    /\ noteWire \in Seq(1..MaxNotes)
    /\ replied \in SUBSET Callers /\ diagNo \in 0..MaxDiags /\ asksSent \in SUBSET Asks
    /\ inbound \in Seq(Incoming)
    /\ notifyQ \in Seq(1..MaxDiags) /\ Len(notifyQ) =< NotifyQueue
    /\ delivered \in Seq(1..MaxDiags)

RpcInit ==
    /\ serverUp = TRUE /\ closed = FALSE
    /\ wire = [f \in Frames |-> "no"]
    /\ callAt = [c \in Callers |-> "idle"]
    /\ outcome = [c \in Callers |-> "none"]
    /\ ctxEnded = [c \in Callers |-> FALSE]
    /\ waiting = {}
    /\ reply = [c \in Callers |-> "none"]
    /\ noteNo = 0 /\ noteAt = "idle" /\ acked = {}
    /\ noteWire = <<>>
    /\ replied = {} /\ diagNo = 0 /\ asksSent = {}
    /\ inbound = <<>> /\ notifyQ = <<>> /\ delivered = <<>>

-----------------------------------------------------------------------------
(* sendCtx and send.                                                        *)

\* The goroutine that writes f starts.
Sends(f) == wire' = [wire EXCEPT ![f] = "queued"]

\* sendCtx stops waiting for f without a word from its goroutine.
GivesUp == \/ closed /\ UNCHANGED closed
           \/ closed' = TRUE   \* writeStallTimeout

WriteBegin(f) ==
    /\ wire[f] = "queued"
    /\ \A g \in Frames : wire[g] # "writing"
    /\ wire' = [wire EXCEPT ![f] = "writing"]
    /\ UNCHANGED <<closed, noteWire, callVars, noteVars, peerVars, readVars>>

\* The server has drained the frame; or its end of the pipe is gone.
WriteEnd(f) ==
    /\ wire[f] = "writing"
    /\ \/ serverUp /\ wire' = [wire EXCEPT ![f] = "written"]
          /\ noteWire' = IF f[1] = "note" THEN Append(noteWire, f[2]) ELSE noteWire
       \/ ~ serverUp /\ wire' = [wire EXCEPT ![f] = "failed"] /\ UNCHANGED noteWire
    /\ UNCHANGED <<closed, callVars, noteVars, peerVars, readVars>>

-----------------------------------------------------------------------------
(* Call.                                                                    *)

Return(c, how) ==
    /\ callAt' = [callAt EXCEPT ![c] = "done"]
    /\ outcome' = [outcome EXCEPT ![c] = how]
    /\ waiting' = waiting \ {c}

CallGoes(c, place) == callAt' = [callAt EXCEPT ![c] = place] /\ UNCHANGED <<outcome, waiting>>

CallBegin(c) ==
    /\ callAt[c] = "idle"
    /\ \/ ctxEnded[c] /\ Return(c, "ctx") /\ UNCHANGED wire
       \/ ~ ctxEnded[c] /\ closed /\ Return(c, "error") /\ UNCHANGED wire
       \/ /\ ~ ctxEnded[c] /\ ~ closed
          /\ Sends(Request(c))
          /\ callAt' = [callAt EXCEPT ![c] = "send"]
          /\ waiting' = waiting \cup {c}
          /\ UNCHANGED outcome
    /\ UNCHANGED <<closed, noteWire, ctxEnded, noteVars, peerVars, readVars>>

\* Mutant: the write of a request watches the context of the call.
CallSentOrGivenUp(c) ==
    /\ callAt[c] = "send"
    /\ \/ wire[Request(c)] = "written" /\ CallGoes(c, "wait") /\ UNCHANGED closed
       \/ wire[Request(c)] = "failed" /\ Return(c, "error") /\ UNCHANGED closed
       \/ GivesUp /\ Return(c, "error")
       \/ ctxEnded[c] /\ Return(c, "ctx") /\ UNCHANGED closed
    /\ UNCHANGED <<wire, noteWire, ctxEnded, noteVars, peerVars, readVars>>

\* Mutant: no timer bounds the write.
CallSentUntimed(c) ==
    /\ callAt[c] = "send"
    /\ \/ wire[Request(c)] = "written" /\ CallGoes(c, "wait") /\ UNCHANGED closed
       \/ wire[Request(c)] = "failed" /\ Return(c, "error") /\ UNCHANGED closed
       \/ closed /\ Return(c, "error") /\ UNCHANGED closed
    /\ UNCHANGED <<wire, noteWire, ctxEnded, noteVars, peerVars, readVars>>

\* The write of a request does not watch the context of the call.
CallSent(c) ==
    /\ callAt[c] = "send"
    /\ \/ wire[Request(c)] = "written" /\ CallGoes(c, "wait") /\ UNCHANGED closed
       \/ wire[Request(c)] = "failed" /\ Return(c, "error") /\ UNCHANGED closed
       \/ GivesUp /\ Return(c, "error")
    /\ UNCHANGED <<wire, noteWire, ctxEnded, noteVars, peerVars, readVars>>

\* The select that waits for the response.
CallReturns(c) ==
    /\ callAt[c] = "wait"
    /\ \/ reply[c] # "none" /\ Return(c, "ok") /\ UNCHANGED wire
       \/ closed /\ Return(c, "error") /\ UNCHANGED wire
       \/ ctxEnded[c] /\ closed /\ Return(c, "ctx") /\ UNCHANGED wire
       \/ ctxEnded[c] /\ ~ closed /\ Sends(CancelOf(c)) /\ CallGoes(c, "cancel")
    /\ UNCHANGED <<closed, noteWire, ctxEnded, noteVars, peerVars, readVars>>

\* cancelRequest returns.
CallCancelled(c) ==
    /\ callAt[c] = "cancel"
    /\ \/ wire[CancelOf(c)] \in {"written", "failed"} /\ UNCHANGED closed
       \/ GivesUp
    /\ Return(c, "ctx")
    /\ UNCHANGED <<wire, noteWire, ctxEnded, noteVars, peerVars, readVars>>

CtxEnds(c) ==
    /\ ~ ctxEnded[c] /\ callAt[c] # "done"
    /\ ctxEnded' = [ctxEnded EXCEPT ![c] = TRUE]
    /\ UNCHANGED <<closed, wire, noteWire, callAt, outcome, waiting, noteVars, peerVars, readVars>>

-----------------------------------------------------------------------------
(* Notify.                                                                  *)

NotifyBegin ==
    /\ noteAt = "idle" /\ noteNo < MaxNotes /\ ~ closed
    /\ noteNo' = noteNo + 1
    /\ noteAt' = "send"
    /\ Sends(Note(noteNo + 1))
    /\ UNCHANGED <<closed, acked, noteWire, callVars, peerVars, readVars>>

\* Mutant: Notify does not wait for the write.
NotifyAtOnce ==
    /\ noteAt = "send"
    /\ noteAt' = "idle"
    /\ acked' = acked \cup {noteNo}
    /\ UNCHANGED <<closed, noteNo, wire, noteWire, callVars, peerVars, readVars>>

\* Notify returns: nil once its frame is written, an error when that failed,
\* the connection closed or stalled, or its context ended.
NotifyEnd ==
    /\ noteAt = "send"
    /\ noteAt' = "idle"
    /\ \/ wire[Note(noteNo)] = "written" /\ acked' = acked \cup {noteNo} /\ UNCHANGED closed
       \/ wire[Note(noteNo)] = "failed" /\ UNCHANGED <<acked, closed>>
       \/ UNCHANGED <<acked, closed>>
       \/ GivesUp /\ UNCHANGED acked
    /\ UNCHANGED <<noteNo, wire, noteWire, callVars, peerVars, readVars>>

-----------------------------------------------------------------------------
(* readLoop, dispatch and notifyLoop.                                       *)

Head1(kind) == ~ closed /\ inbound # <<>> /\ Head(inbound)[1] = kind

\* dispatch hands m to the caller in pending, whose channel has room for one.
ToCaller(c, kind) ==
    \/ reply[c] = "none" /\ reply' = [reply EXCEPT ![c] = kind]
    \/ ctxEnded[c] /\ UNCHANGED reply

ReadReply ==
    /\ Head1("reply")
    /\ LET c == Head(inbound)[2]
       IN IF c \in waiting THEN ToCaller(c, "reply") ELSE UNCHANGED reply
    /\ inbound' = Tail(inbound)
    /\ UNCHANGED <<closed, wire, noteWire, callVars, noteVars, peerVars, notifyQ, delivered>>

\* Mutant: a full queue drops the notification.
ReadDiagOrDrop ==
    /\ Head1("diag")
    /\ inbound' = Tail(inbound)
    /\ notifyQ' = IF Len(notifyQ) < NotifyQueue THEN Append(notifyQ, Head(inbound)[2]) ELSE notifyQ
    /\ UNCHANGED <<closed, wire, noteWire, callVars, noteVars, peerVars, reply, delivered>>

\* Mutant: the queue has no bound.
ReadDiagUnbounded ==
    /\ Head1("diag")
    /\ inbound' = Tail(inbound)
    /\ notifyQ' = Append(notifyQ, Head(inbound)[2])
    /\ UNCHANGED <<closed, wire, noteWire, callVars, noteVars, peerVars, reply, delivered>>

\* A full queue holds the read loop back.
ReadDiag ==
    /\ Head1("diag")
    /\ Len(notifyQ) < NotifyQueue
    /\ inbound' = Tail(inbound)
    /\ notifyQ' = Append(notifyQ, Head(inbound)[2])
    /\ UNCHANGED <<closed, wire, noteWire, callVars, noteVars, peerVars, reply, delivered>>

\* dispatch looks the id up before it looks for a method.  Otherwise a goroutine
\* answers the request.
ReadAsk ==
    /\ Head1("ask")
    /\ LET q == Head(inbound)[2]
       IN IF SameId[q] \in waiting THEN ToCaller(SameId[q], "ask") /\ UNCHANGED wire
          ELSE Sends(Response(q)) /\ UNCHANGED reply
    /\ inbound' = Tail(inbound)
    /\ UNCHANGED <<closed, noteWire, callVars, noteVars, peerVars, notifyQ, delivered>>

\* The answer to a request of the server stalls.
ResponseStalls(q) ==
    /\ wire[Response(q)] \in {"queued", "writing"}
    /\ ~ closed /\ closed' = TRUE
    /\ UNCHANGED <<wire, noteWire, callVars, noteVars, peerVars, readVars>>

ReadEof ==
    /\ ~ serverUp /\ inbound = <<>> /\ ~ closed
    /\ closed' = TRUE
    /\ UNCHANGED <<wire, noteWire, callVars, noteVars, peerVars, readVars>>

ReadOne == ReadReply \/ ReadDiag \/ ReadAsk \/ ReadEof

\* notifyLoop; its select may prefer a queued notification to a closed done.
Deliver ==
    /\ notifyQ # <<>>
    /\ delivered' = Append(delivered, Head(notifyQ))
    /\ notifyQ' = Tail(notifyQ)
    /\ UNCHANGED <<closed, wire, noteWire, callVars, noteVars, peerVars, reply, inbound>>

Close ==
    /\ ~ closed /\ closed' = TRUE
    /\ UNCHANGED <<wire, noteWire, callVars, noteVars, peerVars, readVars>>

-----------------------------------------------------------------------------
(* The server: it answers what it has read in any order, sends              *)
(* notifications and requests of its own, and may exit.                     *)

ServerSends(m) ==
    /\ serverUp
    /\ inbound' = Append(inbound, m)
    /\ UNCHANGED <<closed, wire, noteWire, callVars, noteVars, serverUp, reply, notifyQ, delivered>>

ServerReplies(c) ==
    /\ wire[Request(c)] = "written" /\ c \notin replied
    /\ replied' = replied \cup {c}
    /\ ServerSends(<<"reply", c>>) /\ UNCHANGED <<diagNo, asksSent>>

ServerNotifies ==
    /\ diagNo < MaxDiags
    /\ diagNo' = diagNo + 1
    /\ ServerSends(<<"diag", diagNo + 1>>) /\ UNCHANGED <<replied, asksSent>>

ServerAsks(q) ==
    /\ q \notin asksSent
    /\ asksSent' = asksSent \cup {q}
    /\ ServerSends(<<"ask", q>>) /\ UNCHANGED <<replied, diagNo>>

ServerExits ==
    /\ serverUp /\ serverUp' = FALSE
    /\ UNCHANGED <<closed, wire, noteWire, callVars, noteVars, replied, diagNo, asksSent, readVars>>

RpcNext ==
    \/ \E f \in Frames : WriteBegin(f) \/ WriteEnd(f)
    \/ \E c \in Callers :
          \/ CallBegin(c) \/ CallSent(c) \/ CallReturns(c) \/ CallCancelled(c)
          \/ CtxEnds(c) \/ ServerReplies(c)
    \/ NotifyBegin \/ NotifyEnd
    \/ ReadOne \/ Deliver \/ Close
    \/ \E q \in Asks : ServerAsks(q) \/ ResponseStalls(q)
    \/ ServerNotifies \/ ServerExits

\* A started call runs on, its timer included, and so do the two loops; the
\* server owes nothing, and a write may stall for ever.
RpcFairness ==
    /\ \A c \in Callers : WF_rpcVars(CallSent(c) \/ CallReturns(c) \/ CallCancelled(c))
    /\ WF_rpcVars(ReadOne) /\ WF_rpcVars(Deliver)

RpcSpec == RpcInit /\ [][RpcNext]_rpcVars

-----------------------------------------------------------------------------
(* Properties.                                                              *)

\* $/cancelRequest never reaches the server before the request it cancels, and
\* a call that was given up has sent one for a request the server has, unless
\* the connection is going down (Call: the write does not watch the context).
CancelFollowsRequest ==
    \A c \in Callers :
        /\ wire[CancelOf(c)] # "no" => wire[Request(c)] = "written"
        /\ outcome[c] = "ctx" /\ wire[Request(c)] # "no"
              => closed \/ wire[CancelOf(c)] \in {"written", "failed"}

\* The handler sees the server's notifications in the order they were sent, and
\* none gets lost between the two loops although their queue is bounded.
DeliveredInOrder ==
    LET read == delivered \o notifyQ
    IN  /\ read = [i \in 1..Len(read) |-> i]
        /\ \A n \in 1..diagNo :
               n =< Len(read) \/ \E i \in 1..Len(inbound) : inbound[i] = <<"diag", n>>

\* A notification whose Notify returned nil precedes every later one; only one
\* that was given up may be overtaken by its successor.
AckedInOrder ==
    \A i, j \in 1..Len(noteWire) :
        i < j /\ noteWire[j] < noteWire[i] => noteWire[j] \notin acked

\* Neither way overtakes: what the server sends is handled in its order, and what
\* was acknowledged precedes what comes later.
MessagesInOrder == DeliveredInOrder /\ AckedInOrder

\* A call returns once its context ends, the server has replied or the
\* connection closes, however many writes hang and notifications are queued.
CallsEnd ==
    \A c \in Callers :
        (callAt[c] # "idle" /\ (ctxEnded[c] \/ closed \/ c \in replied)) ~> callAt[c] = "done"

\* conn.go:64: there is no ambiguity when matching responses to calls: a call
\* that returns without error has the server's answer.
ResultIsReply == \A c \in Callers : outcome[c] = "ok" => c \in replied
=============================================================================
