---------------------------- MODULE HistoryQueue ----------------------------
(***************************************************************************)
(* The change history's queue and its single writer (internal/history).    *)
(* Write tools enqueue without ever blocking: past the channel an item is  *)
(* kept as a marker without its content, past the overflow list it is      *)
(* dropped and counted.  The writer commits batches; what it cannot land,  *)
(* and what it cannot count, goes back to be counted by a later batch.     *)
(*                                                                         *)
(* An item is its number in the order of the Enqueue calls and whether it  *)
(* still has its content, which weighs one byte.                           *)
(***************************************************************************)
EXTENDS Naturals, FiniteSets, Sequences

CONSTANTS
    QueueSize, OverflowCap, BatchSize, MaxQueuedBytes,   \* Options
    MaxItems,     \* bound on the accepted Enqueue calls
    MaxFaults,    \* bound on the failed database operations
    MetaFaults    \* the sets of persistMeta's statements that may fail in one batch

HistoryAssumption ==
    /\ {QueueSize, OverflowCap, BatchSize, MaxQueuedBytes} \subseteq Nat \ {0}
    /\ {MaxItems, MaxFaults} \subseteq Nat
    /\ {} \in MetaFaults
    /\ MetaFaults \subseteq SUBSET {"dropped", "overflow", "errors", "stamp"}

ASSUME HistoryAssumption

VARIABLES
    channel, spill,         \* s.ch and s.overflow
    queuedBytes, dropped, errsPending,
    accepted,               \* the items numbered so far
    degrade,                \* Close's deadline has passed: only markers are rendered
    writer,                 \* where run and writeBatch are
    batch, writing, then,   \* the items collected, those of the batch, and what follows it
    pos,                    \* the items of the batch the transaction has been through
    txRows, tally,          \* the transaction's rows and its batchTally
    unmet,                  \* the statements of persistMeta that failed
    rows, meta,             \* the database
    closer, syncer, barrier,   \* Close, Sync, and the items enqueued before Sync was called
    faults, failures        \* failed operations, failed inserts

queueVars == <<channel, spill, queuedBytes, dropped, errsPending, accepted>>
batchVars == <<batch, writing, then>>
txVars == <<pos, txRows, tally, unmet>>
dbVars == <<rows, meta>>
endVars == <<degrade, closer, syncer, barrier>>
faultVars == <<faults, failures>>
historyVars == <<queueVars, writer, batchVars, txVars, dbVars, endVars, faultVars>>

NoTally == [dropped |-> 0, overflow |-> 0, errors |-> 0]

HistoryInit ==
    /\ channel = <<>> /\ spill = <<>>
    /\ queuedBytes = 0 /\ dropped = 0 /\ errsPending = 0 /\ accepted = 0
    /\ degrade = FALSE
    /\ writer = "select"
    /\ batch = <<>> /\ writing = <<>> /\ then = "select"
    /\ pos = 0 /\ txRows = <<>> /\ tally = NoTally /\ unmet = {}
    /\ rows = <<>> /\ meta = NoTally
    /\ closer = "open" /\ syncer = "none" /\ barrier = 0
    /\ faults = 0 /\ failures = 0

Numbers(q) == {q[i].n : i \in DOMAIN q}
Bytes(q) == Cardinality({i \in DOMAIN q : q[i].full})
Closed == closer # "open"

-----------------------------------------------------------------------------
(* Enqueue.                                                                *)

\* Mutant: the overflow list is not looked at.
FitsAnyway == /\ queuedBytes + 1 <= MaxQueuedBytes
              /\ Len(channel) < QueueSize

\* The item has a place in the channel: nothing older waits on the overflow list.
Fits == /\ spill = <<>>
        /\ queuedBytes + 1 <= MaxQueuedBytes
        /\ Len(channel) < QueueSize

Enqueue ==
    /\ ~ Closed
    /\ accepted < MaxItems
    /\ accepted' = accepted + 1
    /\ IF Fits
       THEN /\ channel' = Append(channel, [n |-> accepted + 1, full |-> TRUE])
            /\ queuedBytes' = queuedBytes + 1
            /\ UNCHANGED <<spill, dropped>>
       ELSE IF Len(spill) >= OverflowCap
       THEN /\ dropped' = dropped + 1
            /\ UNCHANGED <<channel, spill, queuedBytes>>
       ELSE /\ spill' = Append(spill, [n |-> accepted + 1, full |-> FALSE])
            /\ UNCHANGED <<channel, queuedBytes, dropped>>
    /\ UNCHANGED <<errsPending, writer, batchVars, txVars, dbVars, endVars, faultVars>>

-----------------------------------------------------------------------------
(* The writer's select.                                                    *)

\* writeBatch(items), to be followed by s: without items and counts it returns.
Write(items, s) ==
    /\ writing' = items
    /\ IF items = <<>> /\ dropped = 0 /\ errsPending = 0
       THEN writer' = s /\ UNCHANGED then
       ELSE writer' = "begin" /\ then' = s

Receive ==
    /\ writer = "select"
    /\ channel # <<>>
    /\ channel' = Tail(channel)
    /\ LET collected == Append(batch, Head(channel))
       IN  IF Len(collected) >= BatchSize
           THEN Write(collected, "select") /\ batch' = <<>>
           ELSE batch' = collected /\ UNCHANGED <<writer, writing, then>>
    /\ UNCHANGED <<spill, queuedBytes, dropped, errsPending, accepted, txVars, dbVars,
                   endVars, faultVars>>

\* flushAll: the channel and the overflow list are taken in one critical section.
TakeQueued(s) ==
    /\ Write(batch \o channel \o spill, s)
    /\ batch' = <<>> /\ channel' = <<>> /\ spill' = <<>>

FlushUnchanged ==
    UNCHANGED <<queuedBytes, dropped, errsPending, accepted, txVars, dbVars, degrade, closer,
                barrier, faultVars>>

FlushTick ==
    /\ writer = "select"
    /\ TakeQueued("select")
    /\ UNCHANGED syncer /\ FlushUnchanged

\* case reply := <-s.syncReq
SyncReceive ==
    /\ writer = "select"
    /\ syncer = "asking"
    /\ syncer' = "waiting"
    /\ TakeQueued("reply")
    /\ FlushUnchanged

SyncReply ==
    /\ writer = "reply"
    /\ writer' = "select"
    /\ syncer' = IF syncer = "waiting" THEN "released" ELSE syncer
    /\ UNCHANGED <<queueVars, batchVars, txVars, dbVars, degrade, closer, barrier, faultVars>>

\* The channel is closed and empty.
LastFlush ==
    /\ writer = "select"
    /\ Closed /\ channel = <<>>
    /\ TakeQueued("done")
    /\ UNCHANGED syncer /\ FlushUnchanged

-----------------------------------------------------------------------------
(* writeBatch.                                                             *)

GiveBack(drops, errs) ==
    /\ dropped' = dropped + drops
    /\ errsPending' = errsPending + errs

Begin ==
    /\ writer = "begin"
    /\ writer' = "takeCounts"
    /\ UNCHANGED <<queueVars, batchVars, txVars, dbVars, endVars, faultVars>>

BeginFails ==
    /\ writer = "begin"
    /\ faults < MaxFaults
    /\ faults' = faults + 1
    /\ GiveBack(Len(writing), 0)
    /\ writer' = "release"
    /\ UNCHANGED <<channel, spill, queuedBytes, accepted, batchVars, txVars, dbVars, endVars,
                   failures>>

TakeCounts ==
    /\ writer = "takeCounts"
    /\ tally' = [dropped |-> dropped, overflow |-> 0, errors |-> errsPending]
    /\ dropped' = 0 /\ errsPending' = 0
    /\ writer' = "insert"
    /\ UNCHANGED <<channel, spill, queuedBytes, accepted, batchVars, pos, txRows, unmet, dbVars,
                   endVars, faultVars>>

\* What becomes of the next item: its row, a marker after a failed insert, or nothing.
Landed(marker) == txRows' = Append(txRows, [n |-> writing[pos + 1].n, marker |-> marker])

InsertRow ==
    LET marker == ~ writing[pos + 1].full \/ degrade
    IN  /\ Landed(marker)
        /\ tally' = [tally EXCEPT !.overflow = @ + (IF marker THEN 1 ELSE 0)]
        /\ UNCHANGED faultVars
InsertMarker ==
    /\ faults < MaxFaults
    /\ faults' = faults + 1
    /\ failures' = failures + 1
    /\ Landed(TRUE)
    /\ tally' = [tally EXCEPT !.overflow = @ + 1, !.errors = @ + 1]
InsertNothing ==
    /\ faults < MaxFaults
    /\ faults' = faults + 1
    /\ failures' = failures + 1
    /\ tally' = [tally EXCEPT !.dropped = @ + 1, !.errors = @ + 1]
    /\ UNCHANGED txRows

Insert ==
    /\ writer = "insert"
    /\ pos < Len(writing)
    /\ InsertRow \/ InsertMarker \/ InsertNothing
    /\ pos' = pos + 1
    /\ UNCHANGED <<queueVars, writer, batchVars, unmet, dbVars, endVars>>

\* persistMeta skips a count of zero, and the time of the last drop with it.
Executed(c) == IF c = "stamp" THEN tally.dropped > 0 ELSE tally[c] > 0

\* A statement that fails does not stop the others.
PersistMeta ==
    /\ writer = "insert"
    /\ pos = Len(writing)
    /\ \E F \in MetaFaults :
          /\ unmet' = {c \in F : Executed(c)}
          /\ faults' = IF unmet' = {} THEN faults ELSE faults + 1
          /\ faults' <= MaxFaults
    /\ writer' = "commit"
    /\ UNCHANGED <<queueVars, batchVars, pos, txRows, tally, dbVars, endVars, failures>>

\* Mutant: the counts that could not be written are forgotten.
ReturnedNever == NoTally

\* A failed statement commits with the others, and all counts go back.
Returned == IF unmet = {} THEN NoTally ELSE tally

Commit ==
    /\ writer = "commit"
    /\ rows' = rows \o txRows
    /\ meta' = [c \in DOMAIN meta |-> meta[c] + (IF c \in unmet THEN 0 ELSE tally[c])]
    /\ GiveBack(Returned.dropped, Returned.errors)
    /\ tally' = NoTally /\ txRows' = <<>> /\ pos' = 0 /\ unmet' = {}
    /\ writer' = "release"
    /\ UNCHANGED <<channel, spill, queuedBytes, accepted, batchVars, endVars,
                   faultVars>>

\* Every row that had landed is lost.
CommitFails ==
    /\ writer = "commit"
    /\ faults < MaxFaults
    /\ faults' = faults + 1
    /\ GiveBack(tally.dropped + Len(txRows), tally.errors)
    /\ tally' = NoTally /\ txRows' = <<>> /\ pos' = 0 /\ unmet' = {}
    /\ writer' = "release"
    /\ UNCHANGED <<channel, spill, queuedBytes, accepted, batchVars, dbVars,
                   endVars, failures>>

\* The deferred release, and writeBatch returns.
ReleaseBytes ==
    /\ writer = "release"
    /\ queuedBytes' = IF queuedBytes > Bytes(writing) THEN queuedBytes - Bytes(writing) ELSE 0
    /\ writing' = <<>>
    /\ writer' = then /\ then' = "select"
    /\ UNCHANGED <<channel, spill, dropped, errsPending, accepted, batch, txVars, dbVars,
                   endVars, faultVars>>

-----------------------------------------------------------------------------
(* Sync and Close.                                                         *)

SyncCall ==
    /\ syncer = "none"
    /\ syncer' = "asking"
    /\ barrier' = accepted
    /\ UNCHANGED <<queueVars, writer, batchVars, txVars, dbVars, degrade, closer, faultVars>>

\* case <-s.done
SyncAfterDone ==
    /\ syncer = "asking"
    /\ writer = "done"
    /\ syncer' = "released"
    /\ UNCHANGED <<queueVars, writer, batchVars, txVars, dbVars, degrade, closer, barrier,
                   faultVars>>

\* ctx.Done in either select.
SyncGivesUp ==
    /\ syncer \in {"asking", "waiting"}
    /\ syncer' = "gaveUp"
    /\ UNCHANGED <<queueVars, writer, batchVars, txVars, dbVars, degrade, closer, barrier,
                   faultVars>>

CloseCall ==
    /\ closer = "open"
    /\ closer' = "draining"
    /\ UNCHANGED <<queueVars, writer, batchVars, txVars, dbVars, degrade, syncer, barrier,
                   faultVars>>

CloseDeadline ==
    /\ closer = "draining"
    /\ closer' = "grace"
    /\ degrade' = TRUE
    /\ UNCHANGED <<queueVars, writer, batchVars, txVars, dbVars, syncer, barrier, faultVars>>

\* The writer is done, or the grace is over and the database is left to it.
CloseEnd ==
    /\ \/ closer \in {"draining", "grace"} /\ writer = "done" /\ closer' = "closed"
       \/ closer = "grace" /\ writer # "done" /\ closer' = "left"
    /\ UNCHANGED <<queueVars, writer, batchVars, txVars, dbVars, degrade, syncer, barrier,
                   faultVars>>

HistoryNext ==
    \/ Enqueue
    \/ Receive \/ FlushTick \/ SyncReceive \/ SyncReply \/ LastFlush
    \/ Begin \/ BeginFails \/ TakeCounts \/ Insert \/ PersistMeta
    \/ Commit \/ CommitFails \/ ReleaseBytes
    \/ SyncCall \/ SyncAfterDone \/ SyncGivesUp
    \/ CloseCall \/ CloseDeadline \/ CloseEnd

HistorySpec == HistoryInit /\ [][HistoryNext]_historyVars

-----------------------------------------------------------------------------
(* Properties.                                                             *)

Items == [n : 1..MaxItems, full : BOOLEAN]
Counts == [{"dropped", "overflow", "errors"} -> 0..(MaxItems + MaxFaults) * (MaxFaults + 1)]

\* Every variable holds what the Store declares, the queues keep their caps, and
\* the bytes counted as queued are those of the items not yet released.
HistoryTypeOK ==
    /\ {channel, spill, batch, writing} \subseteq Seq(Items)
    /\ Len(channel) <= QueueSize /\ Len(spill) <= OverflowCap
    /\ queuedBytes = Bytes(channel) + Bytes(batch) + Bytes(writing)
    /\ queuedBytes <= MaxQueuedBytes
    /\ {rows, txRows} \subseteq Seq([n : 1..MaxItems, marker : BOOLEAN])
    /\ {tally, meta} \subseteq Counts
    /\ {dropped, errsPending, accepted, barrier, faults, failures} \subseteq Nat
    /\ pos \in 0..Len(writing)
    /\ unmet \subseteq DOMAIN meta \cup {"stamp"}
    /\ degrade \in BOOLEAN
    /\ writer \in {"select", "begin", "takeCounts", "insert", "commit", "release", "reply", "done"}
    /\ then \in {"select", "reply", "done"}
    /\ closer \in {"open", "draining", "grace", "closed", "left"}
    /\ syncer \in {"none", "asking", "waiting", "released", "gaveUp"}

\* The items of the batch whose outcome is open.
Undecided == IF writer \in {"begin", "takeCounts", "insert"} THEN Len(writing) - pos ELSE 0

\* The items that are in no queue, in no transaction and in no row.
Missing == accepted - (Len(channel) + Len(spill) + Len(batch) + Undecided
                       + Len(txRows) + Len(rows))

DropsCounted == meta.dropped + dropped + tally.dropped
ErrorsCounted == meta.errors + errsPending + tally.errors

\* writer.go:107: no count is cleared without reaching meta.  Whatever the
\* database refuses, and however full the queue, every lost item and every failed
\* insert is counted: in meta, or where the next batch finds it.
NoLossUncounted == Missing <= DropsCounted /\ failures <= ErrorsCounted

RowsInOrder == \A i, j \in DOMAIN (rows \o txRows) :
    i < j => (rows \o txRows)[i].n < (rows \o txRows)[j].n

Queued == Numbers(channel) \cup Numbers(spill) \cup Numbers(batch) \cup Numbers(writing)

\* store.go:123: the order is that of the Enqueue calls, whichever way an item
\* took: the rows' seq numbers follow it, a Sync that returned has nothing of
\* before its call left in a queue, and a writer that ended has nothing left.
HistoryInOrder ==
    /\ RowsInOrder
    /\ syncer = "released" => \A n \in Queued : n > barrier
    /\ writer = "done" => Queued = {}
=============================================================================
