-------------------------- MODULE HistoryQueue_proofs --------------------------
(* Theorems about HistoryQueue, for any sizes of its queues and any number of *)
(* items and failures, and at the end about the types of all the places a     *)
(* tool call passes.                                                         *)
EXTENDS MCCalls, ServeProxy_proofs, EditGuards_proofs, Integers, SequenceTheorems,
        FunctionTheorems, FiniteSetTheorems, TLAPS

Item == [n : 1..MaxItems, full : BOOLEAN]
Row == [n : 1..MaxItems, marker : BOOLEAN]
Counters == [{"dropped", "overflow", "errors"} -> Nat]
Busy == {"begin", "takeCounts", "insert", "commit", "release"}
Rests == {"select", "reply", "done"}

HistoryTypes ==
    /\ channel \in Seq(Item) /\ spill \in Seq(Item)
    /\ batch \in Seq(Item) /\ writing \in Seq(Item)
    /\ txRows \in Seq(Row) /\ rows \in Seq(Row)
    /\ dropped \in Nat /\ errsPending \in Nat /\ accepted \in 0..MaxItems /\ barrier \in Nat
    /\ failures \in Nat /\ pos \in 0..Len(writing)
    /\ tally \in Counters /\ meta \in Counters
    /\ writer \in Busy \cup Rests /\ then \in Rests

\* What a transaction has is empty outside it, and a batch is gone when its
\* writeBatch has returned.
Phase ==
    /\ writer \notin {"insert", "commit"} => pos = 0 /\ txRows = <<>> /\ tally = NoTally
    /\ writer = "commit" => pos = Len(writing)
    /\ writer \in Rests => writing = <<>>

Increasing(q) == \A i, j \in 1..Len(q) : i < j => q[i].n < q[j].n
Before(A, B) == \A a \in A, b \in B : a < b

\* The items of the batch that are still to be inserted, and those behind them.
Open == IF writer \in {"begin", "takeCounts", "insert"}
        THEN {writing[i].n : i \in (pos + 1)..Len(writing)} ELSE {}
Waiting == Numbers(batch) \cup Numbers(channel) \cup Numbers(spill)

\* An item is older than all that come behind it, wherever they are.
Line(stored, inTx, open, collected, queued, spilt, newest) ==
    /\ Before(stored, inTx \cup open \cup collected \cup queued \cup spilt)
    /\ Before(inTx, open \cup collected \cup queued \cup spilt)
    /\ Before(open, collected \cup queued \cup spilt)
    /\ Before(collected, queued \cup spilt)
    /\ Before(queued, spilt)
    /\ stored \cup inTx \cup open \cup collected \cup queued \cup spilt \subseteq 0..newest

Sorted ==
    /\ Increasing(rows) /\ Increasing(txRows) /\ Increasing(writing)
    /\ Increasing(batch) /\ Increasing(channel) /\ Increasing(spill)

InLine ==
    /\ Sorted
    /\ Line(Numbers(rows), Numbers(txRows), Open, Numbers(batch), Numbers(channel),
            Numbers(spill), accepted)

\* What is behind a Sync, and what is left for a writer about to end.
SyncPhase ==
    /\ barrier =< accepted
    /\ syncer = "waiting" => /\ writer = "reply" \/ (writer \in Busy /\ then = "reply")
                             /\ \A n \in Waiting : n > barrier
    /\ syncer = "released" => \A n \in Queued : n > barrier
    /\ writer = "done" \/ (writer \in Busy /\ then = "done")
          => Closed /\ channel = <<>> /\ spill = <<>> /\ batch = <<>>

\* The queues keep their caps, and the bytes are those of the items not released;
\* what waits on the overflow list has none.
Caps ==
    /\ Len(channel) =< QueueSize /\ Len(spill) =< OverflowCap
    /\ queuedBytes = Bytes(channel) + Bytes(batch) + Bytes(writing)
    /\ queuedBytes =< MaxQueuedBytes
    /\ Bytes(spill) = 0

\* The other variables.
Ends ==
    /\ unmet \subseteq {"dropped", "overflow", "errors", "stamp"}
    /\ degrade \in BOOLEAN
    /\ closer \in {"open", "draining", "grace", "closed", "left"}
    /\ syncer \in {"none", "asking", "waiting", "released", "gaveUp"}

\* The items that have a place.
Held == Len(channel) + Len(spill) + Len(batch) + Undecided + Len(txRows) + Len(rows)

\* The failed operations, without a persistMeta that is not committed yet.
Again == IF unmet = {} THEN faults ELSE faults - 1

\* A loss is counted where it happened, and once more for each batch some of whose
\* statements failed.  A transaction counts no more markers than it has rows.
Budget ==
    /\ faults \in 0..MaxFaults /\ failures =< faults
    /\ unmet # {} => faults > 0 /\ writer = "commit"
    /\ dropped + tally.dropped + Held =< accepted
    /\ errsPending + tally.errors =< failures
    /\ tally.overflow =< Len(txRows) /\ meta.overflow =< Len(rows)
    /\ DropsCounted + Held =< accepted + Again * MaxItems
    /\ ErrorsCounted =< failures + Again * MaxFaults

HistoryInv ==
    /\ HistoryTypes /\ Phase /\ NoLossUncounted /\ InLine /\ SyncPhase
    /\ Caps /\ Ends /\ Budget

-----------------------------------------------------------------------------
(* The constants.                                                            *)

LEMMA SizesAre ==
    /\ QueueSize \in Nat /\ OverflowCap \in Nat /\ MaxQueuedBytes \in Nat
    /\ MaxItems \in Nat /\ MaxFaults \in Nat
BY HistoryAssumption DEF HistoryAssumption

\* The item that an Enqueue numbers is one.
LEMMA NextItemIs ==
    ASSUME HistoryTypes, accepted < MaxItems, NEW b \in BOOLEAN
    PROVE  /\ [n |-> accepted + 1, full |-> b] \in Item
           /\ accepted + 1 \in 0..MaxItems
BY SizesAre DEF HistoryTypes, Item

-----------------------------------------------------------------------------
(* Sequences of items.                                                       *)

LEMMA NumbersAre ==
    ASSUME NEW S, NEW q \in Seq(S)
    PROVE  /\ Numbers(q) = {q[i].n : i \in 1..Len(q)}
           /\ \A i \in 1..Len(q) : q[i].n \in Numbers(q)
           /\ \A n \in Numbers(q) : \E i \in 1..Len(q) : n = q[i].n
<1>1. DOMAIN q = 1..Len(q)
  OBVIOUS
<1> QED
  BY <1>1 DEF Numbers

LEMMA NumbersOfNone == Numbers(<<>>) = {} /\ Increasing(<<>>) /\ Len(<<>>) = 0
BY DEF Numbers, Increasing

LEMMA NumbersOfConcat ==
    ASSUME NEW S, NEW q \in Seq(S), NEW r \in Seq(S)
    PROVE  /\ q \o r \in Seq(S) /\ Len(q \o r) = Len(q) + Len(r)
           /\ Numbers(q \o r) = Numbers(q) \cup Numbers(r)
           /\ Increasing(q) /\ Increasing(r) /\ Before(Numbers(q), Numbers(r))
                 => Increasing(q \o r)
<1>1. /\ q \o r \in Seq(S) /\ Len(q \o r) = Len(q) + Len(r)
      /\ Len(q) \in Nat /\ Len(r) \in Nat
      /\ \A i \in 1..Len(q) : (q \o r)[i] = q[i]
      /\ \A i \in 1..Len(r) : (q \o r)[Len(q) + i] = r[i]
  BY ConcatProperties
<1>2. \A k \in 1..Len(q \o r) : k \in 1..Len(q) \/ \E i \in 1..Len(r) : k = Len(q) + i
  <2> SUFFICES ASSUME NEW k \in 1..Len(q \o r), k \notin 1..Len(q)
               PROVE  \E i \in 1..Len(r) : k = Len(q) + i
    OBVIOUS
  <2>1. k - Len(q) \in 1..Len(r) /\ k = Len(q) + (k - Len(q))
    BY <1>1
  <2> QED
    BY <2>1
<1>3. Numbers(q \o r) \subseteq Numbers(q) \cup Numbers(r)
  <2> SUFFICES ASSUME NEW n \in Numbers(q \o r) PROVE n \in Numbers(q) \cup Numbers(r)
    OBVIOUS
  <2>1. PICK k \in 1..Len(q \o r) : n = (q \o r)[k].n
    BY <1>1, NumbersAre
  <2>2. CASE k \in 1..Len(q)
    BY <1>1, <2>1, <2>2, NumbersAre
  <2>3. CASE \E i \in 1..Len(r) : k = Len(q) + i
    BY <1>1, <2>1, <2>3, NumbersAre
  <2> QED
    BY <1>2, <2>2, <2>3
<1>4. Numbers(q) \subseteq Numbers(q \o r)
  <2> SUFFICES ASSUME NEW n \in Numbers(q) PROVE n \in Numbers(q \o r)
    OBVIOUS
  <2>1. PICK i \in 1..Len(q) : n = q[i].n
    BY NumbersAre
  <2>2. i \in 1..Len(q \o r) /\ n = (q \o r)[i].n
    BY <1>1, <2>1
  <2> QED
    BY <1>1, <2>2, NumbersAre
<1>5. Numbers(r) \subseteq Numbers(q \o r)
  <2> SUFFICES ASSUME NEW n \in Numbers(r) PROVE n \in Numbers(q \o r)
    OBVIOUS
  <2>1. PICK i \in 1..Len(r) : n = r[i].n
    BY NumbersAre
  <2>2. Len(q) + i \in 1..Len(q \o r) /\ n = (q \o r)[Len(q) + i].n
    BY <1>1, <2>1
  <2> QED
    BY <1>1, <2>2, NumbersAre
<1>6. ASSUME Increasing(q), Increasing(r), Before(Numbers(q), Numbers(r)),
             NEW k \in 1..Len(q \o r), NEW l \in 1..Len(q \o r), k < l
      PROVE  (q \o r)[k].n < (q \o r)[l].n
  <2>1. CASE k \in 1..Len(q) /\ l \in 1..Len(q)
    BY <1>1, <1>6, <2>1 DEF Increasing
  <2>2. ASSUME k \in 1..Len(q), NEW j \in 1..Len(r), l = Len(q) + j
        PROVE  (q \o r)[k].n < (q \o r)[l].n
    BY <1>1, <1>6, <2>2, NumbersAre DEF Before
  <2>3. ASSUME NEW i \in 1..Len(r), k = Len(q) + i, NEW j \in 1..Len(r), l = Len(q) + j
        PROVE  (q \o r)[k].n < (q \o r)[l].n
    <3>1. i < j
      BY <1>1, <1>6, <2>3
    <3> QED
      BY <1>1, <1>6, <2>3, <3>1 DEF Increasing
  <2>4. ASSUME NEW i \in 1..Len(r), k = Len(q) + i, l \in 1..Len(q) PROVE FALSE
    BY <1>1, <1>6, <2>4
  <2> QED
    BY <1>2, <2>1, <2>2, <2>3, <2>4
<1> QED
  BY <1>1, <1>3, <1>4, <1>5, <1>6 DEF Increasing

LEMMA NumbersOfAppend ==
    ASSUME NEW S, NEW q \in Seq(S), NEW e \in S
    PROVE  /\ Append(q, e) \in Seq(S) /\ Len(Append(q, e)) = Len(q) + 1
           /\ Numbers(Append(q, e)) = Numbers(q) \cup {e.n}
           /\ Increasing(q) /\ Before(Numbers(q), {e.n}) => Increasing(Append(q, e))
<1>1. <<e>> \in Seq(S) /\ Len(<<e>>) = 1 /\ <<e>>[1] = e
  OBVIOUS
<1>2. Append(q, e) = q \o <<e>>
  BY AppendIsConcat
<1> DEFINE r == <<e>>
<1>3. r \in Seq(S) /\ Len(r) = 1 /\ r[1] = e /\ 1..Len(r) = {1}
  BY <1>1
<1> HIDE DEF r
<1>4. Numbers(r) = {e.n}
  <2>1. \A n \in Numbers(r) : n = e.n
    BY <1>3, NumbersAre
  <2>2. e.n \in Numbers(r)
    BY <1>3, NumbersAre
  <2> QED
    BY <2>1, <2>2
<1>5. Increasing(r)
  BY <1>3 DEF Increasing
<1>6. Append(q, e) = q \o r
  BY <1>2 DEF r
<1>7. /\ q \o r \in Seq(S) /\ Len(q \o r) = Len(q) + Len(r)
      /\ Numbers(q \o r) = Numbers(q) \cup Numbers(r)
      /\ Increasing(q) /\ Increasing(r) /\ Before(Numbers(q), Numbers(r))
            => Increasing(q \o r)
  BY <1>3, NumbersOfConcat
<1> QED
  BY <1>3, <1>4, <1>5, <1>6, <1>7

LEMMA NumbersOfTail ==
    ASSUME NEW S, NEW q \in Seq(S), q # <<>>
    PROVE  /\ Head(q) \in S /\ Tail(q) \in Seq(S) /\ Len(Tail(q)) = Len(q) - 1
           /\ Numbers(Tail(q)) \subseteq Numbers(q) /\ Head(q).n \in Numbers(q)
           /\ Increasing(q) => Increasing(Tail(q)) /\ Before({Head(q).n}, Numbers(Tail(q)))
<1>1. /\ Head(q) \in S /\ Tail(q) \in Seq(S) /\ Len(Tail(q)) = Len(q) - 1
      /\ \A i \in 1..Len(Tail(q)) : Tail(q)[i] = q[i + 1]
      /\ Head(q) = q[1] /\ Len(q) \in Nat /\ Len(q) > 0
  BY HeadTailProperties
<1>2. Numbers(Tail(q)) \subseteq Numbers(q) /\ Head(q).n \in Numbers(q)
  <2>1. 1 \in 1..Len(q)
    BY <1>1
  <2>2. Head(q).n \in Numbers(q)
    BY <1>1, <2>1, NumbersAre
  <2>3. ASSUME NEW n \in Numbers(Tail(q)) PROVE n \in Numbers(q)
    <3>1. PICK i \in 1..Len(Tail(q)) : n = Tail(q)[i].n
      BY <1>1, NumbersAre
    <3>2. i + 1 \in 1..Len(q) /\ n = q[i + 1].n
      BY <1>1, <3>1
    <3> QED
      BY <3>2, NumbersAre
  <2> QED
    BY <2>2, <2>3
<1>3. ASSUME Increasing(q) PROVE Increasing(Tail(q))
  <2> SUFFICES ASSUME NEW i \in 1..Len(Tail(q)), NEW j \in 1..Len(Tail(q)), i < j
               PROVE  Tail(q)[i].n < Tail(q)[j].n
    BY DEF Increasing
  <2>1. i + 1 \in 1..Len(q) /\ j + 1 \in 1..Len(q) /\ i + 1 < j + 1
    BY <1>1
  <2> QED
    BY <1>1, <1>3, <2>1 DEF Increasing
<1>4. ASSUME Increasing(q), NEW n \in Numbers(Tail(q)) PROVE Head(q).n < n
  <2>1. PICK i \in 1..Len(Tail(q)) : n = Tail(q)[i].n
    BY <1>1, NumbersAre
  <2>2. i + 1 \in 1..Len(q) /\ 1 \in 1..Len(q) /\ 1 < i + 1 /\ n = q[i + 1].n
    BY <1>1, <2>1
  <2> QED
    BY <1>1, <1>4, <2>2 DEF Increasing
<1> QED
  BY <1>1, <1>2, <1>3, <1>4 DEF Before

\* The places of the items that have their content.
Whole(q) == {i \in 1..Len(q) : q[i].full}

LEMMA BytesAre ==
    ASSUME NEW S, NEW q \in Seq(S)
    PROVE  Bytes(q) = Cardinality(Whole(q)) /\ IsFiniteSet(Whole(q)) /\ Bytes(q) \in Nat
<1>1. DOMAIN q = 1..Len(q) /\ Len(q) \in Int /\ 1 \in Int
  OBVIOUS
<1>2. IsFiniteSet(1..Len(q))
  BY <1>1, FS_Interval
<1>3. Whole(q) \subseteq 1..Len(q)
  BY DEF Whole
<1>4. IsFiniteSet(Whole(q))
  BY <1>2, <1>3, FS_Subset
<1>5. Cardinality(Whole(q)) \in Nat
  BY <1>4, FS_CardinalityType
<1>6. Bytes(q) = Cardinality(Whole(q))
  BY <1>1 DEF Bytes, Whole
<1> QED
  BY <1>4, <1>5, <1>6

LEMMA BytesOfNone == Bytes(<<>>) = 0
<1>1. <<>> \in Seq({}) /\ Whole(<<>>) = {}
  BY DEF Whole
<1> QED
  BY <1>1, BytesAre, FS_EmptySet

LEMMA BytesOfConcat ==
    ASSUME NEW S, NEW q \in Seq(S), NEW r \in Seq(S)
    PROVE  Bytes(q \o r) = Bytes(q) + Bytes(r)
<1>1. /\ q \o r \in Seq(S) /\ Len(q \o r) = Len(q) + Len(r)
      /\ Len(q) \in Nat /\ Len(r) \in Nat
      /\ \A i \in 1..Len(q) : (q \o r)[i] = q[i]
      /\ \A i \in 1..Len(r) : (q \o r)[Len(q) + i] = r[i]
  BY ConcatProperties
<1> DEFINE back == {i \in (Len(q) + 1)..(Len(q) + Len(r)) : (q \o r)[i].full}
           f == [i \in Whole(r) |-> Len(q) + i]
<1>2. Whole(q \o r) = Whole(q) \cup back
  <2>1. 1..Len(q \o r) = 1..Len(q) \cup (Len(q) + 1)..(Len(q) + Len(r))
    BY <1>1
  <2> QED
    BY <1>1, <2>1 DEF Whole
<1>3. Whole(q) \cap back = {}
  BY <1>1 DEF Whole
<1>4. f \in Bijection(Whole(r), back)
  <2>1. \A i \in Whole(r) : i \in 1..Len(r) /\ f[i] = Len(q) + i
    BY DEF Whole
  <2>2. ASSUME NEW i \in Whole(r) PROVE f[i] \in back
    BY <1>1, <2>1 DEF Whole
  <2>3. ASSUME NEW i \in Whole(r), NEW j \in Whole(r), f[i] = f[j] PROVE i = j
    BY <1>1, <2>1, <2>3
  <2>4. ASSUME NEW k \in back PROVE \E i \in Whole(r) : f[i] = k
    <3>1. k - Len(q) \in 1..Len(r) /\ k = Len(q) + (k - Len(q)) /\ (q \o r)[k].full
      BY <1>1
    <3>2. k - Len(q) \in Whole(r)
      BY <1>1, <3>1 DEF Whole
    <3> QED
      BY <2>1, <3>1, <3>2
  <2>5. f \in [Whole(r) -> back]
    BY <2>2
  <2> HIDE DEF f, back
  <2> QED
    BY <2>3, <2>4, <2>5, Fun_IsBij
<1>5. IsFiniteSet(back) /\ Cardinality(back) = Cardinality(Whole(r))
  <2> HIDE DEF f, back
  <2>1. IsFiniteSet(Whole(r))
    BY BytesAre
  <2>2. ExistsBijection(Whole(r), back)
    BY <1>4 DEF ExistsBijection
  <2> QED
    BY <2>1, <2>2, FS_Bijection
<1> HIDE DEF back
<1>6. Cardinality(Whole(q \o r)) = Cardinality(Whole(q)) + Cardinality(Whole(r)) - Cardinality({})
  BY <1>2, <1>3, <1>5, BytesAre, FS_Union
<1>7. /\ Bytes(q \o r) = Cardinality(Whole(q \o r))
      /\ Bytes(q) = Cardinality(Whole(q)) /\ Bytes(q) \in Nat
      /\ Bytes(r) = Cardinality(Whole(r)) /\ Bytes(r) \in Nat
  BY <1>1, BytesAre
<1>8. Bytes(q \o r) = Bytes(q) + Bytes(r) - 0
  BY <1>6, <1>7, FS_EmptySet
<1> QED
  BY <1>7, <1>8

LEMMA BytesOfOne ==
    ASSUME NEW e, e.full \in BOOLEAN
    PROVE  Bytes(<<e>>) = IF e.full THEN 1 ELSE 0
<1> DEFINE q == <<e>>
<1>1. q \in Seq({e}) /\ 1..Len(q) = {1} /\ q[1] = e
  OBVIOUS
<1> HIDE DEF q
<1>2. Bytes(q) = Cardinality(Whole(q))
  BY <1>1, BytesAre
<1>3. CASE e.full
  <2>1. Whole(q) = {1}
    BY <1>1, <1>3 DEF Whole
  <2> QED
    BY <1>2, <1>3, <2>1, FS_Singleton DEF q
<1>4. CASE ~ e.full
  <2>1. Whole(q) = {}
    BY <1>1, <1>4 DEF Whole
  <2> QED
    BY <1>2, <1>4, <2>1, FS_EmptySet DEF q
<1> QED
  BY <1>3, <1>4

LEMMA BytesOfAppend ==
    ASSUME NEW q \in Seq(Item), NEW e \in Item
    PROVE  Bytes(Append(q, e)) = Bytes(q) + (IF e.full THEN 1 ELSE 0)
<1> DEFINE one == <<e>>
<1>1. one \in Seq(Item) /\ Append(q, e) = q \o one
  BY AppendIsConcat
<1>2. Bytes(one) = IF e.full THEN 1 ELSE 0
  BY BytesOfOne DEF Item
<1> HIDE DEF one
<1> QED
  BY <1>1, <1>2, BytesOfConcat

\* A move from the head of one queue to the end of another.
LEMMA BytesOfMove ==
    ASSUME NEW q \in Seq(Item), NEW r \in Seq(Item), r # <<>>
    PROVE  Bytes(Append(q, Head(r))) + Bytes(Tail(r)) = Bytes(q) + Bytes(r)
<1>1. Head(r) \in Item /\ Tail(r) \in Seq(Item) /\ r = <<Head(r)>> \o Tail(r)
  BY HeadTailProperties
<1> DEFINE h == <<Head(r)>>
<1>2. h \in Seq(Item) /\ Append(q, Head(r)) = q \o h /\ r = h \o Tail(r)
  BY <1>1, AppendIsConcat
<1> HIDE DEF h
<1>3. Bytes(Append(q, Head(r))) = Bytes(q) + Bytes(h) /\ Bytes(r) = Bytes(h) + Bytes(Tail(r))
  BY <1>1, <1>2, BytesOfConcat
<1>4. Bytes(q) \in Nat /\ Bytes(h) \in Nat /\ Bytes(Tail(r)) \in Nat
  BY <1>1, <1>2, BytesAre
<1> QED
  BY <1>3, <1>4

-----------------------------------------------------------------------------
(* Types, and where the writer is.                                           *)

LEMMA NoTallyIs == NoTally \in Counters /\ NoTally.dropped = 0 /\ NoTally.errors = 0
BY DEF NoTally, Counters

LEMMA TakenIs ==
    ASSUME HistoryTypes
    PROVE  /\ batch \o channel \o spill \in Seq(Item)
           /\ Len(batch \o channel \o spill) = Len(batch) + Len(channel) + Len(spill)
BY ConcatProperties DEF HistoryTypes

LEMMA WriteIs ==
    ASSUME NEW items, NEW s \in Rests, Write(items, s)
    PROVE  /\ writing' = items
           /\ \/ items = <<>> /\ writer' = s /\ then' = then
              \/ writer' = "begin" /\ then' = s
BY DEF Write

\* Receive either collects the item or has the batch written.
LEMMA ReceiveIs ==
    ASSUME HistoryTypes, Phase, Receive
    PROVE  /\ writer = "select" /\ channel # <<>> /\ channel' = Tail(channel)
           /\ Head(channel) \in Item /\ Tail(channel) \in Seq(Item)
           /\ Len(Tail(channel)) = Len(channel) - 1
           /\ Append(batch, Head(channel)) \in Seq(Item)
           /\ Len(Append(batch, Head(channel))) = Len(batch) + 1
           /\ \/ /\ writing' = Append(batch, Head(channel)) /\ batch' = <<>>
                 /\ writer' = "begin" /\ then' = "select"
              \/ /\ batch' = Append(batch, Head(channel)) /\ UNCHANGED <<writer, writing, then>>
           /\ UNCHANGED <<spill, queuedBytes, dropped, errsPending, accepted, txVars, dbVars,
                          endVars, faultVars>>
<1>1. channel # <<>> /\ channel \in Seq(Item) /\ batch \in Seq(Item)
  BY DEF Receive, HistoryTypes
<1>2. /\ Head(channel) \in Item /\ Tail(channel) \in Seq(Item)
      /\ Len(Tail(channel)) = Len(channel) - 1
  BY <1>1, HeadTailProperties
<1>3. /\ Append(batch, Head(channel)) \in Seq(Item) /\ Append(batch, Head(channel)) # <<>>
      /\ Len(Append(batch, Head(channel))) = Len(batch) + 1
  BY <1>1, <1>2, AppendProperties
<1> QED
  BY <1>1, <1>2, <1>3, WriteIs DEF Receive, Rests

LEMMA NextTypes == HistoryTypes /\ Phase /\ [HistoryNext]_historyVars => HistoryTypes' /\ Phase'
<1> SUFFICES ASSUME HistoryTypes, Phase, [HistoryNext]_historyVars PROVE HistoryTypes' /\ Phase'
  OBVIOUS
<1> USE DEF Busy, Rests
<1>1. \A q \in Seq(Item) : Len(q) \in Nat
  OBVIOUS
<1>2. CASE Enqueue
  <2>1. /\ channel \in Seq(Item) /\ spill \in Seq(Item) /\ accepted' = accepted + 1
        /\ accepted \in Nat /\ dropped \in Nat
    BY <1>2, SizesAre DEF HistoryTypes, Enqueue
  <2> DEFINE whole == [n |-> accepted + 1, full |-> TRUE]
             stub == [n |-> accepted + 1, full |-> FALSE]
  <2>2. whole \in Item /\ stub \in Item /\ accepted' \in 0..MaxItems
    BY <1>2, <2>1, NextItemIs DEF Enqueue
  <2>3. /\ channel' \in {channel, Append(channel, whole)}
        /\ spill' \in {spill, Append(spill, stub)}
        /\ dropped' \in {dropped, dropped + 1}
    BY <1>2 DEF Enqueue
  <2> HIDE DEF whole, stub
  <2>4. channel' \in Seq(Item) /\ spill' \in Seq(Item) /\ dropped' \in Nat
    <3>1. Append(channel, whole) \in Seq(Item) /\ Append(spill, stub) \in Seq(Item)
      BY <2>1, <2>2, AppendProperties
    <3>2. channel' \in Seq(Item)
      BY <2>1, <2>3, <3>1
    <3>3. spill' \in Seq(Item)
      BY <2>1, <2>3, <3>1
    <3>4. dropped' \in Nat
      BY <2>1, <2>3
    <3> QED
      BY <3>2, <3>3, <3>4
  <2>5. UNCHANGED <<errsPending, writer, batchVars, txVars, dbVars, endVars, faultVars>>
    BY <1>2 DEF Enqueue
  <2> QED
    BY <2>2, <2>4, <2>5
       DEF HistoryTypes, Phase, batchVars, txVars, dbVars, endVars, faultVars
<1>3. CASE Receive
  <2>1. /\ writer = "select" /\ channel' \in Seq(Item)
        /\ Append(batch, Head(channel)) \in Seq(Item)
        /\ \/ /\ writing' = Append(batch, Head(channel)) /\ batch' = <<>>
              /\ writer' = "begin" /\ then' = "select"
           \/ /\ batch' = Append(batch, Head(channel)) /\ UNCHANGED <<writer, writing, then>>
        /\ UNCHANGED <<spill, dropped, errsPending, accepted, pos, txRows, tally, rows, meta,
                       barrier, failures>>
    BY <1>3, ReceiveIs DEF txVars, dbVars, endVars, faultVars
  <2>2. <<>> \in Seq(Item) /\ pos = 0 /\ writing = <<>>
    BY <2>1 DEF Phase
  <2>3. writing' \in Seq(Item) /\ batch' \in Seq(Item) /\ pos' \in 0..Len(writing')
    <3> DEFINE more == Append(batch, Head(channel))
    <3>1. more \in Seq(Item) /\ batch \in Seq(Item) /\ writing \in Seq(Item)
      BY <2>1 DEF HistoryTypes
    <3>2. /\ \/ writing' = more /\ batch' = <<>>
             \/ batch' = more /\ writing' = writing
          /\ pos' = 0
      BY <2>1, <2>2
    <3> HIDE DEF more
    <3>3. writing' \in Seq(Item) /\ batch' \in Seq(Item)
      BY <2>2, <3>1, <3>2
    <3>4. Len(writing') \in Nat
      BY <1>1, <3>3
    <3> QED
      BY <3>2, <3>3, <3>4
  <2> QED
    BY <2>1, <2>2, <2>3 DEF HistoryTypes, Phase
<1>4. ASSUME NEW s \in Rests, writer = "select", TakeQueued(s), FlushUnchanged
      PROVE  HistoryTypes' /\ Phase'
  <2>1. batch \o channel \o spill \in Seq(Item) /\ <<>> \in Seq(Item)
    BY TakenIs
  <2>2. /\ writing' = batch \o channel \o spill /\ batch' = <<>> /\ channel' = <<>> /\ spill' = <<>>
        /\ \/ writing' = <<>> /\ writer' = s /\ then' = then
           \/ writer' = "begin" /\ then' = s
    BY <1>4, WriteIs DEF TakeQueued
  <2>3. /\ UNCHANGED <<dropped, errsPending, accepted, pos, txRows, tally, rows, meta, barrier, failures>>
    BY <1>4 DEF FlushUnchanged, txVars, dbVars, faultVars
  <2> QED
    BY <1>1, <1>4, <2>1, <2>2, <2>3 DEF HistoryTypes, Phase
<1>5. CASE FlushTick \/ SyncReceive \/ LastFlush
  BY <1>4, <1>5 DEF FlushTick, SyncReceive, LastFlush
<1>6. CASE SyncReply
  BY <1>6 DEF SyncReply, HistoryTypes, Phase, queueVars, batchVars, txVars, dbVars, faultVars
<1>7. CASE Begin
  BY <1>7 DEF Begin, HistoryTypes, Phase, queueVars, batchVars, txVars, dbVars, endVars, faultVars
<1>8. CASE BeginFails
  BY <1>1, <1>8 DEF BeginFails, GiveBack, HistoryTypes, Phase, batchVars, txVars, dbVars, endVars
<1>9. CASE TakeCounts
  <2>1. [dropped |-> dropped, overflow |-> 0, errors |-> errsPending] \in Counters
    BY DEF HistoryTypes, Counters
  <2> QED
    BY <1>9, <2>1 DEF TakeCounts, HistoryTypes, Phase, batchVars, dbVars, endVars, faultVars
<1>10. CASE Insert
  <2>1. /\ writer = "insert" /\ pos \in 0..Len(writing) /\ pos < Len(writing) /\ pos' = pos + 1
        /\ writing \in Seq(Item) /\ txRows \in Seq(Row) /\ tally \in Counters /\ failures \in Nat
        /\ UNCHANGED <<queueVars, writer, batchVars, unmet, dbVars, endVars>>
    BY <1>10 DEF Insert, HistoryTypes
  <2>2. writing[pos + 1] \in Item /\ pos' \in 0..Len(writing)
    BY <1>1, <2>1
  <2>3. writing[pos + 1].n \in 1..MaxItems
    BY <2>2 DEF Item
  <2> DEFINE e(m) == [n |-> writing[pos + 1].n, marker |-> m]
  <2>4. \A m \in BOOLEAN : e(m) \in Row
    BY <2>3 DEF Row
  <2>5. \A m \in BOOLEAN : Append(txRows, e(m)) \in Seq(Row)
    BY <2>1, <2>4, AppendProperties
  <2>6. \/ txRows' = txRows \/ \E m \in BOOLEAN : txRows' = Append(txRows, e(m))
    <3>1. \A m : Landed(m) => txRows' = Append(txRows, e(m))
      BY DEF Landed
    <3> DEFINE marker == ~ writing[pos + 1].full \/ degrade
    <3>2. marker \in BOOLEAN
      OBVIOUS
    <3>3. \/ txRows' = txRows \/ Landed(marker) \/ Landed(TRUE)
      BY <1>10 DEF Insert, InsertRow, InsertMarker, InsertNothing
    <3> HIDE DEF marker, e
    <3> QED
      BY <3>1, <3>2, <3>3
  <2>7. txRows' \in Seq(Row)
    <3> HIDE DEF e
    <3> QED
      BY <2>1, <2>5, <2>6
  <2>8. failures' \in {failures, failures + 1}
    BY <1>10 DEF Insert, InsertRow, InsertMarker, InsertNothing, faultVars
  <2>9. tally' \in Counters
    <3>1. /\ tally.dropped + 1 \in Nat /\ tally.overflow + 1 \in Nat /\ tally.errors + 1 \in Nat
          /\ tally.overflow + 0 \in Nat
      BY <2>1 DEF Counters
    <3>2. CASE InsertRow
      <4>1. \/ tally' = [tally EXCEPT !.overflow = @ + 1]
            \/ tally' = [tally EXCEPT !.overflow = @ + 0]
        BY <3>2 DEF InsertRow
      <4> QED
        BY <2>1, <3>1, <4>1 DEF Counters
    <3>3. CASE InsertMarker
      BY <2>1, <3>1, <3>3 DEF InsertMarker, Counters
    <3>4. CASE InsertNothing
      BY <2>1, <3>1, <3>4 DEF InsertNothing, Counters
    <3> QED
      BY <1>10, <3>2, <3>3, <3>4 DEF Insert
  <2> QED
    BY <2>1, <2>2, <2>7, <2>8, <2>9 DEF HistoryTypes, Phase, queueVars, batchVars, dbVars, endVars
<1>11. CASE PersistMeta
  BY <1>11 DEF PersistMeta, HistoryTypes, Phase, queueVars, batchVars, dbVars, endVars
<1>12. CASE Commit
  <2>1. rows \o txRows \in Seq(Row)
    BY ConcatProperties DEF HistoryTypes
  <2>2. /\ tally \in Counters /\ meta \in Counters /\ Returned \in Counters
        /\ dropped \in Nat /\ errsPending \in Nat
    BY NoTallyIs DEF HistoryTypes, Returned
  <2>3. /\ DOMAIN meta = {"dropped", "overflow", "errors"}
        /\ \A c \in {"dropped", "overflow", "errors"} : meta[c] \in Nat /\ tally[c] \in Nat
        /\ Returned.dropped \in Nat /\ Returned.errors \in Nat
    BY <2>2 DEF Counters
  <2>4. ASSUME NEW c \in {"dropped", "overflow", "errors"}
        PROVE  meta[c] + (IF c \in unmet THEN 0 ELSE tally[c]) \in Nat
    <3>1. meta[c] \in Nat /\ tally[c] \in Nat
      BY <2>3
    <3> QED
      BY <3>1
  <2>5. meta' = [c \in {"dropped", "overflow", "errors"} |->
                    meta[c] + (IF c \in unmet THEN 0 ELSE tally[c])]
    BY <1>12, <2>3 DEF Commit
  <2>6. meta' \in Counters
    BY <2>4, <2>5 DEF Counters
  <2>7. dropped' \in Nat /\ errsPending' \in Nat
    <3>1. dropped' = dropped + Returned.dropped /\ errsPending' = errsPending + Returned.errors
      BY <1>12 DEF Commit, GiveBack
    <3>2. Returned.dropped \in Nat /\ Returned.errors \in Nat
      BY <2>3
    <3>3. dropped \in Nat /\ errsPending \in Nat
      BY <2>2
    <3> QED
      BY <3>1, <3>2, <3>3
  <2>8. /\ writer' = "release" /\ pos' = 0 /\ txRows' = <<>> /\ tally' = NoTally
        /\ rows' = rows \o txRows
        /\ UNCHANGED <<channel, spill, accepted, batch, writing, then, barrier, failures>>
    BY <1>12 DEF Commit, batchVars, endVars, faultVars
  <2> QED
    BY <1>1, <2>1, <2>7, <2>6, <2>8, NoTallyIs DEF HistoryTypes, Phase
<1>13. CASE CommitFails
  <2>1. Len(txRows) \in Nat /\ tally.dropped \in Nat /\ tally.errors \in Nat
    BY DEF HistoryTypes, Counters
  <2>2. dropped' \in Nat /\ errsPending' \in Nat
    <3>1. /\ dropped' = dropped + (tally.dropped + Len(txRows))
          /\ errsPending' = errsPending + tally.errors
      BY <1>13 DEF CommitFails, GiveBack
    <3>2. dropped \in Nat /\ errsPending \in Nat
      BY DEF HistoryTypes
    <3> QED
      BY <2>1, <3>1, <3>2
  <2> QED
    BY <1>1, <1>13, <2>2, NoTallyIs DEF CommitFails, HistoryTypes, Phase, batchVars, dbVars, endVars
<1>14. CASE ReleaseBytes
  BY <1>1, <1>14 DEF ReleaseBytes, HistoryTypes, Phase, txVars, dbVars, endVars, faultVars
<1>15. CASE SyncCall
  BY <1>15 DEF SyncCall, HistoryTypes, Phase, queueVars, batchVars, txVars, dbVars, faultVars
<1>16. CASE SyncAfterDone \/ SyncGivesUp
  BY <1>16 DEF SyncAfterDone, SyncGivesUp, HistoryTypes, Phase, queueVars, batchVars, txVars,
               dbVars, faultVars
<1>17. CASE CloseCall \/ CloseDeadline \/ CloseEnd
  BY <1>17 DEF CloseCall, CloseDeadline, CloseEnd, HistoryTypes, Phase, queueVars, batchVars,
               txVars, dbVars, faultVars
<1>18. CASE UNCHANGED historyVars
  BY <1>18 DEF historyVars, HistoryTypes, Phase, queueVars, batchVars, txVars, dbVars, endVars,
               faultVars
<1> QED
  BY <1>2, <1>3, <1>5, <1>6, <1>7, <1>8, <1>9, <1>10, <1>11, <1>12, <1>13, <1>14, <1>15, <1>16,
     <1>17, <1>18 DEF HistoryNext

-----------------------------------------------------------------------------
(* Bytes and caps.                                                           *)

\* A step that leaves the queues alone, or only ends what is empty.
LEMMA CapsKept ==
    ASSUME Caps, UNCHANGED <<channel, spill, queuedBytes, batch, writing>> PROVE Caps'
BY DEF Caps, Bytes

LEMMA NextCaps == HistoryTypes /\ Phase /\ Caps /\ [HistoryNext]_historyVars => Caps'
<1> SUFFICES ASSUME HistoryTypes, Phase, Caps, [HistoryNext]_historyVars PROVE Caps'
  OBVIOUS
<1> USE SizesAre DEF Rests
<1>1. /\ channel \in Seq(Item) /\ spill \in Seq(Item) /\ batch \in Seq(Item)
      /\ writing \in Seq(Item)
      /\ Len(channel) \in Nat /\ Len(spill) \in Nat
  BY DEF HistoryTypes
<1>2. /\ Bytes(channel) \in Nat /\ Bytes(spill) \in Nat /\ Bytes(batch) \in Nat
      /\ Bytes(writing) \in Nat
  BY <1>1, BytesAre
<1>3. CASE Enqueue
  <2>1. UNCHANGED <<batch, writing>>
    BY <1>3 DEF Enqueue, batchVars
  <2> DEFINE whole == [n |-> accepted + 1, full |-> TRUE]
             stub == [n |-> accepted + 1, full |-> FALSE]
  <2>2. CASE Fits
    <3>1. /\ channel' = Append(channel, whole) /\ spill' = spill
          /\ queuedBytes' = queuedBytes + 1 /\ queuedBytes + 1 =< MaxQueuedBytes
          /\ Len(channel) < QueueSize
      BY <1>3, <2>2 DEF Enqueue, Fits
    <3>2. whole \in Item /\ whole.full = TRUE
      BY <1>3, NextItemIs DEF Enqueue
    <3> HIDE DEF whole
    <3>3. Len(channel') = Len(channel) + 1 /\ Bytes(channel') = Bytes(channel) + 1
      BY <1>1, <3>1, <3>2, AppendProperties, BytesOfAppend
    <3>4. Bytes(batch)' = Bytes(batch) /\ Bytes(writing)' = Bytes(writing) /\ Bytes(spill)' = Bytes(spill)
      BY <2>1, <3>1
    <3>5. Len(channel') =< QueueSize /\ Len(spill') =< OverflowCap /\ Bytes(spill)' = 0
      BY <1>1, <3>1, <3>3, <3>4 DEF Caps
    <3>6. queuedBytes' = Bytes(channel)' + Bytes(batch)' + Bytes(writing)'
      BY <1>2, <3>1, <3>3, <3>4 DEF Caps
    <3>7. queuedBytes' =< MaxQueuedBytes
      BY <3>1
    <3> QED
      BY <3>5, <3>6, <3>7 DEF Caps
  <2>3. CASE ~ Fits /\ Len(spill) >= OverflowCap
    BY <1>3, <2>1, <2>3, CapsKept DEF Enqueue
  <2>4. CASE ~ Fits /\ ~ Len(spill) >= OverflowCap
    <3>1. spill' = Append(spill, stub) /\ UNCHANGED <<channel, queuedBytes>>
      BY <1>3, <2>4 DEF Enqueue
    <3>2. stub \in Item /\ stub.full = FALSE
      BY <1>3, NextItemIs DEF Enqueue
    <3> HIDE DEF stub
    <3>3. Len(spill') = Len(spill) + 1 /\ Bytes(spill)' = Bytes(spill)
      BY <1>1, <1>2, <3>1, <3>2, AppendProperties, BytesOfAppend
    <3>4. /\ Bytes(batch)' = Bytes(batch) /\ Bytes(writing)' = Bytes(writing)
          /\ Bytes(channel)' = Bytes(channel)
      BY <2>1, <3>1
    <3> QED
      BY <1>1, <2>4, <3>1, <3>3, <3>4 DEF Caps
  <2> QED
    BY <2>2, <2>3, <2>4
<1>4. CASE Receive
  <2>1. /\ channel # <<>> /\ channel' = Tail(channel) /\ Len(Tail(channel)) = Len(channel) - 1
        /\ \/ writing' = Append(batch, Head(channel)) /\ batch' = <<>>
           \/ batch' = Append(batch, Head(channel)) /\ writing' = writing
        /\ UNCHANGED <<spill, queuedBytes>> /\ writing = <<>>
    BY <1>4, ReceiveIs DEF Phase
  <2>2. Bytes(Append(batch, Head(channel))) + Bytes(Tail(channel)) = Bytes(batch) + Bytes(channel)
    BY <1>1, <2>1, BytesOfMove
  <2>3. Bytes(Append(batch, Head(channel))) \in Nat /\ Bytes(Tail(channel)) \in Nat
    <3>1. Append(batch, Head(channel)) \in Seq(Item) /\ Tail(channel) \in Seq(Item)
      BY <1>4, ReceiveIs
    <3> QED
      BY <3>1, BytesAre
  <2>4. Bytes(channel)' + Bytes(batch)' + Bytes(writing)'
           = Bytes(channel) + Bytes(batch) + Bytes(writing)
    <3>1. Bytes(channel)' = Bytes(Tail(channel)) /\ Bytes(writing) = 0
      BY <2>1, BytesOfNone
    <3>2. \/ Bytes(writing)' = Bytes(Append(batch, Head(channel))) /\ Bytes(batch)' = 0
          \/ Bytes(batch)' = Bytes(Append(batch, Head(channel))) /\ Bytes(writing)' = 0
      BY <2>1, BytesOfNone
    <3> QED
      BY <1>2, <2>2, <2>3, <3>1, <3>2
  <2>5. Len(channel') =< QueueSize /\ Len(spill') =< OverflowCap /\ Bytes(spill)' = 0
    BY <1>1, <2>1 DEF Caps
  <2> QED
    BY <2>1, <2>4, <2>5 DEF Caps
<1>5. ASSUME NEW s \in Rests, writer = "select", TakeQueued(s), FlushUnchanged PROVE Caps'
  <2>1. /\ writing' = batch \o channel \o spill
        /\ batch' = <<>> /\ channel' = <<>> /\ spill' = <<>> /\ queuedBytes' = queuedBytes
        /\ writing = <<>>
    BY <1>5, WriteIs DEF TakeQueued, FlushUnchanged, Phase
  <2>2. Bytes(writing)' = Bytes(batch) + Bytes(channel) + Bytes(spill)
    <3>1. batch \o channel \in Seq(Item)
      BY <1>1, ConcatProperties
    <3> QED
      BY <1>1, <2>1, <3>1, BytesOfConcat
  <2>3. Bytes(writing) = 0 /\ Bytes(batch)' = 0 /\ Bytes(channel)' = 0 /\ Bytes(spill)' = 0
    BY <2>1, BytesOfNone
  <2>4. Len(channel') = 0 /\ Len(spill') = 0
    BY <2>1
  <2> QED
    BY <1>1, <1>2, <2>1, <2>2, <2>3, <2>4 DEF Caps
<1>6. CASE FlushTick \/ SyncReceive \/ LastFlush
  BY <1>5, <1>6 DEF FlushTick, SyncReceive, LastFlush
<1>7. CASE ReleaseBytes
  <2>1. /\ writing' = <<>> /\ UNCHANGED <<channel, spill, batch>>
        /\ queuedBytes' = IF queuedBytes > Bytes(writing) THEN queuedBytes - Bytes(writing) ELSE 0
    BY <1>7 DEF ReleaseBytes
  <2>2. queuedBytes' = Bytes(channel) + Bytes(batch)
    BY <1>2, <2>1 DEF Caps
  <2>3. Bytes(channel)' = Bytes(channel) /\ Bytes(batch)' = Bytes(batch) /\ Bytes(writing)' = 0
    BY <2>1, BytesOfNone
  <2>4. queuedBytes' =< MaxQueuedBytes
    BY <1>2, <2>2 DEF Caps
  <2>5. Len(channel') =< QueueSize /\ Len(spill') =< OverflowCap /\ Bytes(spill)' = 0
    BY <2>1 DEF Caps
  <2> QED
    BY <1>2, <2>2, <2>3, <2>4, <2>5 DEF Caps
<1>8. CASE \/ SyncReply \/ Begin \/ BeginFails \/ TakeCounts \/ Insert \/ PersistMeta
           \/ Commit \/ CommitFails \/ SyncCall \/ SyncAfterDone \/ SyncGivesUp
           \/ CloseCall \/ CloseDeadline \/ CloseEnd \/ UNCHANGED historyVars
  BY <1>8, CapsKept DEF SyncReply, Begin, BeginFails, TakeCounts, Insert, PersistMeta, Commit,
     CommitFails, SyncCall, SyncAfterDone, SyncGivesUp, CloseCall, CloseDeadline, CloseEnd,
     historyVars, queueVars, batchVars
<1> QED
  BY <1>3, <1>4, <1>6, <1>7, <1>8 DEF HistoryNext

\* The variables no other part of the invariant speaks of.
LEMMA NextEnds == Ends /\ [HistoryNext]_historyVars => Ends'
<1> SUFFICES ASSUME Ends, [HistoryNext]_historyVars PROVE Ends'
  OBVIOUS
<1>1. CASE PersistMeta
  <2>1. unmet' \subseteq {"dropped", "overflow", "errors", "stamp"}
    BY <1>1, HistoryAssumption DEF PersistMeta, HistoryAssumption
  <2> QED
    BY <1>1, <2>1 DEF PersistMeta, Ends, endVars
<1>2. CASE Commit \/ CommitFails
  BY <1>2 DEF Commit, CommitFails, Ends, endVars
<1>3. CASE Enqueue \/ Receive
  BY <1>3 DEF Enqueue, Receive, Ends, txVars, endVars
<1>4. CASE FlushTick \/ SyncReceive \/ LastFlush
  BY <1>4 DEF FlushTick, SyncReceive, LastFlush, FlushUnchanged, Ends, txVars
<1>5. CASE Begin \/ BeginFails \/ TakeCounts \/ Insert \/ ReleaseBytes
  BY <1>5 DEF Begin, BeginFails, TakeCounts, Insert, ReleaseBytes, Ends, txVars, endVars
<1>6. CASE SyncReply \/ SyncCall \/ SyncAfterDone \/ SyncGivesUp
  BY <1>6 DEF SyncReply, SyncCall, SyncAfterDone, SyncGivesUp, Ends, txVars
<1>7. CASE CloseCall \/ CloseDeadline \/ CloseEnd
  BY <1>7 DEF CloseCall, CloseDeadline, CloseEnd, Ends, txVars
<1>8. CASE UNCHANGED historyVars
  BY <1>8 DEF historyVars, txVars, endVars, Ends
<1> QED
  BY <1>1, <1>2, <1>3, <1>4, <1>5, <1>6, <1>7, <1>8 DEF HistoryNext

-----------------------------------------------------------------------------
(* Counts.                                                                   *)

\* The numbers NoLossUncounted adds up.
Amounts ==
    /\ Len(channel) \in Nat /\ Len(spill) \in Nat /\ Len(batch) \in Nat
    /\ Len(writing) \in Nat /\ Len(txRows) \in Nat /\ Len(rows) \in Nat
    /\ Undecided \in Nat /\ pos \in Nat /\ pos =< Len(writing)
    /\ accepted \in Nat /\ dropped \in Nat /\ errsPending \in Nat /\ failures \in Nat
    /\ tally.dropped \in Nat /\ tally.errors \in Nat
    /\ meta.dropped \in Nat /\ meta.errors \in Nat

LEMMA AmountsAre == HistoryTypes => Amounts
<1> SUFFICES ASSUME HistoryTypes PROVE Amounts
  OBVIOUS
<1>1. /\ Len(channel) \in Nat /\ Len(spill) \in Nat /\ Len(batch) \in Nat
      /\ Len(writing) \in Nat /\ Len(txRows) \in Nat /\ Len(rows) \in Nat
  BY DEF HistoryTypes
<1>2. Undecided \in Nat /\ pos \in Nat /\ pos =< Len(writing)
  BY <1>1 DEF HistoryTypes, Undecided
<1>3. /\ tally.dropped \in Nat /\ tally.errors \in Nat
      /\ meta.dropped \in Nat /\ meta.errors \in Nat
  BY DEF HistoryTypes, Counters
<1> QED
  BY <1>1, <1>2, <1>3 DEF HistoryTypes, Amounts

\* The variables that are counted, besides the items in the queues.
countVars == <<accepted, dropped, errsPending, txRows, tally, rows, meta, failures>>

LEMMA HeldIs == HistoryTypes => Held \in Nat
<1> SUFFICES ASSUME HistoryTypes PROVE Held \in Nat
  OBVIOUS
<1>1. Amounts
  BY AmountsAre
<1> QED
  BY <1>1 DEF Amounts, Held

\* An item that is accepted is queued or counted as dropped.
LEMMA EnqueueMoves ==
    ASSUME HistoryTypes, Enqueue
    PROVE  /\ accepted' = accepted + 1
           /\ UNCHANGED <<errsPending, txRows, tally, rows, meta, failures, faults, unmet, writer>>
           /\ \/ Held' = Held + 1 /\ dropped' = dropped
              \/ Held' = Held /\ dropped' = dropped + 1
<1>1. /\ UNCHANGED <<errsPending, writer, batch, writing, pos, txRows, tally, rows, meta, failures,
                     faults, unmet>>
      /\ accepted' = accepted + 1
  BY DEF Enqueue, batchVars, txVars, dbVars, faultVars
<1>2. Undecided' = Undecided
  BY <1>1 DEF Undecided
<1>3. \A e : Len(Append(channel, e)) = Len(channel) + 1 /\ Len(Append(spill, e)) = Len(spill) + 1
  BY DEF HistoryTypes
<1>4. \/ Len(channel') = Len(channel) + 1 /\ Len(spill') = Len(spill) /\ dropped' = dropped
      \/ Len(channel') = Len(channel) /\ Len(spill') = Len(spill) + 1 /\ dropped' = dropped
      \/ Len(channel') = Len(channel) /\ Len(spill') = Len(spill) /\ dropped' = dropped + 1
  BY <1>3 DEF Enqueue
<1>5. Amounts
  BY AmountsAre
<1>6. CASE Len(channel') = Len(channel) + 1 /\ Len(spill') = Len(spill) /\ dropped' = dropped
  <2>1. Held' = Held + 1
    BY <1>1, <1>2, <1>5, <1>6 DEF Held, Amounts
  <2> QED
    BY <1>1, <1>6, <2>1
<1>7. CASE Len(channel') = Len(channel) /\ Len(spill') = Len(spill) + 1 /\ dropped' = dropped
  <2>1. Held' = Held + 1
    BY <1>1, <1>2, <1>5, <1>7 DEF Held, Amounts
  <2> QED
    BY <1>1, <1>7, <2>1
<1>8. CASE Len(channel') = Len(channel) /\ Len(spill') = Len(spill) /\ dropped' = dropped + 1
  BY <1>1, <1>2, <1>8 DEF Held
<1> QED
  BY <1>4, <1>6, <1>7, <1>8

\* The select moves items between its queues and the batch.
LEMMA SelectMoves ==
    ASSUME HistoryTypes, Phase, Receive \/ FlushTick \/ SyncReceive \/ LastFlush
    PROVE  Held' = Held /\ UNCHANGED <<countVars, faults, unmet>>
<1>1. Amounts
  BY AmountsAre
<1>2. CASE Receive
  <2>1. /\ writer = "select" /\ Len(channel') = Len(channel) - 1
        /\ \/ Len(writing') = Len(batch) + 1 /\ Len(batch') = 0 /\ writer' = "begin"
           \/ Len(batch') = Len(batch) + 1 /\ UNCHANGED <<writer, writing>>
        /\ UNCHANGED <<spill, countVars, pos, faults, unmet>>
    BY <1>2, ReceiveIs, NumbersOfNone DEF txVars, dbVars, faultVars, countVars
  <2>2. pos = 0 /\ Undecided = 0
    BY <2>1 DEF Phase, Undecided
  <2>3. \/ Len(batch') = 0 /\ Undecided' = Len(batch) + 1
        \/ Len(batch') = Len(batch) + 1 /\ Undecided' = 0
    BY <1>1, <2>1, <2>2 DEF Undecided, Amounts
  <2>4. UNCHANGED <<spill, txRows, rows>>
    BY <2>1 DEF countVars
  <2>5. CASE Len(batch') = 0 /\ Undecided' = Len(batch) + 1
    BY <1>1, <2>1, <2>2, <2>4, <2>5 DEF Held, Amounts
  <2>6. CASE Len(batch') = Len(batch) + 1 /\ Undecided' = 0
    BY <1>1, <2>1, <2>2, <2>4, <2>6 DEF Held, Amounts
  <2> QED
    BY <2>1, <2>3, <2>5, <2>6
<1>3. ASSUME NEW s \in Rests, writer = "select", TakeQueued(s), FlushUnchanged
      PROVE  Held' = Held /\ UNCHANGED <<countVars, faults, unmet>>
  <2>1. /\ writing' = batch \o channel \o spill
        /\ batch' = <<>> /\ channel' = <<>> /\ spill' = <<>>
        /\ \/ writing' = <<>> /\ writer' \in Rests
           \/ writer' = "begin"
    BY <1>3, WriteIs DEF TakeQueued
  <2>2. /\ Len(writing') = Len(batch) + Len(channel) + Len(spill)
        /\ Len(batch') = 0 /\ Len(channel') = 0 /\ Len(spill') = 0
        /\ \/ Len(writing') = 0 /\ writer' \in Rests
           \/ writer' = "begin"
    BY <2>1, TakenIs, NumbersOfNone
  <2>3. UNCHANGED <<countVars, pos, txRows, rows, faults, unmet>>
    BY <1>3 DEF FlushUnchanged, txVars, dbVars, faultVars, countVars
  <2>4. pos = 0 /\ Undecided = 0
    BY <1>3 DEF Phase, Undecided
  <2>5. Undecided' = Len(batch) + Len(channel) + Len(spill)
    BY <1>1, <2>2, <2>3, <2>4 DEF Undecided, Rests, Amounts
  <2>6. Held' = Held
    BY <1>1, <2>2, <2>3, <2>4, <2>5 DEF Held, Amounts
  <2> QED
    BY <2>3, <2>6
<1>4. CASE FlushTick \/ SyncReceive \/ LastFlush
  BY <1>3, <1>4 DEF FlushTick, SyncReceive, LastFlush, Rests
<1> QED
  BY <1>2, <1>4

LEMMA QuietMoves ==
    ASSUME HistoryTypes, Phase,
           \/ SyncReply \/ Begin \/ PersistMeta \/ ReleaseBytes
           \/ SyncCall \/ SyncAfterDone \/ SyncGivesUp
           \/ CloseCall \/ CloseDeadline \/ CloseEnd \/ UNCHANGED historyVars
    PROVE  /\ Held' = Held /\ UNCHANGED countVars
           /\ ~ PersistMeta => UNCHANGED <<faults, unmet>>
<1>1. UNCHANGED <<channel, spill, countVars, batch>> /\ (~ PersistMeta => UNCHANGED <<faults, unmet>>)
  BY DEF SyncReply, Begin, PersistMeta, ReleaseBytes, SyncCall, SyncAfterDone, SyncGivesUp,
     CloseCall, CloseDeadline, CloseEnd, historyVars, queueVars, batchVars, txVars, dbVars, faultVars,
     countVars
<1>2. \/ UNCHANGED <<writing, pos, writer>>
      \/ UNCHANGED <<writing, pos>> /\ writer = "begin" /\ writer' = "takeCounts"
      \/ pos = Len(writing) /\ writer' = "commit"
      \/ /\ writer \in {"reply", "release"}
         /\ writer' \notin {"begin", "takeCounts", "insert"}
  BY DEF SyncReply, Begin, PersistMeta, ReleaseBytes, SyncCall, SyncAfterDone, SyncGivesUp,
     CloseCall, CloseDeadline, CloseEnd, historyVars, queueVars, batchVars, txVars, HistoryTypes, Rests
<1>3. Amounts
  BY AmountsAre
<1>4. Undecided' = Undecided
  BY <1>2, <1>3 DEF Undecided, Amounts
<1>5. Held' = Held
  BY <1>1, <1>4 DEF Held, countVars
<1> QED
  BY <1>1, <1>5

\* A batch that cannot begin is dropped, with all its items.
LEMMA BeginFailsMoves ==
    ASSUME HistoryTypes, Phase, BeginFails
    PROVE  /\ Held' = Held - Len(writing) /\ Len(writing) \in Nat
           /\ dropped' = dropped + Len(writing)
           /\ UNCHANGED <<accepted, errsPending, txRows, tally, rows, meta, failures, unmet>>
           /\ faults' = faults + 1 /\ faults < MaxFaults /\ writer = "begin"
<1>1. Amounts
  BY AmountsAre
<1>2. /\ Undecided = Len(writing) /\ Undecided' = 0
      /\ dropped' = dropped + Len(writing) /\ errsPending' = errsPending
      /\ UNCHANGED <<channel, spill, accepted, batch, txRows, tally, rows, meta, failures, unmet>>
      /\ faults' = faults + 1 /\ faults < MaxFaults /\ writer = "begin"
  BY <1>1 DEF BeginFails, GiveBack, Undecided, Phase, batchVars, txVars, dbVars, Amounts
<1>3. Held' = Held - Len(writing)
  BY <1>1, <1>2 DEF Held, Amounts
<1> QED
  BY <1>1, <1>2, <1>3 DEF Amounts

\* The pending counts become the transaction's.
LEMMA TakeCountsMoves ==
    ASSUME HistoryTypes, Phase, TakeCounts
    PROVE  /\ tally.dropped = 0 /\ tally.errors = 0 /\ tally'.dropped = dropped
           /\ tally'.errors = errsPending /\ tally'.overflow = 0
           /\ dropped' = 0 /\ errsPending' = 0 /\ Held' = Held
           /\ UNCHANGED <<accepted, txRows, rows, meta, failures, faults, unmet>>
<1>1. /\ tally = NoTally /\ Undecided' = Undecided
      /\ tally' = [dropped |-> dropped, overflow |-> 0, errors |-> errsPending]
      /\ dropped' = 0 /\ errsPending' = 0
      /\ UNCHANGED <<channel, spill, accepted, batch, txRows, rows, meta, failures, faults, unmet>>
  BY DEF TakeCounts, Undecided, Phase, batchVars, dbVars, faultVars
<1>2. Held' = Held
  BY <1>1 DEF Held
<1> QED
  BY <1>1, <1>2, NoTallyIs

\* The next item of the batch becomes a row, a marker or a count.
LEMMA InsertMoves ==
    ASSUME HistoryTypes, Phase, Insert
    PROVE  /\ UNCHANGED <<accepted, dropped, errsPending, rows, meta, unmet, writer>>
           /\ tally' \in Counters /\ writer = "insert"
           /\ \/ /\ Held' = Held /\ Len(txRows') = Len(txRows) + 1
                 /\ tally'.dropped = tally.dropped
                 /\ \/ tally'.overflow = tally.overflow
                    \/ tally'.overflow = tally.overflow + 1
                 /\ \/ tally'.errors = tally.errors /\ failures' = failures /\ faults' = faults
                    \/ tally'.errors = tally.errors + 1 /\ failures' = failures + 1
                       /\ faults' = faults + 1 /\ faults < MaxFaults
              \/ /\ Held' = Held - 1 /\ txRows' = txRows
                 /\ tally'.dropped = tally.dropped + 1 /\ tally'.overflow = tally.overflow
                 /\ tally'.errors = tally.errors + 1 /\ failures' = failures + 1
                 /\ faults' = faults + 1 /\ faults < MaxFaults
<1>1. Amounts /\ tally' \in Counters
  BY AmountsAre, NextTypes DEF HistoryTypes, HistoryNext
<1>2. /\ UNCHANGED <<channel, spill, dropped, errsPending, accepted, writer, batch, writing, rows, meta,
                     unmet>>
      /\ writer = "insert" /\ pos' = pos + 1 /\ pos < Len(writing)
  BY DEF Insert, queueVars, batchVars, dbVars
<1>3. Undecided' = Undecided - 1
  BY <1>1, <1>2 DEF Undecided, Amounts
<1>4. /\ DOMAIN tally = {"dropped", "overflow", "errors"}
      /\ \A e : Len(Append(txRows, e)) = Len(txRows) + 1
      /\ tally.overflow \in Nat
  BY DEF HistoryTypes, Counters
<1>5. Len(txRows') = Len(txRows) + 1 => Held' = Held
  BY <1>1, <1>2, <1>3 DEF Held, Amounts
<1>6. ASSUME txRows' = txRows PROVE Held' = Held - 1
  <2>1. Held' = Len(channel) + Len(spill) + Len(batch) + Undecided' + Len(txRows) + Len(rows)
    BY <1>2, <1>6 DEF Held
  <2> QED
    BY <1>1, <1>3, <2>1 DEF Held, Amounts
<1>7. CASE InsertRow
  <2>1. /\ Len(txRows') = Len(txRows) + 1 /\ failures' = failures /\ faults' = faults
        /\ tally'.dropped = tally.dropped /\ tally'.errors = tally.errors
        /\ tally'.overflow \in {tally.overflow, tally.overflow + 1}
    BY <1>4, <1>7 DEF InsertRow, Landed, faultVars
  <2> QED
    BY <1>1, <1>2, <1>5, <2>1
<1>8. CASE InsertMarker
  <2>1. /\ Len(txRows') = Len(txRows) + 1 /\ failures' = failures + 1 /\ faults' = faults + 1
        /\ faults < MaxFaults /\ tally'.dropped = tally.dropped
        /\ tally'.errors = tally.errors + 1 /\ tally'.overflow = tally.overflow + 1
    BY <1>4, <1>8 DEF InsertMarker, Landed
  <2> QED
    BY <1>1, <1>2, <1>5, <2>1
<1>9. CASE InsertNothing
  <2>1. /\ txRows' = txRows /\ failures' = failures + 1 /\ faults' = faults + 1
        /\ faults < MaxFaults /\ tally'.dropped = tally.dropped + 1
        /\ tally'.errors = tally.errors + 1 /\ tally'.overflow = tally.overflow
    BY <1>4, <1>9 DEF InsertNothing
  <2> QED
    BY <1>1, <1>2, <1>6, <2>1
<1> QED
  BY <1>7, <1>8, <1>9 DEF Insert

\* Rows and counts reach the database; if a statement failed, all counts go back.
LEMMA CommitMoves ==
    ASSUME HistoryTypes, Phase, Commit
    PROVE  /\ Held' = Held /\ Len(txRows') = 0 /\ Len(rows') = Len(rows) + Len(txRows)
           /\ UNCHANGED <<accepted, failures, faults>> /\ unmet' = {} /\ tally' = NoTally
           /\ \A c \in {"dropped", "overflow", "errors"} :
                 meta'[c] = meta[c] + (IF c \in unmet THEN 0 ELSE tally[c])
           /\ dropped' = dropped + (IF unmet = {} THEN 0 ELSE tally.dropped)
           /\ errsPending' = errsPending + (IF unmet = {} THEN 0 ELSE tally.errors)
<1>1. Amounts
  BY AmountsAre
<1>2. /\ Undecided = 0 /\ Undecided' = 0 /\ Len(rows') = Len(rows) + Len(txRows)
      /\ Len(txRows') = 0 /\ unmet' = {} /\ tally' = NoTally
      /\ UNCHANGED <<channel, spill, accepted, batch, failures, faults>>
  BY ConcatProperties, NumbersOfNone DEF Commit, Undecided, HistoryTypes, batchVars, faultVars
<1>3. Held' = Held
  BY <1>1, <1>2 DEF Held, Amounts
<1>4. \A c \in {"dropped", "overflow", "errors"} :
         meta'[c] = meta[c] + (IF c \in unmet THEN 0 ELSE tally[c])
  BY DEF HistoryTypes, Counters, Commit
<1>5. /\ dropped' = dropped + (IF unmet = {} THEN 0 ELSE tally.dropped)
      /\ errsPending' = errsPending + (IF unmet = {} THEN 0 ELSE tally.errors)
  BY NoTallyIs DEF Commit, GiveBack, Returned
<1> QED
  BY <1>2, <1>3, <1>4, <1>5

\* The rows of the transaction are counted as dropped.
LEMMA CommitFailsMoves ==
    ASSUME HistoryTypes, Phase, CommitFails
    PROVE  /\ Held' = Held - Len(txRows) /\ Len(txRows') = 0
           /\ dropped' = dropped + (tally.dropped + Len(txRows))
           /\ errsPending' = errsPending + tally.errors
           /\ tally' = NoTally /\ unmet' = {}
           /\ UNCHANGED <<accepted, rows, meta, failures>>
           /\ faults' = faults + 1 /\ faults < MaxFaults
<1>1. Amounts
  BY AmountsAre
<1>2. /\ Undecided = 0 /\ Undecided' = 0 /\ Len(txRows') = 0
      /\ dropped' = dropped + (tally.dropped + Len(txRows))
      /\ errsPending' = errsPending + tally.errors
      /\ tally' = NoTally /\ unmet' = {} /\ faults' = faults + 1 /\ faults < MaxFaults
      /\ UNCHANGED <<channel, spill, accepted, batch, rows, meta, failures>>
  BY NumbersOfNone DEF CommitFails, GiveBack, Undecided, batchVars, dbVars
<1>3. Held' = Held - Len(txRows)
  BY <1>1, <1>2 DEF Held, Amounts
<1> QED
  BY <1>2, <1>3

\* What a step takes from one part of the sums it adds to another.
LEMMA NextCounts ==
    HistoryTypes /\ Phase /\ NoLossUncounted /\ [HistoryNext]_historyVars => NoLossUncounted'
<1> SUFFICES ASSUME HistoryTypes, Phase, NoLossUncounted, [HistoryNext]_historyVars
             PROVE  NoLossUncounted'
  OBVIOUS
<1>1. Amounts
  BY AmountsAre
<1>2. /\ accepted \in Int /\ Held \in Int /\ dropped \in Int /\ tally.dropped \in Nat
      /\ meta.dropped \in Int /\ accepted - Held =< meta.dropped + dropped + tally.dropped
  BY <1>1, HeldIs DEF NoLossUncounted, Missing, Held, DropsCounted, Amounts
<1>3. /\ failures \in Int /\ errsPending \in Int /\ tally.errors \in Nat
      /\ meta.errors \in Int /\ failures =< meta.errors + errsPending + tally.errors
  BY <1>1 DEF NoLossUncounted, ErrorsCounted, Amounts
<1> DEFINE Drops == accepted' - Held' =< meta'.dropped + dropped' + tally'.dropped
           Errors == failures' =< meta'.errors + errsPending' + tally'.errors
<1> SUFFICES Drops /\ Errors
  BY DEF NoLossUncounted, Missing, Held, DropsCounted, ErrorsCounted
<1>4. CASE Enqueue
  BY <1>2, <1>3, <1>4, EnqueueMoves
<1>5. CASE Receive \/ FlushTick \/ SyncReceive \/ LastFlush
  BY <1>2, <1>3, <1>5, SelectMoves DEF countVars
<1>6. CASE \/ SyncReply \/ Begin \/ PersistMeta \/ ReleaseBytes
           \/ SyncCall \/ SyncAfterDone \/ SyncGivesUp
           \/ CloseCall \/ CloseDeadline \/ CloseEnd \/ UNCHANGED historyVars
  BY <1>2, <1>3, <1>6, QuietMoves DEF countVars
<1>7. CASE BeginFails
  <2>1. /\ Held' = Held - Len(writing) /\ Len(writing) \in Nat
        /\ dropped' = dropped + Len(writing)
        /\ UNCHANGED <<accepted, errsPending, tally, meta, failures>>
    BY <1>7, BeginFailsMoves
  <2>2. Errors
    BY <1>3, <2>1
  <2>3. meta'.dropped + dropped' + tally'.dropped
           = (meta.dropped + dropped + tally.dropped) + Len(writing)
    BY <1>2, <2>1
  <2>4. Drops
    <3>1. /\ accepted' = accepted /\ Held' = Held - Len(writing) /\ Len(writing) \in Int
          /\ Held \in Int /\ accepted \in Int
          /\ meta.dropped + dropped + tally.dropped \in Int
          /\ accepted - Held =< meta.dropped + dropped + tally.dropped
      BY <1>2, <2>1
    <3> QED
      BY ONLY <2>3, <3>1
  <2> QED
    BY <2>2, <2>4
<1>8. CASE TakeCounts
  BY <1>2, <1>3, <1>8, TakeCountsMoves
<1>9. CASE Insert
  <2>1. UNCHANGED <<accepted, dropped, errsPending, meta>>
    BY <1>9, InsertMoves
  <2>2. Drops
    <3>1. \/ Held' = Held /\ tally'.dropped = tally.dropped
          \/ Held' = Held - 1 /\ tally'.dropped = tally.dropped + 1
      BY <1>9, InsertMoves
    <3>2. CASE Held' = Held /\ tally'.dropped = tally.dropped
      BY <1>2, <2>1, <3>2
    <3>3. CASE Held' = Held - 1 /\ tally'.dropped = tally.dropped + 1
      BY <1>2, <2>1, <3>3
    <3> QED
      BY <3>1, <3>2, <3>3
  <2>3. Errors
    <3>1. \/ tally'.errors = tally.errors /\ failures' = failures
          \/ tally'.errors = tally.errors + 1 /\ failures' = failures + 1
      BY <1>9, InsertMoves
    <3> QED
      BY <1>3, <2>1, <3>1
  <2> QED
    BY <2>2, <2>3
<1>10. CASE Commit
  <2>1. /\ meta'.dropped = meta.dropped + (IF "dropped" \in unmet THEN 0 ELSE tally.dropped)
        /\ meta'.errors = meta.errors + (IF "errors" \in unmet THEN 0 ELSE tally.errors)
    BY <1>10, CommitMoves
  <2>2. tally'.dropped = 0 /\ tally'.errors = 0
    BY <1>10, CommitMoves, NoTallyIs
  <2>3. /\ dropped' = dropped + (IF unmet = {} THEN 0 ELSE tally.dropped)
        /\ errsPending' = errsPending + (IF unmet = {} THEN 0 ELSE tally.errors)
        /\ accepted' = accepted /\ failures' = failures /\ Held' = Held
    BY <1>10, CommitMoves
  <2>4. CASE unmet = {}
    BY <1>2, <1>3, <2>1, <2>2, <2>3, <2>4
  <2>5. CASE unmet # {}
    BY <1>2, <1>3, <2>1, <2>2, <2>3, <2>5
  <2> QED
    BY <2>4, <2>5
<1>11. CASE CommitFails
  <2>1. Len(txRows) \in Int
    BY <1>1 DEF Amounts
  <2>2. /\ Held' = Held - Len(txRows)
        /\ dropped' = dropped + (tally.dropped + Len(txRows))
        /\ errsPending' = errsPending + tally.errors
        /\ tally'.dropped = 0 /\ tally'.errors = 0
        /\ UNCHANGED <<accepted, meta, failures>>
    BY <1>11, CommitFailsMoves, NoTallyIs
  <2>3. Drops
    <3>1. meta'.dropped + dropped' + tally'.dropped
             = (meta.dropped + dropped + tally.dropped) + Len(txRows)
      BY <1>2, <2>1, <2>2
    <3>2. /\ accepted' = accepted /\ Held' = Held - Len(txRows) /\ Len(txRows) \in Int
          /\ Held \in Int /\ accepted \in Int
          /\ meta.dropped + dropped + tally.dropped \in Int
          /\ accepted - Held =< meta.dropped + dropped + tally.dropped
      BY <1>2, <2>1, <2>2
    <3> QED
      BY ONLY <3>1, <3>2
  <2>4. Errors
    BY <1>3, <2>2
  <2> QED
    BY <2>3, <2>4
<1> QED
  BY <1>4, <1>5, <1>6, <1>7, <1>8, <1>9, <1>10, <1>11 DEF HistoryNext

-----------------------------------------------------------------------------
(* How often a loss can be counted.                                          *)

\* The sums that Budget bounds are numbers.
LEMMA SumsAre ==
    ASSUME HistoryTypes, Budget
    PROVE  /\ Held \in Nat /\ accepted \in 0..MaxItems /\ dropped \in Nat /\ errsPending \in Nat
           /\ tally.dropped \in Nat /\ tally.errors \in Nat /\ tally.overflow \in Nat
           /\ meta.dropped \in Nat /\ meta.errors \in Nat /\ meta.overflow \in Nat
           /\ Len(txRows) \in Nat /\ Len(rows) \in Nat /\ failures \in Nat
           /\ DropsCounted \in Nat /\ ErrorsCounted \in Nat
           /\ faults \in Nat /\ Again \in Nat /\ Again =< faults
<1>1. Amounts
  BY AmountsAre
<1>2. tally.overflow \in Nat /\ meta.overflow \in Nat /\ accepted \in 0..MaxItems
  BY DEF HistoryTypes, Counters
<1>3. DropsCounted \in Nat /\ ErrorsCounted \in Nat
  <2>1. /\ meta.dropped \in Nat /\ dropped \in Nat /\ tally.dropped \in Nat
        /\ meta.errors \in Nat /\ errsPending \in Nat /\ tally.errors \in Nat
    BY <1>1 DEF Amounts
  <2>2. DropsCounted \in Nat
    BY ONLY <2>1 DEF DropsCounted
  <2>3. ErrorsCounted \in Nat
    BY ONLY <2>1 DEF ErrorsCounted
  <2> QED
    BY <2>2, <2>3
<1>4. faults \in Nat
  BY SizesAre DEF Budget
<1>5. Again \in Nat /\ Again =< faults
  BY <1>4 DEF Budget, Again
<1> QED
  BY <1>1, <1>2, <1>3, <1>4, <1>5, HeldIs DEF Amounts

LEMMA TimesGrows ==
    ASSUME NEW a \in Nat, NEW b \in Nat, NEW c \in Nat, a =< b
    PROVE  a * c =< b * c /\ a * c \in Nat /\ b * c \in Nat
OBVIOUS

LEMMA SumGrows ==
    ASSUME NEW a \in Int, NEW b \in Nat, NEW c \in Int, NEW d \in Nat, a =< b + c, c =< d
    PROVE  \A h \in Nat, s \in Nat, m \in Nat : b + h =< s + m => a + h =< s + (m + d)
OBVIOUS

LEMMA TimesNext ==
    ASSUME NEW a \in Nat, NEW c \in Nat
    PROVE  (a + 1) * c = a * c + c /\ a * c \in Nat
OBVIOUS

\* Failures only become more, and one more when a batch is committed in part.
LEMMA NextAgain ==
    ASSUME HistoryTypes, Phase, Budget, [HistoryNext]_historyVars
    PROVE  /\ faults' \in 0..MaxFaults
           /\ unmet' # {} => faults' > 0 /\ writer' = "commit"
           /\ Again' \in Nat /\ Again =< Again'
           /\ Commit /\ unmet # {} => Again' = Again + 1
<1> USE SizesAre
<1>1. faults \in Nat /\ faults =< MaxFaults /\ (unmet # {} => faults > 0 /\ writer = "commit")
  BY DEF Budget
<1>2. CASE UNCHANGED <<faults, unmet, writer>> /\ ~ Commit
  BY <1>1, <1>2 DEF Again
<1>3. CASE UNCHANGED <<faults, unmet>> /\ writer # "commit" /\ ~ Commit
  BY <1>1, <1>3 DEF Again
<1>4. CASE unmet' = unmet /\ faults' = faults + 1 /\ faults < MaxFaults /\ writer # "commit" /\ ~ Commit
  BY <1>1, <1>4 DEF Again
<1>5. CASE PersistMeta
  <2>1. /\ writer = "insert" /\ writer' = "commit" /\ faults' =< MaxFaults
        /\ faults' = IF unmet' = {} THEN faults ELSE faults + 1
    BY <1>5 DEF PersistMeta
  <2> QED
    BY <1>1, <2>1 DEF Again, Commit
<1>6. CASE Commit
  BY <1>1, <1>6 DEF Again, Commit, faultVars
<1>7. CASE CommitFails
  <2>1. unmet' = {} /\ faults' = faults + 1 /\ faults < MaxFaults /\ ~ Commit
    BY <1>1, <1>7 DEF Commit, CommitFails, faultVars
  <2> QED
    BY <1>1, <2>1 DEF Again
<1>8. CASE Enqueue \/ SyncCall \/ SyncAfterDone \/ SyncGivesUp
           \/ CloseCall \/ CloseDeadline \/ CloseEnd
  <2>1. UNCHANGED <<faults, unmet, writer>> /\ (Commit => writer = "commit" /\ writer' = "release")
    BY <1>8 DEF Enqueue, SyncCall, SyncAfterDone, SyncGivesUp, CloseCall, CloseDeadline, CloseEnd,
       txVars, faultVars, Commit
  <2> QED
    BY <1>2, <2>1
<1>9. CASE Receive \/ FlushTick \/ SyncReceive \/ LastFlush \/ SyncReply \/ Begin \/ TakeCounts
           \/ ReleaseBytes
  <2>1. UNCHANGED <<faults, unmet>> /\ writer # "commit"
    BY <1>9 DEF Receive, FlushTick, SyncReceive, LastFlush, FlushUnchanged, SyncReply, Begin, TakeCounts,
       ReleaseBytes, txVars, faultVars
  <2> QED
    BY <1>3, <2>1 DEF Commit
<1>10. CASE BeginFails
  BY <1>4, <1>10 DEF BeginFails, Commit, txVars
<1>11. CASE Insert
  <2>1. unmet' = unmet /\ writer = "insert"
    BY <1>11 DEF Insert
  <2>2. faults' = faults \/ (faults' = faults + 1 /\ faults < MaxFaults)
    BY <1>11 DEF Insert, InsertRow, InsertMarker, InsertNothing, faultVars
  <2> QED
    BY <1>3, <1>4, <2>1, <2>2 DEF Commit
<1>12. CASE UNCHANGED historyVars
  <2>1. UNCHANGED <<faults, unmet, writer>> /\ (Commit => writer = "commit" /\ writer' = "release")
    BY <1>12 DEF historyVars, txVars, faultVars, Commit
  <2> QED
    BY <1>2, <2>1
<1> QED
  BY <1>5, <1>6, <1>7, <1>8, <1>9, <1>10, <1>11, <1>12 DEF HistoryNext

\* No item is in two places, and no failure is pending that was not one.
LEMMA NextParts ==
    ASSUME HistoryTypes, Phase, Budget, [HistoryNext]_historyVars
    PROVE  /\ failures' =< faults'
           /\ dropped' + tally'.dropped + Held' =< accepted'
           /\ errsPending' + tally'.errors =< failures'
           /\ tally'.overflow =< Len(txRows') /\ meta'.overflow =< Len(rows')
<1> DEFINE Parts == /\ failures' =< faults'
                    /\ dropped' + tally'.dropped + Held' =< accepted'
                    /\ errsPending' + tally'.errors =< failures'
                    /\ tally'.overflow =< Len(txRows') /\ meta'.overflow =< Len(rows')
<1> SUFFICES Parts
  OBVIOUS
<1>1. /\ Held \in Nat /\ accepted \in Nat /\ dropped \in Nat /\ errsPending \in Nat
      /\ tally.dropped \in Nat /\ tally.errors \in Nat /\ tally.overflow \in Nat
      /\ meta.overflow \in Nat
      /\ Len(txRows) \in Nat /\ Len(rows) \in Nat /\ failures \in Nat /\ faults \in Nat
  BY SumsAre, SizesAre
<1>2. /\ failures =< faults
      /\ dropped + tally.dropped + Held =< accepted
      /\ errsPending + tally.errors =< failures
      /\ tally.overflow =< Len(txRows) /\ meta.overflow =< Len(rows)
  BY DEF Budget
<1>3. /\ Held \in Int /\ accepted \in Int /\ dropped \in Int /\ tally.dropped \in Int
       /\ Len(txRows) \in Int /\ dropped + tally.dropped + Held =< accepted
  BY <1>1, <1>2
<1>4. /\ errsPending \in Int /\ tally.errors \in Int /\ failures \in Int /\ faults \in Int
       /\ errsPending + tally.errors =< failures /\ failures =< faults
  BY <1>1, <1>2
<1>5. /\ tally.overflow \in Nat /\ meta.overflow \in Nat /\ Len(txRows) \in Nat /\ Len(rows) \in Nat
       /\ tally.overflow =< Len(txRows) /\ meta.overflow =< Len(rows)
  BY <1>1, <1>2
<1>6. CASE Enqueue
  <2>1. /\ accepted' = accepted + 1
        /\ UNCHANGED <<errsPending, txRows, tally, rows, meta, failures, faults>>
    BY <1>6, EnqueueMoves
  <2>2. dropped' + tally'.dropped + Held' =< accepted'
    <3>1. CASE Held' = Held + 1 /\ dropped' = dropped
      BY <1>3, <2>1, <3>1
    <3>2. CASE Held' = Held /\ dropped' = dropped + 1
      BY <1>3, <2>1, <3>2
    <3> QED
      BY <1>6, <3>1, <3>2, EnqueueMoves
  <2> QED
    BY <1>2, <2>1, <2>2
<1>7. CASE Receive \/ FlushTick \/ SyncReceive \/ LastFlush
  BY <1>1, <1>2, <1>7, SelectMoves DEF countVars
<1>8. CASE PersistMeta
  <2>1. faults' \in {faults, faults + 1}
    BY <1>8 DEF PersistMeta
  <2>2. Held' = Held /\ UNCHANGED countVars
    BY <1>8, QuietMoves
  <2> QED
    BY <1>1, <1>2, <2>1, <2>2 DEF countVars
<1>9. CASE \/ SyncReply \/ Begin \/ ReleaseBytes \/ SyncCall \/ SyncAfterDone \/ SyncGivesUp
           \/ CloseCall \/ CloseDeadline \/ CloseEnd \/ UNCHANGED historyVars
  <2>1. ~ PersistMeta => UNCHANGED faults
    BY <1>9, QuietMoves
  <2>2. Held' = Held /\ UNCHANGED countVars
    BY <1>9, QuietMoves
  <2> QED
    BY <1>1, <1>2, <1>8, <2>1, <2>2 DEF countVars
<1>10. CASE BeginFails
  BY <1>1, <1>2, <1>10, BeginFailsMoves
<1>11. CASE TakeCounts
  BY <1>1, <1>2, <1>11, TakeCountsMoves
<1>12. CASE Insert
  <2>1. UNCHANGED <<accepted, dropped, errsPending, rows, meta>>
    BY <1>12, InsertMoves
  <2>2. \/ /\ Held' = Held /\ Len(txRows') = Len(txRows) + 1 /\ tally'.dropped = tally.dropped
           /\ tally'.overflow \in {tally.overflow, tally.overflow + 1}
        \/ /\ Held' = Held - 1 /\ txRows' = txRows
           /\ tally'.dropped = tally.dropped + 1 /\ tally'.overflow = tally.overflow
    BY <1>12, InsertMoves
  <2>3. \/ tally'.errors = tally.errors /\ failures' = failures /\ faults' = faults
        \/ tally'.errors = tally.errors + 1 /\ failures' = failures + 1 /\ faults' = faults + 1
    BY <1>12, InsertMoves
  <2>4. dropped' + tally'.dropped + Held' =< accepted'
    <3>1. accepted' = accepted /\ dropped' = dropped
      BY <2>1
    <3>2. \/ Held' = Held /\ tally'.dropped = tally.dropped
          \/ Held' = Held - 1 /\ tally'.dropped = tally.dropped + 1
      BY <2>2
    <3> QED
      BY ONLY <1>3, <3>1, <3>2
  <2>5. errsPending' + tally'.errors =< failures' /\ failures' =< faults'
    BY ONLY <1>4, <2>1, <2>3
  <2>6. tally'.overflow =< Len(txRows') /\ meta'.overflow =< Len(rows')
    <3>1. Len(rows') = Len(rows) /\ meta'.overflow = meta.overflow
      BY <2>1
    <3>2. \/ Len(txRows') = Len(txRows) /\ tally'.overflow = tally.overflow
          \/ /\ Len(txRows') = Len(txRows) + 1
             /\ tally'.overflow = tally.overflow \/ tally'.overflow = tally.overflow + 1
      BY <2>2
    <3> QED
      BY ONLY <1>5, <3>1, <3>2
  <2> QED
    BY <2>4, <2>5, <2>6
<1>13. CASE Commit
  <2>1. /\ Held' = Held /\ Len(txRows') = 0 /\ Len(rows') = Len(rows) + Len(txRows)
        /\ UNCHANGED <<accepted, failures, faults>>
        /\ dropped' = dropped + (IF unmet = {} THEN 0 ELSE tally.dropped)
        /\ errsPending' = errsPending + (IF unmet = {} THEN 0 ELSE tally.errors)
        /\ meta'.overflow = meta.overflow + (IF "overflow" \in unmet THEN 0 ELSE tally.overflow)
    BY <1>13, CommitMoves
  <2>2. tally'.dropped = 0 /\ tally'.errors = 0 /\ tally'.overflow = 0
    BY <1>13, CommitMoves DEF NoTally
  <2>3. dropped' + tally'.dropped + Held' =< accepted'
    <3>1. /\ Held' = Held /\ accepted' = accepted /\ tally'.dropped = 0
          /\ dropped' = dropped \/ dropped' = dropped + tally.dropped
      BY <1>3, <2>1, <2>2
    <3>2. tally.dropped >= 0
      BY <1>1
    <3> QED
      BY ONLY <1>3, <3>1, <3>2
  <2>4. errsPending' + tally'.errors =< failures' /\ failures' =< faults'
    <3>1. /\ failures' = failures /\ faults' = faults /\ tally'.errors = 0
          /\ errsPending' = errsPending \/ errsPending' = errsPending + tally.errors
      BY <1>4, <2>1, <2>2
    <3>2. tally.errors >= 0
      BY <1>1
    <3> QED
      BY ONLY <1>4, <3>1, <3>2
  <2>5. tally'.overflow =< Len(txRows') /\ meta'.overflow =< Len(rows')
    <3>1. /\ tally'.overflow = 0 /\ Len(txRows') = 0 /\ Len(rows') = Len(rows) + Len(txRows)
          /\ meta'.overflow = meta.overflow \/ meta'.overflow = meta.overflow + tally.overflow
      BY <1>5, <2>1, <2>2
    <3> QED
      BY ONLY <1>5, <3>1
  <2> QED
    BY <2>3, <2>4, <2>5
<1>14. CASE CommitFails
  <2>1. /\ Held' = Held - Len(txRows) /\ Len(txRows') = 0
        /\ dropped' = dropped + (tally.dropped + Len(txRows))
        /\ errsPending' = errsPending + tally.errors
        /\ UNCHANGED <<accepted, rows, meta, failures>> /\ faults' = faults + 1
    BY <1>14, CommitFailsMoves
  <2>2. tally'.dropped = 0 /\ tally'.errors = 0 /\ tally'.overflow = 0
    BY <1>14, CommitFailsMoves DEF NoTally
  <2>3. dropped' + tally'.dropped + Held' =< accepted'
    <3>1. accepted' = accepted
      BY <2>1
    <3> QED
      BY ONLY <1>3, <2>1, <2>2, <3>1
  <2>4. errsPending' + tally'.errors =< failures' /\ failures' =< faults'
    BY <1>4, <2>1, <2>2
  <2>5. tally'.overflow =< Len(txRows') /\ meta'.overflow =< Len(rows')
    BY <1>5, <2>1, <2>2
  <2> QED
    BY <2>3, <2>4, <2>5
<1> QED
  BY <1>6, <1>7, <1>8, <1>9, <1>10, <1>11, <1>12, <1>13, <1>14 DEF HistoryNext

\* Both sums grow with what is accepted or fails, and else by a commit that
\* gives back counts of which it wrote some.
LEMMA NextSums ==
    ASSUME HistoryTypes, Phase, Budget, [HistoryNext]_historyVars
    PROVE  /\ DropsCounted' + Held' =< accepted' + Again' * MaxItems
           /\ ErrorsCounted' =< failures' + Again' * MaxFaults
<1> DEFINE Sums == /\ DropsCounted' + Held' =< accepted' + Again' * MaxItems
                   /\ ErrorsCounted' =< failures' + Again' * MaxFaults
<1> SUFFICES Sums
  OBVIOUS
<1>1. /\ Held \in Nat /\ accepted \in Nat /\ dropped \in Nat /\ errsPending \in Nat
      /\ tally.dropped \in Nat /\ tally.errors \in Nat
      /\ meta.dropped \in Nat /\ meta.errors \in Nat
      /\ Len(txRows) \in Nat /\ failures \in Nat /\ faults \in Nat /\ Again \in Nat
      /\ DropsCounted \in Nat /\ ErrorsCounted \in Nat
      /\ MaxItems \in Nat /\ MaxFaults \in Nat
  BY SumsAre, SizesAre
<1>2. /\ DropsCounted + Held =< accepted + Again * MaxItems
      /\ ErrorsCounted =< failures + Again * MaxFaults
  BY DEF Budget
<1>3. /\ dropped \in Int /\ tally.dropped \in Int /\ meta.dropped \in Int
      /\ Held \in Int /\ DropsCounted \in Int
  BY <1>1
<1>4. errsPending \in Int /\ tally.errors \in Int /\ meta.errors \in Int
  BY <1>1
<1>5. Again' \in Nat /\ Again =< Again'
  BY NextAgain
<1>6. /\ Again * MaxItems =< Again' * MaxItems /\ Again * MaxItems \in Nat /\ Again' * MaxItems \in Nat
      /\ Again * MaxFaults =< Again' * MaxFaults /\ Again * MaxFaults \in Nat
      /\ Again' * MaxFaults \in Nat
  BY <1>1, <1>5, TimesGrows
<1>7. CASE Enqueue
  <2>1. /\ accepted' = accepted + 1 /\ UNCHANGED <<errsPending, tally, meta, failures>>
        /\ \/ Held' = Held + 1 /\ dropped' = dropped
           \/ Held' = Held /\ dropped' = dropped + 1
    BY <1>7, EnqueueMoves
  <2>2. ErrorsCounted' = ErrorsCounted
    BY <2>1 DEF ErrorsCounted
  <2>3. DropsCounted' + Held' = DropsCounted + Held + 1
    <3>1. CASE Held' = Held + 1 /\ dropped' = dropped
      <4>1. DropsCounted' = DropsCounted
        BY <2>1, <3>1 DEF DropsCounted
      <4> QED
        BY <1>1, <3>1, <4>1
    <3>2. CASE Held' = Held /\ dropped' = dropped + 1
      <4>1. DropsCounted' = DropsCounted + 1
        BY <1>1, <2>1, <3>2 DEF DropsCounted
      <4> QED
        BY <1>1, <3>2, <4>1
    <3> QED
      BY <2>1, <3>1, <3>2
  <2>4. DropsCounted' + Held' =< accepted' + Again' * MaxItems
    <3>1. DropsCounted' + Held' =< accepted' + Again * MaxItems
      <4>1. /\ DropsCounted \in Nat /\ Held \in Nat /\ accepted \in Nat /\ Again * MaxItems \in Nat
            /\ DropsCounted + Held =< accepted + Again * MaxItems
            /\ accepted' = accepted + 1 /\ DropsCounted' + Held' = DropsCounted + Held + 1
        BY <1>1, <1>2, <1>6, <2>1, <2>3
      <4>2. DropsCounted + Held + 1 =< accepted + 1 + Again * MaxItems
        BY ONLY <4>1
      <4> QED
        BY <4>1, <4>2
    <3>2. /\ accepted' \in Nat /\ Again * MaxItems \in Nat /\ Again' * MaxItems \in Nat
          /\ Again * MaxItems =< Again' * MaxItems
      BY <1>1, <1>6, <2>1
    <3>3. accepted' + Again * MaxItems =< accepted' + Again' * MaxItems
      BY ONLY <3>2
    <3>4. DropsCounted' + Held' \in Nat
      BY <1>1, <2>3
    <3>5. /\ accepted' + Again * MaxItems \in Nat /\ accepted' + Again' * MaxItems \in Nat
      BY ONLY <3>2
    <3> QED
      BY ONLY <3>1, <3>3, <3>4, <3>5
  <2>5. ErrorsCounted' =< failures' + Again' * MaxFaults
    <3>1. /\ failures \in Nat /\ ErrorsCounted \in Nat
          /\ Again * MaxFaults \in Nat /\ Again' * MaxFaults \in Nat
          /\ Again * MaxFaults =< Again' * MaxFaults
          /\ ErrorsCounted =< failures + Again * MaxFaults
      BY <1>1, <1>2, <1>6
    <3>2. ErrorsCounted =< failures + Again' * MaxFaults
      BY ONLY <3>1
    <3> QED
      BY <2>1, <2>2, <3>2
  <2> QED
    BY <2>4, <2>5
<1>8. ASSUME Held' = Held, UNCHANGED countVars PROVE Sums
  <2>1. DropsCounted' = DropsCounted /\ ErrorsCounted' = ErrorsCounted
    BY <1>8 DEF DropsCounted, ErrorsCounted, countVars
  <2>2. accepted' = accepted /\ failures' = failures
    BY <1>8 DEF countVars
  <2> QED
    BY <1>1, <1>2, <1>6, <1>8, <2>1, <2>2
<1>9. CASE Receive \/ FlushTick \/ SyncReceive \/ LastFlush
  BY <1>8, <1>9, SelectMoves
<1>10. CASE \/ SyncReply \/ Begin \/ PersistMeta \/ ReleaseBytes
           \/ SyncCall \/ SyncAfterDone \/ SyncGivesUp
           \/ CloseCall \/ CloseDeadline \/ CloseEnd \/ UNCHANGED historyVars
  BY <1>8, <1>10, QuietMoves
<1>11. CASE BeginFails
  <2>1. /\ Held' = Held - Len(writing) /\ Len(writing) \in Nat
        /\ dropped' = dropped + Len(writing)
        /\ UNCHANGED <<accepted, errsPending, tally, meta, failures>>
    BY <1>11, BeginFailsMoves
  <2>2. DropsCounted' = DropsCounted + Len(writing)
    <3>1. /\ meta'.dropped = meta.dropped /\ tally'.dropped = tally.dropped
          /\ dropped' = dropped + Len(writing) /\ Len(writing) \in Int
      BY <2>1
    <3> QED
      BY <1>3, <3>1 DEF DropsCounted
  <2>3. ErrorsCounted' = ErrorsCounted
    BY <2>1 DEF ErrorsCounted
  <2>4. DropsCounted' + Held' = DropsCounted + Held
    BY <1>3, <2>1, <2>2
  <2>5. accepted' = accepted /\ failures' = failures
    BY <2>1
  <2> QED
    BY <1>1, <1>2, <1>6, <2>3, <2>4, <2>5
<1>12. CASE TakeCounts
  <2>1. /\ tally.dropped = 0 /\ tally.errors = 0 /\ tally'.dropped = dropped
        /\ tally'.errors = errsPending /\ dropped' = 0 /\ errsPending' = 0 /\ Held' = Held
        /\ UNCHANGED <<accepted, meta, failures>>
    BY <1>12, TakeCountsMoves
  <2>2. DropsCounted' = DropsCounted
    BY <1>1, <2>1 DEF DropsCounted
  <2>3. ErrorsCounted' = ErrorsCounted
    BY <1>1, <2>1 DEF ErrorsCounted
  <2> QED
    BY <1>1, <1>2, <1>6, <2>1, <2>2, <2>3
<1>13. CASE Insert
  <2>1. UNCHANGED <<accepted, dropped, errsPending, meta>>
    BY <1>13, InsertMoves
  <2>2. DropsCounted' + Held' = DropsCounted + Held
    <3>1. CASE Held' = Held /\ tally'.dropped = tally.dropped
      <4>1. DropsCounted' = DropsCounted
        BY <2>1, <3>1 DEF DropsCounted
      <4> QED
        BY <3>1, <4>1
    <3>2. CASE Held' = Held - 1 /\ tally'.dropped = tally.dropped + 1
      <4>1. DropsCounted' = DropsCounted + 1
        BY <1>1, <2>1, <3>2 DEF DropsCounted
      <4> QED
        BY <1>1, <3>2, <4>1
    <3> QED
      BY <1>13, <3>1, <3>2, InsertMoves
  <2>3. ErrorsCounted' =< failures' + Again' * MaxFaults
    <3>1. CASE tally'.errors = tally.errors /\ failures' = failures
      <4>1. ErrorsCounted' = ErrorsCounted
        BY <2>1, <3>1 DEF ErrorsCounted
      <4> QED
        BY <1>1, <1>2, <1>6, <3>1, <4>1
    <3>2. CASE tally'.errors = tally.errors + 1 /\ failures' = failures + 1
      <4>1. ErrorsCounted' = ErrorsCounted + 1
        BY <1>1, <2>1, <3>2 DEF ErrorsCounted
      <4> QED
        BY <1>1, <1>2, <1>6, <3>2, <4>1
    <3> QED
      BY <1>13, <3>1, <3>2, InsertMoves
  <2> QED
    BY <1>1, <1>2, <1>6, <2>1, <2>2, <2>3
<1>14. CASE Commit
  <2>1. /\ Held' = Held /\ UNCHANGED <<accepted, failures>>
        /\ dropped' = dropped + (IF unmet = {} THEN 0 ELSE tally.dropped)
        /\ errsPending' = errsPending + (IF unmet = {} THEN 0 ELSE tally.errors)
        /\ meta'.dropped = meta.dropped + (IF "dropped" \in unmet THEN 0 ELSE tally.dropped)
        /\ meta'.errors = meta.errors + (IF "errors" \in unmet THEN 0 ELSE tally.errors)
    BY <1>14, CommitMoves
  <2>2. tally'.dropped = 0 /\ tally'.errors = 0
    BY <1>14, CommitMoves, NoTallyIs
  <2>3. CASE unmet = {}
    <3>1. DropsCounted' = DropsCounted
      BY <1>1, <2>1, <2>2, <2>3 DEF DropsCounted
    <3>2. ErrorsCounted' = ErrorsCounted
      BY <1>1, <2>1, <2>2, <2>3 DEF ErrorsCounted
    <3>3. DropsCounted' + Held' =< accepted' + Again' * MaxItems
      <4>1. /\ DropsCounted \in Nat /\ Held \in Nat /\ accepted \in Nat
            /\ Again * MaxItems \in Nat /\ Again' * MaxItems \in Nat
            /\ Again * MaxItems =< Again' * MaxItems
            /\ DropsCounted + Held =< accepted + Again * MaxItems
        BY <1>1, <1>2, <1>6
      <4>2. DropsCounted + Held =< accepted + Again' * MaxItems
        BY ONLY <4>1
      <4>3. Held' = Held /\ accepted' = accepted
        BY <2>1
      <4> QED
        BY ONLY <3>1, <4>2, <4>3
    <3>4. ErrorsCounted' =< failures' + Again' * MaxFaults
      <4>1. /\ ErrorsCounted \in Nat /\ failures \in Nat
            /\ Again * MaxFaults \in Nat /\ Again' * MaxFaults \in Nat
            /\ Again * MaxFaults =< Again' * MaxFaults
            /\ ErrorsCounted =< failures + Again * MaxFaults
        BY <1>1, <1>2, <1>6
      <4>2. ErrorsCounted =< failures + Again' * MaxFaults
        BY ONLY <4>1
      <4>3. failures' = failures
        BY <2>1
      <4> QED
        BY ONLY <3>2, <4>2, <4>3
    <3> QED
      BY <3>3, <3>4
  <2>4. CASE unmet # {}
    <3>1. DropsCounted' =< DropsCounted + tally.dropped /\ DropsCounted' \in Int
      <4>1. /\ dropped' = dropped + tally.dropped /\ tally'.dropped = 0
            /\ meta'.dropped = meta.dropped \/ meta'.dropped = meta.dropped + tally.dropped
        BY <1>3, <2>1, <2>2, <2>4
      <4>2. CASE meta'.dropped = meta.dropped
        <5>1. DropsCounted' = DropsCounted
          BY <1>3, <4>1, <4>2 DEF DropsCounted
        <5> QED
          BY <1>1, <5>1
      <4>3. CASE meta'.dropped = meta.dropped + tally.dropped
        <5>1. DropsCounted' = DropsCounted + tally.dropped
          BY <1>3, <4>1, <4>3 DEF DropsCounted
        <5> QED
          BY <1>1, <5>1
      <4> QED
        BY <4>1, <4>2, <4>3
    <3>2. ErrorsCounted' =< ErrorsCounted + tally.errors /\ ErrorsCounted' \in Int
      <4>1. /\ errsPending' = errsPending + tally.errors /\ tally'.errors = 0
            /\ meta'.errors = meta.errors \/ meta'.errors = meta.errors + tally.errors
        BY <1>4, <2>1, <2>2, <2>4
      <4>2. CASE meta'.errors = meta.errors
        <5>1. ErrorsCounted' = ErrorsCounted
          BY <1>4, <4>1, <4>2 DEF ErrorsCounted
        <5> QED
          BY <1>1, <5>1
      <4>3. CASE meta'.errors = meta.errors + tally.errors
        <5>1. ErrorsCounted' = ErrorsCounted + tally.errors
          BY <1>4, <4>1, <4>3 DEF ErrorsCounted
        <5> QED
          BY <1>1, <5>1
      <4> QED
        BY <4>1, <4>2, <4>3
    <3>3. tally.dropped =< MaxItems /\ tally.errors =< MaxFaults
      <4>1. dropped + tally.dropped + Held =< accepted /\ accepted \in 0..MaxItems
        BY SumsAre DEF Budget
      <4>2. errsPending + tally.errors =< failures /\ failures =< faults /\ faults \in 0..MaxFaults
        BY DEF Budget
      <4>3. tally.dropped =< MaxItems
        <5>1. /\ dropped \in Nat /\ tally.dropped \in Nat /\ Held \in Nat /\ MaxItems \in Nat
          BY <1>1
        <5> QED
          BY ONLY <4>1, <5>1
      <4>4. tally.errors =< MaxFaults
        <5>1. /\ errsPending \in Nat /\ tally.errors \in Nat /\ failures \in Nat
              /\ MaxFaults \in Nat
          BY <1>1
        <5> QED
          BY ONLY <4>2, <5>1
      <4> QED
        BY <4>3, <4>4
    <3>4. Again' = Again + 1
      BY <1>14, <2>4, NextAgain
    <3>5. /\ Again' * MaxItems = Again * MaxItems + MaxItems
          /\ Again' * MaxFaults = Again * MaxFaults + MaxFaults
      BY <1>1, <3>4, TimesNext
    <3>6. DropsCounted' + Held' =< accepted' + Again' * MaxItems
      <4>1. Held' = Held /\ accepted' = accepted
        BY <2>1
      <4>2. \A h \in Nat, s \in Nat, m \in Nat :
               DropsCounted + h =< s + m => DropsCounted' + h =< s + (m + MaxItems)
        <5>1. /\ DropsCounted' \in Int /\ DropsCounted \in Nat
              /\ tally.dropped \in Int /\ MaxItems \in Nat
              /\ DropsCounted' =< DropsCounted + tally.dropped /\ tally.dropped =< MaxItems
          BY <1>1, <3>1, <3>3
        <5> QED
          BY ONLY <5>1, SumGrows
      <4>3. DropsCounted' + Held =< accepted + (Again * MaxItems + MaxItems)
        BY <1>1, <1>2, <1>6, <4>2
      <4> QED
        BY <3>5, <4>1, <4>3
    <3>7. ErrorsCounted' =< failures' + Again' * MaxFaults
      <4>1. /\ ErrorsCounted' \in Int /\ ErrorsCounted \in Nat /\ failures \in Nat
            /\ tally.errors \in Nat /\ MaxFaults \in Nat /\ Again * MaxFaults \in Nat
            /\ ErrorsCounted' =< ErrorsCounted + tally.errors /\ tally.errors =< MaxFaults
            /\ ErrorsCounted =< failures + Again * MaxFaults
        BY <1>1, <1>2, <1>6, <3>2, <3>3
      <4>2. ErrorsCounted' =< failures + (Again * MaxFaults + MaxFaults)
        BY ONLY <4>1
      <4>3. failures' = failures
        BY <2>1
      <4> QED
        BY ONLY <3>5, <4>2, <4>3
    <3> QED
      BY <3>6, <3>7
  <2> QED
    BY <2>3, <2>4
<1>15. CASE CommitFails
  <2>1. /\ Held' = Held - Len(txRows)
        /\ dropped' = dropped + (tally.dropped + Len(txRows))
        /\ errsPending' = errsPending + tally.errors
        /\ UNCHANGED <<accepted, meta, failures>>
    BY <1>15, CommitFailsMoves
  <2>2. tally'.dropped = 0 /\ tally'.errors = 0
    BY <1>15, CommitFailsMoves, NoTallyIs
  <2>3. DropsCounted' = DropsCounted + Len(txRows)
    <3>1. /\ meta'.dropped = meta.dropped /\ tally'.dropped = 0
          /\ dropped' = dropped + (tally.dropped + Len(txRows)) /\ Len(txRows) \in Int
      BY <1>1, <2>1, <2>2
    <3>2. DropsCounted' = meta.dropped + (dropped + (tally.dropped + Len(txRows))) + 0
      BY ONLY <3>1 DEF DropsCounted
    <3>3. DropsCounted = meta.dropped + dropped + tally.dropped
      BY DEF DropsCounted
    <3>4. Len(txRows) \in Int
      BY <3>1
    <3> QED
      BY ONLY <1>3, <3>2, <3>3, <3>4
  <2>4. ErrorsCounted' = ErrorsCounted
    BY <1>1, <2>1, <2>2 DEF ErrorsCounted
  <2>5. DropsCounted' + Held' = DropsCounted + Held
    BY <1>1, <2>1, <2>3
  <2>6. accepted' = accepted /\ failures' = failures
    BY <2>1
  <2> QED
    BY <1>1, <1>2, <1>6, <2>4, <2>5, <2>6
<1> QED
  BY <1>7, <1>9, <1>10, <1>11, <1>12, <1>13, <1>14, <1>15 DEF HistoryNext

LEMMA NextBudget == HistoryTypes /\ Phase /\ Budget /\ [HistoryNext]_historyVars => Budget'
BY NextAgain, NextParts, NextSums DEF Budget

-----------------------------------------------------------------------------
(* The order.                                                                *)

\* Items that leave the line do not disturb it.
LEMMA LineShrinks ==
    ASSUME NEW a, NEW b, NEW c, NEW d, NEW e, NEW f, NEW newest \in Nat, Line(a, b, c, d, e, f, newest),
           NEW A \in SUBSET a, NEW B \in SUBSET b, NEW C \in SUBSET c, NEW D \in SUBSET d,
           NEW E \in SUBSET e, NEW F \in SUBSET f
    PROVE  Line(A, B, C, D, E, F, newest)
BY DEF Line, Before

\* A new item comes last.
LEMMA LineGrows ==
    ASSUME NEW a, NEW b, NEW c, NEW d, NEW e, NEW f, NEW newest \in Nat, Line(a, b, c, d, e, f, newest)
    PROVE  /\ Line(a, b, c, d, e, f, newest + 1)
           /\ Line(a, b, c, d, e, f \cup {newest + 1}, newest + 1)
           /\ f = {} => Line(a, b, c, d, e \cup {newest + 1}, f, newest + 1)
           /\ Before(e, {newest + 1}) /\ Before(f, {newest + 1})
<1>1. \A n \in a \cup b \cup c \cup d \cup e \cup f : n \in 0..(newest + 1) /\ n < newest + 1
  BY DEF Line
<1>2. newest + 1 \in 0..(newest + 1)
  OBVIOUS
<1> QED
  BY <1>1, <1>2 DEF Line, Before

OpenFits ==
    /\ Open \subseteq Numbers(writing)
    /\ writer \in {"begin", "takeCounts", "insert"} /\ pos = 0 => Open = Numbers(writing)

LEMMA OpenIs == HistoryTypes => OpenFits
<1> SUFFICES ASSUME HistoryTypes PROVE OpenFits
  OBVIOUS
<1>1. Numbers(writing) = {writing[i].n : i \in 1..Len(writing)} /\ Len(writing) \in Nat
  BY NumbersAre DEF HistoryTypes
<1>2. pos \in 0..Len(writing)
  BY DEF HistoryTypes
<1> QED
  BY <1>1, <1>2 DEF Open, OpenFits

LEMMA NextOpen == HistoryTypes' => OpenFits'
BY OpenIs, PTL

\* A step that adds nothing to a queue, to the transaction or to the rows.
LEMMA Leaving ==
    ASSUME HistoryInv, accepted' = accepted, UNCHANGED <<channel, spill, batch, rows>>,
           writing' \in {writing, <<>>}, txRows' \in {txRows, <<>>}, Open' \subseteq Open
    PROVE  InLine'
<1>1. Sorted'
  BY NumbersOfNone DEF HistoryInv, InLine, Sorted
<1>2. accepted \in Nat
  BY DEF HistoryInv, HistoryTypes
<1>3. Numbers(txRows') \subseteq Numbers(txRows)
  BY NumbersOfNone
<1>4. Line(Numbers(rows), Numbers(txRows'), Open', Numbers(batch), Numbers(channel),
           Numbers(spill), accepted)
  BY <1>2, <1>3, LineShrinks DEF HistoryInv, InLine
<1> QED
  BY <1>1, <1>4 DEF InLine

LEMMA NextInLine ==
    HistoryInv /\ HistoryTypes' /\ [HistoryNext]_historyVars => InLine'
<1> SUFFICES ASSUME HistoryInv, HistoryTypes', [HistoryNext]_historyVars PROVE InLine'
  OBVIOUS
<1>1. /\ HistoryTypes /\ Phase /\ Sorted /\ accepted \in Nat
      /\ Line(Numbers(rows), Numbers(txRows), Open, Numbers(batch), Numbers(channel),
              Numbers(spill), accepted)
  BY DEF HistoryInv, InLine, HistoryTypes
<1>2. CASE Enqueue
  <2>1. UNCHANGED <<writer, batch, writing, pos, txRows, rows>> /\ accepted' = accepted + 1
    BY <1>2 DEF Enqueue, batchVars, txVars, dbVars
  <2>2. Open' = Open
    BY <2>1 DEF Open
  <2>3. /\ accepted \in Nat
        /\ Line(Numbers(rows), Numbers(txRows), Open, Numbers(batch), Numbers(channel),
                Numbers(spill), accepted)
    BY <1>1
  <2>4. /\ Line(Numbers(rows), Numbers(txRows), Open, Numbers(batch), Numbers(channel),
                Numbers(spill), accepted + 1)
        /\ Line(Numbers(rows), Numbers(txRows), Open, Numbers(batch), Numbers(channel),
                Numbers(spill) \cup {accepted + 1}, accepted + 1)
        /\ Numbers(spill) = {} => Line(Numbers(rows), Numbers(txRows), Open, Numbers(batch),
                Numbers(channel) \cup {accepted + 1}, Numbers(spill), accepted + 1)
        /\ Before(Numbers(channel), {accepted + 1}) /\ Before(Numbers(spill), {accepted + 1})
    BY <2>3, LineGrows
  <2>5. CASE /\ spill = <<>> /\ spill' = spill
             /\ channel' = Append(channel, [n |-> accepted + 1, full |-> TRUE])
    <3> DEFINE whole == [n |-> accepted + 1, full |-> TRUE]
    <3>1. whole \in Item /\ whole.n = accepted + 1 /\ channel' = Append(channel, whole)
      BY <1>1, <1>2, <2>5, NextItemIs DEF Enqueue
    <3>2. channel \in Seq(Item) /\ Increasing(channel) /\ Before(Numbers(channel), {whole.n})
      BY <1>1, <2>4, <3>1 DEF HistoryTypes, Sorted
    <3> HIDE DEF whole
    <3>3. Numbers(Append(channel, whole)) = Numbers(channel) \cup {whole.n} /\ Increasing(Append(channel, whole))
      BY <3>1, <3>2, NumbersOfAppend
    <3>4. Numbers(channel') = Numbers(channel) \cup {accepted + 1} /\ Increasing(channel')
      BY <3>1, <3>3
    <3>5. Numbers(spill) = {}
      BY <2>5, NumbersOfNone
    <3> QED
      BY <1>1, <2>1, <2>2, <2>4, <2>5, <3>4, <3>5 DEF InLine, Sorted
  <2>6. CASE UNCHANGED <<channel, spill>>
    BY <1>1, <2>1, <2>2, <2>4, <2>6 DEF InLine, Sorted
  <2>7. CASE /\ channel' = channel
             /\ spill' = Append(spill, [n |-> accepted + 1, full |-> FALSE])
    <3> DEFINE stub == [n |-> accepted + 1, full |-> FALSE]
    <3>1. stub \in Item /\ stub.n = accepted + 1 /\ spill' = Append(spill, stub)
      BY <1>1, <1>2, <2>7, NextItemIs DEF Enqueue
    <3>2. spill \in Seq(Item) /\ Increasing(spill) /\ Before(Numbers(spill), {stub.n})
      BY <1>1, <2>4, <3>1 DEF HistoryTypes, Sorted
    <3> HIDE DEF stub
    <3>3. Numbers(Append(spill, stub)) = Numbers(spill) \cup {stub.n} /\ Increasing(Append(spill, stub))
      BY <3>1, <3>2, NumbersOfAppend
    <3>4. Numbers(spill') = Numbers(spill) \cup {accepted + 1} /\ Increasing(spill')
      BY <3>1, <3>3
    <3> QED
      BY <1>1, <2>1, <2>2, <2>4, <2>7, <3>4 DEF InLine, Sorted
  <2> QED
    BY <1>2, <2>5, <2>6, <2>7 DEF Enqueue, Fits
<1>3. CASE Receive
  <2> DEFINE h == Head(channel)
  <2>1. /\ writer = "select" /\ channel' = Tail(channel) /\ pos = 0 /\ Open = {}
        /\ UNCHANGED <<spill, accepted, pos, txRows, rows>>
        /\ channel # <<>> /\ h \in Item
    BY <1>1, <1>3, ReceiveIs DEF Phase, Open, txVars, dbVars
  <2>2. /\ Numbers(channel') \subseteq Numbers(channel) /\ h.n \in Numbers(channel)
        /\ Increasing(channel') /\ Before({h.n}, Numbers(channel'))
    BY <1>1, <2>1, NumbersOfTail DEF HistoryTypes, Sorted
  <2>3. Before(Numbers(batch), {h.n})
    BY <1>1, <2>2 DEF Line, Before
  <2>4. /\ Numbers(Append(batch, h)) = Numbers(batch) \cup {h.n}
        /\ Increasing(Append(batch, h))
    BY <1>1, <2>1, <2>3, NumbersOfAppend DEF HistoryTypes, Sorted
  <2>5. CASE writing' = Append(batch, h) /\ batch' = <<>> /\ writer' = "begin"
    <3>1. Numbers(batch') = {} /\ Open' = Numbers(batch) \cup {h.n} /\ Increasing(batch')
      BY <2>1, <2>4, <2>5, NextOpen, NumbersOfNone DEF OpenFits
    <3>2. Line(Numbers(rows), Numbers(txRows), Numbers(batch) \cup {h.n}, {}, Numbers(channel'),
               Numbers(spill), accepted)
      BY <1>1, <2>2 DEF Line, Before
    <3> QED
      BY <1>1, <2>1, <2>2, <2>4, <2>5, <3>1, <3>2 DEF InLine, Sorted
  <2>6. CASE batch' = Append(batch, h) /\ UNCHANGED <<writer, writing>>
    <3>1. Open' = {}
      BY <2>1, <2>6 DEF Open
    <3>2. Line(Numbers(rows), Numbers(txRows), {}, Numbers(batch) \cup {h.n}, Numbers(channel'),
               Numbers(spill), accepted)
      BY <1>1, <2>2 DEF Line, Before
    <3> QED
      BY <1>1, <2>1, <2>2, <2>4, <2>6, <3>1, <3>2 DEF InLine, Sorted
  <2> QED
    BY <1>1, <1>3, <2>5, <2>6, ReceiveIs
<1>4. ASSUME NEW s \in Rests, writer = "select", TakeQueued(s), FlushUnchanged PROVE InLine'
  <2> DEFINE q == batch \o channel \o spill
  <2>1. /\ writing' = q /\ batch' = <<>> /\ channel' = <<>> /\ spill' = <<>>
        /\ UNCHANGED <<accepted, txRows, rows>>
    BY <1>4 DEF TakeQueued, Write, FlushUnchanged, txVars, dbVars
  <2>2. Before(Numbers(batch), Numbers(channel)) /\ Before(Numbers(batch) \cup Numbers(channel), Numbers(spill))
    BY <1>1 DEF Line, Before
  <2>3. /\ batch \in Seq(Item) /\ channel \in Seq(Item) /\ spill \in Seq(Item)
        /\ Increasing(batch) /\ Increasing(channel) /\ Increasing(spill)
    BY <1>1 DEF HistoryTypes, Sorted
  <2>4. /\ batch \o channel \in Seq(Item) /\ Increasing(batch \o channel)
        /\ Numbers(batch \o channel) = Numbers(batch) \cup Numbers(channel)
    BY <2>2, <2>3, NumbersOfConcat
  <2>5. Increasing(q) /\ Numbers(q) = Numbers(batch) \cup Numbers(channel) \cup Numbers(spill)
    <3> DEFINE both == batch \o channel
    <3>1. both \in Seq(Item) /\ Increasing(both) /\ Before(Numbers(both), Numbers(spill))
      BY <2>2, <2>4
    <3>2. Numbers(both) = Numbers(batch) \cup Numbers(channel)
      BY <2>4
    <3>3. q = both \o spill
      OBVIOUS
    <3> HIDE DEF both, q
    <3>4. Numbers(both \o spill) = Numbers(both) \cup Numbers(spill)
      BY <2>3, <3>1, NumbersOfConcat
    <3>5. Increasing(both \o spill)
      BY <2>3, <3>1, NumbersOfConcat
    <3> QED
      BY <3>2, <3>3, <3>4, <3>5
  <2>6. Open' \subseteq Numbers(batch) \cup Numbers(channel) \cup Numbers(spill)
    BY <2>1, <2>5, NextOpen DEF OpenFits
  <2>7. Line(Numbers(rows), Numbers(txRows), Open', {}, {}, {}, accepted)
    BY <1>1, <2>6 DEF Line, Before
  <2> HIDE DEF q
  <2> QED
    BY <1>1, <2>1, <2>5, <2>7, NumbersOfNone DEF InLine, Sorted
<1>5. CASE FlushTick \/ SyncReceive \/ LastFlush
  BY <1>4, <1>5 DEF FlushTick, SyncReceive, LastFlush, Rests
<1>6. CASE Insert
  <2> DEFINE w == writing[pos + 1].n
  <2>1. /\ writer = "insert" /\ pos \in 0..Len(writing) /\ pos < Len(writing) /\ pos' = pos + 1
        /\ writing \in Seq(Item) /\ txRows \in Seq(Row) /\ Increasing(writing)
        /\ UNCHANGED <<channel, spill, accepted, writer, batch, writing, rows>>
    BY <1>1, <1>6 DEF Insert, HistoryTypes, Sorted, queueVars, batchVars, dbVars
  <2>2. /\ pos + 1 \in 1..Len(writing) /\ pos + 1 \in (pos + 1)..Len(writing)
        /\ (pos + 2)..Len(writing) \subseteq (pos + 1)..Len(writing)
    BY <2>1
  <2>3. /\ Open = {writing[i].n : i \in (pos + 1)..Len(writing)}
        /\ Open' = {writing[i].n : i \in (pos + 2)..Len(writing)}
    BY <2>1 DEF Open
  <2>4. w \in Open /\ Open' \subseteq Open
    BY <2>2, <2>3
  <2>5. \A n \in Open' : w < n
    <3>1. \A i \in (pos + 2)..Len(writing) : i \in 1..Len(writing) /\ pos + 1 < i
      BY <2>1
    <3> QED
      BY <2>1, <2>2, <2>3, <3>1 DEF Increasing
  <2>6. CASE txRows' = txRows
    <3>1. Line(Numbers(rows), Numbers(txRows), Open', Numbers(batch), Numbers(channel),
               Numbers(spill), accepted)
      BY <1>1, <2>4 DEF Line, Before
    <3> QED
      BY <1>1, <2>1, <2>6, <3>1 DEF InLine, Sorted
  <2>7. ASSUME NEW marker \in BOOLEAN, Landed(marker) PROVE InLine'
    <3>1. [n |-> w, marker |-> marker] \in Row
      <4>1. writing[pos + 1] \in Item
        BY <2>1, <2>2
      <4>2. w \in 1..MaxItems
        BY <4>1 DEF Item
      <4> HIDE DEF w
      <4> QED
        BY <4>2 DEF Row
    <3>2. Before(Numbers(txRows), {w})
      BY <1>1, <2>4 DEF Line, Before
    <3>3. txRows' = Append(txRows, [n |-> w, marker |-> marker])
      BY <2>7 DEF Landed
    <3>4. Numbers(txRows') = Numbers(txRows) \cup {w} /\ Increasing(txRows')
      BY <1>1, <2>1, <3>1, <3>2, <3>3, NumbersOfAppend DEF Sorted
    <3> HIDE DEF w
    <3>5. Line(Numbers(rows), Numbers(txRows) \cup {w}, Open', Numbers(batch), Numbers(channel),
               Numbers(spill), accepted)
      BY <1>1, <2>4, <2>5 DEF Line, Before
    <3> QED
      BY <1>1, <2>1, <3>4, <3>5 DEF InLine, Sorted
  <2>8. (~ writing[pos + 1].full \/ degrade) \in BOOLEAN
    OBVIOUS
  <2> QED
    BY <1>6, <2>6, <2>7, <2>8 DEF Insert, InsertRow, InsertMarker, InsertNothing
<1>7. CASE Commit
  <2>1. /\ rows' = rows \o txRows /\ txRows' = <<>> /\ writer = "commit" /\ writer' = "release"
        /\ UNCHANGED <<channel, spill, accepted, batch, writing>>
    BY <1>7 DEF Commit, batchVars
  <2>2. Open = {} /\ Open' = {}
    BY <2>1 DEF Open
  <2>3. rows \in Seq(Row) /\ txRows \in Seq(Row) /\ Before(Numbers(rows), Numbers(txRows))
    BY <1>1 DEF HistoryTypes, Line, Before
  <2>4. Numbers(rows') = Numbers(rows) \cup Numbers(txRows) /\ Increasing(rows')
    BY <1>1, <2>1, <2>3, NumbersOfConcat DEF Sorted
  <2>5. Line(Numbers(rows) \cup Numbers(txRows), {}, {}, Numbers(batch), Numbers(channel),
             Numbers(spill), accepted)
    BY <1>1 DEF Line, Before
  <2> QED
    BY <1>1, <2>1, <2>2, <2>4, <2>5, NumbersOfNone DEF InLine, Sorted
<1>8. CASE \/ SyncReply \/ Begin \/ BeginFails \/ TakeCounts \/ PersistMeta \/ CommitFails
           \/ ReleaseBytes \/ SyncCall \/ SyncAfterDone \/ SyncGivesUp
           \/ CloseCall \/ CloseDeadline \/ CloseEnd \/ UNCHANGED historyVars
  <2>1. /\ accepted' = accepted /\ UNCHANGED <<channel, spill, batch, rows>>
        /\ writing' \in {writing, <<>>} /\ txRows' \in {txRows, <<>>}
    BY <1>8 DEF SyncReply, Begin, BeginFails, TakeCounts, PersistMeta, CommitFails, ReleaseBytes,
       SyncCall, SyncAfterDone, SyncGivesUp, CloseCall, CloseDeadline, CloseEnd, historyVars,
       queueVars, batchVars, txVars, dbVars
  <2>2. \/ UNCHANGED <<writing, pos>> /\ (\/ writer' = writer
                                          \/ writer' \notin {"begin", "takeCounts", "insert"}
                                          \/ writer = "begin" \/ writer = "takeCounts")
        \/ writer' \notin {"begin", "takeCounts", "insert"}
    BY <1>1, <1>8 DEF SyncReply, Begin, BeginFails, TakeCounts, PersistMeta, CommitFails, ReleaseBytes,
       SyncCall, SyncAfterDone, SyncGivesUp, CloseCall, CloseDeadline, CloseEnd, historyVars,
       queueVars, batchVars, txVars, dbVars, HistoryTypes, Rests
  <2>3. Open' \subseteq Open
    BY <2>2 DEF Open
  <2> QED
    BY <2>1, <2>3, Leaving
<1> QED
  BY <1>2, <1>3, <1>5, <1>6, <1>7, <1>8 DEF HistoryNext

-----------------------------------------------------------------------------
(* Sync and Close.                                                           *)

LEMMA QueuedIs ==
    /\ Queued = Waiting \cup Numbers(writing)
    /\ channel = <<>> /\ spill = <<>> /\ batch = <<>> /\ writing = <<>> => Queued = {}
BY NumbersOfNone DEF Queued, Waiting

\* A step that puts nothing into a queue.
LEMMA Unmoved ==
    ASSUME SyncPhase, UNCHANGED <<accepted, barrier, channel, spill, batch>>,
           writing' \in {writing, <<>>}, Closed => Closed',
           syncer' = "waiting" => syncer = "waiting", syncer' = "released" => syncer = "released",
           \/ writer \in Busy /\ writer' \in Busy /\ then' = then
           \/ writer \in Busy /\ writer' = then /\ then \in Rests
           \/ writer' = writer /\ then' = then
    PROVE  SyncPhase'
<1>1. Waiting' = Waiting /\ Queued' \subseteq Queued
  BY NumbersOfNone DEF Waiting, Queued
<1>2. /\ writer = "reply" \/ (writer \in Busy /\ then = "reply")
            => writer' = "reply" \/ (writer' \in Busy /\ then' = "reply")
      /\ writer' = "done" \/ (writer' \in Busy /\ then' = "done")
            => writer = "done" \/ (writer \in Busy /\ then = "done")
  <2>1. CASE writer \in Busy /\ writer' \in Busy /\ then' = then
    BY <2>1 DEF Busy
  <2>2. CASE writer \in Busy /\ writer' = then /\ then \in Rests
    BY <2>2 DEF Busy, Rests
  <2>3. CASE writer' = writer /\ then' = then
    BY <2>3
  <2> QED
    BY <2>1, <2>2, <2>3
<1> QED
  BY <1>1, <1>2 DEF SyncPhase

LEMMA NextSync == HistoryInv /\ [HistoryNext]_historyVars => SyncPhase'
<1> SUFFICES ASSUME HistoryInv, [HistoryNext]_historyVars PROVE SyncPhase'
  OBVIOUS
<1>1. /\ HistoryTypes /\ Phase /\ SyncPhase /\ accepted \in Nat /\ barrier \in Nat
      /\ barrier =< accepted
  BY DEF HistoryInv, HistoryTypes, SyncPhase
<1>2. CASE Enqueue
  <2>1. /\ UNCHANGED <<writer, then, batch, writing, closer, syncer, barrier>> /\ ~ Closed
        /\ accepted' = accepted + 1
    BY <1>2 DEF Enqueue, batchVars, endVars
  <2>2. /\ Numbers(channel') \subseteq Numbers(channel) \cup {accepted + 1}
        /\ Numbers(spill') \subseteq Numbers(spill) \cup {accepted + 1}
    <3> DEFINE whole == [n |-> accepted + 1, full |-> TRUE]
               stub == [n |-> accepted + 1, full |-> FALSE]
    <3>1. /\ whole \in Item /\ whole.n = accepted + 1
          /\ stub \in Item /\ stub.n = accepted + 1
      BY <1>1, <1>2, NextItemIs DEF Enqueue
    <3>2. channel \in Seq(Item) /\ spill \in Seq(Item)
      BY <1>1 DEF HistoryTypes
    <3>3. channel' \in {channel, Append(channel, whole)} /\ spill' \in {spill, Append(spill, stub)}
      BY <1>2 DEF Enqueue
    <3> HIDE DEF whole, stub
    <3>4. Numbers(Append(channel, whole)) = Numbers(channel) \cup {whole.n}
      BY <3>1, <3>2, NumbersOfAppend
    <3>5. Numbers(Append(spill, stub)) = Numbers(spill) \cup {stub.n}
      BY <3>1, <3>2, NumbersOfAppend
    <3> QED
      BY <3>1, <3>3, <3>4, <3>5
  <2>3. Waiting' \subseteq Waiting \cup {accepted + 1} /\ Queued' \subseteq Queued \cup {accepted + 1}
    BY <2>1, <2>2 DEF Waiting, Queued
  <2>4. accepted + 1 > barrier /\ barrier' =< accepted'
    BY <1>1, <2>1
  <2> QED
    BY <1>1, <2>1, <2>3, <2>4 DEF SyncPhase, Closed
<1>3. CASE Receive
  <2>1. /\ writer = "select" /\ writing = <<>> /\ channel' = Tail(channel)
        /\ \/ /\ writing' = Append(batch, Head(channel)) /\ batch' = <<>>
              /\ writer' = "begin" /\ then' = "select"
           \/ /\ batch' = Append(batch, Head(channel)) /\ UNCHANGED <<writer, writing, then>>
        /\ UNCHANGED <<spill, accepted, syncer, barrier, closer>> /\ channel # <<>>
    BY <1>1, <1>3, ReceiveIs DEF Phase, Rests, endVars
  <2>2. /\ Numbers(channel') \subseteq Numbers(channel) /\ Head(channel).n \in Numbers(channel)
        /\ Head(channel) \in Item
    BY <1>1, <2>1, NumbersOfTail DEF HistoryTypes
  <2>3. Numbers(Append(batch, Head(channel))) = Numbers(batch) \cup {Head(channel).n}
    BY <1>1, <2>2, NumbersOfAppend, ZenonT(40) DEF HistoryTypes
  <2>4. Queued' \subseteq Queued
    <3>1. CASE writing' = Append(batch, Head(channel)) /\ batch' = <<>>
      BY <2>1, <2>2, <2>3, <3>1, NumbersOfNone DEF Queued
    <3>2. CASE batch' = Append(batch, Head(channel)) /\ writing' = writing
      BY <2>1, <2>2, <2>3, <3>2 DEF Queued
    <3> QED
      BY <2>1, <3>1, <3>2
  <2>5. syncer # "waiting"
    BY <1>1, <2>1 DEF SyncPhase, Busy
  <2> QED
    BY <1>1, <2>1, <2>4, <2>5 DEF SyncPhase, Busy, Closed
<1>4. ASSUME NEW s \in Rests, writer = "select", TakeQueued(s), UNCHANGED <<accepted, barrier, closer>>,
             \/ s # "reply" /\ syncer' = syncer
             \/ s = "reply" /\ syncer' = "waiting",
             s = "done" => Closed
      PROVE  SyncPhase'
  <2>1. /\ writing' = batch \o channel \o spill /\ batch' = <<>> /\ channel' = <<>> /\ spill' = <<>>
        /\ \/ writing' = <<>> /\ writer' = s /\ then' = then
           \/ writer' = "begin" /\ then' = s
    BY <1>4, WriteIs DEF TakeQueued
  <2>2. batch \in Seq(Item) /\ channel \in Seq(Item) /\ spill \in Seq(Item)
    BY <1>1 DEF HistoryTypes
  <2>3. Numbers(writing') = Waiting
    <3> DEFINE both == batch \o channel
    <3>1. both \in Seq(Item) /\ Numbers(both) = Numbers(batch) \cup Numbers(channel)
      BY <2>2, NumbersOfConcat
    <3>2. writing' = both \o spill
      BY <2>1
    <3> HIDE DEF both
    <3>3. Numbers(writing') = Numbers(both) \cup Numbers(spill)
      BY <2>2, <3>1, <3>2, NumbersOfConcat
    <3> QED
      BY <3>1, <3>3 DEF Waiting
  <2>4. Waiting' = {} /\ Queued' \subseteq Queued
    BY <2>1, <2>3, NumbersOfNone DEF Waiting, Queued
  <2>5. syncer # "waiting" /\ Closed' = Closed
    BY <1>1, <1>4 DEF SyncPhase, Busy, Closed
  <2> QED
    BY <1>1, <1>4, <2>1, <2>4, <2>5 DEF SyncPhase, Busy, Rests
<1>5. CASE FlushTick \/ SyncReceive \/ LastFlush
  BY <1>4, <1>5 DEF FlushTick, SyncReceive, LastFlush, FlushUnchanged, Rests
<1>6. CASE SyncReply
  <2>1. /\ writer = "reply" /\ writer' = "select" /\ writing = <<>>
        /\ syncer' = IF syncer = "waiting" THEN "released" ELSE syncer
        /\ UNCHANGED <<accepted, barrier, channel, spill, batch, writing, then, closer>>
    BY <1>1, <1>6 DEF SyncReply, Phase, Rests, queueVars, batchVars
  <2>2. Waiting' = Waiting /\ Queued' = Queued /\ Queued = Waiting
    BY <2>1, NumbersOfNone DEF Waiting, Queued
  <2> QED
    BY <1>1, <2>1, <2>2 DEF SyncPhase, Busy
<1>7. CASE SyncCall
  <2>1. /\ syncer' = "asking" /\ barrier' = accepted
        /\ UNCHANGED <<accepted, channel, spill, batch, writing, writer, then, closer>>
    BY <1>7 DEF SyncCall, queueVars, batchVars
  <2> QED
    BY <1>1, <2>1 DEF SyncPhase, Closed
<1>8. CASE SyncAfterDone
  <2>1. /\ writer = "done" /\ writing = <<>>
        /\ UNCHANGED <<accepted, barrier, channel, spill, batch, writing, writer, then, closer>>
        /\ syncer' = "released"
    BY <1>1, <1>8 DEF SyncAfterDone, Phase, Rests, queueVars, batchVars
  <2>2. Queued' = Queued /\ Queued = {} /\ Closed' = Closed
    BY <1>1, <2>1, NumbersOfNone DEF Queued, SyncPhase, Closed
  <2> QED
    BY <1>1, <2>1, <2>2 DEF SyncPhase
<1>9. CASE \/ Begin \/ BeginFails \/ TakeCounts \/ Insert \/ PersistMeta \/ Commit \/ CommitFails
           \/ ReleaseBytes \/ SyncGivesUp \/ CloseCall \/ CloseDeadline \/ CloseEnd
           \/ UNCHANGED historyVars
  <2>1. /\ UNCHANGED <<accepted, barrier, channel, spill, batch>> /\ writing' \in {writing, <<>>}
    BY <1>9 DEF Begin, BeginFails, TakeCounts, Insert, PersistMeta, Commit, CommitFails, ReleaseBytes,
       SyncGivesUp, CloseCall, CloseDeadline, CloseEnd, historyVars, queueVars, batchVars, endVars
  <2>2. /\ Closed => Closed'
        /\ syncer' = "waiting" => syncer = "waiting"
        /\ syncer' = "released" => syncer = "released"
    BY <1>9 DEF Begin, BeginFails, TakeCounts, Insert, PersistMeta, Commit, CommitFails, ReleaseBytes,
       SyncGivesUp, CloseCall, CloseDeadline, CloseEnd, Closed, historyVars, endVars
  <2>3. \/ writer \in Busy /\ writer' \in Busy /\ then' = then
        \/ writer \in Busy /\ writer' = then /\ then \in Rests
        \/ writer' = writer /\ then' = then
    BY <1>1, <1>9 DEF HistoryTypes, Begin, BeginFails, TakeCounts, Insert, PersistMeta, Commit, CommitFails, ReleaseBytes,
       SyncGivesUp, CloseCall, CloseDeadline, CloseEnd, Busy, historyVars, batchVars
  <2> QED
    BY <1>1, <2>1, <2>2, <2>3, Unmoved
<1> QED
  BY <1>2, <1>3, <1>5, <1>6, <1>7, <1>8, <1>9 DEF HistoryNext

-----------------------------------------------------------------------------
(* The invariant.                                                            *)

LEMMA HistoryInitInv == HistoryInit => HistoryInv
<1> SUFFICES ASSUME HistoryInit PROVE HistoryInv
  OBVIOUS
<1>1. HistoryTypes /\ Phase
  BY NoTallyIs, NumbersOfNone, SizesAre DEF HistoryInit, HistoryTypes, Phase, Busy, Rests
<1>2. NoLossUncounted
  BY NoTallyIs DEF HistoryInit, NoLossUncounted, Missing, Undecided, DropsCounted, ErrorsCounted
<1>3. InLine
  <2>1. Open = {}
    BY DEF HistoryInit, Open
  <2> QED
    BY <2>1, NumbersOfNone DEF HistoryInit, InLine, Sorted, Line, Before
<1>4. SyncPhase
  BY DEF HistoryInit, SyncPhase, Busy
<1>5. Caps /\ Ends
  <2>1. channel = <<>> /\ spill = <<>> /\ batch = <<>> /\ writing = <<>> /\ queuedBytes = 0
    BY DEF HistoryInit
  <2>2. Bytes(channel) = 0 /\ Bytes(spill) = 0 /\ Bytes(batch) = 0 /\ Bytes(writing) = 0
    BY <2>1, BytesOfNone
  <2>3. Len(channel) = 0 /\ Len(spill) = 0
    BY <2>1
  <2>4. Caps
    BY <2>1, <2>2, <2>3, SizesAre DEF Caps
  <2>5. Ends
    BY DEF HistoryInit, Ends
  <2> QED
    BY <2>4, <2>5
<1>6. Budget
  <2>1. Len(rows) = 0 /\ Len(txRows) = 0 /\ Held = 0 /\ Again = 0
    BY NumbersOfNone DEF HistoryInit, Held, Undecided, Again
  <2>2. tally = NoTally /\ meta = NoTally /\ unmet = {} /\ faults = 0 /\ failures = 0 /\ accepted = 0
    BY DEF HistoryInit
  <2>3. DropsCounted = 0 /\ ErrorsCounted = 0
    BY NoTallyIs DEF HistoryInit, DropsCounted, ErrorsCounted
  <2>4. 0 * MaxItems = 0 /\ 0 * MaxFaults = 0
    BY SizesAre
  <2> QED
    BY <2>1, <2>2, <2>3, <2>4, SizesAre DEF HistoryInit, Budget, NoTally
<1> QED
  BY <1>1, <1>2, <1>3, <1>4, <1>5, <1>6 DEF HistoryInv

LEMMA HistoryInvariance == HistorySpec => []HistoryInv
<1>1. HistoryInv /\ [HistoryNext]_historyVars => HistoryInv'
  BY NextTypes, NextCounts, NextInLine, NextSync, NextCaps, NextEnds, NextBudget DEF HistoryInv
<1> QED
  BY HistoryInitInv, <1>1, PTL DEF HistorySpec

\* A queue of items, or of rows, is one of numbered items.
LEMMA CountsAre ==
    ASSUME NEW f \in Counters,
           \A c \in {"dropped", "overflow", "errors"} :
               f[c] =< (MaxItems + MaxFaults) * (MaxFaults + 1)
    PROVE  f \in Counts
<1>1. (MaxItems + MaxFaults) * (MaxFaults + 1) \in Nat
  BY SizesAre
<1> QED
  BY <1>1 DEF Counts, Counters

\* What is counted stays below a bound that the faults give.
LEMMA TotalsAre ==
    ASSUME HistoryTypes, Budget
    PROVE  tally \in Counts /\ meta \in Counts
<1> DEFINE top == (MaxItems + MaxFaults) * (MaxFaults + 1)
<1>1. /\ Held \in Nat /\ accepted \in 0..MaxItems /\ dropped \in Nat /\ errsPending \in Nat
      /\ tally.dropped \in Nat /\ tally.errors \in Nat /\ tally.overflow \in Nat
      /\ meta.dropped \in Nat /\ meta.errors \in Nat /\ meta.overflow \in Nat
      /\ Len(txRows) \in Nat /\ Len(rows) \in Nat /\ failures \in Nat
      /\ faults \in Nat /\ Again \in Nat /\ Again =< faults
      /\ MaxItems \in Nat /\ MaxFaults \in Nat
  BY SumsAre, SizesAre
<1>2. /\ faults =< MaxFaults /\ failures =< faults
      /\ dropped + tally.dropped + Held =< accepted
      /\ errsPending + tally.errors =< failures
      /\ tally.overflow =< Len(txRows) /\ meta.overflow =< Len(rows)
      /\ meta.dropped + dropped + tally.dropped + Held =< accepted + Again * MaxItems
      /\ meta.errors + errsPending + tally.errors =< failures + Again * MaxFaults
  BY DEF Budget, DropsCounted, ErrorsCounted
<1>3. /\ Again * MaxItems =< MaxFaults * MaxItems /\ Again * MaxFaults =< MaxFaults * MaxFaults
      /\ Again * MaxItems \in Nat /\ Again * MaxFaults \in Nat
      /\ MaxFaults * MaxItems \in Nat /\ MaxFaults * MaxFaults \in Nat
  <2>1. Again =< MaxFaults
    BY <1>1, <1>2
  <2> QED
    BY <1>1, <2>1, TimesGrows
<1>4. top \in Nat /\ MaxItems + MaxFaults * MaxItems =< top /\ MaxFaults + MaxFaults * MaxFaults =< top
  <2>1. top = MaxItems * MaxFaults + MaxItems + MaxFaults * MaxFaults + MaxFaults
    BY <1>1
  <2>2. MaxItems * MaxFaults = MaxFaults * MaxItems
    BY <1>1
  <2> QED
    BY <1>1, <1>3, <2>1, <2>2
<1> HIDE DEF top
<1>5. Len(txRows) =< MaxItems /\ Len(rows) =< MaxItems
  <2>1. Len(txRows) =< Held /\ Len(rows) =< Held
    <3>1. /\ Len(channel) \in Nat /\ Len(spill) \in Nat /\ Len(batch) \in Nat
          /\ Undecided \in Nat /\ Len(txRows) \in Nat /\ Len(rows) \in Nat
      BY AmountsAre DEF Amounts
    <3>2. Held = Len(channel) + Len(spill) + Len(batch) + Undecided + Len(txRows) + Len(rows)
      BY DEF Held
    <3> QED
      BY ONLY <3>1, <3>2
  <2>2. Held =< MaxItems
    <3>1. /\ dropped \in Nat /\ tally.dropped \in Nat /\ Held \in Nat /\ accepted \in 0..MaxItems
          /\ MaxItems \in Nat /\ dropped + tally.dropped + Held =< accepted
      BY <1>1, <1>2
    <3> QED
      BY ONLY <3>1
  <2>3. /\ Len(txRows) \in Nat /\ Len(rows) \in Nat /\ Held \in Nat /\ MaxItems \in Nat
    BY <1>1
  <2> QED
    BY ONLY <2>1, <2>2, <2>3
<1>6. MaxItems =< top /\ MaxFaults =< top
  BY <1>1, <1>3, <1>4
<1>7. tally.dropped =< top /\ tally.errors =< top
  <2>1. tally.dropped =< MaxItems
    <3>1. /\ dropped \in Nat /\ tally.dropped \in Nat /\ Held \in Nat /\ accepted \in 0..MaxItems
          /\ MaxItems \in Nat /\ dropped + tally.dropped + Held =< accepted
      BY <1>1, <1>2
    <3> QED
      BY ONLY <3>1
  <2>2. tally.errors =< MaxFaults
    <3>1. /\ errsPending \in Nat /\ tally.errors \in Nat /\ failures \in Nat /\ faults \in Nat
          /\ MaxFaults \in Nat /\ faults =< MaxFaults /\ failures =< faults
          /\ errsPending + tally.errors =< failures
      BY <1>1, <1>2
    <3> QED
      BY ONLY <3>1
  <2> QED
    BY <1>1, <1>4, <1>6, <2>1, <2>2
<1>8. tally.overflow =< top /\ meta.overflow =< top
  <2>1. tally.overflow =< Len(txRows) /\ meta.overflow =< Len(rows)
    BY <1>2
  <2> QED
    BY <1>1, <1>4, <1>5, <1>6, <2>1
<1>9. meta.dropped =< top /\ meta.errors =< top
  <2>1. meta.dropped =< MaxItems + MaxFaults * MaxItems
    <3>1. meta.dropped =< accepted + Again * MaxItems
      <4>1. /\ meta.dropped \in Nat /\ dropped \in Nat /\ tally.dropped \in Nat /\ Held \in Nat
            /\ accepted \in Nat
        BY <1>1
      <4>2. accepted + Again * MaxItems \in Nat
        BY <1>3, <4>1
      <4>3. meta.dropped + dropped + tally.dropped + Held =< accepted + Again * MaxItems
        BY <1>2
      <4> QED
        BY ONLY <4>1, <4>2, <4>3
    <3>2. /\ accepted \in Nat /\ MaxItems \in Nat /\ Again * MaxItems \in Nat
          /\ MaxFaults * MaxItems \in Nat /\ meta.dropped \in Nat
          /\ accepted =< MaxItems /\ Again * MaxItems =< MaxFaults * MaxItems
      BY <1>1, <1>3
    <3> QED
      BY ONLY <3>1, <3>2
  <2>2. meta.errors =< MaxFaults + MaxFaults * MaxFaults
    <3>1. meta.errors =< failures + Again * MaxFaults
      <4>1. /\ meta.errors \in Nat /\ errsPending \in Nat /\ tally.errors \in Nat /\ failures \in Nat
        BY <1>1
      <4>2. failures + Again * MaxFaults \in Nat
        BY <1>3, <4>1
      <4>3. meta.errors + errsPending + tally.errors =< failures + Again * MaxFaults
        BY <1>2
      <4> QED
        BY ONLY <4>1, <4>2, <4>3
    <3>2. failures =< MaxFaults
      BY <1>1, <1>2
    <3>3. /\ failures \in Nat /\ MaxFaults \in Nat /\ Again * MaxFaults \in Nat
          /\ MaxFaults * MaxFaults \in Nat /\ meta.errors \in Nat
          /\ Again * MaxFaults =< MaxFaults * MaxFaults
      BY <1>1, <1>3
    <3> QED
      BY ONLY <3>1, <3>2, <3>3
  <2> QED
    BY <1>1, <1>3, <1>4, <2>1, <2>2
<1>10. tally \in Counters /\ meta \in Counters
  BY DEF HistoryTypes
<1> QED
  BY <1>7, <1>8, <1>9, <1>10, CountsAre DEF top

\* Every variable holds what the Store declares, the queues keep their caps, and
\* the bytes counted as queued are those of the items not yet released, never more
\* than MaxQueuedBytes: no path through the writer keeps or frees a byte twice
\* (Enqueue, Receive, flushAll, writeBatch's deferred release).
THEOREM HistoryTypeCorrect == HistorySpec => []HistoryTypeOK
<1>1. HistoryInv => HistoryTypeOK
  <2> SUFFICES ASSUME HistoryInv PROVE HistoryTypeOK
    OBVIOUS
  <2>1. HistoryTypes /\ Caps /\ Ends /\ Budget
    BY DEF HistoryInv
  <2>2. /\ {channel, spill, batch, writing} \subseteq Seq(Items)
        /\ {rows, txRows} \subseteq Seq([n : 1..MaxItems, marker : BOOLEAN])
    BY <2>1 DEF HistoryTypes, Item, Row, Items
  <2>3. {tally, meta} \subseteq Counts
    BY <2>1, TotalsAre
  <2>4. {dropped, errsPending, accepted, barrier, faults, failures} \subseteq Nat
    BY <2>1, SumsAre, SizesAre DEF HistoryTypes
  <2>5. unmet \subseteq DOMAIN meta \cup {"stamp"}
    BY <2>1 DEF HistoryTypes, Counters, Ends
  <2>6. /\ pos \in 0..Len(writing)
        /\ writer \in {"select", "begin", "takeCounts", "insert", "commit", "release", "reply", "done"}
        /\ then \in {"select", "reply", "done"}
    BY <2>1 DEF HistoryTypes, Busy, Rests
  <2> QED
    BY <2>1, <2>2, <2>3, <2>4, <2>5, <2>6 DEF HistoryTypeOK, Caps, Ends
<1> QED
  BY HistoryInvariance, <1>1, PTL

\* Whatever the database refuses and however full the queues, every item that
\* was lost and every insert that failed is counted, in meta or where the next
\* batch finds it (Enqueue, writeBatch, persistMeta).
THEOREM LossIsCounted == HistorySpec => []NoLossUncounted
<1>1. HistoryInv => NoLossUncounted
  BY DEF HistoryInv
<1> QED
  BY HistoryInvariance, <1>1, PTL

\* Rows have the order of the Enqueue calls, a Sync that returned has nothing of
\* before its call left in a queue, and neither has a writer that ended (run,
\* flushAll, Sync, Close).
THEOREM HistoryKeepsOrder == HistorySpec => []HistoryInOrder
<1>1. HistoryInv => HistoryInOrder
  <2> SUFFICES ASSUME HistoryInv PROVE HistoryInOrder
    OBVIOUS
  <2>1. RowsInOrder
    <3>1. /\ rows \in Seq(Row) /\ txRows \in Seq(Row) /\ Increasing(rows) /\ Increasing(txRows)
          /\ Before(Numbers(rows), Numbers(txRows))
      BY DEF HistoryInv, HistoryTypes, InLine, Sorted, Line, Before
    <3>2. rows \o txRows \in Seq(Row) /\ Increasing(rows \o txRows)
      BY <3>1, NumbersOfConcat
    <3>3. DOMAIN (rows \o txRows) = 1..Len(rows \o txRows)
      BY <3>2
    <3> QED
      BY <3>2, <3>3 DEF RowsInOrder, Increasing
  <2>2. syncer = "released" => \A n \in Queued : n > barrier
    BY DEF HistoryInv, SyncPhase
  <2>3. writer = "done" => Queued = {}
    BY QueuedIs DEF HistoryInv, SyncPhase, Phase, Rests
  <2> QED
    BY <2>1, <2>2, <2>3 DEF HistoryInOrder
<1> QED
  BY HistoryInvariance, <1>1, PTL


-----------------------------------------------------------------------------
(* Every place of a tool call.                                               *)

\* No step at one place of a call leaves the types of any: on its way through the
\* proxy, at the file it edits, in the queue of the history.
THEOREM CallsTypeCorrect == CallsSpec => []CallsTypeOK
<1>1. CallsInit => Init /\ EditInit /\ HistoryInit
  BY DEF CallsInit
<1>2. [CallsNext]_<<place, vars, editVars, historyVars>> =>
        [Next]_vars /\ [EditNext]_editVars /\ [HistoryNext]_historyVars
  BY DEF CallsNext
<1>3. CallsSpec => Spec /\ EditSpec /\ HistorySpec
  BY <1>1, <1>2, PTL DEF CallsSpec, Spec, EditSpec, HistorySpec
<1>4. TypeOK /\ EditTypeOK /\ HistoryTypeOK => CallsTypeOK
  BY DEF CallsTypeOK
<1> QED
  BY <1>3, <1>4, TypeCorrect, EditTypeCorrect, HistoryTypeCorrect, PTL
=============================================================================
