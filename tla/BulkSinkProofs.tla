---- MODULE BulkSinkProofs ----
(***************************************************************************)
(* Proofs about BulkSink, for every set of documents, queue and batch size,*)
(* number of retries and combination of faults: its invariants, that each  *)
(* of its steps is a step of Delivery or leaves Delivery unchanged, and    *)
(* how often a document is sent.                                           *)
(*                                                                         *)
(* What makes the first two go through is the life of the stop marker: it  *)
(* is put once, after the last document, and whoever has seen it has seen  *)
(* an empty queue behind it.                                               *)
(***************************************************************************)
EXTENDS MCBulkSink, SequenceLemmas

QueueItem == Document \cup {Stop}

\* A queue in which nothing follows the stop marker.
MarkerLast(q) == \A i \in 1..Len(q) : q[i] = Stop => i >= Len(q)

Unmarked(q) == \A i \in 1..Len(q) : q[i] # Stop

-----------------------------------------------------------------------------
\* The documents of a queue.

\* Without a marker, a queue is its documents.
LEMMA DocumentsUnmarked ==
    ASSUME NEW q \in Seq(QueueItem), Unmarked(q)
    PROVE  q \in Seq(Document) /\ Documents(q) = q
<1>1. Len(q) \in Nat /\ q \in [1..Len(q) -> QueueItem]
  BY LenProperties
<1>2. \A i \in 1..Len(q) : q[i] \in Document
  BY <1>1 DEF QueueItem, Unmarked
<1>3. q \in [1..Len(q) -> Document]
  BY <1>1, <1>2
<1>4. q \in Seq(Document)
  BY <1>1, <1>3, SeqDef
<1>5. q # <<>> => Len(q) \in 1..Len(q)
  BY <1>1, EmptySeq
<1> QED BY <1>4, <1>5 DEF Documents, Unmarked

\* The marker at the end of a queue is none of its documents.
LEMMA DocumentsMarked ==
    ASSUME NEW q \in Seq(Document)
    PROVE  Documents(Append(q, Stop)) = q
<1> DEFINE m == Append(q, Stop)
<1>1. q \in Seq(QueueItem)
  BY SeqMonotonic DEF QueueItem
<1>2. /\ m # <<>>
      /\ Len(m) = Len(q) + 1
      /\ \A i \in 1..Len(q) : m[i] = q[i]
      /\ m[Len(q) + 1] = Stop
  BY <1>1, AppendProperties DEF QueueItem
<1>3. Len(q) \in Nat
  BY LenProperties
<1>4. Documents(m) = SubSeq(m, 1, Len(q))
  BY <1>2, <1>3 DEF Documents
<1>5. \A i \in 1..Len(q) : m[i] \in Document
  BY <1>2, ElementOfSeq
<1> HIDE DEF m
<1>6. /\ SubSeq(m, 1, Len(q)) \in Seq(Document)
      /\ Len(SubSeq(m, 1, Len(q))) = IF 1 <= Len(q) THEN Len(q) - 1 + 1 ELSE 0
      /\ \A i \in 1..(Len(q) - 1 + 1) : SubSeq(m, 1, Len(q))[i] = m[1 + i - 1]
  BY <1>3, <1>5, SubSeqProperties
<1>7. /\ Len(SubSeq(m, 1, Len(q))) = Len(q)
      /\ \A i \in 1..Len(q) : SubSeq(m, 1, Len(q))[i] = q[i]
  BY <1>2, <1>3, <1>6
<1>8. SubSeq(m, 1, Len(q)) = q
  BY <1>6, <1>7, SeqEqual
<1> QED BY <1>4, <1>8 DEF m

\* Taking an item off the front of a queue leaves the others in their order.
LEMMA TailOfQueue ==
    ASSUME NEW q \in Seq(QueueItem), q # <<>>
    PROVE  /\ Head(q) \in QueueItem /\ Head(q) = q[1]
           /\ Tail(q) \in Seq(QueueItem) /\ Len(Tail(q)) = Len(q) - 1
           /\ \A i \in 1..Len(Tail(q)) : Tail(q)[i] = q[i + 1]
           /\ MarkerLast(q) => MarkerLast(Tail(q))
           /\ Unmarked(q) => Unmarked(Tail(q))
           /\ MarkerLast(q) /\ Head(q) = Stop => Tail(q) = <<>>
<1>1. /\ Head(q) \in QueueItem
      /\ Tail(q) \in Seq(QueueItem)
      /\ Len(Tail(q)) = Len(q) - 1
      /\ \A i \in 1..Len(Tail(q)) : Tail(q)[i] = q[i + 1]
  BY HeadTailProperties
<1>2. Head(q) = q[1]
  OBVIOUS
<1>3. Len(q) \in Nat /\ Len(q) > 0
  BY EmptySeq, LenProperties
<1>a. \A i \in 1..Len(Tail(q)) : i + 1 \in 1..Len(q) /\ Tail(q)[i] = q[i + 1]
  BY <1>1, <1>3
<1>4. MarkerLast(q) => MarkerLast(Tail(q))
  <2>1. SUFFICES ASSUME MarkerLast(q), NEW i \in 1..Len(Tail(q)), Tail(q)[i] = Stop
                 PROVE  i >= Len(Tail(q))
    BY DEF MarkerLast
  <2>2. i + 1 >= Len(q)
    BY <1>a, <2>1 DEF MarkerLast
  <2> QED BY <1>1, <1>3, <2>1, <2>2
<1>5. Unmarked(q) => Unmarked(Tail(q))
  BY <1>a DEF Unmarked
<1>6. ASSUME MarkerLast(q), Head(q) = Stop PROVE Tail(q) = <<>>
  <2>1. Len(q) = 1
    <3>1. 1 \in 1..Len(q) /\ q[1] = Stop
      BY <1>2, <1>3, <1>6
    <3>2. Len(q) <= 1 /\ 1 <= Len(q) /\ Len(q) \in Int /\ 1 \in Int
      BY <1>3, <1>6, <3>1 DEF MarkerLast
    <3> QED BY <3>2, LeqAntisymmetric, Zenon
  <2>2. Len(Tail(q)) = 0
    BY <1>1, <2>1
  <2> QED BY <1>1, <2>2, EmptySeq
<1> QED BY <1>1, <1>2, <1>4, <1>5, <1>6

\* A queue whose first item is the marker holds no document, before and after.
LEMMA DocumentsStop ==
    ASSUME NEW q \in Seq(QueueItem), q # <<>>, MarkerLast(q), Head(q) = Stop
    PROVE  Documents(Tail(q)) = Documents(q)
<1>1. Tail(q) = <<>> /\ Len(Tail(q)) = Len(q) - 1 /\ Head(q) = q[1]
  BY TailOfQueue
<1>2. Len(q) \in Nat /\ Len(Tail(q)) = 0
  BY <1>1, LenProperties, EmptySeq
<1>3. Len(q) = 1
  <2>1. Len(q) <= 1 /\ 1 <= Len(q) /\ Len(q) \in Int /\ 1 \in Int
    BY <1>1, <1>2
  <2> QED BY <2>1, LeqAntisymmetric, Zenon
<1>4. Documents(q) = SubSeq(q, 1, 0)
  BY <1>1, <1>3 DEF Documents
<1>5. SubSeq(q, 1, 0) = <<>>
  BY SubSeqEmpty
<1> QED BY <1>1, <1>4, <1>5 DEF Documents

\* Every queue whose marker is last has documents.
LEMMA DocumentsType ==
    ASSUME NEW q \in Seq(QueueItem), MarkerLast(q)
    PROVE  Documents(q) \in Seq(Document)
<1>1. Len(q) \in Nat /\ DOMAIN q = 1..Len(q)
  BY LenProperties
<1>2. CASE q # <<>> /\ q[Len(q)] = Stop
  <2>1. \A i \in 1..(Len(q) - 1) : q[i] \in Document
    <3>1. \A i \in 1..(Len(q) - 1) : q[i] \in QueueItem
      BY <1>1, ElementOfSeq
    <3>2. ASSUME NEW i \in 1..(Len(q) - 1) PROVE q[i] # Stop
      <4>1. i \in 1..Len(q) /\ ~ (i >= Len(q))
        BY <1>1
      <4> QED BY <4>1 DEF MarkerLast
    <3> QED BY <3>1, <3>2 DEF QueueItem
  <2>2. SubSeq(q, 1, Len(q) - 1) \in Seq(Document)
    BY <1>1, <2>1, SubSeqProperties
  <2> QED BY <1>2, <2>2 DEF Documents
<1>3. CASE ~ (q # <<>> /\ q[Len(q)] = Stop)
  <2>1. ASSUME NEW i \in 1..Len(q) PROVE q[i] # Stop
    <3>1. q # <<>>
      BY EmptySeq
    <3> QED BY <1>3, <3>1 DEF MarkerLast
  <2>2. Unmarked(q)
    BY <2>1 DEF Unmarked
  <2> QED BY <2>2, DocumentsUnmarked
<1> QED BY <1>2, <1>3

\* The first document of a queue, followed by those of the rest.
LEMMA DocumentsHead ==
    ASSUME NEW q \in Seq(QueueItem), q # <<>>, MarkerLast(q), Head(q) # Stop
    PROVE  /\ Head(q) \in Document
           /\ Documents(q) = <<Head(q)>> \o Documents(Tail(q))
<1>1. /\ Head(q) \in Document /\ Head(q) = q[1]
      /\ Tail(q) \in Seq(QueueItem) /\ Len(Tail(q)) = Len(q) - 1
      /\ \A i \in 1..Len(Tail(q)) : Tail(q)[i] = q[i + 1]
      /\ MarkerLast(Tail(q))
  BY TailOfQueue DEF QueueItem
<1>2. Len(q) \in Nat /\ Len(q) > 0
  BY EmptySeq, LenProperties
<1>3. Documents(q) \in Seq(Document) /\ Documents(Tail(q)) \in Seq(Document)
  BY <1>1, DocumentsType
<1>4. <<Head(q)>> \in Seq(Document) /\ Len(<<Head(q)>>) = 1 /\ <<Head(q)>>[1] = q[1]
  BY <1>1
<1> DEFINE both == <<Head(q)>> \o Documents(Tail(q))
<1>5. /\ both \in Seq(Document)
      /\ Len(both) = 1 + Len(Documents(Tail(q)))
      /\ \A i \in 1..(1 + Len(Documents(Tail(q)))) :
            both[i] = IF i <= 1 THEN q[1] ELSE Documents(Tail(q))[i - 1]
  BY <1>3, <1>4, ConcatProperties
<1> HIDE DEF both
<1>6. CASE q[Len(q)] = Stop
  <2>1. Len(q) >= 2
    <3>1. ASSUME ~ (Len(q) >= 2) PROVE FALSE
      <4>1. Len(q) <= 1 /\ 1 <= Len(q) /\ Len(q) \in Int /\ 1 \in Int
        BY <1>2, <3>1
      <4>2. Len(q) = 1
        BY <4>1, LeqAntisymmetric, Zenon
      <4> QED BY <1>1, <1>6, <4>2
    <3> QED BY <3>1
  <2>2. Tail(q) # <<>> /\ Tail(q)[Len(Tail(q))] = Stop
    BY <1>1, <1>2, <1>6, <2>1
  <2>3. /\ Documents(q) = SubSeq(q, 1, Len(q) - 1)
        /\ Documents(Tail(q)) = SubSeq(Tail(q), 1, Len(q) - 2)
    BY <1>1, <1>2, <1>6, <2>2 DEF Documents
  <2>4. /\ \A i \in 1..(Len(q) - 1) : q[i] \in QueueItem
        /\ \A i \in 1..(Len(q) - 2) : Tail(q)[i] \in QueueItem
    BY <1>1, <1>2, ElementOfSeq
  <2>5. /\ Len(Documents(q)) = Len(q) - 1
        /\ \A i \in 1..(Len(q) - 1) : Documents(q)[i] = q[i]
    BY <1>2, <2>1, <2>3, <2>4, SubSeqProperties
  <2>6. /\ Len(Documents(Tail(q))) = Len(q) - 2
        /\ \A i \in 1..(Len(q) - 2) : Documents(Tail(q))[i] = Tail(q)[i]
    <3>1. Len(SubSeq(Tail(q), 1, Len(q) - 2)) =
            IF 1 <= Len(q) - 2 THEN (Len(q) - 2) - 1 + 1 ELSE 0
      BY <1>2, <2>4, SubSeqProperties
    <3>2. \A i \in 1..((Len(q) - 2) - 1 + 1) :
            SubSeq(Tail(q), 1, Len(q) - 2)[i] = Tail(q)[1 + i - 1]
      BY <1>2, <2>4, SubSeqProperties
    <3> QED BY <1>2, <2>1, <2>3, <3>1, <3>2
  <2>7. Len(both) = Len(Documents(q))
    <3>1. Len(both) = 1 + (Len(q) - 2)
      BY <1>5, <2>6
    <3> QED BY <1>2, <2>5, <3>1
  <2>8. ASSUME NEW i \in 1..Len(both) PROVE both[i] = Documents(q)[i]
    <3>1. i \in 1..(Len(q) - 1) /\ i \in 1..(1 + Len(Documents(Tail(q))))
      BY <1>2, <1>5, <2>5, <2>6, <2>7
    <3>2. CASE i <= 1
      <4>1. i = 1
        BY <3>1, <3>2
      <4> QED BY <1>5, <2>5, <3>1, <4>1
    <3>3. CASE ~ (i <= 1)
      <4>1. both[i] = Documents(Tail(q))[i - 1]
        BY <1>5, <3>1, <3>3
      <4>2. i - 1 \in 1..(Len(q) - 2) /\ i - 1 \in 1..Len(Tail(q)) /\ (i - 1) + 1 = i
        BY <1>1, <1>2, <3>1, <3>3
      <4>3. Documents(Tail(q))[i - 1] = Tail(q)[i - 1] /\ Tail(q)[i - 1] = q[(i - 1) + 1]
        BY <1>1, <2>6, <4>2
      <4> QED BY <2>5, <3>1, <4>1, <4>2, <4>3
    <3> QED BY <3>2, <3>3
  <2> QED BY <1>1, <1>3, <1>5, <2>7, <2>8, SeqEqual DEF both
<1>7. CASE q[Len(q)] # Stop
  <2>1. Unmarked(q)
    BY <1>2, <1>7 DEF MarkerLast, Unmarked
  <2>2. Documents(q) = q /\ Documents(Tail(q)) = Tail(q)
    BY <1>1, <2>1, TailOfQueue, DocumentsUnmarked
  <2>3. Len(both) = Len(q)
    <3>1. Len(both) = 1 + (Len(q) - 1)
      BY <1>1, <1>5, <2>2
    <3> QED BY <1>2, <3>1
  <2>4. ASSUME NEW i \in 1..Len(both) PROVE both[i] = q[i]
    <3>1. i \in 1..Len(q) /\ i \in 1..(1 + Len(Tail(q)))
      BY <1>1, <1>2, <2>3
    <3>2. CASE i <= 1
      <4>1. i = 1
        BY <3>1, <3>2
      <4> QED BY <1>5, <2>2, <3>1, <4>1
    <3>3. CASE ~ (i <= 1)
      <4>1. both[i] = Tail(q)[i - 1]
        BY <1>5, <2>2, <3>1, <3>3
      <4>2. i - 1 \in 1..Len(Tail(q)) /\ (i - 1) + 1 = i
        BY <1>1, <1>2, <3>1, <3>3
      <4> QED BY <1>1, <4>1, <4>2
    <3> QED BY <3>2, <3>3
  <2> QED BY <1>1, <1>3, <1>5, <2>2, <2>3, <2>4, SeqEqual DEF both
<1> QED BY <1>6, <1>7

-----------------------------------------------------------------------------
\* The inductive invariant.

\* The marker is put by close, once, and nothing is put after it; the worker that
\* was told to stop has seen the queue end with it.
MarkerOnce ==
    /\ MarkerLast(bulk)
    /\ ~ Unmarked(bulk) => closing \in {"join", "closed", "raised"}
    /\ stopping \/ worker = "done" =>
            bulk = <<>> /\ closing \in {"join", "closed", "raised"}

\* What the worker holds in each of its states, and when there is none.
WorkerHolds ==
    /\ worker = "none" => bulk = <<>> /\ closing \in {"open", "closed"}
    /\ worker \in {"none", "idle", "done"} => batch = <<>>
    /\ worker \in {"filling", "sending", "dead_lettering"} => batch # <<>>
    /\ closing = "closed" => worker = "none"

SinkInv ==
    /\ SinkTypeOK
    /\ MarkerOnce
    /\ WorkerHolds
    /\ CountedIsStored
    /\ FailedIsKept

\* A queue with one more item has its marker last, if there was none before.
LEMMA AppendQueue ==
    ASSUME NEW q \in Seq(QueueItem), Unmarked(q), NEW x \in QueueItem
    PROVE  /\ Append(q, x) \in Seq(QueueItem)
           /\ Len(Append(q, x)) = Len(q) + 1
           /\ MarkerLast(Append(q, x))
           /\ x # Stop => Unmarked(Append(q, x))
<1>1. /\ Append(q, x) \in Seq(QueueItem)
      /\ Len(Append(q, x)) = Len(q) + 1
      /\ \A i \in 1..Len(q) : Append(q, x)[i] = q[i]
      /\ Append(q, x)[Len(q) + 1] = x
  BY AppendProperties
<1>2. Len(q) \in Nat
  BY LenProperties
<1>3. ASSUME NEW i \in 1..Len(Append(q, x)), ~ (i >= Len(Append(q, x)))
      PROVE  Append(q, x)[i] # Stop
  <2>1. i \in 1..Len(q)
    BY <1>1, <1>2, <1>3
  <2> QED BY <1>1, <2>1 DEF Unmarked
<1>4. MarkerLast(Append(q, x))
  BY <1>3 DEF MarkerLast
<1>5. ASSUME x # Stop, NEW i \in 1..Len(Append(q, x)) PROVE Append(q, x)[i] # Stop
  <2>1. CASE ~ (i >= Len(Append(q, x)))
    BY <1>3, <2>1
  <2>2. CASE i >= Len(Append(q, x))
    <3>1. i = Len(q) + 1
      BY <1>1, <1>2, <2>2
    <3> QED BY <1>1, <1>5, <3>1
  <2> QED BY <2>1, <2>2
<1> QED BY <1>1, <1>4, <1>5 DEF Unmarked

\* emit, while close has not been called.
LEMMA EmitInv ==
    ASSUME SinkInv, closing = "open", NEW d \in Document, Emit(d)
    PROVE  SinkInv'
<1>1. /\ SinkTypeOK /\ MarkerOnce /\ WorkerHolds /\ CountedIsStored /\ FailedIsKept
      /\ HasRoom /\ bulk' = Append(bulk, d)
      /\ worker' = IF worker = "none" THEN "idle" ELSE worker
      /\ UNCHANGED <<batch, stopping, attempt, stored, indexed, failed, dead_letters, closing>>
  BY DEF SinkInv, Emit
<1>2. d \in QueueItem /\ d # Stop /\ bulk \in Seq(QueueItem) /\ Unmarked(bulk)
  BY <1>1, SinkAssumption DEF QueueItem, SinkTypeOK, MarkerOnce
<1>3. /\ bulk' \in Seq(QueueItem) /\ Len(bulk') = Len(bulk) + 1
      /\ MarkerLast(bulk') /\ Unmarked(bulk')
  BY <1>1, <1>2, AppendQueue
<1>4. SinkTypeOK'
  <2>1. Len(bulk') <= BulkQueueSize
    BY <1>1, <1>2, <1>3, SinkAssumption, LenProperties DEF HasRoom
  <2> QED BY <1>1, <1>3, <2>1 DEF SinkTypeOK, QueueItem, WorkerState
<1>5. MarkerOnce'
  BY <1>1, <1>3 DEF MarkerOnce
<1>6. WorkerHolds'
  BY <1>1 DEF WorkerHolds
<1>7. CountedIsStored' /\ FailedIsKept'
  BY <1>1 DEF CountedIsStored, FailedIsKept
<1> QED BY <1>4, <1>5, <1>6, <1>7 DEF SinkInv

\* close puts the marker into a queue that holds none, and ends with the worker.
LEMMA CloseInv ==
    ASSUME SinkInv, CloseCalled \/ Close
    PROVE  SinkInv'
<1>1. SinkTypeOK /\ MarkerOnce /\ WorkerHolds /\ CountedIsStored /\ FailedIsKept
  BY DEF SinkInv
<1>2. CASE CloseCalled
  <2>1. /\ closing = "open"
        /\ closing' = IF worker = "none" THEN "closed" ELSE "stop"
        /\ UNCHANGED <<bulk, worker, batch, stopping, attempt, stored, indexed, failed,
                       dead_letters>>
    BY <1>2 DEF CloseCalled
  <2>2. SinkTypeOK'
    BY <1>1, <2>1 DEF SinkTypeOK, ClosingState
  <2>3. MarkerOnce' /\ WorkerHolds'
    BY <1>1, <2>1 DEF MarkerOnce, WorkerHolds
  <2>4. CountedIsStored' /\ FailedIsKept'
    BY <1>1, <2>1 DEF CountedIsStored, FailedIsKept
  <2> QED BY <2>2, <2>3, <2>4 DEF SinkInv
<1>3. CASE CloseStop
  <2>1. /\ closing = "stop" /\ HasRoom
        /\ bulk' = Append(bulk, Stop) /\ closing' = "join"
        /\ UNCHANGED <<worker, batch, stopping, attempt, stored, indexed, failed, dead_letters>>
    BY <1>3 DEF CloseStop
  <2>2. bulk \in Seq(QueueItem) /\ Unmarked(bulk) /\ Stop \in QueueItem
    BY <1>1, <2>1 DEF QueueItem, SinkTypeOK, MarkerOnce
  <2>3. /\ bulk' \in Seq(QueueItem) /\ Len(bulk') = Len(bulk) + 1
        /\ MarkerLast(bulk')
    BY <2>1, <2>2, AppendQueue
  <2>4. SinkTypeOK'
    <3>1. Len(bulk') <= BulkQueueSize
      BY <2>1, <2>2, <2>3, SinkAssumption, LenProperties DEF HasRoom
    <3> QED BY <1>1, <2>1, <2>3, <3>1 DEF SinkTypeOK, QueueItem, ClosingState
  <2>5. MarkerOnce' /\ WorkerHolds'
    BY <1>1, <2>1, <2>3 DEF MarkerOnce, WorkerHolds
  <2>6. CountedIsStored' /\ FailedIsKept'
    BY <1>1, <2>1 DEF CountedIsStored, FailedIsKept
  <2> QED BY <2>4, <2>5, <2>6 DEF SinkInv
<1>4. CASE CloseJoin
  <2>1. /\ closing = "join" /\ worker \in {"done", "dead"}
        /\ closing' = IF worker = "done" THEN "closed" ELSE "raised"
        /\ worker' = IF worker = "done" THEN "none" ELSE worker
        /\ UNCHANGED <<bulk, batch, stopping, attempt, stored, indexed, failed, dead_letters>>
    BY <1>4 DEF CloseJoin
  <2>2. SinkTypeOK'
    BY <1>1, <2>1 DEF SinkTypeOK, ClosingState, WorkerState
  <2>3. MarkerOnce' /\ WorkerHolds'
    BY <1>1, <2>1 DEF MarkerOnce, WorkerHolds
  <2>4. CountedIsStored' /\ FailedIsKept'
    BY <1>1, <2>1 DEF CountedIsStored, FailedIsKept
  <2> QED BY <2>2, <2>3, <2>4 DEF SinkInv
<1> QED BY <1>2, <1>3, <1>4 DEF Close

\* The queue after its first item is taken.
LEMMA TakenQueue ==
    ASSUME SinkInv, bulk # <<>>, bulk' = Tail(bulk)
    PROVE  /\ bulk' \in Seq(QueueItem) /\ Len(bulk') <= BulkQueueSize
           /\ Head(bulk) \in QueueItem
           /\ MarkerLast(bulk')
           /\ ~ Unmarked(bulk') => ~ Unmarked(bulk)
           /\ Head(bulk) = Stop => bulk' = <<>> /\ closing \in {"join", "closed", "raised"}
<1>1. bulk \in Seq(QueueItem) /\ Len(bulk) <= BulkQueueSize /\ MarkerOnce
  BY DEF SinkInv, SinkTypeOK, QueueItem
<1>2. MarkerLast(bulk)
  BY <1>1 DEF MarkerOnce
<1>3. /\ Head(bulk) \in QueueItem /\ Head(bulk) = bulk[1]
      /\ bulk' \in Seq(QueueItem) /\ Len(bulk') = Len(bulk) - 1
      /\ MarkerLast(bulk')
      /\ ~ Unmarked(bulk') => ~ Unmarked(bulk)
      /\ Head(bulk) = Stop => bulk' = <<>>
  BY <1>1, <1>2, TailOfQueue
<1>4. Len(bulk) \in Nat /\ Len(bulk) > 0
  BY <1>1, EmptySeq
<1>5. Head(bulk) = Stop => ~ Unmarked(bulk)
  BY <1>3, <1>4 DEF Unmarked
<1>6. Len(bulk') <= BulkQueueSize
  BY <1>1, <1>3, <1>4, SinkAssumption
<1> QED BY <1>1, <1>3, <1>5, <1>6 DEF MarkerOnce

\* The steps of the worker that take items off the queue.
LEMMA TakeInv ==
    ASSUME SinkInv, TakeFirst \/ TakeStop \/ Fill \/ FillStop \/ StartFlush
    PROVE  SinkInv'
<1>1. SinkTypeOK /\ MarkerOnce /\ WorkerHolds /\ CountedIsStored /\ FailedIsKept
  BY DEF SinkInv
<1>2. batch \in Seq(Document) /\ Len(batch) \in Nat /\ Len(batch) <= BatchSize
  BY <1>1, LenProperties DEF SinkTypeOK
<1>3. CASE TakeFirst
  <2>1. /\ worker = "idle" /\ bulk # <<>> /\ Head(bulk) # Stop
        /\ batch' = <<Head(bulk)>> /\ bulk' = Tail(bulk) /\ worker' = "filling"
        /\ UNCHANGED <<stopping, attempt, stored, indexed, failed, dead_letters, closing>>
    BY <1>3 DEF TakeFirst
  <2>2. /\ bulk' \in Seq(QueueItem) /\ Len(bulk') <= BulkQueueSize
        /\ Head(bulk) \in Document /\ MarkerLast(bulk')
        /\ ~ Unmarked(bulk') => ~ Unmarked(bulk)
    BY <2>1, TakenQueue DEF QueueItem
  <2>3. batch' \in Seq(Document) /\ Len(batch') <= BatchSize /\ batch' # <<>>
    BY <2>1, <2>2, SinkAssumption
  <2>4. SinkTypeOK'
    BY <1>1, <2>1, <2>2, <2>3 DEF SinkTypeOK, QueueItem, WorkerState
  <2>5. MarkerOnce' /\ WorkerHolds'
    BY <1>1, <2>1, <2>2, <2>3 DEF MarkerOnce, WorkerHolds
  <2>6. CountedIsStored' /\ FailedIsKept'
    BY <1>1, <2>1 DEF CountedIsStored, FailedIsKept
  <2> QED BY <2>4, <2>5, <2>6 DEF SinkInv
<1>4. CASE TakeStop
  <2>1. /\ worker = "idle" /\ bulk # <<>> /\ Head(bulk) = Stop
        /\ bulk' = Tail(bulk) /\ worker' = "done"
        /\ UNCHANGED <<batch, stopping, attempt, stored, indexed, failed, dead_letters, closing>>
    BY <1>4 DEF TakeStop
  <2>2. /\ bulk' \in Seq(QueueItem) /\ Len(bulk') <= BulkQueueSize
        /\ MarkerLast(bulk')
        /\ ~ Unmarked(bulk') => ~ Unmarked(bulk)
        /\ bulk' = <<>> /\ closing \in {"join", "closed", "raised"}
    BY <2>1, TakenQueue
  <2>3. SinkTypeOK'
    BY <1>1, <2>1, <2>2 DEF SinkTypeOK, QueueItem, WorkerState
  <2>4. MarkerOnce' /\ WorkerHolds'
    BY <1>1, <2>1, <2>2 DEF MarkerOnce, WorkerHolds
  <2>5. CountedIsStored' /\ FailedIsKept'
    BY <1>1, <2>1 DEF CountedIsStored, FailedIsKept
  <2> QED BY <2>3, <2>4, <2>5 DEF SinkInv
<1>5. CASE Fill
  <2>1. /\ worker = "filling" /\ Len(batch) < BatchSize /\ bulk # <<>> /\ Head(bulk) # Stop
        /\ batch' = Append(batch, Head(bulk)) /\ bulk' = Tail(bulk)
        /\ UNCHANGED <<worker, stopping, attempt, stored, indexed, failed, dead_letters, closing>>
    BY <1>5 DEF Fill
  <2>2. /\ bulk' \in Seq(QueueItem) /\ Len(bulk') <= BulkQueueSize
        /\ Head(bulk) \in Document /\ MarkerLast(bulk')
        /\ ~ Unmarked(bulk') => ~ Unmarked(bulk)
    BY <2>1, TakenQueue DEF QueueItem
  <2>3. batch' \in Seq(Document) /\ Len(batch') = Len(batch) + 1 /\ batch' # <<>>
    BY <1>2, <2>1, <2>2, AppendProperties
  <2>4. Len(batch') <= BatchSize
    BY <1>2, <2>1, <2>3, SinkAssumption
  <2>5. SinkTypeOK'
    BY <1>1, <2>1, <2>2, <2>3, <2>4 DEF SinkTypeOK, QueueItem
  <2>6. MarkerOnce' /\ WorkerHolds'
    BY <1>1, <2>1, <2>2, <2>3 DEF MarkerOnce, WorkerHolds
  <2>7. CountedIsStored' /\ FailedIsKept'
    BY <1>1, <2>1 DEF CountedIsStored, FailedIsKept
  <2> QED BY <2>5, <2>6, <2>7 DEF SinkInv
<1>6. CASE FillStop
  <2>1. /\ worker = "filling" /\ bulk # <<>> /\ Head(bulk) = Stop
        /\ bulk' = Tail(bulk) /\ stopping' = TRUE /\ worker' = "sending"
        /\ UNCHANGED <<batch, attempt, stored, indexed, failed, dead_letters, closing>>
    BY <1>6 DEF FillStop
  <2>2. /\ bulk' \in Seq(QueueItem) /\ Len(bulk') <= BulkQueueSize
        /\ MarkerLast(bulk')
        /\ ~ Unmarked(bulk') => ~ Unmarked(bulk)
        /\ bulk' = <<>> /\ closing \in {"join", "closed", "raised"}
    BY <2>1, TakenQueue
  <2>3. SinkTypeOK'
    BY <1>1, <2>1, <2>2 DEF SinkTypeOK, QueueItem, WorkerState
  <2>4. MarkerOnce' /\ WorkerHolds'
    BY <1>1, <2>1, <2>2 DEF MarkerOnce, WorkerHolds
  <2>5. CountedIsStored' /\ FailedIsKept'
    BY <1>1, <2>1 DEF CountedIsStored, FailedIsKept
  <2> QED BY <2>3, <2>4, <2>5 DEF SinkInv
<1>7. CASE StartFlush
  <2>1. /\ worker = "filling" /\ worker' = "sending"
        /\ UNCHANGED <<bulk, batch, stopping, attempt, stored, indexed, failed,
                       dead_letters, closing>>
    BY <1>7 DEF StartFlush
  <2>2. SinkTypeOK' /\ MarkerOnce' /\ WorkerHolds'
    BY <1>1, <2>1 DEF SinkTypeOK, WorkerState, MarkerOnce, WorkerHolds
  <2>3. CountedIsStored' /\ FailedIsKept'
    BY <1>1, <2>1 DEF CountedIsStored, FailedIsKept
  <2> QED BY <2>2, <2>3 DEF SinkInv
<1> QED BY <1>3, <1>4, <1>5, <1>6, <1>7

\* The end of a batch, whose outcome is given for the counters.
LEMMA FlushedInv ==
    ASSUME SinkInv, worker \in {"sending", "dead_lettering"}, EndFlush,
           UNCHANGED <<bulk, stopping, closing>>,
           stored' \subseteq Document, indexed' \in Seq(Document),
           failed' \in Seq(Document), dead_letters' \in Seq(Document),
           CountedIsStored', DeadLetterPath => failed' = dead_letters'
    PROVE  SinkInv'
<1>1. SinkTypeOK /\ MarkerOnce /\ WorkerHolds
  BY DEF SinkInv
<1>2. /\ batch' = <<>> /\ attempt' = 0
      /\ worker' = IF stopping THEN "done" ELSE "idle"
  BY DEF EndFlush
<1>3. 0 \in 0..MaxRetries /\ <<>> \in Seq(Document) /\ Len(<<>>) <= BatchSize
  BY SinkAssumption
<1>4. SinkTypeOK'
  BY <1>1, <1>2, <1>3 DEF SinkTypeOK, WorkerState
<1>5. MarkerOnce' /\ WorkerHolds'
  BY <1>1, <1>2 DEF MarkerOnce, WorkerHolds
<1>6. FailedIsKept'
  <2>1. dead_letters' \o <<>> = dead_letters'
    BY ConcatEmptySeq
  <2> QED BY <1>2, <2>1 DEF FailedIsKept
<1> QED BY <1>4, <1>5, <1>6 DEF SinkInv

\* An answered request, and the outcomes of a request that failed.
LEMMA FlushInv ==
    ASSUME SinkInv, AttemptSucceeds \/ AttemptFails \/ WriteDeadLetters \/ DeadLetterError
    PROVE  SinkInv'
<1>1. SinkTypeOK /\ MarkerOnce /\ WorkerHolds /\ CountedIsStored /\ FailedIsKept
  BY DEF SinkInv
<1>2. /\ batch \in Seq(Document) /\ stored \subseteq Document
      /\ indexed \in Seq(Document) /\ failed \in Seq(Document)
      /\ dead_letters \in Seq(Document)
      /\ ToSet(batch) \subseteq Document
  BY <1>1, ToSetType DEF SinkTypeOK
<1>3. CASE AttemptSucceeds
  <2>1. /\ worker = "sending" /\ stored' = stored \cup ToSet(batch)
        /\ indexed' = indexed \o batch /\ EndFlush
        /\ UNCHANGED <<bulk, stopping, failed, dead_letters, closing>>
    BY <1>3 DEF AttemptSucceeds
  <2>2. indexed' \in Seq(Document) /\ stored' \subseteq Document
    BY <1>2, <2>1, ConcatProperties
  <2>3. ToSet(indexed') = ToSet(indexed) \cup ToSet(batch)
    BY <1>2, <2>1, ToSetConcat
  <2>4. CountedIsStored'
    BY <1>1, <2>1, <2>3 DEF CountedIsStored
  <2>5. DeadLetterPath => failed' = dead_letters'
    <3>1. dead_letters \o <<>> = dead_letters
      BY <1>2, ConcatEmptySeq
    <3> QED BY <1>1, <2>1, <3>1 DEF FailedIsKept
  <2> QED BY <1>2, <2>1, <2>2, <2>4, <2>5, FlushedInv
<1>4. CASE AttemptFails
  <2>1. /\ worker = "sending" /\ StoreSome
        /\ IF attempt < MaxRetries
           THEN attempt' = attempt + 1 /\ UNCHANGED <<worker, batch, failed>>
           ELSE Exhausted
        /\ UNCHANGED <<bulk, stopping, indexed, dead_letters, closing>>
    BY <1>4 DEF AttemptFails
  <2>2. stored \subseteq stored' /\ stored' \subseteq Document
    <3>1. PICK part \in IF PartialFaults THEN SUBSET ToSet(batch) ELSE {{}} :
                stored' = stored \cup part
      BY <2>1 DEF StoreSome
    <3>2. part \subseteq ToSet(batch)
      OBVIOUS
    <3> QED BY <1>2, <3>1, <3>2
  <2>3. CountedIsStored'
    BY <1>1, <2>1, <2>2 DEF CountedIsStored
  <2>4. dead_letters \o <<>> = dead_letters /\ dead_letters \in Seq(Document)
    BY <1>2, ConcatEmptySeq
  <2>5. CASE attempt < MaxRetries
    <3>1. attempt' = attempt + 1 /\ UNCHANGED <<worker, batch, failed>>
      BY <2>1, <2>5
    <3>2. attempt' \in 0..MaxRetries
      BY <1>1, <2>5, <3>1, SinkAssumption DEF SinkTypeOK
    <3>3. SinkTypeOK'
      BY <1>1, <2>1, <2>2, <3>1, <3>2 DEF SinkTypeOK
    <3>4. MarkerOnce' /\ WorkerHolds'
      BY <1>1, <2>1, <3>1 DEF MarkerOnce, WorkerHolds
    <3>5. FailedIsKept'
      BY <1>1, <2>1, <3>1 DEF FailedIsKept
    <3> QED BY <2>3, <3>3, <3>4, <3>5 DEF SinkInv
  <2>6. CASE ~ (attempt < MaxRetries)
    <3>1. /\ failed' = failed \o batch
          /\ IF DeadLetterPath
             THEN worker' = "dead_lettering" /\ UNCHANGED <<batch, attempt>>
             ELSE EndFlush
      BY <2>1, <2>6 DEF Exhausted
    <3>2. failed' \in Seq(Document)
      BY <1>2, <3>1, ConcatProperties
    <3>3. CASE DeadLetterPath
      <4>1. worker' = "dead_lettering" /\ UNCHANGED <<batch, attempt>>
        BY <3>1, <3>3
      <4>2. SinkTypeOK'
        BY <1>1, <2>1, <2>2, <3>2, <4>1 DEF SinkTypeOK, WorkerState
      <4>3. MarkerOnce' /\ WorkerHolds'
        BY <1>1, <2>1, <4>1 DEF MarkerOnce, WorkerHolds
      <4>4. FailedIsKept'
        BY <1>1, <2>1, <2>4, <3>1, <4>1 DEF FailedIsKept
      <4> QED BY <2>3, <4>2, <4>3, <4>4 DEF SinkInv
    <3>4. CASE ~ DeadLetterPath
      <4>1. EndFlush
        BY <3>1, <3>4
      <4>2. indexed' \in Seq(Document) /\ dead_letters' \in Seq(Document)
        BY <1>2, <2>1
      <4> QED BY <2>1, <2>2, <2>3, <3>2, <3>4, <4>1, <4>2, FlushedInv
    <3> QED BY <3>3, <3>4
  <2> QED BY <2>5, <2>6
<1>5. CASE WriteDeadLetters
  <2>1. /\ worker = "dead_lettering" /\ dead_letters' = dead_letters \o batch /\ EndFlush
        /\ UNCHANGED <<bulk, stopping, stored, indexed, failed, closing>>
    BY <1>5 DEF WriteDeadLetters
  <2>2. dead_letters' \in Seq(Document)
    BY <1>2, <2>1, ConcatProperties
  <2>3. CountedIsStored' /\ (DeadLetterPath => failed' = dead_letters')
    BY <1>1, <2>1 DEF CountedIsStored, FailedIsKept
  <2> QED BY <1>2, <2>1, <2>2, <2>3, FlushedInv
<1>6. CASE DeadLetterError
  <2>1. /\ worker = "dead_lettering" /\ worker' = "dead"
        /\ \E n \in 0..(Len(batch) - 1) : dead_letters' = dead_letters \o SubSeq(batch, 1, n)
        /\ UNCHANGED <<bulk, batch, stopping, attempt, stored, indexed, failed, closing>>
    BY <1>6 DEF DeadLetterError
  <2>2. PICK n \in 0..(Len(batch) - 1) : dead_letters' = dead_letters \o SubSeq(batch, 1, n)
    BY <2>1
  <2>3. SubSeq(batch, 1, n) \in Seq(Document)
    <3>1. Len(batch) \in Nat /\ n \in Int /\ n < Len(batch)
      BY <1>2, <2>2, LenProperties
    <3>2. \A i \in 1..n : batch[i] \in Document
      BY <1>2, <3>1, ElementOfSeq
    <3> QED BY <3>1, <3>2, SubSeqProperties
  <2>4. dead_letters' \in Seq(Document)
    BY <1>2, <2>2, <2>3, ConcatProperties
  <2>5. SinkTypeOK' /\ MarkerOnce' /\ WorkerHolds'
    BY <1>1, <2>1, <2>4 DEF SinkTypeOK, WorkerState, MarkerOnce, WorkerHolds
  <2>6. CountedIsStored' /\ FailedIsKept'
    BY <1>1, <2>1 DEF CountedIsStored, FailedIsKept
  <2> QED BY <2>5, <2>6 DEF SinkInv
<1> QED BY <1>3, <1>4, <1>5, <1>6

\* A step of the worker.
LEMMA WorkInv ==
    ASSUME SinkInv, Work
    PROVE  SinkInv'
BY TakeInv, FlushInv DEF Work

\* SinkInv is an inductive invariant of the sink.
LEMMA SinkInductive ==
    /\ SinkInit => SinkInv
    /\ SinkInv /\ [SinkNext]_sinkVars => SinkInv'
<1>1. ASSUME SinkInit PROVE SinkInv
  <2>1. SinkTypeOK
    <3>1. /\ <<>> \in Seq(Document) /\ <<>> \in Seq(Document \cup {Stop}) /\ Len(<<>>) = 0
          /\ 0 <= BulkQueueSize /\ 0 <= BatchSize /\ 0 \in 0..MaxRetries
      BY SinkAssumption
    <3>2. /\ bulk \in Seq(Document \cup {Stop}) /\ Len(bulk) <= BulkQueueSize
          /\ batch \in Seq(Document) /\ Len(batch) <= BatchSize
          /\ attempt \in 0..MaxRetries
      BY <1>1, <3>1 DEF SinkInit
    <3> QED BY <1>1, <3>1, <3>2 DEF SinkInit, SinkTypeOK, WorkerState, ClosingState
  <2>2. MarkerOnce /\ WorkerHolds
    BY <1>1 DEF SinkInit, MarkerOnce, WorkerHolds, MarkerLast, Unmarked
  <2>3. CountedIsStored /\ FailedIsKept
    BY <1>1, ConcatEmptySeq DEF SinkInit, CountedIsStored, FailedIsKept, ToSet
  <2> QED BY <2>1, <2>2, <2>3 DEF SinkInv
<1>2. ASSUME SinkInv, [SinkNext]_sinkVars PROVE SinkInv'
  <2>1. CASE closing = "open" /\ \E d \in Document : Emit(d)
    BY <1>2, <2>1, EmitInv
  <2>2. CASE CloseCalled \/ Close
    BY <1>2, <2>2, CloseInv
  <2>3. CASE Work
    BY <1>2, <2>3, WorkInv
  <2>4. CASE UNCHANGED sinkVars
    BY <1>2, <2>4 DEF SinkInv, sinkVars, SinkTypeOK, MarkerOnce, WorkerHolds,
            CountedIsStored, FailedIsKept
  <2> QED BY <1>2, <2>1, <2>2, <2>3, <2>4 DEF SinkNext
<1> QED BY <1>1, <1>2

\* The type invariant, and what the sink promises of its counters and of close:
\* indexed_documents counts only what is stored, failed_documents exactly what is in
\* the dead-letter file, and close returns with nothing in the queue or in hand.
THEOREM SinkSafety ==
    SinkSpec => [](SinkTypeOK /\ CountedIsStored /\ FailedIsKept /\ CloseFlushes)
<1>1. SinkInv => SinkTypeOK /\ CountedIsStored /\ FailedIsKept /\ CloseFlushes
  BY DEF SinkInv, CloseFlushes, WorkerHolds
<1> QED BY <1>1, SinkInductive, PTL DEF SinkSpec

-----------------------------------------------------------------------------
\* The refinement of Delivery.

\* What the mapping makes of the queue and the batch.
LEMMA PendingType ==
    ASSUME SinkInv
    PROVE  /\ bulk \in Seq(QueueItem) /\ MarkerLast(bulk)
           /\ batch \in Seq(Document)
           /\ Unsettled \in Seq(Document)
           /\ Documents(bulk) \in Seq(Document)
           /\ Pending \in Seq(Document)
<1>1. bulk \in Seq(QueueItem) /\ MarkerLast(bulk) /\ batch \in Seq(Document)
  BY DEF SinkInv, SinkTypeOK, MarkerOnce, QueueItem
<1>2. Unsettled \in Seq(Document)
  BY <1>1 DEF Unsettled
<1>3. Documents(bulk) \in Seq(Document)
  BY <1>1, DocumentsType
<1> QED BY <1>1, <1>2, <1>3, ConcatProperties DEF Pending

\* emit submits its document.
LEMMA EmitRefines ==
    ASSUME SinkInv, closing = "open", NEW d \in Document, Emit(d)
    PROVE  Abstract!Submit(d)
<1>1. /\ bulk' = Append(bulk, d)
      /\ worker' = IF worker = "none" THEN "idle" ELSE worker
      /\ UNCHANGED <<batch, indexed, failed>>
  BY DEF Emit
<1>2. bulk \in Seq(QueueItem) /\ Unmarked(bulk) /\ d \in QueueItem /\ d # Stop
  BY SinkAssumption DEF SinkInv, SinkTypeOK, MarkerOnce, QueueItem
<1>3. bulk \in Seq(Document) /\ Documents(bulk) = bulk
  BY <1>2, DocumentsUnmarked
<1>4. bulk' \in Seq(QueueItem) /\ Unmarked(bulk')
  BY <1>1, <1>2, AppendQueue
<1>5. Documents(bulk)' = Append(bulk, d)
  BY <1>1, <1>4, DocumentsUnmarked
<1>6. Unsettled' = Unsettled /\ Unsettled \in Seq(Document)
  BY <1>1, PendingType DEF Unsettled
<1>7. Unsettled \o Append(bulk, d) = Append(Unsettled \o bulk, d)
  <2>1. /\ <<d>> \in Seq(Document)
        /\ Append(bulk, d) = bulk \o <<d>>
    BY <1>3, AppendIsConcat
  <2>2. Unsettled \o bulk \in Seq(Document)
    BY <1>3, <1>6, ConcatProperties
  <2>3. Append(Unsettled \o bulk, d) = (Unsettled \o bulk) \o <<d>>
    BY <2>2, AppendIsConcat
  <2>4. (Unsettled \o bulk) \o <<d>> = Unsettled \o (bulk \o <<d>>)
    BY <1>3, <1>6, <2>1, ConcatAssociative
  <2> QED BY <2>1, <2>3, <2>4
<1>8. Pending' = Append(Pending, d)
  BY <1>3, <1>5, <1>6, <1>7 DEF Pending
<1>9. (worker = "dead")' = (worker = "dead")
  BY <1>1
<1> QED BY <1>1, <1>8, <1>9 DEF Abstract!Submit

\* close leaves what is pending as it is: the marker is no document.
LEMMA CloseRefines ==
    ASSUME SinkInv, CloseCalled \/ Close
    PROVE  UNCHANGED Abstract!deliveryVars
<1>1. UNCHANGED <<batch, indexed, failed>>
  BY DEF CloseCalled, Close, CloseStop, CloseJoin
<1>2. Unsettled' = Unsettled /\ (worker = "dead")' = (worker = "dead")
  BY <1>1 DEF CloseCalled, Close, CloseStop, CloseJoin, Unsettled
<1>3. Documents(bulk)' = Documents(bulk)
  <2>1. CASE CloseStop
    <3>1. bulk \in Seq(QueueItem) /\ Unmarked(bulk) /\ bulk' = Append(bulk, Stop)
      BY <2>1 DEF CloseStop, SinkInv, SinkTypeOK, MarkerOnce, QueueItem
    <3>2. bulk \in Seq(Document) /\ Documents(bulk) = bulk
      BY <3>1, DocumentsUnmarked
    <3> QED BY <3>1, <3>2, DocumentsMarked
  <2>2. CASE CloseCalled \/ CloseJoin
    BY <2>2 DEF CloseCalled, CloseJoin, Documents
  <2> QED BY <2>1, <2>2 DEF Close
<1> QED BY <1>1, <1>2, <1>3 DEF Abstract!deliveryVars, Pending

\* The n oldest of what is pending are the batch, when it is being sent.
LEMMA BatchIsOldest ==
    ASSUME SinkInv, worker = "sending"
    PROVE  /\ Len(batch) \in 1..Len(Pending)
           /\ SubSeq(Pending, 1, Len(batch)) = batch
           /\ SubSeq(Pending, Len(batch) + 1, Len(Pending)) = Documents(bulk)
<1>1. /\ batch \in Seq(Document) /\ batch # <<>> /\ Documents(bulk) \in Seq(Document)
      /\ Pending = batch \o Documents(bulk)
  BY PendingType DEF SinkInv, WorkerHolds, Pending, Unsettled
<1>2. /\ Len(batch) \in Nat /\ Len(batch) > 0 /\ Len(Documents(bulk)) \in Nat
      /\ Len(Pending) = Len(batch) + Len(Documents(bulk))
  BY <1>1, LenProperties, EmptySeq, ConcatProperties
<1>3. Len(batch) \in 1..Len(Pending)
  BY <1>2
<1> QED BY <1>1, <1>3, SplitConcat

\* A step of the worker settles the oldest documents together, breaks the sink, or
\* moves documents between the queue and the batch, which Delivery does not see.
LEMMA WorkRefines ==
    ASSUME SinkInv, Work
    PROVE  Abstract!Settle \/ Abstract!Break \/ UNCHANGED Abstract!deliveryVars
<1>1. SinkTypeOK /\ MarkerOnce /\ WorkerHolds
  BY DEF SinkInv
<1>2. /\ bulk \in Seq(QueueItem) /\ MarkerLast(bulk) /\ batch \in Seq(Document)
      /\ Documents(bulk) \in Seq(Document) /\ Pending \in Seq(Document)
  BY PendingType
<1>3. /\ Documents(bulk)' \in Seq(Document)
      /\ <<>> \o Documents(bulk) = Documents(bulk)
      /\ <<>> \o Documents(bulk)' = Documents(bulk)'
  <2> SinkInv'
    BY WorkInv
  <2>1. bulk' \in Seq(QueueItem) /\ MarkerLast(bulk')
    BY DEF SinkInv, SinkTypeOK, MarkerOnce, QueueItem
  <2>2. Documents(bulk)' \in Seq(Document)
    BY <2>1, DocumentsType
  <2> QED BY <1>2, <2>2, ConcatEmptySeq
<1>4. CASE TakeFirst
  <2>1. /\ worker = "idle" /\ bulk # <<>> /\ Head(bulk) # Stop
        /\ batch' = <<Head(bulk)>> /\ bulk' = Tail(bulk) /\ worker' = "filling"
        /\ UNCHANGED <<indexed, failed>>
    BY <1>4 DEF TakeFirst
  <2>2. Documents(bulk) = <<Head(bulk)>> \o Documents(bulk)'
    BY <1>2, <2>1, DocumentsHead
  <2>3. Pending = Documents(bulk) /\ Pending' = <<Head(bulk)>> \o Documents(bulk)'
    BY <1>3, <2>1 DEF Pending, Unsettled
  <2> QED BY <2>1, <2>2, <2>3 DEF Abstract!deliveryVars
<1>5. CASE TakeStop
  <2>1. /\ worker = "idle" /\ bulk # <<>> /\ Head(bulk) = Stop
        /\ bulk' = Tail(bulk) /\ worker' = "done"
        /\ UNCHANGED <<batch, indexed, failed>>
    BY <1>5 DEF TakeStop
  <2>2. Documents(bulk)' = Documents(bulk)
    BY <1>2, <2>1, DocumentsStop
  <2>3. Pending' = Pending
    BY <2>1, <2>2 DEF Pending, Unsettled
  <2> QED BY <2>1, <2>3 DEF Abstract!deliveryVars
<1>6. CASE Fill
  <2>1. /\ worker = "filling" /\ bulk # <<>> /\ Head(bulk) # Stop
        /\ batch' = Append(batch, Head(bulk)) /\ bulk' = Tail(bulk)
        /\ UNCHANGED <<worker, indexed, failed>>
    BY <1>6 DEF Fill
  <2>2. /\ Head(bulk) \in Document
        /\ Documents(bulk) = <<Head(bulk)>> \o Documents(bulk)'
    BY <1>2, <2>1, DocumentsHead
  <2>3. batch' = batch \o <<Head(bulk)>> /\ <<Head(bulk)>> \in Seq(Document)
    BY <1>2, <2>1, <2>2, AppendIsConcat
  <2>4. Documents(bulk)' \in Seq(Document)
    BY <1>3
  <2>5. (batch \o <<Head(bulk)>>) \o Documents(bulk)'
            = batch \o (<<Head(bulk)>> \o Documents(bulk)')
    BY <1>2, <2>3, <2>4, ConcatAssociative, SMTT(30)
  <2>6. Pending = batch \o Documents(bulk) /\ Pending' = batch' \o Documents(bulk)'
    BY <2>1 DEF Pending, Unsettled
  <2>7. Pending' = Pending
    BY <2>2, <2>3, <2>5, <2>6
  <2> QED BY <2>1, <2>7 DEF Abstract!deliveryVars
<1>7. CASE FillStop
  <2>1. /\ worker = "filling" /\ bulk # <<>> /\ Head(bulk) = Stop
        /\ bulk' = Tail(bulk) /\ worker' = "sending"
        /\ UNCHANGED <<batch, indexed, failed>>
    BY <1>7 DEF FillStop
  <2>2. Documents(bulk)' = Documents(bulk)
    BY <1>2, <2>1, DocumentsStop
  <2>3. Pending' = Pending
    BY <2>1, <2>2 DEF Pending, Unsettled
  <2> QED BY <2>1, <2>3 DEF Abstract!deliveryVars
<1>8. CASE StartFlush
  <2>1. /\ worker = "filling" /\ worker' = "sending"
        /\ UNCHANGED <<bulk, batch, indexed, failed>>
    BY <1>8 DEF StartFlush
  <2>2. Pending' = Pending
    BY <2>1 DEF Pending, Unsettled, Documents
  <2> QED BY <2>1, <2>2 DEF Abstract!deliveryVars
<1>9. CASE AttemptSucceeds
  <2>1. /\ worker = "sending" /\ indexed' = indexed \o batch
        /\ worker' \in {"done", "idle"}
        /\ UNCHANGED <<bulk, failed>>
    BY <1>9 DEF AttemptSucceeds, EndFlush
  <2>2. Pending' = Documents(bulk)
    BY <1>3, <2>1 DEF Pending, Unsettled, Documents
  <2>3. Abstract!Deliver(Len(batch))
    BY <2>1, <2>2, BatchIsOldest DEF Abstract!Deliver, Abstract!Leave
  <2> QED BY <2>1, <2>3, BatchIsOldest DEF Abstract!Settle
<1>10. CASE AttemptFails
  <2>1. CASE attempt < MaxRetries
    <3>1. UNCHANGED <<bulk, batch, worker, indexed, failed>>
      BY <1>10, <2>1 DEF AttemptFails
    <3> QED BY <3>1 DEF Abstract!deliveryVars, Pending, Unsettled, Documents
  <2>2. CASE ~ (attempt < MaxRetries)
    <3>1. /\ worker = "sending" /\ failed' = failed \o batch
          /\ worker' \in {"dead_lettering", "done", "idle"}
          /\ UNCHANGED <<bulk, indexed>>
      BY <1>10, <2>2 DEF AttemptFails, Exhausted, EndFlush
    <3>2. Pending' = Documents(bulk)
      BY <1>3, <3>1 DEF Pending, Unsettled, Documents
    <3>3. Abstract!GiveUp(Len(batch))
      BY <3>1, <3>2, BatchIsOldest DEF Abstract!GiveUp, Abstract!Leave
    <3> QED BY <3>1, <3>3, BatchIsOldest DEF Abstract!Settle
  <2> QED BY <2>1, <2>2
<1>11. CASE WriteDeadLetters
  <2>1. /\ worker = "dead_lettering" /\ worker' \in {"done", "idle"}
        /\ UNCHANGED <<bulk, indexed, failed>>
    BY <1>11 DEF WriteDeadLetters, EndFlush
  <2> QED BY <2>1 DEF Abstract!deliveryVars, Pending, Unsettled, Documents
<1>12. CASE DeadLetterError
  <2>1. /\ worker = "dead_lettering" /\ worker' = "dead"
        /\ UNCHANGED <<bulk, indexed, failed>>
    BY <1>12 DEF DeadLetterError
  <2>2. Pending' = Pending
    BY <2>1 DEF Pending, Unsettled, Documents
  <2> QED BY <2>1, <2>2 DEF Abstract!Break
<1> QED BY <1>4, <1>5, <1>6, <1>7, <1>8, <1>9, <1>10, <1>11, <1>12 DEF Work

\* Every step of the sink, of whichever caller, is a step of Delivery or a stutter.
LEMMA SinkStepRefines ==
    ASSUME SinkInv, [SinkNext]_sinkVars
    PROVE  [Abstract!DeliveryNext]_(Abstract!deliveryVars)
<1>1. CASE closing = "open" /\ \E d \in Document : Emit(d)
  BY <1>1, EmitRefines DEF Abstract!DeliveryNext
<1>2. CASE CloseCalled \/ Close
  BY <1>2, CloseRefines
<1>3. CASE Work
  BY <1>3, WorkRefines DEF Abstract!DeliveryNext
<1>4. CASE UNCHANGED sinkVars
  BY <1>4 DEF sinkVars, Abstract!deliveryVars, Pending, Unsettled, Documents
<1> QED BY <1>1, <1>2, <1>3, <1>4 DEF SinkNext

\* BulkSink implements the safety part of Delivery: documents are settled in the order
\* they were emitted, each once, whatever the batches, retries and the shutdown do.
THEOREM SinkImplementsDelivery == SinkSpec => Abstract!DeliverySafety
<1>1. SinkInit => Abstract!DeliveryInit
  BY ConcatEmptySeq DEF SinkInit, Abstract!DeliveryInit, Pending, Unsettled, Documents
<1>2. SinkInv /\ [SinkNext]_sinkVars => [Abstract!DeliveryNext]_(Abstract!deliveryVars)
  BY SinkStepRefines
<1> QED BY <1>1, <1>2, SinkInductive, PTL DEF SinkSpec, Abstract!DeliverySafety

-----------------------------------------------------------------------------
\* What a sink that implements Delivery keeps.

\* What has reached the sink and stays with it: settled or pending.
Kept == ToSet(indexed) \cup ToSet(failed) \cup ToSet(Pending)

\* A submitted document is kept, and settling moves documents within what is kept.
LEMMA KeptExact ==
    ASSUME SinkInv
    PROVE  /\ \A d \in Document : Abstract!Submit(d) => Kept' = Kept \cup {d}
           /\ Abstract!Settle \/ Abstract!Break \/ UNCHANGED Abstract!deliveryVars => Kept' = Kept
<1>1. Pending \in Seq(Document) /\ indexed \in Seq(Document) /\ failed \in Seq(Document)
  BY PendingType DEF SinkInv, SinkTypeOK
<1>2. ASSUME NEW d \in Document, Abstract!Submit(d) PROVE Kept' = Kept \cup {d}
  BY <1>1, <1>2, ToSetAppend DEF Abstract!Submit, Kept
<1>3. ASSUME NEW n \in 1..Len(Pending), Abstract!Deliver(n) \/ Abstract!GiveUp(n)
      PROVE  Kept' = Kept
  <2> DEFINE first == SubSeq(Pending, 1, n)
             rest == SubSeq(Pending, n + 1, Len(Pending))
  <2>1. n \in 0..Len(Pending)
    OBVIOUS
  <2>2. /\ first \in Seq(Document)
        /\ ToSet(Pending) = ToSet(first) \cup ToSet(rest)
    BY <1>1, <2>1, ToSetSplit
  <2>3. /\ Pending' = rest
        /\ \/ indexed' = indexed \o first /\ failed' = failed
           \/ failed' = failed \o first /\ indexed' = indexed
    BY <1>3 DEF Abstract!Deliver, Abstract!GiveUp, Abstract!Leave
  <2> HIDE DEF first, rest
  <2>4. /\ ToSet(indexed \o first) = ToSet(indexed) \cup ToSet(first)
        /\ ToSet(failed \o first) = ToSet(failed) \cup ToSet(first)
    BY <1>1, <2>2, ToSetConcat
  <2> QED BY <2>2, <2>3, <2>4 DEF Kept
<1>4. ASSUME Abstract!Break \/ UNCHANGED Abstract!deliveryVars PROVE Kept' = Kept
  BY <1>4 DEF Abstract!Break, Abstract!deliveryVars, Kept
<1> QED BY <1>2, <1>3, <1>4 DEF Abstract!Settle

\* A step of the sink drops nothing that was submitted.
LEMMA KeptGrows ==
    ASSUME SinkInv, [SinkNext]_sinkVars
    PROVE  Kept \subseteq Kept'
BY SinkStepRefines, KeptExact DEF Abstract!DeliveryNext

\* A document that is emitted is kept.
LEMMA EmitKeeps ==
    ASSUME SinkInv, closing = "open", NEW d \in Document, Emit(d)
    PROVE  d \in Kept'
<1>1. Pending \in Seq(Document) /\ Pending' = Append(Pending, d)
  BY PendingType, EmitRefines DEF Abstract!Submit
<1> QED BY <1>1, ToSetAppend DEF Kept

-----------------------------------------------------------------------------
\* The order of what is settled.

SettledDocuments == ToSet(indexed) \cup ToSet(failed)

\* With a document comes every document due before it.
ClosedUnder(due, out) == \A pair \in due : pair[2] \in out => pair[1] \in out

\* Of what is due before a pending document, each is settled or pending before it.
PendingOrdered(due) ==
    \A pair \in due : \A p \in 1..Len(Pending) : Pending[p] = pair[2] =>
        \/ pair[1] \in SettledDocuments
        \/ \E q \in 1..(p - 1) : Pending[q] = pair[1]

\* A sink whose callers emit a document after those due before it settles them in that
\* order, whatever its batches, retries and failures.
LEMMA OrderedStep ==
    ASSUME SinkInv, [SinkNext]_sinkVars, NEW due, \A pair \in due : pair[1] # pair[2],
           ClosedUnder(due, Kept'), ClosedUnder(due, SettledDocuments), PendingOrdered(due)
    PROVE  ClosedUnder(due, SettledDocuments') /\ PendingOrdered(due)'
<1>1. Pending \in Seq(Document) /\ indexed \in Seq(Document) /\ failed \in Seq(Document)
  BY PendingType DEF SinkInv, SinkTypeOK
<1>2. Len(Pending) \in Nat
  BY <1>1, LenProperties
<1>3. ASSUME NEW d \in Document, Abstract!Submit(d)
      PROVE  ClosedUnder(due, SettledDocuments') /\ PendingOrdered(due)'
  <2>1. /\ Pending' = Append(Pending, d) /\ SettledDocuments' = SettledDocuments
    BY <1>3 DEF Abstract!Submit, SettledDocuments
  <2>2. /\ Len(Pending') = Len(Pending) + 1 /\ Pending'[Len(Pending) + 1] = d
        /\ \A i \in 1..Len(Pending) : Pending'[i] = Pending[i]
    BY <1>1, <2>1, AppendProperties
  <2>3. Kept' = Kept \cup {d}
    BY <1>3, KeptExact
  <2>4. ASSUME NEW pair \in due, NEW p \in 1..Len(Pending'), Pending'[p] = pair[2],
               pair[1] \notin SettledDocuments
        PROVE  \E q \in 1..(p - 1) : Pending'[q] = pair[1]
    <3>1. CASE p \in 1..Len(Pending)
      <4>1. PICK q \in 1..(p - 1) : Pending[q] = pair[1]
        BY <2>2, <2>4, <3>1 DEF PendingOrdered
      <4>2. q \in 1..Len(Pending)
        BY <1>2, <3>1
      <4> QED BY <2>2, <4>1, <4>2
    <3>2. CASE p \notin 1..Len(Pending)
      <4>1. p = Len(Pending) + 1
        BY <1>2, <2>2, <3>2
      <4>2. pair[2] = d
        BY <2>2, <2>4, <4>1
      <4>3. pair[1] \in Kept' /\ pair[1] # d
        BY <2>3, <4>2 DEF ClosedUnder
      <4>4. pair[1] \in ToSet(Pending)
        BY <2>3, <2>4, <4>3 DEF Kept, SettledDocuments
      <4>5. PICK q \in 1..Len(Pending) : Pending[q] = pair[1]
        BY <1>1, <4>4, LenProperties DEF ToSet
      <4>6. q \in 1..(p - 1)
        BY <1>2, <4>1
      <4> QED BY <2>2, <4>5, <4>6
    <3> QED BY <3>1, <3>2
  <2> QED BY <2>1, <2>4 DEF PendingOrdered
<1>4. ASSUME NEW n \in 1..Len(Pending), Abstract!Deliver(n) \/ Abstract!GiveUp(n)
      PROVE  ClosedUnder(due, SettledDocuments') /\ PendingOrdered(due)'
  <2> DEFINE first == SubSeq(Pending, 1, n)
             rest == SubSeq(Pending, n + 1, Len(Pending))
  <2>1. n \in 0..Len(Pending) /\ n \in Nat /\ \A i \in 1..Len(Pending) : Pending[i] \in Document
    BY <1>1, <1>2, ElementOfSeq
  <2>2. /\ first \in Seq(Document) /\ Len(first) = n
        /\ \A i \in 1..n : first[i] = Pending[i]
    <3>1. \A i \in 1..n : Pending[i] \in Document
      BY <1>2, <2>1
    <3>2. 1 <= n /\ n - 1 + 1 = n /\ \A i \in 1..n : 1 + i - 1 = i
      BY <1>2
    <3> QED BY <1>1, <2>1, <3>1, <3>2, SubSeqProperties
  <2>3. /\ Len(rest) = Len(Pending) - n
        /\ \A i \in 1..(Len(Pending) - n) : rest[i] = Pending[i + n]
    BY <1>1, <2>1, SuffixProperties
  <2>4. /\ Pending' = rest
        /\ \/ indexed' = indexed \o first /\ failed' = failed
           \/ failed' = failed \o first /\ indexed' = indexed
    BY <1>4 DEF Abstract!Deliver, Abstract!GiveUp, Abstract!Leave
  <2> HIDE DEF first, rest
  <2>5. ToSet(first) = {Pending[i] : i \in 1..n}
    <3>1. DOMAIN first = 1..n
      BY <2>2, LenProperties
    <3> QED BY <2>2, <3>1 DEF ToSet
  <2>6. SettledDocuments' = SettledDocuments \cup {Pending[i] : i \in 1..n}
    <3>1. /\ ToSet(indexed \o first) = ToSet(indexed) \cup ToSet(first)
          /\ ToSet(failed \o first) = ToSet(failed) \cup ToSet(first)
      BY <1>1, <2>2, ToSetConcat
    <3> QED BY <2>4, <2>5, <3>1 DEF SettledDocuments
  <2>7. ASSUME NEW pair \in due, pair[2] \in SettledDocuments'
        PROVE  pair[1] \in SettledDocuments'
    <3>1. CASE pair[2] \in SettledDocuments
      BY <2>6, <3>1 DEF ClosedUnder
    <3>2. CASE pair[2] \notin SettledDocuments
      <4>1. PICK p \in 1..n : Pending[p] = pair[2]
        BY <2>6, <2>7, <3>2
      <4>2. p \in 1..Len(Pending) /\ \A q \in 1..(p - 1) : q \in 1..n
        BY <1>2
      <4>3. pair[1] \in SettledDocuments \/ \E q \in 1..(p - 1) : Pending[q] = pair[1]
        BY <4>1, <4>2 DEF PendingOrdered
      <4> QED BY <2>6, <4>2, <4>3
    <3> QED BY <3>1, <3>2
  <2>8. ASSUME NEW pair \in due, NEW p \in 1..Len(rest), rest[p] = pair[2],
               pair[1] \notin SettledDocuments'
        PROVE  \E q \in 1..(p - 1) : rest[q] = pair[1]
    <3>1. p \in 1..(Len(Pending) - n) /\ p + n \in 1..Len(Pending)
      BY <1>2, <2>3
    <3>2. Pending[p + n] = pair[2] /\ pair[1] \notin SettledDocuments
      BY <2>3, <2>6, <2>8, <3>1
    <3>3. PICK q \in 1..(p + n - 1) : Pending[q] = pair[1]
      BY <3>1, <3>2 DEF PendingOrdered
    <3>4. q \notin 1..n
      BY <2>6, <2>8, <3>3
    <3>5. /\ q - n \in 1..(p - 1) /\ q - n \in 1..(Len(Pending) - n) /\ (q - n) + n = q
      BY <1>2, <3>1, <3>4
    <3> QED BY <2>3, <3>3, <3>5
  <2> QED BY <2>4, <2>7, <2>8 DEF ClosedUnder, PendingOrdered
<1>5. CASE Abstract!Break \/ UNCHANGED Abstract!deliveryVars
  BY <1>5 DEF Abstract!Break, Abstract!deliveryVars, SettledDocuments, PendingOrdered
<1> QED BY <1>3, <1>4, <1>5, SinkStepRefines DEF Abstract!DeliveryNext, Abstract!Settle

-----------------------------------------------------------------------------
\* The attempts made for each document.

SettledCount == Len(indexed) + Len(failed)

\* Documents emitted as 1, 2, 3, ... are settled and wait in that order.
Numbered ==
    /\ SettledDocuments \subseteq 1..SettledCount
    /\ \A i \in 1..Len(Pending) : Pending[i] = SettledCount + i

\* A batch has been sent as often as the loop of _flush says, and what is not yet in a
\* batch has not been sent.
Attempts ==
    /\ sent \in [Document -> Nat]
    /\ \A d \in Document : d \notin SettledDocuments \cup ToSet(Unsettled) => sent[d] = 0
    /\ \A d \in ToSet(Unsettled) : sent[d] = attempt
    /\ worker \in {"none", "idle", "filling", "done"} => attempt = 0

RetryInv == SinkInv /\ Numbered /\ Attempts /\ GivenUpAfterRetries

\* No document is settled and pending.
LEMMA PendingUnsettled ==
    ASSUME SinkInv, Numbered
    PROVE  ToSet(Pending) \cap SettledDocuments = {}
<1>1. Pending \in Seq(Document) /\ indexed \in Seq(Document) /\ failed \in Seq(Document)
  BY PendingType DEF SinkInv, SinkTypeOK
<1>2. PICK n \in Nat : n = SettledCount
  BY <1>1, LenProperties DEF SettledCount
<1>3. ToSet(Pending) = {Pending[i] : i \in 1..Len(Pending)}
  BY <1>1, LenProperties DEF ToSet
<1>4. ASSUME NEW i \in 1..Len(Pending) PROVE Pending[i] \notin 1..n
  <2>1. Pending[i] = n + i /\ i >= 1 /\ i \in Int
    BY <1>1, <1>2, LenProperties DEF Numbered
  <2> QED BY <2>1
<1> QED BY <1>2, <1>3, <1>4 DEF Numbered

\* Delivery keeps the numbers in order.
LEMMA NumberedStep ==
    ASSUME SinkInv, Numbered,
           \/ Abstract!Submit(Emitted + 1)
           \/ Abstract!Settle \/ Abstract!Break \/ UNCHANGED Abstract!deliveryVars
    PROVE  Numbered'
<1>1. Pending \in Seq(Document) /\ indexed \in Seq(Document) /\ failed \in Seq(Document)
  BY PendingType DEF SinkInv, SinkTypeOK
<1>2. PICK n \in Nat : n = Len(Pending)
  BY <1>1, LenProperties
<1>3. PICK s \in Nat : s = SettledCount
  BY <1>1, LenProperties DEF SettledCount
<1>4. SettledDocuments \subseteq 1..s /\ \A i \in 1..n : Pending[i] = s + i
  BY <1>2, <1>3 DEF Numbered
<1>5. CASE Abstract!Submit(Emitted + 1)
  <2>1. Emitted + 1 = s + (n + 1)
    BY <1>1, <1>2, <1>3, LenProperties DEF Emitted, SettledCount
  <2>2. Pending' = Append(Pending, s + (n + 1)) /\ UNCHANGED <<indexed, failed>>
    BY <1>5, <2>1 DEF Abstract!Submit
  <2>3. /\ Len(Pending') = n + 1 /\ Pending'[n + 1] = s + (n + 1)
        /\ \A i \in 1..n : Pending'[i] = Pending[i]
    BY <1>1, <1>2, <2>2, AppendProperties
  <2>4. SettledCount' = s /\ SettledDocuments' = SettledDocuments
    BY <1>3, <2>2 DEF SettledCount, SettledDocuments
  <2>5. \A i \in 1..(n + 1) : Pending'[i] = s + i
    BY <1>4, <2>3
  <2> QED BY <1>4, <2>3, <2>4, <2>5 DEF Numbered
<1>6. ASSUME NEW m \in 1..n, Abstract!Deliver(m) \/ Abstract!GiveUp(m)
      PROVE  Numbered'
  <2> DEFINE first == SubSeq(Pending, 1, m)
             rest == SubSeq(Pending, m + 1, Len(Pending))
  <2>1. m \in 0..Len(Pending) /\ m \in Nat
    BY <1>2
  <2>2. /\ first \in Seq(Document) /\ Len(first) = m
        /\ \A i \in 1..m : first[i] = Pending[i]
    <3>1. \A i \in 1..m : Pending[i] \in Document
      BY <1>1, <1>2, ElementOfSeq
    <3>2. 1 <= m /\ m - 1 + 1 = m /\ \A i \in 1..m : 1 + i - 1 = i
      OBVIOUS
    <3> QED BY <1>1, <2>1, <3>1, <3>2, SubSeqProperties
  <2>3. /\ rest \in Seq(Document) /\ Len(rest) = n - m
        /\ \A i \in 1..(n - m) : rest[i] = Pending[i + m]
    BY <1>1, <1>2, <2>1, SuffixProperties
  <2>4. /\ Pending' = rest
        /\ \/ indexed' = indexed \o first /\ failed' = failed
           \/ failed' = failed \o first /\ indexed' = indexed
    BY <1>6 DEF Abstract!Deliver, Abstract!GiveUp, Abstract!Leave
  <2> HIDE DEF first, rest
  <2>5. ToSet(first) \subseteq 1..(s + m)
    <3>1. DOMAIN first = 1..m
      BY <2>2, LenProperties
    <3>2. \A i \in 1..m : first[i] \in 1..(s + m)
      BY <1>4, <2>2
    <3> QED BY <3>1, <3>2 DEF ToSet
  <2>6. SettledDocuments' = SettledDocuments \cup ToSet(first)
    <3>1. /\ ToSet(indexed \o first) = ToSet(indexed) \cup ToSet(first)
          /\ ToSet(failed \o first) = ToSet(failed) \cup ToSet(first)
      BY <1>1, <2>2, ToSetConcat
    <3> QED BY <2>4, <3>1 DEF SettledDocuments
  <2>7. SettledCount' = s + m
    <3>1. PICK a \in Nat : a = Len(indexed)
      BY <1>1, LenProperties
    <3>2. PICK b \in Nat : b = Len(failed)
      BY <1>1, LenProperties
    <3>3. Len(indexed \o first) = a + m /\ Len(failed \o first) = b + m
      BY <1>1, <2>2, <3>1, <3>2, ConcatProperties
    <3>4. \/ Len(indexed') = a + m /\ Len(failed') = b
          \/ Len(indexed') = a /\ Len(failed') = b + m
      BY <2>4, <3>1, <3>2, <3>3
    <3>5. s = a + b
      BY <1>3, <3>1, <3>2 DEF SettledCount
    <3> QED BY <3>4, <3>5 DEF SettledCount
  <2>8. \A i \in 1..(n - m) : rest[i] = (s + m) + i
    BY <1>4, <2>3
  <2>9. 1..s \subseteq 1..(s + m)
    OBVIOUS
  <2> QED BY <1>4, <2>3, <2>4, <2>5, <2>6, <2>7, <2>8, <2>9 DEF Numbered
<1>7. CASE Abstract!Break \/ UNCHANGED Abstract!deliveryVars
  BY <1>7 DEF Abstract!Break, Abstract!deliveryVars, Numbered, SettledCount, SettledDocuments
<1> QED BY <1>2, <1>5, <1>6, <1>7 DEF Abstract!Settle

\* The steps that send nothing keep the counts: what enters a batch was not sent yet.
LEMMA UnsentStep ==
    ASSUME RetryInv, UNCHANGED <<sent, indexed, failed, attempt>>,
           ToSet(Unsettled') \subseteq ToSet(Unsettled) \cup ToSet(Pending),
           ToSet(Unsettled) \subseteq ToSet(Unsettled') \cup SettledDocuments,
           ToSet(Unsettled') # ToSet(Unsettled) => attempt = 0,
           worker' \in {"none", "idle", "filling", "done"} => attempt = 0
    PROVE  Attempts' /\ GivenUpAfterRetries'
<1>1. /\ sent \in [Document -> Nat]
      /\ \A d \in Document : d \notin SettledDocuments \cup ToSet(Unsettled) => sent[d] = 0
      /\ \A d \in ToSet(Unsettled) : sent[d] = attempt
      /\ GivenUpAfterRetries
  BY DEF RetryInv, Attempts
<1>2. ToSet(Pending) \cap SettledDocuments = {} /\ ToSet(Pending) \subseteq Document
  BY PendingUnsettled, PendingType, ToSetType DEF RetryInv
<1>3. SettledDocuments' = SettledDocuments
  BY DEF SettledDocuments
<1>4. \A d \in ToSet(Unsettled') : sent[d] = attempt
  BY <1>1, <1>2
<1>5. \A d \in Document : d \notin SettledDocuments \cup ToSet(Unsettled') => sent[d] = 0
  BY <1>1
<1>6. Attempts'
  BY <1>1, <1>3, <1>4, <1>5 DEF Attempts
<1>7. GivenUpAfterRetries'
  BY <1>1 DEF GivenUpAfterRetries
<1> QED BY <1>6, <1>7

\* The steps of the callers, and those of the worker that send nothing.
LEMMA QuietSteps ==
    ASSUME RetryInv, UNCHANGED sent,
           \/ \E d \in Document : Emit(d)
           \/ CloseCalled \/ Close
           \/ TakeFirst \/ TakeStop \/ Fill \/ FillStop \/ StartFlush
    PROVE  Attempts' /\ GivenUpAfterRetries'
<1>1. /\ WorkerHolds /\ batch \in Seq(Document) /\ Unsettled \in Seq(Document)
      /\ bulk \in Seq(QueueItem) /\ MarkerLast(bulk) /\ Documents(bulk) \in Seq(Document)
      /\ (worker \in {"none", "idle", "filling", "done"} => attempt = 0)
  BY PendingType DEF RetryInv, SinkInv, Attempts
<1>2. ToSet(<<>>) = {}
  BY DEF ToSet
<1>3. ASSUME NEW d \in Document, Emit(d) PROVE Attempts' /\ GivenUpAfterRetries'
  <2>1. Unsettled' = Unsettled /\ UNCHANGED <<indexed, failed, attempt>>
        /\ (worker' = worker \/ attempt = 0)
    BY <1>1, <1>3 DEF Emit, Unsettled
  <2> QED BY <1>1, <2>1, UnsentStep
<1>4. CASE CloseCalled \/ Close
  <2>1. Unsettled' = Unsettled /\ UNCHANGED <<indexed, failed, attempt>>
        /\ (worker' = worker \/ attempt = 0)
    BY <1>1, <1>4 DEF CloseCalled, Close, CloseStop, CloseJoin, Unsettled
  <2> QED BY <1>1, <2>1, UnsentStep
<1>5. CASE TakeFirst \/ Fill
  <2>1. /\ worker \in {"idle", "filling"} /\ bulk # <<>> /\ Head(bulk) # Stop
        /\ bulk' = Tail(bulk) /\ worker' = "filling" /\ attempt = 0
        /\ UNCHANGED <<indexed, failed, attempt>>
    BY <1>1, <1>5 DEF TakeFirst, Fill
  <2>2. ToSet(Unsettled') = ToSet(Unsettled) \cup {Head(bulk)}
    <3>1. Head(bulk) \in Document
      BY <1>1, <2>1, DocumentsHead
    <3>2. CASE TakeFirst
      <4>1. Unsettled' = <<Head(bulk)>> /\ Unsettled = <<>>
        BY <3>2 DEF TakeFirst, Unsettled
      <4> QED BY <1>2, <4>1 DEF ToSet
    <3>3. CASE Fill
      <4>1. Unsettled' = Append(batch, Head(bulk)) /\ Unsettled = batch
        BY <3>3 DEF Fill, Unsettled
      <4> QED BY <1>1, <3>1, <4>1, ToSetAppend
    <3> QED BY <1>5, <3>2, <3>3
  <2>3. Head(bulk) \in ToSet(Pending)
    <3>1. /\ Head(bulk) \in Document /\ Documents(bulk) = <<Head(bulk)>> \o Documents(bulk)'
          /\ Documents(bulk)' \in Seq(Document)
      <4>1. SinkInv'
        BY <1>5, WorkInv DEF RetryInv, Work
      <4>2. bulk' \in Seq(QueueItem) /\ MarkerLast(bulk')
        BY <4>1 DEF SinkInv, SinkTypeOK, MarkerOnce, QueueItem
      <4>3. Documents(bulk)' \in Seq(Document)
        BY <4>2, DocumentsType
      <4> QED BY <1>1, <2>1, <4>3, DocumentsHead
    <3>2. PICK rest \in Seq(Document) : Documents(bulk) = <<Head(bulk)>> \o rest
      BY <3>1
    <3>3. <<Head(bulk)>> \in Seq(Document) /\ Head(bulk) \in ToSet(<<Head(bulk)>>)
      BY <3>1 DEF ToSet
    <3>4. ToSet(<<Head(bulk)>> \o rest) = ToSet(<<Head(bulk)>>) \cup ToSet(rest)
      BY <3>2, <3>3, ToSetConcat, ZenonT(30)
    <3>5. Head(bulk) \in ToSet(Documents(bulk))
      BY <3>2, <3>3, <3>4
    <3> QED BY <1>1, <3>5, ToSetConcat DEF Pending
  <2> QED BY <2>1, <2>2, <2>3, UnsentStep
<1>6. CASE TakeStop \/ FillStop \/ StartFlush
  <2>1. Unsettled' = Unsettled /\ UNCHANGED <<indexed, failed, attempt>> /\ attempt = 0
    BY <1>1, <1>6 DEF TakeStop, FillStop, StartFlush, Unsettled
  <2> QED BY <1>1, <2>1, UnsentStep
<1> QED BY <1>3, <1>4, <1>5, <1>6

\* A request sends each document of its batch once more; a batch is given up when that was
\* the last attempt.
LEMMA SendingStep ==
    ASSUME RetryInv, AttemptSucceeds \/ AttemptFails,
           sent' = [d \in Document |-> sent[d] + (IF d \in ToSet(batch) THEN 1 ELSE 0)]
    PROVE  Attempts' /\ GivenUpAfterRetries'
<1>1. /\ worker = "sending" /\ Unsettled = batch /\ batch \in Seq(Document)
      /\ indexed \in Seq(Document) /\ failed \in Seq(Document)
      /\ attempt \in 0..MaxRetries /\ MaxRetries \in Nat
      /\ ToSet(batch) \subseteq Document
  BY SinkAssumption, ToSetType DEF RetryInv, SinkInv, SinkTypeOK, AttemptSucceeds,
     AttemptFails, Unsettled
<1>2. ToSet(batch) \cap SettledDocuments = {}
  <2>1. ToSet(Pending) = ToSet(batch) \cup ToSet(Documents(bulk))
    BY <1>1, PendingType, ToSetConcat DEF RetryInv, Pending
  <2> QED BY <2>1, PendingUnsettled DEF RetryInv
<1>3. /\ sent \in [Document -> Nat]
      /\ \A d \in Document : d \notin SettledDocuments \cup ToSet(batch) => sent[d] = 0
      /\ \A d \in ToSet(batch) : sent[d] = attempt
  BY <1>1 DEF RetryInv, Attempts
<1>4. /\ \A d \in ToSet(indexed) : sent[d] \in 1..(MaxRetries + 1)
      /\ \A d \in ToSet(failed) : sent[d] = MaxRetries + 1
  BY DEF RetryInv, GivenUpAfterRetries
<1>5. /\ sent' \in [Document -> Nat]
      /\ \A d \in Document \ ToSet(batch) : sent'[d] = sent[d]
      /\ \A d \in ToSet(batch) : sent'[d] = attempt + 1
  <2>1. \A d \in Document : sent'[d] = sent[d] + (IF d \in ToSet(batch) THEN 1 ELSE 0)
    OBVIOUS
  <2>2. \A d \in Document : sent[d] \in Nat
    BY <1>3
  <2>3. \A d \in Document \ ToSet(batch) : sent'[d] = sent[d]
    BY <2>1, <2>2
  <2>4. \A d \in ToSet(batch) : sent'[d] = attempt + 1
    BY <1>1, <1>3, <2>1
  <2>5. \A d \in Document : sent'[d] \in Nat
    BY <2>1, <2>2
  <2> QED BY <2>3, <2>4, <2>5
<1>6. SettledDocuments = ToSet(indexed) \cup ToSet(failed) /\ SettledDocuments \subseteq Document
  BY <1>1, ToSetType DEF SettledDocuments
<1>7. /\ \A d \in ToSet(indexed) : sent'[d] \in 1..(MaxRetries + 1)
      /\ \A d \in ToSet(failed) : sent'[d] = MaxRetries + 1
  BY <1>2, <1>4, <1>5, <1>6
<1>8. /\ ToSet(indexed \o batch) = ToSet(indexed) \cup ToSet(batch)
      /\ ToSet(failed \o batch) = ToSet(failed) \cup ToSet(batch)
  BY <1>1, ToSetConcat
<1>9. ToSet(<<>>) = {}
  BY DEF ToSet
<1>10. ASSUME Unsettled' = <<>>, SettledDocuments' = SettledDocuments \cup ToSet(batch),
              worker' \in {"none", "idle", "filling", "done"} => attempt' = 0
       PROVE  Attempts'
  <2>1. \A d \in Document : d \notin SettledDocuments' => sent'[d] = 0
    BY <1>3, <1>5, <1>10
  <2> QED BY <1>5, <1>9, <1>10, <2>1 DEF Attempts
<1>11. CASE AttemptSucceeds
  <2>1. /\ indexed' = indexed \o batch /\ failed' = failed
        /\ worker' \in {"done", "idle"} /\ attempt' = 0
    BY <1>11 DEF AttemptSucceeds, EndFlush
  <2>2. Unsettled' = <<>> /\ SettledDocuments' = SettledDocuments \cup ToSet(batch)
    BY <1>8, <2>1 DEF Unsettled, SettledDocuments
  <2>3. Attempts'
    BY <1>10, <2>1, <2>2
  <2>4. attempt + 1 \in 1..(MaxRetries + 1)
    BY <1>1
  <2>5. GivenUpAfterRetries'
    BY <1>5, <1>7, <1>8, <2>1, <2>4 DEF GivenUpAfterRetries
  <2> QED BY <2>3, <2>5
<1>12. CASE AttemptFails /\ attempt < MaxRetries
  <2>1. /\ attempt' = attempt + 1 /\ UNCHANGED <<worker, batch, failed, indexed>>
    BY <1>12 DEF AttemptFails
  <2>2. Unsettled' = batch /\ SettledDocuments' = SettledDocuments
    BY <1>1, <2>1 DEF Unsettled, SettledDocuments
  <2>3. \A d \in Document : d \notin SettledDocuments \cup ToSet(batch) => sent'[d] = 0
    BY <1>3, <1>5
  <2>4. Attempts'
    BY <1>1, <1>5, <2>1, <2>2, <2>3 DEF Attempts
  <2>5. GivenUpAfterRetries'
    BY <1>7, <2>1 DEF GivenUpAfterRetries
  <2> QED BY <2>4, <2>5
<1>13. CASE AttemptFails /\ ~ (attempt < MaxRetries)
  <2>1. /\ failed' = failed \o batch /\ indexed' = indexed
        /\ \/ worker' = "dead_lettering"
           \/ worker' \in {"done", "idle"} /\ attempt' = 0
    BY <1>13 DEF AttemptFails, Exhausted, EndFlush
  <2>2. Unsettled' = <<>> /\ SettledDocuments' = SettledDocuments \cup ToSet(batch)
    BY <1>8, <2>1 DEF Unsettled, SettledDocuments
  <2>3. Attempts'
    BY <1>10, <2>1, <2>2
  <2>4. attempt = MaxRetries
    BY <1>1, <1>13
  <2>5. GivenUpAfterRetries'
    BY <1>5, <1>7, <1>8, <2>1, <2>4 DEF GivenUpAfterRetries
  <2> QED BY <2>3, <2>5
<1> QED BY <1>11, <1>12, <1>13

\* The dead-letter file settles nothing.
LEMMA DeadLetterSteps ==
    ASSUME RetryInv, WriteDeadLetters \/ DeadLetterError, UNCHANGED sent
    PROVE  Attempts' /\ GivenUpAfterRetries'
<1>1. /\ Unsettled = <<>> /\ Unsettled' = <<>> /\ UNCHANGED <<indexed, failed>>
      /\ (worker' \in {"none", "idle", "filling", "done"} => attempt' = 0)
  BY DEF WriteDeadLetters, DeadLetterError, EndFlush, Unsettled
<1>2. SettledDocuments' = SettledDocuments
  BY <1>1 DEF SettledDocuments
<1>3. ToSet(<<>>) = {}
  BY DEF ToSet
<1>4. Attempts'
  BY <1>1, <1>2, <1>3 DEF RetryInv, Attempts
<1>5. GivenUpAfterRetries'
  BY <1>1 DEF RetryInv, GivenUpAfterRetries
<1> QED BY <1>4, <1>5

\* A document is given up after max_retries + 1 attempts and no fewer, and none is sent more
\* often, whatever became of the batches before its own: for any number of documents.
THEOREM RetriesAreExact ==
    MaxDocuments \in Nat /\ Document = 1..MaxDocuments => (MCSpec => []GivenUpAfterRetries)
<1> SUFFICES ASSUME MaxDocuments \in Nat, Document = 1..MaxDocuments
             PROVE  MCSpec => []GivenUpAfterRetries
  OBVIOUS
<1>1. MCInit => RetryInv
  <2> SUFFICES ASSUME MCInit PROVE RetryInv
    OBVIOUS
  <2>1. SinkInv
    BY SinkInductive DEF MCInit
  <2>2. /\ indexed = <<>> /\ failed = <<>> /\ worker = "none" /\ batch = <<>> /\ bulk = <<>>
        /\ attempt = 0 /\ sent = [d \in Document |-> 0]
    BY DEF MCInit, SinkInit
  <2>3. ToSet(<<>>) = {} /\ Unsettled = <<>> /\ Pending = <<>>
    BY <2>2, ConcatEmptySeq DEF ToSet, Unsettled, Pending, Documents
  <2>4. Numbered
    BY <2>2, <2>3 DEF Numbered, SettledDocuments
  <2>5. Attempts /\ GivenUpAfterRetries
    BY <2>2, <2>3 DEF Attempts, GivenUpAfterRetries, SettledDocuments
  <2> QED BY <2>1, <2>4, <2>5 DEF RetryInv
<1>2. RetryInv /\ [MCNext]_mcVars => RetryInv'
  <2> SUFFICES ASSUME RetryInv, [MCNext]_mcVars PROVE RetryInv'
    OBVIOUS
  <2>1. SinkInv /\ Numbered
    BY DEF RetryInv
  <2>2. CASE closing = "open" /\ EmitNext /\ UNCHANGED sent
    <3>1. /\ Emit(Emitted + 1) /\ Emitted < MaxDocuments /\ closing = "open"
      BY <2>2 DEF EmitNext
    <3>2. Emitted + 1 \in Document
      <4>1. /\ indexed \in Seq(Document) /\ failed \in Seq(Document)
            /\ Pending \in Seq(Document)
        BY <2>1, PendingType DEF SinkInv, SinkTypeOK
      <4>2. PICK a \in Nat : a = Len(indexed)
        BY <4>1, LenProperties
      <4>3. PICK b \in Nat : b = Len(failed)
        BY <4>1, LenProperties
      <4>4. PICK c \in Nat : c = Len(Pending)
        BY <4>1, LenProperties
      <4>5. PICK n \in Nat : n = Emitted
        BY <4>2, <4>3, <4>4 DEF Emitted
      <4> QED BY <3>1, <4>5
    <3>3. SinkInv'
      BY <2>1, <3>1, <3>2, EmitInv
    <3>4. Numbered'
      BY <2>1, <3>1, <3>2, EmitRefines, NumberedStep
    <3>5. Attempts' /\ GivenUpAfterRetries'
      BY <2>2, <3>1, <3>2, QuietSteps
    <3> QED BY <3>3, <3>4, <3>5 DEF RetryInv
  <2>3. CASE (CloseCalled \/ Close) /\ UNCHANGED sent
    <3>1. SinkInv' /\ Numbered'
      BY <2>1, <2>3, CloseInv, CloseRefines, NumberedStep
    <3> QED BY <2>3, <3>1, QuietSteps DEF RetryInv
  <2>4. CASE /\ Work
             /\ sent' = IF worker = "sending"
                  THEN [d \in Document |-> sent[d] + (IF d \in ToSet(batch) THEN 1 ELSE 0)]
                  ELSE sent
    <3>1. SinkInv' /\ Numbered'
      BY <2>1, <2>4, WorkInv, WorkRefines, NumberedStep
    <3>2. CASE AttemptSucceeds \/ AttemptFails
      <4>1. worker = "sending"
        BY <3>2 DEF AttemptSucceeds, AttemptFails
      <4> QED BY <2>4, <3>1, <3>2, <4>1, SendingStep DEF RetryInv
    <3>3. CASE TakeFirst \/ TakeStop \/ Fill \/ FillStop \/ StartFlush
      <4>1. worker # "sending"
        BY <3>3 DEF TakeFirst, TakeStop, Fill, FillStop, StartFlush
      <4> QED BY <2>4, <3>1, <3>3, <4>1, QuietSteps DEF RetryInv
    <3>4. CASE WriteDeadLetters \/ DeadLetterError
      <4>1. worker # "sending"
        BY <3>4 DEF WriteDeadLetters, DeadLetterError
      <4> QED BY <2>4, <3>1, <3>4, <4>1, DeadLetterSteps DEF RetryInv
    <3> QED BY <2>4, <3>2, <3>3, <3>4 DEF Work
  <2>5. CASE UNCHANGED mcVars
    <3>1. UNCHANGED sinkVars /\ UNCHANGED sent
      BY <2>5 DEF mcVars
    <3>2. SinkInv'
      BY <2>1, <3>1, SinkInductive
    <3>3. Unsettled' = Unsettled /\ Pending' = Pending /\ UNCHANGED <<indexed, failed>>
      BY <3>1 DEF sinkVars, Unsettled, Pending, Documents
    <3>4. Numbered'
      BY <2>1, <3>3 DEF Numbered, SettledCount, SettledDocuments
    <3>5. Attempts' /\ GivenUpAfterRetries'
      BY <3>1, <3>3 DEF RetryInv, Attempts, GivenUpAfterRetries, SettledDocuments, sinkVars
    <3> QED BY <3>2, <3>4, <3>5 DEF RetryInv
  <2> QED BY <2>2, <2>3, <2>4, <2>5 DEF MCNext
<1>3. RetryInv => GivenUpAfterRetries
  BY DEF RetryInv
<1> QED BY <1>1, <1>2, <1>3, PTL DEF MCSpec
====
