---- MODULE DaemonProofs ----
(***************************************************************************)
(* Proofs about Daemon, for every set of sensor files, settings, queue     *)
(* sizes and faults: the count of the ingest queue is exact, no event is   *)
(* lost, a clean exit leaves nothing behind, a replay merges its files.    *)
(*                                                                         *)
(* The daemon moves the bulk sink by its own actions only, so the sink's   *)
(* invariant and what it promises (Delivery) carry over from               *)
(* BulkSinkProofs.                                                         *)
(***************************************************************************)
EXTENDS Daemon, BulkSinkProofs

Busy == consumer \in {"indexing", "writing", "looking_up", "reporting", "printing"}

-----------------------------------------------------------------------------
\* The parts of the inductive invariant.

\* The type invariant but for the count, with the heap as a sequence.
DaemonTypes ==
    /\ settings \in Settings /\ lines \in Files /\ observed_at \in Times
    /\ shutdown \in BOOLEAN /\ clean \in BOOLEAN
    /\ main \in MainState
    /\ unread \in [Source -> Seq(Event)]
    /\ heap \in Seq(Source)
    /\ follower \in [Source -> FollowerState]
    /\ queue \in Seq(Event \cup {Stop}) /\ Len(queue) <= QueueSize
    /\ consumer \in ConsumerState
    /\ current \in Event \cup {None}
    /\ printed \subseteq Document
    /\ json_open \in BOOLEAN
    /\ snapshot \in SnapshotState
    /\ snapshots \in 0..MaxSnapshots /\ (snapshot = "writing" => snapshots > 0)

\* What the consumer holds in each of its states.
ConsumerHolds ==
    /\ Busy <=> current # None
    /\ consumer \in {"looking_up", "reporting", "printing"} => current \in Alarming

\* The order in which run takes the tasks down: the producers, the consumer, the
\* snapshots, the sinks.
TakenDown ==
    /\ ~ Live \/ main # "running" => \A s \in Source : follower[s] # "running"
    /\ main \in {"ending", "closing", "finished", "raised"} => consumer \in TaskOver
    /\ main \in {"closing", "finished", "raised"} => snapshot \notin {"sleeping", "writing"}
    /\ closing # "open" => main \in {"closing", "finished", "raised"}

\* The clean way down: an empty queue, the marker alone in it, the marker taken.
CleanWay ==
    /\ main \in {"running", "draining"} => ~ clean
    /\ main \in {"stopping", "joining"} => clean
    /\ main = "stopping" => queue = <<>> /\ consumer = "idle"
    /\ main = "joining" =>
        \/ queue = <<Stop>> /\ consumer = "idle"
        \/ queue = <<>> /\ consumer = "returned"
    /\ clean /\ main \in {"ending", "closing", "finished", "raised"} =>
        queue = <<>> /\ consumer = "returned"
    /\ main = "finished" => clean /\ closing = "closed" /\ ~ json_open

\* What is still to be read of a file is the end of it.
UnreadIsRest ==
    \A s \in Source :
        /\ Len(unread[s]) <= Len(lines[s])
        /\ \A i \in 1..Len(unread[s]) :
            unread[s][i] = lines[s][Len(lines[s]) - Len(unread[s]) + i]

\* The heap of a replay holds the files that are not read to their end.
HeapHolds ==
    /\ IsInjective(heap)
    /\ ~ Live =>
        /\ \A s \in Source : unread[s] # <<>> <=> s \in ToSet(heap)
        /\ main = "draining" \/ clean => \A s \in Source : unread[s] = <<>>

ControlInv ==
    /\ SinkInv
    /\ DaemonTypes
    /\ UnfinishedExact
    /\ ConsumerHolds
    /\ TakenDown
    /\ CleanWay
    /\ UnreadIsRest
    /\ HeapHolds

\* What the outputs have of an event that was dealt with to the end.
Handled(e) ==
    /\ settings.opensearch => EventDoc(e) \in Kept
    /\ settings.include_events => EventDoc(e) \in printed
    /\ e \in Alarming =>
        /\ AlertDoc(e) \in printed
        /\ settings.opensearch => AlertDoc(e) \in Kept

\* How far the event in the consumer's hands has come.
InHand ==
    /\ settings.opensearch /\ consumer \in {"writing", "looking_up", "reporting", "printing"} =>
        EventDoc(current) \in Kept
    /\ settings.include_events /\ consumer \in {"looking_up", "reporting", "printing"} =>
        EventDoc(current) \in printed
    /\ settings.opensearch /\ consumer = "printing" => AlertDoc(current) \in Kept

\* Every event put on the queue is in it, in hand, or handled; after a failure of the
\* JSON output, at least with the OpenSearch sink.
Accounted ==
    \A s \in Source : \A e \in Enqueued(s) :
        \/ consumer = "cancelled"
        \/ e \in ToSet(queue)
        \/ e = current
        \/ consumer # "failed" /\ Handled(e)
        \/ consumer = "failed" /\ (settings.opensearch => EventDoc(e) \in Kept)

DaemonInv == ControlInv /\ InHand /\ Accounted

-----------------------------------------------------------------------------
\* What the daemon does to the bulk sink.

\* The documents the daemon makes.
LEMMA DocumentKinds ==
    /\ \A e \in Event : EventDoc(e) \in Document
    /\ \A e \in Alarming : AlertDoc(e) \in Document
    /\ \A n \in 1..MaxSnapshots : MetricDoc(n) \in Document
BY DaemonAssumption

\* While a task that emits is up, close has not been called.
LEMMA EmittersBeforeClose ==
    ASSUME ControlInv, Busy \/ snapshot \in {"sleeping", "writing"}
    PROVE  closing = "open"
BY DEF ControlInv, TakenDown, Busy, TaskOver

\* The consumer and the snapshot task emit documents, and before close is called.
LEMMA IndexIsSinkStep ==
    ASSUME ControlInv, IndexEvent \/ ReportAlert \/ EmitMetric
    PROVE  \/ settings.opensearch /\ closing = "open" /\ \E d \in Document : Emit(d)
           \/ ~ settings.opensearch /\ UNCHANGED sinkVars
<1>1. DaemonTypes /\ ConsumerHolds
  BY DEF ControlInv
<1>2. CASE IndexEvent
  <2>1. consumer = "indexing" /\ Index(EventDoc(current))
    BY <1>2 DEF IndexEvent
  <2>2. closing = "open" /\ current \in Event
    BY <1>1, <2>1, EmittersBeforeClose DEF Busy, ConsumerHolds, DaemonTypes
  <2> QED BY <2>1, <2>2, DocumentKinds DEF Index
<1>3. CASE ReportAlert
  <2>1. consumer = "reporting" /\ Index(AlertDoc(current))
    BY <1>3 DEF ReportAlert
  <2>2. closing = "open" /\ current \in Alarming
    BY <1>1, <2>1, EmittersBeforeClose DEF Busy, ConsumerHolds
  <2> QED BY <2>1, <2>2, DocumentKinds DEF Index
<1>4. CASE EmitMetric
  <2>1. snapshot = "sleeping" /\ snapshots < MaxSnapshots /\ Index(MetricDoc(snapshots + 1))
    BY <1>4 DEF EmitMetric
  <2>2. closing = "open" /\ snapshots + 1 \in 1..MaxSnapshots
    BY <1>1, <2>1, EmittersBeforeClose, DaemonAssumption DEF DaemonTypes
  <2> QED BY <2>1, <2>2, DocumentKinds DEF Index
<1> QED BY <1>2, <1>3, <1>4

\* Every step of the daemon is a step of the sink or leaves the sink alone.
LEMMA DaemonStepIsSinkStep ==
    ASSUME ControlInv, [DaemonNext]_daemonVars
    PROVE  [SinkNext]_sinkVars
<1>1. CASE IndexEvent \/ ReportAlert \/ EmitMetric
  BY <1>1, IndexIsSinkStep DEF SinkNext
<1>2. CASE EndSnapshots \/ CloseOutputs \/ BulkWork
  BY <1>2 DEF EndSnapshots, CloseOutputs, BulkWork, SinkNext
<1>3. CASE RequestShutdown \/ \E s \in Source : Follow(s) \/ FollowerFails(s)
  BY <1>3 DEF RequestShutdown, Follow, FollowerFails
<1>4. CASE TakeEvent \/ TakeStopItem \/ WriteEvent \/ LookUp \/ PrintAlert \/ PrintFails
            \/ PrintMetric \/ PrintMetricFails
  BY <1>4 DEF TakeEvent, TakeStopItem, WriteEvent, LookUp, PrintAlert, PrintFails,
        PrintMetric, PrintMetricFails
<1>5. CASE LiveShutdown \/ LiveFailure \/ ReplayPut \/ ReplayEnds \/ ReplayFails
            \/ DrainEnds \/ DrainFails \/ StopConsumer \/ JoinConsumer \/ Closed
  BY <1>5 DEF LiveShutdown, LiveFailure, ReplayPut, ReplayEnds, ReplayFails, DrainEnds,
        DrainFails, StopConsumer, JoinConsumer, Closed, Abandon
<1>6. CASE UNCHANGED daemonVars
  BY <1>6 DEF daemonVars
<1> QED BY <1>1, <1>2, <1>3, <1>4, <1>5, <1>6 DEF DaemonNext, Consume, Snapshot, Run

-----------------------------------------------------------------------------
\* The ingest queue.

Item == Event \cup {Stop}

\* An item put on the queue.
LEMMA PutItem ==
    ASSUME DaemonTypes, NEW item \in Item, Put(item)
    PROVE  /\ queue' \in Seq(Item) /\ Len(queue') = Len(queue) + 1
           /\ Len(queue') <= QueueSize
           /\ ToSet(queue') = ToSet(queue) \cup {item}
           /\ unfinished' = unfinished + 1
<1>1. /\ queue \in Seq(Item) /\ Len(queue) < QueueSize
      /\ queue' = Append(queue, item) /\ unfinished' = unfinished + 1
  BY DEF DaemonTypes, Put, Item
<1>2. queue' \in Seq(Item) /\ Len(queue') = Len(queue) + 1 /\ Len(queue) \in Nat
  BY <1>1, AppendProperties, LenProperties
<1>3. Len(queue') <= QueueSize
  BY <1>1, <1>2, DaemonAssumption
<1>4. ToSet(queue') = ToSet(queue) \cup {item}
  BY <1>1, ToSetAppend
<1> QED BY <1>1, <1>2, <1>3, <1>4

\* An item taken off the queue.
LEMMA TakenItem ==
    ASSUME DaemonTypes, queue # <<>>, queue' = Tail(queue)
    PROVE  /\ Head(queue) \in Item
           /\ queue' \in Seq(Item) /\ Len(queue') = Len(queue) - 1
           /\ Len(queue') <= QueueSize
           /\ ToSet(queue) = {Head(queue)} \cup ToSet(queue')
<1>1. queue \in Seq(Item) /\ Len(queue) <= QueueSize
  BY DEF DaemonTypes, Item
<1>2. /\ Head(queue) \in Item
      /\ queue' \in Seq(Item) /\ Len(queue') = Len(queue) - 1 /\ Len(queue) \in Nat
  BY <1>1, HeadTailProperties, LenProperties
<1>3. Len(queue') <= QueueSize
  BY <1>1, <1>2, DaemonAssumption
<1> QED BY <1>1, <1>2, <1>3, ToSetTail

\* What remains of a file after a line of it is read.
LEMMA ReadLine ==
    ASSUME DaemonTypes, UnreadIsRest, NEW s \in Source, PutNext(s), UNCHANGED lines
    PROVE  /\ Head(unread[s]) \in Event
           /\ unread' \in [Source -> Seq(Event)]
           /\ UnreadIsRest'
           /\ Len(unread[s]) \in Nat /\ Len(unread[s]) > 0
           /\ Len(unread'[s]) = Len(unread[s]) - 1
           /\ \A other \in Source \ {s} : unread'[other] = unread[other]
           /\ Enqueued(s)' = Enqueued(s) \cup {Head(unread[s])}
           /\ \A other \in Source \ {s} : Enqueued(other)' = Enqueued(other)
<1> DEFINE u == unread[s]
           w == lines[s]
<1>1. /\ unread \in [Source -> Seq(Event)] /\ u \in Seq(Event) /\ u # <<>>
      /\ unread' = [unread EXCEPT ![s] = Tail(u)]
      /\ w \in Seq(Event)
  BY DaemonAssumption DEF DaemonTypes, PutNext
<1>2. /\ Len(u) \in Nat /\ Len(u) > 0 /\ Len(w) \in Nat
      /\ Head(u) \in Event /\ Head(u) = u[1]
      /\ Tail(u) \in Seq(Event) /\ Len(Tail(u)) = Len(u) - 1
      /\ \A i \in 1..Len(Tail(u)) : Tail(u)[i] = u[i + 1]
  BY <1>1, LenProperties, EmptySeq, HeadTailProperties
<1>3. /\ unread' \in [Source -> Seq(Event)] /\ unread'[s] = Tail(u)
      /\ \A other \in Source \ {s} : unread'[other] = unread[other]
  BY <1>1, <1>2
<1>4. Len(u) <= Len(w) /\ \A i \in 1..Len(u) : u[i] = w[Len(w) - Len(u) + i]
  BY DEF UnreadIsRest
<1> HIDE DEF u, w
<1>5. UnreadIsRest'
  <2>1. Len(Tail(u)) <= Len(w)
    BY <1>2, <1>4
  <2>2. ASSUME NEW i \in 1..Len(Tail(u)) PROVE Tail(u)[i] = w[Len(w) - Len(Tail(u)) + i]
    <3>1. i + 1 \in 1..Len(u) /\ Len(w) - Len(u) + (i + 1) = Len(w) - Len(Tail(u)) + i
      BY <1>2
    <3> QED BY <1>2, <1>4, <3>1
  <2>3. ASSUME NEW other \in Source
        PROVE  /\ Len(unread'[other]) <= Len(lines'[other])
               /\ \A i \in 1..Len(unread'[other]) :
                    unread'[other][i]
                        = lines'[other][Len(lines'[other]) - Len(unread'[other]) + i]
    <3>1. CASE other = s
      BY <1>3, <2>1, <2>2, <3>1 DEF w
    <3>2. CASE other # s
      BY <1>3, <3>2 DEF UnreadIsRest
    <3> QED BY <3>1, <3>2
  <2> QED BY <2>3 DEF UnreadIsRest
<1>6. Enqueued(s)' = Enqueued(s) \cup {Head(u)}
  <2>1. /\ Enqueued(s) = {w[i] : i \in 1..(Len(w) - Len(u))}
        /\ Enqueued(s)' = {w[i] : i \in 1..(Len(w) - Len(Tail(u)))}
    BY <1>3 DEF Enqueued, u, w
  <2>2. 1 \in 1..Len(u) /\ Len(w) - Len(u) + 1 \in 1..(Len(w) - Len(Tail(u)))
    BY <1>2, <1>4
  <2>3. Head(u) = w[Len(w) - Len(u) + 1]
    BY <1>2, <1>4, <2>2
  <2>4. ASSUME NEW i \in 1..(Len(w) - Len(Tail(u))) PROVE w[i] \in Enqueued(s) \cup {Head(u)}
    <3>1. CASE i \in 1..(Len(w) - Len(u))
      BY <2>1, <3>1
    <3>2. CASE i \notin 1..(Len(w) - Len(u))
      <4>1. i = Len(w) - Len(u) + 1
        BY <1>2, <1>4, <3>2
      <4> QED BY <2>3, <4>1
    <3> QED BY <3>1, <3>2
  <2>5. \A i \in 1..(Len(w) - Len(u)) : i \in 1..(Len(w) - Len(Tail(u)))
    BY <1>2, <1>4
  <2> QED BY <2>1, <2>2, <2>3, <2>4, <2>5
<1>7. \A other \in Source \ {s} : Enqueued(other)' = Enqueued(other)
  BY <1>3 DEF Enqueued
<1> QED BY <1>2, <1>3, <1>5, <1>6, <1>7 DEF u

-----------------------------------------------------------------------------
\* The heap of a replay.

\* The top of the heap is one of its entries, and no event at the head of another
\* file is earlier.
LEMMA EarliestIsLeast ==
    ASSUME DaemonTypes, HeapHolds, ~ Live, heap # <<>>
    PROVE  /\ Earliest \in 1..Len(heap)
           /\ \A i \in 1..Len(heap) :
                observed_at[Head(unread[heap[Earliest]])] <= observed_at[Head(unread[heap[i]])]
<1> DEFINE time(i) == observed_at[Head(unread[heap[i]])]
           first(i) == \A j \in 1..Len(heap) : time(i) < time(j) \/ (time(i) = time(j) /\ i <= j)
<1>1. /\ heap \in Seq(Source) /\ Len(heap) \in Nat /\ Len(heap) > 0 /\ DOMAIN heap = 1..Len(heap)
      /\ unread \in [Source -> Seq(Event)] /\ observed_at \in [Event -> Int]
  BY LenProperties, EmptySeq, DaemonAssumption DEF DaemonTypes
<1>2. ASSUME NEW i \in 1..Len(heap) PROVE time(i) \in Int
  <2>1. heap[i] \in Source /\ heap[i] \in ToSet(heap)
    BY <1>1, ElementOfSeq DEF ToSet
  <2>2. unread[heap[i]] \in Seq(Event) /\ unread[heap[i]] # <<>>
    BY <1>1, <2>1 DEF HeapHolds
  <2>3. Head(unread[heap[i]]) \in Event
    BY <2>2, HeadTailProperties
  <2> QED BY <1>1, <2>3
<1>3. \E i \in 1..Len(heap) : first(i)
  <2> DEFINE t == [i \in 1..Len(heap) |-> time(i)]
  <2>1. t \in [1..Len(heap) -> Int]
    BY <1>2
  <2>2. \A i \in 1..Len(heap) : t[i] = time(i)
    OBVIOUS
  <2> HIDE DEF t
  <2>3. \E i \in 1..Len(heap) : \A j \in 1..Len(heap) : t[i] < t[j] \/ (t[i] = t[j] /\ i <= j)
    BY <1>1, <2>1, FirstLeast
  <2> QED BY <2>2, <2>3
<1>4. Earliest = CHOOSE i \in 1..Len(heap) : first(i)
  BY <1>1 DEF Earliest
<1>5. Earliest \in 1..Len(heap) /\ first(Earliest)
  <2> HIDE DEF first
  <2> QED BY <1>3, <1>4
<1>6. ASSUME NEW i \in 1..Len(heap) PROVE time(Earliest) <= time(i)
  <2>1. time(Earliest) < time(i) \/ time(Earliest) = time(i)
    BY <1>5
  <2>2. time(Earliest) \in Int /\ time(i) \in Int
    BY <1>2, <1>5
  <2> HIDE DEF time
  <2> QED BY <2>1, <2>2
<1> QED BY <1>5, <1>6

\* Popping the top of the heap and pushing its file again, if more of it is left.
LEMMA ReplayHeap ==
    ASSUME DaemonTypes, HeapHolds, UnreadIsRest, ReplayPut
    PROVE  /\ heap[Earliest] \in Source /\ PutNext(heap[Earliest])
           /\ heap' \in Seq(Source)
           /\ IsInjective(heap')
           /\ \A s \in Source : unread'[s] # <<>> <=> s \in ToSet(heap')
<1> DEFINE s == heap[Earliest]
           rest == RemoveAt(heap, Earliest)
<1>1. /\ ~ Live /\ heap # <<>> /\ PutNext(s)
      /\ heap' = rest \o (IF Len(unread[s]) > 1 THEN <<s>> ELSE <<>>)
      /\ UNCHANGED <<runVars>>
  BY DEF ReplayPut
<1>2. /\ heap \in Seq(Source) /\ IsInjective(heap) /\ Earliest \in 1..Len(heap)
      /\ \A o \in Source : unread[o] # <<>> <=> o \in ToSet(heap)
  BY <1>1, EarliestIsLeast DEF DaemonTypes, HeapHolds
<1>3. s \in Source
  BY <1>2, ElementOfSeq
<1>4. /\ rest \in Seq(Source) /\ IsInjective(rest)
      /\ ToSet(rest) = ToSet(heap) \ {s}
  BY <1>2, RemovedElement
<1>5. /\ unread' \in [Source -> Seq(Event)]
      /\ Len(unread[s]) \in Nat /\ Len(unread[s]) > 0
      /\ Len(unread'[s]) = Len(unread[s]) - 1
      /\ \A o \in Source \ {s} : unread'[o] = unread[o]
  <2>1. UNCHANGED lines
    BY <1>1 DEF runVars, givenVars
  <2> HIDE DEF s
  <2> QED BY <1>1, <1>3, <2>1, ReadLine
<1> HIDE DEF s, rest
<1>6. CASE Len(unread[s]) > 1
  <2>1. heap' = Append(rest, s)
    BY <1>1, <1>3, <1>4, <1>6, AppendIsConcat
  <2>2. /\ heap' \in Seq(Source) /\ IsInjective(heap')
        /\ ToSet(heap') = ToSet(rest) \cup {s}
    BY <1>3, <1>4, <2>1, AddedElement
  <2>3. unread'[s] # <<>>
    BY <1>5, <1>6
  <2>4. \A o \in Source : unread'[o] # <<>> <=> o \in ToSet(heap')
    BY <1>2, <1>4, <1>5, <2>2, <2>3
  <2> QED BY <1>1, <1>3, <2>2, <2>4 DEF s
<1>7. CASE ~ (Len(unread[s]) > 1)
  <2>1. heap' = rest
    BY <1>1, <1>4, <1>7, ConcatEmptySeq
  <2>2. unread'[s] = <<>>
    <3>1. unread'[s] \in Seq(Event)
      BY <1>3, <1>5
    <3>2. Len(unread'[s]) <= 0
      BY <1>5, <1>7
    <3>3. unread'[s] # <<>> => Len(unread'[s]) \in Nat /\ Len(unread'[s]) > 0
      BY <3>1, EmptySeq
    <3> QED BY <3>2, <3>3
  <2>3. \A o \in Source : unread'[o] # <<>> <=> o \in ToSet(heap')
    BY <1>2, <1>4, <1>5, <2>1, <2>2
  <2> QED BY <1>1, <1>3, <1>4, <2>1, <2>3 DEF s
<1> QED BY <1>6, <1>7

-----------------------------------------------------------------------------
\* The parts of ControlInv, one lemma for each.

\* A live daemon's follower, or the replay, reads the next line of a source.
LEMMA SomeRead ==
    ASSUME ControlInv, (\E s \in Source : Follow(s)) \/ ReplayPut
    PROVE  /\ main = "running" /\ UNCHANGED <<givenVars, main, clean, follower, consumer, current>>
           /\ \E s \in Source : PutNext(s)
<1>1. DaemonTypes /\ UnreadIsRest /\ HeapHolds /\ TakenDown
  BY DEF ControlInv
<1>2. CASE \E s \in Source : Follow(s)
  BY <1>1, <1>2 DEF Follow, TakenDown, runVars, consumerVars
<1>3. CASE ReplayPut
  BY <1>1, <1>3, ReplayHeap DEF ReplayPut, runVars, consumerVars
<1> QED BY <1>2, <1>3

\* Every variable keeps its type.
LEMMA DaemonTypesStep ==
    ASSUME ControlInv, [DaemonNext]_daemonVars
    PROVE  DaemonTypes'
<1> USE DEF givenVars, runVars, sourceVars, ingestVars, consumerVars, outputVars, snapshotVars
<1>1. DaemonTypes /\ UnreadIsRest /\ HeapHolds /\ ConsumerHolds
  BY DEF ControlInv
<1>2. CASE RequestShutdown
  BY <1>1, <1>2 DEF RequestShutdown, DaemonTypes
<1>3. ASSUME NEW s \in Source, Follow(s) PROVE DaemonTypes'
  <2>1. PutNext(s) /\ UNCHANGED <<runVars, heap, follower, consumerVars, outputVars, snapshotVars>>
    BY <1>3 DEF Follow
  <2>2. unread' \in [Source -> Seq(Event)] /\ Head(unread[s]) \in Item
    BY <1>1, <2>1, ReadLine DEF Item
  <2>3. queue' \in Seq(Item) /\ Len(queue') <= QueueSize
    BY <1>1, <2>1, <2>2, PutItem DEF PutNext
  <2> QED BY <1>1, <2>1, <2>2, <2>3 DEF DaemonTypes, Item
<1>4. ASSUME NEW s \in Source, FollowerFails(s) PROVE DaemonTypes'
  BY <1>1, <1>4 DEF FollowerFails, DaemonTypes, FollowerState
<1>5. CASE TakeEvent
  <2>1. /\ queue # <<>> /\ Head(queue) # Stop
        /\ current' = Head(queue) /\ queue' = Tail(queue) /\ consumer' = "indexing"
        /\ UNCHANGED <<runVars, sourceVars, follower, outputVars, snapshotVars>>
    BY <1>5 DEF TakeEvent, Idle
  <2>2. Head(queue) \in Event /\ queue' \in Seq(Item) /\ Len(queue') <= QueueSize
    BY <1>1, <2>1, TakenItem DEF Item
  <2> QED BY <1>1, <2>1, <2>2 DEF DaemonTypes, Item, ConsumerState
<1>6. CASE TakeStopItem
  <2>1. /\ queue # <<>> /\ queue' = Tail(queue) /\ consumer' = "returned"
        /\ UNCHANGED <<runVars, sourceVars, follower, current, outputVars, snapshotVars>>
    BY <1>6 DEF TakeStopItem, Idle
  <2>2. queue' \in Seq(Item) /\ Len(queue') <= QueueSize
    BY <1>1, <2>1, TakenItem
  <2> QED BY <1>1, <2>1, <2>2 DEF DaemonTypes, Item, ConsumerState, TaskOver
<1>7. CASE IndexEvent \/ LookUp \/ ReportAlert
  BY <1>1, <1>7 DEF IndexEvent, LookUp, ReportAlert, DaemonTypes, ConsumerState
<1>8. CASE WriteEvent \/ PrintAlert \/ PrintFails
  <2>1. /\ printed' \subseteq Document
        /\ consumer' \in ConsumerState /\ current' \in Event \cup {None}
        /\ UNCHANGED <<runVars, sourceVars, follower, queue, json_open, snapshotVars>>
    <3>1. CASE WriteEvent
      <4>1. current \in Event
        BY <1>1, <3>1 DEF WriteEvent, ConsumerHolds, Busy, DaemonTypes
      <4> QED BY <1>1, <3>1, <4>1, DocumentKinds
            DEF WriteEvent, Release, DaemonTypes, ConsumerState
    <3>2. CASE PrintAlert
      <4>1. current \in Alarming
        BY <1>1, <3>2 DEF PrintAlert, ConsumerHolds
      <4> QED BY <1>1, <3>2, <4>1, DocumentKinds
            DEF PrintAlert, Release, DaemonTypes, ConsumerState
    <3>3. CASE PrintFails
      BY <1>1, <3>3 DEF PrintFails, Release, DaemonTypes, ConsumerState, TaskOver
    <3> QED BY <1>8, <3>1, <3>2, <3>3
  <2> QED BY <1>1, <2>1 DEF DaemonTypes
<1>9. CASE Snapshot
  <2>1. /\ printed' \subseteq Document /\ snapshot' \in SnapshotState
        /\ snapshots' \in 0..MaxSnapshots /\ (snapshot' = "writing" => snapshots' > 0)
        /\ UNCHANGED <<runVars, ingestVars, consumerVars, json_open>>
    <3>1. CASE EmitMetric
      <4>1. /\ snapshots' = snapshots + 1 /\ snapshots < MaxSnapshots /\ snapshot' = "writing"
            /\ UNCHANGED <<printed, json_open, runVars, ingestVars, consumerVars>>
        BY <3>1 DEF EmitMetric
      <4>2. snapshots' \in 0..MaxSnapshots /\ snapshots' > 0
        BY <1>1, <4>1, DaemonAssumption DEF DaemonTypes
      <4> QED BY <1>1, <4>1, <4>2 DEF DaemonTypes, SnapshotState
    <3>2. CASE PrintMetric
      <4>1. MetricDoc(snapshots) \in Document
        <5>1. snapshots \in 1..MaxSnapshots
          BY <1>1, <3>2, DaemonAssumption DEF PrintMetric, DaemonTypes
        <5> QED BY <5>1, DocumentKinds
      <4> QED BY <1>1, <3>2, <4>1 DEF PrintMetric, DaemonTypes, SnapshotState
    <3>3. CASE PrintMetricFails
      BY <1>1, <3>3 DEF PrintMetricFails, DaemonTypes, SnapshotState
    <3> QED BY <1>9, <3>1, <3>2, <3>3 DEF Snapshot
  <2> QED BY <1>1, <2>1 DEF DaemonTypes
<1>10. CASE ReplayPut
  <2>1. /\ PutNext(heap[Earliest]) /\ heap[Earliest] \in Source /\ heap' \in Seq(Source)
        /\ UNCHANGED <<runVars, follower, consumerVars, outputVars, snapshotVars>>
    BY <1>1, <1>10, ReplayHeap DEF ReplayPut
  <2>2. unread' \in [Source -> Seq(Event)] /\ Head(unread[heap[Earliest]]) \in Item
    BY <1>1, <2>1, ReadLine DEF Item
  <2>3. queue' \in Seq(Item) /\ Len(queue') <= QueueSize
    BY <1>1, <2>1, <2>2, PutItem DEF PutNext
  <2> QED BY <1>1, <2>1, <2>2, <2>3 DEF DaemonTypes, Item
<1>11. CASE LiveFailure \/ ReplayFails \/ DrainFails
  <2>1. Abandon
    BY <1>11 DEF LiveFailure, ReplayFails, DrainFails
  <2>2. /\ main' \in MainState /\ follower' \in [Source -> FollowerState]
        /\ consumer' \in ConsumerState /\ current' \in Event \cup {None}
        /\ UNCHANGED <<givenVars, shutdown, clean, sourceVars, queue, outputVars, snapshotVars>>
    BY <1>1, <2>1 DEF Abandon, CancelFollowers, Release, DaemonTypes, MainState,
        FollowerState, ConsumerState, TaskOver
  <2> QED BY <1>1, <2>2 DEF DaemonTypes
<1>12. CASE LiveShutdown
  BY <1>1, <1>12 DEF LiveShutdown, CancelFollowers, DaemonTypes, MainState, FollowerState
<1>13. CASE StopConsumer
  <2>1. /\ Put(Stop) /\ Stop \in Item /\ main' = "joining"
        /\ UNCHANGED <<givenVars, shutdown, clean, sourceVars, follower, consumerVars,
                       outputVars, snapshotVars>>
    BY <1>13 DEF StopConsumer, Item
  <2>2. queue' \in Seq(Item) /\ Len(queue') <= QueueSize
    BY <1>1, <2>1, PutItem
  <2> QED BY <1>1, <2>1, <2>2 DEF DaemonTypes, Item, MainState
<1>14. CASE ReplayEnds \/ DrainEnds \/ JoinConsumer \/ Closed
  BY <1>1, <1>14 DEF ReplayEnds, DrainEnds, JoinConsumer, Closed, DaemonTypes, MainState
<1>15. CASE EndSnapshots
  BY <1>1, <1>15 DEF EndSnapshots, DaemonTypes, MainState, SnapshotState
<1>16. CASE CloseOutputs \/ BulkWork \/ UNCHANGED daemonVars
  BY <1>1, <1>16 DEF CloseOutputs, BulkWork, daemonVars, DaemonTypes
<1> QED BY <1>2, <1>3, <1>4, <1>5, <1>6, <1>7, <1>8, <1>9, <1>10, <1>11, <1>12, <1>13,
           <1>14, <1>15, <1>16 DEF DaemonNext, Consume, Run

\* The count of unfinished items, one lemma for all that put and finish them.
LEMMA UnfinishedStep ==
    ASSUME ControlInv, [DaemonNext]_daemonVars
    PROVE  UnfinishedExact'
<1> USE DEF givenVars, runVars, sourceVars, ingestVars, consumerVars, outputVars, snapshotVars
<1>1. DaemonTypes /\ UnreadIsRest /\ UnfinishedExact /\ ConsumerHolds /\ CleanWay
  BY DEF ControlInv
<1>2. queue \in Seq(Item) /\ Len(queue) \in Nat
  BY <1>1, LenProperties DEF DaemonTypes, Item
<1>3. CASE (\E s \in Source : Follow(s)) \/ ReplayPut
  <2>1. PICK s \in Source : PutNext(s)
    BY <1>3, SomeRead
  <2>2. UNCHANGED <<lines, current>>
    BY <1>3, SomeRead
  <2>3. Head(unread[s]) \in Item /\ Put(Head(unread[s]))
    BY <1>1, <2>1, <2>2, ReadLine DEF PutNext, Item
  <2>4. Len(queue') = Len(queue) + 1 /\ unfinished' = unfinished + 1
    BY <1>1, <2>3, PutItem
  <2> QED BY <1>1, <1>2, <2>2, <2>4 DEF UnfinishedExact
<1>4. CASE StopConsumer
  <2>1. Put(Stop) /\ Stop \in Item /\ UNCHANGED current
    BY <1>4 DEF StopConsumer, Item
  <2>2. Len(queue') = Len(queue) + 1 /\ unfinished' = unfinished + 1
    BY <1>1, <2>1, PutItem
  <2> QED BY <1>1, <1>2, <2>1, <2>2 DEF UnfinishedExact
<1>5. CASE TakeEvent
  <2>1. /\ queue # <<>> /\ Head(queue) # Stop /\ consumer = "idle"
        /\ queue' = Tail(queue) /\ current' = Head(queue) /\ unfinished' = unfinished
    BY <1>5 DEF TakeEvent, Idle
  <2>2. Len(queue') = Len(queue) - 1 /\ Head(queue) \in Event
    BY <1>1, <2>1, TakenItem DEF Item
  <2>3. current = None /\ current' # None
    BY <1>1, <2>1, <2>2, DaemonAssumption DEF ConsumerHolds, Busy
  <2> QED BY <1>1, <1>2, <2>1, <2>2, <2>3 DEF UnfinishedExact
<1>6. CASE TakeStopItem
  <2>1. /\ queue # <<>> /\ queue' = Tail(queue) /\ unfinished' = unfinished - 1
        /\ UNCHANGED current
    BY <1>6 DEF TakeStopItem, Idle
  <2>2. Len(queue') = Len(queue) - 1
    BY <1>1, <2>1, TakenItem
  <2>3. CASE current = None
    BY <1>1, <1>2, <2>1, <2>2, <2>3 DEF UnfinishedExact
  <2>4. CASE current # None
    BY <1>1, <1>2, <2>1, <2>2, <2>4 DEF UnfinishedExact
  <2> QED BY <2>3, <2>4
<1>7. CASE WriteEvent \/ PrintAlert \/ PrintFails
  <2>1. current # None /\ UNCHANGED queue
    BY <1>1, <1>7 DEF WriteEvent, PrintAlert, PrintFails, ConsumerHolds, Busy
  <2>2. \/ unfinished' = unfinished /\ current' = current
        \/ unfinished' = unfinished - 1 /\ current' = None
    BY <1>7 DEF WriteEvent, PrintAlert, PrintFails, Release
  <2> QED BY <1>1, <1>2, <2>1, <2>2 DEF UnfinishedExact
<1>8. CASE LiveFailure \/ ReplayFails \/ DrainFails
  <2>1. \/ unfinished' = unfinished /\ current' = current
        \/ current # None /\ unfinished' = unfinished - 1 /\ current' = None
    BY <1>8 DEF LiveFailure, ReplayFails, DrainFails, Abandon, Release
  <2>2. UNCHANGED queue
    BY <1>8 DEF LiveFailure, ReplayFails, DrainFails, Abandon
  <2> QED BY <1>1, <1>2, <2>1, <2>2 DEF UnfinishedExact
<1>9. CASE RequestShutdown \/ (\E s \in Source : FollowerFails(s)) \/ IndexEvent \/ LookUp
            \/ ReportAlert \/ Snapshot \/ LiveShutdown \/ ReplayEnds \/ DrainEnds \/ JoinConsumer
            \/ EndSnapshots \/ CloseOutputs \/ Closed \/ BulkWork \/ UNCHANGED daemonVars
  <2>1. UNCHANGED <<queue, unfinished, current>>
    BY <1>9 DEF RequestShutdown, FollowerFails, IndexEvent, LookUp, ReportAlert, Snapshot,
        EmitMetric, PrintMetric, PrintMetricFails, LiveShutdown, ReplayEnds, DrainEnds,
        JoinConsumer, EndSnapshots, CloseOutputs, Closed, BulkWork, daemonVars
  <2> QED BY <1>1, <2>1 DEF UnfinishedExact
<1> QED BY <1>3, <1>4, <1>5, <1>6, <1>7, <1>8, <1>9 DEF DaemonNext, Consume, Run

\* What the consumer holds follows its state.
LEMMA ConsumerStep ==
    ASSUME ControlInv, [DaemonNext]_daemonVars
    PROVE  ConsumerHolds'
<1> USE DEF givenVars, runVars, sourceVars, ingestVars, consumerVars, outputVars, snapshotVars
<1>1. DaemonTypes /\ ConsumerHolds
  BY DEF ControlInv
<1>2. CASE (\E s \in Source : Follow(s)) \/ ReplayPut
  <2>1. UNCHANGED <<consumer, current>>
    BY <1>2, SomeRead
  <2> QED BY <1>1, <2>1 DEF ConsumerHolds, Busy
<1>3. CASE TakeEvent
  <2>1. /\ queue # <<>> /\ Head(queue) # Stop /\ queue' = Tail(queue)
        /\ current' = Head(queue) /\ consumer' = "indexing"
    BY <1>3 DEF TakeEvent, Idle
  <2>2. Head(queue) \in Event
    BY <1>1, <2>1, TakenItem DEF Item
  <2> QED BY <2>1, <2>2, DaemonAssumption DEF ConsumerHolds, Busy
<1>4. CASE TakeStopItem \/ IndexEvent \/ WriteEvent \/ LookUp \/ ReportAlert \/ PrintAlert
            \/ PrintFails
  BY <1>1, <1>4 DEF TakeStopItem, Idle, IndexEvent, WriteEvent, LookUp, ReportAlert,
        PrintAlert, PrintFails, Release, ConsumerHolds, Busy
<1>5. CASE LiveFailure \/ ReplayFails \/ DrainFails
  BY <1>1, <1>5 DEF LiveFailure, ReplayFails, DrainFails, Abandon, Release, ConsumerHolds, Busy
<1>6. CASE RequestShutdown \/ (\E s \in Source : FollowerFails(s)) \/ Snapshot \/ LiveShutdown
            \/ ReplayEnds \/ DrainEnds \/ StopConsumer \/ JoinConsumer \/ EndSnapshots
            \/ CloseOutputs \/ Closed \/ BulkWork \/ UNCHANGED daemonVars
  <2>1. UNCHANGED <<consumer, current>>
    BY <1>6 DEF RequestShutdown, FollowerFails, Snapshot, EmitMetric, PrintMetric,
        PrintMetricFails, LiveShutdown, ReplayEnds, DrainEnds, StopConsumer, JoinConsumer,
        EndSnapshots, CloseOutputs, Closed, BulkWork, daemonVars
  <2> QED BY <1>1, <2>1 DEF ConsumerHolds, Busy
<1> QED BY <1>2, <1>3, <1>4, <1>5, <1>6 DEF DaemonNext, Consume, Run

\* The order of the shutdown.
LEMMA TakenDownStep ==
    ASSUME ControlInv, [DaemonNext]_daemonVars
    PROVE  TakenDown'
<1> USE DEF givenVars, runVars, sourceVars, ingestVars, consumerVars, outputVars, snapshotVars
<1>1. DaemonTypes /\ ConsumerHolds /\ TakenDown /\ CleanWay
  BY DEF ControlInv
<1>2. CASE (\E s \in Source : Follow(s)) \/ ReplayPut
  <2>1. UNCHANGED <<settings, main, follower, consumer, closing, snapshot>>
    BY <1>2, SomeRead DEF Follow, ReplayPut, sinkVars
  <2> QED BY <1>1, <2>1 DEF TakenDown, Live
<1>3. ASSUME NEW s \in Source, FollowerFails(s) PROVE TakenDown'
  <2>1. /\ follower' = [follower EXCEPT ![s] = "failed"]
        /\ UNCHANGED <<settings, main, consumer, closing, snapshot>>
    BY <1>3 DEF FollowerFails, sinkVars
  <2>2. \A o \in Source : follower'[o] = "running" => follower[o] = "running"
    BY <1>1, <2>1 DEF DaemonTypes
  <2> QED BY <1>1, <2>1, <2>2 DEF TakenDown, Live
<1>4. CASE Consume
  <2>1. consumer \notin TaskOver /\ UNCHANGED <<settings, main, follower, snapshot>>
    BY <1>4 DEF Consume, TakeEvent, TakeStopItem, Idle, IndexEvent, WriteEvent, LookUp,
        ReportAlert, PrintAlert, PrintFails, TaskOver
  <2>2. closing' = closing
    <3>1. CASE IndexEvent \/ ReportAlert
      BY <3>1 DEF IndexEvent, ReportAlert, Index, Emit, sinkVars
    <3>2. CASE ~ (IndexEvent \/ ReportAlert)
      BY <1>4, <3>2 DEF Consume, TakeEvent, TakeStopItem, WriteEvent, LookUp, PrintAlert,
            PrintFails, sinkVars
    <3> QED BY <3>1, <3>2
  <2> QED BY <1>1, <2>1, <2>2 DEF TakenDown, Live
<1>5. CASE Snapshot
  <2>1. /\ snapshot \in {"sleeping", "writing"}
        /\ UNCHANGED <<settings, main, follower, consumer>>
    BY <1>5 DEF Snapshot, EmitMetric, PrintMetric, PrintMetricFails
  <2>2. closing' = closing
    BY <1>5 DEF Snapshot, EmitMetric, PrintMetric, PrintMetricFails, Index, Emit, sinkVars
  <2> QED BY <1>1, <2>1, <2>2 DEF TakenDown, Live
<1>6. CASE LiveFailure \/ ReplayFails \/ DrainFails
  <2>1. /\ main \in {"running", "draining"} /\ main' = "ending" /\ consumer' \in TaskOver
        /\ \A s \in Source : follower'[s] # "running"
        /\ UNCHANGED <<closing, snapshot>>
    BY <1>6 DEF LiveFailure, ReplayFails, DrainFails, Abandon, CancelFollowers, Release,
        TaskOver, sinkVars
  <2> QED BY <1>1, <2>1 DEF TakenDown
<1>7. CASE LiveShutdown
  <2>1. /\ main = "running" /\ main' = "draining"
        /\ \A s \in Source : follower'[s] # "running"
        /\ UNCHANGED <<consumer, closing, snapshot>>
    BY <1>7 DEF LiveShutdown, CancelFollowers, sinkVars
  <2> QED BY <1>1, <2>1 DEF TakenDown
<1>8. CASE ReplayEnds \/ DrainEnds \/ StopConsumer
  <2>1. /\ main = "running" => ~ Live
        /\ main \in {"running", "draining", "stopping"}
        /\ main' \in {"draining", "stopping", "joining"}
        /\ UNCHANGED <<follower, consumer, closing, snapshot>>
    BY <1>8 DEF ReplayEnds, DrainEnds, StopConsumer, sinkVars
  <2> QED BY <1>1, <2>1 DEF TakenDown
<1>9. CASE JoinConsumer
  <2>1. /\ main = "joining" /\ main' = "ending" /\ consumer = "returned"
        /\ UNCHANGED <<follower, consumer, closing, snapshot>>
    BY <1>9 DEF JoinConsumer, sinkVars
  <2> QED BY <1>1, <2>1 DEF TakenDown, TaskOver
<1>10. CASE EndSnapshots
  <2>1. /\ main = "ending" /\ main' = "closing" /\ snapshot' \notin {"sleeping", "writing"}
        /\ UNCHANGED <<follower, consumer>>
    BY <1>10 DEF EndSnapshots
  <2> QED BY <1>1, <2>1 DEF TakenDown
<1>11. CASE CloseOutputs \/ Closed
  <2>1. /\ main = "closing" /\ main' \in {"closing", "finished", "raised"}
        /\ UNCHANGED <<follower, consumer, snapshot>>
    BY <1>11 DEF CloseOutputs, Closed
  <2> QED BY <1>1, <2>1 DEF TakenDown
<1>12. CASE RequestShutdown \/ BulkWork \/ UNCHANGED daemonVars
  <2>1. UNCHANGED <<settings, main, follower, consumer, snapshot>>
    BY <1>12 DEF RequestShutdown, BulkWork, daemonVars
  <2>2. closing' = closing
    BY <1>12 DEF RequestShutdown, BulkWork, daemonVars, sinkVars, Work, TakeFirst, TakeStop,
        Fill, FillStop, StartFlush, AttemptSucceeds, AttemptFails, WriteDeadLetters,
        DeadLetterError
  <2> QED BY <1>1, <2>1, <2>2 DEF TakenDown, Live
<1> QED BY <1>2, <1>3, <1>4, <1>5, <1>6, <1>7, <1>8, <1>9, <1>10, <1>11, <1>12
        DEF DaemonNext, Run

\* A drained queue stays empty but for the marker, until the consumer takes that.
LEMMA CleanWayStep ==
    ASSUME ControlInv, [DaemonNext]_daemonVars
    PROVE  CleanWay'
<1> USE DEF givenVars, runVars, sourceVars, ingestVars, consumerVars, outputVars, snapshotVars
<1>1. DaemonTypes /\ UnfinishedExact /\ ConsumerHolds /\ TakenDown /\ CleanWay
  BY DEF ControlInv
<1>2. CASE (\E s \in Source : Follow(s)) \/ ReplayPut
  <2>1. main = "running" /\ UNCHANGED <<main, clean>>
    BY <1>2, SomeRead
  <2> QED BY <1>1, <2>1 DEF CleanWay
<1>3. CASE TakeStopItem
  <2>1. /\ consumer = "idle" /\ queue # <<>> /\ queue' = Tail(queue) /\ consumer' = "returned"
        /\ UNCHANGED <<main, clean>>
    BY <1>3 DEF TakeStopItem, Idle
  <2>2. Tail(<<Stop>>) = <<>>
    OBVIOUS
  <2>3. main \notin {"ending", "closing", "finished", "raised"}
    BY <1>1, <2>1 DEF TakenDown, TaskOver
  <2> QED BY <1>1, <2>1, <2>2, <2>3 DEF CleanWay
<1>4. CASE TakeEvent
  <2>1. /\ consumer = "idle" /\ queue # <<>> /\ Head(queue) # Stop
        /\ UNCHANGED <<main, clean>>
    BY <1>4 DEF TakeEvent, Idle
  <2>2. main \in {"running", "draining"}
    <3>1. Head(<<Stop>>) = Stop
      OBVIOUS
    <3> QED BY <1>1, <2>1, <3>1 DEF CleanWay, TakenDown, TaskOver, DaemonTypes, MainState
  <2> QED BY <1>1, <2>1, <2>2 DEF CleanWay
<1>5. CASE IndexEvent \/ WriteEvent \/ LookUp \/ ReportAlert \/ PrintAlert \/ PrintFails
  <2>1. Busy /\ UNCHANGED <<main, clean, queue>>
    BY <1>5 DEF IndexEvent, WriteEvent, LookUp, ReportAlert, PrintAlert, PrintFails, Busy
  <2>2. main \in {"running", "draining"}
    BY <1>1, <2>1 DEF CleanWay, TakenDown, TaskOver, Busy, DaemonTypes, MainState
  <2> QED BY <1>1, <2>1, <2>2 DEF CleanWay
<1>6. CASE LiveFailure \/ ReplayFails \/ DrainFails
  <2>1. main \in {"running", "draining"} /\ main' = "ending" /\ clean' = clean
    BY <1>6 DEF LiveFailure, ReplayFails, DrainFails, Abandon
  <2> QED BY <1>1, <2>1 DEF CleanWay
<1>7. CASE LiveShutdown \/ ReplayEnds
  <2>1. main = "running" /\ main' = "draining" /\ clean' = clean
    BY <1>7 DEF LiveShutdown, ReplayEnds
  <2> QED BY <1>1, <2>1 DEF CleanWay
<1>8. CASE DrainEnds
  <2>1. /\ unfinished = 0 /\ consumer \notin TaskOver /\ clean' = TRUE /\ main' = "stopping"
        /\ UNCHANGED <<queue, consumer>>
    BY <1>8 DEF DrainEnds, Drained
  <2>2. queue = <<>> /\ current = None
    <3>1. queue \in Seq(Item) /\ Len(queue) \in Nat
      BY <1>1, LenProperties DEF DaemonTypes, Item
    <3>2. current = None /\ ~ (Len(queue) > 0)
      BY <1>1, <2>1, <3>1 DEF UnfinishedExact
    <3> QED BY <3>1, <3>2, EmptySeq
  <2>3. consumer = "idle"
    BY <1>1, <2>1, <2>2 DEF ConsumerHolds, Busy, DaemonTypes, ConsumerState
  <2> QED BY <2>1, <2>2, <2>3 DEF CleanWay
<1>9. CASE StopConsumer
  <2>1. /\ main = "stopping" /\ main' = "joining" /\ queue' = Append(queue, Stop)
        /\ UNCHANGED <<clean, consumer>>
    BY <1>9 DEF StopConsumer, Put
  <2>2. Append(<<>>, Stop) = <<Stop>>
    OBVIOUS
  <2> QED BY <1>1, <2>1, <2>2 DEF CleanWay
<1>10. CASE JoinConsumer
  <2>1. /\ main = "joining" /\ main' = "ending" /\ consumer = "returned"
        /\ UNCHANGED <<clean, consumer, queue>>
    BY <1>10 DEF JoinConsumer
  <2> QED BY <1>1, <2>1 DEF CleanWay
<1>11. CASE EndSnapshots \/ CloseOutputs
  <2>1. /\ main \in {"ending", "closing"} /\ main' = "closing"
        /\ UNCHANGED <<clean, consumer, queue>>
    BY <1>11 DEF EndSnapshots, CloseOutputs
  <2> QED BY <1>1, <2>1 DEF CleanWay
<1>12. CASE Closed
  <2>1. /\ main = "closing" /\ closing \in {"closed", "raised"} /\ closing' = closing
        /\ json_open' = (closing = "raised")
        /\ main' = IF clean /\ closing = "closed" THEN "finished" ELSE "raised"
        /\ UNCHANGED <<clean, consumer, queue>>
    BY <1>12 DEF Closed, sinkVars
  <2> QED BY <1>1, <2>1 DEF CleanWay
<1>13. CASE RequestShutdown \/ (\E s \in Source : FollowerFails(s)) \/ Snapshot \/ BulkWork
            \/ UNCHANGED daemonVars
  <2>1. UNCHANGED <<main, clean, queue, consumer, json_open>>
    BY <1>13 DEF RequestShutdown, FollowerFails, Snapshot, EmitMetric, PrintMetric,
        PrintMetricFails, BulkWork, daemonVars
  <2>2. closing' = closing
    BY <1>13 DEF RequestShutdown, FollowerFails, Snapshot, EmitMetric, PrintMetric,
        PrintMetricFails, Index, Emit, BulkWork, daemonVars, sinkVars, Work, TakeFirst,
        TakeStop, Fill, FillStop, StartFlush, AttemptSucceeds, AttemptFails,
        WriteDeadLetters, DeadLetterError
  <2> QED BY <1>1, <2>1, <2>2 DEF CleanWay
<1> QED BY <1>2, <1>3, <1>4, <1>5, <1>6, <1>7, <1>8, <1>9, <1>10, <1>11, <1>12, <1>13
        DEF DaemonNext, Consume, Run

\* Only the two producers read, and only the replay touches the heap.
LEMMA ReadingFrame ==
    ASSUME [DaemonNext]_daemonVars, ~ ((\E s \in Source : Follow(s)) \/ ReplayPut)
    PROVE  UNCHANGED <<settings, lines, observed_at, unread, heap>>
<1> USE DEF givenVars, runVars, sourceVars, ingestVars
<1>1. CASE RequestShutdown \/ \E s \in Source : FollowerFails(s)
  BY <1>1 DEF RequestShutdown, FollowerFails
<1>2. CASE Consume \/ Snapshot
  BY <1>2 DEF Consume, TakeEvent, TakeStopItem, IndexEvent, WriteEvent, LookUp, ReportAlert,
        PrintAlert, PrintFails, Snapshot, EmitMetric, PrintMetric, PrintMetricFails
<1>3. CASE LiveShutdown \/ LiveFailure \/ ReplayEnds \/ ReplayFails \/ DrainEnds \/ DrainFails
            \/ StopConsumer \/ JoinConsumer \/ EndSnapshots \/ CloseOutputs \/ Closed
  BY <1>3 DEF LiveShutdown, LiveFailure, ReplayEnds, ReplayFails, DrainEnds, DrainFails,
        StopConsumer, JoinConsumer, EndSnapshots, CloseOutputs, Closed, Abandon
<1>4. CASE BulkWork \/ UNCHANGED daemonVars
  BY <1>4 DEF BulkWork, daemonVars
<1> QED BY <1>1, <1>2, <1>3, <1>4 DEF DaemonNext, Run

\* What is to be read, and the heap.
LEMMA ReadingStep ==
    ASSUME ControlInv, [DaemonNext]_daemonVars
    PROVE  UnreadIsRest' /\ HeapHolds'
<1> USE DEF givenVars, runVars, sourceVars, ingestVars
<1>1. DaemonTypes /\ UnreadIsRest /\ HeapHolds /\ TakenDown /\ CleanWay
  BY DEF ControlInv
<1>2. CASE \E s \in Source : Follow(s)
  <2>1. PICK s \in Source : Follow(s)
    BY <1>2
  <2>2. PutNext(s) /\ UNCHANGED <<lines, settings, heap>> /\ follower[s] = "running"
    BY <2>1 DEF Follow
  <2>3. UnreadIsRest'
    BY <1>1, <2>2, ReadLine
  <2>4. Live
    BY <1>1, <2>2 DEF TakenDown
  <2>5. HeapHolds'
    BY <1>1, <2>2, <2>4 DEF HeapHolds, Live
  <2> QED BY <2>3, <2>5
<1>3. CASE ReplayPut
  <2>1. /\ heap[Earliest] \in Source /\ PutNext(heap[Earliest])
        /\ IsInjective(heap')
        /\ \A s \in Source : unread'[s] # <<>> <=> s \in ToSet(heap')
    BY <1>1, <1>3, ReplayHeap
  <2>2. main = "running" /\ UNCHANGED <<lines, settings, main, clean>>
    BY <1>3 DEF ReplayPut
  <2>3. UnreadIsRest'
    BY <1>1, <2>1, <2>2, ReadLine
  <2>4. HeapHolds'
    BY <1>1, <2>1, <2>2 DEF HeapHolds, Live, CleanWay
  <2> QED BY <2>3, <2>4
<1>4. CASE ~ ((\E s \in Source : Follow(s)) \/ ReplayPut)
  <2>1. UNCHANGED <<settings, lines, observed_at, unread, heap>>
    BY <1>4, ReadingFrame
  <2>2. UnreadIsRest'
    BY <1>1, <2>1 DEF UnreadIsRest
  <2>3. ~ Live /\ (main' = "draining" \/ clean') => \A s \in Source : unread[s] = <<>>
    <3>1. CASE ReplayEnds
      BY <1>1, <3>1 DEF ReplayEnds, HeapHolds, ToSet
    <3>2. CASE DrainEnds
      BY <1>1, <3>2 DEF DrainEnds, HeapHolds
    <3>3. CASE LiveShutdown
      BY <3>3 DEF LiveShutdown
    <3>4. CASE ~ (ReplayEnds \/ DrainEnds \/ LiveShutdown)
      <4>1. clean' = clean /\ (main' = "draining" => main = "draining")
        <5>1. CASE RequestShutdown \/ \E s \in Source : FollowerFails(s)
          BY <5>1 DEF RequestShutdown, FollowerFails
        <5>2. CASE Consume \/ Snapshot
          BY <5>2 DEF Consume, TakeEvent, TakeStopItem, IndexEvent, WriteEvent, LookUp,
                ReportAlert, PrintAlert, PrintFails, Snapshot, EmitMetric, PrintMetric,
                PrintMetricFails
        <5>3. CASE LiveFailure \/ ReplayFails \/ DrainFails \/ StopConsumer \/ JoinConsumer
                    \/ EndSnapshots \/ CloseOutputs \/ Closed
          BY <5>3 DEF LiveFailure, ReplayFails, DrainFails, StopConsumer, JoinConsumer,
                EndSnapshots, CloseOutputs, Closed, Abandon
        <5>4. CASE BulkWork \/ UNCHANGED daemonVars
          BY <5>4 DEF BulkWork, daemonVars
        <5> QED BY <1>4, <3>4, <5>1, <5>2, <5>3, <5>4 DEF DaemonNext, Run
      <4> QED BY <1>1, <4>1 DEF HeapHolds
    <3> QED BY <3>1, <3>2, <3>3, <3>4
  <2>4. HeapHolds'
    BY <1>1, <2>1, <2>3 DEF HeapHolds, Live
  <2> QED BY <2>2, <2>4
<1> QED BY <1>2, <1>3, <1>4

-----------------------------------------------------------------------------
\* ControlInv is inductive.

\* A sequence of all elements of a finite set, each once, has them all.
LEMMA AllInSequence ==
    ASSUME NEW S, IsFiniteSet(S), NEW q \in SetToSeqs(S)
    PROVE  q \in Seq(S) /\ IsInjective(q) /\ ToSet(q) = S
<1> DEFINE n == Cardinality(S)
<1>1. n \in Nat
  BY FS_CardinalityType
<1>2. q \in [1..n -> S] /\ \A i, j \in 1..n : i # j => q[i] # q[j]
  BY DEF SetToSeqs
<1> HIDE DEF n
<1>3. IsInjective(q) /\ q \in Injection(1..n, S)
  BY <1>2 DEF IsInjective, Injection
<1>4. q \in Seq(S)
  BY <1>1, <1>2, SeqDef
<1>5. Cardinality(1..n) = n
  <2>1. Cardinality(1..n) = IF 1 > n THEN 0 ELSE n - 1 + 1
    BY <1>1, FS_Interval
  <2> QED BY <1>1, <2>1
<1>6. q \in Surjection(1..n, S)
  BY <1>3, <1>5, FS_Injection DEF n
<1>7. ToSet(q) = S
  BY <1>2, <1>6 DEF Surjection, ToSet
<1> QED BY <1>3, <1>4, <1>7

\* The first state.
LEMMA ControlInit ==
    ASSUME DaemonInit
    PROVE  ControlInv
<1>1. SinkInv
  BY SinkInductive DEF DaemonInit
<1>2. settings \in Settings /\ lines \in Files /\ Files \subseteq [Source -> Seq(Event)]
      /\ lines \in [Source -> Seq(Event)]
  BY DaemonAssumption DEF DaemonInit
<1>3. /\ heap \in Seq(Source) /\ IsInjective(heap)
      /\ ~ Live => \A s \in Source : unread[s] # <<>> <=> s \in ToSet(heap)
  <2>1. CASE Live
    <3>1. heap = <<>>
      BY <2>1 DEF DaemonInit
    <3> QED BY <2>1, <3>1 DEF IsInjective
  <2>2. CASE ~ Live
    <3> DEFINE S == {s \in Source : lines[s] # <<>>}
    <3>1. heap \in SetToSeqs(S) /\ unread = lines
      BY <2>2 DEF DaemonInit
    <3>2. IsFiniteSet(S)
      BY FS_Subset, DaemonAssumption
    <3>3. heap \in Seq(S) /\ IsInjective(heap) /\ ToSet(heap) = S
      BY <3>1, <3>2, AllInSequence
    <3>4. heap \in Seq(Source)
      BY <3>3, SeqMonotonic
    <3> QED BY <3>1, <3>3, <3>4
  <2> QED BY <2>1, <2>2
<1>4. DaemonTypes
  <2>1. queue \in Seq(Event \cup {Stop}) /\ Len(queue) <= QueueSize
    BY DaemonAssumption DEF DaemonInit
  <2>2. settings.follow \in BOOLEAN /\ settings.metrics \in BOOLEAN
    BY <1>2, DaemonAssumption
  <2>3. 0 \in 0..MaxSnapshots
    BY DaemonAssumption
  <2> QED BY <1>2, <1>3, <2>1, <2>2, <2>3 DEF DaemonInit, DaemonTypes, MainState,
        FollowerState, ConsumerState, SnapshotState
<1>5. UnfinishedExact /\ ConsumerHolds /\ TakenDown /\ CleanWay
  BY DEF DaemonInit, SinkInit, UnfinishedExact, ConsumerHolds, Busy, TakenDown, CleanWay
<1>6. UnreadIsRest
  <2>1. unread = lines
    BY DEF DaemonInit
  <2>2. ASSUME NEW s \in Source
        PROVE  /\ Len(lines[s]) <= Len(lines[s])
               /\ \A i \in 1..Len(lines[s]) : i = Len(lines[s]) - Len(lines[s]) + i
    <3>1. Len(lines[s]) \in Nat
      BY <1>2, LenProperties
    <3> QED BY <3>1
  <2> QED BY <2>1, <2>2 DEF UnreadIsRest
<1>7. HeapHolds
  BY <1>3 DEF HeapHolds, DaemonInit
<1> QED BY <1>1, <1>4, <1>5, <1>6, <1>7 DEF ControlInv

\* Every step.
LEMMA ControlStep ==
    ASSUME ControlInv, [DaemonNext]_daemonVars
    PROVE  ControlInv'
<1>1. SinkInv'
  BY DaemonStepIsSinkStep, SinkInductive DEF ControlInv
<1> QED BY <1>1, DaemonTypesStep, UnfinishedStep, ConsumerStep, TakenDownStep, CleanWayStep,
        ReadingStep DEF ControlInv

\* Whatever the interleaving of producers, consumer, snapshots, worker and shutdown, the
\* variables keep their types and the ingest queue its bound, and the count that join
\* waits on is the number of items in the queue and in hand.
THEOREM DaemonTypeCorrect == DaemonSpec => [](DaemonTypeOK /\ UnfinishedExact)
<1>1. ControlInv => DaemonTypeOK /\ UnfinishedExact
  <2> SUFFICES ASSUME ControlInv PROVE DaemonTypeOK /\ UnfinishedExact
    OBVIOUS
  <2>1. DaemonTypes /\ SinkInv /\ UnfinishedExact /\ HeapHolds
    BY DEF ControlInv
  <2>2. ToSet(heap) \subseteq Source
    BY <2>1, ToSetType DEF DaemonTypes
  <2>3. unfinished \in Nat
    <3>1. Len(queue) \in Nat
      BY <2>1, LenProperties DEF DaemonTypes
    <3> QED BY <2>1, <3>1 DEF UnfinishedExact
  <2> QED BY <2>1, <2>2, <2>3 DEF DaemonTypeOK, DaemonTypes, SinkInv, HeapHolds
<1> QED BY <1>1, ControlInit, ControlStep, PTL DEF DaemonSpec

\* The daemon's sink implements Delivery, as the sink alone does: the tasks that share
\* it, and the order in which run takes them down, settle nothing twice or out of order.
THEOREM DaemonImplementsDelivery == DaemonSpec => Abstract!DeliverySafety
<1>1. DaemonInit => Abstract!DeliveryInit
  BY ConcatEmptySeq DEF DaemonInit, SinkInit, Abstract!DeliveryInit, Pending, Unsettled, Documents
<1>2. ControlInv /\ [DaemonNext]_daemonVars => [Abstract!DeliveryNext]_(Abstract!deliveryVars)
  BY DaemonStepIsSinkStep, SinkStepRefines DEF ControlInv
<1> QED BY <1>1, <1>2, ControlInit, ControlStep, PTL DEF DaemonSpec, Abstract!DeliverySafety

-----------------------------------------------------------------------------
\* No event is lost.

\* What has reached the outputs stays with them.
LEMMA OutputsGrow ==
    ASSUME ControlInv, [DaemonNext]_daemonVars
    PROVE  /\ UNCHANGED <<settings, lines, observed_at>>
           /\ Kept \subseteq Kept'
           /\ printed \subseteq printed'
           /\ \A e : Handled(e) => Handled(e)'
<1> USE DEF givenVars, runVars, sourceVars, ingestVars, consumerVars, outputVars, snapshotVars
<1>1. UNCHANGED <<settings, lines, observed_at>>
  <2>1. CASE (\E s \in Source : Follow(s)) \/ ReplayPut
    BY <2>1, SomeRead
  <2>2. CASE ~ ((\E s \in Source : Follow(s)) \/ ReplayPut)
    BY <2>2, ReadingFrame
  <2> QED BY <2>1, <2>2
<1>2. Kept \subseteq Kept'
  BY DaemonStepIsSinkStep, KeptGrows DEF ControlInv
<1>3. printed \subseteq printed'
  <2>1. CASE WriteEvent \/ PrintAlert \/ PrintMetric
    BY <2>1 DEF WriteEvent, PrintAlert, PrintMetric
  <2>2. CASE RequestShutdown \/ (\E s \in Source : Follow(s) \/ FollowerFails(s))
    BY <2>2 DEF RequestShutdown, Follow, FollowerFails
  <2>3. CASE TakeEvent \/ TakeStopItem \/ IndexEvent \/ LookUp \/ ReportAlert \/ PrintFails
                \/ EmitMetric \/ PrintMetricFails
    BY <2>3 DEF TakeEvent, TakeStopItem, IndexEvent, LookUp, ReportAlert, PrintFails,
        EmitMetric, PrintMetricFails
  <2>4. CASE LiveShutdown \/ LiveFailure \/ ReplayPut \/ ReplayEnds \/ ReplayFails
                \/ DrainEnds \/ DrainFails \/ StopConsumer \/ JoinConsumer
                \/ EndSnapshots \/ CloseOutputs \/ Closed
    BY <2>4 DEF LiveShutdown, LiveFailure, ReplayPut, ReplayEnds, ReplayFails, DrainEnds,
        DrainFails, StopConsumer, JoinConsumer, EndSnapshots, CloseOutputs, Closed, Abandon
  <2>5. CASE BulkWork \/ UNCHANGED daemonVars
    BY <2>5 DEF BulkWork, daemonVars
  <2> QED BY <2>1, <2>2, <2>3, <2>4, <2>5 DEF DaemonNext, Consume, Snapshot, Run
<1>4. ASSUME NEW e, Handled(e) PROVE Handled(e)'
  BY <1>1, <1>2, <1>3, <1>4 DEF Handled
<1> QED BY <1>1, <1>2, <1>3, <1>4

\* The steps after which the consumer is where it was, with what it held, and the queue
\* has lost nothing; or after which it is over with nothing done to an event.
LEMMA OthersLeaveConsumer ==
    ASSUME ControlInv, [DaemonNext]_daemonVars, ~ Consume
    PROVE  /\ UNCHANGED <<consumer, current>> \/ consumer' = "cancelled"
           /\ ToSet(queue) \subseteq ToSet(queue')
<1> USE DEF givenVars, runVars, sourceVars, ingestVars, consumerVars, outputVars, snapshotVars
<1>1. DaemonTypes /\ UnreadIsRest
  BY DEF ControlInv
<1>2. CASE (\E s \in Source : Follow(s)) \/ ReplayPut
  <2>1. PICK s \in Source : PutNext(s)
    BY <1>2, SomeRead
  <2>2. UNCHANGED <<lines, consumer, current>>
    BY <1>2, SomeRead
  <2>3. Head(unread[s]) \in Item /\ Put(Head(unread[s]))
    BY <1>1, <2>1, <2>2, ReadLine DEF PutNext, Item
  <2> QED BY <1>1, <2>2, <2>3, PutItem
<1>3. CASE StopConsumer
  <2>1. Put(Stop) /\ Stop \in Item /\ UNCHANGED <<consumer, current>>
    BY <1>3 DEF StopConsumer, Item
  <2> QED BY <1>1, <2>1, PutItem
<1>4. CASE LiveFailure \/ ReplayFails \/ DrainFails
  BY <1>4 DEF LiveFailure, ReplayFails, DrainFails, Abandon, Release
<1>5. CASE RequestShutdown \/ (\E s \in Source : FollowerFails(s)) \/ Snapshot \/ BulkWork
            \/ UNCHANGED daemonVars
  BY <1>5 DEF RequestShutdown, FollowerFails, Snapshot, EmitMetric, PrintMetric,
        PrintMetricFails, BulkWork, daemonVars
<1>6. CASE LiveShutdown \/ ReplayEnds \/ DrainEnds \/ JoinConsumer \/ EndSnapshots
            \/ CloseOutputs \/ Closed
  BY <1>6 DEF LiveShutdown, ReplayEnds, DrainEnds, JoinConsumer, EndSnapshots,
        CloseOutputs, Closed
<1> QED BY <1>2, <1>3, <1>4, <1>5, <1>6 DEF DaemonNext, Run

\* Emitting a document of the event in hand.
LEMMA IndexKeeps ==
    ASSUME ControlInv, settings.opensearch
    PROVE  /\ IndexEvent => EventDoc(current) \in Kept'
           /\ ReportAlert => AlertDoc(current) \in Kept'
<1>1. SinkInv /\ DaemonTypes /\ ConsumerHolds
  BY DEF ControlInv
<1>2. ASSUME IndexEvent PROVE EventDoc(current) \in Kept'
  <2>1. consumer = "indexing" /\ Emit(EventDoc(current))
    BY <1>2 DEF IndexEvent, Index
  <2>2. closing = "open" /\ current \in Event
    BY <1>1, <2>1, EmittersBeforeClose DEF Busy, ConsumerHolds, DaemonTypes
  <2>3. EventDoc(current) \in Document
    BY <2>2, DocumentKinds
  <2> QED BY <1>1, <2>1, <2>2, <2>3, EmitKeeps
<1>3. ASSUME ReportAlert PROVE AlertDoc(current) \in Kept'
  <2>1. consumer = "reporting" /\ Emit(AlertDoc(current))
    BY <1>3 DEF ReportAlert, Index
  <2>2. closing = "open" /\ current \in Alarming
    BY <1>1, <2>1, EmittersBeforeClose DEF Busy, ConsumerHolds
  <2>3. AlertDoc(current) \in Document
    BY <2>2, DocumentKinds
  <2> QED BY <1>1, <2>1, <2>2, <2>3, EmitKeeps
<1> QED BY <1>2, <1>3

\* How far the event in hand has come.
LEMMA InHandStep ==
    ASSUME ControlInv, InHand, [DaemonNext]_daemonVars
    PROVE  InHand'
<1>1. settings' = settings /\ Kept \subseteq Kept' /\ printed \subseteq printed'
  BY OutputsGrow
<1>2. CASE ~ Consume
  BY <1>1, <1>2, OthersLeaveConsumer DEF InHand
<1>3. CASE IndexEvent
  BY <1>1, <1>3, IndexKeeps DEF IndexEvent, InHand
<1>4. CASE ReportAlert
  BY <1>1, <1>4, IndexKeeps DEF ReportAlert, InHand
<1>5. CASE LookUp
  BY <1>1, <1>5 DEF LookUp, InHand, consumerVars
<1>6. CASE WriteEvent
  BY <1>1, <1>6 DEF WriteEvent, Release, InHand
<1>7. CASE TakeEvent \/ TakeStopItem \/ PrintAlert \/ PrintFails
  <2>1. consumer' \in {"indexing", "returned", "idle", "failed"}
    BY <1>7 DEF TakeEvent, TakeStopItem, PrintAlert, PrintFails, Release
  <2> QED BY <2>1 DEF InHand
<1> QED BY <1>2, <1>3, <1>4, <1>5, <1>6, <1>7 DEF Consume

\* Only a line that is read is put on the queue.
LEMMA EnqueuedStep ==
    ASSUME ControlInv, [DaemonNext]_daemonVars, NEW s \in Source, NEW e \in Enqueued(s)'
    PROVE  e \in Event /\ (e \in Enqueued(s) \/ e \in ToSet(queue'))
<1>1. DaemonTypes /\ UnreadIsRest /\ DaemonTypes' /\ UnreadIsRest'
  BY ControlStep DEF ControlInv
<1>2. e \in Event
  <2>1. /\ lines' \in [Source -> Seq(Event)] /\ unread' \in [Source -> Seq(Event)]
    BY <1>1, DaemonAssumption DEF DaemonTypes
  <2>2. PICK i \in 1..(Len(lines'[s]) - Len(unread'[s])) : e = lines'[s][i]
    BY DEF Enqueued
  <2>3. Len(lines'[s]) \in Nat /\ Len(unread'[s]) \in Nat
    BY <2>1, LenProperties
  <2>4. i \in 1..Len(lines'[s]) /\ lines'[s] \in Seq(Event)
    BY <2>1, <2>2, <2>3
  <2> QED BY <2>2, <2>4, ElementOfSeq
<1>3. CASE (\E o \in Source : Follow(o)) \/ ReplayPut
  <2>1. PICK o \in Source : PutNext(o)
    BY <1>3, SomeRead
  <2>2. UNCHANGED lines
    BY <1>3, SomeRead DEF givenVars
  <2>3. Head(unread[o]) \in Item /\ Put(Head(unread[o]))
    BY <1>1, <2>1, <2>2, ReadLine DEF PutNext, Item
  <2>4. Head(unread[o]) \in ToSet(queue')
    BY <1>1, <2>3, PutItem
  <2>5. e \in Enqueued(s) \/ e = Head(unread[o])
    BY <1>1, <2>1, <2>2, ReadLine
  <2> QED BY <1>2, <2>4, <2>5
<1>4. CASE ~ ((\E o \in Source : Follow(o)) \/ ReplayPut)
  <2>1. UNCHANGED <<lines, unread>>
    BY <1>4, ReadingFrame
  <2> QED BY <1>2, <2>1 DEF Enqueued
<1> QED BY <1>3, <1>4

\* Where every event that was put on the queue is.
LEMMA AccountedStep ==
    ASSUME ControlInv, InHand, Accounted, [DaemonNext]_daemonVars
    PROVE  Accounted'
<1> SUFFICES ASSUME NEW s \in Source, NEW e \in Enqueued(s)', consumer' # "cancelled"
             PROVE  \/ e \in ToSet(queue')
                    \/ e = current'
                    \/ consumer' # "failed" /\ Handled(e)'
                    \/ consumer' = "failed" /\ (settings.opensearch => EventDoc(e) \in Kept)'
  BY DEF Accounted
<1>1. /\ settings' = settings /\ Kept \subseteq Kept' /\ printed \subseteq printed'
      /\ Handled(e) => Handled(e)'
  BY OutputsGrow
<1>2. e \in Event /\ e # None /\ e # Stop
  BY EnqueuedStep, DaemonAssumption
<1>3. CASE e \in ToSet(queue')
  BY <1>3
<1>4. CASE e \notin ToSet(queue')
  <2>1. \/ consumer = "cancelled"
        \/ e \in ToSet(queue)
        \/ e = current
        \/ consumer # "failed" /\ Handled(e)
        \/ consumer = "failed" /\ (settings.opensearch => EventDoc(e) \in Kept)
    BY <1>4, EnqueuedStep DEF Accounted
  <2>2. DaemonTypes /\ ConsumerHolds
    BY DEF ControlInv
  <2>3. CASE ~ Consume
    BY <1>1, <1>4, <2>1, <2>3, OthersLeaveConsumer
  <2>4. CASE TakeEvent
    <3>1. /\ consumer = "idle" /\ consumer' = "indexing" /\ queue # <<>>
          /\ queue' = Tail(queue) /\ current' = Head(queue)
      BY <2>4 DEF TakeEvent, Idle
    <3>2. current = None
      BY <2>2, <3>1 DEF ConsumerHolds, Busy
    <3>3. ToSet(queue) = {Head(queue)} \cup ToSet(queue')
      BY <2>2, <3>1, TakenItem
    <3> QED BY <1>1, <1>2, <1>4, <2>1, <3>1, <3>2, <3>3
  <2>5. CASE TakeStopItem
    <3>1. /\ consumer = "idle" /\ consumer' = "returned" /\ queue # <<>>
          /\ queue' = Tail(queue) /\ Head(queue) = Stop /\ current' = current
      BY <2>5 DEF TakeStopItem, Idle
    <3>2. ToSet(queue) = {Head(queue)} \cup ToSet(queue')
      BY <2>2, <3>1, TakenItem
    <3> QED BY <1>1, <1>2, <1>4, <2>1, <3>1, <3>2
  <2>6. CASE IndexEvent \/ LookUp \/ ReportAlert
    <3>1. /\ consumer \notin {"cancelled", "failed"} /\ consumer' # "failed"
          /\ current' = current /\ queue' = queue
      BY <2>6 DEF IndexEvent, LookUp, ReportAlert, ingestVars
    <3> QED BY <1>1, <1>4, <2>1, <3>1
  <2>7. CASE WriteEvent
    <3>1. /\ consumer = "writing" /\ consumer' # "failed" /\ queue' = queue
          /\ printed' = IF settings.include_events THEN printed \cup {EventDoc(current)}
                        ELSE printed
          /\ current' = current \/ current \notin Alarming
      BY <2>7 DEF WriteEvent, Release
    <3>2. CASE e = current /\ current \notin Alarming
      <4>1. Handled(e)'
        BY <1>1, <3>1, <3>2 DEF Handled, InHand
      <4> QED BY <3>1, <4>1
    <3>3. CASE ~ (e = current /\ current \notin Alarming)
      BY <1>1, <1>4, <2>1, <3>1, <3>3
    <3> QED BY <3>2, <3>3
  <2>8. CASE PrintAlert
    <3>1. /\ consumer = "printing" /\ consumer' = "idle" /\ queue' = queue
          /\ printed' = printed \cup {AlertDoc(current)}
      BY <2>8 DEF PrintAlert, Release
    <3>2. CASE e = current
      <4>1. Handled(e)'
        BY <1>1, <3>1, <3>2 DEF Handled, InHand
      <4> QED BY <3>1, <4>1
    <3>3. CASE e # current
      BY <1>1, <1>4, <2>1, <3>1, <3>3
    <3> QED BY <3>2, <3>3
  <2>9. CASE PrintFails
    <3>1. /\ consumer \in {"printing", "writing"} /\ consumer' = "failed" /\ queue' = queue
      BY <2>9 DEF PrintFails, Release
    <3>2. settings.opensearch => EventDoc(e) \in Kept
      BY <1>4, <2>1, <3>1 DEF InHand, Handled
    <3>3. (settings.opensearch => EventDoc(e) \in Kept)'
      BY <1>1, <3>2
    <3> QED BY <3>1, <3>3
  <2> QED BY <2>3, <2>4, <2>5, <2>6, <2>7, <2>8, <2>9 DEF Consume
<1> QED BY <1>3, <1>4

\* DaemonInv is inductive.
LEMMA DaemonInductive ==
    /\ DaemonInit => DaemonInv
    /\ DaemonInv /\ [DaemonNext]_daemonVars => DaemonInv'
<1>1. ASSUME DaemonInit PROVE DaemonInv
  <2>1. ControlInv
    BY <1>1, ControlInit
  <2>2. InHand
    BY <1>1 DEF DaemonInit, InHand
  <2>3. ASSUME NEW s \in Source PROVE Enqueued(s) = {}
    <3>1. unread[s] = lines[s] /\ lines[s] \in Seq(Event)
      BY <1>1, <2>1, DaemonAssumption DEF DaemonInit
    <3>2. Len(lines[s]) \in Nat
      BY <3>1, LenProperties
    <3> QED BY <3>1, <3>2 DEF Enqueued
  <2>4. Accounted
    BY <2>3 DEF Accounted
  <2> QED BY <2>1, <2>2, <2>4 DEF DaemonInv
<1>2. ASSUME DaemonInv, [DaemonNext]_daemonVars PROVE DaemonInv'
  BY <1>2, ControlStep, InHandStep, AccountedStep DEF DaemonInv
<1> QED BY <1>1, <1>2

\* Every line that was read is an event.
LEMMA EnqueuedType ==
    ASSUME DaemonTypes, NEW s \in Source
    PROVE  Enqueued(s) \subseteq Event
<1>1. lines[s] \in Seq(Event) /\ unread[s] \in Seq(Event)
  BY DaemonAssumption DEF DaemonTypes
<1>2. Len(lines[s]) \in Nat /\ Len(unread[s]) \in Nat
  BY <1>1, LenProperties
<1>3. ASSUME NEW i \in 1..(Len(lines[s]) - Len(unread[s])) PROVE lines[s][i] \in Event
  <2>1. i \in 1..Len(lines[s])
    BY <1>2
  <2> QED BY <1>1, <2>1, ElementOfSeq
<1> QED BY <1>3 DEF Enqueued

\* An event that was put on the queue is in it, in hand, or in the outputs: no
\* interleaving of the tasks, the failures and the shutdown drops one, but for the
\* cancelled consumer and the failed write of the only sink.
THEOREM NoEventLost == DaemonSpec => []NothingLost
<1>1. DaemonInv => NothingLost
  <2> SUFFICES ASSUME DaemonInv,
                      consumer \notin {"cancelled"} \cup (IF settings.opensearch THEN {} ELSE {"failed"}),
                      NEW s \in Source, NEW e \in Enqueued(s),
                      e \notin ToSet(queue), e # current
               PROVE  IF settings.opensearch THEN EventDoc(e) \in Settled \cup ToSet(Pending)
                      ELSE /\ settings.include_events => EventDoc(e) \in printed
                           /\ e \in Alarming => AlertDoc(e) \in printed
    BY DEF NothingLost
  <2>1. \/ consumer # "failed" /\ Handled(e)
        \/ consumer = "failed" /\ (settings.opensearch => EventDoc(e) \in Kept)
    BY DEF DaemonInv, Accounted
  <2> QED BY <2>1 DEF Handled, Kept, Settled
<1> QED BY <1>1, DaemonInductive, PTL DEF DaemonSpec

\* run returns normally only after a drain, the stop marker and a close that flushed:
\* every event that was read and every alert is with each sink that takes it.
THEOREM CleanExitComplete == DaemonSpec => []CleanExit
<1>1. DaemonInv => CleanExit
  <2> SUFFICES ASSUME DaemonInv, main = "finished"
               PROVE  /\ \A s \in Source : \A e \in Enqueued(s) :
                            /\ settings.opensearch => EventDoc(e) \in Settled
                            /\ settings.include_events => EventDoc(e) \in printed
                            /\ e \in Alarming =>
                                    /\ AlertDoc(e) \in printed
                                    /\ settings.opensearch => AlertDoc(e) \in Settled
                      /\ consumer = "returned" /\ worker = "none" /\ queue = <<>> /\ ~ json_open
                      /\ ~ Live => \A s \in Source : unread[s] = <<>>
    BY DEF CleanExit
  <2>1. ControlInv /\ Accounted
    BY DEF DaemonInv
  <2>2. /\ DaemonTypes /\ SinkInv /\ CleanWay /\ HeapHolds /\ ConsumerHolds
    BY <2>1 DEF ControlInv
  <2>3. clean /\ closing = "closed" /\ ~ json_open /\ queue = <<>> /\ consumer = "returned"
    BY <2>2 DEF CleanWay
  <2>4. current = None
    BY <2>2, <2>3 DEF ConsumerHolds, Busy
  <2>5. bulk = <<>> /\ batch = <<>> /\ worker = "none"
    BY <2>2, <2>3 DEF SinkInv, CloseFlushes, WorkerHolds
  <2>6. Kept = Settled
    <3>1. Unsettled = <<>> /\ Documents(bulk) = <<>>
      BY <2>5 DEF Unsettled, Documents
    <3>2. Pending = <<>>
      BY <3>1, ConcatEmptySeq DEF Pending
    <3>3. ToSet(Pending) = {}
      BY <3>2 DEF ToSet
    <3> QED BY <3>3 DEF Kept, Settled
  <2>7. ASSUME NEW s \in Source, NEW e \in Enqueued(s) PROVE Handled(e)
    <3>1. e \in Event /\ e # None
      BY <2>2, EnqueuedType, DaemonAssumption
    <3>2. e \notin ToSet(queue)
      BY <2>3 DEF ToSet
    <3> QED BY <2>1, <2>3, <2>4, <3>1, <3>2 DEF Accounted
  <2>8. ~ Live => \A s \in Source : unread[s] = <<>>
    BY <2>2, <2>3 DEF HeapHolds
  <2> QED BY <2>3, <2>5, <2>6, <2>7, <2>8 DEF Handled
<1> QED BY <1>1, DaemonInductive, PTL DEF DaemonSpec

-----------------------------------------------------------------------------
\* The order of a replay.

\* A line that was not read yet lies at or after the next one to be read.
LEMMA NextUnread ==
    ASSUME DaemonTypes, UnreadIsRest, NEW s \in Source, NEW j \in DOMAIN lines[s],
           lines[s][j] \notin Enqueued(s)
    PROVE  unread[s] # <<>> /\ \E k \in 1..j : lines[s][k] = Head(unread[s])
<1> DEFINE u == unread[s]
           w == lines[s]
           k == Len(w) - Len(u) + 1
<1>1. u \in Seq(Event) /\ w \in Seq(Event)
  BY DaemonAssumption DEF DaemonTypes
<1>2. /\ Len(w) \in Nat /\ Len(u) \in Nat /\ DOMAIN w = 1..Len(w)
      /\ Len(u) <= Len(w) /\ \A i \in 1..Len(u) : u[i] = w[Len(w) - Len(u) + i]
  BY <1>1, LenProperties DEF UnreadIsRest
<1>3. j \in 1..Len(w) /\ j \notin 1..(Len(w) - Len(u))
  BY <1>2 DEF Enqueued
<1> HIDE DEF u, w
<1>4. k \in 1..j /\ 1 \in 1..Len(u)
  BY <1>2, <1>3
<1>5. u # <<>> /\ Head(u) = u[1]
  BY <1>1, <1>2, <1>4, EmptySeq, HeadTailProperties
<1>6. w[k] = Head(u)
  BY <1>2, <1>4, <1>5
<1> QED BY <1>4, <1>5, <1>6 DEF u, w

\* What a replay puts on the queue is no later than what any other file has next.
LEMMA ReplayStep ==
    ASSUME ControlInv, ReplayMerged, [DaemonNext]_daemonVars
    PROVE  ReplayMerged'
<1>1. DaemonTypes /\ UnreadIsRest /\ HeapHolds /\ TakenDown
  BY DEF ControlInv
<1>2. UNCHANGED <<settings, lines, observed_at>>
  BY OutputsGrow
<1>3. ASSUME NEW s \in Source, NEW other \in Source, NEW j \in DOMAIN lines[other],
             lines[other][j] \notin Enqueued(other),
             ~ Live, ReplayPut, s = heap[Earliest]
      PROVE  \E i \in 1..j : observed_at[lines[other][i]] >= observed_at[Head(unread[s])]
  <2>1. /\ heap # <<>> /\ heap \in Seq(Source) /\ s \in Source
        /\ unread[s] # <<>> /\ unread[other] # <<>>
        /\ observed_at \in [Event -> Int]
    BY <1>1, <1>3, ReplayHeap, NextUnread, DaemonAssumption DEF ReplayPut, PutNext, DaemonTypes
  <2>2. other \in ToSet(heap)
    BY <1>1, <1>3, <2>1 DEF HeapHolds
  <2>3. PICK i \in 1..Len(heap) : heap[i] = other
    BY <2>1, <2>2, LenProperties DEF ToSet
  <2>4. observed_at[Head(unread[s])] <= observed_at[Head(unread[other])]
    BY <1>1, <1>3, <2>1, <2>3, EarliestIsLeast
  <2>5. PICK k \in 1..j : lines[other][k] = Head(unread[other])
    BY <1>1, <1>3, NextUnread
  <2>6. Head(unread[s]) \in Event /\ Head(unread[other]) \in Event
    BY <1>1, <2>1, HeadTailProperties DEF DaemonTypes
  <2>7. observed_at[Head(unread[s])] \in Int /\ observed_at[Head(unread[other])] \in Int
    BY <2>1, <2>6
  <2> QED BY <2>4, <2>5, <2>7
<1>4. SUFFICES ASSUME ~ Live, NEW s \in Source, NEW other \in Source, NEW e \in Enqueued(s)',
                      NEW j \in DOMAIN lines[other], lines[other][j] \notin Enqueued(other)'
               PROVE  \E i \in 1..j : observed_at[lines[other][i]] >= observed_at[e]
  BY <1>2 DEF ReplayMerged, Live
<1>5. CASE ReplayPut
  <2>1. PICK top \in Source : top = heap[Earliest] /\ PutNext(top)
    BY <1>1, <1>5, ReplayHeap
  <2>2. /\ Enqueued(top)' = Enqueued(top) \cup {Head(unread[top])}
        /\ \A o \in Source \ {top} : Enqueued(o)' = Enqueued(o)
    BY <1>1, <1>2, <2>1, ReadLine
  <2>3. lines[other][j] \notin Enqueued(other)
    BY <1>4, <2>2
  <2>4. CASE e \in Enqueued(s)
    BY <1>4, <2>3, <2>4 DEF ReplayMerged
  <2>5. CASE e \notin Enqueued(s)
    <3>1. e = Head(unread[top])
      BY <2>2, <2>5
    <3> QED BY <1>3, <1>4, <1>5, <2>1, <2>3, <3>1
  <2> QED BY <2>4, <2>5
<1>6. CASE ~ ReplayPut
  <2>1. ~ \E o \in Source : Follow(o)
    BY <1>1, <1>4 DEF TakenDown, Follow
  <2>2. UNCHANGED unread
    BY <1>6, <2>1, ReadingFrame
  <2>3. \A o \in Source : Enqueued(o)' = Enqueued(o)
    BY <1>2, <2>2 DEF Enqueued
  <2> QED BY <1>4, <2>3 DEF ReplayMerged
<1> QED BY <1>5, <1>6

\* A replay merges its files by event time, whatever their number and contents and
\* however slow the consumer: of every other file it has come to an event at least as
\* late as each event it has put on the queue.
THEOREM ReplayIsMerge == DaemonSpec => []ReplayMerged
<1>1. DaemonInit => ReplayMerged
  <2>1. ASSUME DaemonInit, NEW s \in Source PROVE Enqueued(s) = {}
    <3>1. unread[s] = lines[s] /\ lines[s] \in Seq(Event)
      BY <2>1, DaemonAssumption DEF DaemonInit
    <3>2. Len(lines[s]) \in Nat
      BY <3>1, LenProperties
    <3> QED BY <3>1, <3>2 DEF Enqueued
  <2> QED BY <2>1 DEF ReplayMerged
<1> QED BY <1>1, ControlInit, ControlStep, ReplayStep, PTL DEF DaemonSpec

-----------------------------------------------------------------------------
\* The order of the outputs.

\* Every event is on one line of one file.
DistinctLines ==
    \A file \in Files : \A s, other \in Source :
        \A i \in DOMAIN file[s], j \in DOMAIN file[other] :
            file[s][i] = file[other][j] => s = other /\ i = j

\* How many lines of a file were read.
LinesRead(s) == Len(lines[s]) - Len(unread[s])

\* What is in the queue or in hand was read.
HeldRead ==
    \A s \in Source : \A j \in DOMAIN lines[s] :
        lines[s][j] \in ToSet(queue) \cup {current} => j <= LinesRead(s)

\* The events of a file are in the queue in the order of their lines.
QueueOrder ==
    \A s \in Source : \A i, j \in DOMAIN lines[s] : \A p, q \in 1..Len(queue) :
        i < j /\ queue[p] = lines[s][i] /\ queue[q] = lines[s][j] => p < q

\* No event before the one in hand is in the queue.
CurrentFirst ==
    \A s \in Source : \A i, j \in DOMAIN lines[s] :
        i < j /\ current = lines[s][j] => lines[s][i] \notin ToSet(queue)

LineOrder == HeldRead /\ QueueOrder /\ CurrentFirst

\* What InOrder asks for, as pairs of a document and one that comes after it.
DueWith(s, j) ==
    LET e == lines[s][j]
        alarms == {i \in 1..(j - 1) : lines[s][i] \in Alarming}
    IN  {<<EventDoc(e), AlertDoc(e)>>} \cup
        {<<EventDoc(lines[s][i]), EventDoc(e)>> : i \in 1..(j - 1)} \cup
        {<<AlertDoc(lines[s][i]), EventDoc(e)>> : i \in alarms}

Due == UNION {UNION {DueWith(s, j) : j \in DOMAIN lines[s]} : s \in Source}

OrderInv ==
    /\ DaemonInv
    /\ LineOrder
    /\ settings.include_events => InOrder(printed)
    /\ settings.opensearch => ClosedUnder(Due, Kept) /\ ClosedUnder(Due, SettledDocuments)
                                /\ PendingOrdered(Due)

\* The lines of a file are events.
LEMMA LineType ==
    ASSUME DaemonTypes, NEW s \in Source, NEW j \in DOMAIN lines[s]
    PROVE  /\ lines[s][j] \in Event /\ lines[s][j] # None /\ lines[s][j] # Stop
           /\ j \in Nat /\ LinesRead(s) \in Int
           /\ \A i \in 1..(j - 1) : i \in DOMAIN lines[s]
<1>1. lines[s] \in Seq(Event) /\ unread[s] \in Seq(Event)
  BY DaemonAssumption DEF DaemonTypes
<1>2. DOMAIN lines[s] = 1..Len(lines[s]) /\ Len(lines[s]) \in Nat /\ Len(unread[s]) \in Nat
  BY <1>1, LenProperties
<1>3. lines[s][j] \in Event
  BY <1>1, <1>2, ElementOfSeq
<1> QED BY <1>2, <1>3, DaemonAssumption DEF LinesRead

\* What a step does to the ingest queue and to what the consumer holds.
LEMMA QueueMoves ==
    ASSUME ControlInv, [DaemonNext]_daemonVars
    PROVE  /\ UNCHANGED lines
           /\ \/ UNCHANGED current /\ \E s \in Source : PutNext(s)
              \/ UNCHANGED <<unread, current>> /\ Put(Stop)
              \/ /\ queue # <<>> /\ queue' = Tail(queue) /\ UNCHANGED unread
                 /\ current' \in {current, Head(queue)}
              \/ UNCHANGED <<unread, queue>> /\ current' \in {current, None}
<1> USE DEF givenVars, runVars, sourceVars, ingestVars, consumerVars, outputVars, snapshotVars
<1>1. CASE (\E s \in Source : Follow(s)) \/ ReplayPut
  BY <1>1, SomeRead
<1>2. CASE ~ ((\E s \in Source : Follow(s)) \/ ReplayPut)
  <2>1. UNCHANGED <<lines, unread>>
    BY <1>2, ReadingFrame
  <2>2. CASE StopConsumer
    BY <2>1, <2>2 DEF StopConsumer
  <2>3. CASE TakeEvent \/ TakeStopItem
    BY <2>1, <2>3 DEF TakeEvent, TakeStopItem, Idle
  <2>4. CASE WriteEvent \/ PrintAlert \/ PrintFails
    BY <2>1, <2>4 DEF WriteEvent, PrintAlert, PrintFails, Release
  <2>5. CASE IndexEvent \/ LookUp \/ ReportAlert
    BY <2>1, <2>5 DEF IndexEvent, LookUp, ReportAlert
  <2>6. CASE LiveFailure \/ ReplayFails \/ DrainFails
    BY <2>1, <2>6 DEF LiveFailure, ReplayFails, DrainFails, Abandon, Release
  <2>7. CASE RequestShutdown \/ (\E s \in Source : FollowerFails(s)) \/ Snapshot \/ BulkWork
            \/ UNCHANGED daemonVars
    BY <2>1, <2>7 DEF RequestShutdown, FollowerFails, Snapshot, EmitMetric, PrintMetric,
        PrintMetricFails, BulkWork, daemonVars
  <2>8. CASE LiveShutdown \/ ReplayEnds \/ DrainEnds \/ JoinConsumer \/ EndSnapshots
            \/ CloseOutputs \/ Closed
    BY <2>1, <2>8 DEF LiveShutdown, ReplayEnds, DrainEnds, JoinConsumer, EndSnapshots,
        CloseOutputs, Closed
  <2> QED BY <1>2, <2>2, <2>3, <2>4, <2>5, <2>6, <2>7, <2>8 DEF DaemonNext, Consume, Run
<1> QED BY <1>1, <1>2

\* Reading the next line keeps the order: it comes after every line that was read.
LEMMA PutNextKeepsOrder ==
    ASSUME DistinctLines, ControlInv, LineOrder, NEW r \in Source, PutNext(r),
           UNCHANGED <<lines, current>>
    PROVE  LineOrder'
<1> DEFINE x == Head(unread[r])
           n == Len(queue)
<1>1. DaemonTypes /\ UnreadIsRest /\ HeldRead /\ QueueOrder /\ CurrentFirst
  BY DEF ControlInv, LineOrder
<1>2. lines \in Files
  BY <1>1 DEF DaemonTypes
<1>3. /\ x \in Event
      /\ LinesRead(r) \in Int
      /\ \A s \in Source : LinesRead(s)' = IF s = r THEN LinesRead(s) + 1 ELSE LinesRead(s)
  <2>1. lines[r] \in Seq(Event)
    BY <1>1, DaemonAssumption DEF DaemonTypes
  <2>2. Len(lines[r]) \in Nat
    BY <2>1, LenProperties
  <2>3. /\ x \in Event /\ Len(unread[r]) \in Nat /\ Len(unread'[r]) = Len(unread[r]) - 1
        /\ \A s \in Source \ {r} : unread'[s] = unread[s]
    BY <1>1, ReadLine
  <2>4. /\ LinesRead(r) \in Int
        /\ Len(lines[r]) - Len(unread'[r]) = Len(lines[r]) - Len(unread[r]) + 1
    BY <2>2, <2>3 DEF LinesRead
  <2> QED BY <2>3, <2>4 DEF LinesRead
<1>4. /\ queue \in Seq(Item) /\ queue' = Append(queue, x) /\ x \in Item
  BY <1>1, <1>3 DEF DaemonTypes, PutNext, Put, Item
<1>5. /\ n \in Nat /\ Len(queue') = n + 1 /\ queue'[n + 1] = x
      /\ \A p \in 1..n : queue'[p] = queue[p] /\ queue[p] \in ToSet(queue)
      /\ ToSet(queue') = ToSet(queue) \cup {x}
  <2>1. \A p \in 1..n : queue[p] \in ToSet(queue)
    BY <1>4, LenProperties DEF ToSet
  <2> QED BY <1>4, <2>1, AppendProperties, LenProperties, ToSetAppend
<1>6. PICK k \in DOMAIN lines[r] : x = lines[r][k] /\ k = LinesRead(r) + 1
  <2> DEFINE u == unread[r]
             w == lines[r]
             next == Len(w) - Len(u) + 1
  <2>1. w \in Seq(Event) /\ u \in Seq(Event) /\ u # <<>>
    BY DaemonAssumption, <1>1 DEF DaemonTypes, PutNext
  <2>2. Len(u) <= Len(w) /\ \A i \in 1..Len(u) : u[i] = w[Len(w) - Len(u) + i]
    BY <1>1 DEF UnreadIsRest
  <2> HIDE DEF u, w
  <2>3. /\ Len(w) \in Nat /\ Len(u) \in Nat /\ Len(u) > 0 /\ DOMAIN w = 1..Len(w)
        /\ Head(u) = u[1]
    BY <2>1, LenProperties, HeadTailProperties, EmptySeq
  <2>4. 1 \in 1..Len(u) /\ next \in 1..Len(w)
    BY <2>2, <2>3
  <2>5. Head(u) = w[next]
    BY <2>2, <2>3, <2>4
  <2>6. next = LinesRead(r) + 1
    BY DEF LinesRead, u, w
  <2> HIDE DEF next
  <2> QED BY <2>3, <2>4, <2>5, <2>6 DEF u, w
<1>7. ASSUME NEW s \in Source, NEW j \in DOMAIN lines[s], lines[s][j] = x PROVE s = r /\ j = k
  <2>1. lines[s][j] = lines[r][k]
    BY <1>6, <1>7
  <2>2. \A i \in DOMAIN lines[s], m \in DOMAIN lines[r] :
            lines[s][i] = lines[r][m] => s = r /\ i = m
    BY <1>2 DEF DistinctLines
  <2> QED BY <2>1, <2>2
<1> HIDE DEF x, n
<1>8. HeldRead'
  <2>1. ASSUME NEW s \in Source, NEW j \in DOMAIN lines[s],
               lines[s][j] \in ToSet(queue') \cup {current}
        PROVE  j <= LinesRead(s)'
    <3>1. j \in Nat /\ LinesRead(s) \in Int
      BY <1>1, LineType
    <3>2. CASE lines[s][j] = x
      BY <1>3, <1>6, <1>7, <3>1, <3>2
    <3>3. CASE lines[s][j] # x
      <4>1. j <= LinesRead(s)
        BY <1>1, <1>5, <2>1, <3>3 DEF HeldRead
      <4> QED BY <1>3, <3>1, <4>1
    <3> QED BY <3>2, <3>3
  <2> QED BY <1>1, <2>1 DEF HeldRead
<1>9. QueueOrder'
  <2>1. ASSUME NEW s \in Source, NEW i \in DOMAIN lines[s], NEW j \in DOMAIN lines[s], i < j,
               NEW p \in 1..(n + 1), NEW q \in 1..(n + 1),
               queue'[p] = lines[s][i], queue'[q] = lines[s][j]
        PROVE  p < q
    <3>1. i \in Nat /\ j \in Nat /\ LinesRead(s) \in Int
      BY <1>1, LineType
    <3>2. CASE p \in 1..n /\ q \in 1..n
      BY <1>1, <1>5, <2>1, <3>2 DEF QueueOrder, n
    <3>3. CASE p \in 1..n /\ q \notin 1..n
      BY <1>5, <3>3
    <3>4. CASE p \notin 1..n
      <4>1. p = n + 1
        BY <1>5, <3>4
      <4>2. s = r /\ i = k
        BY <1>5, <1>7, <2>1, <3>1, <4>1
      <4>3. lines[s][j] # x
        BY <1>7, <2>1, <3>1, <4>2
      <4>4. q \in 1..n
        BY <1>5, <2>1, <4>3
      <4>5. j <= LinesRead(s)
        BY <1>1, <1>5, <2>1, <4>4 DEF HeldRead
      <4> QED BY <1>6, <2>1, <3>1, <4>2, <4>5
    <3> QED BY <3>2, <3>3, <3>4
  <2> QED BY <1>5, <2>1 DEF QueueOrder
<1>10. CurrentFirst'
  <2>1. ASSUME NEW s \in Source, NEW i \in DOMAIN lines[s], NEW j \in DOMAIN lines[s], i < j,
               current = lines[s][j]
        PROVE  lines[s][i] \notin ToSet(queue')
    <3>1. i \in Nat /\ j \in Nat /\ LinesRead(s) \in Int
      BY <1>1, LineType
    <3>2. lines[s][i] \notin ToSet(queue) /\ j <= LinesRead(s)
      BY <1>1, <2>1 DEF CurrentFirst, HeldRead
    <3>3. lines[s][i] # x
      <4>1. SUFFICES ASSUME lines[s][i] = x PROVE FALSE
        OBVIOUS
      <4>2. s = r /\ i = k
        BY <1>7, <3>1, <4>1
      <4> QED BY <1>6, <2>1, <3>1, <3>2, <4>2
    <3> QED BY <1>5, <3>2, <3>3
  <2> QED BY <2>1 DEF CurrentFirst
<1> QED BY <1>8, <1>9, <1>10 DEF LineOrder

\* Every step keeps the lines in their order.
LEMMA LineOrderStep ==
    ASSUME DistinctLines, ControlInv, LineOrder, [DaemonNext]_daemonVars
    PROVE  LineOrder'
<1>1. DaemonTypes /\ HeldRead /\ QueueOrder /\ CurrentFirst /\ queue \in Seq(Item)
  BY DEF ControlInv, LineOrder, DaemonTypes, Item
<1>2. UNCHANGED lines
  BY QueueMoves
<1>3. CASE UNCHANGED current /\ \E s \in Source : PutNext(s)
  BY <1>2, <1>3, PutNextKeepsOrder
<1>4. CASE UNCHANGED <<unread, current>> /\ Put(Stop)
  <2> DEFINE n == Len(queue)
  <2>1. /\ n \in Nat /\ Len(queue') = n + 1 /\ queue'[n + 1] = Stop
        /\ \A p \in 1..n : queue'[p] = queue[p]
        /\ ToSet(queue') = ToSet(queue) \cup {Stop}
    BY <1>1, <1>4, AppendProperties, LenProperties, ToSetAppend DEF Put, Item
  <2> HIDE DEF n
  <2>2. \A s \in Source : \A j \in DOMAIN lines[s] : lines[s][j] # Stop
    BY <1>1, LineType
  <2>4. HeldRead' /\ CurrentFirst'
    BY <1>1, <1>2, <1>4, <2>1, <2>2 DEF HeldRead, CurrentFirst, LinesRead
  <2>5. ASSUME NEW p \in 1..(n + 1), queue'[p] # Stop PROVE p \in 1..n
    BY <2>1, <2>5
  <2>6. QueueOrder'
    BY <1>1, <1>2, <2>1, <2>2, <2>5 DEF QueueOrder, n
  <2> QED BY <2>4, <2>6 DEF LineOrder
<1>5. CASE /\ queue # <<>> /\ queue' = Tail(queue) /\ UNCHANGED unread
           /\ current' \in {current, Head(queue)}
  <2> DEFINE n == Len(queue')
  <2>1. /\ n \in Nat /\ Len(queue) = n + 1 /\ Head(queue) = queue[1]
        /\ queue' \in Seq(Item) /\ \A p \in 1..n : queue'[p] = queue[p + 1]
        /\ ToSet(queue) = {Head(queue)} \cup ToSet(queue')
    BY <1>1, <1>5, HeadTailProperties, LenProperties, EmptySeq, ToSetTail
  <2>2. ToSet(queue') = {queue'[p] : p \in 1..n}
    BY <2>1, LenProperties DEF ToSet
  <2> HIDE DEF n
  <2>3. HeldRead'
    BY <1>1, <1>2, <1>5, <2>1 DEF HeldRead, LinesRead
  <2>4. ASSUME NEW s \in Source, NEW i \in DOMAIN lines[s], NEW j \in DOMAIN lines[s], i < j,
               NEW p \in 1..n, NEW q \in 0..n,
               queue[p + 1] = lines[s][i], queue[q + 1] = lines[s][j]
        PROVE  p < q
    <3>1. p + 1 \in 1..Len(queue) /\ q + 1 \in 1..Len(queue)
      BY <2>1
    <3>2. p + 1 < q + 1
      BY <1>1, <2>4, <3>1 DEF QueueOrder
    <3> QED BY <2>1, <3>2
  <2>5. QueueOrder'
    BY <1>2, <2>1, <2>4 DEF QueueOrder, n
  <2>6. ASSUME NEW s \in Source, NEW i \in DOMAIN lines[s], NEW j \in DOMAIN lines[s], i < j,
               current' = lines[s][j], lines[s][i] \in ToSet(queue')
        PROVE  FALSE
    <3>1. CASE current' = current
      BY <1>1, <2>1, <2>6, <3>1 DEF CurrentFirst
    <3>2. CASE current' = Head(queue)
      <4>1. PICK p \in 1..n : queue[p + 1] = lines[s][i]
        BY <2>1, <2>2, <2>6
      <4>2. queue[0 + 1] = lines[s][j] /\ 0 \in 0..n
        BY <2>1, <2>6, <3>2
      <4>3. p < 0
        BY <2>4, <2>6, <4>1, <4>2
      <4> QED BY <2>1, <4>3
    <3> QED BY <1>5, <3>1, <3>2
  <2>7. CurrentFirst'
    BY <1>2, <2>6 DEF CurrentFirst
  <2> QED BY <2>3, <2>5, <2>7 DEF LineOrder
<1>6. CASE UNCHANGED <<unread, queue>> /\ current' \in {current, None}
  <2>1. \A s \in Source : \A j \in DOMAIN lines[s] : lines[s][j] # None
    BY <1>1, LineType
  <2>2. HeldRead'
    BY <1>1, <1>2, <1>6, <2>1 DEF HeldRead, LinesRead
  <2>3. QueueOrder'
    BY <1>1, <1>2, <1>6 DEF QueueOrder
  <2>4. CurrentFirst'
    BY <1>1, <1>2, <1>6, <2>1 DEF CurrentFirst
  <2> QED BY <2>2, <2>3, <2>4 DEF LineOrder
<1> QED BY <1>3, <1>4, <1>5, <1>6, QueueMoves

\* What a document is of, and of which kind.
LEMMA DocumentsDistinct ==
    ASSUME NEW e, NEW d
    PROVE  /\ EventDoc(e) = EventDoc(d) => e = d
           /\ AlertDoc(e) = AlertDoc(d) => e = d
           /\ EventDoc(e) # AlertDoc(d) /\ MetricDoc(e) # EventDoc(d) /\ MetricDoc(e) # AlertDoc(d)
BY DEF EventDoc, AlertDoc, MetricDoc

\* When the consumer emits an event, all that comes before it in its file is handled.
LEMMA EarlierHandled ==
    ASSUME DistinctLines, DaemonInv, LineOrder, Busy,
           NEW s \in Source, NEW j \in DOMAIN lines[s], current = lines[s][j],
           NEW i \in 1..(j - 1)
    PROVE  Handled(lines[s][i])
<1>1. /\ DaemonTypes /\ HeldRead /\ CurrentFirst /\ Accounted /\ lines \in Files
  BY DEF DaemonInv, ControlInv, LineOrder, DaemonTypes
<1>2. /\ i \in DOMAIN lines[s] /\ i \in Nat /\ j \in Nat /\ LinesRead(s) \in Int /\ i < j
  BY <1>1, LineType
<1>3. j <= LinesRead(s)
  BY <1>1 DEF HeldRead
<1>4. i \in 1..LinesRead(s)
  BY <1>2, <1>3
<1>5. lines[s][i] \in Enqueued(s)
  BY <1>4 DEF Enqueued, LinesRead
<1>6. lines[s][i] \notin ToSet(queue)
  BY <1>1, <1>2 DEF CurrentFirst
<1>7. lines[s][i] # current
  <2>1. ASSUME lines[s][i] = lines[s][j] PROVE FALSE
    <3>1. i = j
      BY <1>1, <1>2, <2>1 DEF DistinctLines
    <3> QED BY <1>2, <3>1
  <2> QED BY <2>1
<1>8. consumer \notin {"cancelled", "failed"}
  BY DEF Busy
<1> QED BY <1>1, <1>5, <1>6, <1>7, <1>8 DEF Accounted

\* An output stays in order when a document is added after those due before it.
LEMMA InOrderAdds ==
    ASSUME NEW out, NEW d, InOrder(out),
           \A s \in Source : \A j \in DOMAIN lines[s] :
                /\ d = AlertDoc(lines[s][j]) => EventDoc(lines[s][j]) \in out
                /\ d = EventDoc(lines[s][j]) => \A i \in 1..(j - 1) :
                        /\ EventDoc(lines[s][i]) \in out
                        /\ lines[s][i] \in Alarming => AlertDoc(lines[s][i]) \in out
    PROVE  InOrder(out \cup {d})
BY DEF InOrder

\* The JSON output stays in order.
LEMMA PrintedOrderStep ==
    ASSUME DistinctLines, OrderInv, [DaemonNext]_daemonVars, settings.include_events
    PROVE  InOrder(printed)'
<1> USE DEF outputVars
<1>1. /\ DaemonInv /\ ControlInv /\ LineOrder /\ InHand /\ InOrder(printed)
      /\ DaemonTypes /\ ConsumerHolds
  BY DEF OrderInv, DaemonInv, ControlInv
<1>2. UNCHANGED <<settings, lines>>
  BY <1>1, OutputsGrow
<1>3. CASE WriteEvent
  <2>1. /\ consumer = "writing" /\ printed' = printed \cup {EventDoc(current)}
    BY <1>3 DEF WriteEvent
  <2>2. ASSUME NEW s \in Source, NEW j \in DOMAIN lines[s], EventDoc(current) = EventDoc(lines[s][j]),
               NEW i \in 1..(j - 1)
        PROVE  Handled(lines[s][i])
    <3>1. current = lines[s][j]
      BY <2>2, DocumentsDistinct
    <3> QED BY <1>1, <2>1, <3>1, EarlierHandled DEF Busy
  <2>3. InOrder(printed \cup {EventDoc(current)})
    BY <1>1, <2>2, InOrderAdds, DocumentsDistinct DEF Handled
  <2> QED BY <1>2, <2>1, <2>3 DEF InOrder
<1>4. CASE PrintAlert
  <2>1. consumer = "printing" /\ printed' = printed \cup {AlertDoc(current)}
    BY <1>4 DEF PrintAlert
  <2>2. EventDoc(current) \in printed
    BY <1>1, <2>1 DEF InHand
  <2>3. InOrder(printed \cup {AlertDoc(current)})
    BY <1>1, <2>2, InOrderAdds, DocumentsDistinct
  <2> QED BY <1>2, <2>1, <2>3 DEF InOrder
<1>5. CASE PrintMetric
  <2>1. printed' = printed \/ printed' = printed \cup {MetricDoc(snapshots)}
    BY <1>5 DEF PrintMetric
  <2>2. InOrder(printed \cup {MetricDoc(snapshots)})
    BY <1>1, InOrderAdds, DocumentsDistinct
  <2> QED BY <1>1, <1>2, <2>1, <2>2 DEF InOrder
<1>6. CASE UNCHANGED printed
  BY <1>1, <1>2, <1>6 DEF InOrder
<1>7. WriteEvent \/ PrintAlert \/ PrintMetric \/ UNCHANGED printed
  <2>1. CASE RequestShutdown \/ (\E s \in Source : Follow(s) \/ FollowerFails(s))
    BY <2>1 DEF RequestShutdown, Follow, FollowerFails
  <2>2. CASE TakeEvent \/ TakeStopItem \/ IndexEvent \/ LookUp \/ ReportAlert \/ PrintFails
                \/ EmitMetric \/ PrintMetricFails
    BY <2>2 DEF TakeEvent, TakeStopItem, IndexEvent, LookUp, ReportAlert, PrintFails,
        EmitMetric, PrintMetricFails
  <2>3. CASE LiveShutdown \/ LiveFailure \/ ReplayPut \/ ReplayEnds \/ ReplayFails
                \/ DrainEnds \/ DrainFails \/ StopConsumer \/ JoinConsumer
                \/ EndSnapshots \/ CloseOutputs \/ Closed
    BY <2>3 DEF LiveShutdown, LiveFailure, ReplayPut, ReplayEnds, ReplayFails, DrainEnds,
        DrainFails, StopConsumer, JoinConsumer, EndSnapshots, CloseOutputs, Closed, Abandon
  <2>4. CASE BulkWork \/ UNCHANGED daemonVars
    BY <2>4 DEF BulkWork, daemonVars
  <2> QED BY <2>1, <2>2, <2>3, <2>4 DEF DaemonNext, Consume, Snapshot, Run
<1> QED BY <1>3, <1>4, <1>5, <1>6, <1>7

\* What a step adds to the documents the OpenSearch sink keeps.
LEMMA KeptStep ==
    ASSUME ControlInv, [DaemonNext]_daemonVars, settings.opensearch
    PROVE  \/ Kept' = Kept
           \/ IndexEvent /\ Kept' = Kept \cup {EventDoc(current)}
           \/ ReportAlert /\ Kept' = Kept \cup {AlertDoc(current)}
           \/ EmitMetric /\ Kept' = Kept \cup {MetricDoc(snapshots + 1)}
<1>1. SinkInv /\ DaemonTypes /\ ConsumerHolds
  BY DEF ControlInv
<1>2. ASSUME NEW d \in Document, closing = "open", Emit(d) PROVE Kept' = Kept \cup {d}
  BY <1>1, <1>2, EmitRefines, KeptExact
<1>3. CASE IndexEvent
  <2>1. consumer = "indexing" /\ Emit(EventDoc(current))
    BY <1>3 DEF IndexEvent, Index
  <2>2. closing = "open" /\ EventDoc(current) \in Document
    BY <1>1, <2>1, EmittersBeforeClose, DocumentKinds DEF Busy, ConsumerHolds, DaemonTypes
  <2> QED BY <1>2, <1>3, <2>1, <2>2
<1>4. CASE ReportAlert
  <2>1. consumer = "reporting" /\ Emit(AlertDoc(current))
    BY <1>4 DEF ReportAlert, Index
  <2>2. closing = "open" /\ AlertDoc(current) \in Document
    BY <1>1, <2>1, EmittersBeforeClose, DocumentKinds DEF Busy, ConsumerHolds
  <2> QED BY <1>2, <1>4, <2>1, <2>2
<1>5. CASE EmitMetric
  <2>1. snapshot = "sleeping" /\ snapshots < MaxSnapshots /\ Emit(MetricDoc(snapshots + 1))
    BY <1>5 DEF EmitMetric, Index
  <2>2. closing = "open" /\ snapshots + 1 \in 1..MaxSnapshots
    BY <1>1, <2>1, EmittersBeforeClose, DaemonAssumption DEF DaemonTypes
  <2>3. MetricDoc(snapshots + 1) \in Document
    BY <2>2, DocumentKinds
  <2> QED BY <1>2, <1>5, <2>1, <2>2, <2>3
<1>6. CASE EndSnapshots \/ CloseOutputs \/ BulkWork
  <2>1. CloseCalled \/ Close \/ Work
    BY <1>6 DEF EndSnapshots, CloseOutputs, BulkWork
  <2> QED BY <1>1, <2>1, CloseRefines, WorkRefines, KeptExact
<1>7. CASE ~ (IndexEvent \/ ReportAlert \/ EmitMetric \/ EndSnapshots \/ CloseOutputs \/ BulkWork)
  <2>1. UNCHANGED sinkVars
    <3>1. CASE RequestShutdown \/ \E s \in Source : Follow(s) \/ FollowerFails(s)
      BY <3>1 DEF RequestShutdown, Follow, FollowerFails
    <3>2. CASE TakeEvent \/ TakeStopItem \/ WriteEvent \/ LookUp \/ PrintAlert \/ PrintFails
                \/ PrintMetric \/ PrintMetricFails
      BY <3>2 DEF TakeEvent, TakeStopItem, WriteEvent, LookUp, PrintAlert, PrintFails,
            PrintMetric, PrintMetricFails
    <3>3. CASE LiveShutdown \/ LiveFailure \/ ReplayPut \/ ReplayEnds \/ ReplayFails
                \/ DrainEnds \/ DrainFails \/ StopConsumer \/ JoinConsumer \/ Closed
      BY <3>3 DEF LiveShutdown, LiveFailure, ReplayPut, ReplayEnds, ReplayFails, DrainEnds,
            DrainFails, StopConsumer, JoinConsumer, Closed, Abandon
    <3>4. CASE UNCHANGED daemonVars
      BY <3>4 DEF daemonVars
    <3> QED BY <1>7, <3>1, <3>2, <3>3, <3>4 DEF DaemonNext, Consume, Snapshot, Run
  <2> QED BY <2>1 DEF sinkVars, Kept, Pending, Unsettled, Documents
<1> QED BY <1>3, <1>4, <1>5, <1>6, <1>7

\* Due is what InOrder asks for.
LEMMA DueIsInOrder ==
    ASSUME NEW out
    PROVE  ClosedUnder(Due, out) <=> InOrder(out)
<1>1. ASSUME ClosedUnder(Due, out), NEW s \in Source, NEW j \in DOMAIN lines[s]
      PROVE  /\ AlertDoc(lines[s][j]) \in out => EventDoc(lines[s][j]) \in out
             /\ EventDoc(lines[s][j]) \in out => \A i \in 1..(j - 1) :
                    /\ EventDoc(lines[s][i]) \in out
                    /\ lines[s][i] \in Alarming => AlertDoc(lines[s][i]) \in out
  <2>1. DueWith(s, j) \subseteq Due
    BY DEF Due
  <2>2. <<EventDoc(lines[s][j]), AlertDoc(lines[s][j])>> \in Due
    BY <2>1 DEF DueWith
  <2>3. ASSUME NEW i \in 1..(j - 1)
        PROVE  /\ <<EventDoc(lines[s][i]), EventDoc(lines[s][j])>> \in Due
               /\ lines[s][i] \in Alarming =>
                    <<AlertDoc(lines[s][i]), EventDoc(lines[s][j])>> \in Due
    BY <2>1 DEF DueWith
  <2> QED BY <1>1, <2>2, <2>3 DEF ClosedUnder
<1>2. ASSUME InOrder(out), NEW pair \in Due, pair[2] \in out PROVE pair[1] \in out
  <2> PICK s \in Source : \E j \in DOMAIN lines[s] : pair \in DueWith(s, j)
    BY DEF Due
  <2>1. PICK j \in DOMAIN lines[s] : pair \in DueWith(s, j)
    OBVIOUS
  <2>2. \/ pair = <<EventDoc(lines[s][j]), AlertDoc(lines[s][j])>>
        \/ \E i \in 1..(j - 1) : pair = <<EventDoc(lines[s][i]), EventDoc(lines[s][j])>>
        \/ \E i \in 1..(j - 1) : /\ lines[s][i] \in Alarming
                                 /\ pair = <<AlertDoc(lines[s][i]), EventDoc(lines[s][j])>>
    BY <2>1 DEF DueWith
  <2> QED BY <1>2, <2>2 DEF InOrder
<1> QED BY <1>1, <1>2 DEF ClosedUnder, InOrder

\* No document is due before itself.
LEMMA DueIrreflexive ==
    ASSUME DistinctLines, DaemonTypes
    PROVE  \A pair \in Due : pair[1] # pair[2]
<1> SUFFICES ASSUME NEW pair \in Due PROVE pair[1] # pair[2]
  OBVIOUS
<1> PICK s \in Source : \E j \in DOMAIN lines[s] : pair \in DueWith(s, j)
  BY DEF Due
<1>1. PICK j \in DOMAIN lines[s] : pair \in DueWith(s, j)
  OBVIOUS
<1>2. CASE pair[2] = AlertDoc(lines[s][j]) /\ pair[1] = EventDoc(lines[s][j])
  BY <1>2, DocumentsDistinct
<1>3. ASSUME NEW i \in 1..(j - 1), pair[2] = EventDoc(lines[s][j]),
             pair[1] = EventDoc(lines[s][i]) \/ pair[1] = AlertDoc(lines[s][i])
      PROVE  pair[1] # pair[2]
  <2>1. i \in DOMAIN lines[s] /\ i \in Nat /\ j \in Nat /\ lines \in Files
    BY LineType DEF DaemonTypes
  <2>2. i # j
    BY <2>1
  <2>3. lines[s][i] # lines[s][j]
    BY <2>1, <2>2 DEF DistinctLines
  <2> QED BY <1>3, <2>3, DocumentsDistinct
<1>4. \/ pair[2] = AlertDoc(lines[s][j]) /\ pair[1] = EventDoc(lines[s][j])
      \/ \E i \in 1..(j - 1) : /\ pair[2] = EventDoc(lines[s][j])
                               /\ pair[1] \in {EventDoc(lines[s][i]), AlertDoc(lines[s][i])}
  BY <1>1 DEF DueWith
<1> QED BY <1>2, <1>3, <1>4

\* What the OpenSearch sink keeps stays in order, and so does what it settles.
LEMMA KeptOrderStep ==
    ASSUME DistinctLines, OrderInv, [DaemonNext]_daemonVars, settings.opensearch
    PROVE  /\ ClosedUnder(Due, Kept)'
           /\ ClosedUnder(Due, SettledDocuments)'
           /\ PendingOrdered(Due)'
<1>1. /\ DaemonInv /\ ControlInv /\ LineOrder /\ InHand /\ DaemonTypes /\ ConsumerHolds
      /\ SinkInv /\ ClosedUnder(Due, Kept) /\ ClosedUnder(Due, SettledDocuments)
      /\ PendingOrdered(Due)
  BY DEF OrderInv, DaemonInv, ControlInv
<1>2. UNCHANGED <<settings, lines>>
  BY <1>1, OutputsGrow
<1>3. InOrder(Kept)
  BY <1>1, DueIsInOrder
<1>4. InOrder(Kept')
  <2>1. CASE IndexEvent /\ Kept' = Kept \cup {EventDoc(current)}
    <3>1. Busy
      BY <2>1 DEF IndexEvent, Busy
    <3>2. ASSUME NEW s \in Source, NEW j \in DOMAIN lines[s],
                 EventDoc(current) = EventDoc(lines[s][j]), NEW i \in 1..(j - 1)
          PROVE  Handled(lines[s][i])
      <4>1. current = lines[s][j]
        BY <3>2, DocumentsDistinct
      <4> QED BY <1>1, <3>1, <4>1, EarlierHandled
    <3> QED BY <1>3, <2>1, <3>2, InOrderAdds, DocumentsDistinct DEF Handled
  <2>2. CASE ReportAlert /\ Kept' = Kept \cup {AlertDoc(current)}
    <3>1. EventDoc(current) \in Kept
      BY <1>1, <2>2 DEF ReportAlert, InHand
    <3> QED BY <1>3, <2>2, <3>1, InOrderAdds, DocumentsDistinct
  <2>3. CASE EmitMetric /\ Kept' = Kept \cup {MetricDoc(snapshots + 1)}
    BY <1>3, <2>3, InOrderAdds, DocumentsDistinct
  <2>4. CASE Kept' = Kept
    BY <1>3, <2>4
  <2> QED BY <1>1, <2>1, <2>2, <2>3, <2>4, KeptStep
<1>5. PICK due : due = Due
  OBVIOUS
<1>6. due = Due'
  BY <1>2, <1>5 DEF Due, DueWith
<1>7. ClosedUnder(due, Kept')
  BY <1>4, <1>5, DueIsInOrder
<1>8. \A pair \in due : pair[1] # pair[2]
  BY <1>1, <1>5, DueIrreflexive
<1>9. [SinkNext]_sinkVars
  BY <1>1, DaemonStepIsSinkStep
<1>10. ClosedUnder(due, SettledDocuments') /\ PendingOrdered(due)'
  BY <1>1, <1>5, <1>7, <1>8, <1>9, OrderedStep
<1> QED BY <1>6, <1>7, <1>10 DEF ClosedUnder, PendingOrdered

\* OrderInv is inductive.
LEMMA OrderInductive ==
    ASSUME DistinctLines
    PROVE  /\ DaemonInit => OrderInv
           /\ OrderInv /\ [DaemonNext]_daemonVars => OrderInv'
<1>1. ASSUME DaemonInit PROVE OrderInv
  <2>1. DaemonInv /\ DaemonTypes
    BY <1>1, DaemonInductive DEF DaemonInv, ControlInv
  <2>2. queue = <<>> /\ current = None /\ printed = {}
    BY <1>1 DEF DaemonInit
  <2>3. LineOrder
    <3>1. ToSet(queue) = {} /\ Len(queue) = 0
      BY <2>2 DEF ToSet
    <3>2. \A s \in Source : \A j \in DOMAIN lines[s] : lines[s][j] # None
      BY <2>1, LineType
    <3> QED BY <2>2, <3>1, <3>2 DEF LineOrder, HeldRead, QueueOrder, CurrentFirst
  <2>4. Pending = <<>>
    BY <1>1, ConcatEmptySeq DEF DaemonInit, SinkInit, Pending, Unsettled, Documents
  <2>5. indexed = <<>> /\ failed = <<>>
    BY <1>1 DEF DaemonInit, SinkInit
  <2>6. Kept = {} /\ SettledDocuments = {} /\ Len(Pending) = 0
    BY <2>4, <2>5 DEF Kept, SettledDocuments, ToSet
  <2> QED BY <2>1, <2>2, <2>3, <2>6 DEF OrderInv, InOrder, ClosedUnder, PendingOrdered
<1>2. ASSUME OrderInv, [DaemonNext]_daemonVars PROVE OrderInv'
  <2>1. DaemonInv /\ ControlInv /\ LineOrder
    BY <1>2 DEF OrderInv, DaemonInv
  <2>2. DaemonInv' /\ LineOrder'
    BY <1>2, <2>1, DaemonInductive, LineOrderStep
  <2>3. settings' = settings
    BY <1>2, <2>1, OutputsGrow
  <2> QED BY <1>2, <2>2, <2>3, PrintedOrderStep, KeptOrderStep DEF OrderInv
<1> QED BY <1>1, <1>2

\* The outputs have the events of every file in the order of its lines, and each alert
\* after its event, for any files in which no event is repeated: one consumer, two
\* first-in first-out queues and batches sent one at a time never reorder, and what a
\* failure drops has nothing after it.
THEOREM OutputsInOrder == DistinctLines => (DaemonSpec => []SettledInOrder)
<1> SUFFICES ASSUME DistinctLines PROVE DaemonSpec => []SettledInOrder
  OBVIOUS
<1>1. OrderInv => SettledInOrder
  <2>1. SettledDocuments = Settled
    BY DEF SettledDocuments, Settled
  <2> QED BY <2>1, DueIsInOrder DEF OrderInv, SettledInOrder
<1> QED BY <1>1, OrderInductive, PTL DEF DaemonSpec
====
