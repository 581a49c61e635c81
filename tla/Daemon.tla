---- MODULE Daemon ----
(***************************************************************************)
(* TelemetryDaemon (daemon.py) with the bulk sink it drives: producers put *)
(* events on the bounded ingest queue, one consumer takes them off, emits  *)
(* each event, has it correlated, and emits the alerts; a snapshot task    *)
(* emits metrics; run supervises the tasks and shuts them down in order.   *)
(*                                                                         *)
(* Tasks of the event loop switch at awaits only.  A step below is the code*)
(* between two awaits that can really suspend; a put that awaits room is an*)
(* action that is not enabled.                                             *)
(***************************************************************************)
EXTENDS BulkSink

CONSTANTS
    Source,         \* sensor files
    Event,          \* the events their lines parse to
    Files,          \* what lines may be
    Alarming,       \* the events for which process returns an alert
    None,
    Times,          \* what observed_at may be: functions from Event to numbers
    QueueSize,      \* queue_size
    MaxSnapshots,   \* bound: metric snapshots emitted
    Settings,       \* what settings may be
    SourceFaults,   \* may reading a source raise?
    JsonFaults      \* may a write to the JSON output raise?

EventDoc(e) == [kind |-> "event", of |-> e]
AlertDoc(e) == [kind |-> "alert", of |-> e]
MetricDoc(n) == [kind |-> "metric", of |-> n]

ASSUME DaemonAssumption ==
    /\ Stop \notin Event /\ None \notin Event
    /\ IsFiniteSet(Source)
    /\ Files \subseteq [Source -> Seq(Event)]
    /\ Alarming \subseteq Event
    /\ QueueSize \in Nat \ {0}
    /\ MaxSnapshots \in Nat
    /\ Times \subseteq [Event -> Int]
    /\ Settings \subseteq [follow : BOOLEAN, opensearch : BOOLEAN, metrics : BOOLEAN,
                           include_events : BOOLEAN, include_metrics : BOOLEAN]
    /\ {SourceFaults, JsonFaults} \subseteq BOOLEAN
    /\ Document = {EventDoc(e) : e \in Event} \cup {AlertDoc(e) : e \in Alarming}
                    \cup {MetricDoc(n) : n \in 1..MaxSnapshots}

VARIABLES
    settings,       \* the switches of EngineSettings that run and the router read
    lines,          \* lines[s]: the events of source s in file order
    observed_at,    \* the event time of every event
    shutdown,       \* _shutdown
    main,           \* where run is
    clean,          \* clean_pipeline
    unread,         \* the lines of each source still to be read
    heap,           \* the sources in the heap of replay_sources, oldest entry first
    follower,       \* the producer tasks
    queue,          \* the ingest queue
    unfinished,     \* its count of items put and not marked done
    consumer,       \* where the consumer task is
    current,        \* the item it holds
    printed,        \* the documents in the JSON output
    json_open,      \* has the JSON sink not been closed?
    snapshot,       \* where the snapshot task is
    snapshots       \* metric snapshots emitted

givenVars == <<settings, lines, observed_at>>
runVars == <<givenVars, shutdown, main, clean>>
sourceVars == <<unread, heap>>
ingestVars == <<sourceVars, follower, queue, unfinished>>
consumerVars == <<consumer, current>>
snapshotVars == <<snapshot, snapshots>>
outputVars == <<printed, json_open>>

daemonVars == <<runVars, ingestVars, consumerVars, outputVars, snapshotVars, sinkVars>>

\* "running": _wait_live or replay_sources; "draining": _wait_for_drain; "stopping",
\* "joining", "ending", "closing": the finally clause, up to the stop marker, the
\* consumer, the snapshot task and outputs.close.
MainState == {"running", "draining", "stopping", "joining", "ending", "closing",
              "finished", "raised"}

TaskOver == {"returned", "failed", "cancelled"}

ConsumerState == TaskOver \cup
    {"idle", "indexing", "writing", "looking_up", "reporting", "printing"}

FollowerState == {"off", "running", "failed", "cancelled"}

SnapshotState == {"off", "sleeping", "writing", "failed", "cancelled"}

\* settings.source.follow
Live == settings.follow

-----------------------------------------------------------------------------
DaemonInit ==
    /\ SinkInit
    /\ settings \in Settings
    /\ lines \in Files
    /\ observed_at \in Times
    /\ shutdown = FALSE
    /\ main = "running"
    /\ clean = FALSE
    /\ unread = lines
    /\ heap \in IF Live THEN {<<>>}
               ELSE SetToSeqs({s \in Source : lines[s] # <<>>})
    /\ follower = [s \in Source |-> IF Live THEN "running" ELSE "off"]
    /\ queue = <<>>
    /\ unfinished = 0
    /\ consumer = "idle"
    /\ current = None
    /\ printed = {}
    /\ json_open = TRUE
    /\ snapshot = IF settings.metrics THEN "sleeping" ELSE "off"
    /\ snapshots = 0

\* A signal handler calls request_shutdown.
RequestShutdown ==
    /\ ~ shutdown
    /\ shutdown' = TRUE
    /\ UNCHANGED <<givenVars, main, clean, ingestVars, consumerVars, outputVars, snapshotVars,
                   sinkVars>>

-----------------------------------------------------------------------------
\* Producers.

\* Mutation of Put: the queue has no bound.
PutUnbounded(item) ==
    /\ queue' = Append(queue, item)
    /\ unfinished' = unfinished + 1

Put(item) ==
    /\ Len(queue) < QueueSize
    /\ queue' = Append(queue, item)
    /\ unfinished' = unfinished + 1

PutNext(s) ==
    /\ unread[s] # <<>>
    /\ Put(Head(unread[s]))
    /\ unread' = [unread EXCEPT ![s] = Tail(@)]

\* follow_source reads a line and puts its event; a follower cancelled while it awaits
\* room loses the line it read, which counts as unread here.
Follow(s) ==
    /\ follower[s] = "running"
    /\ PutNext(s)
    /\ UNCHANGED <<runVars, heap, follower, consumerVars, outputVars, snapshotVars, sinkVars>>

\* An error of the source that follow_source does not catch ends its task.
FollowerFails(s) ==
    /\ SourceFaults
    /\ follower[s] = "running"
    /\ follower' = [follower EXCEPT ![s] = "failed"]
    /\ UNCHANGED <<runVars, sourceVars, queue, unfinished, consumerVars, outputVars,
                   snapshotVars, sinkVars>>

-----------------------------------------------------------------------------
\* The consumer.

Idle == consumer = "idle" /\ queue # <<>>

TakeEvent ==
    /\ Idle
    /\ Head(queue) # Stop
    /\ current' = Head(queue)
    /\ queue' = Tail(queue)
    /\ consumer' = "indexing"
    /\ UNCHANGED <<runVars, sourceVars, follower, unfinished, outputVars, snapshotVars, sinkVars>>

TakeStopItem ==
    /\ Idle
    /\ Head(queue) = Stop
    /\ queue' = Tail(queue)
    /\ unfinished' = unfinished - 1
    /\ consumer' = "returned"
    /\ UNCHANGED <<runVars, sourceVars, follower, current, outputVars, snapshotVars, sinkVars>>

\* Mutation of Release: task_done is called after a success only.
ReleaseOnSuccess(state) ==
    /\ consumer' = state
    /\ current' = None
    /\ unfinished' = IF state = "idle" THEN unfinished - 1 ELSE unfinished

\* The finally clause of an iteration: task_done, whether the event succeeded, a sink
\* raised or the task is being cancelled.
Release(state) ==
    /\ consumer' = state
    /\ current' = None
    /\ unfinished' = unfinished - 1

\* The router emits to the OpenSearch sink first, when there is one.
Index(doc) == IF settings.opensearch THEN Emit(doc) ELSE UNCHANGED sinkVars

IndexEvent ==
    /\ consumer = "indexing"
    /\ Index(EventDoc(current))
    /\ consumer' = "writing"
    /\ UNCHANGED <<runVars, ingestVars, current, outputVars, snapshotVars>>

\* emit_event: then the JSON sink, if it takes events; and process, up to the lookup
\* that only a candidate asks for.
WriteEvent ==
    /\ consumer = "writing"
    /\ printed' = IF settings.include_events THEN printed \cup {EventDoc(current)} ELSE printed
    /\ IF current \in Alarming
       THEN consumer' = "looking_up" /\ UNCHANGED <<current, unfinished>>
       ELSE Release("idle")
    /\ UNCHANGED <<runVars, sourceVars, follower, queue, json_open, snapshotVars, sinkVars>>

\* auth_lookup.search has answered, or raised an exception that _enrich catches.
LookUp ==
    /\ consumer = "looking_up"
    /\ consumer' = "reporting"
    /\ UNCHANGED <<runVars, ingestVars, current, outputVars, snapshotVars, sinkVars>>

ReportAlert ==
    /\ consumer = "reporting"
    /\ Index(AlertDoc(current))
    /\ consumer' = "printing"
    /\ UNCHANGED <<runVars, ingestVars, current, outputVars, snapshotVars>>

PrintAlert ==
    /\ consumer = "printing"
    /\ printed' = printed \cup {AlertDoc(current)}
    /\ Release("idle")
    /\ UNCHANGED <<runVars, sourceVars, follower, queue, json_open, snapshotVars, sinkVars>>

\* The JSON sink raises (a full disk, a closed pipe): the task ends.
PrintFails ==
    /\ JsonFaults
    /\ consumer = "printing" \/ (consumer = "writing" /\ settings.include_events)
    /\ Release("failed")
    /\ UNCHANGED <<runVars, sourceVars, follower, queue, outputVars, snapshotVars, sinkVars>>

Consume ==
    \/ TakeEvent \/ TakeStopItem \/ IndexEvent \/ WriteEvent
    \/ LookUp \/ ReportAlert \/ PrintAlert \/ PrintFails

-----------------------------------------------------------------------------
\* The snapshot task.

EmitMetric ==
    /\ snapshot = "sleeping"
    /\ snapshots < MaxSnapshots
    /\ Index(MetricDoc(snapshots + 1))
    /\ snapshots' = snapshots + 1
    /\ snapshot' = "writing"
    /\ UNCHANGED <<runVars, ingestVars, consumerVars, outputVars>>

PrintMetric ==
    /\ snapshot = "writing"
    /\ printed' = IF settings.include_metrics THEN printed \cup {MetricDoc(snapshots)} ELSE printed
    /\ snapshot' = "sleeping"
    /\ UNCHANGED <<runVars, ingestVars, consumerVars, json_open, snapshots, sinkVars>>

\* Nothing watches this task: its failure is only collected at the end.
PrintMetricFails ==
    /\ JsonFaults
    /\ snapshot = "writing" /\ settings.include_metrics
    /\ snapshot' = "failed"
    /\ UNCHANGED <<runVars, ingestVars, consumerVars, outputVars, snapshots, sinkVars>>

Snapshot == EmitMetric \/ PrintMetric \/ PrintMetricFails

-----------------------------------------------------------------------------
\* run.

CancelFollowers ==
    follower' = [s \in Source |-> IF follower[s] = "running" THEN "cancelled"
                                  ELSE follower[s]]

\* The finally clause when the pipeline is not clean: cancel the producers and, if it
\* still runs, the consumer, which drops the item it holds.
Abandon ==
    /\ main' = "ending"
    /\ CancelFollowers
    /\ IF consumer \in TaskOver
       THEN UNCHANGED <<consumer, current, unfinished>>
       ELSE IF current # None
       THEN Release("cancelled")
       ELSE consumer' = "cancelled" /\ UNCHANGED <<current, unfinished>>
    /\ UNCHANGED <<givenVars, shutdown, clean, sourceVars, queue, outputVars, snapshotVars, sinkVars>>

\* _wait_live sees the shutdown; the followers are cancelled and collected.
LiveShutdown ==
    /\ main = "running" /\ Live
    /\ shutdown
    /\ CancelFollowers
    /\ main' = "draining"
    /\ UNCHANGED <<givenVars, shutdown, clean, sourceVars, queue, unfinished, consumerVars, outputVars,
                   snapshotVars, sinkVars>>

\* Mutation of Watched: _wait_live does not watch the consumer.
WatchedFollowers == \E s \in Source : follower[s] = "failed"

\* What _wait_live watches besides the shutdown has ended.
Watched == consumer \in TaskOver \/ \E s \in Source : follower[s] = "failed"

\* _wait_live raises the error of the consumer or of a follower.
LiveFailure ==
    /\ main = "running" /\ Live
    /\ Watched
    /\ Abandon

\* Mutation of Earliest: the heap is not ordered.
Oldest == 1

\* The top of the heap: the source whose next event has the smallest time, and of
\* those the one whose entry was pushed first.
Earliest ==
    LET time(i) == observed_at[Head(unread[heap[i]])]
    IN  CHOOSE i \in DOMAIN heap :
            \A j \in DOMAIN heap : time(i) < time(j) \/ (time(i) = time(j) /\ i <= j)

\* replay_sources pops the top, puts its event and pushes the next event of the same
\* source; nothing watches the consumer or the shutdown meanwhile.
ReplayPut ==
    /\ main = "running" /\ ~ Live
    /\ heap # <<>>
    /\ LET s == heap[Earliest] IN
        /\ PutNext(s)
        /\ heap' = RemoveAt(heap, Earliest) \o (IF Len(unread[s]) > 1 THEN <<s>> ELSE <<>>)
    /\ UNCHANGED <<runVars, follower, consumerVars, outputVars, snapshotVars, sinkVars>>

ReplayEnds ==
    /\ main = "running" /\ ~ Live
    /\ heap = <<>>
    /\ main' = "draining"
    /\ UNCHANGED <<givenVars, shutdown, clean, ingestVars, consumerVars, outputVars, snapshotVars,
                   sinkVars>>

\* Opening or decoding a source raises out of replay_sources.
ReplayFails ==
    /\ SourceFaults
    /\ main = "running" /\ ~ Live
    /\ Abandon

\* queue.join() returns.
Drained == unfinished = 0

\* _wait_for_drain returns, and run goes through its finally clause with a clean
\* pipeline: all producers have ended.
DrainEnds ==
    /\ main = "draining"
    /\ Drained
    /\ consumer \notin TaskOver
    /\ clean' = TRUE
    /\ main' = "stopping"
    /\ UNCHANGED <<givenVars, shutdown, ingestVars, consumerVars, outputVars, snapshotVars, sinkVars>>

\* _wait_for_drain finds the consumer ended, whether or not the queue is drained.
DrainFails ==
    /\ main = "draining"
    /\ consumer \in TaskOver
    /\ Abandon

\* Mutation of StopConsumer: no marker is put.
StopForgotten ==
    /\ main = "stopping"
    /\ main' = "joining"
    /\ UNCHANGED <<givenVars, shutdown, clean, ingestVars, consumerVars, outputVars, snapshotVars,
                   sinkVars>>

StopConsumer ==
    /\ main = "stopping"
    /\ Put(Stop)
    /\ main' = "joining"
    /\ UNCHANGED <<givenVars, shutdown, clean, sourceVars, follower, consumerVars, outputVars,
                   snapshotVars, sinkVars>>

\* Mutation of JoinConsumer: run does not await the consumer.
JoinNothing ==
    /\ main = "joining"
    /\ main' = "ending"
    /\ UNCHANGED <<givenVars, shutdown, clean, ingestVars, consumerVars, outputVars, snapshotVars,
                   sinkVars>>

\* await consumer: the queue was drained, so all it can do is take the marker.
JoinConsumer ==
    /\ main = "joining"
    /\ consumer = "returned"
    /\ main' = "ending"
    /\ UNCHANGED <<givenVars, shutdown, clean, ingestVars, consumerVars, outputVars, snapshotVars,
                   sinkVars>>

\* The snapshot task is cancelled and its result dropped; outputs.close() begins.
EndSnapshots ==
    /\ main = "ending"
    /\ snapshot' = IF snapshot \in {"sleeping", "writing"} THEN "cancelled" ELSE snapshot
    /\ CloseCalled
    /\ main' = "closing"
    /\ UNCHANGED <<givenVars, shutdown, clean, ingestVars, consumerVars, outputVars, snapshots>>

\* outputs.close() in progress.
CloseOutputs ==
    /\ main = "closing"
    /\ Close
    /\ UNCHANGED <<runVars, ingestVars, consumerVars, outputVars, snapshotVars>>

\* The router closes the JSON sink only after the OpenSearch sink closed normally.
Closed ==
    /\ main = "closing"
    /\ closing \in {"closed", "raised"}
    /\ json_open' = (closing = "raised")
    /\ main' = IF clean /\ closing = "closed" THEN "finished" ELSE "raised"
    /\ UNCHANGED <<givenVars, shutdown, clean, ingestVars, consumerVars, printed, snapshotVars,
                   sinkVars>>

Run ==
    \/ LiveShutdown \/ LiveFailure
    \/ ReplayPut \/ ReplayEnds
    \/ DrainEnds \/ DrainFails \/ StopConsumer \/ JoinConsumer
    \/ EndSnapshots \/ CloseOutputs \/ Closed

\* The worker of the bulk sink is a task of the same loop.
BulkWork == Work /\ UNCHANGED <<runVars, ingestVars, consumerVars, outputVars, snapshotVars>>

DaemonNext ==
    \/ RequestShutdown
    \/ \E s \in Source : Follow(s) \/ FollowerFails(s)
    \/ Consume
    \/ Snapshot
    \/ Run
    \/ ReplayFails
    \/ BulkWork

\* asyncio runs ready tasks first come, first served, and wakes the putters and
\* getters of a queue in that order; requests and lookups have timeouts.  No fault is
\* ever bound to happen.
DaemonFairness ==
    /\ WF_daemonVars(Run)
    /\ WF_daemonVars(Consume)
    /\ WF_daemonVars(BulkWork)
    /\ \A s \in Source : WF_daemonVars(Follow(s))

DaemonSpec == DaemonInit /\ [][DaemonNext]_daemonVars /\ DaemonFairness

-----------------------------------------------------------------------------
\* Properties.

Settled == ToSet(indexed) \cup ToSet(failed)

\* The events of a source that were put on the ingest queue.
Enqueued(s) == {lines[s][i] : i \in 1..(Len(lines[s]) - Len(unread[s]))}

\* Every variable of the daemon has its type, and the ingest queue its bound.
DaemonTypeOK ==
    /\ SinkTypeOK
    /\ settings \in Settings /\ lines \in Files /\ observed_at \in Times
    /\ shutdown \in BOOLEAN /\ clean \in BOOLEAN
    /\ main \in MainState
    /\ unread \in [Source -> Seq(Event)]
    /\ ToSet(heap) \subseteq Source /\ IsInjective(heap)
    /\ follower \in [Source -> FollowerState]
    /\ queue \in Seq(Event \cup {Stop}) /\ Len(queue) <= QueueSize
    /\ unfinished \in Nat
    /\ consumer \in ConsumerState
    /\ current \in Event \cup {None}
    /\ printed \subseteq Document
    /\ json_open \in BOOLEAN
    /\ snapshot \in SnapshotState
    /\ snapshots \in 0..MaxSnapshots

\* The count that join waits on is the number of items in the queue and in the
\* consumer's hands, whichever way an item ended: a failed or cancelled event never
\* leaves the drain waiting, and no event in hand lets it pass.
UnfinishedExact == unfinished = Len(queue) + (IF current = None THEN 0 ELSE 1)

\* An event that was put on the queue is in the queue, in the consumer's hands, with the
\* OpenSearch sink or, without one, in the JSON output as far as that takes it, at every
\* moment and in every interleaving of failures and shutdown; only the cancellation of
\* the consumer, or the failed write of the only sink, can drop one.
NothingLost ==
    consumer \notin {"cancelled"} \cup (IF settings.opensearch THEN {} ELSE {"failed"}) =>
        \A s \in Source : \A e \in Enqueued(s) :
            \/ e \in ToSet(queue)
            \/ e = current
            \/ IF settings.opensearch THEN EventDoc(e) \in Settled \cup ToSet(Pending)
               ELSE /\ settings.include_events => EventDoc(e) \in printed
                    /\ e \in Alarming => AlertDoc(e) \in printed

\* When run returns without raising, every event put on the queue and every alert has
\* reached the sinks that take it, the consumer ended at the stop marker, both sinks are
\* closed, and a replay read all its sources.
CleanExit ==
    main = "finished" =>
        /\ \A s \in Source : \A e \in Enqueued(s) :
                /\ settings.opensearch => EventDoc(e) \in Settled
                /\ settings.include_events => EventDoc(e) \in printed
                /\ e \in Alarming =>
                        /\ AlertDoc(e) \in printed
                        /\ settings.opensearch => AlertDoc(e) \in Settled
        /\ consumer = "returned" /\ worker = "none" /\ queue = <<>> /\ ~ json_open
        /\ ~ Live => \A s \in Source : unread[s] = <<>>

\* The documents of an event come after those of the events before it in its file, and
\* its alert after it.
InOrder(out) ==
    \A s \in Source : \A j \in DOMAIN lines[s] :
        LET e == lines[s][j] IN
        /\ AlertDoc(e) \in out => EventDoc(e) \in out
        /\ EventDoc(e) \in out =>
                \A i \in 1..(j - 1) :
                    /\ EventDoc(lines[s][i]) \in out
                    /\ lines[s][i] \in Alarming => AlertDoc(lines[s][i]) \in out

\* What the single consumer and the order of the two queues promise of each output:
\* OpenSearch, and the JSON output if it takes events.
SettledInOrder ==
    /\ settings.opensearch => InOrder(Settled)
    /\ settings.include_events => InOrder(printed)

\* A replay puts an event only when every other file has come to an event at least as
\* late: if the files are sorted, the events come in the order of their times.
ReplayMerged ==
    ~ Live => \A s, other \in Source : \A e \in Enqueued(s) :
        \A j \in DOMAIN lines[other] :
            lines[other][j] \notin Enqueued(other) =>
                \E i \in 1..j : observed_at[lines[other][i]] >= observed_at[e]

Over == main \in {"finished", "raised"}

\* A shutdown request ends a live daemon, from any state and with any number of full
\* queues, unless the bulk worker has died.
ShutdownEnds == (shutdown /\ Live) ~> (Over \/ worker = "dead")

\* A live daemon whose consumer died of a sink error ends by raising, unless the bulk
\* worker has died as well.
LiveFailureRaised ==
    (Live /\ consumer = "failed") ~> (main = "raised" \/ worker = "dead")

\* A replay comes to its end, however slow the sinks, unless a sink has failed.
ReplayCompletes ==
    (~ Live) ~> (Over \/ worker = "dead" \/ consumer = "failed")
====
