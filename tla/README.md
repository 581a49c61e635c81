# TLA+ specifications of the IDS telemetry engine

This directory models `src/src/ids_telemetry`: the state the detectors keep, the
pipeline that carries events from sensor files to OpenSearch, the places where tasks,
files and remote services interleave, the conversion of a sensor's record into an event
and the command line that starts it all. TLC checks the modules on
small instances; TLAPS proves every safety property of the passing runs, and the safety
part of the refinement, for every value of the parameters. Paths below are relative to
`src/src/ids_telemetry/` unless they begin with `docs/` or `README.md`.

## The system

A daemon tails (or replays) sensor files of three products, normalizes their lines into
events, correlates the events in memory, and writes events, alerts and metric snapshots
to a JSON stream and to OpenSearch.

```
 sensor files --> follow_source (one task per file)  --+
                  or replay_sources (heap merge)       |  ingest queue (bounded)
                                                       v
                                              _consume (one task)
                      emit event --> detectors --> context + lookup --> emit alert
                                                       |
 _snapshot_loop (one task) --> metric --> OutputRouter-+--> JsonlSink (direct write)
                                                       +--> OpenSearchBulkSink
                                                            (bounded queue, one worker,
                                                             batches, retries, dead letters)
```

All tasks share one asyncio loop: they switch only at awaits that suspend. The sensors,
the log rotator and OpenSearch are other processes and interleave with everything.

| Component | State | Operations | What makes it correct |
|---|---|---|---|
| Sliding window (`correlation/window.py`) | ordered dictionary of deques, watermark, four counters | `add`, `values` | counts match contents, three bounds hold, deques sorted and within one span, nothing lost but what the limits say, LRU discipline |
| Detectors (`correlation/beacon.py`, `dns_tunnel.py`) | a window, an LRU table of the last alert per key | `observe` | an alert rests on enough distinct events of one window; a key in its cooldown does not alert again; alert ids do not collide |
| Ingest readers (`ingest/readers.py`) | open stream, position, recorded inode; heap of the next event per file | `follow_source`, `replay_sources` | each complete line becomes one event, in order, across rotations; a replay is in event-time order |
| Daemon (`daemon.py`) | ingest queue and its count of unfinished items, shutdown flag, tasks | `run`, `_wait_live`, `_wait_for_drain`, `_consume`, `_snapshot_loop`, `request_shutdown` | backpressure, no event lost between the queues, an orderly shutdown that ends, errors that come out of `run` |
| Bulk sink (`sinks/opensearch.py`) | queue, worker task, batch, counters, dead-letter file | `emit`, `close`, `_run`, `_flush` | every document counted once as indexed or failed, in order; `close` flushes and ends |
| Router, JSON sink (`sinks/router.py`, `jsonl.py`) | an open stream | `emit_*`, `close` | the order of the two sinks on emit and on close |
| Context index (`correlation/context.py`) | per-endpoint deques, LRU | `add_*`, `find_*` | bounded, complete within a window, deduplicated, newest first |
| Enrichment (`correlation/engine.py`) | counter of lookup errors | `process`, `_enrich` | an alert has all the evidence that fits, whether the lookup answers or not; boosts are justified by it |
| Parsers, normalization, models (`parsers/`, `normalization.py`, `models.py`) | none | one parser per sensor, one strict model per kind of event | total: an event or a `ParseError`; what a parser takes, the model does not refuse |
| Command line and settings (`cli.py`, `config.py`) | the file of `--output`, the counters of `validate` | `main`, `_settings_for_command`, `_validate` | options override the environment, a configuration error costs no file, `validate` counts each line once |
| Metrics, logging (`metrics.py`, `logging.py`) | counters | | |

Hard behaviour, in short: events out of order and late; eviction by three limits at
once; awaits between taking an event and marking it done; failures of one task of
several; waits on two bounded queues during shutdown; retries of work that was done;
rotations between two system calls; restarts without a saved offset; values at the edge
of what a conversion takes. `PROJECT.json` lists each hazard at its line with
the properties that cover it.

## Modules

| Module | Models | Built on |
|---|---|---|
| `SlidingWindow` | `KeyedSlidingWindow` | |
| `Detector` | the control of `observe` in both detectors | `SlidingWindow` |
| `Delivery` | what a sink promises its callers (abstract) | |
| `BulkSink` | `OpenSearchBulkSink`; implements `Delivery` | |
| `Daemon` | `TelemetryDaemon`, the router and the JSON sink, with the bulk sink it drives | `BulkSink` |
| `FileFollower` | `follow_source` with the sensor and the rotator | |
| `ContextIndex` | `TemporalContextIndex` | |
| `Enrichment` | `CorrelationEngine.process`, `_enrich`, the authentication lookup | `ContextIndex` |
| `Normalization` | the coercions, the four parsers and the models of events (no state) | |
| `CommandLine` | `main` with `_settings_for_command` and `_validate` | `Normalization` |
| `InOrder` | matching places of a deque with places of a log, in order (no code) | |
| `MC*` | instances for TLC: history variables, bounds, and the documentation's statements that fail | the module of that name, some `InOrder` |
| `SequenceLemmas` | lemmas about numbers, sequences and matchings that several proofs need | `InOrder`, TLAPS |
| `SlidingWindowProofs` | proofs about the window | `MCSlidingWindow`, `SequenceLemmas` |
| `DetectorProofs` | proofs about the detectors | `MCDetector`, `SlidingWindowProofs` |
| `BulkSinkProofs` | proofs about the bulk sink, and that it refines `Delivery` | `MCBulkSink`, `SequenceLemmas` |
| `DaemonProofs` | proofs about the daemon, on top of those about its sink | `Daemon`, `BulkSinkProofs` |
| `FileFollowerProofs` | proofs about the follower | `MCFileFollower`, `SequenceLemmas` |
| `EnrichmentProofs` | proofs about the context index and the enrichment | `MCEnrichment`, `SequenceLemmas` |
| `CommandLineProofs` | proofs about the settings, the output, `validate`, and the parsers against the models | `MCCommandLine`, `SequenceLemmas` |

Operators whose comment begins with *Mutation of* are faulty variants of the operator
after them. Nothing uses them: a property is shown to be sensitive by putting a variant
in the place of the operator and seeing TLC find the property violated
(`PROJECT.json`, "mutants").

### SlidingWindow

`order` and `windows` are the `OrderedDict` (least recently used key first) and its
deques; a key outside `order` has the empty deque. `watermark`, `value_count` and the
three loss counters are the fields of the same name. `AddLate` is the early return of
`add` with its call of `values`, `AddAccepted` the rest, in the order of the code:
insert (at the end, or to the right of equal timestamps), prune, count, per-key cap,
evict whole keys until both global limits hold. Timestamps are integers; the constants
are constrained as `__init__` constrains them (`WindowAssumption`).

### Detector

Both `observe` methods have the same control: filter, duplicate, add, score, cooldown,
candidate. `Filtered` stands for the address, port and allowlist filters and
`Suspicious(_)` for the score; MCDetector gives the beacon's gates (number of positive
intervals, median between the period limits), which are the whole score when
`minimum_score` is 0.0. The score is evaluated on the window that `add` returned
(`windows'`). `cooling` and `last_alert` are the table `_last_alert`.

A candidate counts every entry of the window (`count` is `connection_count` and
`query_count`) and lists the ids of the last 64 only (`entries[-64:]`): `events` has the
last `MaxReported`. `min_events` may be up to 1000 and `min_queries` up to 10000, so what
a candidate lists need not show the minimum. `CandidateSupported` therefore counts the events
that the window held when it was scored; of the list it says that it is taken from that
window, has as many events as the cap allows, and leaves out none that is newer than one
it has.

### BulkSink and Delivery

`worker` is where the worker task is between two awaits: `idle` (first `get`), `filling`
(`get` with the deadline), `sending` (a bulk request is out), `dead_lettering`, `done`,
or `dead` after an exception. `indexed` and `failed` are the documents that the two
counters count, kept as sequences so that order and identity can be stated. A request
that fails may have stored any part of its batch. `StartFlush` may be taken at any moment:
the deadline is a matter of time. A `put` that awaits room is an action not enabled.

`Delivery` has three sequences, pending, delivered and given up; a submitted document
settles in order and once, and every one settles unless the sink breaks. The refinement
mapping takes as pending the batch that the worker has not settled, followed by the
queue without the stop marker; the sink is broken when the worker is dead.

### Daemon

`main` is where `run` is. `settings` holds the switches that `run` and the router read:
following or replay, OpenSearch or not, metric snapshots or not, events in the JSON stream
or not. `queue` and `unfinished` are the `asyncio.Queue` with the count that `join` waits
on; `consumer` and `current` are the consumer task and its item; `indexing`, `reporting`
are its waits on the bulk queue, `looking_up` its wait on the authentication lookup.
`lines` gives the events of each file, `observed_at` their times, and `Alarming` those
for which `process` returns an alert. The worker of the bulk sink runs as `BulkWork`, so
that backpressure goes from OpenSearch through both queues to the files; without
OpenSearch, `Index` is no wait and no worker runs.

A replay keeps a heap of one event per file, ordered by time and then by the serial number
of the entry. `heap` holds its files in the order of these numbers, so `Earliest` is the
oldest of those with the smallest time. The first entries come in any order of the
files; in the code they come in the order of the settings, one order for each configuration.

Two readings of asyncio are built in. When several watched tasks end in the same turn of
the loop, `_wait_live` may find the shutdown done or not, so both ways are allowed. A
task cancelled while it awaits room does not put its item; the event a follower had read
counts as unread.

### FileFollower

Files are sequences of chunks (a whole line, or the two parts of one seen half written).
The sensor writes to the file it has open (`target`), the rotator renames, replaces or
truncates the file at `path`, between any two of the follower's calls: `open`, `stat` of
the path (with the first seek), `readline`, `stat` at the end. The read-ahead buffer of
the stream is left out: with it, lines already buffered survive a truncation. Lines all
have the same length, so a truncated file that grows back grows to a line's boundary.

No offset is saved. `Restart` ends the process at any point and starts it anew, with the
`first_open` of a new one, so that without `--from-beginning` it seeks to the end of what
it opens. A line seen half written gives a rejected line, or, when it is cut inside a
character, a `UnicodeDecodeError` that ends the follower (`DecodeFails`).

### ContextIndex and Enrichment

An index is the order of its endpoints (least recently written first) and their deques. A
record keeps its id, time, addresses and whether it is grave: a failed login, or a Suricata
alert of severity 1 or 2. A record is filed under the set of its addresses, whose order of
iteration is arbitrary; a set without an address files it nowhere. `Newest` is a sort, newest
first, cut at a limit, with ties broken either way (the code breaks them by order of
insertion). The engine is used by one task, so a call of `process` is one step with the
lookup inside: it answers with the newest documents, less those that do not parse, or
raises. What OpenSearch holds (`stored`) is any set of documents, fixed during a run; one
may be an event the index has too. The detectors are a set of candidates. Confidence is in
hundredths; texts, counts and identifiers in the alert are left out. `BoostsJustified`
goes both ways: a raised alert shows a cause that is grave, near and of the same host, and
an alert that is not raised has none that fits.

### Normalization

A sensor's line is a document: for each field of the parser, the candidates under the
keys at which the parser looks. A value is its type, its number and the length of its
text. `StringType` lists the strings that the coercions tell apart, `Huge` stands for any
integer beyond a float. A parser is the sequence of its fields in the order in which the
code converts them, since the first failure is the one reported; each has a coercion and
the bounds passed to it. `Accepted` says when a coercion takes a value, `Uncaught` when it
raises something other than `ParseError`, `Out` which number or length comes out. A
model of `models.py` is the set of its limits, a subclass the union of its own with those of
its base. `Parse` puts the three together. `Json` ties the length of a value to its type no
further than needed: only what is absent or blank has no length.

`SensorIdentity` is a model inside the model, built before the fields after it are
converted, so its refusal comes first. A change of case can lengthen a text after it was
measured (`expanding`: a German sharp s in upper case is two letters), and half a
surrogate pair, which JSON can escape, makes a string that pydantic refuses (`surrogate`).
`RefusalKnown` has these among its five causes for a refusal by the model: of the values
that pass a coercion, `SchemaAgrees` says, the model refuses no others, and a parser blames
the schema only when there is one. It is said of the fields one by one, so that it holds of
a document with any number of faults.

Left out: the texts that come out (identifiers, hashes), the elements of
lists and of Suricata's metadata, numbers outside the calendar as timestamps.

### CommandLine

A setting is where it comes from: `given`, `environment`, `default`, or `forced` by the
command. `paths` stands for the four source paths. `SourceOrigin` and `SettingsOrigin`
follow `_settings_for_command`: with a path on the command line a new `SourceSettings` is
built, otherwise the environment's is kept. `MakeSettings`, `AcceptRate` and `Unlink` are
in the order of the code, since what an error costs depends on it. `RunDaemon` is the
whole daemon by its three exits. `validate` reads lines of any kind, and those with a JSON
object go to `Parse`. `schema` prints constants, and argparse rejects unknown options
before anything else happens; both are left out.

## Runs

| Run | Expect | Bounds | What it shows |
|---|---|---|---|
| `sliding_window` | pass | 4 calls; capacities of 1 to 3 | accounting, bounds, order, exact contents until the first eviction and full accounting of losses |
| `detector` | pass | 6 events, 2 keys and a filtered one, times 1..4, table of one key, lists of 2 events | distinct events, supported candidates, cooldown kept while the table keeps the key, distinct alerts while events are in order |
| `detector_late` | violation | as `detector` | a late event is scored (docs/ARCHITECTURE.md:59) |
| `detector_cooldown` | violation | as `detector` | an out-of-order event alerts in the cooldown (docs/DETECTIONS.md:38) |
| `bulk_sink` | pass | 4 documents, queue 2, batches of 2, one retry | refinement of `Delivery`, exact dead letters, attempts, flush and end of `close` |
| `daemon` | pass | up to two files with 2 and 1 events, one-slot queues, batches of 2, no retry, one snapshot, every failure; live and replay, with and without OpenSearch | nothing lost, exact join count, clean exits complete, documents in order, a replay merged by time; replays end, shutdown ends, a failed consumer of a live daemon is raised |
| `daemon_replay` | violation | as `daemon`, replay, JSON failures only | a replay hangs when its consumer died (docs/ARCHITECTURE.md:110) |
| `daemon_worker` | violation | as `daemon`, live, dead-letter failures only | shutdown hangs when the worker died (docs/ARCHITECTURE.md:101-108) |
| `follower` | pass | 3 lines, 2 files, 1 truncation, 1 restart, half-written lines | no event twice or out of order; the listed moments are the only ones that lose lines |
| `follower_rotation` | violation | 2 lines, 2 files | the follower stays on the old file (README.md:100) |
| `command_line` | pass | 3 options and 3 variables at a time, files of 2 lines, documents that differ from a usual one in one field | which option or variable wins, when a replay deletes its output, exact counts and status of `validate`, agreement of parsers and models |
| `enrichment` | pass | 4 context events out of 7, 3 endpoints, 2 per index, 2 records per endpoint, limit of 2 matches, 3 documents, one failed lookup | what the index forgets, complete evidence, justified boosts |

Why the bounds are enough to be interesting. The window's limits are small enough that
four calls reach each limit, each combination of two, and late and out-of-order events
after an eviction. The detector alerts, suppresses, loses its cooldown entry and alerts
again within six events; a window that scores holds two events, which a candidate lists
both, or three, of which it drops the oldest. In the pipelines every queue fills with the first or second
event, a batch is cut short by the deadline and by the stop marker, and there is an
event behind the one that fails. The daemon run has five settings: live and replay, each
with and without OpenSearch, and live with OpenSearch without metrics. Where metrics and
events share the bulk queue, one file has lines; everywhere else both have. A replay is
run with three assignments of times: a tie, a first file that is not sorted, a second
file that is late. The follower meets each kind of rotation at each of its
four system calls, and one rotation after another. Four context events evict a record, evict
an endpoint and bring it back; alerts then meet more matches than fit in the index, in the
store and in both together. Settings do not interact but through a path on the command
line and the command, so three options against three variables show every interaction; a
document that differs in one field reaches every coercion with every type of value and
the numbers and lengths at and beside its bounds. Partial storage by failed requests
is explored in `bulk_sink` and switched off in the daemon runs (`PartialFaults`), where
nothing reads what the server stored.

Deadlock is not checked, but for `enrichment`: every other one of these systems may stop
(the call bound of the window and detector runs, a closed sink, a daemon that has ended, a sensor that writes
nothing more, a command that is over).

### Fairness

`BulkSink`: weak fairness of the worker and of `close`. Requests have a timeout, delays
between attempts are bounded, the deadline of a batch passes. `Daemon`: weak fairness of
`run`, of the consumer, of the worker and of each follower. asyncio runs ready tasks
first come first served, and a queue wakes its waiting putters in order. No failure, no
shutdown request and no metric snapshot is ever bound to happen. `FileFollower`: the
follower goes on, and a half-written line is completed; nothing else about the sensor.

### Where the code and its documents part

1. A late event is scored, and can alert (`detector_late`).
2. An out-of-order event alerts inside the cooldown and moves it back
   (`detector_cooldown`).
3. A replay whose consumer died hangs on the full queue instead of raising; a signal
   does not end it (`daemon_replay`). In live mode the same failure is raised
   (`LiveFailureRaised`).
4. A bulk worker killed by a dead-letter error is noticed by nobody; shutdown may wait
   for ever (`daemon_worker`). The properties of the passing runs name the dead worker
   as their one exception.
5. A replacement between `open` and `stat` leaves a follower on the old file for ever
   (`follower_rotation`).

The following have no run that fails; the passing runs state what the code does.

6. Failed logins are counted among the newest `max_context_matches` events only, so
   failures behind that many newer successes raise nothing (docs/DETECTIONS.md:114 says
   one or more failed events do). `BoostsJustified` speaks of the logins shown.
7. `--from-beginning` does nothing for sources that come from the environment, which is
   the very example of README.md:82-90, and what docs/OPERATIONS.md:27 recommends for
   recovery (exception in `OptionsHonoured`). A path on the command line in turn drops
   every `IDS_SOURCE__*` setting, the poll interval included.
8. Some records raise something other than the `ParseError` of docs/ARCHITECTURE.md:24: a
   Zeek `duration` that is an integer too large for a float (`normalization.py:123`), a
   timestamp whose UTC value leaves the calendar (`normalization.py:55`), an integer of
   more than 4300 digits or lists nested too deep for Python's recursion
   (`normalization.py:25`). They end `validate` with a traceback
   (`ValidateExact` lists them) and end a follower or a replay.
9. A half-written line cut inside a character ends its follower, and with it the live
   daemon (`ingest/readers.py:69`); `DecodeFails`.
10. `require_text` takes `(empty)` as a text and `answers` rejects it, where
    docs/ARCHITECTURE.md:22 says that the sentinel is converted.

### What a property takes as given

Some properties have exceptions, and then show that there are no others, not that these
are safe. `ReadsEverything` excepts the moments listed in `Disturbing` (among them a line read
half written, one cut inside a character, a rotation between two system calls, lines
written after the end was read). `LiveFailureRaised` is about the consumer: a follower that
fails in the turn of a shutdown is not raised (`daemon.py:129`), and no property is about
it. `EvidenceComplete` asks no more of the store's documents once a lookup has failed, since
the count of errors does not say for which alert. `BoostsJustified` is about the evidence
shown, `OptionsHonoured` excepts `--from-beginning` without paths, and `ValidateExact` the
exceptions that are no `ParseError`.

## Proofs

The theorems hold for every value of the constants that the named assumptions of the
modules admit. These say what the code's constructors and models check (`WindowAssumption`,
`DetectorAssumption`, `SinkAssumption`, `DaemonAssumption`), that the sources and the
documents of the store are finite sets, that a record has at most two endpoints
(`ContextAssumption`), and that a document has, for each field of its parser, a sequence of
two candidates or more of JSON's types (`CommandLineAssumption`; what a key does not hold
is the candidate "absent"). TLC evaluates them on the small
instances. A hypothesis beyond these stands in the theorem itself.

**Sliding window.** `TypeCorrect`, `KeysHoldValuesAlways`, `CountIsExact`,
`CapacityHolds`, `DequesChronological`, `LossIsAccounted`, `DequesExact` and
`AcceptedSurvives` are the invariants and the action property of the run `sliding_window`.
Only the type is inductive alone. The counter is exact only if
evicted keys hold what `order` says they hold; the eviction loop stops in time only if
the count is exact, since it is the loss of counted values that brings the count down,
and it spares the key just added only because that key is last in `order` and its deque
alone is within `MaxTotal`; and pruning from the left is right only while deques are
sorted. `Inv` is their conjunction, with the watermark set once a deque holds a value. The
helpers (`Prune`, `Insert`, `Newest`, `Without`, `Touch`, `Held`, `Overflow`) are defined
by choice or by sets rather than recursively so that they can be reasoned about.

- `LossIsAccounted` compares the deques with a log of the whole past. Its invariant is not
  inductive as it stands: an event that ages out could be the one whose presence made up
  for a loss. `LossInv` states the account for every time the watermark may still reach,
  counting at each what the deques would hold if pruned to it (`Recent`); pruning, whenever
  it happens, then takes away only what is already outside the account.
- `DequesExact` says where each value of a deque comes from: its items of one timestamp and
  the places in the log where that timestamp arrived under its key match one to one and in
  order (`Matchings`). `ExactInv` says so of every timestamp that the watermark may still
  reach, and goes over the three things that change a deque: pruning shifts the places and
  takes none of these timestamps, an insertion puts its item behind the equal ones and
  before the later, which is where the last arrival belongs, and the cap and the eviction of
  keys leave the deque alone unless they count something.

**Detectors.** `DetectorInv` adds to `Inv` that a deque holds different events of its own
key, each under its own time (`WindowContent`), and that the cooldown table lists exactly
the keys it times. From it follow `EventsCountOnce` and `CandidatesSupported`: a candidate
rests on enough events because the deque is without duplicates and spans one window, and
lists the newest because the deque is sorted. The theorem is for any `MaxReported`, a
minimum above it included, where the list is shorter than the minimum.

- `CooldownIsKept` says of every history of alerts that a key alerts again inside its
  cooldown only if `max_keys` other keys were hit in between. The table does not say why a
  key is missing from it, so `TableRemembers` relates it to the history: a key keeps the
  time of its last alert until as many keys as the table holds were hit after its own last
  hit, and the keys behind it in `cooling` are exactly keys hit since.
- `AlertsAreDistinct` says that two alerts of a key never share their last event, which
  enters the identifier, as long as events arrive in order and no more than `max_keys`
  keys alerted. `AlertsBehind` carries it: no alert is ahead of the time in the table, and
  the table is not ahead of the events.

**Bulk sink.** `SinkInv` is the life of the stop marker (`MarkerOnce`: put once, nothing
after it, and who has seen it has seen the queue empty) and what the worker holds in each
of its states. `SinkSafety` has `CountedIsStored`, `FailedIsKept`, `CloseFlushes` and the
types. `SinkImplementsDelivery` maps each step to a step of `Delivery` or to none: a flush
settles the oldest pending documents. `RetriesAreExact` is about the attempts counted in
MCBulkSink: for any number of documents emitted one after the other, a document given up
was sent exactly `max_retries + 1` times and an indexed one at most that often. It needs that
a document is not settled and pending at once, which the numbers give (`Numbered`), and
that the loop variable counts the attempts of the batch in hand and no other (`Attempts`).

**Daemon.** Each step of the daemon is a step of its sink or leaves it alone, so `SinkInv`
and what a sink that implements `Delivery` keeps carry over. `ControlInv` adds the order
in which `run` takes its tasks down, the clean way down (an empty queue, the marker alone,
the marker taken), what the consumer holds between two awaits, and that a heap holds the
files not read to their end. `DaemonTypeCorrect` (with `UnfinishedExact`),
`DaemonImplementsDelivery` and `ReplayIsMerge` rest on it. `NoEventLost` and
`CleanExitComplete` need in addition where every event is: in the queue, in hand and
how far (`InHand`), or with the outputs (`Accounted`).

- `OutputsInOrder` has the hypothesis `DistinctLines`: no event is on two lines, since
  otherwise a document of its second line would be taken for one of its first. It carries,
  through both queues, that what was put on one end of a queue stays in the order of the
  file, and that what is settled and what is kept are closed under coming before.

**File follower.** `FollowerInv` says that the chunks of all files, file by file, are in
the order of their lines, and that the follower knows the inode of its file while that has
the path. `OrderInv` adds `Unread`: what the follower may still come to (files after its
own, its own from the offset on, or from the start once it has shrunk) was not read before.
`EventsOnceInOrder` assumes that the follower does not start at the beginning;
with `--from-beginning` a restart reads everything again, and `OneProcessOnceInOrder`
is what remains.

**Context and enrichment.** `IndexBounded`, `AlertsShowWhatFits` and
`AlertsEarnTheirLevel` follow from `EnrichmentInv`, `IndexForgetsOldest` from `FilingInv`. The work is in the lemmas about the
index (filing a record under a set of addresses in any order, both evictions) and about
`Newest`: taking the newest of two sets first and of their union then loses nothing that
fits.

- `IndexForgetsOldest` relates both indexes to the logs of what was filed. That a deque holds
  the last filings of its endpoint, and why it lacks an earlier one, is not inductive: whether
  the endpoint is evicted next depends on its place in the order. `Remembers` therefore has
  two parts. `Retains` says that the deque holds the filings after some place of the log, and
  that if it lacks any it is full, or `MaxEndpoints` other endpoints were written after the
  last one that it lacks. `Follows` says that whoever stands behind an endpoint in the order
  was written since its last filing, which is what makes an eviction due. A call files its
  record under its addresses one by one, so the step is taken for a log that has the record
  and a set of filings that grows by one address at a time (`FiledUnderAllRemembers`).

**Command line.** `OptionsAreHonoured` and `OutputIsKept` hold in every combination of
options and variables (`SettingsInv`: settings are made once, from valid options, before
anything else). `ValidateIsExact` counts the lines, for any number of them and any
documents: the two counters count the outcomes of all lines before the one at hand, and an
exception ends the command only for the two causes that are named. The latter is a fact about
all four parsers: only `duration` is converted by the coercion that overflows, and
only values at the edge of the calendar or of the interpreter raise otherwise (`SafeRow`,
`RaisedCause`). `SchemasAgree` holds of all documents too, whatever is wrong with them:
`RowFits` states which bounds of a row its model has room for, `ParserFits` checks it row by
row for the four parsers, and `RefusalIsKnown` derives from it, coercion by coercion, that
what comes out and is still refused has one of the five causes; `BlameIsDue` is about the
order in which `Parse` looks for faults.

### What is model-checked only

- Liveness (`CloseEnds`, `ShutdownEnds`, `ReplayCompletes`, `LiveFailureRaised`,
  `ReadsEverything` and the fairness part of `ImplementsDelivery`): the prover has
  neither fairness nor ENABLED.

These six are all the properties of the passing runs that no theorem states: each of their
invariants, and the one action property, `AcceptedKeySurvives`, is proved, and of
`ImplementsDelivery` the initial states and the steps (`SinkImplementsDelivery`,
`DaemonImplementsDelivery`).

## Not modelled, and the plan

Metric counters and logging have no control worth a state machine. The construction of the
OpenSearch client is pure I/O. Of the models, those of alerts and metrics, which only the
engine builds, are left out; the bounds of the settings appear as the assumptions on the
constants of the modules. Of the detectors, the weighted scores and the features they
rest on (entropy, labels, registrable domains) are left out: floating-point arithmetic on
real-valued statistics, whose thresholds TLC could only restate. The read-ahead buffer of
the follower's stream and the delay of `--rate` are left out.

What is left to do: the pure parts of the DNS score, its label statistics and the
registrable domain, as operators checked against a reference definition.
