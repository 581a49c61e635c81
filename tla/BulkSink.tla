---- MODULE BulkSink ----
(***************************************************************************)
(* OpenSearchBulkSink (sinks/opensearch.py): emit puts documents on a      *)
(* bounded queue, one worker task takes them off in batches, sends each    *)
(* batch with retries, and counts it as indexed or as failed; failed       *)
(* batches go to the dead-letter file.  close sends the worker a stop      *)
(* marker and awaits it.                                                   *)
(*                                                                         *)
(* A call that awaits room in the queue is an action that is not enabled.  *)
(***************************************************************************)
EXTENDS Integers, Sequences, SequencesExt

CONSTANTS
    Document,       \* what the callers emit
    Stop,           \* _STOP
    BulkQueueSize,  \* queue_size
    BatchSize,      \* batch_size
    MaxRetries,     \* max_retries
    DeadLetterPath, \* is dead_letter_path configured?
    PartialFaults,  \* may a request that fails have stored part of its batch?
    DiskFaults      \* may an append to the dead-letter file raise OSError?

ASSUME SinkAssumption ==
    /\ Stop \notin Document
    /\ BulkQueueSize \in Nat \ {0}
    /\ BatchSize \in Nat \ {0}
    /\ MaxRetries \in Nat
    /\ {DeadLetterPath, PartialFaults, DiskFaults} \subseteq BOOLEAN

VARIABLES
    bulk,           \* _queue
    worker,         \* where the _worker task is
    batch,          \* batch, in _run
    stopping,       \* stopping, in _run
    attempt,        \* attempt, in _flush
    stored,         \* the documents in OpenSearch, by _id
    indexed,        \* the documents that indexed_documents counts, in order
    failed,         \* the documents that failed_documents counts, in order
    dead_letters,   \* the dead-letter file
    closing         \* how far close has come

sinkVars == <<bulk, worker, batch, stopping, attempt, stored, indexed, failed,
              dead_letters, closing>>

\* "none": _worker is None; "idle": awaiting the first document of a batch;
\* "filling": awaiting more until the deadline; "sending": a bulk request is out;
\* "dead_lettering": appending to the file; "done", "dead": the task has ended,
\* dead when an exception ended it.
WorkerState == {"none", "idle", "filling", "sending", "dead_lettering", "done", "dead"}

\* "open": close not called; "stop": it awaits room for the marker; "join": it awaits
\* the worker; "closed", "raised": it returned, or raised the worker's exception.
ClosingState == {"open", "stop", "join", "closed", "raised"}

-----------------------------------------------------------------------------
SinkInit ==
    /\ bulk = <<>>
    /\ worker = "none"
    /\ batch = <<>>
    /\ stopping = FALSE
    /\ attempt = 0
    /\ stored = {}
    /\ indexed = <<>>
    /\ failed = <<>>
    /\ dead_letters = <<>>
    /\ closing = "open"

HasRoom == Len(bulk) < BulkQueueSize

\* Mutation of Emit: a full queue drops the document and the caller goes on.
EmitOrDrop(d) ==
    /\ bulk' = IF HasRoom THEN Append(bulk, d) ELSE bulk
    /\ worker' = IF worker = "none" THEN "idle" ELSE worker
    /\ UNCHANGED <<batch, stopping, attempt, stored, indexed, failed, dead_letters, closing>>

\* emit: the first call starts the worker, every call awaits room.  Nothing here
\* looks at whether the worker is still alive.
Emit(d) ==
    /\ HasRoom
    /\ bulk' = Append(bulk, d)
    /\ worker' = IF worker = "none" THEN "idle" ELSE worker
    /\ UNCHANGED <<batch, stopping, attempt, stored, indexed, failed, dead_letters, closing>>

-----------------------------------------------------------------------------
\* close, in three steps: it may await room, then the worker.

CloseCalled ==
    /\ closing = "open"
    /\ closing' = IF worker = "none" THEN "closed" ELSE "stop"
    /\ UNCHANGED <<bulk, worker, batch, stopping, attempt, stored, indexed, failed,
                   dead_letters>>

CloseStop ==
    /\ closing = "stop"
    /\ HasRoom
    /\ bulk' = Append(bulk, Stop)
    /\ closing' = "join"
    /\ UNCHANGED <<worker, batch, stopping, attempt, stored, indexed, failed, dead_letters>>

\* await self._worker raises what ended the worker; then _worker is not reset.
CloseJoin ==
    /\ closing = "join"
    /\ worker \in {"done", "dead"}
    /\ closing' = IF worker = "done" THEN "closed" ELSE "raised"
    /\ worker' = IF worker = "done" THEN "none" ELSE worker
    /\ UNCHANGED <<bulk, batch, stopping, attempt, stored, indexed, failed, dead_letters>>

-----------------------------------------------------------------------------
\* _run.

TakeFirst ==
    /\ worker = "idle"
    /\ bulk # <<>>
    /\ Head(bulk) # Stop
    /\ batch' = <<Head(bulk)>>
    /\ bulk' = Tail(bulk)
    /\ worker' = "filling"
    /\ UNCHANGED <<stopping, attempt, stored, indexed, failed, dead_letters, closing>>

TakeStop ==
    /\ worker = "idle"
    /\ bulk # <<>>
    /\ Head(bulk) = Stop
    /\ bulk' = Tail(bulk)
    /\ worker' = "done"
    /\ UNCHANGED <<batch, stopping, attempt, stored, indexed, failed, dead_letters, closing>>

\* Mutation of Fill: the bound of the loop is off by one.
FillPast ==
    /\ worker = "filling"
    /\ Len(batch) <= BatchSize
    /\ bulk # <<>>
    /\ Head(bulk) # Stop
    /\ batch' = Append(batch, Head(bulk))
    /\ bulk' = Tail(bulk)
    /\ UNCHANGED <<worker, stopping, attempt, stored, indexed, failed, dead_letters, closing>>

Fill ==
    /\ worker = "filling"
    /\ Len(batch) < BatchSize
    /\ bulk # <<>>
    /\ Head(bulk) # Stop
    /\ batch' = Append(batch, Head(bulk))
    /\ bulk' = Tail(bulk)
    /\ UNCHANGED <<worker, stopping, attempt, stored, indexed, failed, dead_letters, closing>>

\* Mutations of FillStop: the worker does not remember that it was told to stop; it
\* ends without flushing the batch it holds.
FillStopForgotten ==
    /\ worker = "filling"
    /\ Len(batch) < BatchSize
    /\ bulk # <<>>
    /\ Head(bulk) = Stop
    /\ bulk' = Tail(bulk)
    /\ worker' = "sending"
    /\ UNCHANGED <<batch, stopping, attempt, stored, indexed, failed, dead_letters, closing>>

FillStopUnflushed ==
    /\ worker = "filling"
    /\ Len(batch) < BatchSize
    /\ bulk # <<>>
    /\ Head(bulk) = Stop
    /\ bulk' = Tail(bulk)
    /\ worker' = "done"
    /\ UNCHANGED <<batch, stopping, attempt, stored, indexed, failed, dead_letters, closing>>

FillStop ==
    /\ worker = "filling"
    /\ Len(batch) < BatchSize
    /\ bulk # <<>>
    /\ Head(bulk) = Stop
    /\ bulk' = Tail(bulk)
    /\ stopping' = TRUE
    /\ worker' = "sending"
    /\ UNCHANGED <<batch, attempt, stored, indexed, failed, dead_letters, closing>>

\* The batch is full, or its deadline has passed.
StartFlush ==
    /\ worker = "filling"
    /\ worker' = "sending"
    /\ UNCHANGED <<bulk, batch, stopping, attempt, stored, indexed, failed, dead_letters,
                   closing>>

-----------------------------------------------------------------------------
\* _flush.

\* The end of an iteration of _run: the while condition reads stopping.
EndFlush ==
    /\ batch' = <<>>
    /\ attempt' = 0
    /\ worker' = IF stopping THEN "done" ELSE "idle"

\* Mutation of AttemptSucceeds: the errors flag of the response is not read, so that
\* items the server refused count as indexed.
AttemptAnswered ==
    /\ worker = "sending"
    /\ \E part \in SUBSET ToSet(batch) : stored' = stored \cup part
    /\ indexed' = indexed \o batch
    /\ EndFlush
    /\ UNCHANGED <<bulk, stopping, failed, dead_letters, closing>>

\* The response carries no errors.
AttemptSucceeds ==
    /\ worker = "sending"
    /\ stored' = stored \cup ToSet(batch)
    /\ indexed' = indexed \o batch
    /\ EndFlush
    /\ UNCHANGED <<bulk, stopping, failed, dead_letters, closing>>

\* Mutation of Exhausted: the batch is not counted.
ExhaustedUncounted ==
    /\ UNCHANGED failed
    /\ IF DeadLetterPath
       THEN worker' = "dead_lettering" /\ UNCHANGED <<batch, attempt>>
       ELSE EndFlush

\* The retries are exhausted: the batch counts as failed, and goes to the file if
\* there is one.
Exhausted ==
    /\ failed' = failed \o batch
    /\ IF DeadLetterPath
       THEN worker' = "dead_lettering" /\ UNCHANGED <<batch, attempt>>
       ELSE EndFlush

\* What the server has stored of a batch when the request failed.
StoreSome ==
    \E part \in IF PartialFaults THEN SUBSET ToSet(batch) ELSE {{}} : stored' = stored \cup part

\* Mutation of AttemptFails: the range of the loop ends one attempt early.
AttemptFailsEarly ==
    /\ worker = "sending"
    /\ StoreSome
    /\ IF attempt + 1 < MaxRetries
       THEN attempt' = attempt + 1 /\ UNCHANGED <<worker, batch, failed>>
       ELSE Exhausted
    /\ UNCHANGED <<bulk, stopping, indexed, dead_letters, closing>>

\* The request raised, or the response carries errors; the whole batch is sent
\* again after a bounded delay, whatever the server stored of it.
AttemptFails ==
    /\ worker = "sending"
    /\ StoreSome
    /\ IF attempt < MaxRetries
       THEN attempt' = attempt + 1 /\ UNCHANGED <<worker, batch, failed>>
       ELSE Exhausted
    /\ UNCHANGED <<bulk, stopping, indexed, dead_letters, closing>>

\* Mutation of WriteDeadLetters: only the first document of the batch is written.
WriteDeadLetter ==
    /\ worker = "dead_lettering"
    /\ dead_letters' = Append(dead_letters, Head(batch))
    /\ EndFlush
    /\ UNCHANGED <<bulk, stopping, stored, indexed, failed, closing>>

WriteDeadLetters ==
    /\ worker = "dead_lettering"
    /\ dead_letters' = dead_letters \o batch
    /\ EndFlush
    /\ UNCHANGED <<bulk, stopping, stored, indexed, failed, closing>>

\* The directory, the open or a write raises OSError, which nothing in _flush or _run
\* catches: the task ends.
DeadLetterError ==
    /\ DiskFaults
    /\ worker = "dead_lettering"
    /\ \E n \in 0..(Len(batch) - 1) : dead_letters' = dead_letters \o SubSeq(batch, 1, n)
    /\ worker' = "dead"
    /\ UNCHANGED <<bulk, batch, stopping, attempt, stored, indexed, failed, closing>>

-----------------------------------------------------------------------------
Work ==
    \/ TakeFirst \/ TakeStop \/ Fill \/ FillStop \/ StartFlush
    \/ AttemptSucceeds \/ AttemptFails \/ WriteDeadLetters \/ DeadLetterError

Close == CloseStop \/ CloseJoin

\* The daemon calls close after the tasks that emit have ended.
SinkNext ==
    \/ closing = "open" /\ \E d \in Document : Emit(d)
    \/ CloseCalled
    \/ Close
    \/ Work

\* The worker is a task of the event loop, its requests have a timeout and its delays
\* are bounded; a caller of close is another task.
SinkFairness == WF_sinkVars(Work) /\ WF_sinkVars(Close)

SinkSpec == SinkInit /\ [][SinkNext]_sinkVars /\ SinkFairness

-----------------------------------------------------------------------------
\* Properties.

\* The documents a queue holds; the marker can only be the last item.
Documents(q) ==
    IF q # <<>> /\ q[Len(q)] = Stop THEN SubSeq(q, 1, Len(q) - 1) ELSE q

\* What the worker holds and has not settled.
Unsettled == IF worker \in {"filling", "sending"} THEN batch ELSE <<>>

Pending == Unsettled \o Documents(bulk)

\* Every variable of the sink has its type.
SinkTypeOK ==
    /\ bulk \in Seq(Document \cup {Stop}) /\ Len(bulk) <= BulkQueueSize
    /\ worker \in WorkerState
    /\ batch \in Seq(Document) /\ Len(batch) <= BatchSize
    /\ stopping \in BOOLEAN
    /\ attempt \in 0..MaxRetries
    /\ stored \subseteq Document
    /\ indexed \in Seq(Document)
    /\ failed \in Seq(Document)
    /\ dead_letters \in Seq(Document)
    /\ closing \in ClosingState

\* indexed_documents never overstates: what it counts is in OpenSearch, although a
\* batch is stored in parts, over several attempts, and a response may be lost.
CountedIsStored == ToSet(indexed) \subseteq stored

\* With a dead-letter path, the file holds exactly the documents that
\* failed_documents counts, in order, while the worker lives.
FailedIsKept ==
    DeadLetterPath /\ worker # "dead" =>
        failed = dead_letters \o (IF worker = "dead_lettering" THEN batch ELSE <<>>)

\* close returns normally only with everything settled: nothing is left in the
\* queue or in the worker's hands.
CloseFlushes ==
    closing = "closed" => bulk = <<>> /\ batch = <<>> /\ worker = "none"

\* BulkSink implements Delivery: batches, retries, deadlines and the stop marker
\* neither lose, repeat nor reorder a document, and only a dead worker leaves one
\* unsettled.
Abstract == INSTANCE Delivery WITH
    pending <- Pending,
    delivered <- indexed,
    given_up <- failed,
    broken <- (worker = "dead")

ImplementsDelivery == Abstract!DeliverySpec

\* A close that has begun ends, unless the worker has died.
CloseEnds == (closing = "stop") ~> (closing \in {"closed", "raised"} \/ worker = "dead")
====
