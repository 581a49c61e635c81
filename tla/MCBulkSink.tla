---- MODULE MCBulkSink ----
(***************************************************************************)
(* BulkSink on a few documents, each emitted once and in a fixed order     *)
(* (they are told apart by their position only), with the number of times  *)
(* each has been sent.                                                     *)
(***************************************************************************)
EXTENDS BulkSink

CONSTANT MaxDocuments   \* bound: documents emitted before close is called

MCDocument == 1..MaxDocuments

VARIABLE sent           \* the attempts made for each document

mcVars == <<sinkVars, sent>>

\* The documents emitted so far are those settled or pending.
Emitted == Len(indexed) + Len(failed) + Len(Pending)

MCInit == SinkInit /\ sent = [d \in Document |-> 0]

EmitNext == Emitted < MaxDocuments /\ Emit(Emitted + 1)

MCNext ==
    \/ /\ closing = "open" /\ EmitNext
       /\ UNCHANGED sent
    \/ /\ CloseCalled \/ Close
       /\ UNCHANGED sent
    \/ /\ Work
       /\ sent' = IF worker = "sending"
                  THEN [d \in Document |-> sent[d] + (IF d \in ToSet(batch) THEN 1 ELSE 0)]
                  ELSE sent

MCSpec == MCInit /\ [][MCNext]_mcVars /\ SinkFairness

\* A document is given up only after max_retries + 1 attempts, and never sent more
\* often than that: retries of one batch do not eat into those of the next.
GivenUpAfterRetries ==
    /\ \A d \in ToSet(failed) : sent[d] = MaxRetries + 1
    /\ \A d \in ToSet(indexed) : sent[d] \in 1..(MaxRetries + 1)
====
