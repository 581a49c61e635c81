---- MODULE MCEnrichment ----
(***************************************************************************)
(* Enrichment with logs of the context events in order of arrival, with a  *)
(* few records around two candidates, and with the number of context       *)
(* events and of failed lookups bounded by MaxCalls and MaxErrors.         *)
(***************************************************************************)
EXTENDS Enrichment, InOrder

CONSTANTS n1, n2, n3, MaxCalls, MaxErrors

\* a4 has neither of its two addresses, a2 and s3 have one; s1 lies outside the window
\* of the first candidate by one, and a1 is the first inside.
Event(id, time, endpoints, grave) ==
    [id |-> id, observed_at |-> time, endpoints |-> endpoints, grave |-> grave]

a1 == Event("a1", 2, {n1, n2}, TRUE)
a2 == Event("a2", 3, {n1}, TRUE)
a3 == Event("a3", 4, {n2, n3}, FALSE)
a4 == Event("a4", 3, {}, TRUE)
s1 == Event("s1", 1, {n1, n2}, TRUE)
s2 == Event("s2", 5, {n2, n3}, FALSE)
s3 == Event("s3", 4, {n1}, TRUE)

MCEndpoint == {n1, n2, n3}
MCSuricataAlert == {s1, s2, s3}
MCEndpointAuthEvent == {a1, a2, a3, a4}

\* The store holds one of the sensor's own events, one more, and a malformed one.
MCDocument ==
    {[event |-> a1, parses |-> TRUE],
     [event |-> Event("d1", 3, {n2}, FALSE), parses |-> TRUE],
     [event |-> Event("d2", 5, {n1}, TRUE), parses |-> FALSE]}

MCCandidate ==
    {[endpoints |-> {n1, n2}, first_seen |-> 3, last_seen |-> 4,
      confidence |-> 88, severity |-> 3],
     [endpoints |-> {n3}, first_seen |-> 4, last_seen |-> 5,
      confidence |-> 70, severity |-> 2]}

VARIABLES
    suricataLog,        \* the records filed in each index so far
    authenticationLog

mcVars == <<enrichmentVars, suricataLog, authenticationLog>>

MCInit ==
    /\ EnrichmentInit
    /\ suricataLog = <<>>
    /\ authenticationLog = <<>>

MCFile ==
    /\ Len(suricataLog) + Len(authenticationLog) < MaxCalls
    /\ \/ \E e \in SuricataAlert :
            /\ ProcessSuricata(e)
            /\ suricataLog' = Append(suricataLog, e)
            /\ UNCHANGED authenticationLog
       \/ \E e \in EndpointAuthEvent :
            /\ ProcessAuthentication(e)
            /\ authenticationLog' = Append(authenticationLog, e)
            /\ UNCHANGED suricataLog

MCReport ==
    /\ \E c \in Candidate : ProcessCandidate(c)
    /\ auth_lookup_errors' <= MaxErrors
    /\ UNCHANGED <<suricataLog, authenticationLog>>

MCSpec == MCInit /\ [][MCFile \/ MCReport]_mcVars

-----------------------------------------------------------------------------
\* The places in the log of the records filed under e.
Filings(log, e) == {i \in DOMAIN log : e \in log[i].endpoints}

\* The endpoints that the records from one place to another were filed under.
Written(log, first, last) == UNION {log[k].endpoints : k \in first..last}

\* The other endpoints that had a record filed from the filing j under e to the next
\* one under e, or to now.
Between(log, filings, e, j) ==
    LET later == {k \in filings : k > j}
        until == IF later = {} THEN Len(log) ELSE Min(later)
    IN  Written(log, j, until) \ {e}

\* Whether the call that filed log[i] under e still counts for e: from there on, at most
\* MaxRecords were filed under e, and between two filings under e (or the last
\* one and now) fewer than MaxEndpoints other endpoints had a record filed.
Recent(log, e, i) ==
    LET filings == Filings(log, e)
        since == {j \in filings : j >= i}
    IN  /\ i \in filings
        /\ Cardinality(since) <= MaxRecords
        /\ \A j \in since : Cardinality(Between(log, filings, e, j)) < MaxEndpoints

\* The places after n.
After(places, n) == {i \in places : i > n}

\* The deque is what the log has at the places, in order.
Lists(deque, log, places) ==
    \E f \in Matchings(DOMAIN deque, places) :
        \A j \in DOMAIN deque : deque[j] = log[f[j]]

\* An index forgets only what its two bounds make it forget: an endpoint has the most
\* recent records filed under it, in order of arrival, and loses none while the index
\* has room for it and for every endpoint written since.
IndexExact(index, log) ==
    \A e \in Endpoint :
        /\ \E n \in 0..Len(log) :
                Lists(index.records[e], log, After(Filings(log, e), n))
        /\ Len(index.records[e]) >= Cardinality({i \in DOMAIN log : Recent(log, e, i)})

\* Both indexes of the engine, after any order of context events, hold the last that
\* was filed under each of the endpoints written last.
ForgetsOldest ==
    /\ IndexExact(suricata, suricataLog)
    /\ IndexExact(authentication, authenticationLog)
====
