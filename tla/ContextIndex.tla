---- MODULE ContextIndex ----
(***************************************************************************)
(* TemporalContextIndex (correlation/context.py): the recent Suricata and  *)
(* authentication records of every endpoint, in two indexes of bounded     *)
(* deques with least-recently-written eviction of endpoints.               *)
(*                                                                         *)
(* A record is told apart by its id, its time, the endpoints it is filed   *)
(* under, and whether it is grave: a failed login, or a Suricata alert of  *)
(* severity 1 or 2. Two events with the same id are the same record.       *)
(***************************************************************************)
EXTENDS Integers, Sequences, FiniteSets, SequencesExt, FiniteSetsExt

CONSTANTS
    Endpoint,
    SuricataAlert,  \* records of the two kinds
    EndpointAuthEvent,
    MaxRecords,     \* max_records_per_endpoint
    MaxEndpoints    \* max_endpoints

Record == SuricataAlert \cup EndpointAuthEvent

ASSUME ContextAssumption ==
    /\ \A r \in Record :
        /\ r.observed_at \in Int
        /\ r.endpoints \subseteq Endpoint /\ Cardinality(r.endpoints) <= 2
        /\ IsFiniteSet(r.endpoints)
        /\ r.grave \in BOOLEAN
        /\ \A q \in Record : q.id = r.id => q = r
    /\ MaxRecords \in Nat \ {0}
    /\ MaxEndpoints \in Nat \ {0}

VARIABLES
    suricata,       \* _suricata
    authentication  \* _authentication

contextVars == <<suricata, authentication>>

\* order lists the endpoints of an index, least recently written first.
Index == [order : Seq(Endpoint), records : [Endpoint -> Seq(Record)]]

EmptyIndex == [order |-> <<>>, records |-> [p \in Endpoint |-> <<>>]]

ContextInit == suricata = EmptyIndex /\ authentication = EmptyIndex

-----------------------------------------------------------------------------
\* The last n items of a sequence.
LastOf(s, n) == SubSeq(s, IF Len(s) > n THEN Len(s) - n + 1 ELSE 1, Len(s))

\* The order after a record of p: p comes last, whether it was listed or not.
MovedToEnd(order, p) ==
    Append(IF p \in ToSet(order)
           THEN RemoveAt(order, CHOOSE i \in DOMAIN order : order[i] = p)
           ELSE order, p)

\* Mutations of Filed: the endpoint keeps its place in the order; the endpoints are
\* never evicted.
FiledInPlace(index, p, r) ==
    LET keys == IF p \in ToSet(index.order) THEN index.order ELSE Append(index.order, p)
        kept == LastOf(keys, MaxEndpoints)
    IN  [order |-> kept,
         records |-> [q \in Endpoint |->
            IF q \notin ToSet(kept) THEN <<>>
            ELSE IF q = p THEN LastOf(Append(index.records[q], r), MaxRecords)
            ELSE index.records[q]]]

FiledUnbounded(index, p, r) ==
    LET keys == MovedToEnd(index.order, p)
    IN  [order |-> keys,
         records |-> [index.records EXCEPT ![p] = LastOf(Append(@, r), MaxRecords)]]

\* _append: file the record under an endpoint, drop the oldest records over the
\* bound, then the least recently written endpoints over theirs.
Filed(index, p, r) ==
    LET keys == MovedToEnd(index.order, p)
        kept == LastOf(keys, MaxEndpoints)
    IN  [order |-> kept,
         records |-> [q \in Endpoint |->
            IF q \notin ToSet(kept) THEN <<>>
            ELSE IF q = p THEN LastOf(Append(index.records[q], r), MaxRecords)
            ELSE index.records[q]]]

\* The endpoints of a record, none, one or two, form a set: they are visited in any order.
FiledUnderAll(index, r) ==
    IF r.endpoints = {} THEN {index}
    ELSE UNION {LET first == Filed(index, p, r)
                    others == r.endpoints \ {p}
                IN  IF others = {} THEN {first} ELSE {Filed(first, q, r) : q \in others} :
                    p \in r.endpoints}

AddSuricata(r) ==
    /\ suricata' \in FiledUnderAll(suricata, r)
    /\ UNCHANGED authentication

AddAuthentication(r) ==
    /\ authentication' \in FiledUnderAll(authentication, r)
    /\ UNCHANGED suricata

-----------------------------------------------------------------------------
\* _find: the records of the endpoints in a window of time, each once.
Find(index, endpoints, start, end) ==
    {r \in UNION {ToSet(index.records[p]) : p \in endpoints} :
        r.observed_at \in start..end}

\* Mutation of Newest: sorted oldest first.
NewestLast(records, limit) ==
    LET n == IF Cardinality(records) < limit THEN Cardinality(records) ELSE limit
    IN  {chosen \in kSubset(n, records) :
            \A r \in chosen, q \in records \ chosen : q.observed_at >= r.observed_at}

\* The first limit records when sorted newest first; between records of the same time
\* any choice is allowed.
Newest(records, limit) ==
    LET n == IF Cardinality(records) < limit THEN Cardinality(records) ELSE limit
    IN  {chosen \in kSubset(n, records) :
            \A r \in chosen, q \in records \ chosen : q.observed_at <= r.observed_at}

-----------------------------------------------------------------------------
\* Properties.

\* An index lists each endpoint once, exactly when it has records, within both bounds.
WellFormed(index) ==
    /\ IsInjective(index.order)
    /\ Len(index.order) <= MaxEndpoints
    /\ \A p \in Endpoint :
        /\ (p \in ToSet(index.order)) <=> (index.records[p] # <<>>)
        /\ Len(index.records[p]) <= MaxRecords

\* Both indexes stay well formed and bounded under any flood of records.
ContextBounded == WellFormed(suricata) /\ WellFormed(authentication)
====
