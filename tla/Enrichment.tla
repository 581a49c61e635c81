---- MODULE Enrichment ----
(***************************************************************************)
(* CorrelationEngine.process and _enrich (correlation/engine.py): context  *)
(* events are filed in the index; a candidate of a detector becomes an     *)
(* alert with the Suricata and authentication events around it, those of   *)
(* the index merged with those of the OpenSearch lookup, and with its      *)
(* confidence and severity raised by them.                                 *)
(*                                                                         *)
(* The engine belongs to one task, the consumer, and a call of process     *)
(* ends before the next one starts, so each call is one step: the await of *)
(* the lookup (a step of its own in Daemon) lets no other call in.         *)
(* Confidence is in hundredths; severity is 1 (low) to 4 (critical).       *)
(***************************************************************************)
EXTENDS ContextIndex

CONSTANTS
    Candidate,      \* what the detectors may report
    Document,       \* documents the OpenSearch index may hold
    ContextDelta,   \* context_window_seconds
    AuthDelta,      \* auth_window_seconds
    MaxMatches,     \* max_context_matches
    FailureBoost,   \* auth_failure_confidence_boost, in hundredths
    SeverityBoost   \* auth_failure_severity_boost

Critical == 4

ASSUME EnrichmentAssumption ==
    /\ \A c \in Candidate :
        /\ c.endpoints \subseteq Endpoint /\ c.endpoints # {} /\ IsFiniteSet(c.endpoints)
        /\ c.first_seen \in Int /\ c.last_seen \in Int /\ c.first_seen <= c.last_seen
        /\ c.confidence \in 0..100
        /\ c.severity \in 1..Critical
    /\ \A d \in Document :
        /\ d.parses \in BOOLEAN
        /\ d.event.endpoints \subseteq Endpoint /\ d.event.observed_at \in Int
    /\ IsFiniteSet(Document)
    /\ {ContextDelta, AuthDelta} \subseteq Nat \ {0}
    /\ MaxMatches \in Nat \ {0}
    /\ FailureBoost \in 0..50
    /\ SeverityBoost \in BOOLEAN

VARIABLES
    alert,              \* what the last call of process returned: no alert or one
    auth_lookup_errors,
    stored              \* the documents the OpenSearch index holds

enrichmentVars == <<suricata, authentication, alert, auth_lookup_errors, stored>>

EnrichmentInit ==
    /\ ContextInit
    /\ alert = {}
    /\ auth_lookup_errors = 0
    /\ stored \in SUBSET Document

-----------------------------------------------------------------------------
\* The records of an index within delta of the candidate.
Around(index, c, delta) ==
    Find(index, c.endpoints, c.first_seen - delta, c.last_seen + delta)

\* The documents the query of the lookup matches.
Hits(c) ==
    {d \in stored :
        /\ d.event.endpoints \cap c.endpoints # {}
        /\ d.event.observed_at \in (c.first_seen - AuthDelta)..(c.last_seen + AuthDelta)}

\* search: the newest MaxMatches hits, of which those that do not parse are left out.
Search(c) ==
    {{d.event : d \in {x \in Hits(c) : x.parses /\ x.event \in newest}} :
        newest \in Newest({d.event : d \in Hits(c)}, MaxMatches)}

\* Mutation of Failures: one failed login is not enough.
FailuresBeyondFirst(events) == Cardinality({e \in events : e.grave}) - 1

Failures(events) == Cardinality({e \in events : e.grave})

\* _increase_severity
IncreaseSeverity(severity) == IF severity < Critical THEN severity + 1 ELSE severity

Raised(severity, condition) == IF condition THEN IncreaseSeverity(severity) ELSE severity

Lesser(a, b) == IF a < b THEN a ELSE b

\* The alert _enrich returns for a candidate and its evidence.
Enriched(c, alerts, logins) ==
    LET failed == Failures(logins) > 0
        boost == (IF failed THEN FailureBoost ELSE 0) + (IF alerts # {} THEN 5 ELSE 0)
    IN  [candidate |-> c,
         confidence |-> Lesser(c.confidence + boost, 100),
         severity |-> Raised(Raised(c.severity, failed /\ SeverityBoost),
                             \E e \in alerts : e.grave),
         suricata |-> alerts,
         authentication |-> logins]

\* _enrich from the answer of the lookup on. The local events are limited before they
\* are merged with the remote ones, by id, and the result is limited again.
Enrich(c, remote) ==
    \E alerts \in Newest(Around(suricata, c, ContextDelta), MaxMatches),
       local \in Newest(Around(authentication, c, AuthDelta), MaxMatches) :
        \E logins \in Newest(local \cup remote, MaxMatches) :
            alert' = {Enriched(c, alerts, logins)}

LookupAnswers(c) ==
    /\ \E remote \in Search(c) : Enrich(c, remote)
    /\ UNCHANGED auth_lookup_errors

\* The lookup raises: the local evidence remains.
LookupFails(c) ==
    /\ Enrich(c, {})
    /\ auth_lookup_errors' = auth_lookup_errors + 1

ProcessSuricata(r) ==
    /\ AddSuricata(r)
    /\ alert' = {}
    /\ UNCHANGED <<auth_lookup_errors, stored>>

ProcessAuthentication(r) ==
    /\ AddAuthentication(r)
    /\ alert' = {}
    /\ UNCHANGED <<auth_lookup_errors, stored>>

\* A detector reports the candidate.
ProcessCandidate(c) ==
    /\ LookupAnswers(c) \/ LookupFails(c)
    /\ UNCHANGED <<suricata, authentication, stored>>

Process ==
    \/ \E r \in SuricataAlert : ProcessSuricata(r)
    \/ \E r \in EndpointAuthEvent : ProcessAuthentication(r)
    \/ \E c \in Candidate : ProcessCandidate(c)

EnrichmentSpec == EnrichmentInit /\ [][Process]_enrichmentVars

-----------------------------------------------------------------------------
\* Properties.

\* The evidence holds known matches, no more than fit, and one that it lacks comes after
\* MaxMatches other matches at least as new.
Complete(evidence, known, matches) ==
    /\ evidence \subseteq known
    /\ Cardinality(evidence) <= MaxMatches
    /\ \A e \in known \ evidence :
        Cardinality({x \in matches \ {e} : x.observed_at >= e.observed_at}) >= MaxMatches

\* An alert shows as much of what matches as fits, although the local events are limited
\* before the remote ones are known: everything in both indexes and in the store, where
\* a malformed document may take a place but is not shown, or, after a failed lookup,
\* everything in the indexes.
EvidenceComplete ==
    \A a \in alert :
        LET c == a.candidate
            alerts == Around(suricata, c, ContextDelta)
            local == Around(authentication, c, AuthDelta)
            hits == {d.event : d \in Hits(c)}
            parsed == {d.event : d \in {x \in Hits(c) : x.parses}}
        IN  /\ Complete(a.suricata, alerts, alerts)
            /\ \/ Complete(a.authentication, local \cup parsed, local \cup hits)
               \/ auth_lookup_errors > 0 /\ Complete(a.authentication, local, local)

\* Is there a grave record among the events known that no limit can keep out of the alert:
\* fewer than MaxMatches others of those that match are at least as new?
GraveFits(known, matches) ==
    \E e \in known :
        /\ e.grave
        /\ Cardinality({x \in matches \ {e} : x.observed_at >= e.observed_at}) < MaxMatches

\* The boosts are earned and given. A severity or confidence above the candidate's is
\* accounted for by the evidence that the alert shows: two levels take a failed login and
\* a grave Suricata alert, and neither leaves its scale. A failed login or a grave alert
\* in the index that is new enough for the limits raises the alert, whether the lookup
\* answers or not, each by its own level.
BoostsJustified ==
    \A a \in alert :
        LET c == a.candidate
            failed == \E e \in a.authentication : e.grave
            grave == \E e \in a.suricata : e.grave
            alerts == Around(suricata, c, ContextDelta)
            local == Around(authentication, c, AuthDelta)
            failure_due == GraveFits(local, local \cup {d.event : d \in Hits(c)})
            levels_due == (IF failure_due /\ SeverityBoost THEN 1 ELSE 0)
                            + (IF GraveFits(alerts, alerts) THEN 1 ELSE 0)
        IN  /\ a.severity \in Lesser(c.severity + levels_due, Critical)..Critical
            /\ a.confidence \in c.confidence..100
            /\ failure_due => a.confidence >= Lesser(c.confidence + FailureBoost, 100)
            /\ a.severity > c.severity => failed \/ grave
            /\ a.severity > c.severity + 1 => failed /\ grave
            /\ a.confidence > c.confidence + 5 => failed
            /\ a.confidence > c.confidence + FailureBoost => a.suricata # {}
====
