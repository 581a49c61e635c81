---- MODULE MCDetector ----
(***************************************************************************)
(* Detector with a log of its hits, for the properties about the order in  *)
(* which alerts appear, on at most MaxCalls calls of observe.              *)
(***************************************************************************)
EXTENDS Detector

CONSTANTS MaxCalls, MinPeriod, MaxPeriod

VARIABLES
    hits,       \* the windows that scored, in order: key, time, alerted, bounds
    latest,     \* the timestamp of the last event observed
    in_order,   \* no event was older than the one observed before it
    calls

historyVars == <<hits, latest, in_order, calls>>

Symmetry == Permutations(Key \ Filtered) \cup Permutations(Uid)

Events == [key : Key, timestamp : Time, uid : Uid]

\* The gates of the beacon score: enough positive intervals and their median
\* within the period bounds.  With minimum_score = 0.0 they are the whole score.
PeriodicGate(entries) ==
    LET gaps == SelectSeq([i \in 1..Len(entries) - 1 |->
                               entries[i + 1].timestamp - entries[i].timestamp],
                          LAMBDA g : g > 0)
        sorted == SortSeq(gaps, <)
        n == Len(sorted)
        twiceMedian == sorted[(n + 1) \div 2] + sorted[n \div 2 + 1]
    IN  /\ n >= MinEvents - 1
        /\ n > 0
        /\ twiceMedian \in (2 * MinPeriod)..(2 * MaxPeriod)

MCInit ==
    /\ DetectorInit
    /\ hits = <<>>
    /\ latest = None
    /\ in_order = TRUE
    /\ calls = 0

\* The window of e scored.
Scored(e) == e.key \notin Filtered /\ ~ Duplicate(e) /\ Hit(e.key)

MCNext ==
    /\ calls < MaxCalls
    /\ \E e \in Event :
        /\ Observe(e)
        /\ hits' = IF Scored(e)
                   THEN Append(hits,
                          [key |-> e.key, at |-> e.timestamp,
                           alerted |-> candidate' # {},
                           first |-> windows'[e.key][1].timestamp,
                           last |-> windows'[e.key][Len(windows'[e.key])].timestamp])
                   ELSE hits
        /\ latest' = e.timestamp
        /\ in_order' = (in_order /\ (latest = None \/ latest <= e.timestamp))
        /\ calls' = calls + 1

MCSpec == MCInit /\ [][MCNext]_<<detectorVars, historyVars>>

-----------------------------------------------------------------------------
Alerts == {i \in DOMAIN hits : hits[i].alerted}

\* A second alert of a key falls within the cooldown of the one before it only if
\* the table had to give up the key meanwhile: since the key's last hit at least
\* MaxKeys other keys have scored.
CooldownKept ==
    \A i, j \in Alerts :
        LET k == hits[i].key
            between == {m \in (i + 1)..(j - 1) : hits[m].key = k}
            since == Max(between \cup {i})
        IN  /\ i < j
            /\ k = hits[j].key
            /\ between \cap Alerts = {}
            /\ hits[j].at - hits[i].at \in 0..(Cooldown - 1)
            => Cardinality({hits[m].key : m \in since..(j - 1)} \ {k}) >= MaxKeys

\* While events arrive in order and the table holds every key that alerts, no two
\* alerts are the same alert: key, first_seen and last_seen, which make up the
\* alert's id, tell them apart, and no alert overwrites another downstream.
AlertsDistinct ==
    (in_order /\ Cooldown > 0 /\ Cardinality({hits[i].key : i \in Alerts}) <= MaxKeys) =>
        \A i, j \in Alerts :
            /\ hits[i].key = hits[j].key
            /\ hits[i].first = hits[j].first
            /\ hits[i].last = hits[j].last
            => i = j

\* docs/ARCHITECTURE.md: an event older than one complete window behind the
\* watermark is counted as late and ignored by that detector.
LateIgnored ==
    [][late_events' > late_events => candidate' = {}]_<<detectorVars, historyVars>>

\* docs/DETECTIONS.md: a key enters an event-time cooldown after alerting.  While
\* the table holds every key, no alert of a key has an event time in the cooldown
\* that an alert before it started.
CooldownHolds ==
    Cardinality({hits[i].key : i \in Alerts}) <= MaxKeys =>
        \A i, j \in Alerts :
            i < j /\ hits[i].key = hits[j].key =>
                hits[j].at - hits[i].at \notin 0..(Cooldown - 1)
====
