---- MODULE Detector ----
(***************************************************************************)
(* The skeleton that BeaconDetector (correlation/beacon.py) and            *)
(* DnsTunnelDetector (correlation/dns_tunnel.py) share: filter, look for a *)
(* duplicate, add to the sliding window, score the window, and hold an     *)
(* alert back while its key is in its cooldown.                            *)
(*                                                                         *)
(* The line-by-line map is to beacon.py; dns_tunnel.py differs in the      *)
(* filter (Filtered), the minimum (min_queries) and the score (Suspicious).*)
(* The values of the window are the events; the event id is a hash of the  *)
(* timestamp and the uid the sensor gave (parsers/zeek.py:61).             *)
(***************************************************************************)
EXTENDS SlidingWindow

CONSTANTS
    Uid,            \* the sensor's identifiers of connections and queries
    Filtered,       \* keys excluded by address, port or allowlist
    MinEvents,      \* min_events, min_queries
    MaxReported,    \* 64: how many events a candidate lists by their id
    Cooldown,       \* cooldown_seconds
    Suspicious(_)   \* does this window score at least minimum_score?

ASSUME DetectorAssumption ==
    /\ Value = [key : Key, timestamp : Time, uid : Uid]
    /\ Filtered \subseteq Key
    /\ MinEvents \in 1..MaxValues
    /\ MaxReported \in Nat \ {0}
    /\ Cooldown \in Nat

VARIABLES
    cooling,        \* keys of _last_alert, least recently used first
    last_alert,     \* the timestamps of _last_alert
    candidate       \* what observe returned: a set of at most one candidate

detectorVars == <<windowVars, cooling, last_alert, candidate>>

Event == Value

Candidate ==
    [key : Key, first_seen : Time, last_seen : Time,
     count : Nat,             \* connection_count, query_count
     events : SUBSET Event]   \* event_ids

-----------------------------------------------------------------------------
DetectorInit ==
    /\ Init
    /\ cooling = <<>>
    /\ last_alert = [k \in Key |-> None]
    /\ candidate = {}

\* Mutation of Duplicate: only the newest entry is compared.
DuplicateOfLast(e) ==
    LET w == windows[e.key]
    IN  w # <<>> /\ w[Len(w)].value = e

\* any(entry.value.event_id == event.event_id for entry in values(key))
Duplicate(e) ==
    \E i \in 1..Len(windows[e.key]) :
        LET held == windows[e.key][i].value
        IN  held.timestamp = e.timestamp /\ held.uid = e.uid

\* The window that add returns holds enough events and scores high enough.
Hit(k) == Len(windows'[k]) >= MinEvents /\ Suspicious(windows'[k])

\* Mutation of InCooldown: an event with the timestamp of the alert is outside.
InCooldownAfter(e) ==
    /\ last_alert[e.key] # None
    /\ e.timestamp - last_alert[e.key] \in 1..(Cooldown - 1)

\* _last_alert holds an alert of the key that is not older than the cooldown; an
\* alert with a later timestamp than the event does not count.
InCooldown(e) ==
    /\ last_alert[e.key] # None
    /\ e.timestamp - last_alert[e.key] \in 0..(Cooldown - 1)

\* Mutation of Report: the list is cut at the wrong end.
ReportOldest(e) ==
    LET entries == windows'[e.key]
        listed == {i \in DOMAIN entries : i <= MaxReported}
    IN  [key |-> e.key,
         first_seen |-> entries[1].timestamp,
         last_seen |-> entries[Len(entries)].timestamp,
         count |-> Len(entries),
         events |-> {entries[i].value : i \in listed}]

\* The candidate reported for the window that add returned: it counts every entry
\* and lists the last MaxReported of them, entries[-64:].
Report(e) ==
    LET entries == windows'[e.key]
        listed == {i \in DOMAIN entries : i > Len(entries) - MaxReported}
    IN  [key |-> e.key,
         first_seen |-> entries[1].timestamp,
         last_seen |-> entries[Len(entries)].timestamp,
         count |-> Len(entries),
         events |-> {entries[i].value : i \in listed}]

\* Mutations of Remember: the table has no bound; a later alert of a key does not
\* renew its time.
RememberUnbounded(e) ==
    /\ cooling' = Touch(cooling, e.key)
    /\ last_alert' = [last_alert EXCEPT ![e.key] = e.timestamp]

RememberOnce(e) ==
    LET keys == Touch(cooling, e.key)
        n == IF Len(keys) > MaxKeys THEN Len(keys) - MaxKeys ELSE 0
        dropped == ToSet(SubSeq(keys, 1, n))
    IN  /\ cooling' = SubSeq(keys, n + 1, Len(keys))
        /\ last_alert' = [k \in Key |->
                            IF k \in dropped THEN None
                            ELSE IF k = e.key /\ last_alert[k] = None THEN e.timestamp
                            ELSE last_alert[k]]

\* Record the alert, and keep the table within max_keys by dropping the least
\* recently used keys.
Remember(e) ==
    LET keys == Touch(cooling, e.key)
        n == IF Len(keys) > MaxKeys THEN Len(keys) - MaxKeys ELSE 0
        dropped == ToSet(SubSeq(keys, 1, n))
    IN  /\ cooling' = SubSeq(keys, n + 1, Len(keys))
        /\ last_alert' = [k \in Key |->
                            IF k \in dropped THEN None
                            ELSE IF k = e.key THEN e.timestamp
                            ELSE last_alert[k]]

-----------------------------------------------------------------------------
\* The ways out of observe.

\* The event is of no interest to the detector.
ObserveFiltered(e) ==
    /\ e.key \in Filtered
    /\ candidate' = {}
    /\ UNCHANGED <<windowVars, cooling, last_alert>>

\* The event is in the window already.
ObserveDuplicate(e) ==
    /\ e.key \notin Filtered
    /\ Duplicate(e)
    /\ candidate' = {}
    /\ UNCHANGED <<windowVars, cooling, last_alert>>

\* The window that add returned is too short or does not score.
Quiet(e) ==
    /\ ~ Hit(e.key)
    /\ candidate' = {}
    /\ UNCHANGED <<cooling, last_alert>>

\* The window scores, and the key is in its cooldown.
Suppress(e) ==
    /\ Hit(e.key)
    /\ InCooldown(e)
    /\ cooling' = Touch(cooling, e.key)
    /\ candidate' = {}
    /\ UNCHANGED last_alert

\* The window scores, and the detector reports it.
Alert(e) ==
    /\ Hit(e.key)
    /\ ~ InCooldown(e)
    /\ Remember(e)
    /\ candidate' = {Report(e)}

ObserveNew(e) ==
    /\ e.key \notin Filtered
    /\ ~ Duplicate(e)
    /\ Add(e.key, e.timestamp, e)
    /\ Quiet(e) \/ Suppress(e) \/ Alert(e)

Observe(e) == ObserveFiltered(e) \/ ObserveDuplicate(e) \/ ObserveNew(e)

DetectorNext == \E e \in Event : Observe(e)

DetectorSpec == DetectorInit /\ [][DetectorNext]_detectorVars

-----------------------------------------------------------------------------
\* Properties.

\* Every variable of the detector has its type, and the cooldown table is an OrderedDict
\* within its bound: a key is listed once, exactly when the time of its alert is kept.
DetectorTypeOK ==
    /\ TypeOK
    /\ candidate \subseteq Candidate
    /\ cooling \in Seq(Key) /\ IsInjective(cooling) /\ Len(cooling) <= MaxKeys
    /\ last_alert \in [Key -> Time \cup {None}]
    /\ \A k \in Key : (k \in ToSet(cooling)) <=> (last_alert[k] # None)

\* A window counts each event once, however often a sensor file delivers it, so
\* that repeated lines cannot make up a beacon; filtered keys hold nothing.
DistinctEvents ==
    \A k \in Key :
        /\ \A i, j \in 1..Len(windows[k]) :
                windows[k][i].value = windows[k][j].value => i = j
        /\ k \in Filtered => windows[k] = <<>>

\* A candidate rests on a window that holds at least MinEvents different events of its
\* own key, as many as it counts, inside one window of time that its first_seen and
\* last_seen delimit.  It lists events of that window only, as many as MaxReported
\* allows, and leaves none out that is newer than one it lists; so with a minimum above
\* MaxReported the list alone does not show the minimum.
CandidateSupported ==
    \A c \in candidate :
        LET held == {windows[c.key][i].value : i \in DOMAIN windows[c.key]}
        IN  /\ Cardinality(held) >= MinEvents
            /\ c.count = Cardinality(held)
            /\ \A h \in held :
                    h.key = c.key /\ h.timestamp \in c.first_seen..c.last_seen
            /\ c.last_seen - c.first_seen <= Span
            /\ c.last_seen <= watermark
            /\ c.events \subseteq held
            /\ Cardinality(c.events) = IF c.count < MaxReported THEN c.count ELSE MaxReported
            /\ \A e \in c.events, h \in held \ c.events : h.timestamp <= e.timestamp
====
