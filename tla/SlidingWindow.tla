---- MODULE SlidingWindow ----
(***************************************************************************)
(* KeyedSlidingWindow of correlation/window.py: the event-time window with *)
(* three capacity bounds in which both detectors keep their observations.  *)
(*                                                                         *)
(* A window (a deque) is a sequence of items in deque order.  The          *)
(* OrderedDict is the pair of                                              *)
(*   - order: its keys, least recently used first, and                     *)
(*   - windows: the deque of every key, empty for a key not in order.      *)
(* Time is Int: a window compares and subtracts timestamps, nothing else.  *)
(***************************************************************************)
EXTENDS Integers, Sequences, SequencesExt, FiniteSets

CONSTANTS
    Key,            \* the keys of the windows
    Value,          \* the payloads, which the window never looks at
    Time,           \* the event timestamps that can occur
    None,           \* the watermark before the first event
    Span,           \* window_seconds
    MaxKeys,        \* max_keys
    MaxValues,      \* max_values_per_key
    MaxTotal        \* max_total_values

\* What the constructor checks, and what a timestamp is.
ASSUME WindowAssumption ==
    /\ Time \subseteq Int
    /\ None \notin Int
    /\ Span \in Nat \ {0}
    /\ MaxKeys \in Nat \ {0}
    /\ MaxValues \in Nat \ {0}
    /\ MaxTotal \in Nat \ {0}
    /\ MaxTotal >= MaxValues

VARIABLES
    order,          \* keys of _windows, least recently used first
    windows,        \* the deques of _windows
    watermark,      \* _watermark
    value_count,    \* _value_count
    evicted_keys,
    evicted_values,
    late_events

windowVars == <<order, windows, watermark, value_count, evicted_keys,
                evicted_values, late_events>>

\* A TimedValue.
Item == [timestamp : Time, value : Value]

-----------------------------------------------------------------------------
\* Operators of the handlers.

\* The high-water mark once an event with timestamp t has been seen.
Advance(t) ==
    IF watermark = None \/ t > watermark THEN t ELSE watermark

\* Mutation of Prune: the cutoff itself counts as expired.
PruneInclusive(window, cutoff) ==
    LET stop == {i \in 1..Len(window) + 1 :
                    i <= Len(window) => window[i].timestamp > cutoff}
    IN  SubSeq(window, Min(stop), Len(window))

\* _prune: drop from the left until the first item is at or after cutoff.
Prune(window, cutoff) ==
    LET stop == {i \in 1..Len(window) + 1 :
                    i <= Len(window) => window[i].timestamp >= cutoff}
    IN  SubSeq(window, Min(stop), Len(window))

\* Mutations of Insert: always append; insert before equal timestamps.
InsertLast(window, item) == Append(window, item)

InsertBeforeEqual(window, item) ==
    LET later == {i \in 1..Len(window) + 1 :
                    i <= Len(window) => window[i].timestamp >= item.timestamp}
    IN  InsertAt(window, Min(later), item)

\* The append, or bisect_right and insert: item goes before the first later one.
Insert(window, item) ==
    LET later == {i \in 1..Len(window) + 1 :
                    i <= Len(window) => window[i].timestamp > item.timestamp}
    IN  InsertAt(window, Min(later), item)

\* The popleft loop of the per-key bound: keep the MaxValues last items.
Newest(window) ==
    IF Len(window) > MaxValues
    THEN SubSeq(window, Len(window) - MaxValues + 1, Len(window))
    ELSE window

\* The positions taken in the deques of the keys in ks.
Slots(deques, ks) ==
    UNION {{k} \X (1..Len(deques[k])) : k \in ks}

\* len() of the deques of the keys in ks, together.
Held(deques, ks) == Cardinality(Slots(deques, ks))

\* Mutations of Growth: the previous length is read after the insertion; what
\* expired is not counted.
GrowthAfterInsert(before, after) == Len(after) - (Len(before) + 1)

GrowthOfInsert(before, after) == IF Len(after) < Len(before) THEN 0 ELSE 1

\* By how much pruning, after an insertion or not, changed the length of a deque.
Growth(before, after) == Len(after) - Len(before)

\* Mutations: the emptied key stays listed; the used key keeps its place.
WithoutNothing(keys, k) == keys

TouchInPlace(keys, k) == IF k \in ToSet(keys) THEN keys ELSE Append(keys, k)

\* An OrderedDict's keys without k, and with k moved, or added, to their end.
Without(keys, k) ==
    IF k \in ToSet(keys)
    THEN RemoveAt(keys, CHOOSE i \in DOMAIN keys : keys[i] = k)
    ELSE keys

Touch(keys, k) == Append(Without(keys, k), k)

\* Mutation of Overflow: the total number of values is not looked at.
OverflowOfKeys(keys, deques, count) ==
    IF Len(keys) > MaxKeys THEN Len(keys) - MaxKeys ELSE 0

\* The popitem loop: how many keys go, oldest first, until both the number of
\* keys and the counted number of values are within their bounds.
Overflow(keys, deques, count) ==
    Min({n \in 0..Len(keys) :
            /\ Len(keys) - n <= MaxKeys
            /\ count - Held(deques, ToSet(SubSeq(keys, 1, n))) <= MaxTotal})

-----------------------------------------------------------------------------
Init ==
    /\ order = <<>>
    /\ windows = [k \in Key |-> <<>>]
    /\ watermark = None
    /\ value_count = 0
    /\ evicted_keys = 0
    /\ evicted_values = 0
    /\ late_events = 0

\* values, with a reference: prune the key, and delete it when that leaves it empty.
Values(k, reference) ==
    LET pruned == Prune(windows[k], reference - Span)
    IN  /\ windows' = [windows EXCEPT ![k] = pruned]
        /\ value_count' = value_count + Growth(windows[k], pruned)
        /\ order' = IF pruned = <<>> THEN Without(order, k) ELSE order

\* add, for an event more than one window behind the watermark: it is counted, and
\* the values of its key are returned.
AddLate(k, t) ==
    /\ t < Advance(t) - Span
    /\ late_events' = late_events + 1
    /\ Values(k, watermark)
    /\ UNCHANGED <<watermark, evicted_keys, evicted_values>>

\* add, for an event inside the accepted range: insert, prune, then enforce the
\* per-key bound and the two global bounds.
AddAccepted(k, t, v) ==
    /\ t >= Advance(t) - Span
    /\ watermark' = Advance(t)
    /\ LET inserted == Insert(windows[k], [timestamp |-> t, value |-> v])
           pruned == Prune(inserted, Advance(t) - Span)
           kept == Newest(pruned)
           deques == [windows EXCEPT ![k] = kept]
           keys == Touch(order, k)
           dropped == Len(pruned) - Len(kept)
           count == value_count + Growth(windows[k], pruned) - dropped
           n == Overflow(keys, deques, count)
           victims == ToSet(SubSeq(keys, 1, n))
       IN  /\ order' = SubSeq(keys, n + 1, Len(keys))
           /\ windows' = [q \in Key |-> IF q \in victims THEN <<>> ELSE deques[q]]
           /\ value_count' = count - Held(deques, victims)
           /\ evicted_values' = evicted_values + dropped + Held(deques, victims)
           /\ evicted_keys' = evicted_keys + n
    /\ UNCHANGED late_events

Add(k, t, v) == AddLate(k, t) \/ AddAccepted(k, t, v)

Next == \E k \in Key, t \in Time, v \in Value : Add(k, t, v)

Spec == Init /\ [][Next]_windowVars

-----------------------------------------------------------------------------
\* Properties.

\* Every variable has its type.  The deques hold items of the events seen and
\* order lists each key once.
TypeOK ==
    /\ order \in Seq(Key)
    /\ windows \in [Key -> Seq(Item)]
    /\ watermark \in Time \cup {None}
    /\ value_count \in Nat
    /\ evicted_keys \in Nat
    /\ evicted_values \in Nat
    /\ late_events \in Nat

\* OrderedDict discipline: a key is listed once, and it is listed exactly when it
\* holds a value; no call leaves an empty deque behind to use up a key.
KeysHoldValues ==
    /\ IsInjective(order)
    /\ \A k \in Key : (k \in ToSet(order)) <=> (windows[k] # <<>>)

\* _value_count, adjusted on four different paths, is the number of values held.
CountExact == value_count = Held(windows, Key)

\* The bounds that keep memory finite hold after every call, whatever the
\* order in which a flood of keys, values or late events arrives.
WithinCapacity ==
    /\ Len(order) <= MaxKeys
    /\ value_count <= MaxTotal
    /\ \A k \in Key : Len(windows[k]) <= MaxValues

\* A deque is sorted by event time, although events arrive out of order, never
\* spans more than one window, and never holds an event after the watermark:
\* the score of a detector reads first, last and the intervals between.
Chronological ==
    \A k \in Key : \A i, j \in 1..Len(windows[k]) :
        /\ i <= j => windows[k][i].timestamp <= windows[k][j].timestamp
        /\ windows[k][j].timestamp - windows[k][i].timestamp <= Span
        /\ windows[k][j].timestamp <= watermark

\* The key of an accepted event survives the eviction its own arrival causes, is
\* the most recently used one, and what add returns reaches back one span at most.
\* With a deque larger than MaxTotal it would evict itself.
AcceptedKeySurvives ==
    [][\A k \in Key, t \in Time, v \in Value : AddAccepted(k, t, v) =>
          /\ windows'[k] # <<>>
          /\ order'[Len(order')] = k
          /\ \A i \in 1..Len(windows'[k]) :
                windows'[k][i].timestamp >= watermark' - Span]_windowVars
====
