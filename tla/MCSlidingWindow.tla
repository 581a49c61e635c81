---- MODULE MCSlidingWindow ----
(***************************************************************************)
(* SlidingWindow with a log of what add accepted, for the properties that  *)
(* compare the deques with the whole past, and with the number of calls    *)
(* bounded by MaxAdds.                                                     *)
(***************************************************************************)
EXTENDS SlidingWindow, InOrder

CONSTANT MaxAdds

WindowSymmetry == Permutations(Key) \cup Permutations(Value)

VARIABLE log        \* the accepted events, in order of arrival

LoggedInit == Init /\ log = <<>>

LoggedLate ==
    \E k \in Key, t \in Time :
        /\ AddLate(k, t)
        /\ UNCHANGED log

LoggedAccepted ==
    \E k \in Key, t \in Time, v \in Value :
        /\ AddAccepted(k, t, v)
        /\ log' = Append(log, [key |-> k, timestamp |-> t, value |-> v])

LoggedNext ==
    /\ Len(log) + late_events < MaxAdds
    /\ LoggedLate \/ LoggedAccepted

LoggedSpec == LoggedInit /\ [][LoggedNext]_<<windowVars, log>>

-----------------------------------------------------------------------------
\* The places in the log of the events of k with timestamp t, and the places of those
\* that k still holds in its deque.
Arrived(k, t) == {i \in DOMAIN log : log[i].key = k /\ log[i].timestamp = t}

Kept(k, t) == {j \in DOMAIN windows[k] : windows[k][j].timestamp = t}

\* The values kept are those that arrived, in order of arrival.
Exact(k, t) ==
    \E f \in Matchings(Kept(k, t), Arrived(k, t)) :
        \A j \in Kept(k, t) : windows[k][j].value = log[f[j]].value

Fresh == {t \in Time : watermark # None /\ t >= watermark - Span}

\* Until a bound evicts something, the deque of every key is the exact window: at
\* each timestamp not older than one span it holds what arrived with it, in order
\* of arrival, however the arrivals of other keys and late events interleave.
ExactUntilEvicted ==
    evicted_values = 0 =>
        \A k \in Key, t \in Fresh : Exact(k, t)

\* No accepted event disappears silently: of those not older than one span, as
\* many are missing from the deques as evicted_values reports, at most, and
\* evicted_keys never exceeds it (no key is evicted empty).
LossAccounted ==
    LET missing == {i \in DOMAIN log : log[i].timestamp \in Fresh}
        live == {s \in Slots(windows, Key) :
                    windows[s[1]][s[2]].timestamp \in Fresh}
    IN  /\ Cardinality(missing) - Cardinality(live) <= evicted_values
        /\ evicted_keys <= evicted_values
====
