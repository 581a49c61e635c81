---- MODULE DetectorProofs ----
(***************************************************************************)
(* Proofs about Detector, for every window, filter, cooldown and score:    *)
(* what a window holds are different events of its own key, a candidate    *)
(* rests on enough of them, a key in its cooldown does not alert again     *)
(* while the table remembers it, and alerts can be told apart.             *)
(***************************************************************************)
EXTENDS MCDetector, SlidingWindowProofs, FunctionTheorems

-----------------------------------------------------------------------------
\* The parts of the inductive invariant.

\* A deque of different events of key k, each held under its own time.
Content(w, k) ==
    /\ \A i \in 1..Len(w) : w[i].value.key = k /\ w[i].value.timestamp = w[i].timestamp
    /\ \A i, j \in 1..Len(w) : w[i].value = w[j].value => i = j
    /\ k \in Filtered => w = <<>>

WindowContent == \A k \in Key : Content(windows[k], k)

CooldownTable ==
    /\ cooling \in Seq(Key) /\ IsInjective(cooling) /\ Len(cooling) <= MaxKeys
    /\ last_alert \in [Key -> Time \cup {None}]
    /\ \A k \in Key : (k \in ToSet(cooling)) <=> (last_alert[k] # None)

\* The window's own invariant, what it holds, the cooldown table, and what observe
\* returned.  A candidate is supported because the window is sorted, spans one window of
\* time and never holds an event twice; its list is of the newest for the first reason.
DetectorInv ==
    /\ Inv
    /\ WindowContent
    /\ CooldownTable
    /\ candidate \subseteq Candidate
    /\ CandidateSupported

-----------------------------------------------------------------------------
\* Deques of different events.

\* An item of a deque.
LEMMA ItemType ==
    ASSUME DetectorAssumption, NEW w \in Seq(Item), NEW i \in 1..Len(w)
    PROVE  /\ w[i] \in Item /\ w[i].timestamp \in Time
           /\ w[i].value \in Event /\ w[i].value.key \in Key
<1>1. w[i] \in Item
  BY ElementOfSeq
<1> QED BY <1>1 DEF Item, Event, DetectorAssumption

\* The end of a deque holds no more than the deque.
LEMMA SuffixContent ==
    ASSUME NEW w \in Seq(Item), NEW k, Content(w, k), NEW m \in 0..Len(w)
    PROVE  Content(SubSeq(w, m + 1, Len(w)), k)
<1> DEFINE r == SubSeq(w, m + 1, Len(w))
<1>1. /\ r \in Seq(Item) /\ Len(r) = Len(w) - m
      /\ \A i \in 1..(Len(w) - m) : r[i] = w[i + m]
  BY SuffixProperties
<1>2. Len(w) \in Nat /\ m \in Nat
  BY LenProperties
<1> HIDE DEF r
<1>3. \A i \in 1..(Len(w) - m) : i + m \in 1..Len(w)
  BY <1>2
<1>4. ASSUME NEW i \in 1..Len(r)
      PROVE  r[i].value.key = k /\ r[i].value.timestamp = r[i].timestamp
  BY <1>1, <1>3 DEF Content
<1>5. ASSUME NEW i \in 1..Len(r), NEW j \in 1..Len(r), r[i].value = r[j].value PROVE i = j
  <2>1. i + m = j + m
    BY <1>1, <1>3, <1>5 DEF Content
  <2> QED BY <1>2, <2>1
<1>6. ASSUME k \in Filtered PROVE r = <<>>
  <2>1. Len(w) = 0
    BY <1>6 DEF Content
  <2>2. Len(r) <= 0
    BY <1>1, <1>2, <2>1
  <2>3. r # <<>> => Len(r) > 0
    BY <1>1, EmptySeq
  <2> QED BY <1>1, <2>2, <2>3, LenProperties
<1> QED BY <1>4, <1>5, <1>6 DEF Content, r

\* The empty deque.
LEMMA EmptyContent == \A k : Content(<<>>, k)
BY DEF Content

\* Pruning drops events from the left.
LEMMA PruneContent ==
    ASSUME NEW w \in Seq(Item), NEW k, Content(w, k), NEW cutoff \in Int
    PROVE  Content(Prune(w, cutoff), k)
BY PruneProperties, SuffixContent

\* The bound of a key, likewise.
LEMMA NewestContent ==
    ASSUME WindowAssumption, NEW w \in Seq(Item), NEW k, Content(w, k)
    PROVE  Content(Newest(w), k)
<1>1. Len(w) \in Nat /\ MaxValues \in Nat \ {0}
  BY LenProperties DEF WindowAssumption
<1>2. CASE Len(w) > MaxValues
  <2>1. Len(w) - MaxValues \in 0..Len(w)
    BY <1>1, <1>2
  <2> QED BY <1>2, <2>1, SuffixContent DEF Newest
<1> QED BY <1>2 DEF Newest

\* A new event of the key goes in.
LEMMA InsertContent ==
    ASSUME WindowAssumption, DetectorAssumption,
           NEW k \in Key \ Filtered, NEW w \in Seq(Item), Sorted(w), Content(w, k),
           NEW e \in Event, e.key = k, \A i \in 1..Len(w) : w[i].value # e
    PROVE  Content(Insert(w, [timestamp |-> e.timestamp, value |-> e]), k)
<1> DEFINE x == [timestamp |-> e.timestamp, value |-> e]
           s == Insert(w, x)
           n == Len(w)
<1>1. x \in Item
  BY DEF Item, Event, DetectorAssumption
<1>2. x.value = e /\ x.timestamp = e.timestamp
  OBVIOUS
<1> HIDE DEF x
<1>3. PICK p \in 1..n + 1 :
        /\ Len(s) = n + 1
        /\ \A i \in 1..n + 1 : s[i] = IF i < p THEN w[i] ELSE IF i = p THEN x ELSE w[i - 1]
  BY <1>1, InsertProperties
<1>4. n \in Nat /\ p \in Nat
  BY LenProperties
<1> HIDE DEF s
<1> DEFINE from(i) == IF i < p THEN i ELSE i - 1
<1>5. ASSUME NEW i \in 1..n + 1, i # p PROVE from(i) \in 1..n /\ s[i] = w[from(i)]
  BY <1>3, <1>4, <1>5 DEF n
<1>6. s[p] = x
  BY <1>3, <1>4
<1>7. ASSUME NEW i \in 1..n + 1
      PROVE  s[i].value.key = k /\ s[i].value.timestamp = s[i].timestamp
  <2>1. CASE i = p
    BY <1>2, <1>6, <2>1
  <2>2. CASE i # p
    BY <1>5, <2>2 DEF Content, n
  <2> QED BY <2>1, <2>2
<1>8. ASSUME NEW i \in 1..n + 1, NEW j \in 1..n + 1, s[i].value = s[j].value PROVE i = j
  <2>1. CASE i # p /\ j # p
    <3>1. from(i) = from(j)
      <4> HIDE DEF from
      <4> QED BY <1>5, <1>8, <2>1 DEF Content, n
    <3> QED BY <1>4, <2>1, <3>1
  <2>2. CASE i = p /\ j # p
    <3> HIDE DEF from
    <3> QED BY <1>2, <1>5, <1>6, <1>8, <2>2 DEF n
  <2>3. CASE i # p /\ j = p
    <3> HIDE DEF from
    <3> QED BY <1>2, <1>5, <1>6, <1>8, <2>3 DEF n
  <2> QED BY <2>1, <2>2, <2>3
<1> QED BY <1>3, <1>7, <1>8 DEF Content, s, x

-----------------------------------------------------------------------------
\* The steps of observe.

\* What add leaves in the windows, for an event that is in none.
LEMMA AddContent ==
    ASSUME WindowAssumption, DetectorAssumption, Inv, WindowContent,
           NEW e \in Event, e.key \notin Filtered, ~ Duplicate(e), Add(e.key, e.timestamp, e)
    PROVE  WindowContent'
<1> DEFINE k == e.key
           t == e.timestamp
           w == windows[k]
<1>1. k \in Key \ Filtered /\ t \in Time /\ t \in Int /\ Span \in Nat
  BY DEF Event, DetectorAssumption, WindowAssumption
<1>2. /\ windows \in [Key -> Seq(Item)] /\ w \in Seq(Item) /\ Content(w, k)
      /\ watermark \in Time \cup {None} /\ watermark \in Int \cup {None}
  BY <1>1 DEF Inv, TypeOK, WindowContent, WindowAssumption
<1>3. CASE AddLate(k, t)
  <2>1. watermark \in Int
    BY <1>1, <1>2, <1>3 DEF AddLate, Advance
  <2>2. windows' = [windows EXCEPT ![k] = Prune(w, watermark - Span)]
    BY <1>3 DEF AddLate, Values
  <2>3. watermark - Span \in Int
    BY <1>1, <2>1
  <2>4. Content(Prune(w, watermark - Span), k)
    BY <1>2, <2>3, PruneContent
  <2> QED BY <1>2, <2>2, <2>4 DEF WindowContent
<1>4. CASE AddAccepted(k, t, e)
  <2> DEFINE x == [timestamp |-> t, value |-> e]
             inserted == Insert(w, x)
             pruned == Prune(inserted, Advance(t) - Span)
             kept == Newest(pruned)
             deques == [windows EXCEPT ![k] = kept]
  <2>1. Advance(t) - Span \in Int /\ x \in Item
    BY <1>1, <1>2 DEF Advance, Item, Event, DetectorAssumption
  <2>2. Sorted(w)
    BY <1>1 DEF Inv, Chronological, Sorted
  <2>3. \A i \in 1..Len(w) : w[i].value # e
    BY DEF Duplicate
  <2>4. inserted \in Seq(Item) /\ Sorted(inserted)
    BY <1>2, <2>1, <2>2, InsertSorted
  <2>5. Content(inserted, k)
    BY <1>1, <1>2, <2>2, <2>3, InsertContent
  <2> HIDE DEF inserted
  <2>6. pruned \in Seq(Item) /\ Content(pruned, k)
    BY <2>1, <2>4, <2>5, PruneSorted, PruneContent
  <2> HIDE DEF pruned
  <2>7. Content(kept, k)
    BY <2>6, NewestContent
  <2> HIDE DEF kept
  <2>8. \A q \in Key : windows'[q] = <<>> \/ windows'[q] = deques[q]
    BY <1>4 DEF AddAccepted, deques, kept, pruned, inserted
  <2>9. \A q \in Key : Content(deques[q], q)
    BY <1>2, <2>7 DEF WindowContent
  <2> HIDE DEF deques
  <2> QED BY <2>8, <2>9, EmptyContent DEF WindowContent
<1> QED BY <1>3, <1>4 DEF Add

\* add keeps the invariant of the window.
LEMMA AddInv ==
    ASSUME WindowAssumption, DetectorAssumption, Inv, NEW e \in Event,
           Add(e.key, e.timestamp, e)
    PROVE  Inv'
<1>1. e.key \in Key /\ e.timestamp \in Time /\ e \in Value
  BY DEF Event, DetectorAssumption
<1> QED BY <1>1, AddLateInv, AddAcceptedInv DEF Add

\* The positions of a deque of different events behind the first m hold as many events.
LEMMA EventsCounted ==
    ASSUME NEW w \in Seq(Item), NEW k, Content(w, k), NEW m \in 0..Len(w)
    PROVE  Cardinality({w[i].value : i \in (m + 1)..Len(w)}) = Len(w) - m
<1> DEFINE n == Len(w)
           I == (m + 1)..n
           S == {w[i].value : i \in I}
           f == [i \in I |-> w[i].value]
<1>1. n \in Nat /\ m \in Nat /\ m <= n
  BY LenProperties
<1>2. I \subseteq 1..n
  BY <1>1
<1>3. \A i, j \in I : w[i].value = w[j].value => i = j
  BY <1>2 DEF Content
<1>4. IsFiniteSet(I) /\ Cardinality(I) = n - m
  <2>1. /\ IsFiniteSet(I)
        /\ Cardinality(I) = IF m + 1 > n THEN 0 ELSE n - (m + 1) + 1
    <3> HIDE DEF n
    <3> QED BY <1>1, FS_Interval
  <2> HIDE DEF I, n
  <2> QED BY <1>1, <2>1
<1>5. f \in Bijection(I, S)
  <2>1. f \in [I -> S]
    OBVIOUS
  <2>2. \A i, j \in I : f[i] = f[j] => i = j
    BY <1>3
  <2>3. \A x \in S : \E i \in I : f[i] = x
    OBVIOUS
  <2> HIDE DEF f, S, I
  <2> QED BY <2>1, <2>2, <2>3 DEF Bijection, Injection, Surjection, IsInjective
<1>6. ExistsBijection(I, S)
  BY <1>5 DEF ExistsBijection
<1> HIDE DEF I, S
<1>7. Cardinality(I) = Cardinality(S)
  BY <1>4, <1>6, FS_Bijection
<1> QED BY <1>4, <1>7 DEF S, I, n

\* What is listed of a window of n entries: the positions behind the first m.
LEMMA ListedPositions ==
    ASSUME DetectorAssumption, NEW w \in Seq(Item)
    PROVE  \E m \in 0..Len(w) :
             /\ {i \in DOMAIN w : i > Len(w) - MaxReported} = (m + 1)..Len(w)
             /\ Len(w) - m = IF Len(w) < MaxReported THEN Len(w) ELSE MaxReported
<1> DEFINE n == Len(w)
           m == IF n < MaxReported THEN 0 ELSE n - MaxReported
<1>1. n \in Nat /\ DOMAIN w = 1..n /\ MaxReported \in Nat \ {0}
  BY LenProperties DEF DetectorAssumption
<1> HIDE DEF n
<1>2. m \in 0..n /\ n - m = IF n < MaxReported THEN n ELSE MaxReported
  BY <1>1
<1>3. \A i : i \in {j \in 1..n : j > n - MaxReported} <=> i \in (m + 1)..n
  BY <1>1
<1> HIDE DEF m
<1>4. {i \in DOMAIN w : i > n - MaxReported} = (m + 1)..n
  BY <1>1, <1>3
<1> QED BY <1>2, <1>4 DEF n

\* What is reported of a window is a candidate, and the window supports it.
LEMMA ReportSupported ==
    ASSUME WindowAssumption, DetectorAssumption, Inv', WindowContent', NEW e \in Event,
           Len(windows'[e.key]) >= MinEvents, candidate' = {Report(e)}
    PROVE  candidate' \subseteq Candidate /\ CandidateSupported'
<1> DEFINE k == e.key
           w == windows'[k]
           n == Len(w)
           held == {w[i].value : i \in DOMAIN w}
<1>1. k \in Key /\ MinEvents \in Nat /\ MinEvents > 0 /\ MaxReported \in Nat
  BY DEF Event, DetectorAssumption, WindowAssumption
<1>2. w \in Seq(Item) /\ Content(w, k)
  BY <1>1 DEF Inv, TypeOK, WindowContent
<1>3. n \in Nat /\ n > 0 /\ DOMAIN w = 1..n /\ n >= MinEvents
  BY <1>1, <1>2, LenProperties
<1>4. \A i, j \in 1..n :
        /\ i <= j => w[i].timestamp <= w[j].timestamp
        /\ w[j].timestamp - w[i].timestamp <= Span
        /\ w[j].timestamp <= watermark'
  BY <1>1 DEF Inv, Chronological
<1>5. \A i \in 1..n : /\ w[i].timestamp \in Time /\ w[i].timestamp \in Int
                      /\ w[i].value \in Event
                      /\ w[i].value.key = k /\ w[i].value.timestamp = w[i].timestamp
  BY <1>2, ItemType DEF Content, WindowAssumption
<1>6. PICK m \in 0..n :
        /\ {i \in DOMAIN w : i > n - MaxReported} = (m + 1)..n
        /\ n - m = IF n < MaxReported THEN n ELSE MaxReported
  BY <1>2, ListedPositions
<1> DEFINE listed == {w[i].value : i \in (m + 1)..n}
<1>7. Report(e) = [key |-> k, first_seen |-> w[1].timestamp, last_seen |-> w[n].timestamp,
                   count |-> n, events |-> listed]
  BY <1>6 DEF Report
<1>8. Cardinality(listed) = IF n < MaxReported THEN n ELSE MaxReported
  BY <1>2, <1>6, EventsCounted
<1>9. Cardinality(held) = n
  <2>1. 0 \in 0..n /\ (0 + 1)..n = DOMAIN w
    BY <1>3
  <2>2. Cardinality({w[i].value : i \in (0 + 1)..n}) = n - 0
    BY <1>2, <2>1, EventsCounted
  <2>3. held = {w[i].value : i \in (0 + 1)..n}
    BY <2>1
  <2> QED BY <1>3, <2>2, <2>3
<1> HIDE DEF w, n, k
<1>10. 1 \in 1..n /\ n \in 1..n /\ (m + 1)..n \subseteq 1..n /\ \A i \in 1..n : 1 <= i /\ i <= n
  BY <1>3
<1>11. /\ held \subseteq Event
       /\ \A h \in held : h.key = k /\ h.timestamp \in w[1].timestamp..w[n].timestamp
  <2> SUFFICES ASSUME NEW i \in 1..n
               PROVE  /\ w[i].value \in Event /\ w[i].value.key = k
                      /\ w[i].value.timestamp \in w[1].timestamp..w[n].timestamp
    BY <1>3
  <2>1. w[1].timestamp <= w[i].timestamp /\ w[i].timestamp <= w[n].timestamp
    BY <1>4, <1>10
  <2> QED BY <1>5, <1>10, <2>1
<1>12. listed \subseteq held
  BY <1>3, <1>10
\* What is not listed stands before what is.
<1>13. \A x \in listed, h \in held \ listed : h.timestamp <= x.timestamp
  <2> SUFFICES ASSUME NEW i \in (m + 1)..n, NEW j \in 1..n, w[j].value \notin listed
               PROVE  w[j].value.timestamp <= w[i].value.timestamp
    BY <1>3
  <2>1. j \notin (m + 1)..n
    OBVIOUS
  <2>2. i \in 1..n /\ j <= i
    BY <1>3, <2>1
  <2> QED BY <1>4, <1>5, <2>2
<1> HIDE DEF held, listed
<1>14. Report(e) \in Candidate
  BY <1>1, <1>3, <1>5, <1>7, <1>10, <1>11, <1>12 DEF Candidate
<1>15. \A c \in candidate' :
         /\ {windows'[c.key][i].value : i \in DOMAIN windows'[c.key]} = held
         /\ c = Report(e)
  BY <1>7 DEF held, w, k
<1>16. w[n].timestamp - w[1].timestamp <= Span /\ w[n].timestamp <= watermark'
  BY <1>4, <1>10
<1>17. /\ Report(e).key = k /\ Report(e).count = n /\ Report(e).events = listed
       /\ Report(e).first_seen = w[1].timestamp /\ Report(e).last_seen = w[n].timestamp
  BY <1>7
<1>18. CandidateSupported'
  <2> SUFFICES ASSUME NEW c \in candidate'
               PROVE  /\ Cardinality(held) >= MinEvents
                      /\ c.count = Cardinality(held)
                      /\ \A h \in held : h.key = c.key /\ h.timestamp \in c.first_seen..c.last_seen
                      /\ c.last_seen - c.first_seen <= Span
                      /\ c.last_seen <= watermark'
                      /\ c.events \subseteq held
                      /\ Cardinality(c.events)
                            = IF c.count < MaxReported THEN c.count ELSE MaxReported
                      /\ \A x \in c.events, h \in held \ c.events : h.timestamp <= x.timestamp
    BY <1>15, ZenonT(30) DEF CandidateSupported
  <2>1. c = Report(e)
    BY <1>15
  <2> QED BY <1>3, <1>8, <1>9, <1>11, <1>12, <1>13, <1>16, <1>17, <2>1
<1> QED BY <1>14, <1>18

\* An alert recorded, within the bound of the table.
LEMMA RememberTable ==
    ASSUME WindowAssumption, CooldownTable, NEW e, e.key \in Key, e.timestamp \in Time, Remember(e)
    PROVE  CooldownTable'
<1> DEFINE keys == Touch(cooling, e.key)
           n == IF Len(keys) > MaxKeys THEN Len(keys) - MaxKeys ELSE 0
           dropped == ToSet(SubSeq(keys, 1, n))
<1>1. /\ cooling' = SubSeq(keys, n + 1, Len(keys))
      /\ last_alert' = [k \in Key |-> IF k \in dropped THEN None
                                      ELSE IF k = e.key THEN e.timestamp
                                      ELSE last_alert[k]]
  BY DEF Remember
<1>2. /\ cooling \in Seq(Key) /\ IsInjective(cooling)
      /\ last_alert \in [Key -> Time \cup {None}]
      /\ \A k \in Key : (k \in ToSet(cooling)) <=> (last_alert[k] # None)
  BY DEF CooldownTable
<1>3. /\ keys \in Seq(Key) /\ IsInjective(keys) /\ ToSet(keys) = ToSet(cooling) \cup {e.key}
  BY <1>2, TouchProperties
<1> HIDE DEF keys
<1>4. Len(keys) \in Nat /\ MaxKeys \in Nat
  BY <1>3, LenProperties DEF WindowAssumption
<1>5. n \in 0..Len(keys) /\ Len(keys) - n <= MaxKeys
  BY <1>4
<1> HIDE DEF n
<1>6. /\ cooling' \in Seq(Key) /\ IsInjective(cooling') /\ Len(cooling') = Len(keys) - n
      /\ ToSet(cooling') = ToSet(keys) \ dropped
  BY <1>1, <1>3, <1>5, EvictedKeys
<1> HIDE DEF dropped
<1>7. e.timestamp # None
  BY DEF WindowAssumption
<1>8. last_alert' \in [Key -> Time \cup {None}]
  BY <1>1, <1>2
<1>9. \A k \in Key : (k \in ToSet(cooling')) <=> (last_alert'[k] # None)
  BY <1>1, <1>2, <1>3, <1>6, <1>7
<1> QED BY <1>5, <1>6, <1>8, <1>9 DEF CooldownTable

\* A suppressed alert renews the place of its key in the table, not the time.
LEMMA TouchedTable ==
    ASSUME CooldownTable, MaxKeys \in Nat, NEW k \in Key, last_alert[k] # None,
           cooling' = Touch(cooling, k), UNCHANGED last_alert
    PROVE  CooldownTable'
<1>1. /\ cooling \in Seq(Key) /\ IsInjective(cooling) /\ Len(cooling) <= MaxKeys
      /\ k \in ToSet(cooling)
  BY DEF CooldownTable
<1> DEFINE keys == Touch(cooling, k)
<1>2. /\ keys \in Seq(Key) /\ IsInjective(keys)
      /\ ToSet(keys) = ToSet(cooling) \cup {k}
      /\ Len(keys) <= Len(cooling)
  BY <1>1, TouchProperties
<1>3. cooling' = keys
  OBVIOUS
<1> HIDE DEF keys
<1>4. ToSet(keys) = ToSet(cooling)
  BY <1>1, <1>2
<1>5. Len(keys) <= MaxKeys
  <2>1. Len(keys) \in Nat /\ Len(cooling) \in Nat
    BY <1>1, <1>2, LenProperties
  <2> QED BY <1>1, <1>2, <2>1
<1> QED BY <1>2, <1>3, <1>4, <1>5 DEF CooldownTable

-----------------------------------------------------------------------------
\* The invariant.

\* A new detector holds nothing.
LEMMA DetectorInitInv ==
    ASSUME WindowAssumption, DetectorInit
    PROVE  DetectorInv
<1>1. Inv /\ \A k \in Key : windows[k] = <<>>
  BY InitInv DEF DetectorInit, Init
<1>2. WindowContent
  BY <1>1, EmptyContent DEF WindowContent
<1>3. CooldownTable
  <2>1. cooling = <<>> /\ last_alert = [k \in Key |-> None]
    BY DEF DetectorInit
  <2>2. ToSet(<<>>) = {} /\ IsInjective(<<>>)
    BY DEF ToSet, IsInjective
  <2> QED BY <2>1, <2>2 DEF CooldownTable, WindowAssumption
<1>4. candidate = {}
  BY DEF DetectorInit
<1> QED BY <1>1, <1>2, <1>3, <1>4 DEF DetectorInv, CandidateSupported

\* One call of observe, through each of its ways out.
LEMMA ObserveInv ==
    ASSUME WindowAssumption, DetectorAssumption, DetectorInv, NEW e \in Event, Observe(e)
    PROVE  DetectorInv'
<1>1. /\ Inv /\ WindowContent /\ CooldownTable /\ MaxKeys \in Nat
      /\ e.key \in Key /\ e.timestamp \in Time
  BY DEF DetectorInv, WindowAssumption, Event, DetectorAssumption
<1>2. ASSUME candidate' = {} PROVE candidate' \subseteq Candidate /\ CandidateSupported'
  BY <1>2 DEF CandidateSupported
<1>3. CASE ObserveFiltered(e) \/ ObserveDuplicate(e)
  <2>1. candidate' = {} /\ UNCHANGED <<windowVars, cooling, last_alert>>
    BY <1>3 DEF ObserveFiltered, ObserveDuplicate
  <2>2. Inv'
    BY <1>1, <2>1, StutterInv
  <2>3. WindowContent' /\ CooldownTable'
    BY <1>1, <2>1 DEF WindowContent, CooldownTable, windowVars
  <2> QED BY <1>2, <2>1, <2>2, <2>3 DEF DetectorInv
<1>4. CASE ObserveNew(e)
  <2>1. Inv' /\ WindowContent'
    BY <1>1, <1>4, AddInv, AddContent DEF ObserveNew
  <2>2. CASE Quiet(e)
    <3>1. CooldownTable'
      BY <1>1, <2>2 DEF Quiet, CooldownTable
    <3> QED BY <1>2, <2>1, <2>2, <3>1 DEF Quiet, DetectorInv
  <2>3. CASE Suppress(e)
    <3>1. CooldownTable'
      BY <1>1, <2>3, TouchedTable DEF Suppress, InCooldown
    <3> QED BY <1>2, <2>1, <2>3, <3>1 DEF Suppress, DetectorInv
  <2>4. CASE Alert(e)
    <3>1. CooldownTable'
      BY <1>1, <2>4, RememberTable DEF Alert
    <3>2. candidate' = {Report(e)} /\ Len(windows'[e.key]) >= MinEvents
      BY <2>4 DEF Alert, Hit
    <3>3. candidate' \subseteq Candidate /\ CandidateSupported'
      BY <2>1, <3>2, ReportSupported
    <3> QED BY <2>1, <3>1, <3>3 DEF DetectorInv
  <2> QED BY <1>4, <2>2, <2>3, <2>4 DEF ObserveNew
<1> QED BY <1>3, <1>4 DEF Observe

\* A step that leaves the detector alone.
LEMMA DetectorStutter ==
    ASSUME DetectorInv, UNCHANGED detectorVars
    PROVE  DetectorInv'
<1>1. Inv'
  BY StutterInv DEF DetectorInv, detectorVars
<1>2. WindowContent' /\ CooldownTable' /\ candidate' \subseteq Candidate
  BY DEF DetectorInv, detectorVars, windowVars, WindowContent, CooldownTable
<1>3. windows' = windows /\ watermark' = watermark /\ candidate' = candidate
  BY DEF detectorVars, windowVars
<1>4. CandidateSupported' <=> CandidateSupported
  BY <1>3 DEF CandidateSupported
<1> QED BY <1>1, <1>2, <1>4 DEF DetectorInv

\* DetectorInv holds after every sequence of calls of observe.
THEOREM DetectorInvariant == DetectorSpec => []DetectorInv
<1>1. DetectorInit => DetectorInv
  BY DetectorInitInv, WindowAssumption
<1>2. DetectorInv /\ [DetectorNext]_detectorVars => DetectorInv'
  <2> SUFFICES ASSUME DetectorInv, [DetectorNext]_detectorVars PROVE DetectorInv'
    OBVIOUS
  <2>1. CASE \E e \in Event : Observe(e)
    BY <2>1, ObserveInv, WindowAssumption, DetectorAssumption
  <2>2. CASE UNCHANGED detectorVars
    BY <2>2, DetectorStutter
  <2> QED BY <2>1, <2>2 DEF DetectorNext
<1> QED BY <1>1, <1>2, PTL DEF DetectorSpec

\* Every variable of a detector keeps its type, and the cooldown table its bound.
THEOREM DetectorTypeCorrect == DetectorSpec => []DetectorTypeOK
<1>1. DetectorInv => DetectorTypeOK
  BY DEF DetectorInv, Inv, CooldownTable, DetectorTypeOK
<1> QED BY <1>1, DetectorInvariant, PTL

\* However often a sensor delivers an event, its window holds it once, and a filtered key
\* holds nothing.
THEOREM EventsCountOnce == DetectorSpec => []DistinctEvents
<1>1. DetectorInv => DistinctEvents
  BY DEF DetectorInv, WindowContent, Content, DistinctEvents
<1> QED BY <1>1, DetectorInvariant, PTL

\* What a detector reports rests on a window of at least MinEvents different events of the
\* key, in one window of time, and lists the newest of them up to MaxReported, which may be
\* fewer than MinEvents.
THEOREM CandidatesSupported == DetectorSpec => []CandidateSupported
<1>1. DetectorInv => CandidateSupported
  BY DEF DetectorInv
<1> QED BY <1>1, DetectorInvariant, PTL

-----------------------------------------------------------------------------
\* The order of alerts.

HitRecord ==
    [key : Key, at : Time, alerted : BOOLEAN, first : Time, last : Time]

LastHit == Len(hits)

\* i was the last alert of its key, and l its last hit.
LastAlertOf(i) == \A m \in (i + 1)..LastHit : hits[m].key = hits[i].key => ~ hits[m].alerted

LastHitOf(k, l) == hits[l].key = k /\ \A m \in (l + 1)..LastHit : hits[m].key # k

KeysHitAfter(l) == {hits[m].key : m \in (l + 1)..LastHit}

\* The table holds the time of the last alert of a key, and behind the key only keys that
\* were hit after it; or it gave the key up, and MaxKeys other keys were hit since.
Remembered(i, l) ==
    \/ /\ last_alert[hits[i].key] = hits[i].at
       /\ \A p, q \in DOMAIN cooling :
            p < q /\ cooling[p] = hits[i].key => cooling[q] \in KeysHitAfter(l)
    \/ /\ last_alert[hits[i].key] = None
       /\ Cardinality(KeysHitAfter(l)) >= MaxKeys

TableRemembers ==
    \A i \in Alerts : \A l \in i..LastHit :
        LastAlertOf(i) /\ LastHitOf(hits[i].key, l) => Remembered(i, l)

\* A scored window is suppressed or reported.
Suppressed(k, hit) ==
    /\ ~ hit.alerted
    /\ last_alert[k] # None
    /\ cooling' = Touch(cooling, k)
    /\ UNCHANGED last_alert

Reported(e, hit) ==
    /\ hit.alerted
    /\ ~ InCooldown(e)
    /\ Remember(e)

\* What a call of observe adds to the history.
LEMMA HitStep ==
    ASSUME WindowAssumption, DetectorAssumption, DetectorInv, hits \in Seq(HitRecord),
           NEW e \in Event, Observe(e),
           hits' = IF Scored(e)
                   THEN Append(hits,
                          [key |-> e.key, at |-> e.timestamp,
                           alerted |-> candidate' # {},
                           first |-> windows'[e.key][1].timestamp,
                           last |-> windows'[e.key][Len(windows'[e.key])].timestamp])
                   ELSE hits
    PROVE  \/ UNCHANGED <<hits, cooling, last_alert>>
           \/ \E hit \in HitRecord :
                /\ hits' = Append(hits, hit)
                /\ hit.key = e.key /\ hit.at = e.timestamp
                /\ hit.last = windows'[e.key][Len(windows'[e.key])].timestamp
                /\ ObserveNew(e)
                /\ Suppressed(e.key, hit) \/ Reported(e, hit)
<1>1. CASE ~ Scored(e)
  BY <1>1 DEF Scored, Observe, ObserveFiltered, ObserveDuplicate, ObserveNew, Quiet, Suppress,
        Alert
<1>2. CASE Scored(e)
  <2>1. ObserveNew(e) /\ Hit(e.key) /\ (Suppress(e) \/ Alert(e))
    BY <1>2 DEF Scored, Observe, ObserveFiltered, ObserveDuplicate, ObserveNew, Quiet
  <2>2. e.key \in Key /\ e.timestamp \in Time
    BY DEF Event, DetectorAssumption
  <2>3. windows'[e.key] \in Seq(Item)
    BY ObserveInv, <2>2 DEF DetectorInv, Inv, TypeOK
  <2>4. PICK w : w = windows'[e.key]
    OBVIOUS
  <2>5. Len(w) \in Nat /\ 1 \in 1..Len(w) /\ Len(w) \in 1..Len(w)
    BY <2>1, <2>3, <2>4, LenProperties DEF Hit, DetectorAssumption, WindowAssumption
  <2>6. w[1].timestamp \in Time /\ w[Len(w)].timestamp \in Time
    BY <2>3, <2>4, <2>5, ItemType
  <2>7. PICK alerted \in BOOLEAN : alerted = (candidate' # {})
    OBVIOUS
  <2> DEFINE hit == [key |-> e.key, at |-> e.timestamp, alerted |-> alerted,
                     first |-> w[1].timestamp, last |-> w[Len(w)].timestamp]
  <2>8. hit \in HitRecord /\ hits' = Append(hits, hit)
    BY <1>2, <2>2, <2>4, <2>6, <2>7 DEF HitRecord
  <2>9. Suppressed(e.key, hit) \/ Reported(e, hit)
    <3>1. CASE Suppress(e)
      BY <2>7, <3>1 DEF Suppress, Suppressed, InCooldown
    <3>2. CASE Alert(e)
      BY <2>7, <3>2 DEF Alert, Reported
    <3> QED BY <2>1, <3>1, <3>2
  <2>10. /\ hit.key = e.key /\ hit.at = e.timestamp
         /\ hit.last = windows'[e.key][Len(windows'[e.key])].timestamp
    BY <2>4
  <2> QED BY <2>1, <2>8, <2>9, <2>10
<1> QED BY <1>1, <1>2

\* A list of keys with one of them moved to its end keeps the order of the others.
LEMMA TouchOrder ==
    ASSUME NEW keys \in Seq(Key), IsInjective(keys), NEW k \in Key,
           NEW p \in DOMAIN Touch(keys, k), NEW q \in DOMAIN Touch(keys, k), p < q
    PROVE  \/ Touch(keys, k)[q] = k
           \/ \E i, j \in DOMAIN keys :
                i < j /\ keys[i] = Touch(keys, k)[p] /\ keys[j] = Touch(keys, k)[q]
<1> DEFINE r == Without(keys, k)
<1>1. r \in Seq(Key) /\ Len(r) \in Nat /\ Len(keys) \in Nat /\ DOMAIN keys = 1..Len(keys)
  BY WithoutProperties, LenProperties
<1>2. \A i, j \in 1..Len(r) : i < j =>
        \E a, b \in DOMAIN keys : a < b /\ keys[a] = r[i] /\ keys[b] = r[j]
  <2>1. CASE k \in ToSet(keys)
    <3> DEFINE c == CHOOSE i \in DOMAIN keys : keys[i] = k
    <3>1. c \in 1..Len(keys)
      BY <1>1, <2>1 DEF ToSet
    <3>2. r = RemoveAt(keys, c)
      BY <2>1 DEF Without
    <3> HIDE DEF c, r
    <3>3. /\ Len(r) = Len(keys) - 1
          /\ \A i \in 1..(Len(keys) - 1) : r[i] = IF i < c THEN keys[i] ELSE keys[i + 1]
      BY <3>1, <3>2, RemovedElement
    <3>4. PICK n \in Nat : n = Len(keys)
      BY <1>1
    <3>5. \A i \in 1..(n - 1) : r[i] = IF i < c THEN keys[i] ELSE keys[i + 1]
      BY <3>3, <3>4
    <3>6. c \in Nat /\ DOMAIN keys = 1..n /\ Len(r) = n - 1
      BY <1>1, <3>1, <3>3, <3>4
    <3>7. ASSUME NEW i \in 1..(n - 1), NEW j \in 1..(n - 1), i < j
          PROVE  \E a, b \in 1..n : a < b /\ keys[a] = r[i] /\ keys[b] = r[j]
      <4>1. PICK a \in 1..n : keys[a] = r[i] /\ a = IF i < c THEN i ELSE i + 1
        BY <3>5
      <4>2. PICK b \in 1..n : keys[b] = r[j] /\ b = IF j < c THEN j ELSE j + 1
        BY <3>5
      <4>3. a < b
        BY <3>6, <3>7, <4>1, <4>2
      <4> QED BY <4>1, <4>2, <4>3
    <3>8. ASSUME NEW i \in 1..Len(r), NEW j \in 1..Len(r), i < j
          PROVE  \E a, b \in DOMAIN keys : a < b /\ keys[a] = r[i] /\ keys[b] = r[j]
      <4>1. i \in 1..(n - 1) /\ j \in 1..(n - 1)
        BY <3>6
      <4>2. \E a, b \in 1..n : a < b /\ keys[a] = r[i] /\ keys[b] = r[j]
        BY <3>7, <3>8, <4>1
      <4> QED BY <3>6, <4>2
    <3> QED BY <3>8
  <2>2. CASE k \notin ToSet(keys)
    BY <1>1, <2>2 DEF Without
  <2> QED BY <2>1, <2>2
<1> HIDE DEF r
<1>3. PICK n \in Nat : n = Len(r)
  BY <1>1
<1>4. /\ Touch(keys, k) = Append(r, k) /\ DOMAIN Append(r, k) = 1..(n + 1)
      /\ Append(r, k)[n + 1] = k /\ \A i \in 1..n : Append(r, k)[i] = r[i]
  BY <1>1, <1>3 DEF Touch, r
<1>5. CASE q = n + 1
  BY <1>4, <1>5
<1>6. CASE q # n + 1
  <2>1. p \in 1..n /\ q \in 1..n
    BY <1>4, <1>6
  <2>2. Touch(keys, k)[p] = r[p] /\ Touch(keys, k)[q] = r[q]
    BY <1>4, <2>1
  <2>3. \E a, b \in DOMAIN keys : a < b /\ keys[a] = r[p] /\ keys[b] = r[q]
    BY <1>2, <1>3, <2>1
  <2> QED BY <2>2, <2>3
<1> QED BY <1>5, <1>6

\* A hit moves its key to the end of the cooldown table; the first d of the keys of the
\* list that makes are given up.
HitMoved(e, hit, keys, d) ==
    /\ DOMAIN cooling' = 1..(Len(keys) - d)
    /\ \A q \in 1..(Len(keys) - d) : cooling'[q] = keys[q + d]
    /\ d > 0 => Len(keys) - d >= MaxKeys
    /\ \A k \in Key :
          IF k = e.key
          THEN IF hit.alerted THEN last_alert'[k] = e.timestamp
               ELSE last_alert'[k] = last_alert[k] /\ last_alert[k] # None
          ELSE IF k \in {keys[j] : j \in 1..d} THEN last_alert'[k] = None
          ELSE last_alert'[k] = last_alert[k]

\* That is what a hit does, suppressed or reported.
LEMMA HitTable ==
    ASSUME WindowAssumption, CooldownTable, NEW e, e.key \in Key, e.timestamp \in Time,
           NEW hit, Suppressed(e.key, hit) \/ Reported(e, hit),
           NEW keys, keys = Touch(cooling, e.key)
    PROVE  \E d \in 0..(Len(keys) - 1) : HitMoved(e, hit, keys, d)
<1>1. /\ cooling \in Seq(Key) /\ IsInjective(cooling) /\ MaxKeys \in Nat /\ MaxKeys > 0
      /\ last_alert \in [Key -> Time \cup {None}]
  BY DEF CooldownTable, WindowAssumption
<1>2. /\ keys \in Seq(Key) /\ IsInjective(keys) /\ Len(keys) \in Nat \ {0}
      /\ keys[Len(keys)] = e.key /\ DOMAIN keys = 1..Len(keys)
  BY <1>1, TouchProperties, LenProperties
<1>3. PICK n \in Nat : n = Len(keys) /\ n > 0
  BY <1>2
<1>4. CASE Suppressed(e.key, hit)
  <2>1. cooling' = keys /\ last_alert' = last_alert /\ ~ hit.alerted /\ last_alert[e.key] # None
    BY <1>4 DEF Suppressed
  <2>2. {keys[j] : j \in 1..0} = {}
    OBVIOUS
  <2>3. /\ 0 \in 0..(n - 1) /\ DOMAIN cooling' = 1..(n - 0)
        /\ \A q \in 1..(n - 0) : cooling'[q] = keys[q + 0]
    BY <1>2, <1>3, <2>1
  <2>4. /\ DOMAIN cooling' = 1..(Len(keys) - 0)
        /\ \A q \in 1..(Len(keys) - 0) : cooling'[q] = keys[q + 0]
        /\ ~ (0 > 0)
    BY <1>3, <2>3
  <2>5. HitMoved(e, hit, keys, 0)
    BY <2>1, <2>2, <2>4 DEF HitMoved
  <2>6. 0 \in 0..(Len(keys) - 1)
    BY <1>3
  <2> QED BY <2>5, <2>6
<1>5. CASE Reported(e, hit)
  <2> DEFINE d == IF n > MaxKeys THEN n - MaxKeys ELSE 0
             dropped == ToSet(SubSeq(keys, 1, d))
  <2>1. /\ cooling' = SubSeq(keys, d + 1, Len(keys))
        /\ last_alert' = [k \in Key |-> IF k \in dropped THEN None
                                        ELSE IF k = e.key THEN e.timestamp
                                        ELSE last_alert[k]]
        /\ hit.alerted
    BY <1>3, <1>5 DEF Reported, Remember
  <2>2. d \in 0..(n - 1) /\ (d > 0 => n - d >= MaxKeys)
    BY <1>1, <1>3
  <2> HIDE DEF d
  <2>3. d \in 0..Len(keys)
    BY <1>3, <2>2
  <2>4. /\ dropped = {keys[j] : j \in 1..d}
        /\ Len(SubSeq(keys, d + 1, Len(keys))) = Len(keys) - d
        /\ \A i \in 1..(Len(keys) - d) : SubSeq(keys, d + 1, Len(keys))[i] = keys[i + d]
        /\ SubSeq(keys, d + 1, Len(keys)) \in Seq(Key)
    BY <1>2, <2>3, EvictedKeys
  <2>5. DOMAIN cooling' = 1..(Len(keys) - d)
    BY <2>1, <2>4, LenProperties
  <2>6. e.key \notin {keys[j] : j \in 1..d}
    <3> SUFFICES ASSUME NEW j \in 1..d, keys[j] = e.key PROVE FALSE
      OBVIOUS
    <3>1. DOMAIN keys = 1..n /\ keys[n] = e.key
      BY <1>2, <1>3
    <3>2. j \in 1..n /\ n \in 1..n /\ j # n
      BY <1>3, <2>2
    <3> QED BY <1>2, <3>1, <3>2 DEF IsInjective
  <2> HIDE DEF dropped
  <2>7. \A k \in Key :
            IF k = e.key THEN last_alert'[k] = e.timestamp
            ELSE IF k \in {keys[j] : j \in 1..d} THEN last_alert'[k] = None
            ELSE last_alert'[k] = last_alert[k]
    BY <2>1, <2>4, <2>6
  <2> QED BY <1>3, <2>1, <2>2, <2>4, <2>5, <2>7 DEF HitMoved
<1> QED BY <1>4, <1>5

\* One hit more in the history, after n others.
HitAdded(hit, n) ==
    /\ hits \in Seq(HitRecord) /\ Len(hits) = n /\ LastHit = n
    /\ hits' \in Seq(HitRecord) /\ Len(hits') = n + 1 /\ LastHit' = n + 1
    /\ hits'[n + 1] = hit
    /\ \A i \in 1..n : hits'[i] = hits[i] /\ hits[i] \in HitRecord
    /\ Alerts = {i \in 1..n : hits[i].alerted}
    /\ Alerts' = {i \in 1..(n + 1) : hits'[i].alerted}
    /\ \A l \in 0..n : KeysHitAfter(l)' = KeysHitAfter(l) \cup {hit.key}

\* That is what appending a hit does.
LEMMA HitAppended ==
    ASSUME hits \in Seq(HitRecord), NEW hit \in HitRecord, hits' = Append(hits, hit)
    PROVE  \E n \in Nat : HitAdded(hit, n)
<1>0. PICK n \in Nat : n = Len(hits)
  BY LenProperties
<1>1. /\ hits' \in Seq(HitRecord) /\ Len(hits') = n + 1 /\ hits'[n + 1] = hit
      /\ \A i \in 1..n : hits'[i] = hits[i]
  BY <1>0, AppendProperties
<1>2. DOMAIN hits = 1..n /\ DOMAIN hits' = 1..(n + 1)
  BY <1>0, <1>1, LenProperties
<1>3. \A i \in 1..n : hits[i] \in HitRecord
  BY <1>0, ElementOfSeq
<1>4. LastHit = n /\ LastHit' = n + 1
  BY <1>0, <1>1 DEF LastHit
<1>5. Alerts = {i \in 1..n : hits[i].alerted} /\ Alerts' = {i \in 1..(n + 1) : hits'[i].alerted}
  BY <1>2 DEF Alerts
<1>6. ASSUME NEW l \in 0..n
      PROVE  KeysHitAfter(l)' = KeysHitAfter(l) \cup {hit.key}
  <2>1. /\ KeysHitAfter(l) = {hits[m].key : m \in (l + 1)..n}
        /\ KeysHitAfter(l)' = {hits'[m].key : m \in (l + 1)..(n + 1)}
    BY <1>4 DEF KeysHitAfter
  <2>2. \A m \in (l + 1)..(n + 1) : m \in (l + 1)..n \/ m = n + 1
    OBVIOUS
  <2>3. /\ \A m \in (l + 1)..n : m \in 1..n /\ m \in (l + 1)..(n + 1)
        /\ n + 1 \in (l + 1)..(n + 1)
    OBVIOUS
  <2> QED BY <1>1, <2>1, <2>2, <2>3
<1> QED BY <1>0, <1>1, <1>3, <1>4, <1>5, <1>6 DEF HitAdded

\* The keys hit since some moment are finitely many.
LEMMA KeysHitFinite ==
    ASSUME hits \in Seq(HitRecord), NEW l \in Nat
    PROVE  IsFiniteSet(KeysHitAfter(l))
<1>1. PICK n \in Nat : n = Len(hits)
  BY LenProperties
<1> DEFINE T == (l + 1)..n
           f == [m \in T |-> hits[m].key]
<1>2. KeysHitAfter(l) = {hits[m].key : m \in T}
  BY <1>1 DEF KeysHitAfter, LastHit
<1>3. IsFiniteSet(T)
  BY FS_Interval
<1>4. f \in Surjection(T, KeysHitAfter(l))
  BY <1>2, Fun_IsSurj
<1> HIDE DEF T, f
<1> QED BY <1>3, <1>4, FS_Surjection

\* Some hit of the key of h[i] is the last one up to the nth.
LEMMA LastHitBefore ==
    ASSUME NEW h, NEW n \in Nat, NEW i \in 1..n
    PROVE  LET since == Max({m \in (i + 1)..n : h[m].key = h[i].key} \cup {i})
           IN  /\ since \in i..n
               /\ h[since].key = h[i].key
               /\ \A m \in (since + 1)..n : h[m].key # h[i].key
<1> DEFINE S == {m \in (i + 1)..n : h[m].key = h[i].key} \cup {i}
           since == Max(S)
<1>1. S \in SUBSET (0..n) /\ S # {}
  OBVIOUS
<1>2. \A m \in i..n : h[m].key = h[i].key => m \in S
  OBVIOUS
<1>3. \A m \in S : m \in i..n /\ h[m].key = h[i].key
  OBVIOUS
<1> HIDE DEF S
<1>4. since \in S /\ \A y \in S : y <= since
  BY <1>1, GreatestNatural
<1> HIDE DEF since
<1>5. ASSUME NEW m \in (since + 1)..n, h[m].key = h[i].key PROVE FALSE
  <2>1. m \in i..n /\ ~ (m <= since)
    BY <1>3, <1>4
  <2> QED BY <1>2, <1>4, <1>5, <2>1
<1>6. since \in i..n /\ h[since].key = h[i].key
  BY <1>3, <1>4
<1> QED BY <1>5, <1>6 DEF since, S

\* A hit keeps what the table remembers.
LEMMA TableStep ==
    ASSUME WindowAssumption, CooldownTable, TableRemembers, NEW e, e.key \in Key, e.timestamp \in Time,
           NEW hit \in HitRecord, hit.key = e.key, hit.at = e.timestamp,
           NEW n \in Nat, HitAdded(hit, n), Suppressed(e.key, hit) \/ Reported(e, hit)
    PROVE  TableRemembers'
<1>0. PICK keys : keys = Touch(cooling, e.key)
  OBVIOUS
<1>1. Len(hits) = n /\ hits \in Seq(HitRecord)
  BY DEF HitAdded
<1>2. /\ LastHit = n /\ LastHit' = n + 1
      /\ hits'[n + 1] = hit
      /\ \A i \in 1..n : hits'[i] = hits[i] /\ hits[i] \in HitRecord
      /\ Alerts = {i \in 1..n : hits[i].alerted}
      /\ Alerts' = {i \in 1..(n + 1) : hits'[i].alerted}
      /\ \A l \in 0..n : KeysHitAfter(l)' = KeysHitAfter(l) \cup {hit.key}
  BY DEF HitAdded
<1>3. /\ cooling \in Seq(Key) /\ IsInjective(cooling) /\ MaxKeys \in Nat
      /\ last_alert \in [Key -> Time \cup {None}] /\ None \notin Time
  BY DEF CooldownTable, WindowAssumption
<1>4. CooldownTable'
  <2>1. MaxKeys \in Nat
    BY <1>3
  <2>2. CASE Suppressed(e.key, hit)
    <3>1. cooling' = Touch(cooling, e.key) /\ UNCHANGED last_alert /\ last_alert[e.key] # None
      BY <2>2 DEF Suppressed
    <3> QED BY <2>1, <3>1, TouchedTable
  <2>3. CASE Reported(e, hit)
    BY <2>3, RememberTable DEF Reported
  <2> QED BY <2>2, <2>3
<1>5. PICK d \in 0..(Len(keys) - 1) : HitMoved(e, hit, keys, d)
  BY <1>0, HitTable
<1>6. /\ keys \in Seq(Key) /\ IsInjective(keys) /\ Len(keys) \in Nat
      /\ keys[Len(keys)] = e.key /\ DOMAIN keys = 1..Len(keys)
  BY <1>0, <1>3, TouchProperties, LenProperties
<1>7. \A p, q \in DOMAIN keys :
          p < q => \/ keys[q] = e.key
                   \/ \E a, b \in DOMAIN cooling :
                          a < b /\ cooling[a] = keys[p] /\ cooling[b] = keys[q]
  BY <1>0, <1>3, TouchOrder
<1>8. PICK c \in Nat : c = Len(keys)
  BY <1>6
<1>9. d \in 0..(c - 1) /\ DOMAIN cooling' = 1..(c - d) /\ DOMAIN keys = 1..c
      /\ (d > 0 => c - d >= MaxKeys)
  BY <1>5, <1>6, <1>8 DEF HitMoved
<1>10. \A q \in 1..(c - d) : cooling'[q] = keys[q + d] /\ q + d \in 1..c
  <2>1. \A q \in 1..(c - d) : cooling'[q] = keys[q + d]
    BY <1>5, <1>8 DEF HitMoved
  <2>2. \A q \in 1..(c - d) : q + d \in 1..c
    BY <1>9
  <2> QED BY <2>1, <2>2
\* Behind a key in the new list: the key of the hit, or a key that was behind it.
<1>11. ASSUME NEW p \in 1..c, NEW q \in 1..c, p < q
       PROVE  \/ keys[q] = e.key
              \/ \E a, b \in DOMAIN cooling :
                     a < b /\ cooling[a] = keys[p] /\ cooling[b] = keys[q]
  BY <1>7, <1>9, <1>11
<1> SUFFICES ASSUME NEW i \in Alerts', NEW l \in i..(n + 1),
                    LastAlertOf(i)', LastHitOf(hits[i].key, l)'
             PROVE  Remembered(i, l)'
  BY <1>2 DEF TableRemembers
<1>12. i \in 1..(n + 1) /\ hits'[i].alerted /\ l \in 1..(n + 1)
  BY <1>2
<1>13. hits'[i] \in HitRecord
  BY <1>2, <1>12
<1>14. PICK k \in Key : k = hits'[i].key
  BY <1>13 DEF HitRecord
<1>15. /\ hits'[l].key = k
       /\ \A m \in (l + 1)..(n + 1) : hits'[m].key # k
       /\ \A m \in (i + 1)..(n + 1) : hits'[m].key = k => ~ hits'[m].alerted
  BY <1>2, <1>14 DEF LastAlertOf, LastHitOf
<1>16. CASE k = e.key
  <2>1. l = n + 1
    BY <1>2, <1>12, <1>15, <1>16
  <2>2. last_alert'[k] = hits'[i].at
    <3>1. CASE hit.alerted
      <4>1. i = n + 1
        BY <1>2, <1>12, <1>15, <1>16, <3>1
      <4> QED BY <1>2, <1>5, <1>16, <3>1, <4>1 DEF HitMoved
    <3>2. CASE ~ hit.alerted
      <4>1. i \in 1..n /\ i \in Alerts /\ hits[i].key = k /\ hits'[i] = hits[i]
        BY <1>2, <1>12, <1>14, <3>2
      <4>2. LastAlertOf(i)
        BY <1>2, <1>15, <4>1 DEF LastAlertOf
      <4>3. PICK s \in i..n : hits[s].key = k /\ \A m \in (s + 1)..n : hits[m].key # k
        <5>1. PICK s : s = Max({m \in (i + 1)..n : hits[m].key = hits[i].key} \cup {i})
          OBVIOUS
        <5>2. /\ s \in i..n /\ hits[s].key = hits[i].key
              /\ \A m \in (s + 1)..n : hits[m].key # hits[i].key
          BY <4>1, <5>1, LastHitBefore
        <5> QED BY <4>1, <5>2
      <4>4. LastHitOf(hits[i].key, s)
        BY <1>2, <4>1, <4>3 DEF LastHitOf
      <4>5. Remembered(i, s)
        BY <1>2, <4>1, <4>2, <4>3, <4>4 DEF TableRemembers
      <4>6. last_alert'[k] = last_alert[k] /\ last_alert[k] # None
        BY <1>5, <1>16, <3>2 DEF HitMoved
      <4> QED BY <4>1, <4>5, <4>6 DEF Remembered
    <3> QED BY <3>1, <3>2
  <2>3. ASSUME NEW p \in 1..(c - d), NEW q \in 1..(c - d), p < q, cooling'[p] = k
        PROVE  FALSE
    <3>1. p + d \in 1..c /\ c \in 1..c /\ p + d # c
      BY <1>9, <2>3
    <3>2. keys[p + d] = keys[c]
      BY <1>6, <1>8, <1>10, <1>16, <2>3
    <3> QED BY <1>6, <1>9, <3>1, <3>2 DEF IsInjective
  <2> QED BY <1>9, <1>14, <2>2, <2>3 DEF Remembered
<1>17. CASE k # e.key
  <2>1. i \in 1..n /\ l \in i..n /\ i \in Alerts /\ hits'[i] = hits[i] /\ hits'[l] = hits[l]
    BY <1>2, <1>12, <1>14, <1>15, <1>17
  <2>2. Remembered(i, l)
    <3>1. LastAlertOf(i) /\ LastHitOf(hits[i].key, l)
      BY <1>2, <1>14, <1>15, <2>1 DEF LastAlertOf, LastHitOf
    <3> QED BY <1>2, <2>1, <3>1 DEF TableRemembers
  <2>3. /\ KeysHitAfter(l)' = KeysHitAfter(l) \cup {e.key}
        /\ IsFiniteSet(KeysHitAfter(l)) /\ IsFiniteSet(KeysHitAfter(l)')
    <3>1. l \in 0..n /\ l \in Nat
      BY <2>1
    <3>2. KeysHitAfter(l)' = KeysHitAfter(l) \cup {e.key}
      BY <1>2, <3>1
    <3>3. IsFiniteSet(KeysHitAfter(l))
      BY <1>1, <3>1, KeysHitFinite
    <3>4. IsFiniteSet(KeysHitAfter(l) \cup {e.key})
      BY <3>3, FS_AddElement
    <3> QED BY <3>2, <3>3, <3>4
  <2>4. hits'[i].at \in Time /\ hits[i].key = k
    BY <1>13, <1>14, <2>1 DEF HitRecord
  <2>5. CASE last_alert[k] = None /\ Cardinality(KeysHitAfter(l)) >= MaxKeys
    <3>1. last_alert'[k] = None
      BY <1>5, <1>17, <2>5 DEF HitMoved
    <3>2. Cardinality(KeysHitAfter(l)') >= MaxKeys
      <4>1. /\ Cardinality(KeysHitAfter(l)) <= Cardinality(KeysHitAfter(l)')
            /\ Cardinality(KeysHitAfter(l)) \in Nat /\ Cardinality(KeysHitAfter(l)') \in Nat
        BY <2>3, FS_Subset, FS_CardinalityType
      <4> QED BY <1>3, <2>5, <4>1
    <3> QED BY <1>14, <3>1, <3>2 DEF Remembered
  <2>6. CASE /\ last_alert[k] = hits[i].at
             /\ \A p, q \in DOMAIN cooling :
                  p < q /\ cooling[p] = k => cooling[q] \in KeysHitAfter(l)
    \* What is behind k in the new list was hit after l.
    <3>1. ASSUME NEW p \in 1..c, NEW q \in 1..c, p < q, keys[p] = k
          PROVE  keys[q] \in KeysHitAfter(l)'
      BY <1>11, <2>3, <2>6, <3>1
    <3>2. CASE k \in {keys[j] : j \in 1..d}
      <4>1. PICK j \in 1..d : keys[j] = k
        BY <3>2
      <4>2. last_alert'[k] = None
        BY <1>5, <1>17, <3>2 DEF HitMoved
      <4>3. \A q \in 1..(c - d) : cooling'[q] \in KeysHitAfter(l)'
        <5> SUFFICES ASSUME NEW q \in 1..(c - d) PROVE cooling'[q] \in KeysHitAfter(l)'
          OBVIOUS
        <5>1. j \in 1..c /\ q + d \in 1..c /\ j < q + d
          BY <1>9
        <5> QED BY <1>10, <3>1, <4>1, <5>1
      <4>4. ToSet(cooling') \subseteq KeysHitAfter(l)'
        BY <1>9, <4>3 DEF ToSet
      <4>5. Cardinality(ToSet(cooling')) = Len(cooling')
        <5>1. cooling' \in Seq(Key) /\ IsInjective(cooling')
          BY <1>4 DEF CooldownTable
        <5> QED BY <5>1, InjectiveCardinality
      <4>6. Len(cooling') = c - d
        <5>1. cooling' \in Seq(Key)
          BY <1>4 DEF CooldownTable
        <5>2. Len(cooling') \in Nat /\ 1..Len(cooling') = 1..(c - d) /\ c - d \in Nat
          BY <1>9, <5>1, LenProperties
        <5> QED BY <5>2
      <4>7. c - d >= MaxKeys
        <5>1. d > 0
          BY <1>9
        <5> QED BY <1>9, <5>1
      <4>8. /\ Cardinality(ToSet(cooling')) <= Cardinality(KeysHitAfter(l)')
            /\ Cardinality(KeysHitAfter(l)') \in Nat
        BY <2>3, <4>4, FS_Subset, FS_CardinalityType
      <4>9. Cardinality(KeysHitAfter(l)') >= MaxKeys
        BY <1>3, <1>9, <4>5, <4>6, <4>7, <4>8
      <4> QED BY <1>14, <4>2, <4>9 DEF Remembered
    <3>3. CASE k \notin {keys[j] : j \in 1..d}
      <4>1. last_alert'[k] = hits'[i].at
        BY <1>5, <1>17, <2>1, <2>6, <3>3 DEF HitMoved
      <4>2. ASSUME NEW p \in 1..(c - d), NEW q \in 1..(c - d), p < q, cooling'[p] = k
            PROVE  cooling'[q] \in KeysHitAfter(l)'
        <5>1. p + d < q + d
          BY <1>9, <4>2
        <5> QED BY <1>10, <3>1, <4>2, <5>1
      <4> QED BY <1>9, <1>14, <4>1, <4>2 DEF Remembered
    <3> QED BY <3>2, <3>3
  <2> QED BY <2>2, <2>4, <2>5, <2>6 DEF Remembered
<1> QED BY <1>16, <1>17

\* In the history h, an alert j of the key of alert i in its cooldown comes after MaxKeys
\* other keys.
KeptBetween(h, i, j) ==
    LET k == h[i].key
        between == {m \in (i + 1)..(j - 1) : h[m].key = k}
        since == Max(between \cup {i})
    IN  /\ i < j
        /\ k = h[j].key
        /\ \A m \in between : ~ h[m].alerted
        /\ h[j].at - h[i].at \in 0..(Cooldown - 1)
        => Cardinality({h[m].key : m \in since..(j - 1)} \ {k}) >= MaxKeys

\* CooldownKept of a history and its alerts.
KeptIn(h, alerts) ==
    \A i, j \in alerts :
        LET k == h[i].key
            between == {m \in (i + 1)..(j - 1) : h[m].key = k}
            since == Max(between \cup {i})
        IN  /\ i < j
            /\ k = h[j].key
            /\ between \cap alerts = {}
            /\ h[j].at - h[i].at \in 0..(Cooldown - 1)
            => Cardinality({h[m].key : m \in since..(j - 1)} \ {k}) >= MaxKeys

\* CooldownKept says it of the hits, before and after a step.
LEMMA KeptInHits ==
    /\ CooldownKept <=> KeptIn(hits, Alerts)
    /\ CooldownKept' <=> KeptIn(hits', Alerts')
BY DEF CooldownKept, KeptIn

\* It is about each pair of alerts.
LEMMA KeptPairwise ==
    ASSUME NEW h, NEW n \in Nat, NEW alerts, alerts = {i \in 1..n : h[i].alerted}
    PROVE  KeptIn(h, alerts) <=> \A i, j \in alerts : KeptBetween(h, i, j)
<1> DEFINE between(i, j) == {m \in (i + 1)..(j - 1) : h[m].key = h[i].key}
<1>1. ASSUME NEW i \in alerts, NEW j \in alerts
      PROVE  between(i, j) \cap alerts = {} <=> \A m \in between(i, j) : ~ h[m].alerted
  <2>1. \A m \in between(i, j) : m \in 1..n
    OBVIOUS
  <2> QED BY <2>1
<1> QED BY <1>1, ZenonT(30) DEF KeptBetween, KeptIn

\* A history that grows keeps what is true of the pairs in it.
LEMMA KeptInPrefix ==
    ASSUME NEW h, NEW g, NEW n \in Nat, \A i \in 1..n : g[i] = h[i],
           NEW i \in 1..n, NEW j \in 1..n, KeptBetween(h, i, j)
    PROVE  KeptBetween(g, i, j)
<1> SUFFICES ASSUME i < j PROVE KeptBetween(g, i, j)
  BY DEF KeptBetween
<1>1. j - 1 \in Nat /\ i \in 1..(j - 1)
  OBVIOUS
<1>2. {m \in (i + 1)..(j - 1) : g[m].key = g[i].key}
        = {m \in (i + 1)..(j - 1) : h[m].key = h[i].key}
  OBVIOUS
<1>3. PICK since : since = Max({m \in (i + 1)..(j - 1) : h[m].key = h[i].key} \cup {i})
  OBVIOUS
<1>4. since \in i..(j - 1)
  BY <1>1, <1>3, LastHitBefore
<1>5. {g[m].key : m \in since..(j - 1)} = {h[m].key : m \in since..(j - 1)}
  <2>1. \A m \in since..(j - 1) : m \in 1..n
    BY <1>4
  <2> QED BY <2>1
<1>6. \A m \in (i + 1)..(j - 1) : g[m] = h[m]
  OBVIOUS
<1>7. g[i] = h[i] /\ g[j] = h[j]
  OBVIOUS
<1> QED BY <1>2, <1>3, <1>5, <1>6, <1>7 DEF KeptBetween

\* A hit keeps the cooldown: an alert that falls in the cooldown of the one before it
\* was not suppressed, so the table had given up its key.
LEMMA KeptStep ==
    ASSUME WindowAssumption, CooldownTable, TableRemembers, CooldownKept,
           NEW e, e.key \in Key, e.timestamp \in Time,
           NEW hit \in HitRecord, hit.key = e.key, hit.at = e.timestamp,
           NEW n \in Nat, HitAdded(hit, n), Suppressed(e.key, hit) \/ Reported(e, hit)
    PROVE  CooldownKept'
<1>1. /\ LastHit = n
      /\ hits'[n + 1] = hit
      /\ \A i \in 1..n : hits'[i] = hits[i] /\ hits[i] \in HitRecord
      /\ Alerts = {i \in 1..n : hits[i].alerted}
      /\ Alerts' = {i \in 1..(n + 1) : hits'[i].alerted}
  BY DEF HitAdded
<1>2. PICK h : h = hits
  OBVIOUS
<1>3. PICK g : g = hits'
  OBVIOUS
<1>4. \A i, j \in Alerts : KeptBetween(h, i, j)
  BY <1>1, <1>2, KeptInHits, KeptPairwise
<1>5. (\A i, j \in Alerts' : KeptBetween(g, i, j)) => CooldownKept'
  <2>1. PICK N \in Nat : N = n + 1
    OBVIOUS
  <2>2. Alerts' = {i \in 1..N : g[i].alerted}
    BY <1>1, <1>3, <2>1
  <2>3. KeptIn(g, Alerts') <=> \A i, j \in Alerts' : KeptBetween(g, i, j)
    BY <2>2, KeptPairwise
  <2> QED BY <1>3, <2>3, KeptInHits
<1> SUFFICES ASSUME NEW i \in Alerts', NEW j \in Alerts' PROVE KeptBetween(g, i, j)
  BY <1>5
<1>6. i \in 1..(n + 1) /\ j \in 1..(n + 1) /\ g[i].alerted /\ g[j].alerted
  BY <1>1, <1>3
<1>7. \A m \in 1..n : g[m] = h[m]
  BY <1>1, <1>2, <1>3
<1>8. CASE j \in 1..n
  <2>1. CASE i < j
    <3>1. i \in 1..n
      BY <1>6, <1>8, <2>1
    <3>2. KeptBetween(h, i, j)
      BY <1>1, <1>2, <1>4, <1>6, <1>7, <1>8, <3>1
    <3> QED BY <1>7, <1>8, <3>1, <3>2, KeptInPrefix
  <2>2. CASE ~ (i < j)
    BY <2>2 DEF KeptBetween
  <2> QED BY <2>1, <2>2
<1>9. CASE j = n + 1
  <2>1. (n + 1) - 1 = n
    OBVIOUS
  <2> SUFFICES ASSUME i < j, g[i].key = g[j].key,
                      \A m \in (i + 1)..n : g[m].key = g[i].key => ~ g[m].alerted,
                      g[j].at - g[i].at \in 0..(Cooldown - 1)
               PROVE  LET since == Max({m \in (i + 1)..n : g[m].key = g[i].key} \cup {i})
                      IN  Cardinality({g[m].key : m \in since..n} \ {g[i].key}) >= MaxKeys
    BY <1>9, <2>1 DEF KeptBetween
  <2>2. i \in 1..n /\ i \in Alerts /\ g[j] = hit /\ hit.alerted
    BY <1>1, <1>2, <1>3, <1>6, <1>7, <1>9
  <2>3. PICK since : since = Max({m \in (i + 1)..n : g[m].key = g[i].key} \cup {i})
    OBVIOUS
  <2>4. /\ since \in i..n /\ g[since].key = g[i].key
        /\ \A m \in (since + 1)..n : g[m].key # g[i].key
    BY <2>2, <2>3, LastHitBefore, ZenonT(30)
  <2>5. g[i] = hits[i] /\ \A m \in i..n : g[m] = hits[m]
    BY <1>1, <1>3, <2>2
  <2>6. LastAlertOf(i) /\ LastHitOf(hits[i].key, since)
    BY <1>1, <2>2, <2>4, <2>5 DEF LastAlertOf, LastHitOf
  <2>7. Remembered(i, since)
    BY <1>1, <2>2, <2>4, <2>6 DEF TableRemembers
  <2>8. hits[i].key = e.key /\ hits[i].at \in Time
    BY <1>1, <2>2, <2>5 DEF HitRecord
  <2>9. last_alert[e.key] # hits[i].at
    <3>1. Reported(e, hit)
      BY <2>2 DEF Suppressed
    <3>2. e.timestamp - hits[i].at \in 0..(Cooldown - 1) /\ None \notin Time
      BY <2>2, <2>5 DEF WindowAssumption
    <3> QED BY <2>8, <3>1, <3>2 DEF Reported, InCooldown
  <2>10. Cardinality(KeysHitAfter(since)) >= MaxKeys
    BY <2>7, <2>8, <2>9 DEF Remembered
  <2>11. KeysHitAfter(since) = {g[m].key : m \in since..n} \ {g[i].key}
    <3>1. KeysHitAfter(since) = {g[m].key : m \in (since + 1)..n}
      <4>1. \A m \in (since + 1)..n : g[m] = hits[m]
        BY <2>2, <2>4, <2>5
      <4> QED BY <1>1, <4>1 DEF KeysHitAfter
    <3>2. \A m \in since..n : m = since \/ m \in (since + 1)..n
      BY <2>4
    <3>3. \A m \in (since + 1)..n : m \in since..n
      BY <2>4
    <3> QED BY <2>4, <3>1, <3>2, <3>3
  <2> QED BY <2>3, <2>10, <2>11
<1> QED BY <1>6, <1>8, <1>9

\* The invariant of the cooldown.
CooldownInv ==
    /\ DetectorInv
    /\ hits \in Seq(HitRecord)
    /\ TableRemembers
    /\ CooldownKept

\* CooldownInv holds after every sequence of calls of observe.
THEOREM CooldownInvariant == MCSpec => []CooldownInv
<1>1. MCInit => CooldownInv
  <2> SUFFICES ASSUME MCInit PROVE CooldownInv
    OBVIOUS
  <2>1. DetectorInv
    BY WindowAssumption, DetectorInitInv DEF MCInit
  <2>2. hits = <<>> /\ hits \in Seq(HitRecord) /\ Alerts = {}
    BY DEF MCInit, Alerts
  <2> QED BY <2>1, <2>2 DEF CooldownInv, TableRemembers, CooldownKept
<1>2. CooldownInv /\ [MCNext]_<<detectorVars, historyVars>> => CooldownInv'
  <2> SUFFICES ASSUME CooldownInv, [MCNext]_<<detectorVars, historyVars>> PROVE CooldownInv'
    OBVIOUS
  <2>1. ASSUME UNCHANGED <<hits, cooling, last_alert>>
        PROVE  TableRemembers' /\ CooldownKept'
    <3>1. Alerts' = Alerts /\ LastHit' = LastHit
      BY <2>1 DEF Alerts, LastHit
    <3>2. \A i, l : /\ LastAlertOf(i)' <=> LastAlertOf(i)
                    /\ LastHitOf(hits[i].key, l)' <=> LastHitOf(hits[i].key, l)
                    /\ KeysHitAfter(l)' = KeysHitAfter(l)
      BY <2>1, <3>1 DEF LastAlertOf, LastHitOf, KeysHitAfter
    <3>3. \A i, l : Remembered(i, l)' <=> Remembered(i, l)
      BY <2>1, <3>2 DEF Remembered
    <3>4. TableRemembers'
      BY <3>1, <3>2, <3>3 DEF CooldownInv, TableRemembers
    <3>5. CooldownKept'
      BY <2>1, <3>1, KeptInHits DEF CooldownInv
    <3> QED BY <3>4, <3>5
  <2>2. ASSUME NEW e \in Event, Observe(e),
               hits' = IF Scored(e)
                       THEN Append(hits,
                              [key |-> e.key, at |-> e.timestamp,
                               alerted |-> candidate' # {},
                               first |-> windows'[e.key][1].timestamp,
                               last |-> windows'[e.key][Len(windows'[e.key])].timestamp])
                       ELSE hits
        PROVE  CooldownInv'
    <3>1. DetectorInv' /\ DetectorInv /\ hits \in Seq(HitRecord) /\ CooldownTable
      BY <2>2, ObserveInv, WindowAssumption, DetectorAssumption DEF CooldownInv, DetectorInv
    <3>2. CASE UNCHANGED <<hits, cooling, last_alert>>
      BY <2>1, <3>1, <3>2 DEF CooldownInv
    <3>3. ASSUME NEW hit \in HitRecord, hits' = Append(hits, hit),
                 hit.key = e.key, hit.at = e.timestamp,
                 Suppressed(e.key, hit) \/ Reported(e, hit)
          PROVE  CooldownInv'
      <4>1. PICK n \in Nat : HitAdded(hit, n)
        BY <3>1, <3>3, HitAppended
      <4>2. e.key \in Key /\ e.timestamp \in Time
        BY DetectorAssumption DEF Event
      <4>3. TableRemembers'
        BY <3>1, <3>3, <4>1, <4>2, TableStep, WindowAssumption DEF CooldownInv
      <4>4. CooldownKept'
        BY <3>1, <3>3, <4>1, <4>2, KeptStep, WindowAssumption DEF CooldownInv
      <4> QED BY <3>1, <4>1, <4>3, <4>4 DEF CooldownInv, HitAdded
    <3> QED BY <2>2, <3>1, <3>2, <3>3, HitStep, WindowAssumption, DetectorAssumption
  <2>3. CASE UNCHANGED <<detectorVars, historyVars>>
    <3>1. DetectorInv'
      BY <2>3, DetectorStutter DEF CooldownInv
    <3> QED BY <2>1, <2>3, <3>1 DEF CooldownInv, detectorVars, historyVars
  <2> QED BY <2>2, <2>3 DEF MCNext
<1> QED BY <1>1, <1>2, PTL DEF MCSpec

\* Two alerts of a key fall in one cooldown only if MaxKeys other keys scored since the
\* last hit of the first: the table gives up no key before that.
THEOREM CooldownIsKept == MCSpec => []CooldownKept
<1>1. CooldownInv => CooldownKept
  BY DEF CooldownInv
<1> QED BY <1>1, CooldownInvariant, PTL

-----------------------------------------------------------------------------
\* The identity of alerts.

\* Dropping the first items of a deque, but not all of them, keeps its last item.
LEMMA SuffixLast ==
    ASSUME NEW w \in Seq(Item), NEW m \in 0..Len(w), SubSeq(w, m + 1, Len(w)) # <<>>
    PROVE  SubSeq(w, m + 1, Len(w))[Len(SubSeq(w, m + 1, Len(w)))] = w[Len(w)]
<1> DEFINE r == SubSeq(w, m + 1, Len(w))
<1>1. PICK n \in Nat : n = Len(w)
  BY LenProperties
<1>2. /\ r \in Seq(Item) /\ Len(r) = n - m
      /\ \A i \in 1..(n - m) : r[i] = w[i + m]
  BY <1>1, SuffixProperties
<1>3. r # <<>> /\ m \in 0..n
  BY <1>1
<1> HIDE DEF r
<1>4. Len(r) > 0 /\ Len(r) \in Nat
  BY <1>2, <1>3, EmptySeq, LenProperties
<1>5. n - m \in 1..(n - m) /\ (n - m) + m = n
  BY <1>2, <1>3, <1>4
<1> QED BY <1>1, <1>2, <1>5 DEF r

\* An event that is not behind the watermark becomes the last of its window.
LEMMA LatestIsLast ==
    ASSUME WindowAssumption, Inv, NEW k \in Key, NEW t \in Time, NEW v \in Value,
           watermark = None \/ watermark <= t, Add(k, t, v)
    PROVE  /\ watermark' = t
           /\ windows'[k][Len(windows'[k])].timestamp = t
<1> DEFINE x == [timestamp |-> t, value |-> v]
           inserted == Insert(windows[k], x)
           pruned == Prune(inserted, Advance(t) - Span)
           kept == Newest(pruned)
<1>1. t \in Int /\ Span \in Int /\ Span > 0 /\ watermark \in Int \cup {None}
  BY DEF WindowAssumption, Inv, TypeOK
<1>2. Advance(t) = t
  BY <1>1 DEF Advance
<1>3. AddAccepted(k, t, v)
  BY <1>1, <1>2 DEF Add, AddLate
<1>4. /\ pruned \in Seq(Item) /\ kept \in Seq(Item) /\ kept # <<>>
      /\ InSpan(kept, t)
  BY <1>1, <1>2, AcceptedDeque
<1>5. windows[k] \in Seq(Item) /\ Sorted(windows[k]) /\ x \in Item
  BY DEF Inv, TypeOK, Chronological, Sorted, Item
<1>6. /\ inserted \in Seq(Item) /\ Sorted(inserted)
      /\ \E j \in 1..Len(inserted) : inserted[j] = x
  BY <1>5, InsertSorted
<1>7. x.timestamp = t
  OBVIOUS
<1>8. windows'[k] = kept
  <2>1. windows'[k] # <<>>
    BY <1>3, AddAcceptedInv
  <2>2. windows'[k] = <<>> \/ windows'[k] = [windows EXCEPT ![k] = kept][k]
    BY <1>3 DEF AddAccepted
  <2>3. [windows EXCEPT ![k] = kept][k] = kept
    BY DEF Inv, TypeOK
  <2> QED BY <2>1, <2>2, <2>3
<1> HIDE DEF x, kept, pruned, inserted
<1>9. pruned[Len(pruned)] = inserted[Len(inserted)] /\ kept[Len(kept)] = pruned[Len(pruned)]
  <2>1. pruned # <<>>
    BY <1>4, EmptySeq, LenProperties DEF Newest, kept, WindowAssumption
  <2>2. PICK m \in 0..Len(inserted) : pruned = SubSeq(inserted, m + 1, Len(inserted))
    <3>1. PICK cutoff \in Int : cutoff = Advance(t) - Span
      BY <1>1, <1>2
    <3>2. pruned = Prune(inserted, cutoff)
      BY <3>1 DEF pruned
    <3> QED BY <1>6, <3>2, PruneProperties
  <2>3. pruned[Len(pruned)] = inserted[Len(inserted)]
    BY <1>6, <2>1, <2>2, SuffixLast
  <2>4. CASE Len(pruned) > MaxValues
    <3>1. Len(pruned) - MaxValues \in 0..Len(pruned)
      BY <1>4, <2>4, LenProperties DEF WindowAssumption
    <3>2. kept = SubSeq(pruned, (Len(pruned) - MaxValues) + 1, Len(pruned))
      BY <2>4 DEF Newest, kept
    <3> QED BY <1>4, <2>3, <3>1, <3>2, SuffixLast
  <2>5. CASE ~ (Len(pruned) > MaxValues)
    BY <2>3, <2>5 DEF Newest, kept
  <2> QED BY <2>4, <2>5
<1>10. PICK n \in Nat : n = Len(inserted)
  BY <1>6, LenProperties
<1>11. PICK j \in 1..n : inserted[j] = x
  BY <1>6, <1>10
<1>12. t <= inserted[n].timestamp
  <2>1. j <= n /\ n \in 1..n
    BY <1>10, <1>11
  <2> QED BY <1>6, <1>7, <1>10, <1>11, <2>1 DEF Sorted
<1>13. PICK c \in Nat : c = Len(kept) /\ c > 0
  BY <1>4, EmptySeq, LenProperties
<1>14. kept[c].timestamp <= t /\ kept[c].timestamp \in Int
  <2>1. c \in 1..c /\ kept[c] \in Item
    BY <1>4, <1>13, ElementOfSeq
  <2> QED BY <1>4, <1>13, <2>1 DEF InSpan, Item, WindowAssumption
<1>15. kept[c].timestamp = t
  BY <1>1, <1>9, <1>10, <1>12, <1>13, <1>14, LeqAntisymmetric
<1>16. watermark' = t
  BY <1>2, <1>3 DEF AddAccepted
<1> QED BY <1>8, <1>13, <1>15, <1>16

AlertedKeys == {hits[i].key : i \in Alerts}

\* The premise of AlertsDistinct.
InOrder == in_order /\ Cooldown > 0 /\ Cardinality(AlertedKeys) <= MaxKeys

\* Nothing is ahead of the last event; a key in the table has alerted; a key that alerted
\* is in the table, with a time that no alert of the key exceeds.
AlertsBehind ==
    /\ watermark # None => latest # None /\ watermark <= latest
    /\ \A k \in Key : last_alert[k] # None =>
          k \in AlertedKeys /\ latest # None /\ last_alert[k] <= latest
    /\ \A i \in Alerts : /\ last_alert[hits[i].key] # None
                         /\ hits[i].last <= last_alert[hits[i].key]

AlertsOfOneKey ==
    \A i, j \in Alerts : hits[i].key = hits[j].key /\ hits[i].last = hits[j].last => i = j

OrderInv ==
    /\ DetectorInv
    /\ hits \in Seq(HitRecord)
    /\ latest \in Time \cup {None}
    /\ InOrder => AlertsBehind /\ AlertsOfOneKey

\* A hit adds at most its own key to the keys that alerted.
LEMMA AlertedStep ==
    ASSUME NEW hit \in HitRecord, NEW n \in Nat, HitAdded(hit, n)
    PROVE  /\ AlertedKeys' = IF hit.alerted THEN AlertedKeys \cup {hit.key} ELSE AlertedKeys
           /\ IsFiniteSet(AlertedKeys')
           /\ AlertedKeys' \subseteq Key
<1>1. /\ hits' \in Seq(HitRecord) /\ Len(hits') = n + 1 /\ hits'[n + 1] = hit
      /\ \A i \in 1..n : hits'[i] = hits[i] /\ hits[i] \in HitRecord
      /\ Alerts = {i \in 1..n : hits[i].alerted}
      /\ Alerts' = {i \in 1..(n + 1) : hits'[i].alerted}
  BY DEF HitAdded
<1>2. \A i \in 1..(n + 1) : hits'[i] \in HitRecord
  BY <1>1, ElementOfSeq
<1>3. \A i : i \in Alerts' <=> (i \in Alerts \/ (i = n + 1 /\ hit.alerted))
  BY <1>1
<1>4. \A i \in Alerts : hits'[i].key = hits[i].key
  BY <1>1
<1>5. AlertedKeys' = {hits'[i].key : i \in Alerts'}
  BY DEF AlertedKeys
<1>6. AlertedKeys' = IF hit.alerted THEN AlertedKeys \cup {hit.key} ELSE AlertedKeys
  <2>1. CASE hit.alerted
    BY <1>1, <1>3, <1>4, <1>5, <2>1 DEF AlertedKeys
  <2>2. CASE ~ hit.alerted
    BY <1>3, <1>4, <1>5, <2>2 DEF AlertedKeys
  <2> QED BY <2>1, <2>2
<1>7. IsFiniteSet(AlertedKeys')
  <2> DEFINE T == 1..(n + 1)
             K == {hits'[i].key : i \in T}
             f == [i \in T |-> hits'[i].key]
  <2>1. IsFiniteSet(T)
    BY FS_Interval
  <2>2. f \in Surjection(T, K)
    BY Fun_IsSurj
  <2>3. AlertedKeys' \subseteq K
    BY <1>1, <1>5
  <2> HIDE DEF T, K, f
  <2>4. IsFiniteSet(K)
    BY <2>1, <2>2, FS_Surjection
  <2> QED BY <2>3, <2>4, FS_Subset
<1>8. AlertedKeys' \subseteq Key
  BY <1>1, <1>2, <1>5 DEF HitRecord
<1> QED BY <1>6, <1>7, <1>8

\* An event that is not behind the last one is not behind the watermark, before or after.
LEMMA MarkStep ==
    ASSUME WindowAssumption, DetectorAssumption, DetectorInv, NEW e \in Event, Observe(e),
           latest \in Time \cup {None}, latest = None \/ latest <= e.timestamp,
           watermark # None => latest # None /\ watermark <= latest
    PROVE  /\ watermark = None \/ watermark <= e.timestamp
           /\ watermark' # None => watermark' <= e.timestamp
<1>1. /\ e.key \in Key /\ e.timestamp \in Time /\ e \in Value /\ e.timestamp \in Int
      /\ latest \in Int \cup {None} /\ watermark \in Int \cup {None} /\ Inv
  BY DEF DetectorInv, Inv, TypeOK, WindowAssumption, DetectorAssumption, Event
<1>2. watermark = None \/ watermark <= e.timestamp
  BY <1>1 DEF WindowAssumption
<1>3. CASE ObserveFiltered(e) \/ ObserveDuplicate(e)
  BY <1>2, <1>3 DEF ObserveFiltered, ObserveDuplicate, windowVars
<1>4. CASE ObserveNew(e)
  <2>1. watermark' = e.timestamp
    BY <1>1, <1>2, <1>4, LatestIsLast DEF ObserveNew
  <2> QED BY <1>1, <1>2, <2>1
<1> QED BY <1>2, <1>3, <1>4 DEF Observe

\* While the keys that alerted fit the table, a hit drops no key from it.
LEMMA NothingDropped ==
    ASSUME WindowAssumption, CooldownTable, NEW e, e.key \in Key, e.timestamp \in Time,
           NEW hit, Suppressed(e.key, hit) \/ Reported(e, hit),
           NEW A, IsFiniteSet(A), Cardinality(A) <= MaxKeys,
           ToSet(cooling) \cup {e.key} \subseteq A
    PROVE  \A k \in Key :
              IF k = e.key
              THEN IF hit.alerted THEN last_alert'[k] = e.timestamp
                   ELSE last_alert'[k] = last_alert[k] /\ last_alert[k] # None
              ELSE last_alert'[k] = last_alert[k]
<1>1. PICK keys : keys = Touch(cooling, e.key)
  OBVIOUS
<1>2. /\ keys \in Seq(Key) /\ IsInjective(keys) /\ ToSet(keys) = ToSet(cooling) \cup {e.key}
  BY <1>1, TouchProperties DEF CooldownTable
<1>3. PICK d \in 0..(Len(keys) - 1) : HitMoved(e, hit, keys, d)
  BY <1>1, HitTable
<1>4. PICK n \in Nat : n = Len(keys)
  BY <1>2, LenProperties
<1>5. n <= MaxKeys /\ MaxKeys \in Nat
  <2>1. Cardinality(ToSet(keys)) = n
    BY <1>2, <1>4, InjectiveCardinality
  <2>2. Cardinality(ToSet(keys)) <= Cardinality(A) /\ Cardinality(A) \in Nat
    BY <1>2, FS_Subset, FS_CardinalityType
  <2> QED BY <2>1, <2>2 DEF WindowAssumption
<1>6. d = 0
  <2>1. d \in 0..(n - 1) /\ (d > 0 => n - d >= MaxKeys)
    BY <1>3, <1>4 DEF HitMoved
  <2> QED BY <1>5, <2>1
<1>7. {keys[j] : j \in 1..d} = {}
  BY <1>6
<1> QED BY <1>3, <1>7 DEF HitMoved

\* A hit keeps the order of the alerts.
LEMMA OrderStep ==
    ASSUME WindowAssumption, DetectorAssumption, OrderInv,
           NEW e \in Event, Observe(e), InOrder',
           latest' = e.timestamp, in_order' => latest = None \/ latest <= e.timestamp,
           in_order' => in_order,
           NEW hit \in HitRecord, hit.key = e.key, hit.at = e.timestamp,
           hit.last = windows'[e.key][Len(windows'[e.key])].timestamp,
           ObserveNew(e), NEW n \in Nat, HitAdded(hit, n),
           Suppressed(e.key, hit) \/ Reported(e, hit)
    PROVE  AlertsBehind' /\ AlertsOfOneKey'
<1> DEFINE k == e.key
           t == e.timestamp
<1>1. /\ k \in Key /\ t \in Time /\ t \in Int /\ e \in Value /\ None \notin Time
      /\ Time \subseteq Int /\ MaxKeys \in Nat /\ Cooldown \in Nat
      /\ CooldownTable /\ Inv /\ DetectorInv /\ last_alert \in [Key -> Time \cup {None}]
      /\ latest \in Time \cup {None}
  BY DEF DetectorInv, OrderInv, CooldownTable, WindowAssumption, DetectorAssumption, Event
<1>2. /\ AlertedKeys' = IF hit.alerted THEN AlertedKeys \cup {k} ELSE AlertedKeys
      /\ IsFiniteSet(AlertedKeys') /\ Cardinality(AlertedKeys') <= MaxKeys
      /\ Cooldown > 0 /\ in_order /\ (latest = None \/ latest <= t)
  BY AlertedStep DEF InOrder
<1>3. AlertsBehind /\ AlertsOfOneKey
  <2>1. AlertedKeys \subseteq AlertedKeys'
    BY <1>2
  <2>2. /\ Cardinality(AlertedKeys) <= Cardinality(AlertedKeys')
        /\ Cardinality(AlertedKeys) \in Nat /\ Cardinality(AlertedKeys') \in Nat
    BY <1>2, <2>1, FS_Subset, FS_CardinalityType
  <2>3. Cardinality(AlertedKeys) <= MaxKeys
    BY <1>1, <1>2, <2>2
  <2> QED BY <1>2, <2>3 DEF OrderInv, InOrder
<1>4. /\ watermark = None \/ watermark <= t
      /\ watermark' # None => watermark' <= t
  BY <1>1, <1>2, <1>3, MarkStep DEF AlertsBehind
<1>5. hit.last = t
  BY <1>1, <1>4, LatestIsLast DEF ObserveNew
<1>6. \A q \in Key : last_alert[q] # None => q \in AlertedKeys /\ last_alert[q] <= t
                                             /\ last_alert[q] \in Int
  <2> SUFFICES ASSUME NEW q \in Key, last_alert[q] # None
               PROVE  q \in AlertedKeys /\ last_alert[q] <= t /\ last_alert[q] \in Int
    OBVIOUS
  <2>1. q \in AlertedKeys /\ latest # None /\ last_alert[q] <= latest
    BY <1>3 DEF AlertsBehind
  <2>2. last_alert[q] \in Int /\ latest \in Int
    BY <1>1, <2>1
  <2>3. latest <= t
    BY <1>2, <2>1
  <2> QED BY <1>1, <2>1, <2>2, <2>3
<1>7. \A q \in Key :
          IF q = k
          THEN IF hit.alerted THEN last_alert'[q] = t
               ELSE last_alert'[q] = last_alert[q] /\ last_alert[q] # None
          ELSE last_alert'[q] = last_alert[q]
  <2>1. k \in AlertedKeys'
    <3>1. CASE hit.alerted
      BY <1>2, <3>1
    <3>2. CASE ~ hit.alerted
      BY <1>1, <1>2, <1>6, <3>2 DEF Suppressed, Reported
    <3> QED BY <3>1, <3>2
  <2>2. ToSet(cooling) \subseteq AlertedKeys'
    <3>1. ToSet(cooling) \subseteq Key
      BY <1>1, ToSetType DEF CooldownTable
    <3>2. ToSet(cooling) \subseteq AlertedKeys
      BY <1>1, <1>6, <3>1 DEF CooldownTable
    <3> QED BY <1>2, <3>2
  <2>3. PICK A : A = AlertedKeys'
    OBVIOUS
  <2> QED BY <1>1, <1>2, <2>1, <2>2, <2>3, NothingDropped
\* An alert that is not suppressed is later than the alert before it.
<1>8. ASSUME hit.alerted, last_alert[k] # None PROVE last_alert[k] < t
  <2>1. ~ (t - last_alert[k] \in 0..(Cooldown - 1))
    BY <1>8 DEF Suppressed, Reported, InCooldown
  <2>2. last_alert[k] <= t /\ last_alert[k] \in Int
    BY <1>1, <1>6, <1>8
  <2> QED BY <1>1, <1>2, <2>1, <2>2
<1>9. /\ hits'[n + 1] = hit
      /\ \A i \in 1..n : hits'[i] = hits[i] /\ hits[i] \in HitRecord
      /\ \A i : i \in Alerts' <=> (i \in Alerts \/ (i = n + 1 /\ hit.alerted))
      /\ \A i \in Alerts : i \in 1..n
  BY DEF HitAdded
<1>10. \A i \in Alerts : /\ hits'[i] = hits[i] /\ hits[i].key \in Key /\ hits[i].last \in Int
                         /\ last_alert[hits[i].key] # None
                         /\ hits[i].last <= last_alert[hits[i].key]
  BY <1>1, <1>3, <1>9 DEF AlertsBehind, HitRecord
<1>11. AlertsBehind'
  <2>1. watermark' # None => latest' # None /\ watermark' <= latest'
    BY <1>1, <1>4
  <2>2. ASSUME NEW q \in Key, last_alert'[q] # None
        PROVE  q \in AlertedKeys' /\ latest' # None /\ last_alert'[q] <= latest'
    <3>1. CASE q = k /\ hit.alerted
      BY <1>1, <1>2, <1>7, <3>1
    <3>2. CASE ~ (q = k /\ hit.alerted)
      <4>1. last_alert'[q] = last_alert[q]
        BY <1>7, <3>2
      <4> QED BY <1>1, <1>2, <1>6, <2>2, <4>1
    <3> QED BY <3>1, <3>2
  <2>3. ASSUME NEW i \in Alerts'
        PROVE  /\ last_alert'[hits'[i].key] # None
               /\ hits'[i].last <= last_alert'[hits'[i].key]
    <3>1. CASE i = n + 1 /\ hit.alerted
      BY <1>1, <1>5, <1>7, <1>9, <3>1
    <3>2. CASE i \in Alerts
      <4>1. PICK q \in Key : q = hits[i].key
        BY <1>10, <3>2
      <4>2. hits'[i].key = q /\ hits'[i].last = hits[i].last
        BY <1>10, <3>2, <4>1
      <4>3. /\ last_alert[q] # None /\ last_alert[q] \in Int /\ last_alert[q] <= t
            /\ hits[i].last <= last_alert[q] /\ hits[i].last \in Int
        BY <1>6, <1>10, <3>2, <4>1
      <4>4. last_alert'[q] = t \/ last_alert'[q] = last_alert[q]
        BY <1>7
      <4>5. last_alert'[q] # None /\ hits[i].last <= last_alert'[q]
        BY <1>1, <4>3, <4>4
      <4> QED BY <4>2, <4>5
    <3> QED BY <1>9, <3>1, <3>2
  <2> QED BY <2>1, <2>2, <2>3 DEF AlertsBehind
<1>12. AlertsOfOneKey'
  <2>1. ASSUME NEW i \in Alerts, hits[i].key = k, hit.alerted PROVE hits[i].last < hit.last
    <3>1. /\ hits[i].last <= last_alert[k] /\ last_alert[k] # None /\ hits[i].last \in Int
          /\ last_alert[k] < t /\ last_alert[k] \in Int
      BY <1>1, <1>6, <1>8, <1>10, <2>1
    <3> QED BY <1>1, <1>5, <3>1
  <2>2. \A i \in Alerts : hits[i].key = k /\ hit.alerted => hits[i].last # hit.last
    <3> SUFFICES ASSUME NEW i \in Alerts, hits[i].key = k, hit.alerted, hits[i].last = hit.last
                 PROVE  FALSE
      OBVIOUS
    <3>1. hits[i].last < hit.last /\ hit.last \in Int
      BY <1>1, <1>5, <2>1
    <3> QED BY <3>1
  <2> SUFFICES ASSUME NEW i \in Alerts', NEW j \in Alerts', hits'[i].key = hits'[j].key,
                      hits'[i].last = hits'[j].last
               PROVE  i = j
    BY DEF AlertsOfOneKey
  <2>3. CASE i \in Alerts /\ j \in Alerts
    BY <1>3, <1>10, <2>3 DEF AlertsOfOneKey
  <2>4. CASE i \in Alerts /\ j = n + 1 /\ hit.alerted
    BY <1>9, <1>10, <2>2, <2>4
  <2>5. CASE j \in Alerts /\ i = n + 1 /\ hit.alerted
    BY <1>9, <1>10, <2>2, <2>5
  <2>6. CASE i = n + 1 /\ j = n + 1
    BY <2>6
  <2> QED BY <1>9, <2>3, <2>4, <2>5, <2>6
<1> QED BY <1>11, <1>12

\* OrderInv holds after every sequence of calls of observe.
THEOREM OrderInvariant == MCSpec => []OrderInv
<1>1. MCInit => OrderInv
  <2> SUFFICES ASSUME MCInit PROVE OrderInv
    OBVIOUS
  <2>1. DetectorInv
    BY WindowAssumption, DetectorInitInv DEF MCInit
  <2>2. /\ hits = <<>> /\ hits \in Seq(HitRecord) /\ Alerts = {} /\ latest = None
        /\ watermark = None /\ \A k \in Key : last_alert[k] = None
    BY DEF MCInit, DetectorInit, Init, Alerts
  <2> QED BY <2>1, <2>2 DEF OrderInv, AlertsBehind, AlertsOfOneKey
<1>2. OrderInv /\ [MCNext]_<<detectorVars, historyVars>> => OrderInv'
  <2> SUFFICES ASSUME OrderInv, [MCNext]_<<detectorVars, historyVars>> PROVE OrderInv'
    OBVIOUS
  <2>1. ASSUME NEW e \in Event, Observe(e),
               hits' = IF Scored(e)
                       THEN Append(hits,
                              [key |-> e.key, at |-> e.timestamp,
                               alerted |-> candidate' # {},
                               first |-> windows'[e.key][1].timestamp,
                               last |-> windows'[e.key][Len(windows'[e.key])].timestamp])
                       ELSE hits,
               latest' = e.timestamp,
               in_order' = (in_order /\ (latest = None \/ latest <= e.timestamp))
        PROVE  OrderInv'
    <3>1. /\ DetectorInv' /\ DetectorInv /\ hits \in Seq(HitRecord)
          /\ e.key \in Key /\ e.timestamp \in Time /\ e.timestamp # None
          /\ latest \in Time \cup {None} /\ latest' \in Time
      BY <2>1, ObserveInv, WindowAssumption, DetectorAssumption
      DEF OrderInv, DetectorInv, WindowAssumption, Event
    <3>2. in_order' => in_order /\ (latest = None \/ latest <= e.timestamp)
      BY <2>1
    <3>3. CASE UNCHANGED <<hits, cooling, last_alert>>
      <4> SUFFICES ASSUME InOrder' PROVE AlertsBehind' /\ AlertsOfOneKey'
        BY <3>1, <3>3 DEF OrderInv
      <4>1. Alerts' = Alerts /\ AlertedKeys' = AlertedKeys
        BY <3>3 DEF Alerts, AlertedKeys
      <4>2. AlertsBehind /\ AlertsOfOneKey
        BY <3>2, <4>1 DEF OrderInv, InOrder
      <4>3. AlertsOfOneKey'
        BY <3>3, <4>1, <4>2 DEF AlertsOfOneKey
      <4>4. latest = None \/ latest <= e.timestamp
        BY <3>2 DEF InOrder
      <4>5. watermark' # None => latest' # None /\ watermark' <= latest'
        BY <2>1, <3>1, <4>2, <4>4, MarkStep, WindowAssumption, DetectorAssumption
        DEF AlertsBehind
      <4>6. ASSUME NEW k \in Key, last_alert[k] # None
            PROVE  k \in AlertedKeys /\ last_alert[k] <= e.timestamp
        <5>1. k \in AlertedKeys /\ latest # None /\ last_alert[k] <= latest
          BY <4>2, <4>6 DEF AlertsBehind
        <5>2. last_alert[k] \in Int /\ latest \in Int /\ e.timestamp \in Int
          BY <3>1, <4>6, <5>1, WindowAssumption
          DEF DetectorInv, CooldownTable, WindowAssumption
        <5> QED BY <4>4, <5>1, <5>2
      <4>7. AlertsBehind'
        BY <2>1, <3>1, <3>3, <4>1, <4>2, <4>5, <4>6 DEF AlertsBehind
      <4> QED BY <4>3, <4>7
    <3>4. ASSUME NEW hit \in HitRecord, hits' = Append(hits, hit),
                 hit.key = e.key, hit.at = e.timestamp,
                 hit.last = windows'[e.key][Len(windows'[e.key])].timestamp,
                 ObserveNew(e), Suppressed(e.key, hit) \/ Reported(e, hit)
          PROVE  OrderInv'
      <4>1. PICK n \in Nat : HitAdded(hit, n)
        BY <3>1, <3>4, HitAppended
      <4>2. InOrder' => AlertsBehind' /\ AlertsOfOneKey'
        BY <2>1, <3>2, <3>4, <4>1, OrderStep, WindowAssumption, DetectorAssumption
      <4> QED BY <3>1, <4>1, <4>2 DEF OrderInv, HitAdded
    <3> QED BY <2>1, <3>1, <3>3, <3>4, HitStep, WindowAssumption, DetectorAssumption
  <2>2. CASE UNCHANGED <<detectorVars, historyVars>>
    <3>1. DetectorInv'
      BY <2>2, DetectorStutter DEF OrderInv
    <3>2. UNCHANGED <<hits, latest, in_order, last_alert, watermark>>
      BY <2>2 DEF detectorVars, historyVars, windowVars
    <3>3. Alerts' = Alerts /\ AlertedKeys' = AlertedKeys
      BY <3>2 DEF Alerts, AlertedKeys
    <3>4. /\ InOrder' <=> InOrder
          /\ AlertsBehind' <=> AlertsBehind
          /\ AlertsOfOneKey' <=> AlertsOfOneKey
      BY <3>2, <3>3 DEF InOrder, AlertsBehind, AlertsOfOneKey
    <3> QED BY <3>1, <3>2, <3>4 DEF OrderInv
  <2> QED BY <2>1, <2>2 DEF MCNext
<1> QED BY <1>1, <1>2, PTL DEF MCSpec

\* While events arrive in order and the table holds every key that alerts, the key and the
\* last timestamp of an alert already tell it from every other.
THEOREM AlertsAreDistinct == MCSpec => []AlertsDistinct
<1>1. OrderInv => AlertsDistinct
  BY DEF OrderInv, InOrder, AlertedKeys, AlertsOfOneKey, AlertsDistinct
<1> QED BY <1>1, OrderInvariant, PTL
====
