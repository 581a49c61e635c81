---- MODULE SlidingWindowProofs ----
(***************************************************************************)
(* Proofs about SlidingWindow, for all keys, timestamps, spans and bounds. *)
(* First the operators of the handlers, then the counting of the values    *)
(* held, then the inductive invariant, the account of what is lost, and    *)
(* last what the deques hold until something is.                           *)
(***************************************************************************)
EXTENDS MCSlidingWindow, SequenceLemmas, FunctionTheorems

-----------------------------------------------------------------------------
\* The operators on deques.

\* A deque in which no later item has an earlier timestamp.
Sorted(w) == \A i, j \in 1..Len(w) : i <= j => w[i].timestamp <= w[j].timestamp

\* Prune drops the first items as long as they are before the cutoff.
LEMMA PruneProperties ==
    ASSUME NEW w \in Seq(Item), NEW cutoff \in Int
    PROVE  \E m \in 0..Len(w) :
              /\ Prune(w, cutoff) = SubSeq(w, m + 1, Len(w))
              /\ \A i \in 1..m : ~ (w[i].timestamp >= cutoff)
              /\ m < Len(w) => w[m + 1].timestamp >= cutoff
<1> DEFINE stop == {i \in 1..Len(w) + 1 :
                        i <= Len(w) => w[i].timestamp >= cutoff}
           first == Min(stop)
<1>1. Len(w) \in Nat
  BY LenProperties
<1>2. Len(w) + 1 \in stop /\ stop \in SUBSET Nat
  BY <1>1
<1>3. first \in stop /\ \A y \in stop : first <= y
  BY <1>2, LeastNatural
<1>4. first \in 1..Len(w) + 1
  BY <1>3
<1>5. \A i \in 1..(first - 1) : ~ (w[i].timestamp >= cutoff)
  BY <1>1, <1>3, <1>4
<1>6. (first - 1) < Len(w) => w[(first - 1) + 1].timestamp >= cutoff
  BY <1>1, <1>3, <1>4
<1>7. Prune(w, cutoff) = SubSeq(w, (first - 1) + 1, Len(w))
  <2>1. (first - 1) + 1 = first
    BY <1>1, <1>4
  <2> HIDE DEF first
  <2>2. Prune(w, cutoff) = SubSeq(w, first, Len(w))
    BY DEF Prune, first
  <2> QED BY <2>1, <2>2
<1>8. first - 1 \in 0..Len(w)
  BY <1>1, <1>4
<1> HIDE DEF first, stop
<1> QED BY <1>5, <1>6, <1>7, <1>8

\* What Prune leaves of a sorted deque: a deque of items at or after the cutoff.
LEMMA PruneSorted ==
    ASSUME WindowAssumption, NEW w \in Seq(Item), Sorted(w), NEW cutoff \in Int
    PROVE  /\ Prune(w, cutoff) \in Seq(Item)
           /\ Sorted(Prune(w, cutoff))
           /\ Len(Prune(w, cutoff)) <= Len(w)
           /\ \A i \in 1..Len(Prune(w, cutoff)) :
                 /\ Prune(w, cutoff)[i].timestamp >= cutoff
                 /\ \E j \in 1..Len(w) : Prune(w, cutoff)[i] = w[j]
           /\ \A j \in 1..Len(w) : w[j].timestamp >= cutoff =>
                 Prune(w, cutoff) # <<>>
<1>1. PICK m \in 0..Len(w) :
              /\ Prune(w, cutoff) = SubSeq(w, m + 1, Len(w))
              /\ \A i \in 1..m : ~ (w[i].timestamp >= cutoff)
              /\ m < Len(w) => w[m + 1].timestamp >= cutoff
  BY PruneProperties
<1> DEFINE p == Prune(w, cutoff)
<1>2. Len(w) \in Nat /\ m \in Nat
  BY LenProperties
<1>3. p \in Seq(Item) /\ Len(p) = Len(w) - m
      /\ \A i \in 1..(Len(w) - m) : p[i] = w[i + m]
  BY <1>1, SuffixProperties
<1>4. \A i \in 1..Len(w) : w[i].timestamp \in Int
  <2>1. \A i \in 1..Len(w) : w[i] \in Item
    BY ElementOfSeq
  <2> QED BY <2>1 DEF Item, WindowAssumption
<1>5. Sorted(p)
  BY <1>2, <1>3, SMTT(30) DEF Sorted
<1>6. ASSUME NEW i \in 1..Len(p)
      PROVE  p[i].timestamp >= cutoff /\ \E j \in 1..Len(w) : p[i] = w[j]
  <2>1. i + m \in 1..Len(w) /\ m + 1 \in 1..Len(w) /\ m < Len(w) /\ m + 1 <= i + m
    BY <1>2, <1>3
  <2>2. w[m + 1].timestamp <= w[i + m].timestamp
    BY <2>1 DEF Sorted
  <2>3. w[m + 1].timestamp >= cutoff
    BY <1>1, <2>1
  <2>4. w[i + m].timestamp >= cutoff
    BY <2>1, <2>2, <2>3, <1>4
  <2> QED BY <2>1, <2>4, <1>3
<1>7. ASSUME NEW j \in 1..Len(w), w[j].timestamp >= cutoff
      PROVE  p # <<>>
  <2>1. j > m
    BY <1>1, <1>2, <1>7
  <2>2. Len(p) # 0
    BY <2>1, <1>2, <1>3
  <2> QED BY <2>2, EmptySeq
<1> HIDE DEF p
<1>8. Len(p) <= Len(w)
  BY <1>2, <1>3
<1> QED BY <1>3, <1>5, <1>6, <1>7, <1>8 DEF p

\* Insert puts the item at some position p, between the items not later than it
\* and the later ones.
LEMMA InsertProperties ==
    ASSUME WindowAssumption, NEW w \in Seq(Item), Sorted(w), NEW e \in Item
    PROVE  \E p \in 1..Len(w) + 1 :
              /\ Insert(w, e) \in Seq(Item)
              /\ Len(Insert(w, e)) = Len(w) + 1
              /\ \A i \in 1..Len(w) + 1 : Insert(w, e)[i] =
                    IF i < p THEN w[i] ELSE IF i = p THEN e ELSE w[i - 1]
              /\ \A i \in 1..(p - 1) : w[i].timestamp <= e.timestamp
              /\ p <= Len(w) => w[p].timestamp > e.timestamp
<1> DEFINE later == {i \in 1..Len(w) + 1 :
                        i <= Len(w) => w[i].timestamp > e.timestamp}
           p == Min(later)
<1>1. Len(w) \in Nat
  BY LenProperties
<1>2. Len(w) + 1 \in later /\ later \in SUBSET Nat
  BY <1>1
<1>3. p \in later /\ \A y \in later : p <= y
  BY <1>2, LeastNatural
<1>4. p \in 1..Len(w) + 1 /\ (p <= Len(w) => w[p].timestamp > e.timestamp)
  BY <1>3
<1>5. \A i \in 1..Len(w) : w[i] \in Item /\ w[i].timestamp \in Int
  <2>1. \A i \in 1..Len(w) : w[i] \in Item
    BY ElementOfSeq
  <2> QED BY <2>1 DEF Item, WindowAssumption
<1>6. e.timestamp \in Int
  BY DEF Item, WindowAssumption
<1>7. \A i \in 1..(p - 1) : w[i].timestamp <= e.timestamp
  <2> SUFFICES ASSUME NEW i \in 1..(p - 1) PROVE w[i].timestamp <= e.timestamp
    OBVIOUS
  <2>1. i \in 1..Len(w) + 1 /\ i \in 1..Len(w) /\ ~ (p <= i)
    BY <1>1, <1>4
  <2>2. i \notin later
    BY <1>3, <2>1
  <2>3. ~ (w[i].timestamp > e.timestamp)
    BY <2>1, <2>2
  <2> QED BY <1>5, <1>6, <2>1, <2>3
<1>8. Insert(w, e) = (SubSeq(w, 1, p - 1) \o <<e>>) \o SubSeq(w, p, Len(w))
  BY DEF Insert, InsertAt
<1> HIDE DEF p, later
<1> DEFINE front == SubSeq(w, 1, p - 1)
           back == SubSeq(w, p, Len(w))
<1>9. front \in Seq(Item) /\ Len(front) = p - 1
      /\ \A i \in 1..(p - 1) : front[i] = w[i]
  BY <1>1, <1>4, <1>5, SubSeqProperties
<1>10. back \in Seq(Item) /\ Len(back) = (Len(w) - p) + 1
       /\ \A i \in 1..(Len(w) - p) + 1 : back[i] = w[(p + i) - 1]
  BY <1>1, <1>4, <1>5, SubSeqProperties
<1> DEFINE head == front \o <<e>>
<1> HIDE DEF front, back
<1>11. head \in Seq(Item) /\ Len(head) = p
       /\ \A i \in 1..p : head[i] = IF i < p THEN w[i] ELSE e
  <2>1. <<e>> \in Seq(Item) /\ Len(<<e>>) = 1 /\ <<e>>[1] = e
    OBVIOUS
  <2>2. head \in Seq(Item) /\ Len(head) = Len(front) + 1
        /\ \A i \in 1..(Len(front) + 1) :
              head[i] = IF i <= Len(front) THEN front[i] ELSE <<e>>[i - Len(front)]
    BY <1>9, <2>1, ConcatProperties
  <2> QED BY <1>4, <1>9, <2>1, <2>2
<1> HIDE DEF head
<1>12. Insert(w, e) = head \o back
  BY <1>8 DEF head, front, back
<1>13. /\ head \o back \in Seq(Item)
       /\ Len(head \o back) = p + Len(back)
       /\ \A i \in 1..(p + Len(back)) :
            (head \o back)[i] = IF i <= p THEN head[i] ELSE back[i - p]
  BY <1>10, <1>11, ConcatProperties, SMTT(30)
<1>14. \A i \in 1..Len(w) + 1 : (head \o back)[i] =
            IF i < p THEN w[i] ELSE IF i = p THEN e ELSE w[i - 1]
  <2> SUFFICES ASSUME NEW i \in 1..Len(w) + 1
               PROVE  (head \o back)[i] =
                        IF i < p THEN w[i] ELSE IF i = p THEN e ELSE w[i - 1]
    OBVIOUS
  <2>1. (head \o back)[i] = IF i <= p THEN head[i] ELSE back[i - p]
    BY <1>1, <1>4, <1>10, <1>13
  <2>2. CASE i <= p
    <3>1. (head \o back)[i] = head[i] /\ i \in 1..p
      BY <2>1, <2>2
    <3> QED BY <3>1, <1>4, <1>11
  <2>3. CASE i > p
    <3>1. i - p \in 1..(Len(w) - p) + 1
      BY <2>3, <1>1, <1>4
    <3>2. back[i - p] = w[(p + (i - p)) - 1] /\ (p + (i - p)) - 1 = i - 1
      BY <3>1, <1>10, <1>4
    <3>3. ~ (i <= p) /\ ~ (i < p) /\ i # p
      BY <2>3, <1>4
    <3> QED BY <2>1, <3>2, <3>3
  <2>4. i <= p \/ i > p
    BY <1>4
  <2> QED BY <2>2, <2>3, <2>4
<1>15. p + Len(back) = Len(w) + 1
  BY <1>1, <1>4, <1>10
<1> HIDE DEF head, back
<1> QED BY <1>4, <1>7, <1>12, <1>13, <1>14, <1>15

\* The sorted deque stays sorted, and its items are the old ones and the new one.
LEMMA InsertSorted ==
    ASSUME WindowAssumption, NEW w \in Seq(Item), Sorted(w), NEW e \in Item
    PROVE  /\ Insert(w, e) \in Seq(Item)
           /\ Len(Insert(w, e)) = Len(w) + 1
           /\ Sorted(Insert(w, e))
           /\ \E j \in 1..Len(Insert(w, e)) : Insert(w, e)[j] = e
           /\ \A i \in 1..Len(Insert(w, e)) :
                 \/ Insert(w, e)[i] = e
                 \/ \E j \in 1..Len(w) : Insert(w, e)[i] = w[j]
<1> DEFINE s == Insert(w, e)
<1>1. PICK p \in 1..Len(w) + 1 :
              /\ s \in Seq(Item)
              /\ Len(s) = Len(w) + 1
              /\ \A i \in 1..Len(w) + 1 : s[i] =
                    IF i < p THEN w[i] ELSE IF i = p THEN e ELSE w[i - 1]
              /\ \A i \in 1..(p - 1) : w[i].timestamp <= e.timestamp
              /\ p <= Len(w) => w[p].timestamp > e.timestamp
  BY InsertProperties
<1> HIDE DEF s
<1>2. Len(w) \in Nat
  BY LenProperties
<1>3. \A i \in 1..Len(w) : w[i].timestamp \in Int
  <2>1. \A i \in 1..Len(w) : w[i] \in Item
    BY ElementOfSeq
  <2> QED BY <2>1 DEF Item, WindowAssumption
<1>4. e.timestamp \in Int
  BY DEF Item, WindowAssumption
<1>5. \A i \in p..Len(w) : w[i].timestamp >= e.timestamp
  <2> SUFFICES ASSUME NEW i \in p..Len(w) PROVE w[i].timestamp >= e.timestamp
    OBVIOUS
  <2>1. p \in 1..Len(w) /\ i \in 1..Len(w) /\ p <= i
    BY <1>2
  <2>2. w[p].timestamp <= w[i].timestamp
    BY <2>1 DEF Sorted
  <2> QED BY <1>1, <1>3, <1>4, <2>1, <2>2
<1>6. ASSUME NEW i \in 1..Len(s), NEW j \in 1..Len(s), i <= j
      PROVE  s[i].timestamp <= s[j].timestamp
  <2>1. i \in 1..Len(w) + 1 /\ j \in 1..Len(w) + 1
    BY <1>1, <1>6
  <2>2. CASE j < p
    BY <2>1, <2>2, <1>1, <1>2, <1>6 DEF Sorted
  <2>3. CASE j = p
    <3>1. s[j] = e
      BY <2>1, <2>3, <1>1
    <3>2. CASE i = p
      BY <3>1, <3>2, <2>1, <1>1, <1>4
    <3>3. CASE i < p
      <4>1. s[i] = w[i] /\ i \in 1..(p - 1)
        BY <2>1, <3>3, <1>1, <1>2
      <4> QED BY <3>1, <4>1, <1>1
    <3> QED BY <2>3, <3>2, <3>3, <1>6, <2>1
  <2>4. CASE j > p
    <3>1. s[j] = w[j - 1] /\ j - 1 \in p..Len(w) /\ j - 1 \in 1..Len(w)
      BY <2>1, <2>4, <1>1, <1>2
    <3>2. CASE i < p
      <4>1. s[i] = w[i] /\ i \in 1..Len(w) /\ i <= j - 1
        BY <2>1, <2>4, <3>2, <1>1, <1>2
      <4> QED BY <3>1, <4>1 DEF Sorted
    <3>3. CASE i = p
      BY <3>1, <3>3, <2>1, <1>1, <1>3, <1>4, <1>5
    <3>4. CASE i > p
      <4>1. s[i] = w[i - 1] /\ i - 1 \in 1..Len(w) /\ i - 1 <= j - 1
        BY <2>1, <1>6, <3>4, <1>1, <1>2
      <4> QED BY <3>1, <4>1 DEF Sorted
    <3> QED BY <3>2, <3>3, <3>4, <2>1
  <2> QED BY <2>1, <2>2, <2>3, <2>4
<1>7. ASSUME NEW i \in 1..Len(s)
      PROVE  s[i] = e \/ \E j \in 1..Len(w) : s[i] = w[j]
  <2>1. CASE i < p
    BY <2>1, <1>1, <1>2
  <2>2. CASE i > p
    <3>1. i - 1 \in 1..Len(w) /\ s[i] = w[i - 1]
      BY <2>2, <1>1, <1>2
    <3> QED BY <3>1
  <2> QED BY <2>1, <2>2, <1>1, <1>2
<1>8. s[p] = e /\ p \in 1..Len(s)
  BY <1>1
<1> QED BY <1>1, <1>6, <1>7, <1>8 DEF s, Sorted

\* The per-key bound keeps a non-empty deque non-empty and only shortens it.
LEMMA NewestProperties ==
    ASSUME WindowAssumption, NEW w \in Seq(Item), Sorted(w)
    PROVE  /\ Newest(w) \in Seq(Item)
           /\ Len(Newest(w)) <= Len(w)
           /\ Len(Newest(w)) <= MaxValues
           /\ w # <<>> => Newest(w) # <<>>
           /\ Sorted(Newest(w))
           /\ \A i \in 1..Len(Newest(w)) : \E j \in 1..Len(w) : Newest(w)[i] = w[j]
<1>1. Len(w) \in Nat /\ MaxValues \in Nat \ {0}
  BY LenProperties DEF WindowAssumption
<1>2. CASE Len(w) > MaxValues
  <2> DEFINE m == Len(w) - MaxValues
  <2>1. m \in 0..Len(w) /\ Len(w) - m = MaxValues
    BY <1>1, <1>2
  <2>2. Newest(w) = SubSeq(w, m + 1, Len(w))
    BY <1>2 DEF Newest
  <2> HIDE DEF m
  <2>3. Newest(w) \in Seq(Item) /\ Len(Newest(w)) = MaxValues
        /\ \A i \in 1..MaxValues : Newest(w)[i] = w[i + m]
    BY <2>1, <2>2, SuffixProperties
  <2>4. \A i \in 1..MaxValues : i + m \in 1..Len(w)
    BY <1>1, <2>1
  <2>5. Sorted(Newest(w))
    BY <1>1, <2>1, <2>3, <2>4 DEF Sorted
  <2>6. Newest(w) # <<>>
    BY <1>1, <2>3, EmptySeq
  <2> QED BY <1>1, <1>2, <2>3, <2>4, <2>5, <2>6
<1>3. CASE Len(w) <= MaxValues
  BY <1>1, <1>3 DEF Newest
<1> QED BY <1>1, <1>2, <1>3

-----------------------------------------------------------------------------
\* Counting the values held.

\* Slots depends on nothing but the deques of the keys it is asked about.
LEMMA SlotsAgree ==
    ASSUME NEW d1, NEW d2, NEW ks, \A q \in ks : d1[q] = d2[q]
    PROVE  Slots(d1, ks) = Slots(d2, ks)
BY DEF Slots

\* A position belongs to one key.
LEMMA SlotsMember ==
    ASSUME NEW d, NEW ks, NEW s
    PROVE  s \in Slots(d, ks) <=>
               \E k \in ks : \E i \in 1..Len(d[k]) : s = <<k, i>>
BY DEF Slots

\* A key with n positions.
LEMMA PositionsOfKey ==
    ASSUME NEW k, NEW n \in Nat
    PROVE  /\ IsFiniteSet({k} \X (1..n))
           /\ Cardinality({k} \X (1..n)) = n
<1> DEFINE T == 1..n
<1>1. 1 \in Int /\ n \in Int
  OBVIOUS
<1>2. IsFiniteSet(T) /\ Cardinality(T) = n
  <2>1. IsFiniteSet(1..n) /\ Cardinality(1..n) = IF 1 > n THEN 0 ELSE n - 1 + 1
    BY <1>1, FS_Interval
  <2> QED BY <2>1
<1>3. IsFiniteSet({k}) /\ Cardinality({k}) = 1
  BY FS_Singleton
<1> HIDE DEF T
<1>4. IsFiniteSet({k} \X T) /\ Cardinality({k} \X T) = Cardinality({k}) * Cardinality(T)
  BY <1>2, <1>3, FS_Product
<1>5. IsFiniteSet({k} \X T) /\ Cardinality({k} \X T) = n
  BY <1>2, <1>3, <1>4
<1> QED BY <1>5 DEF T

\* One deque holds as many values as it is long.
LEMMA HeldByOne ==
    ASSUME NEW d, NEW k, Len(d[k]) \in Nat
    PROVE  /\ IsFiniteSet(Slots(d, {k}))
           /\ Held(d, {k}) = Len(d[k])
<1> DEFINE n == Len(d[k])
<1>1. Slots(d, {k}) = {k} \X (1..n)
  BY DEF Slots
<1>2. n \in Nat
  OBVIOUS
<1> HIDE DEF n
<1>3. IsFiniteSet({k} \X (1..n)) /\ Cardinality({k} \X (1..n)) = n
  BY <1>2, PositionsOfKey
<1>4. IsFiniteSet(Slots(d, {k})) /\ Held(d, {k}) = n
  BY <1>1, <1>3 DEF Held
<1> QED BY <1>4 DEF n

\* The values of two groups of keys that share no key add up.
LEMMA HeldAdds ==
    ASSUME NEW d, NEW A, NEW B, A \cap B = {},
           IsFiniteSet(Slots(d, A)), IsFiniteSet(Slots(d, B))
    PROVE  /\ IsFiniteSet(Slots(d, A \cup B))
           /\ Held(d, A \cup B) = Held(d, A) + Held(d, B)
<1> DEFINE X == Slots(d, A)
           Y == Slots(d, B)
<1>1. Slots(d, A \cup B) = X \cup Y
  BY DEF Slots
<1>2. X \cap Y = {}
  BY SlotsMember
<1>3. IsFiniteSet(X) /\ IsFiniteSet(Y)
  OBVIOUS
<1> HIDE DEF X, Y
<1>4. /\ IsFiniteSet(X \cup Y)
      /\ Cardinality(X \cup Y) = Cardinality(X) + Cardinality(Y) - Cardinality(X \cap Y)
  BY <1>3, FS_Union
<1>5. Cardinality(X) \in Nat /\ Cardinality(Y) \in Nat
  BY <1>3, FS_CardinalityType
<1>6. Cardinality(X \cap Y) = 0
  BY <1>2, FS_EmptySet
<1>7. /\ IsFiniteSet(X \cup Y)
      /\ Cardinality(X \cup Y) = Cardinality(X) + Cardinality(Y)
  BY <1>4, <1>5, <1>6
<1> QED BY <1>1, <1>7 DEF X, Y, Held

\* When two groups of keys together hold finitely many values, so does each.
LEMMA HeldSplit ==
    ASSUME NEW d, NEW A, NEW B, A \cap B = {}, IsFiniteSet(Slots(d, A \cup B))
    PROVE  /\ IsFiniteSet(Slots(d, A)) /\ IsFiniteSet(Slots(d, B))
           /\ Held(d, A) \in Nat /\ Held(d, B) \in Nat
           /\ Held(d, A \cup B) = Held(d, A) + Held(d, B)
<1>1. Slots(d, A) \subseteq Slots(d, A \cup B) /\ Slots(d, B) \subseteq Slots(d, A \cup B)
  BY DEF Slots
<1>2. IsFiniteSet(Slots(d, A)) /\ IsFiniteSet(Slots(d, B))
  BY <1>1, FS_Subset
<1>3. Held(d, A \cup B) = Held(d, A) + Held(d, B)
  BY <1>2, HeldAdds
<1>4. Held(d, A) \in Nat /\ Held(d, B) \in Nat
  BY <1>2, FS_CardinalityType DEF Held
<1> QED BY <1>2, <1>3, <1>4

\* Replacing the deque of one key changes the count by the change in its length.
LEMMA HeldReplaced ==
    ASSUME NEW d \in [Key -> Seq(Item)], IsFiniteSet(Slots(d, Key)),
           NEW k \in Key, NEW w \in Seq(Item)
    PROVE  LET e == [d EXCEPT ![k] = w]
           IN  /\ IsFiniteSet(Slots(e, Key))
               /\ Held(e, Key) = Held(d, Key) - Len(d[k]) + Len(w)
<1> DEFINE e == [d EXCEPT ![k] = w]
           one == {k}
           rest == Key \ {k}
<1>1. e[k] = w /\ \A q \in rest : e[q] = d[q]
  OBVIOUS
<1>2. Len(w) \in Nat /\ Len(d[k]) \in Nat
  BY LenProperties
<1>3. one \cap rest = {} /\ one \cup rest = Key
  OBVIOUS
<1>4. Held(d, one) = Len(d[k])
  BY <1>2, HeldByOne
<1>5. e[k] = w => IsFiniteSet(Slots(e, one)) /\ Held(e, one) = Len(w)
  BY <1>2, HeldByOne
<1> HIDE DEF e, one, rest
<1>6. IsFiniteSet(Slots(d, rest)) /\ Held(d, rest) \in Nat
      /\ Held(d, Key) = Held(d, one) + Held(d, rest)
  <2>1. IsFiniteSet(Slots(d, one \cup rest))
    BY <1>3, Zenon
  <2>2. IsFiniteSet(Slots(d, rest)) /\ Held(d, rest) \in Nat
        /\ Held(d, one \cup rest) = Held(d, one) + Held(d, rest)
    BY <1>3, <2>1, HeldSplit
  <2> QED BY <1>3, <2>2, Zenon
<1>7. Slots(e, rest) = Slots(d, rest)
  BY <1>1, SlotsAgree
<1>8. IsFiniteSet(Slots(e, one \cup rest))
      /\ Held(e, one \cup rest) = Held(e, one) + Held(e, rest)
  BY <1>1, <1>3, <1>5, <1>6, <1>7, HeldAdds
<1>9. Held(e, rest) = Held(d, rest)
  BY <1>7 DEF Held
<1>10. IsFiniteSet(Slots(e, Key)) /\ Held(e, Key) = Held(d, Key) - Len(d[k]) + Len(w)
  <2>1. IsFiniteSet(Slots(e, Key)) /\ Held(e, Key) = Held(e, one) + Held(e, rest)
    BY <1>3, <1>8, Zenon
  <2> QED BY <1>1, <1>2, <1>4, <1>5, <1>6, <1>9, <2>1
<1> QED BY <1>10 DEF e

\* Emptying the deques of some keys leaves the values of the others.
LEMMA HeldEmptied ==
    ASSUME NEW d \in [Key -> Seq(Item)], IsFiniteSet(Slots(d, Key)),
           NEW V \in SUBSET Key
    PROVE  LET e == [q \in Key |-> IF q \in V THEN <<>> ELSE d[q]]
           IN  /\ IsFiniteSet(Slots(e, Key))
               /\ Held(e, Key) = Held(d, Key) - Held(d, V)
               /\ Held(d, V) \in Nat
               /\ Held(d, Key) - Held(d, V) \in Nat
<1> DEFINE e == [q \in Key |-> IF q \in V THEN <<>> ELSE d[q]]
           rest == Key \ V
<1>1. \A q \in V : Len(e[q]) = 0
  BY EmptySeq
<1>2. \A q \in rest : e[q] = d[q]
  OBVIOUS
<1>3. V \cap rest = {} /\ V \cup rest = Key
  OBVIOUS
<1> HIDE DEF e, rest
<1>4. Held(d, V) \in Nat /\ Held(d, rest) \in Nat
      /\ IsFiniteSet(Slots(d, rest))
      /\ Held(d, Key) = Held(d, V) + Held(d, rest)
  <2>1. IsFiniteSet(Slots(d, V \cup rest))
    BY <1>3, Zenon
  <2>2. /\ IsFiniteSet(Slots(d, rest))
        /\ Held(d, V) \in Nat /\ Held(d, rest) \in Nat
        /\ Held(d, V \cup rest) = Held(d, V) + Held(d, rest)
    BY <1>3, <2>1, HeldSplit
  <2> QED BY <1>3, <2>2, Zenon
<1>5. Slots(e, rest) = Slots(d, rest)
  BY <1>2, SlotsAgree
<1>6. Slots(e, V) = {}
  BY <1>1, SlotsMember
<1>7. IsFiniteSet(Slots(e, V)) /\ Held(e, V) = 0
  BY <1>6, FS_EmptySet DEF Held
<1>8. IsFiniteSet(Slots(e, V \cup rest))
      /\ Held(e, V \cup rest) = Held(e, V) + Held(e, rest)
  BY <1>3, <1>4, <1>5, <1>7, HeldAdds
<1>9. Held(e, rest) = Held(d, rest)
  BY <1>5 DEF Held
<1>10. IsFiniteSet(Slots(e, Key)) /\ Held(e, Key) = Held(d, Key) - Held(d, V)
       /\ Held(d, Key) - Held(d, V) \in Nat
  <2>1. IsFiniteSet(Slots(e, Key)) /\ Held(e, Key) = Held(e, V) + Held(e, rest)
    BY <1>3, <1>8, Zenon
  <2> QED BY <1>4, <1>7, <1>9, <2>1
<1> QED BY <1>4, <1>10 DEF e

-----------------------------------------------------------------------------
\* The order of the keys.

\* Without takes k off the list, if it is there, and leaves the other keys.
LEMMA WithoutProperties ==
    ASSUME NEW keys \in Seq(Key), IsInjective(keys), NEW k \in Key
    PROVE  /\ Without(keys, k) \in Seq(Key)
           /\ IsInjective(Without(keys, k))
           /\ Len(Without(keys, k)) <= Len(keys)
           /\ k \in ToSet(keys) => Len(Without(keys, k)) + 1 <= Len(keys)
           /\ ToSet(Without(keys, k)) = ToSet(keys) \ {k}
<1>1. Len(keys) \in Nat /\ DOMAIN keys = 1..Len(keys)
  BY LenProperties
<1>2. CASE k \in ToSet(keys)
  <2> DEFINE p == CHOOSE i \in DOMAIN keys : keys[i] = k
             r == RemoveAt(keys, p)
  <2>1. p \in 1..Len(keys) /\ keys[p] = k
    BY <1>1, <1>2 DEF ToSet
  <2>2. Without(keys, k) = r
    BY <1>2 DEF Without
  <2> HIDE DEF p
  <2>3. /\ r \in Seq(Key) /\ IsInjective(r) /\ Len(r) = Len(keys) - 1
        /\ ToSet(r) = ToSet(keys) \ {k}
    BY <2>1, RemovedElement
  <2> QED BY <1>1, <2>2, <2>3
<1>3. CASE k \notin ToSet(keys)
  <2>1. Without(keys, k) = keys
    BY <1>3 DEF Without
  <2> QED BY <1>1, <1>3, <2>1
<1> QED BY <1>2, <1>3

\* Touch puts k at the end and keeps every other key.
LEMMA TouchProperties ==
    ASSUME NEW keys \in Seq(Key), IsInjective(keys), NEW k \in Key
    PROVE  /\ Touch(keys, k) \in Seq(Key)
           /\ IsInjective(Touch(keys, k))
           /\ Len(Touch(keys, k)) \in Nat \ {0}
           /\ Len(Touch(keys, k)) <= Len(keys) + 1
           /\ k \in ToSet(keys) => Len(Touch(keys, k)) <= Len(keys)
           /\ Touch(keys, k)[Len(Touch(keys, k))] = k
           /\ ToSet(Touch(keys, k)) = ToSet(keys) \cup {k}
<1> DEFINE r == Without(keys, k)
<1>1. /\ r \in Seq(Key) /\ IsInjective(r) /\ ToSet(r) = ToSet(keys) \ {k}
      /\ Len(r) <= Len(keys)
      /\ k \in ToSet(keys) => Len(r) + 1 <= Len(keys)
  BY WithoutProperties
<1> HIDE DEF r
<1>2. k \notin ToSet(r) /\ ToSet(r) \cup {k} = ToSet(keys) \cup {k}
  BY <1>1
<1>3. /\ Append(r, k) \in Seq(Key) /\ IsInjective(Append(r, k))
      /\ Len(Append(r, k)) = Len(r) + 1 /\ Append(r, k)[Len(r) + 1] = k
      /\ ToSet(Append(r, k)) = ToSet(r) \cup {k}
  BY <1>1, <1>2, AddedElement
<1>4. Len(r) + 1 \in Nat \ {0} /\ Len(r) + 1 <= Len(keys) + 1
  BY <1>1, LenProperties
<1> QED BY <1>1, <1>2, <1>3, <1>4 DEF Touch, r

\* Evicting the first n keys of a list without repetition.
LEMMA EvictedKeys ==
    ASSUME NEW keys \in Seq(Key), IsInjective(keys), NEW n \in 0..Len(keys)
    PROVE  LET rest == SubSeq(keys, n + 1, Len(keys))
               victims == ToSet(SubSeq(keys, 1, n))
           IN  /\ rest \in Seq(Key) /\ IsInjective(rest)
               /\ Len(rest) = Len(keys) - n
               /\ \A i \in 1..(Len(keys) - n) : rest[i] = keys[i + n]
               /\ ToSet(rest) = ToSet(keys) \ victims
               /\ victims = {keys[i] : i \in 1..n}
               /\ victims \subseteq Key
<1> DEFINE rest == SubSeq(keys, n + 1, Len(keys))
           first == SubSeq(keys, 1, n)
<1>1. Len(keys) \in Nat /\ DOMAIN keys = 1..Len(keys) /\ n \in Nat
      /\ \A i \in 1..Len(keys) : keys[i] \in Key
  BY LenProperties, ElementOfSeq
<1>2. rest \in Seq(Key) /\ Len(rest) = Len(keys) - n
      /\ \A i \in 1..(Len(keys) - n) : rest[i] = keys[i + n]
  BY SuffixProperties
<1>3. first \in Seq(Key) /\ Len(first) = n /\ \A i \in 1..n : first[i] = keys[i]
  BY <1>1, SubSeqProperties
<1>4. DOMAIN rest = 1..(Len(keys) - n) /\ DOMAIN first = 1..n
  BY <1>2, <1>3, LenProperties
<1> HIDE DEF rest, first
<1>5. IsInjective(rest)
  <2> SUFFICES ASSUME NEW i \in 1..(Len(keys) - n), NEW j \in 1..(Len(keys) - n),
                      rest[i] = rest[j]
               PROVE  i = j
    BY <1>4 DEF IsInjective
  <2>1. keys[i + n] = keys[j + n] /\ i + n \in DOMAIN keys /\ j + n \in DOMAIN keys
    BY <1>1, <1>2
  <2>2. i + n = j + n
    BY <2>1 DEF IsInjective
  <2> QED BY <2>2, <1>1
<1>6. ToSet(first) = {keys[i] : i \in 1..n}
  BY <1>3, <1>4 DEF ToSet
<1>7. ToSet(first) \subseteq Key
  BY <1>1, <1>6
<1>8. ASSUME NEW x \in ToSet(rest) PROVE x \in ToSet(keys) \ ToSet(first)
  <2>1. PICK i \in 1..(Len(keys) - n) : x = keys[i + n]
    BY <1>2, <1>4 DEF ToSet
  <2>2. i + n \in DOMAIN keys /\ ~ (i + n \in 1..n)
    BY <1>1
  <2>3. \A j \in 1..n : j \in DOMAIN keys /\ j # i + n
    BY <1>1, <2>2
  <2>4. \A j \in 1..n : keys[j] # x
    BY <2>1, <2>2, <2>3 DEF IsInjective
  <2> QED BY <2>1, <2>2, <2>4, <1>6 DEF ToSet
<1>9. ASSUME NEW x \in ToSet(keys) \ ToSet(first) PROVE x \in ToSet(rest)
  <2>1. PICK i \in DOMAIN keys : x = keys[i]
    BY DEF ToSet
  <2>2. ~ (i \in 1..n)
    BY <2>1, <1>6
  <2>3. i - n \in 1..(Len(keys) - n) /\ (i - n) + n = i
    BY <2>2, <1>1
  <2>4. i - n \in DOMAIN rest /\ rest[i - n] = x
    BY <2>1, <2>3, <1>2, <1>4
  <2> QED BY <2>4 DEF ToSet
<1> QED BY <1>2, <1>5, <1>6, <1>7, <1>8, <1>9 DEF rest, first

\* The eviction loop stops before the key that was just added: its deque alone is
\* within both bounds, because max_total_values is at least max_values_per_key.
LEMMA OverflowStops ==
    ASSUME WindowAssumption,
           NEW keys \in Seq(Key), IsInjective(keys), Len(keys) \in Nat \ {0},
           NEW d \in [Key -> Seq(Item)], IsFiniteSet(Slots(d, Key)),
           \A q \in Key : q \notin ToSet(keys) => d[q] = <<>>,
           Len(d[keys[Len(keys)]]) <= MaxValues
    PROVE  LET n == Overflow(keys, d, Held(d, Key))
           IN  /\ n \in 0..(Len(keys) - 1)
               /\ Len(keys) - n <= MaxKeys
               /\ Held(d, Key) - Held(d, ToSet(SubSeq(keys, 1, n))) <= MaxTotal
<1> DEFINE k == keys[Len(keys)]
           one == {k}
           V == ToSet(SubSeq(keys, 1, Len(keys) - 1))
           fits == {n \in 0..Len(keys) :
                        /\ Len(keys) - n <= MaxKeys
                        /\ Held(d, Key) - Held(d, ToSet(SubSeq(keys, 1, n))) <= MaxTotal}
           rest == Key \ V
           m == Len(keys) - 1
<1>1. MaxKeys \in Nat \ {0} /\ MaxTotal \in Nat /\ MaxValues \in Nat
      /\ MaxTotal >= MaxValues
  BY DEF WindowAssumption
<1>2. m \in 0..Len(keys) /\ Len(keys) \in DOMAIN keys /\ DOMAIN keys = 1..Len(keys)
  BY LenProperties
<1>3. k \in Key /\ Len(d[k]) \in Nat
  <2>1. k \in Key
    BY <1>2, ElementOfSeq
  <2> QED BY <2>1, LenProperties
<1>4. V = {keys[i] : i \in 1..m} /\ V \subseteq Key
  BY <1>2, EvictedKeys
<1>5. ASSUME NEW q \in rest, q # k PROVE Len(d[q]) = 0
  <2>1. \A i \in DOMAIN keys : keys[i] # q
    BY <1>2, <1>4, <1>5
  <2> QED BY <2>1, EmptySeq DEF ToSet
<1>6. k \in rest
  <2>1. \A i \in 1..m : i \in DOMAIN keys /\ i # Len(keys)
    <3>1. \A i \in 1..m : i \in 1..Len(keys) /\ i # Len(keys)
      OBVIOUS
    <3> QED BY <3>1, <1>2
  <2>2. \A i \in 1..m : keys[i] # k
    BY <2>1, <1>2 DEF IsInjective
  <2> QED BY <1>3, <1>4, <2>2
<1>7. V \cap rest = {} /\ V \cup rest = Key
  BY <1>4
<1> HIDE DEF V, rest, k
<1>8. Slots(d, rest) = Slots(d, one)
  <2>1. ASSUME NEW s \in Slots(d, rest) PROVE s \in Slots(d, one)
    <3>1. PICK q \in rest : \E i \in 1..Len(d[q]) : s = <<q, i>>
      BY SlotsMember
    <3>2. q = k
      <4>1. CASE q # k
        <5>1. Len(d[q]) = 0
          BY <4>1, <1>5
        <5> QED BY <3>1, <5>1
      <4> QED BY <4>1
    <3> QED BY <3>1, <3>2, SlotsMember
  <2>2. ASSUME NEW s \in Slots(d, one) PROVE s \in Slots(d, rest)
    BY <1>6, SlotsMember
  <2> QED BY <2>1, <2>2
<1>9. Held(d, one) = Len(d[k])
  BY <1>3, HeldByOne
<1>10. Held(d, Key) = Held(d, V) + Held(d, rest) /\ Held(d, V) \in Nat
       /\ Held(d, rest) \in Nat
  <2>1. IsFiniteSet(Slots(d, V \cup rest))
    BY <1>7, Zenon
  <2>2. Held(d, V \cup rest) = Held(d, V) + Held(d, rest) /\ Held(d, V) \in Nat
        /\ Held(d, rest) \in Nat
    BY <1>7, <2>1, HeldSplit
  <2> QED BY <1>7, <2>2, Zenon
<1>11. Held(d, Key) - Held(d, V) <= MaxTotal
  <2>1. Held(d, rest) = Len(d[k]) /\ Len(d[k]) <= MaxValues
    BY <1>8, <1>9 DEF Held, k
  <2> QED BY <2>1, <1>1, <1>3, <1>10
<1>12. m \in fits
  <2>1. Len(keys) - m <= MaxKeys
    BY <1>1
  <2> QED BY <1>2, <1>11, <2>1 DEF V
<1>13. fits \in SUBSET Nat
  OBVIOUS
<1>14. Overflow(keys, d, Held(d, Key)) = Min(fits)
  BY DEF Overflow
<1> HIDE DEF fits
<1>15. Min(fits) \in fits /\ Min(fits) <= m
  BY <1>12, <1>13, LeastNatural
<1> DEFINE least == Min(fits)
<1>16. least \in fits /\ least <= m
  BY <1>15
<1> HIDE DEF least
<1>17. /\ least \in 0..(Len(keys) - 1)
       /\ Len(keys) - least <= MaxKeys
       /\ Held(d, Key) - Held(d, ToSet(SubSeq(keys, 1, least))) <= MaxTotal
  BY <1>16 DEF fits
<1> QED BY <1>14, <1>17 DEF least

-----------------------------------------------------------------------------
\* The inductive invariant.  The properties need each other: the capacity bounds
\* need the exact count, which needs every value to belong to a key of order,
\* which needs the deques to be sorted, for Prune to find all that has expired.
Inv ==
    /\ TypeOK
    /\ KeysHoldValues
    /\ IsFiniteSet(Slots(windows, Key))
    /\ CountExact
    /\ WithinCapacity
    /\ Chronological
    /\ watermark = None => order = <<>>

\* What Chronological says of one deque.
InSpan(w, mark) ==
    /\ Sorted(w)
    /\ \A i \in 1..Len(w) : w[i].timestamp <= mark
    /\ \A i, j \in 1..Len(w) : w[j].timestamp - w[i].timestamp <= Span

\* Chronological is InSpan of every deque.
LEMMA ChronologicalDeques ==
    Chronological <=> \A k \in Key : InSpan(windows[k], watermark)
BY DEF Chronological, InSpan, Sorted

\* A later watermark keeps a deque in its span.
LEMMA InSpanLater ==
    ASSUME WindowAssumption, NEW w \in Seq(Item), NEW mark \in Int, NEW later \in Int,
           mark <= later, InSpan(w, mark)
    PROVE  InSpan(w, later)
<1>1. \A i \in 1..Len(w) : w[i].timestamp \in Int
  <2>1. \A i \in 1..Len(w) : w[i] \in Item
    BY ElementOfSeq
  <2> QED BY <2>1 DEF Item, WindowAssumption
<1>2. \A i \in 1..Len(w) : w[i].timestamp <= later
  BY <1>1 DEF InSpan
<1> QED BY <1>2 DEF InSpan

\* Items between mark - Span and mark span one window.
LEMMA InSpanRecent ==
    ASSUME WindowAssumption, NEW w \in Seq(Item), NEW mark \in Int, Sorted(w),
           \A i \in 1..Len(w) : w[i].timestamp <= mark /\ w[i].timestamp >= mark - Span
    PROVE  InSpan(w, mark)
<1>1. \A i \in 1..Len(w) : w[i].timestamp \in Int
  <2>1. \A i \in 1..Len(w) : w[i] \in Item
    BY ElementOfSeq
  <2> QED BY <2>1 DEF Item, WindowAssumption
<1>2. Span \in Int
  BY DEF WindowAssumption
<1>3. \A i, j \in 1..Len(w) : w[j].timestamp - w[i].timestamp <= Span
  BY <1>1, <1>2
<1> QED BY <1>3 DEF InSpan

\* Empty deques satisfy Inv.
LEMMA InitInv ==
    ASSUME WindowAssumption
    PROVE  Init => Inv
<1> SUFFICES ASSUME Init PROVE Inv
  OBVIOUS
<1>1. windows \in [Key -> Seq(Item)] /\ \A k \in Key : windows[k] = <<>> /\ Len(windows[k]) = 0
  BY EmptySeq DEF Init
<1>2. order \in Seq(Key) /\ Len(order) = 0 /\ DOMAIN order = {}
  BY EmptySeq DEF Init
<1>3. TypeOK
  BY <1>1, <1>2 DEF TypeOK, Init
<1>4. KeysHoldValues
  BY <1>1, <1>2 DEF KeysHoldValues, IsInjective, ToSet
<1>5. Slots(windows, Key) = {}
  BY <1>1, SlotsMember
<1>6. IsFiniteSet(Slots(windows, Key)) /\ CountExact
  BY <1>5, FS_EmptySet DEF CountExact, Held, Init
<1>7. WithinCapacity
  BY <1>1, <1>2 DEF WithinCapacity, Init, WindowAssumption
<1>8. Chronological
  BY <1>1 DEF Chronological
<1> QED BY <1>3, <1>4, <1>6, <1>7, <1>8 DEF Inv, Init

\* A late event only prunes the deque of its key.
LEMMA AddLateInv ==
    ASSUME WindowAssumption, Inv, NEW k \in Key, NEW t \in Time, AddLate(k, t)
    PROVE  Inv'
<1> DEFINE w == windows[k]
           pruned == Prune(w, watermark - Span)
<1>1. watermark \in Int /\ Span \in Nat
  <2>1. t \in Int /\ Span \in Nat \ {0} /\ Time \subseteq Int
    BY DEF WindowAssumption
  <2>2. watermark # None
    BY <2>1 DEF AddLate, Advance
  <2> QED BY <2>1, <2>2 DEF Inv, TypeOK
<1> watermark # None
  BY <1>1 DEF WindowAssumption
<1>2. windows \in [Key -> Seq(Item)] /\ order \in Seq(Key) /\ w \in Seq(Item)
  BY DEF Inv, TypeOK
<1>3. InSpan(w, watermark) /\ Sorted(w)
  BY ChronologicalDeques DEF Inv, InSpan
<1>4. /\ pruned \in Seq(Item) /\ Sorted(pruned) /\ Len(pruned) <= Len(w)
      /\ \A i \in 1..Len(pruned) :
            /\ pruned[i].timestamp >= watermark - Span
            /\ \E j \in 1..Len(w) : pruned[i] = w[j]
  <2>1. watermark - Span \in Int
    BY <1>1
  <2> QED BY <2>1, <1>2, <1>3, PruneSorted
<1>5. InSpan(pruned, watermark)
  <2>1. \A i \in 1..Len(pruned) : pruned[i].timestamp <= watermark
    BY <1>3, <1>4 DEF InSpan
  <2> QED BY <1>1, <1>4, <2>1, InSpanRecent
<1>6. /\ windows' = [windows EXCEPT ![k] = pruned]
      /\ value_count' = value_count + Growth(w, pruned)
      /\ order' = IF pruned = <<>> THEN Without(order, k) ELSE order
      /\ late_events' = late_events + 1
      /\ UNCHANGED <<watermark, evicted_keys, evicted_values>>
  BY DEF AddLate, Values
<1>7. Len(w) \in Nat /\ Len(pruned) \in Nat
  BY <1>2, <1>4, LenProperties
<1>8. IsFiniteSet(Slots(windows, Key)) /\ value_count = Held(windows, Key)
  BY DEF Inv, CountExact
<1> HIDE DEF pruned
<1>9. IsFiniteSet(Slots(windows', Key))
      /\ Held(windows', Key) = Held(windows, Key) - Len(w) + Len(pruned)
  BY <1>2, <1>4, <1>6, <1>8, HeldReplaced
<1>10. Held(windows', Key) \in Nat /\ Held(windows, Key) \in Nat
  BY <1>8, <1>9, FS_CardinalityType DEF Held
<1>11. value_count' = Held(windows', Key)
  BY <1>6, <1>7, <1>8, <1>9, <1>10 DEF Growth
<1>12. windows' \in [Key -> Seq(Item)] /\ windows'[k] = pruned
       /\ \A q \in Key : q # k => windows'[q] = windows[q]
  BY <1>2, <1>4, <1>6
<1>13. /\ order' \in Seq(Key) /\ IsInjective(order') /\ Len(order') <= Len(order)
       /\ ToSet(order') = IF pruned = <<>> THEN ToSet(order) \ {k} ELSE ToSet(order)
  <2>1. IsInjective(order) /\ Len(order) \in Nat /\ DOMAIN order = 1..Len(order)
    BY <1>2, LenProperties DEF Inv, KeysHoldValues
  <2>2. CASE pruned = <<>>
    <3>1. order' = Without(order, k)
      BY <2>2, <1>6
    <3> QED BY <2>1, <2>2, <3>1, <1>2, WithoutProperties
  <2>3. CASE pruned # <<>>
    <3>1. order' = order
      BY <2>3, <1>6
    <3> QED BY <2>1, <2>3, <3>1, <1>2
  <2> QED BY <2>2, <2>3
<1>14. TypeOK'
  BY <1>6, <1>10, <1>11, <1>12, <1>13 DEF Inv, TypeOK
<1>15. KeysHoldValues'
  <2>1. \A q \in Key : (q \in ToSet(order)) <=> (windows[q] # <<>>)
    BY DEF Inv, KeysHoldValues
  <2>2. w = <<>> => pruned = <<>>
    <3>1. w = <<>> => Len(pruned) = 0
      BY <1>4, <1>7, EmptySeq
    <3> QED BY <3>1, <1>4, EmptySeq
  <2>3. \A q \in Key : (q \in ToSet(order')) <=> (windows'[q] # <<>>)
    BY <1>12, <1>13, <2>1, <2>2
  <2> QED BY <1>13, <2>3 DEF KeysHoldValues, ToSet
<1>16. WithinCapacity'
  <2>1. /\ Len(order) <= MaxKeys /\ value_count <= MaxTotal
        /\ \A q \in Key : Len(windows[q]) <= MaxValues
    BY DEF Inv, WithinCapacity
  <2>2. MaxKeys \in Nat /\ MaxTotal \in Nat /\ MaxValues \in Nat
    BY DEF WindowAssumption
  <2>3. Len(order') <= MaxKeys
    <3>1. Len(order) \in Nat /\ Len(order') \in Nat
      BY <1>2, <1>13, LenProperties
    <3> QED BY <3>1, <1>13, <2>1, <2>2
  <2>4. value_count' <= MaxTotal
    BY <1>6, <1>4, <1>7, <1>8, <1>10, <2>1, <2>2, SMTT(30) DEF Growth
  <2>5. ASSUME NEW q \in Key PROVE Len(windows'[q]) <= MaxValues
    <3>1. CASE q = k
      <4>1. Len(w) <= MaxValues
        BY <2>1
      <4>2. windows'[q] = pruned
        BY <1>12, <3>1
      <4> QED BY <1>4, <1>7, <2>2, <4>1, <4>2
    <3>2. CASE q # k
      BY <1>12, <2>1, <3>2
    <3> QED BY <3>1, <3>2
  <2> QED BY <2>3, <2>4, <2>5 DEF WithinCapacity
<1>17. Chronological'
  <2>1. \A q \in Key : InSpan(windows[q], watermark)
    BY ChronologicalDeques DEF Inv
  <2>2. \A q \in Key : InSpan(windows'[q], watermark')
    BY <1>5, <1>6, <1>12, <2>1
  <2> QED BY <2>2 DEF Chronological, InSpan, Sorted
<1>18. watermark' # None
  BY <1>6
<1> QED BY <1>9, <1>11, <1>14, <1>15, <1>16, <1>17, <1>18 DEF Inv, CountExact, Slots

\* What add does to the deque of the key of an accepted event: the result is a
\* non-empty deque within its bound that spans one window up to the new watermark.
LEMMA AcceptedDeque ==
    ASSUME WindowAssumption, Inv, NEW k \in Key, NEW t \in Time, NEW v \in Value,
           t >= Advance(t) - Span
    PROVE  LET pruned == Prune(Insert(windows[k], [timestamp |-> t, value |-> v]),
                               Advance(t) - Span)
               kept == Newest(pruned)
           IN  /\ Advance(t) \in Time /\ Advance(t) \in Int
               /\ watermark = None \/ (watermark \in Int /\ watermark <= Advance(t))
               /\ pruned \in Seq(Item)
               /\ kept \in Seq(Item) /\ kept # <<>>
               /\ Len(kept) <= Len(pruned) /\ Len(kept) <= MaxValues
               /\ InSpan(kept, Advance(t))
               /\ \A i \in 1..Len(kept) : kept[i].timestamp >= Advance(t) - Span
<1> DEFINE mark == Advance(t)
           e == [timestamp |-> t, value |-> v]
           w == windows[k]
           inserted == Insert(w, e)
           pruned == Prune(inserted, mark - Span)
           kept == Newest(pruned)
<1>1. Time \subseteq Int /\ Span \in Nat /\ t \in Int
  BY DEF WindowAssumption
<1>2. watermark \in Time \cup {None} /\ w \in Seq(Item) /\ e \in Item
  BY DEF Inv, TypeOK, Item
<1>3. mark \in Time /\ mark \in Int /\ t <= mark
      /\ (watermark = None \/ (watermark \in Int /\ watermark <= mark))
  BY <1>1, <1>2 DEF Advance
<1>4. w = <<>> \/ InSpan(w, mark)
  <2>1. CASE watermark = None
    <3>1. order = <<>> /\ (k \in ToSet(order) <=> w # <<>>)
      BY <2>1 DEF Inv, KeysHoldValues
    <3> QED BY <3>1 DEF ToSet
  <2>2. CASE watermark # None
    <3>1. InSpan(w, watermark) /\ watermark \in Int /\ watermark <= mark
      BY <1>3, <2>2, ChronologicalDeques DEF Inv
    <3> QED BY <3>1, <1>2, <1>3, InSpanLater
  <2> QED BY <2>1, <2>2
<1>5. Sorted(w) /\ \A i \in 1..Len(w) : w[i].timestamp <= mark
  <2>1. w = <<>> => Len(w) = 0
    BY EmptySeq
  <2> QED BY <1>4, <2>1 DEF InSpan, Sorted
<1> HIDE DEF mark, w
<1>6. /\ inserted \in Seq(Item) /\ Sorted(inserted)
      /\ \E j \in 1..Len(inserted) : inserted[j] = e
      /\ \A i \in 1..Len(inserted) :
            inserted[i] = e \/ \E j \in 1..Len(w) : inserted[i] = w[j]
  BY <1>2, <1>5, InsertSorted, ZenonT(60)
<1>7. e.timestamp = t
  OBVIOUS
<1> HIDE DEF inserted, e
<1>8. \A i \in 1..Len(inserted) : inserted[i].timestamp <= mark
  BY <1>3, <1>5, <1>6, <1>7
<1>9. mark - Span \in Int /\ t >= mark - Span
  BY <1>1, <1>3 DEF mark
<1>10. /\ pruned \in Seq(Item) /\ Sorted(pruned)
       /\ \A i \in 1..Len(pruned) :
            /\ pruned[i].timestamp >= mark - Span
            /\ \E j \in 1..Len(inserted) : pruned[i] = inserted[j]
       /\ \A j \in 1..Len(inserted) : inserted[j].timestamp >= mark - Span => pruned # <<>>
  BY <1>6, <1>9, PruneSorted
<1>11. pruned # <<>>
  BY <1>6, <1>7, <1>9, <1>10
<1> HIDE DEF pruned
<1>12. /\ kept \in Seq(Item) /\ Len(kept) <= Len(pruned) /\ Len(kept) <= MaxValues
       /\ kept # <<>> /\ Sorted(kept)
       /\ \A i \in 1..Len(kept) : \E j \in 1..Len(pruned) : kept[i] = pruned[j]
  BY <1>10, <1>11, NewestProperties
<1> HIDE DEF kept
<1>13. \A i \in 1..Len(kept) : kept[i].timestamp <= mark /\ kept[i].timestamp >= mark - Span
  <2> SUFFICES ASSUME NEW i \in 1..Len(kept)
               PROVE  kept[i].timestamp <= mark /\ kept[i].timestamp >= mark - Span
    OBVIOUS
  <2>1. PICK j \in 1..Len(pruned) : kept[i] = pruned[j]
    BY <1>12
  <2>2. PICK m \in 1..Len(inserted) : pruned[j] = inserted[m]
    BY <1>10
  <2>3. pruned[j].timestamp >= mark - Span /\ inserted[m].timestamp <= mark
    BY <1>8, <1>10
  <2> QED BY <2>1, <2>2, <2>3
<1>14. InSpan(kept, mark)
  BY <1>3, <1>12, <1>13, InSpanRecent
<1> QED BY <1>3, <1>10, <1>12, <1>13, <1>14 DEF mark, w, e, inserted, pruned, kept

\* An accepted event: insert, prune and the bounds.  Besides the invariant this
\* gives what the caller relies on: its key survives, last in the order.
LEMMA AddAcceptedInv ==
    ASSUME WindowAssumption, Inv, NEW k \in Key, NEW t \in Time, NEW v \in Value,
           AddAccepted(k, t, v)
    PROVE  /\ Inv'
           /\ windows'[k] # <<>>
           /\ order'[Len(order')] = k
           /\ \A i \in 1..Len(windows'[k]) :
                 windows'[k][i].timestamp >= watermark' - Span
<1> DEFINE mark == Advance(t)
           w == windows[k]
           pruned == Prune(Insert(w, [timestamp |-> t, value |-> v]), mark - Span)
           kept == Newest(pruned)
           deques == [windows EXCEPT ![k] = kept]
           keys == Touch(order, k)
           dropped == Len(pruned) - Len(kept)
           count == value_count + Growth(w, pruned) - dropped
           n == Overflow(keys, deques, count)
           victims == ToSet(SubSeq(keys, 1, n))
           bare == [q \in Key |-> IF q \in victims THEN <<>> ELSE deques[q]]
<1>1. /\ t >= mark - Span
      /\ watermark' = mark
      /\ order' = SubSeq(keys, n + 1, Len(keys))
      /\ windows' = bare
      /\ value_count' = count - Held(deques, victims)
      /\ evicted_values' = evicted_values + dropped + Held(deques, victims)
      /\ evicted_keys' = evicted_keys + n
      /\ late_events' = late_events
  BY DEF AddAccepted
<1>2. windows \in [Key -> Seq(Item)] /\ order \in Seq(Key) /\ w \in Seq(Item)
      /\ evicted_values \in Nat /\ evicted_keys \in Nat /\ late_events \in Nat
  BY DEF Inv, TypeOK
<1>3. IsInjective(order) /\ \A q \in Key : (q \in ToSet(order)) <=> (windows[q] # <<>>)
  BY DEF Inv, KeysHoldValues
<1>4. IsFiniteSet(Slots(windows, Key)) /\ value_count = Held(windows, Key)
  BY DEF Inv, CountExact
<1>5. /\ mark \in Time /\ mark \in Int
      /\ watermark = None \/ (watermark \in Int /\ watermark <= mark)
      /\ pruned \in Seq(Item) /\ kept \in Seq(Item) /\ kept # <<>>
      /\ Len(kept) <= Len(pruned) /\ Len(kept) <= MaxValues
      /\ InSpan(kept, mark)
      /\ \A i \in 1..Len(kept) : kept[i].timestamp >= mark - Span
  BY <1>1, AcceptedDeque
<1>6. keys \in Seq(Key) /\ IsInjective(keys) /\ Len(keys) \in Nat \ {0}
      /\ keys[Len(keys)] = k /\ ToSet(keys) = ToSet(order) \cup {k}
  BY <1>2, <1>3, TouchProperties
<1>7. Len(w) \in Nat /\ Len(pruned) \in Nat /\ Len(kept) \in Nat
  BY <1>2, <1>5, LenProperties
<1> HIDE DEF mark, w, pruned, kept, keys
<1>8. deques \in [Key -> Seq(Item)] /\ deques[k] = kept
      /\ \A q \in Key : q # k => deques[q] = windows[q]
  BY <1>2, <1>5
<1>9. IsFiniteSet(Slots(deques, Key))
      /\ Held(deques, Key) = Held(windows, Key) - Len(w) + Len(kept)
  BY <1>2, <1>4, <1>5, HeldReplaced DEF w
<1>10. Held(windows, Key) \in Nat /\ Held(deques, Key) \in Nat
  BY <1>4, <1>9, FS_CardinalityType DEF Held
<1>11. count = Held(deques, Key) /\ dropped \in Nat
  BY <1>4, <1>5, <1>7, <1>9, <1>10 DEF Growth
<1> HIDE DEF deques, count, dropped
<1>12. /\ n \in 0..(Len(keys) - 1)
       /\ Len(keys) - n <= MaxKeys
       /\ Held(deques, Key) - Held(deques, ToSet(SubSeq(keys, 1, n))) <= MaxTotal
  <2>1. \A q \in Key : q \notin ToSet(keys) => deques[q] = <<>>
    BY <1>3, <1>6, <1>8
  <2>2. Len(deques[keys[Len(keys)]]) <= MaxValues
    BY <1>5, <1>6, <1>8
  <2> QED BY <2>1, <2>2, <1>6, <1>8, <1>9, <1>11, OverflowStops
<1> HIDE DEF n
<1>13. n \in 0..Len(keys) /\ n \in Nat
  BY <1>6, <1>12
<1>14. /\ order' \in Seq(Key) /\ IsInjective(order')
       /\ Len(order') = Len(keys) - n
       /\ \A i \in 1..(Len(keys) - n) : order'[i] = keys[i + n]
       /\ ToSet(order') = ToSet(keys) \ victims
       /\ victims = {keys[i] : i \in 1..n}
       /\ victims \in SUBSET Key
  BY <1>1, <1>6, <1>13, EvictedKeys, SMTT(30)
<1>15. k \notin victims
  <2>1. DOMAIN keys = 1..Len(keys)
    BY <1>6, LenProperties
  <2>2. \A i \in 1..n : i \in 1..Len(keys) /\ i # Len(keys) /\ Len(keys) \in 1..Len(keys)
    BY <1>6, <1>12
  <2>3. \A i \in 1..n : keys[i] # k
    BY <2>1, <2>2, <1>6 DEF IsInjective
  <2> QED BY <2>3, <1>14
<1>16. order'[Len(order')] = k
  <2>1. Len(keys) - n \in 1..(Len(keys) - n) /\ (Len(keys) - n) + n = Len(keys)
    BY <1>6, <1>12
  <2> QED BY <2>1, <1>6, <1>14
<1> HIDE DEF victims
<1>17. /\ IsFiniteSet(Slots(windows', Key))
       /\ Held(windows', Key) = Held(deques, Key) - Held(deques, victims)
       /\ Held(deques, victims) \in Nat
       /\ Held(deques, Key) - Held(deques, victims) \in Nat
  BY <1>1, <1>8, <1>9, <1>14, HeldEmptied
<1>18. value_count' = Held(windows', Key) /\ value_count' \in Nat
  BY <1>1, <1>11, <1>17
<1>19. /\ windows' \in [Key -> Seq(Item)] /\ windows'[k] = kept
       /\ \A q \in Key : q # k =>
            windows'[q] = IF q \in victims THEN <<>> ELSE windows[q]
  <2>1. windows' \in [Key -> Seq(Item)]
    BY <1>1, <1>8, EmptySeq
  <2> QED BY <2>1, <1>1, <1>8, <1>15
<1>20. TypeOK'
  <2>1. evicted_values' \in Nat /\ evicted_keys' \in Nat
    BY <1>1, <1>2, <1>11, <1>13, <1>17
  <2> QED BY <2>1, <1>1, <1>2, <1>5, <1>14, <1>18, <1>19 DEF TypeOK
<1>21. KeysHoldValues'
  <2>1. \A q \in Key : (q \in ToSet(order')) <=> (windows'[q] # <<>>)
    BY <1>3, <1>5, <1>6, <1>14, <1>15, <1>19
  <2> QED BY <2>1, <1>14 DEF KeysHoldValues, ToSet
<1>22. WithinCapacity'
  <2>1. Len(order') <= MaxKeys
    BY <1>12, <1>14
  <2>2. value_count' <= MaxTotal
    BY <1>12, <1>17, <1>18 DEF victims
  <2>3. ASSUME NEW q \in Key PROVE Len(windows'[q]) <= MaxValues
    <3>1. MaxValues \in Nat /\ Len(<<>>) = 0
      BY DEF WindowAssumption
    <3>2. Len(windows[q]) <= MaxValues
      BY DEF Inv, WithinCapacity
    <3> QED BY <3>1, <3>2, <1>5, <1>19
  <2> QED BY <2>1, <2>2, <2>3 DEF WithinCapacity
<1>23. Chronological'
  <2>1. ASSUME NEW q \in Key PROVE InSpan(windows'[q], watermark')
    <3>1. CASE q = k
      BY <3>1, <1>1, <1>5, <1>19
    <3>2. CASE q # k /\ q \in victims
      <4>1. windows'[q] = <<>> /\ Len(windows'[q]) = 0
        BY <3>2, <1>19
      <4> QED BY <4>1 DEF InSpan, Sorted
    <3>3. CASE q # k /\ q \notin victims
      <4>1. windows'[q] = windows[q] /\ windows[q] \in Seq(Item)
        BY <3>3, <1>2, <1>19
      <4>2. CASE watermark = None
        <5>1. windows[q] = <<>> /\ Len(windows[q]) = 0
          <6>1. order = <<>>
            BY <4>2 DEF Inv
          <6>2. q \notin ToSet(order)
            BY <6>1 DEF ToSet
          <6> QED BY <6>2, <1>3
        <5> QED BY <4>1, <5>1 DEF InSpan, Sorted
      <4>3. CASE watermark # None
        <5>1. InSpan(windows[q], watermark) /\ watermark \in Int /\ watermark <= mark
          BY <4>3, <1>5, ChronologicalDeques DEF Inv
        <5> QED BY <4>1, <5>1, <1>1, <1>5, InSpanLater
      <4> QED BY <4>2, <4>3
    <3> QED BY <3>1, <3>2, <3>3
  <2> QED BY <2>1 DEF Chronological, InSpan, Sorted
<1>24. watermark' # None
  BY <1>1, <1>5 DEF WindowAssumption
<1>25. Inv'
  BY <1>17, <1>18, <1>20, <1>21, <1>22, <1>23, <1>24 DEF Inv, CountExact, Slots
<1> QED BY <1>1, <1>5, <1>16, <1>19, <1>25

\* A step that changes nothing keeps the invariant.
LEMMA StutterInv ==
    ASSUME Inv, UNCHANGED windowVars
    PROVE  Inv'
<1>1. /\ order' = order /\ windows' = windows /\ watermark' = watermark
      /\ value_count' = value_count /\ evicted_keys' = evicted_keys
      /\ evicted_values' = evicted_values /\ late_events' = late_events
  BY DEF windowVars
<1>2. TypeOK' /\ WithinCapacity'
  BY <1>1 DEF Inv, TypeOK, WithinCapacity
<1>3. KeysHoldValues'
  BY <1>1 DEF Inv, KeysHoldValues, IsInjective, ToSet
<1>4. CountExact'
  BY <1>1 DEF Inv, CountExact, Held, Slots
<1>5. Chronological'
  BY <1>1 DEF Inv, Chronological
<1> QED BY <1>1, <1>2, <1>3, <1>4, <1>5 DEF Inv, Slots

-----------------------------------------------------------------------------
\* The invariant holds in every reachable state.
THEOREM WindowInvariant == Spec => []Inv
<1>1. Init => Inv
  BY InitInv, WindowAssumption
<1>2. Inv /\ [Next]_windowVars => Inv'
  <2> SUFFICES ASSUME Inv, [Next]_windowVars PROVE Inv'
    OBVIOUS
  <2>1. ASSUME NEW k \in Key, NEW t \in Time, NEW v \in Value, Add(k, t, v)
        PROVE  Inv'
    <3>1. CASE AddLate(k, t)
      BY <3>1, AddLateInv, WindowAssumption
    <3>2. CASE AddAccepted(k, t, v)
      BY <3>2, AddAcceptedInv, WindowAssumption
    <3> QED BY <2>1, <3>1, <3>2 DEF Add
  <2>2. CASE UNCHANGED windowVars
    BY <2>2, StutterInv
  <2> QED BY <2>1, <2>2 DEF Next
<1> QED BY <1>1, <1>2, PTL DEF Spec

\* Every variable of the window keeps its type.
THEOREM TypeCorrect == Spec => []TypeOK
<1>1. Inv => TypeOK
  BY DEF Inv
<1> QED BY <1>1, WindowInvariant, PTL

\* value_count is the number of values held, on every path through add.
THEOREM CountIsExact == Spec => []CountExact
<1>1. Inv => CountExact
  BY DEF Inv
<1> QED BY <1>1, WindowInvariant, PTL

\* Memory stays bounded: keys, values per key and values in total.
THEOREM CapacityHolds == Spec => []WithinCapacity
<1>1. Inv => WithinCapacity
  BY DEF Inv
<1> QED BY <1>1, WindowInvariant, PTL

\* No listed key is empty and no value belongs to an unlisted key.
THEOREM KeysHoldValuesAlways == Spec => []KeysHoldValues
<1>1. Inv => KeysHoldValues
  BY DEF Inv
<1> QED BY <1>1, WindowInvariant, PTL

\* Deques are sorted by event time and span one window at most.
THEOREM DequesChronological == Spec => []Chronological
<1>1. Inv => Chronological
  BY DEF Inv
<1> QED BY <1>1, WindowInvariant, PTL

\* The key of an accepted event survives the eviction that its arrival causes.
THEOREM AcceptedSurvives == Spec => AcceptedKeySurvives
<1>1. Inv /\ [Next]_windowVars =>
        [\A k \in Key, t \in Time, v \in Value : AddAccepted(k, t, v) =>
            /\ windows'[k] # <<>>
            /\ order'[Len(order')] = k
            /\ \A i \in 1..Len(windows'[k]) :
                  windows'[k][i].timestamp >= watermark' - Span]_windowVars
  BY AddAcceptedInv, WindowAssumption
<1> QED BY <1>1, WindowInvariant, PTL DEF Spec, AcceptedKeySurvives

-----------------------------------------------------------------------------
\* What is lost.  The items at or after a time are the ones that Prune would leave.

\* In a sorted deque they are its last ones.
LEMMA RecentItems ==
    ASSUME WindowAssumption, NEW w \in Seq(Item), Sorted(w), NEW T \in Int
    PROVE  \E n \in Nat : n = Len(w) /\ \E m \in 0..n :
              /\ Prune(w, T) \in Seq(Item) /\ Prune(w, T) = SubSeq(w, m + 1, n)
              /\ Len(Prune(w, T)) = n - m
              /\ \A i \in 1..n : w[i].timestamp >= T <=> i > m
<1>1. PICK n \in Nat : n = Len(w)
  BY LenProperties
<1>2. PICK m \in 0..n :
              /\ Prune(w, T) = SubSeq(w, m + 1, n)
              /\ \A i \in 1..m : ~ (w[i].timestamp >= T)
              /\ m < n => w[m + 1].timestamp >= T
  BY <1>1, PruneProperties
<1>3. SubSeq(w, m + 1, n) \in Seq(Item) /\ Len(SubSeq(w, m + 1, n)) = n - m
  BY <1>1, SuffixProperties
<1>4. \A i \in 1..n : w[i].timestamp \in Int
  <2>1. \A i \in 1..n : w[i] \in Item
    BY <1>1, ElementOfSeq
  <2> QED BY <2>1 DEF Item, WindowAssumption
<1>5. ASSUME NEW i \in 1..n PROVE w[i].timestamp >= T <=> i > m
  <2>1. CASE i <= m
    BY <1>2, <2>1
  <2>2. CASE i > m
    <3>1. m + 1 \in 1..n /\ m + 1 <= i /\ m < n
      BY <2>2
    <3>2. w[m + 1].timestamp <= w[i].timestamp
      BY <1>1, <3>1 DEF Sorted
    <3>3. w[m + 1].timestamp >= T
      BY <1>2, <3>1
    <3>4. w[m + 1].timestamp \in Int /\ w[i].timestamp \in Int
      BY <1>4, <3>1
    <3> QED BY <2>2, <3>2, <3>3, <3>4
  <2> QED BY <2>1, <2>2
<1> QED BY <1>1, <1>2, <1>3, <1>5

\* Dropping the first x items loses at most x of them, and none when all of the x are older.
LEMMA RecentOfSuffix ==
    ASSUME WindowAssumption, NEW w \in Seq(Item), Sorted(w), NEW T \in Int,
           NEW x \in 0..Len(w), NEW s, s = SubSeq(w, x + 1, Len(w)), Sorted(s)
    PROVE  /\ Len(Prune(s, T)) + x >= Len(Prune(w, T))
           /\ (\A i \in 1..x : ~ (w[i].timestamp >= T)) => Len(Prune(s, T)) >= Len(Prune(w, T))
<1>1. PICK n \in Nat : n = Len(w) /\ \E m \in 0..n :
              /\ Len(Prune(w, T)) = n - m
              /\ \A i \in 1..n : w[i].timestamp >= T <=> i > m
  BY RecentItems
<1>2. PICK m \in 0..n : /\ Len(Prune(w, T)) = n - m
                        /\ \A i \in 1..n : w[i].timestamp >= T <=> i > m
  BY <1>1
<1>3. s \in Seq(Item) /\ Len(s) = n - x /\ \A i \in 1..(n - x) : s[i] = w[i + x]
  BY <1>1, SuffixProperties, SMTT(30)
<1>4. PICK l \in 0..(n - x) : /\ Len(Prune(s, T)) = (n - x) - l
                              /\ \A i \in 1..(n - x) : s[i].timestamp >= T <=> i > l
  BY <1>3, RecentItems
<1>5. x \in 0..n
  BY <1>1
<1>6. l > 0 => l + x <= m
  <2>1. SUFFICES ASSUME l > 0 PROVE l + x <= m
    OBVIOUS
  <2>2. l \in 1..(n - x) /\ l + x \in 1..n
    BY <1>4, <1>5, <2>1
  <2>3. ~ (s[l].timestamp >= T) /\ s[l] = w[l + x]
    BY <1>3, <1>4, <2>2
  <2>4. ~ (l + x > m)
    BY <1>2, <2>2, <2>3
  <2> QED BY <1>5, <2>2, <2>4
<1>7. Len(Prune(s, T)) + x >= Len(Prune(w, T))
  BY <1>2, <1>4, <1>5, <1>6
<1>8. ASSUME \A i \in 1..x : ~ (w[i].timestamp >= T)
      PROVE  Len(Prune(s, T)) >= Len(Prune(w, T))
  <2>1. x <= m
    <3>1. x > 0 => x \in 1..x /\ x \in 1..n
      BY <1>5
    <3>2. x > 0 => ~ (x > m)
      BY <1>2, <1>8, <3>1
    <3> QED BY <1>5, <3>2
  <2> QED BY <1>2, <1>4, <1>5, <1>6, <2>1
<1> QED BY <1>7, <1>8

\* An insertion adds its item to them.
LEMMA RecentOfInsert ==
    ASSUME WindowAssumption, NEW w \in Seq(Item), Sorted(w), NEW e \in Item, NEW T \in Int
    PROVE  Len(Prune(Insert(w, e), T)) >= Len(Prune(w, T)) + (IF e.timestamp >= T THEN 1 ELSE 0)
<1>1. PICK n \in Nat : n = Len(w) /\ \E m \in 0..n :
              /\ Len(Prune(w, T)) = n - m
              /\ \A i \in 1..n : w[i].timestamp >= T <=> i > m
  BY RecentItems
<1>2. PICK m \in 0..n : /\ Len(Prune(w, T)) = n - m
                        /\ \A i \in 1..n : w[i].timestamp >= T <=> i > m
  BY <1>1
<1>3. PICK s : s = Insert(w, e)
  OBVIOUS
<1>4. s \in Seq(Item) /\ Sorted(s)
  BY <1>3, InsertSorted
<1>5. PICK p \in 1..n + 1 :
              /\ Len(s) = n + 1 /\ s[p] = e
              /\ \A i \in 1..n + 1 :
                    s[i] = IF i < p THEN w[i] ELSE IF i = p THEN e ELSE w[i - 1]
  <2>1. PICK p \in 1..Len(w) + 1 :
              /\ Len(Insert(w, e)) = Len(w) + 1
              /\ \A i \in 1..Len(w) + 1 : Insert(w, e)[i] =
                    IF i < p THEN w[i] ELSE IF i = p THEN e ELSE w[i - 1]
    BY InsertProperties
  <2>2. s[p] = e
    BY <1>1, <1>3, <2>1
  <2> QED BY <1>1, <1>3, <2>1, <2>2
<1>6. PICK l \in 0..(n + 1) : /\ Len(Prune(s, T)) = (n + 1) - l
                              /\ \A i \in 1..(n + 1) : s[i].timestamp >= T <=> i > l
  BY <1>4, <1>5, RecentItems
<1>7. CASE e.timestamp >= T
  <2>1. p > l
    BY <1>5, <1>6, <1>7
  <2>2. l <= m
    <3>1. l > 0 => l \in 1..n /\ s[l] = w[l] /\ ~ (s[l].timestamp >= T)
      BY <1>5, <1>6, <2>1
    <3> QED BY <1>2, <3>1
  <2> QED BY <1>2, <1>3, <1>6, <1>7, <2>2
<1>8. CASE ~ (e.timestamp >= T)
  <2>1. p <= l
    BY <1>5, <1>6, <1>8
  <2>2. l <= m + 1
    <3>1. l > p => l - 1 \in 1..n /\ s[l] = w[l - 1] /\ ~ (s[l].timestamp >= T)
      BY <1>5, <1>6
    <3>2. l > p => ~ (l - 1 > m)
      BY <1>2, <3>1
    <3>3. l = p => p <= m + 1
      <4>1. p > m + 1 => m + 1 \in 1..n /\ s[m + 1] = w[m + 1] /\ m + 1 \in 1..(n + 1)
        BY <1>5
      <4>2. p > m + 1 => s[m + 1].timestamp >= T
        BY <1>2, <4>1
      <4>3. p > m + 1 => m + 1 > l
        BY <1>6, <4>1, <4>2
      <4> QED BY <4>3
    <3> QED BY <2>1, <3>2, <3>3
  <2> QED BY <1>2, <1>3, <1>6, <1>8, <2>2
<1> QED BY <1>7, <1>8

\* An accepted event adds one to them if it is one itself, and costs at most what its deque
\* was cut by, since what it makes expire is older.
LEMMA RecentOfAccepted ==
    ASSUME WindowAssumption, Inv, NEW k \in Key, NEW t \in Time, NEW v \in Value,
           t >= Advance(t) - Span, NEW T \in Int, T >= Advance(t) - Span
    PROVE  LET pruned == Prune(Insert(windows[k], [timestamp |-> t, value |-> v]),
                               Advance(t) - Span)
               kept == Newest(pruned)
           IN  Len(Prune(kept, T)) + (Len(pruned) - Len(kept)) >=
                   Len(Prune(windows[k], T)) + (IF t >= T THEN 1 ELSE 0)
<1> DEFINE e == [timestamp |-> t, value |-> v]
           w == windows[k]
           cutoff == Advance(t) - Span
           inserted == Insert(w, e)
           pruned == Prune(inserted, cutoff)
           kept == Newest(pruned)
<1>1. /\ Advance(t) \in Int /\ pruned \in Seq(Item) /\ kept \in Seq(Item)
      /\ Sorted(kept)
  BY AcceptedDeque DEF InSpan
<1>2. cutoff \in Int /\ T >= cutoff
  BY <1>1 DEF WindowAssumption
<1>3. e \in Item /\ e.timestamp = t
  BY DEF Item
<1>4. w \in Seq(Item) /\ Sorted(w)
  BY DEF Inv, TypeOK, Chronological, Sorted
<1> HIDE DEF e, w, cutoff
<1>5. inserted \in Seq(Item) /\ Sorted(inserted)
  BY <1>3, <1>4, InsertSorted
<1>6. Len(Prune(inserted, T)) >= Len(Prune(w, T)) + (IF t >= T THEN 1 ELSE 0)
  BY <1>3, <1>4, RecentOfInsert
<1> HIDE DEF inserted
<1>7. Sorted(pruned)
  BY <1>2, <1>5, PruneSorted
<1>8. Len(Prune(pruned, T)) >= Len(Prune(inserted, T))
  <2>1. PICK x \in 0..Len(inserted) :
            /\ pruned = SubSeq(inserted, x + 1, Len(inserted))
            /\ \A i \in 1..x : ~ (inserted[i].timestamp >= cutoff)
    BY <1>2, <1>5, PruneProperties
  <2>2. \A i \in 1..x : ~ (inserted[i].timestamp >= T)
    <3>1. \A i \in 1..x : i \in 1..Len(inserted)
      BY <1>5, <2>1, LenProperties
    <3>2. \A i \in 1..x : inserted[i] \in Item
      BY <1>5, <3>1, ElementOfSeq
    <3>3. \A i \in 1..x : inserted[i].timestamp \in Int
      BY <3>2 DEF Item, WindowAssumption
    <3> QED BY <1>2, <2>1, <3>3
  <2> QED BY <1>5, <1>7, <2>1, <2>2, RecentOfSuffix
<1> HIDE DEF pruned
<1>9. Len(Prune(kept, T)) + (Len(pruned) - Len(kept)) >= Len(Prune(pruned, T))
  <2>1. PICK n \in Nat : n = Len(pruned)
    BY <1>1, LenProperties
  <2>2. CASE n > MaxValues
    <3>1. PICK x \in 0..n : x = n - MaxValues
      BY <2>2 DEF WindowAssumption
    <3>2. kept = SubSeq(pruned, x + 1, Len(pruned))
      BY <2>1, <2>2, <3>1 DEF Newest
    <3>3. Len(Prune(kept, T)) + x >= Len(Prune(pruned, T))
      BY <1>1, <1>7, <2>1, <3>2, RecentOfSuffix
    <3>4. Len(kept) = n - x
      BY <1>1, <2>1, <3>2, SuffixProperties
    <3>5. Len(pruned) - Len(kept) = x
      BY <2>1, <3>4
    <3> QED BY <3>3, <3>5
  <2>3. CASE ~ (n > MaxValues)
    <3>1. kept = pruned
      BY <2>1, <2>3 DEF Newest
    <3>2. PICK l \in Nat : l = Len(Prune(pruned, T))
      <4>1. Prune(pruned, T) \in Seq(Item)
        BY <1>1, <1>7, PruneSorted
      <4> QED BY <4>1, LenProperties
    <3> QED BY <2>1, <3>1, <3>2
  <2> QED BY <2>2, <2>3
<1>10. /\ Len(Prune(kept, T)) \in Nat /\ Len(Prune(pruned, T)) \in Nat
       /\ Len(Prune(inserted, T)) \in Nat /\ Len(Prune(w, T)) \in Nat
       /\ Len(pruned) \in Nat /\ Len(kept) \in Nat
  BY <1>1, <1>4, <1>5, <1>7, PruneSorted, LenProperties
<1> HIDE DEF kept
<1>11. PICK gain \in {0, 1} : gain = IF t >= T THEN 1 ELSE 0
  OBVIOUS
<1>12. Len(Prune(kept, T)) + (Len(pruned) - Len(kept)) >= Len(Prune(w, T)) + gain
  BY <1>6, <1>8, <1>9, <1>10, <1>11
<1> QED BY <1>11, <1>12 DEF e, w, cutoff, inserted, pruned, kept

\* The deques with what is older than T pruned from all of them.
Recent(d, T) == [q \in Key |-> Prune(d[q], T)]

\* They hold no more than the deques themselves.
LEMMA RecentHeld ==
    ASSUME WindowAssumption, NEW T \in Int,
           NEW d \in [Key -> Seq(Item)], \A q \in Key : Sorted(d[q]),
           IsFiniteSet(Slots(d, Key)), NEW V \in SUBSET Key
    PROVE  /\ Recent(d, T) \in [Key -> Seq(Item)]
           /\ IsFiniteSet(Slots(Recent(d, T), Key))
           /\ Held(Recent(d, T), V) \in Nat /\ Held(d, V) \in Nat
           /\ Held(Recent(d, T), V) <= Held(d, V)
<1>1. \A q \in Key : /\ Prune(d[q], T) \in Seq(Item)
                     /\ Len(Prune(d[q], T)) <= Len(d[q])
  BY PruneSorted
<1>2. Recent(d, T) \in [Key -> Seq(Item)]
  BY <1>1 DEF Recent
<1>3. \A q \in Key : Len(Recent(d, T)[q]) \in Nat /\ Len(d[q]) \in Nat
                        /\ Len(Recent(d, T)[q]) <= Len(d[q])
  BY <1>1, LenProperties DEF Recent
<1>4. ASSUME NEW W \in SUBSET Key
      PROVE  Slots(Recent(d, T), W) \subseteq Slots(d, W)
  <2> SUFFICES ASSUME NEW s \in Slots(Recent(d, T), W) PROVE s \in Slots(d, W)
    OBVIOUS
  <2>1. PICK q \in W : \E i \in 1..Len(Recent(d, T)[q]) : s = <<q, i>>
    BY SlotsMember
  <2>2. PICK i \in 1..Len(Recent(d, T)[q]) : s = <<q, i>>
    BY <2>1
  <2>3. i \in 1..Len(d[q])
    BY <1>3, <2>2
  <2> QED BY <2>2, <2>3, SlotsMember
<1>5. Slots(d, V) \subseteq Slots(d, Key)
  BY DEF Slots
<1>6. IsFiniteSet(Slots(d, V))
  BY <1>5, FS_Subset
<1>7. /\ IsFiniteSet(Slots(Recent(d, T), Key))
      /\ IsFiniteSet(Slots(Recent(d, T), V))
      /\ Cardinality(Slots(Recent(d, T), V)) <= Cardinality(Slots(d, V))
  BY <1>4, <1>6, FS_Subset
<1> QED BY <1>2, <1>6, <1>7, FS_CardinalityType DEF Held

\* What replacing one deque and emptying some does to them.
LEMMA RecentStep ==
    ASSUME WindowAssumption, NEW T \in Int,
           NEW d \in [Key -> Seq(Item)], \A q \in Key : Sorted(d[q]),
           IsFiniteSet(Slots(d, Key)),
           NEW k \in Key, NEW w \in Seq(Item), Sorted(w), NEW V \in SUBSET Key
    PROVE  LET deques == [d EXCEPT ![k] = w]
               bare == [q \in Key |-> IF q \in V THEN <<>> ELSE deques[q]]
           IN  Held(Recent(bare, T), Key) + Held(deques, V) >=
                   Held(Recent(d, T), Key) - Len(Prune(d[k], T)) + Len(Prune(w, T))
<1> DEFINE deques == [d EXCEPT ![k] = w]
           bare == [q \in Key |-> IF q \in V THEN <<>> ELSE deques[q]]
           recent == Recent(d, T)
           replaced == Recent(deques, T)
<1>1. /\ deques \in [Key -> Seq(Item)] /\ \A q \in Key : Sorted(deques[q])
      /\ IsFiniteSet(Slots(deques, Key))
  BY HeldReplaced
<1>2. recent \in [Key -> Seq(Item)] /\ IsFiniteSet(Slots(recent, Key))
  BY RecentHeld
<1>3. Prune(w, T) \in Seq(Item) /\ Len(Prune(w, T)) \in Nat /\ Len(Prune(d[k], T)) \in Nat
  BY PruneSorted, LenProperties
<1>4. recent[k] = Prune(d[k], T)
  BY DEF Recent
<1>5. replaced = [recent EXCEPT ![k] = Prune(w, T)]
  BY DEF Recent
<1> HIDE DEF recent, deques, replaced
<1>6. Held(replaced, Key) = Held(recent, Key) - Len(Prune(d[k], T)) + Len(Prune(w, T))
  <2>1. Held([recent EXCEPT ![k] = Prune(w, T)], Key)
            = Held(recent, Key) - Len(recent[k]) + Len(Prune(w, T))
    BY <1>2, <1>3, HeldReplaced
  <2> QED BY <1>4, <1>5, <2>1
<1>7. /\ replaced \in [Key -> Seq(Item)] /\ IsFiniteSet(Slots(replaced, Key))
      /\ Held(replaced, V) \in Nat /\ Held(deques, V) \in Nat
      /\ Held(replaced, V) <= Held(deques, V)
  BY <1>1, RecentHeld DEF replaced
<1>8. Prune(<<>>, T) = <<>>
  <2>1. <<>> \in Seq(Item) /\ Len(<<>>) = 0
    BY EmptySeq
  <2>2. Sorted(<<>>)
    BY <2>1 DEF Sorted
  <2>3. Prune(<<>>, T) \in Seq(Item) /\ Len(Prune(<<>>, T)) <= 0
    BY <2>1, <2>2, PruneSorted
  <2> QED BY <2>3, EmptySeq, LenProperties
<1>9. Recent(bare, T) = [q \in Key |-> IF q \in V THEN <<>> ELSE replaced[q]]
  <2>1. \A q \in Key : Prune(bare[q], T) = IF q \in V THEN <<>> ELSE replaced[q]
    BY <1>8 DEF Recent, replaced
  <2> QED BY <2>1 DEF Recent
<1> HIDE DEF bare
<1>10. Held(Recent(bare, T), Key) = Held(replaced, Key) - Held(replaced, V)
       /\ Held(replaced, Key) - Held(replaced, V) \in Nat
  BY <1>7, <1>9, HeldEmptied
<1>11. Held(recent, Key) \in Nat /\ Held(replaced, Key) \in Nat
  BY <1>2, <1>7, FS_CardinalityType DEF Held
<1>12. Held(Recent(bare, T), Key) + Held(deques, V) >=
           Held(recent, Key) - Len(Prune(d[k], T)) + Len(Prune(w, T))
  BY <1>3, <1>6, <1>7, <1>10, <1>11, SMTT(30)
<1> QED BY <1>12 DEF recent, bare, deques

\* Each evicted key held a value.
LEMMA EvictedHeld ==
    ASSUME NEW keys \in Seq(Key), IsInjective(keys), NEW n \in 0..Len(keys),
           NEW d \in [Key -> Seq(Item)], \A q \in ToSet(keys) : d[q] # <<>>,
           IsFiniteSet(Slots(d, Key))
    PROVE  n <= Held(d, ToSet(SubSeq(keys, 1, n)))
<1> DEFINE V == ToSet(SubSeq(keys, 1, n))
           f == [i \in 1..n |-> <<keys[i], 1>>]
<1>1. V = {keys[i] : i \in 1..n} /\ V \subseteq Key
  BY EvictedKeys
<1>2. DOMAIN keys = 1..Len(keys) /\ \A i \in 1..n : i \in 1..Len(keys)
  BY LenProperties
<1>3. \A q \in ToSet(keys) : q \in Key /\ 1 \in 1..Len(d[q])
  <2>1. ToSet(keys) \subseteq Key
    BY ToSetType
  <2>2. \A q \in ToSet(keys) : Len(d[q]) \in Nat /\ Len(d[q]) # 0
    BY <2>1, EmptySeq, LenProperties
  <2> QED BY <2>1, <2>2
<1>4. \A i \in 1..n : keys[i] \in ToSet(keys)
  BY <1>2 DEF ToSet
<1> HIDE DEF V
<1>5. \A i \in 1..n : f[i] \in Slots(d, V)
  BY <1>1, <1>3, <1>4, SlotsMember
<1>6. \A i, j \in 1..n : f[i] = f[j] => i = j
  BY <1>2 DEF IsInjective
<1>7. f \in [1..n -> Slots(d, V)]
  BY <1>5
<1> HIDE DEF f
<1>8. f \in Injection(1..n, Slots(d, V))
  BY <1>6, <1>7 DEF Injection, IsInjective
<1>9. Slots(d, V) \subseteq Slots(d, Key)
  BY <1>1 DEF Slots
<1>10. IsFiniteSet(Slots(d, V))
  BY <1>9, FS_Subset
<1>11. Cardinality(1..n) <= Cardinality(Slots(d, V))
  BY <1>8, <1>10, FS_Injection
<1>12. n \in Nat /\ Cardinality(1..n) = n
  <2>1. n \in Nat
    BY LenProperties
  <2>2. Cardinality(1..n) = IF 1 > n THEN 0 ELSE n - 1 + 1
    BY <2>1, FS_Interval
  <2> QED BY <2>1, <2>2
<1> QED BY <1>11, <1>12 DEF Held, V

LogRecord == [key : Key, timestamp : Time, value : Value]

\* The accepted events at or after a time.
Since(T) == {i \in DOMAIN log : log[i].timestamp >= T}

\* Those that the deques lack were evicted.  To be inductive this must hold of every time
\* that the watermark may still reach: what ages out of the window later must not have been
\* what made up for a loss.
LossInv ==
    /\ Inv
    /\ log \in Seq(LogRecord)
    /\ evicted_keys <= evicted_values
    /\ \A T \in Int : watermark = None \/ T >= watermark - Span =>
            Cardinality(Since(T)) <= Held(Recent(windows, T), Key) + evicted_values

\* What counts as recent is finite.
LEMMA SinceFinite ==
    ASSUME log \in Seq(LogRecord), NEW T \in Int
    PROVE  /\ IsFiniteSet(Since(T)) /\ Cardinality(Since(T)) \in Nat
           /\ Since(T) = {i \in 1..Len(log) : log[i].timestamp >= T}
<1>1. Len(log) \in Nat /\ DOMAIN log = 1..Len(log)
  BY LenProperties
<1>2. IsFiniteSet(1..Len(log))
  BY <1>1, FS_Interval
<1>3. Since(T) \subseteq 1..Len(log)
  BY <1>1 DEF Since
<1> QED BY <1>1, <1>2, <1>3, FS_Subset, FS_CardinalityType DEF Since

\* A late event adds nothing, and prunes only what is too old to count.
LEMMA LateLoss ==
    ASSUME WindowAssumption, LossInv, NEW k \in Key, NEW t \in Time,
           AddLate(k, t), UNCHANGED log
    PROVE  LossInv'
<1> DEFINE w == windows[k]
           pruned == Prune(w, watermark - Span)
<1>1. Inv /\ Inv'
  BY AddLateInv DEF LossInv
<1>2. watermark \in Int /\ Span \in Nat
  <2>1. t \in Int /\ Span \in Nat \ {0} /\ Time \subseteq Int
    BY DEF WindowAssumption
  <2>2. watermark # None
    BY <2>1 DEF AddLate, Advance
  <2> QED BY <1>1, <2>1, <2>2 DEF Inv, TypeOK
<1>3. /\ windows' = [windows EXCEPT ![k] = pruned]
      /\ UNCHANGED <<watermark, evicted_keys, evicted_values>>
  BY DEF AddLate, Values
<1>4. /\ windows \in [Key -> Seq(Item)] /\ \A q \in Key : Sorted(windows[q])
      /\ IsFiniteSet(Slots(windows, Key)) /\ w \in Seq(Item) /\ Sorted(w)
  BY <1>1 DEF Inv, TypeOK, Chronological, Sorted
<1> HIDE DEF w
<1>5. PICK cutoff \in Int : cutoff = watermark - Span
  BY <1>2
<1>6. pruned \in Seq(Item) /\ Sorted(pruned)
  BY <1>4, <1>5, PruneSorted
<1> HIDE DEF pruned
<1>7. ASSUME NEW T \in Int, T >= cutoff
      PROVE  Cardinality(Since(T)') <= Held(Recent(windows', T), Key) + evicted_values'
  <2>1. Cardinality(Since(T)) <= Held(Recent(windows, T), Key) + evicted_values
    BY <1>5, <1>7 DEF LossInv
  <2>2. Since(T)' = Since(T)
    BY DEF Since
  <2>3. Len(Prune(pruned, T)) >= Len(Prune(w, T))
    <3>1. PICK x \in 0..Len(w) :
              /\ pruned = SubSeq(w, x + 1, Len(w))
              /\ \A i \in 1..x : ~ (w[i].timestamp >= cutoff)
      BY <1>4, <1>5, PruneProperties DEF pruned
    <3>2. \A i \in 1..x : ~ (w[i].timestamp >= T)
      <4>1. \A i \in 1..x : i \in 1..Len(w)
        BY <1>4, <3>1, LenProperties
      <4>2. \A i \in 1..x : w[i] \in Item
        BY <1>4, <4>1, ElementOfSeq
      <4>3. \A i \in 1..x : w[i].timestamp \in Int
        BY <4>2 DEF Item, WindowAssumption
      <4> QED BY <1>7, <3>1, <4>3
    <3> QED BY <1>4, <1>6, <3>1, <3>2, RecentOfSuffix
  <2>4. Held(Recent(windows', T), Key) >= Held(Recent(windows, T), Key)
    <3>1. windows[k] = w
      BY DEF w
    <3>2. /\ Recent(windows, T) \in [Key -> Seq(Item)]
          /\ IsFiniteSet(Slots(Recent(windows, T), Key))
          /\ Held(Recent(windows, T), Key) \in Nat
      BY <1>4, RecentHeld
    <3>3. /\ Prune(pruned, T) \in Seq(Item) /\ Len(Prune(pruned, T)) \in Nat
          /\ Len(Prune(w, T)) \in Nat
      BY <1>4, <1>6, PruneSorted, LenProperties
    <3>4. /\ Recent(windows', T) = [Recent(windows, T) EXCEPT ![k] = Prune(pruned, T)]
          /\ Recent(windows, T)[k] = Prune(w, T)
      BY <1>3, <1>4, <3>1 DEF Recent
    <3>5. Held([Recent(windows, T) EXCEPT ![k] = Prune(pruned, T)], Key)
              = Held(Recent(windows, T), Key) - Len(Recent(windows, T)[k])
                    + Len(Prune(pruned, T))
      BY <3>2, <3>3, HeldReplaced
    <3> QED BY <2>3, <3>2, <3>3, <3>4, <3>5
  <2>5. /\ Cardinality(Since(T)) \in Nat /\ evicted_values \in Nat
        /\ Held(Recent(windows, T), Key) \in Nat /\ Held(Recent(windows', T), Key) \in Nat
    <3>1. /\ windows' \in [Key -> Seq(Item)] /\ \A q \in Key : Sorted(windows'[q])
          /\ IsFiniteSet(Slots(windows', Key))
      BY <1>1 DEF Inv, TypeOK, Chronological, Sorted
    <3>2. log \in Seq(LogRecord) /\ evicted_values \in Nat
      BY <1>1 DEF LossInv, Inv, TypeOK
    <3> QED BY <1>4, <3>1, <3>2, SinceFinite, RecentHeld
  <2> QED BY <1>3, <2>1, <2>2, <2>4, <2>5
<1>8. ASSUME NEW T \in Int, watermark' = None \/ T >= watermark' - Span
      PROVE  Cardinality(Since(T)') <= Held(Recent(windows', T), Key) + evicted_values'
  BY <1>2, <1>3, <1>5, <1>7, <1>8 DEF WindowAssumption
<1> QED BY <1>1, <1>3, <1>8 DEF LossInv, Since, Recent, Held, Slots, Prune

\* An accepted event is one more to account for, if it is recent, and what the bounds take
\* away for it is counted.
LEMMA AcceptedLoss ==
    ASSUME WindowAssumption, LossInv, NEW k \in Key, NEW t \in Time, NEW v \in Value,
           AddAccepted(k, t, v),
           log' = Append(log, [key |-> k, timestamp |-> t, value |-> v])
    PROVE  LossInv'
<1> DEFINE mark == Advance(t)
           w == windows[k]
           pruned == Prune(Insert(w, [timestamp |-> t, value |-> v]), mark - Span)
           kept == Newest(pruned)
           deques == [windows EXCEPT ![k] = kept]
           keys == Touch(order, k)
           dropped == Len(pruned) - Len(kept)
           count == value_count + Growth(w, pruned) - dropped
           n == Overflow(keys, deques, count)
           victims == ToSet(SubSeq(keys, 1, n))
           bare == [q \in Key |-> IF q \in victims THEN <<>> ELSE deques[q]]
           record == [key |-> k, timestamp |-> t, value |-> v]
<1>1. /\ t >= mark - Span
      /\ watermark' = mark
      /\ windows' = bare
      /\ evicted_values' = evicted_values + dropped + Held(deques, victims)
      /\ evicted_keys' = evicted_keys + n
  BY DEF AddAccepted
<1>2. Inv /\ Inv'
  BY AddAcceptedInv DEF LossInv
<1>3. /\ windows \in [Key -> Seq(Item)] /\ \A q \in Key : Sorted(windows[q])
      /\ IsFiniteSet(Slots(windows, Key)) /\ w \in Seq(Item)
      /\ order \in Seq(Key) /\ IsInjective(order)
      /\ \A q \in Key : (q \in ToSet(order)) <=> (windows[q] # <<>>)
      /\ evicted_values \in Nat /\ evicted_keys \in Nat
      /\ value_count = Held(windows, Key)
  BY <1>2 DEF Inv, TypeOK, Chronological, Sorted, KeysHoldValues, CountExact
<1>4. /\ mark \in Int
      /\ watermark = None \/ (watermark \in Int /\ watermark <= mark)
      /\ pruned \in Seq(Item) /\ kept \in Seq(Item) /\ kept # <<>>
      /\ Len(kept) <= Len(pruned) /\ Len(kept) <= MaxValues /\ Sorted(kept)
  BY <1>1, <1>2, AcceptedDeque DEF InSpan
<1>5. keys \in Seq(Key) /\ IsInjective(keys) /\ Len(keys) \in Nat \ {0}
      /\ keys[Len(keys)] = k /\ ToSet(keys) = ToSet(order) \cup {k}
  BY <1>3, TouchProperties
<1>6. Len(w) \in Nat /\ Len(pruned) \in Nat /\ Len(kept) \in Nat
  BY <1>3, <1>4, LenProperties
<1>7. \A T \in Int : T >= mark - Span =>
          Len(Prune(kept, T)) + dropped >= Len(Prune(w, T)) + (IF t >= T THEN 1 ELSE 0)
  BY <1>1, <1>2, RecentOfAccepted
<1> HIDE DEF mark, w, pruned, kept, keys
<1>8. /\ deques \in [Key -> Seq(Item)] /\ deques[k] = kept
      /\ \A q \in Key : q # k => deques[q] = windows[q]
  BY <1>3, <1>4
<1>9. IsFiniteSet(Slots(deques, Key))
      /\ Held(deques, Key) = Held(windows, Key) - Len(w) + Len(kept)
  BY <1>3, <1>4, HeldReplaced DEF w
<1>10. Held(windows, Key) \in Nat /\ Held(deques, Key) \in Nat
  BY <1>3, <1>9, FS_CardinalityType DEF Held
<1>11. count = Held(deques, Key) /\ dropped \in Nat
  BY <1>3, <1>4, <1>6, <1>9, <1>10 DEF Growth
<1> HIDE DEF count
<1>12. PICK m \in 0..Len(keys) : m = n
  <2>1. \A q \in Key : q \notin ToSet(keys) => deques[q] = <<>>
    BY <1>3, <1>5, <1>8
  <2>2. Len(deques[keys[Len(keys)]]) <= MaxValues
    BY <1>4, <1>5, <1>8
  <2> HIDE DEF deques
  <2>3. n \in 0..(Len(keys) - 1)
    BY <2>1, <2>2, <1>5, <1>8, <1>9, <1>11, OverflowStops
  <2> HIDE DEF n
  <2> QED BY <1>5, <2>3
<1> HIDE DEF n
<1>13. PICK V \in SUBSET Key : V = victims
  BY <1>5, <1>12, EvictedKeys
<1>14. m <= Held(deques, V)
  <2>1. \A q \in ToSet(keys) : q \in Key /\ deques[q] # <<>>
    <3>1. ToSet(keys) \subseteq Key
      BY <1>5, ToSetType
    <3> QED BY <1>3, <1>4, <1>5, <1>8, <3>1
  <2> HIDE DEF deques
  <2> QED BY <1>5, <1>8, <1>9, <1>12, <1>13, <2>1, EvictedHeld
<1>15. PICK lost \in Nat : lost = Held(deques, V)
  <2> HIDE DEF deques
  <2>1. \A q \in Key : Sorted(deques[q])
    BY <1>3, <1>4, <1>8
  <2>2. PICK T \in Int : T = 0
    OBVIOUS
  <2> QED BY <1>8, <1>9, <2>1, <2>2, RecentHeld
<1>16. PICK cut \in Nat : cut = dropped
  BY <1>11
<1> HIDE DEF dropped
<1>17. /\ evicted_values' = evicted_values + cut + lost
       /\ evicted_keys' = evicted_keys + m /\ m \in Nat /\ m <= lost
  BY <1>1, <1>5, <1>12, <1>13, <1>14, <1>15, <1>16
<1>18. evicted_keys' <= evicted_values'
  BY <1>3, <1>17 DEF LossInv
<1>19. log \in Seq(LogRecord) /\ record \in LogRecord
  BY DEF LossInv, LogRecord
<1>20. PICK l \in Nat : l = Len(log)
  BY <1>19, LenProperties
<1> HIDE DEF record
<1>21. /\ log' \in Seq(LogRecord) /\ Len(log') = l + 1 /\ log'[l + 1] = record
       /\ \A i \in 1..l : log'[i] = log[i]
  <2>1. log' = Append(log, record)
    BY DEF record
  <2> QED BY <1>19, <1>20, <2>1, AppendProperties
<1>22. ASSUME NEW T \in Int, T >= mark - Span
       PROVE  Cardinality(Since(T)') <= Held(Recent(windows', T), Key) + evicted_values'
  <2>1. watermark = None \/ T >= watermark - Span
    BY <1>4, <1>22 DEF WindowAssumption
  <2>2. PICK gain \in {0, 1} : gain = IF t >= T THEN 1 ELSE 0
    OBVIOUS
  <2>3. PICK a \in Nat : a = Cardinality(Since(T))
    BY <1>19, SinceFinite
  <2>4. Cardinality(Since(T)') = a + gain
    <3>1. Since(T) = {i \in 1..l : log[i].timestamp >= T} /\ IsFiniteSet(Since(T))
      BY <1>19, <1>20, SinceFinite
    <3>2. Since(T)' = {i \in 1..(l + 1) : log'[i].timestamp >= T}
      <4>1. DOMAIN log' = 1..(l + 1)
        BY <1>21, LenProperties
      <4> QED BY <4>1 DEF Since
    <3>3. log'[l + 1].timestamp = t
      BY <1>21 DEF record
    <3>4. CASE t >= T
      <4>1. Since(T)' = Since(T) \cup {l + 1} /\ l + 1 \notin Since(T)
        BY <1>21, <3>1, <3>2, <3>3, <3>4
      <4>2. Cardinality(Since(T) \cup {l + 1}) = Cardinality(Since(T)) + 1
        BY <3>1, <4>1, FS_AddElement
      <4> QED BY <2>2, <2>3, <3>4, <4>1, <4>2
    <3>5. CASE ~ (t >= T)
      <4>1. Since(T)' = Since(T)
        BY <1>21, <3>1, <3>2, <3>3, <3>5
      <4> QED BY <2>2, <2>3, <3>5, <4>1
    <3> QED BY <3>4, <3>5
  <2>5. PICK h \in Nat : h = Held(Recent(windows, T), Key)
    BY <1>3, RecentHeld
  <2>6. a <= h + evicted_values
    BY <2>1, <2>3, <2>5 DEF LossInv
  <2>7. PICK x \in Nat, y \in Nat : x = Len(Prune(w, T)) /\ y = Len(Prune(kept, T))
    BY <1>3, <1>4, PruneSorted, LenProperties DEF w
  <2>8. y + cut >= x + gain
    BY <1>7, <1>16, <1>22, <2>2, <2>7
  <2>9. Held(Recent(windows', T), Key) + lost >= h - x + y
    <3>1. Held(Recent([q \in Key |-> IF q \in V THEN <<>> ELSE [windows EXCEPT ![k] = kept][q]], T), Key)
              + Held([windows EXCEPT ![k] = kept], V)
            >= Held(Recent(windows, T), Key) - Len(Prune(windows[k], T)) + Len(Prune(kept, T))
      BY <1>3, <1>4, RecentStep
    <3>2. windows' = [q \in Key |-> IF q \in V THEN <<>> ELSE [windows EXCEPT ![k] = kept][q]]
      BY <1>1, <1>13
    <3> QED BY <1>15, <2>5, <2>7, <3>1, <3>2 DEF w
  <2>10. PICK z \in Nat : z = Held(Recent(windows', T), Key)
    <3>1. /\ windows' \in [Key -> Seq(Item)] /\ \A q \in Key : Sorted(windows'[q])
          /\ IsFiniteSet(Slots(windows', Key))
      BY <1>2 DEF Inv, TypeOK, Chronological, Sorted
    <3> QED BY <3>1, RecentHeld
  <2>11. a + gain <= z + (evicted_values + cut + lost)
    BY <1>3, <2>6, <2>8, <2>9, <2>10, SMTT(30)
  <2> QED BY <1>17, <2>4, <2>10, <2>11
<1>23. ASSUME NEW T \in Int, watermark' = None \/ T >= watermark' - Span
       PROVE  Cardinality(Since(T)') <= Held(Recent(windows', T), Key) + evicted_values'
  BY <1>1, <1>4, <1>22, <1>23 DEF WindowAssumption
<1> QED BY <1>2, <1>18, <1>21, <1>23 DEF LossInv, Since, Recent, Held, Slots, Prune

\* LossInv holds after every sequence of calls.
THEOREM LossInvariant == LoggedSpec => []LossInv
<1>1. LoggedInit => LossInv
  <2> SUFFICES ASSUME LoggedInit PROVE LossInv
    OBVIOUS
  <2>1. Inv
    BY InitInv, WindowAssumption DEF LoggedInit
  <2>2. log = <<>> /\ log \in Seq(LogRecord) /\ evicted_values = 0 /\ evicted_keys = 0
    BY DEF LoggedInit, Init
  <2>3. ASSUME NEW T \in Int
        PROVE  Cardinality(Since(T)) <= Held(Recent(windows, T), Key) + evicted_values
    <3>1. Since(T) = {}
      BY <2>2 DEF Since
    <3>2. Cardinality(Since(T)) = 0
      BY <3>1, FS_EmptySet
    <3>3. /\ windows \in [Key -> Seq(Item)] /\ \A q \in Key : Sorted(windows[q])
          /\ IsFiniteSet(Slots(windows, Key))
      BY <2>1 DEF Inv, TypeOK, Chronological, Sorted
    <3>4. Held(Recent(windows, T), Key) \in Nat
      BY <3>3, RecentHeld, WindowAssumption
    <3> QED BY <2>2, <3>2, <3>4
  <2> QED BY <2>1, <2>2, <2>3 DEF LossInv
<1>2. LossInv /\ [LoggedNext]_<<windowVars, log>> => LossInv'
  <2> SUFFICES ASSUME LossInv, [LoggedNext]_<<windowVars, log>> PROVE LossInv'
    OBVIOUS
  <2>1. CASE LoggedLate
    BY <2>1, LateLoss, WindowAssumption DEF LoggedLate
  <2>2. CASE LoggedAccepted
    BY <2>2, AcceptedLoss, WindowAssumption DEF LoggedAccepted
  <2>3. CASE UNCHANGED <<windowVars, log>>
    <3>1. Inv'
      BY <2>3, StutterInv DEF LossInv
    <3>2. UNCHANGED <<windows, watermark, evicted_keys, evicted_values, log>>
      BY <2>3 DEF windowVars
    <3>3. ASSUME NEW T \in Int
          PROVE  /\ Since(T)' = Since(T)
                 /\ Held(Recent(windows, T), Key)' = Held(Recent(windows, T), Key)
      BY <3>2 DEF Since, Held, Slots, Recent, Prune
    <3> QED BY <3>1, <3>2, <3>3 DEF LossInv
  <2> QED BY <2>1, <2>2, <2>3 DEF LoggedNext
<1> QED BY <1>1, <1>2, PTL DEF LoggedSpec

\* The live items of LossAccounted are at least those that Prune would leave.
LEMMA LiveItems ==
    ASSUME WindowAssumption, Inv, NEW T \in Int,
           NEW live, live \subseteq Slots(windows, Key),
           \A s \in Slots(windows, Key) :
                windows[s[1]][s[2]].timestamp >= T => s \in live
    PROVE  /\ Cardinality(live) \in Nat
           /\ Held(Recent(windows, T), Key) <= Cardinality(live)
<1> DEFINE short == Slots(Recent(windows, T), Key)
           shift == [q \in Key |-> Len(windows[q]) - Len(Recent(windows, T)[q])]
           f == [s \in short |-> <<s[1], s[2] + shift[s[1]]>>]
<1>1. /\ windows \in [Key -> Seq(Item)] /\ \A q \in Key : Sorted(windows[q])
      /\ IsFiniteSet(Slots(windows, Key))
  BY DEF Inv, TypeOK, Chronological, Sorted
<1>2. IsFiniteSet(live)
  BY <1>1, FS_Subset
<1>3. ASSUME NEW s \in short
      PROVE  /\ s = <<s[1], s[2]>> /\ s[1] \in Key /\ s[2] \in Int
             /\ shift[s[1]] \in Int /\ f[s] \in live
  <2>1. PICK q \in Key : \E i \in 1..Len(Recent(windows, T)[q]) : s = <<q, i>>
    BY SlotsMember
  <2>2. PICK i \in 1..Len(Recent(windows, T)[q]) : s = <<q, i>>
    BY <2>1
  <2>3. PICK n \in Nat : n = Len(windows[q]) /\ \E m \in 0..n :
              /\ Len(Prune(windows[q], T)) = n - m
              /\ \A j \in 1..n : windows[q][j].timestamp >= T <=> j > m
    BY <1>1, RecentItems
  <2>4. PICK m \in 0..n :
              /\ Len(Prune(windows[q], T)) = n - m
              /\ \A j \in 1..n : windows[q][j].timestamp >= T <=> j > m
    BY <2>3
  <2>5. Len(Recent(windows, T)[q]) = n - m
    BY <2>4 DEF Recent
  <2>6. shift[q] = m
    BY <2>3, <2>5
  <2>7. i \in Nat /\ i + m \in 1..n /\ i + m > m
    BY <2>2, <2>5
  <2>8. f[s] = <<q, i + m>>
    BY <2>2, <2>6
  <2>9. <<q, i + m>> \in Slots(windows, Key)
    BY <2>3, <2>7, SlotsMember
  <2>10. windows[q][i + m].timestamp >= T
    BY <2>4, <2>7
  <2>11. f[s] \in live
    BY <2>8, <2>9, <2>10
  <2> HIDE DEF shift, f
  <2> QED BY <2>2, <2>6, <2>7, <2>11
<1> HIDE DEF short, shift
<1>4. f \in [short -> live]
  BY <1>3
<1>5. ASSUME NEW r \in short, NEW s \in short, f[r] = f[s] PROVE r = s
  <2>1. /\ r = <<r[1], r[2]>> /\ r[2] \in Int /\ s = <<s[1], s[2]>> /\ s[2] \in Int
        /\ shift[s[1]] \in Int
    BY <1>3
  <2>2. r[1] = s[1] /\ r[2] + shift[r[1]] = s[2] + shift[s[1]]
    BY <1>5
  <2>3. r[2] = s[2]
    BY <2>1, <2>2
  <2> QED BY <2>1, <2>2, <2>3
<1> HIDE DEF f
<1>6. f \in Injection(short, live)
  BY <1>4, <1>5 DEF Injection, IsInjective
<1>7. Cardinality(short) <= Cardinality(live)
  BY <1>2, <1>6, FS_Injection
<1> QED BY <1>2, <1>7, FS_CardinalityType DEF Held, short

\* No accepted event disappears silently: what the deques lack of the events of the last
\* window of time is in evicted_values.
THEOREM LossIsAccounted == LoggedSpec => []LossAccounted
<1>1. LossInv => LossAccounted
  <2> SUFFICES ASSUME LossInv PROVE LossAccounted
    OBVIOUS
  <2> DEFINE missing == {i \in DOMAIN log : log[i].timestamp \in Fresh}
             live == {s \in Slots(windows, Key) : windows[s[1]][s[2]].timestamp \in Fresh}
  <2>1. /\ Inv /\ log \in Seq(LogRecord) /\ evicted_values \in Nat
        /\ evicted_keys <= evicted_values /\ watermark \in Time \cup {None}
    BY DEF LossInv, Inv, TypeOK
  <2>2. Cardinality(missing) - Cardinality(live) <= evicted_values
    <3>1. CASE watermark = None
      <4>1. Fresh = {}
        BY <3>1 DEF Fresh
      <4>2. missing = {} /\ live = {}
        BY <4>1
      <4> HIDE DEF missing, live
      <4>3. Cardinality(missing) = 0 /\ Cardinality(live) = 0
        BY <4>2, FS_EmptySet
      <4> QED BY <2>1, <4>3
    <3>2. CASE watermark # None
      <4>1. PICK T \in Int : T = watermark - Span
        BY <2>1, <3>2, WindowAssumption DEF WindowAssumption
      <4>2. Fresh = {t \in Time : t >= T}
        BY <3>2, <4>1 DEF Fresh
      <4>3. missing = Since(T)
        <5>1. \A i \in DOMAIN log : log[i].timestamp \in Time
          <6>1. \A i \in DOMAIN log : log[i] \in LogRecord
            BY <2>1, ElementOfSeq, LenProperties
          <6> QED BY <6>1 DEF LogRecord
        <5> QED BY <4>2, <5>1 DEF Since
      <4>4. live \subseteq Slots(windows, Key)
        OBVIOUS
      <4>5. \A s \in Slots(windows, Key) :
                windows[s[1]][s[2]].timestamp >= T => s \in live
        <5> SUFFICES ASSUME NEW s \in Slots(windows, Key),
                            windows[s[1]][s[2]].timestamp >= T
                     PROVE  windows[s[1]][s[2]].timestamp \in Fresh
          OBVIOUS
        <5>1. PICK q \in Key : \E i \in 1..Len(windows[q]) : s = <<q, i>>
          BY SlotsMember
        <5>2. PICK i \in 1..Len(windows[q]) : s = <<q, i>>
          BY <5>1
        <5>3. windows[q] \in Seq(Item)
          BY <2>1 DEF Inv, TypeOK
        <5>4. windows[q][i] \in Item
          BY <5>3, ElementOfSeq
        <5> QED BY <4>2, <5>2, <5>4 DEF Item
      <4> HIDE DEF missing, live
      <4>6. /\ Cardinality(live) \in Nat
            /\ Held(Recent(windows, T), Key) <= Cardinality(live)
        BY <2>1, <4>4, <4>5, LiveItems, WindowAssumption
      <4>7. Cardinality(Since(T)) <= Held(Recent(windows, T), Key) + evicted_values
        BY <4>1 DEF LossInv
      <4>8. Cardinality(Since(T)) \in Nat
        BY <2>1, SinceFinite
      <4>9. Held(Recent(windows, T), Key) \in Nat
        <5>1. /\ windows \in [Key -> Seq(Item)] /\ \A q \in Key : Sorted(windows[q])
              /\ IsFiniteSet(Slots(windows, Key))
          BY <2>1 DEF Inv, TypeOK, Chronological, Sorted
        <5> QED BY <5>1, RecentHeld, WindowAssumption
      <4> QED BY <2>1, <4>3, <4>6, <4>7, <4>8, <4>9
    <3> QED BY <3>1, <3>2
  <2> QED BY <2>1, <2>2 DEF LossAccounted
<1> QED BY <1>1, LossInvariant, PTL

-----------------------------------------------------------------------------
\* Until something is evicted, every deque is the exact window.

\* The places of the items of one time.
At(w, T) == {j \in 1..Len(w) : w[j].timestamp = T}

\* The items of one time are what arrived in these places of the log, in order.
Reflects(w, history, arrivals, T) ==
    \E f \in Matchings(At(w, T), arrivals) :
        \A j \in At(w, T) : w[j].value = history[f[j]].value

\* As long as nothing was evicted, this holds of every key and of every time that the
\* watermark may still reach.
ExactInv ==
    evicted_values = 0 =>
        \A k \in Key, T \in Int : watermark = None \/ T >= watermark - Span =>
            Reflects(windows[k], log, Arrived(k, T), T)

\* A log that has the same at these places will do.
LEMMA ReflectsLater ==
    ASSUME NEW w, NEW T, NEW history, NEW later, NEW arrivals,
           \A i \in arrivals : later[i] = history[i], Reflects(w, history, arrivals, T)
    PROVE  Reflects(w, later, arrivals, T)
<1>1. PICK f \in Matchings(At(w, T), arrivals) :
            \A j \in At(w, T) : w[j].value = history[f[j]].value
  BY DEF Reflects
<1>2. \A j \in At(w, T) : f[j] \in arrivals
  BY DEF Matchings
<1>3. \A j \in At(w, T) : w[j].value = later[f[j]].value
  BY <1>1, <1>2
<1> QED BY <1>3 DEF Reflects

\* Pruning moves the items that stay, and takes none away that is not before the cutoff.
LEMMA PruneReflects ==
    ASSUME WindowAssumption, NEW w \in Seq(Item), NEW cutoff \in Int, NEW T \in Int,
           T >= cutoff, NEW history, NEW arrivals \in SUBSET Int,
           Reflects(w, history, arrivals, T)
    PROVE  Reflects(Prune(w, cutoff), history, arrivals, T)
<1>1. PICK m \in 0..Len(w) :
          /\ Prune(w, cutoff) = SubSeq(w, m + 1, Len(w))
          /\ \A i \in 1..m : ~ (w[i].timestamp >= cutoff)
  BY PruneProperties
<1> DEFINE r == Prune(w, cutoff)
<1>2. Len(w) \in Nat /\ m \in Nat
  BY LenProperties
<1>3. Len(r) = Len(w) - m /\ \A i \in 1..(Len(w) - m) : r[i] = w[i + m]
  BY <1>1, SuffixProperties
<1> HIDE DEF r
<1> DEFINE shift == [j \in At(r, T) |-> j + m]
<1>4. At(r, T) \in SUBSET Int /\ At(w, T) \in SUBSET Int
  BY DEF At
<1>5. \A j \in At(r, T) : j \in Int /\ j + m \in At(w, T) /\ r[j] = w[j + m]
  BY <1>2, <1>3 DEF At
<1>6. ASSUME NEW i \in At(w, T) PROVE \E j \in At(r, T) : j + m = i
  <2>1. i \in 1..Len(w) /\ w[i].timestamp = T
    BY DEF At
  <2>2. i > m
    BY <1>1, <1>2, <2>1
  <2>3. i - m \in 1..(Len(w) - m) /\ (i - m) + m = i
    BY <1>2, <2>1, <2>2
  <2>4. r[i - m] = w[i]
    BY <1>3, <2>3
  <2> QED BY <1>3, <2>1, <2>3, <2>4 DEF At
<1>7. shift \in Matchings(At(r, T), At(w, T))
  BY <1>2, <1>5, <1>6 DEF Matchings
<1>8. PICK f \in Matchings(At(w, T), arrivals) :
          \A j \in At(w, T) : w[j].value = history[f[j]].value
  BY DEF Reflects
<1> DEFINE g == [j \in At(r, T) |-> f[shift[j]]]
<1>9. g \in Matchings(At(r, T), arrivals)
  BY <1>4, <1>7, <1>8, MatchedTwice
<1>10. \A j \in At(r, T) : r[j].value = history[g[j]].value
  BY <1>5, <1>8
<1> HIDE DEF g
<1>11. Reflects(r, history, arrivals, T)
  BY <1>9, <1>10 DEF Reflects
<1> QED BY <1>11 DEF r

\* Inserting an item of another time moves the items after it.
LEMMA InsertOtherReflects ==
    ASSUME WindowAssumption, NEW w \in Seq(Item), Sorted(w), NEW e \in Item,
           NEW T \in Int, e.timestamp # T, NEW history, NEW arrivals \in SUBSET Int,
           Reflects(w, history, arrivals, T)
    PROVE  Reflects(Insert(w, e), history, arrivals, T)
<1>1. PICK p \in 1..Len(w) + 1 :
          /\ Insert(w, e) \in Seq(Item)
          /\ Len(Insert(w, e)) = Len(w) + 1
          /\ \A i \in 1..Len(w) + 1 : Insert(w, e)[i] =
                IF i < p THEN w[i] ELSE IF i = p THEN e ELSE w[i - 1]
  BY InsertProperties
<1> DEFINE r == Insert(w, e)
           back(j) == IF j < p THEN j ELSE j - 1
           shift == [j \in At(r, T) |-> back(j)]
<1>2. Len(w) \in Nat /\ p \in Nat
  BY LenProperties
<1>3. /\ Len(r) = Len(w) + 1
      /\ \A i \in 1..Len(w) + 1 : r[i] = IF i < p THEN w[i] ELSE IF i = p THEN e ELSE w[i - 1]
  BY <1>1
<1> HIDE DEF r
<1>4. At(r, T) \in SUBSET Int /\ At(w, T) \in SUBSET Int
  BY DEF At
<1>5. ASSUME NEW j \in At(r, T)
      PROVE  j \in Int /\ j # p /\ back(j) \in At(w, T) /\ r[j] = w[back(j)]
  <2>1. j \in 1..Len(w) + 1 /\ r[j].timestamp = T
    BY <1>3 DEF At
  <2>2. j # p
    BY <1>3, <2>1
  <2>3. back(j) \in 1..Len(w) /\ r[j] = w[back(j)]
    BY <1>2, <1>3, <2>1, <2>2
  <2> QED BY <2>1, <2>2, <2>3 DEF At
<1>6. ASSUME NEW i \in At(w, T) PROVE \E j \in At(r, T) : back(j) = i
  <2>1. i \in 1..Len(w) /\ w[i].timestamp = T
    BY DEF At
  <2>2. CASE i < p
    <3>1. r[i] = w[i] /\ i \in 1..Len(w) + 1 /\ back(i) = i
      BY <1>2, <1>3, <2>1, <2>2
    <3> QED BY <1>3, <2>1, <3>1 DEF At
  <2>3. CASE ~ (i < p)
    <3>1. i + 1 \in 1..Len(w) + 1 /\ ~ (i + 1 < p) /\ i + 1 # p /\ (i + 1) - 1 = i
      BY <1>2, <2>1, <2>3
    <3>2. r[i + 1] = w[i] /\ back(i + 1) = i
      BY <1>3, <3>1
    <3> QED BY <1>3, <2>1, <3>1, <3>2 DEF At
  <2> QED BY <2>2, <2>3
<1>7. shift \in Matchings(At(r, T), At(w, T))
  <2>1. \A a, b \in At(r, T) : a < b => back(a) < back(b)
    BY <1>2, <1>5
  <2> QED BY <1>5, <1>6, <2>1 DEF Matchings
<1>8. PICK f \in Matchings(At(w, T), arrivals) :
          \A j \in At(w, T) : w[j].value = history[f[j]].value
  BY DEF Reflects
<1> DEFINE g == [j \in At(r, T) |-> f[shift[j]]]
<1>9. g \in Matchings(At(r, T), arrivals)
  BY <1>4, <1>7, <1>8, MatchedTwice
<1>10. \A j \in At(r, T) : r[j].value = history[g[j]].value
  BY <1>5, <1>8
<1> HIDE DEF g
<1>11. Reflects(r, history, arrivals, T)
  BY <1>9, <1>10 DEF Reflects
<1> QED BY <1>11 DEF r

\* Inserted among items of its own time, an item comes after them, as it does in the log.
LEMMA InsertSameReflects ==
    ASSUME WindowAssumption, NEW w \in Seq(Item), Sorted(w), NEW e \in Item,
           NEW T \in Int, e.timestamp = T,
           NEW history, NEW arrivals \in SUBSET Int, Reflects(w, history, arrivals, T),
           NEW later, NEW b \in Int, \A i \in arrivals : i < b /\ later[i] = history[i],
           later[b].value = e.value
    PROVE  Reflects(Insert(w, e), later, arrivals \cup {b}, T)
<1>1. PICK p \in 1..Len(w) + 1 :
          /\ Insert(w, e) \in Seq(Item)
          /\ Len(Insert(w, e)) = Len(w) + 1
          /\ \A i \in 1..Len(w) + 1 : Insert(w, e)[i] =
                IF i < p THEN w[i] ELSE IF i = p THEN e ELSE w[i - 1]
          /\ p <= Len(w) => w[p].timestamp > e.timestamp
  BY InsertProperties
<1> DEFINE r == Insert(w, e)
<1>2. Len(w) \in Nat /\ p \in Nat
  BY LenProperties
<1>3. /\ Len(r) = Len(w) + 1
      /\ \A i \in 1..Len(w) + 1 : r[i] = IF i < p THEN w[i] ELSE IF i = p THEN e ELSE w[i - 1]
  BY <1>1
<1> HIDE DEF r
<1>4. \A i \in At(w, T) : i \in 1..Len(w) /\ i < p
  <2> SUFFICES ASSUME NEW i \in 1..Len(w), w[i].timestamp = T, ~ (i < p) PROVE FALSE
    BY DEF At
  <2>1. p \in 1..Len(w) /\ p <= i
    BY <1>2
  <2>2. w[p].timestamp <= w[i].timestamp
    BY <2>1 DEF Sorted
  <2>3. w[p] \in Item
    BY <2>1, ElementOfSeq
  <2>4. w[p].timestamp \in Int
    BY <2>3 DEF Item, WindowAssumption
  <2> QED BY <1>1, <2>1, <2>2, <2>4
<1>5. At(r, T) = At(w, T) \cup {p}
  <2>1. ASSUME NEW j \in At(r, T) PROVE j \in At(w, T) \cup {p}
    <3>1. j \in 1..Len(w) + 1 /\ r[j].timestamp = T
      BY <1>3 DEF At
    <3>2. CASE j < p
      BY <1>2, <1>3, <3>1, <3>2 DEF At
    <3>3. CASE j > p
      <4>1. j - 1 \in 1..Len(w) /\ r[j] = w[j - 1] /\ ~ (j - 1 < p)
        BY <1>2, <1>3, <3>1, <3>3
      <4>2. j - 1 \in At(w, T)
        BY <3>1, <4>1 DEF At
      <4> QED BY <1>4, <4>1, <4>2
    <3> QED BY <1>2, <3>1, <3>2, <3>3
  <2>2. ASSUME NEW j \in At(w, T) PROVE j \in At(r, T)
    BY <1>2, <1>3, <1>4 DEF At
  <2>3. p \in At(r, T)
    BY <1>2, <1>3 DEF At
  <2> QED BY <2>1, <2>2, <2>3
<1>6. PICK f \in Matchings(At(w, T), arrivals) :
          \A j \in At(w, T) : w[j].value = history[f[j]].value
  BY DEF Reflects
<1> DEFINE g == [c \in At(w, T) \cup {p} |-> IF c = p THEN b ELSE f[c]]
<1>7. g \in Matchings(At(r, T), arrivals \cup {b})
  <2>1. At(w, T) \in SUBSET Int /\ p \in Int /\ \A c \in At(w, T) : c < p
    BY <1>2, <1>4
  <2> HIDE DEF g
  <2>2. g \in Matchings(At(w, T) \cup {p}, arrivals \cup {b})
    BY <1>6, <2>1, MatchedLast DEF g
  <2> QED BY <1>5, <2>2
<1>8. ASSUME NEW j \in At(r, T) PROVE r[j].value = later[g[j]].value
  <2>1. CASE j = p
    BY <1>2, <1>3, <1>5, <2>1
  <2>2. CASE j # p
    <3>1. j \in At(w, T) /\ j < p /\ j \in 1..Len(w) /\ g[j] = f[j]
      BY <1>4, <1>5, <2>2
    <3>2. f[j] \in arrivals
      BY <1>6, <3>1 DEF Matchings
    <3>3. r[j] = w[j]
      BY <1>2, <1>3, <3>1
    <3> HIDE DEF g
    <3> QED BY <1>6, <3>1, <3>2, <3>3
  <2> QED BY <2>1, <2>2
<1> HIDE DEF g
<1>9. Reflects(r, later, arrivals \cup {b}, T)
  BY <1>7, <1>8 DEF Reflects
<1> QED BY <1>9 DEF r

\* A late event withdraws only what has aged out.
LEMMA LateExact ==
    ASSUME WindowAssumption, LossInv, ExactInv, NEW k \in Key, NEW t \in Time,
           AddLate(k, t), UNCHANGED log
    PROVE  ExactInv'
<1>1. /\ windows' = [windows EXCEPT ![k] = Prune(windows[k], watermark - Span)]
      /\ UNCHANGED <<watermark, evicted_values>>
  BY DEF AddLate, Values
<1>2. windows \in [Key -> Seq(Item)] /\ watermark \in Time \cup {None}
  BY DEF LossInv, Inv, TypeOK
<1>3. watermark \in Int /\ watermark # None /\ watermark - Span \in Int
  <2>1. t \in Int /\ Span \in Nat \ {0} /\ Time \subseteq Int /\ None \notin Int
    BY DEF WindowAssumption
  <2>2. watermark # None
    BY <2>1 DEF AddLate, Advance
  <2> QED BY <1>2, <2>1, <2>2
<1>4. ASSUME evicted_values = 0, NEW q \in Key, NEW T \in Int, T >= watermark - Span
      PROVE  Reflects(windows'[q], log, Arrived(q, T), T)
  <2>1. Reflects(windows[q], log, Arrived(q, T), T) /\ Arrived(q, T) \in SUBSET Int
    <3>1. log \in Seq(LogRecord)
      BY DEF LossInv
    <3>2. DOMAIN log \in SUBSET Int
      BY <3>1, LenProperties
    <3> QED BY <1>4, <3>2 DEF ExactInv, Arrived
  <2>2. CASE q = k
    <3>1. Reflects(Prune(windows[k], watermark - Span), log, Arrived(q, T), T)
      BY <1>2, <1>3, <1>4, <2>1, <2>2, PruneReflects
    <3> QED BY <1>1, <1>2, <2>2, <3>1
  <2>3. CASE q # k
    BY <1>1, <1>2, <2>1, <2>3
  <2> QED BY <2>2, <2>3
<1>5. ASSUME evicted_values' = 0, NEW q \in Key, NEW T \in Int,
             watermark' = None \/ T >= watermark' - Span
      PROVE  Reflects(windows[q], log, Arrived(q, T), T)'
  <2>1. Reflects(windows'[q], log, Arrived(q, T), T)
    BY <1>1, <1>3, <1>4, <1>5
  <2>2. Arrived(q, T)' = Arrived(q, T)
    BY DEF Arrived
  <2> QED BY <2>1, <2>2 DEF Reflects, At
<1> QED BY <1>5 DEF ExactInv

\* An accepted event that evicts nothing is added to its deque where it arrived.
LEMMA AcceptedExact ==
    ASSUME WindowAssumption, LossInv, ExactInv, NEW k \in Key, NEW t \in Time, NEW v \in Value,
           AddAccepted(k, t, v),
           log' = Append(log, [key |-> k, timestamp |-> t, value |-> v]),
           evicted_values' = 0
    PROVE  ExactInv'
<1> DEFINE mark == Advance(t)
           w == windows[k]
           e == [timestamp |-> t, value |-> v]
           pruned == Prune(Insert(w, e), mark - Span)
           kept == Newest(pruned)
           deques == [windows EXCEPT ![k] = kept]
           keys == Touch(order, k)
           dropped == Len(pruned) - Len(kept)
           count == value_count + Growth(w, pruned) - dropped
           n == Overflow(keys, deques, count)
           victims == ToSet(SubSeq(keys, 1, n))
           record == [key |-> k, timestamp |-> t, value |-> v]
<1>1. /\ t >= mark - Span
      /\ watermark' = mark
      /\ windows' = [q \in Key |-> IF q \in victims THEN <<>> ELSE deques[q]]
      /\ evicted_values' = evicted_values + dropped + Held(deques, victims)
      /\ evicted_keys' = evicted_keys + n
  BY DEF AddAccepted
<1>2. Inv /\ LossInv'
  BY AcceptedLoss DEF LossInv
<1>3. /\ windows \in [Key -> Seq(Item)] /\ w \in Seq(Item) /\ Sorted(w)
      /\ IsFiniteSet(Slots(windows, Key))
      /\ order \in Seq(Key) /\ IsInjective(order)
      /\ \A q \in Key : (q \in ToSet(order)) <=> (windows[q] # <<>>)
      /\ evicted_values \in Nat /\ evicted_keys \in Nat /\ e \in Item
      /\ value_count = Held(windows, Key)
  BY <1>2 DEF Inv, TypeOK, Chronological, Sorted, Item, KeysHoldValues, CountExact
<1>4. /\ mark \in Int /\ mark - Span \in Int /\ t \in Int
      /\ watermark = None \/ (watermark \in Int /\ watermark <= mark)
      /\ pruned \in Seq(Item) /\ kept \in Seq(Item)
      /\ Len(kept) <= Len(pruned) /\ Len(kept) <= MaxValues
  <2>1. t \in Int /\ Span \in Nat
    BY DEF WindowAssumption
  <2> QED BY <1>1, <1>2, <2>1, AcceptedDeque
<1>5. Len(w) \in Nat /\ Len(pruned) \in Nat /\ Len(kept) \in Nat
  BY <1>3, <1>4, LenProperties
<1>6. keys \in Seq(Key) /\ IsInjective(keys) /\ Len(keys) \in Nat \ {0}
      /\ keys[Len(keys)] = k /\ ToSet(keys) = ToSet(order) \cup {k}
  BY <1>3, TouchProperties
<1>7. kept = pruned \/ Len(kept) < Len(pruned)
  <2> HIDE DEF pruned
  <2> QED BY <1>4, <1>5 DEF Newest, WindowAssumption
<1> HIDE DEF mark, w, pruned, kept, keys
<1>8. /\ deques \in [Key -> Seq(Item)] /\ deques[k] = kept
      /\ \A q \in Key : q # k => deques[q] = windows[q]
  BY <1>3, <1>4
<1>9. IsFiniteSet(Slots(deques, Key))
      /\ Held(deques, Key) = Held(windows, Key) - Len(w) + Len(kept)
  BY <1>3, <1>4, HeldReplaced DEF w
<1>10. Held(windows, Key) \in Nat /\ Held(deques, Key) \in Nat
  BY <1>3, <1>9, FS_CardinalityType DEF Held
<1>11. count = Held(deques, Key) /\ dropped \in Nat
  BY <1>3, <1>4, <1>5, <1>9, <1>10 DEF Growth
<1> HIDE DEF count
<1>12. n \in 0..(Len(keys) - 1)
  <2>1. \A q \in Key : q \notin ToSet(keys) => deques[q] = <<>>
    BY <1>3, <1>6, <1>8
  <2>2. Len(deques[keys[Len(keys)]]) <= MaxValues
    BY <1>4, <1>6, <1>8
  <2> HIDE DEF deques
  <2> QED BY <2>1, <2>2, <1>6, <1>8, <1>9, <1>11, OverflowStops
<1>13. n = 0
  <2>1. evicted_keys' <= evicted_values'
    BY <1>2 DEF LossInv
  <2> HIDE DEF n
  <2> QED BY <1>1, <1>3, <1>6, <1>12, <2>1
<1>14. victims = {}
  <2>1. SubSeq(keys, 1, 0) = <<>>
    BY <1>6, SubSeqProperties, EmptySeq
  <2> HIDE DEF n
  <2> QED BY <1>13, <2>1 DEF ToSet
<1>15. Held(deques, victims) = 0
  <2> HIDE DEF victims, deques
  <2>1. Slots(deques, {}) = {}
    BY DEF Slots
  <2> QED BY <1>14, <2>1, FS_EmptySet DEF Held
<1>16. evicted_values = 0 /\ dropped = 0
  <2> HIDE DEF dropped, victims, deques, n
  <2> QED BY <1>1, <1>3, <1>11, <1>15
<1>17. kept = pruned
  BY <1>5, <1>7, <1>16
<1>18. windows'[k] = pruned /\ \A q \in Key : q # k => windows'[q] = windows[q]
  <2> HIDE DEF victims
  <2> QED BY <1>1, <1>8, <1>14, <1>17
<1> HIDE DEF deques, dropped, n, victims
<1>19. log \in Seq(LogRecord) /\ record \in LogRecord
  BY DEF LossInv, LogRecord
<1>20. PICK l \in Nat : l = Len(log) /\ DOMAIN log = 1..l
  BY <1>19, LenProperties
<1> HIDE DEF record
<1>21. /\ log' \in Seq(LogRecord) /\ DOMAIN log' = 1..(l + 1) /\ log'[l + 1] = record
       /\ \A i \in 1..l : log'[i] = log[i]
  <2>1. log' = Append(log, record)
    BY DEF record
  <2> QED BY <1>19, <1>20, <2>1, AppendProperties, LenProperties
<1>22. ASSUME NEW q \in Key, NEW T \in Int, T >= mark - Span
       PROVE  Reflects(windows'[q], log', Arrived(q, T)', T)
  <2>1. watermark = None \/ T >= watermark - Span
    BY <1>4, <1>22 DEF WindowAssumption
  <2>2. Reflects(windows[q], log, Arrived(q, T), T)
    BY <1>16, <2>1 DEF ExactInv
  <2>3. Arrived(q, T) \in SUBSET (1..l)
    BY <1>20 DEF Arrived
  <2>4. Arrived(q, T)' =
            IF q = k /\ T = t THEN Arrived(q, T) \cup {l + 1} ELSE Arrived(q, T)
    BY <1>20, <1>21 DEF Arrived, record
  <2>5. \A i \in Arrived(q, T) : log'[i] = log[i]
    BY <1>21, <2>3
  <2>6. CASE q # k
    <3>1. Reflects(windows[q], log', Arrived(q, T), T)
      BY <2>2, <2>5, ReflectsLater
    <3> QED BY <1>18, <2>4, <2>6, <3>1
  <2>7. CASE q = k /\ T # t
    <3>1. Reflects(Insert(w, e), log, Arrived(q, T), T)
      <4>1. e.timestamp # T /\ Arrived(q, T) \in SUBSET Int
        BY <2>3, <2>7
      <4> HIDE DEF e
      <4> QED BY <1>3, <2>2, <2>7, <4>1, InsertOtherReflects DEF w
    <3>2. Reflects(pruned, log, Arrived(q, T), T)
      <4>1. Insert(w, e) \in Seq(Item)
        BY <1>3, InsertProperties
      <4> QED BY <1>4, <1>22, <2>3, <3>1, <4>1, PruneReflects DEF pruned
    <3>3. Reflects(pruned, log', Arrived(q, T), T)
      BY <2>5, <3>2, ReflectsLater
    <3> QED BY <1>18, <2>4, <2>7, <3>3
  <2>8. CASE q = k /\ T = t
    <3>1. Reflects(Insert(w, e), log', Arrived(q, T) \cup {l + 1}, T)
      <4>1. \A i \in Arrived(q, T) : i < l + 1 /\ log'[i] = log[i]
        BY <1>21, <2>3
      <4>2. log'[l + 1].value = e.value /\ e.timestamp = T
        BY <1>21, <2>8 DEF record
      <4>3. Arrived(q, T) \in SUBSET Int /\ l + 1 \in Int
        BY <2>3
      <4>4. Reflects(w, log, Arrived(q, T), T)
        BY <2>2, <2>8 DEF w
      <4> HIDE DEF e
      <4> QED BY <1>3, <4>1, <4>2, <4>3, <4>4, InsertSameReflects
    <3>2. Reflects(pruned, log', Arrived(q, T) \cup {l + 1}, T)
      <4>1. Insert(w, e) \in Seq(Item)
        BY <1>3, InsertProperties
      <4>2. Arrived(q, T) \cup {l + 1} \in SUBSET Int
        BY <2>3
      <4> QED BY <1>4, <1>22, <3>1, <4>1, <4>2, PruneReflects DEF pruned
    <3> QED BY <1>18, <2>4, <2>8, <3>2
  <2> QED BY <2>6, <2>7, <2>8
<1>23. mark # None
  BY <1>4 DEF WindowAssumption
<1>24. ASSUME NEW q \in Key, NEW T \in Int, watermark' = None \/ T >= watermark' - Span
       PROVE  Reflects(windows[q], log, Arrived(q, T), T)'
  <2>1. T >= mark - Span
    BY <1>1, <1>23, <1>24
  <2>2. Reflects(windows'[q], log', Arrived(q, T)', T)
    BY <1>22, <2>1
  <2> QED BY <2>2 DEF Reflects, At
<1> QED BY <1>24 DEF ExactInv

\* ExactInv holds after every sequence of calls.
LEMMA ExactInvariant == LoggedSpec => []ExactInv
<1>1. LoggedInit => ExactInv
  <2> SUFFICES ASSUME LoggedInit, NEW k \in Key, NEW T \in Int
               PROVE  Reflects(windows[k], log, Arrived(k, T), T)
    BY DEF ExactInv
  <2>1. log = <<>> /\ windows[k] = <<>>
    BY DEF LoggedInit, Init
  <2>2. At(windows[k], T) = {} /\ Arrived(k, T) = {}
    BY <2>1 DEF At, Arrived
  <2>3. [j \in {} |-> j] \in Matchings({}, {})
    BY DEF Matchings
  <2> QED BY <2>2, <2>3 DEF Reflects
<1>2. LossInv /\ LossInv' /\ ExactInv /\ [LoggedNext]_<<windowVars, log>> => ExactInv'
  <2> SUFFICES ASSUME LossInv, LossInv', ExactInv, [LoggedNext]_<<windowVars, log>>
               PROVE  ExactInv'
    OBVIOUS
  <2>1. CASE LoggedLate
    BY <2>1, LateExact, WindowAssumption DEF LoggedLate
  <2>2. CASE LoggedAccepted
    <3>1. CASE evicted_values' = 0
      BY <2>2, <3>1, AcceptedExact, WindowAssumption DEF LoggedAccepted
    <3>2. CASE evicted_values' # 0
      BY <3>2 DEF ExactInv
    <3> QED BY <3>1, <3>2
  <2>3. CASE UNCHANGED <<windowVars, log>>
    <3>1. UNCHANGED <<windows, watermark, evicted_values, log>>
      BY <2>3 DEF windowVars
    <3>2. ASSUME NEW k \in Key, NEW T \in Int
          PROVE  Reflects(windows[k], log, Arrived(k, T), T)'
                    = Reflects(windows[k], log, Arrived(k, T), T)
      BY <3>1 DEF Reflects, At, Arrived
    <3> QED BY <3>1, <3>2 DEF ExactInv
  <2> QED BY <2>1, <2>2, <2>3 DEF LoggedNext
<1> QED BY <1>1, <1>2, LossInvariant, PTL DEF LoggedSpec

\* Until a bound evicts something, every deque holds what arrived for its key within the
\* window of time, in order, however late and early events and other keys interleave.
THEOREM DequesExact == LoggedSpec => []ExactUntilEvicted
<1>1. LossInv /\ ExactInv => ExactUntilEvicted
  <2> SUFFICES ASSUME LossInv, ExactInv, evicted_values = 0, NEW k \in Key, NEW t \in Fresh
               PROVE  Exact(k, t)
    BY DEF ExactUntilEvicted
  <2>1. t \in Int /\ t >= watermark - Span
    BY WindowAssumption DEF Fresh, WindowAssumption
  <2>2. Reflects(windows[k], log, Arrived(k, t), t)
    BY <2>1 DEF ExactInv
  <2>3. windows[k] \in Seq(Item)
    BY DEF LossInv, Inv, TypeOK
  <2>4. Kept(k, t) = At(windows[k], t)
    BY <2>3, LenProperties DEF Kept, At
  <2> QED BY <2>2, <2>4 DEF Reflects, Exact
<1> QED BY <1>1, LossInvariant, ExactInvariant, PTL
====
