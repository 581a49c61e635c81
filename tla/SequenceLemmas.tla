---- MODULE SequenceLemmas ----
(***************************************************************************)
(* Facts about numbers and sequences that the proofs of several components *)
(* need, beside those of the library.                                      *)
(***************************************************************************)
EXTENDS SequencesExt, SequenceTheorems, FiniteSetTheorems, InOrder, TLAPS

-----------------------------------------------------------------------------
\* Numbers.

\* Numbers that bound each other are equal.
LEMMA LeqAntisymmetric == \A m, n \in Int : m <= n /\ n <= m => m = n
OBVIOUS

\* A non-empty set of natural numbers has a least element, which Min picks.
LEMMA LeastNatural ==
    ASSUME NEW S \in SUBSET Nat, S # {}
    PROVE  Min(S) \in S /\ \A y \in S : Min(S) <= y
<1>1. PICK x \in S : \A y \in S : ~ (<<y, x>> \in OpToRel(<, Nat))
  BY WFMin, NatLessThanWellFounded
<1>2. OpToRel(<, Nat) = {ss \in Nat \X Nat : ss[1] < ss[2]}
  BY DEF OpToRel
<1>3. ASSUME NEW y \in S PROVE x <= y
  <2>1. x \in Nat /\ y \in Nat /\ <<y, x>> \in Nat \X Nat
    OBVIOUS
  <2>2. ~ (y < x)
    BY <1>1, <1>2, <2>1
  <2> QED BY <2>1, <2>2
<1> QED BY <1>3 DEF Min

\* Of finitely many numbers, one is the least, and of those equal to it the first.
LEMMA FirstLeast ==
    ASSUME NEW n \in Nat, n > 0, NEW t \in [1..n -> Int]
    PROVE  \E i \in 1..n : \A j \in 1..n : t[i] < t[j] \/ (t[i] = t[j] /\ i <= j)
<1> DEFINE least(k, i) == \A j \in 1..k : t[i] < t[j] \/ (t[i] = t[j] /\ i <= j)
           bad == {k \in 1..n : ~ \E i \in 1..k : least(k, i)}
<1>1. bad = {}
  <2>1. SUFFICES ASSUME bad # {} PROVE FALSE
    OBVIOUS
  <2>2. PICK m \in bad : \A y \in bad : m <= y
    <3>1. bad \in SUBSET Nat
      OBVIOUS
    <3> HIDE DEF bad
    <3> QED BY <2>1, <3>1, LeastNatural
  <2>3. m \in 1..n /\ ~ \E i \in 1..m : least(m, i)
    BY <2>2
  <2>4. m # 1
    BY <2>3
  <2>5. m - 1 \in 1..n /\ m - 1 \notin bad
    <3>1. m - 1 \in 1..n /\ ~ (m <= m - 1)
      BY <2>3, <2>4
    <3> HIDE DEF bad
    <3> QED BY <2>2, <3>1
  <2>6. PICK i \in 1..(m - 1) : least(m - 1, i)
    BY <2>5
  <2>7. CASE t[i] <= t[m]
    <3>1. i \in 1..m
      BY <2>3
    <3>2. ASSUME NEW j \in 1..m PROVE t[i] < t[j] \/ (t[i] = t[j] /\ i <= j)
      <4>1. CASE j \in 1..(m - 1)
        BY <2>6, <4>1
      <4>2. CASE j = m
        <5>1. t[i] \in Int /\ t[m] \in Int
          BY <2>3
        <5> QED BY <2>7, <4>2, <5>1
      <4> QED BY <2>3, <4>1, <4>2
    <3> QED BY <2>3, <3>1, <3>2
  <2>8. CASE ~ (t[i] <= t[m])
    <3>1. ASSUME NEW j \in 1..m PROVE t[m] < t[j] \/ (t[m] = t[j] /\ m <= j)
      <4>1. t[i] \in Int /\ t[m] \in Int /\ t[j] \in Int
        BY <2>3
      <4>2. CASE j \in 1..(m - 1)
        <5>1. t[i] < t[j] \/ t[i] = t[j]
          BY <2>6, <4>2
        <5> QED BY <2>8, <4>1, <5>1
      <4>3. CASE j = m
        BY <2>3, <4>3
      <4> QED BY <2>3, <4>2, <4>3
    <3> QED BY <2>3, <3>1
  <2> QED BY <2>7, <2>8
<1>2. n \in 1..n
  OBVIOUS
<1> QED BY <1>1, <1>2

-----------------------------------------------------------------------------
\* Parts of sequences.

\* A suffix of a sequence is a sequence of the items after the first m.
LEMMA SuffixProperties ==
    ASSUME NEW S, NEW w \in Seq(S), NEW m \in 0..Len(w)
    PROVE  /\ SubSeq(w, m + 1, Len(w)) \in Seq(S)
           /\ Len(SubSeq(w, m + 1, Len(w))) = Len(w) - m
           /\ \A i \in 1..(Len(w) - m) : SubSeq(w, m + 1, Len(w))[i] = w[i + m]
<1>1. Len(w) \in Nat /\ m \in Nat /\ m + 1 \in Int
  BY LenProperties
<1>2. \A i \in (m + 1)..Len(w) : w[i] \in S
  BY <1>1, ElementOfSeq
<1>3. /\ SubSeq(w, m + 1, Len(w)) \in Seq(S)
      /\ Len(SubSeq(w, m + 1, Len(w))) =
            IF m + 1 <= Len(w) THEN Len(w) - (m + 1) + 1 ELSE 0
      /\ \A i \in 1..(Len(w) - (m + 1) + 1) :
            SubSeq(w, m + 1, Len(w))[i] = w[(m + 1) + i - 1]
  BY <1>1, <1>2, SubSeqProperties
<1> QED BY <1>1, <1>3

\* A concatenation splits into the sequences it is made of.
LEMMA SplitConcat ==
    ASSUME NEW S, NEW s \in Seq(S), NEW t \in Seq(S)
    PROVE  /\ SubSeq(s \o t, 1, Len(s)) = s
           /\ SubSeq(s \o t, Len(s) + 1, Len(s \o t)) = t
<1> DEFINE st == s \o t
           left == SubSeq(st, 1, Len(s))
           right == SubSeq(st, Len(s) + 1, Len(st))
<1>1. Len(s) \in Nat /\ Len(t) \in Nat
  BY LenProperties
<1>2. /\ st \in Seq(S) /\ Len(st) = Len(s) + Len(t)
      /\ \A i \in 1..(Len(s) + Len(t)) : st[i] = IF i <= Len(s) THEN s[i] ELSE t[i - Len(s)]
  BY ConcatProperties
<1> HIDE DEF st
<1>3. \A i \in 1..Len(st) : st[i] \in S
  BY <1>2, ElementOfSeq
<1>4. left = s
  <2>1. \A i \in 1..Len(s) : st[i] \in S
    BY <1>1, <1>2, <1>3
  <2>2. /\ left \in Seq(S) /\ Len(left) = IF 1 <= Len(s) THEN Len(s) - 1 + 1 ELSE 0
        /\ \A i \in 1..(Len(s) - 1 + 1) : left[i] = st[1 + i - 1]
    BY <1>1, <2>1, SubSeqProperties
  <2> HIDE DEF left
  <2>3. Len(left) = Len(s)
    BY <1>1, <2>2
  <2>4. ASSUME NEW i \in 1..Len(left) PROVE left[i] = s[i]
    <3>1. /\ i \in 1..(Len(s) - 1 + 1) /\ 1 + i - 1 = i
          /\ i \in 1..(Len(s) + Len(t)) /\ i <= Len(s)
      BY <1>1, <2>3
    <3> QED BY <1>2, <2>2, <3>1
  <2> QED BY <2>2, <2>3, <2>4, SeqEqual
<1>5. right = t
  <2>1. right \in Seq(S) /\ Len(right) = Len(st) - Len(s)
        /\ \A i \in 1..(Len(st) - Len(s)) : right[i] = st[i + Len(s)]
    <3>1. \A i \in (Len(s) + 1)..Len(st) : st[i] \in S
      BY <1>1, <1>2, <1>3
    <3>2. /\ right \in Seq(S)
          /\ Len(right) = IF Len(s) + 1 <= Len(st) THEN Len(st) - (Len(s) + 1) + 1 ELSE 0
          /\ \A i \in 1..(Len(st) - (Len(s) + 1) + 1) : right[i] = st[(Len(s) + 1) + i - 1]
      BY <1>1, <1>2, <3>1, SubSeqProperties
    <3> HIDE DEF right
    <3>3. /\ Len(st) - (Len(s) + 1) + 1 = Len(st) - Len(s)
          /\ \A i \in 1..(Len(st) - Len(s)) : (Len(s) + 1) + i - 1 = i + Len(s)
      BY <1>1, <1>2
    <3>4. Len(right) = Len(st) - Len(s)
      BY <1>1, <1>2, <3>2
    <3>5. ASSUME NEW i \in 1..(Len(st) - Len(s)) PROVE right[i] = st[i + Len(s)]
      BY <3>2, <3>3
    <3> QED BY <3>2, <3>4, <3>5
  <2> HIDE DEF right
  <2>2. Len(right) = Len(t)
    BY <1>1, <1>2, <2>1
  <2>3. ASSUME NEW i \in 1..Len(right) PROVE right[i] = t[i]
    <3>1. /\ i \in 1..(Len(st) - Len(s)) /\ i + Len(s) \in 1..(Len(s) + Len(t))
          /\ ~ (i + Len(s) <= Len(s)) /\ (i + Len(s)) - Len(s) = i
      BY <1>1, <1>2, <2>1
    <3> QED BY <1>2, <2>1, <3>1
  <2> QED BY <2>1, <2>2, <2>3, SeqEqual
<1> QED BY <1>4, <1>5 DEF st

-----------------------------------------------------------------------------
\* The elements of sequences.

\* The documents of a sequence of documents are documents.
LEMMA ToSetType ==
    ASSUME NEW S, NEW s \in Seq(S)
    PROVE  ToSet(s) \subseteq S
BY LenProperties, ElementOfSeq DEF ToSet

\* What is counted of two sequences is what is counted of each.
LEMMA ToSetConcat ==
    ASSUME NEW S, NEW s \in Seq(S), NEW t \in Seq(S)
    PROVE  ToSet(s \o t) = ToSet(s) \cup ToSet(t)
<1>1. /\ Len(s) \in Nat /\ DOMAIN s = 1..Len(s)
      /\ Len(t) \in Nat /\ DOMAIN t = 1..Len(t)
  BY LenProperties
<1>2. /\ s \o t \in Seq(S)
      /\ Len(s \o t) = Len(s) + Len(t)
      /\ \A i \in 1..(Len(s) + Len(t)) :
            (s \o t)[i] = IF i <= Len(s) THEN s[i] ELSE t[i - Len(s)]
  BY ConcatProperties
<1>3. DOMAIN (s \o t) = 1..(Len(s) + Len(t))
  BY <1>2, LenProperties
<1>4. ASSUME NEW x \in ToSet(s \o t) PROVE x \in ToSet(s) \cup ToSet(t)
  <2>1. PICK i \in 1..(Len(s) + Len(t)) : x = (s \o t)[i]
    BY <1>3 DEF ToSet
  <2>2. CASE i <= Len(s)
    <3>1. i \in 1..Len(s) /\ x = s[i]
      BY <1>1, <1>2, <2>1, <2>2
    <3> QED BY <1>1, <3>1 DEF ToSet
  <2>3. CASE ~ (i <= Len(s))
    <3>1. i - Len(s) \in 1..Len(t) /\ x = t[i - Len(s)]
      BY <1>1, <1>2, <2>1, <2>3
    <3> QED BY <1>1, <3>1 DEF ToSet
  <2> QED BY <2>2, <2>3
<1>5. ASSUME NEW x \in ToSet(s) PROVE x \in ToSet(s \o t)
  <2>1. PICK i \in 1..Len(s) : x = s[i]
    BY <1>1 DEF ToSet
  <2>2. i \in 1..(Len(s) + Len(t)) /\ (s \o t)[i] = x
    BY <1>1, <1>2, <2>1
  <2> QED BY <1>3, <2>2 DEF ToSet
<1>6. ASSUME NEW x \in ToSet(t) PROVE x \in ToSet(s \o t)
  <2>1. PICK i \in 1..Len(t) : x = t[i]
    BY <1>1 DEF ToSet
  <2>2. i + Len(s) \in 1..(Len(s) + Len(t)) /\ ~ (i + Len(s) <= Len(s))
        /\ (i + Len(s)) - Len(s) = i
    BY <1>1, <2>1
  <2>3. (s \o t)[i + Len(s)] = x
    BY <1>2, <2>1, <2>2
  <2> QED BY <1>3, <2>2, <2>3 DEF ToSet
<1> QED BY <1>4, <1>5, <1>6

\* Removing one place from a list without repetition removes its element.
LEMMA RemovedElement ==
    ASSUME NEW S, NEW seq \in Seq(S), IsInjective(seq), NEW p \in 1..Len(seq)
    PROVE  /\ RemoveAt(seq, p) \in Seq(S)
           /\ IsInjective(RemoveAt(seq, p))
           /\ Len(RemoveAt(seq, p)) = Len(seq) - 1
           /\ ToSet(RemoveAt(seq, p)) = ToSet(seq) \ {seq[p]}
           /\ \A i \in 1..(Len(seq) - 1) :
                RemoveAt(seq, p)[i] = IF i < p THEN seq[i] ELSE seq[i + 1]
<1> DEFINE front == SubSeq(seq, 1, p - 1)
           back == SubSeq(seq, p + 1, Len(seq))
           r == RemoveAt(seq, p)
<1>1. Len(seq) \in Nat /\ DOMAIN seq = 1..Len(seq) /\ \A i \in 1..Len(seq) : seq[i] \in S
  BY LenProperties, ElementOfSeq
<1>2. front \in Seq(S) /\ Len(front) = p - 1
      /\ \A i \in 1..(p - 1) : front[i] = seq[i]
  BY <1>1, SubSeqProperties
<1>3. back \in Seq(S) /\ Len(back) = Len(seq) - p
      /\ \A i \in 1..(Len(seq) - p) : back[i] = seq[i + p]
  <2>1. p \in 0..Len(seq)
    BY <1>1
  <2> QED BY <2>1, SuffixProperties
<1>4. r = front \o back
  BY DEF RemoveAt
<1> HIDE DEF front, back, r
<1>5. /\ r \in Seq(S)
      /\ Len(r) = Len(front) + Len(back)
      /\ \A i \in 1..(Len(front) + Len(back)) :
            r[i] = IF i <= Len(front) THEN front[i] ELSE back[i - Len(front)]
  BY <1>2, <1>3, <1>4, ConcatProperties
<1>6. Len(r) = Len(seq) - 1 /\ DOMAIN r = 1..(Len(seq) - 1)
  BY <1>1, <1>2, <1>3, <1>5, LenProperties
<1>7. \A i \in 1..(Len(seq) - 1) : r[i] = IF i < p THEN seq[i] ELSE seq[i + 1]
  <2> SUFFICES ASSUME NEW i \in 1..(Len(seq) - 1)
               PROVE  r[i] = IF i < p THEN seq[i] ELSE seq[i + 1]
    OBVIOUS
  <2>1. i \in 1..(Len(front) + Len(back))
    BY <1>5, <1>6
  <2>2. CASE i < p
    BY <2>1, <2>2, <1>1, <1>2, <1>5
  <2>3. CASE ~ (i < p)
    <3>1. ~ (i <= Len(front)) /\ i - Len(front) \in 1..(Len(seq) - p)
          /\ (i - Len(front)) + p = i + 1
      BY <2>3, <1>1, <1>2
    <3> QED BY <2>1, <2>3, <3>1, <1>3, <1>5
  <2> QED BY <2>2, <2>3
<1> DEFINE at(i) == IF i < p THEN i ELSE i + 1
<1>8. IsInjective(r)
  <2> SUFFICES ASSUME NEW i \in 1..(Len(seq) - 1), NEW j \in 1..(Len(seq) - 1),
                      r[i] = r[j]
               PROVE  i = j
    BY <1>6 DEF IsInjective
  <2>1. r[i] = seq[at(i)] /\ r[j] = seq[at(j)]
    BY <1>7
  <2>2. at(i) \in DOMAIN seq /\ at(j) \in DOMAIN seq
    BY <1>1
  <2>3. at(i) = at(j)
    BY <2>1, <2>2 DEF IsInjective
  <2> QED BY <2>3
<1>9. ASSUME NEW i \in 1..Len(seq), i # p
      PROVE  \E j \in DOMAIN r : r[j] = seq[i]
  <2>1. CASE i < p
    BY <2>1, <1>1, <1>6, <1>7
  <2>2. CASE i > p
    <3>1. i - 1 \in 1..(Len(seq) - 1) /\ ~ (i - 1 < p) /\ (i - 1) + 1 = i
      BY <2>2, <1>1
    <3> QED BY <3>1, <1>6, <1>7
  <2> QED BY <2>1, <2>2, <1>9
<1>10. ASSUME NEW j \in DOMAIN r
       PROVE  \E i \in 1..Len(seq) : i # p /\ r[j] = seq[i]
  <2>1. CASE j < p
    BY <2>1, <1>1, <1>6, <1>7
  <2>2. CASE ~ (j < p)
    <3>1. j + 1 \in 1..Len(seq) /\ j + 1 # p /\ r[j] = seq[j + 1]
      BY <2>2, <1>1, <1>6, <1>7
    <3> QED BY <3>1
  <2> QED BY <2>1, <2>2
<1>11. ToSet(r) = ToSet(seq) \ {seq[p]}
  <2>1. ASSUME NEW x \in ToSet(r) PROVE x \in ToSet(seq) \ {seq[p]}
    <3>1. PICK j \in DOMAIN r : x = r[j]
      BY DEF ToSet
    <3>2. PICK i \in 1..Len(seq) : i # p /\ r[j] = seq[i]
      BY <1>10
    <3> QED BY <3>1, <3>2, <1>1 DEF ToSet, IsInjective
  <2>2. ASSUME NEW x \in ToSet(seq) \ {seq[p]} PROVE x \in ToSet(r)
    <3>1. PICK i \in 1..Len(seq) : x = seq[i] /\ i # p
      BY <1>1 DEF ToSet
    <3>2. PICK j \in DOMAIN r : r[j] = seq[i]
      BY <3>1, <1>9
    <3> QED BY <3>1, <3>2 DEF ToSet
  <2> QED BY <2>1, <2>2
<1> QED BY <1>5, <1>6, <1>7, <1>8, <1>11 DEF r

\* Adding an absent element at the end of the list.
LEMMA AddedElement ==
    ASSUME NEW S, NEW seq \in Seq(S), IsInjective(seq), NEW e \in S, e \notin ToSet(seq)
    PROVE  /\ Append(seq, e) \in Seq(S)
           /\ IsInjective(Append(seq, e))
           /\ Len(Append(seq, e)) = Len(seq) + 1
           /\ Append(seq, e)[Len(seq) + 1] = e
           /\ ToSet(Append(seq, e)) = ToSet(seq) \cup {e}
<1> DEFINE r == Append(seq, e)
<1>1. Len(seq) \in Nat /\ DOMAIN seq = 1..Len(seq)
  BY LenProperties
<1>2. r \in Seq(S) /\ Len(r) = Len(seq) + 1 /\ r[Len(seq) + 1] = e
      /\ \A i \in 1..Len(seq) : r[i] = seq[i]
  BY AppendProperties
<1>3. DOMAIN r = 1..(Len(seq) + 1)
  BY <1>2, LenProperties
<1> HIDE DEF r
<1>4. \A i \in 1..Len(seq) : seq[i] # e
  BY <1>1 DEF ToSet
<1>5. IsInjective(r)
  <2> SUFFICES ASSUME NEW i \in 1..(Len(seq) + 1), NEW j \in 1..(Len(seq) + 1), r[i] = r[j]
               PROVE  i = j
    BY <1>3 DEF IsInjective
  <2>1. CASE i \in 1..Len(seq) /\ j \in 1..Len(seq)
    BY <2>1, <1>1, <1>2 DEF IsInjective
  <2>2. CASE i = Len(seq) + 1 \/ j = Len(seq) + 1
    BY <2>2, <1>1, <1>2, <1>4
  <2> QED BY <2>1, <2>2, <1>1
<1>6. ToSet(r) = ToSet(seq) \cup {e}
  <2>1. ASSUME NEW x \in ToSet(r) PROVE x \in ToSet(seq) \cup {e}
    <3>1. PICK i \in 1..(Len(seq) + 1) : x = r[i]
      BY <1>3 DEF ToSet
    <3>2. CASE i \in 1..Len(seq)
      BY <3>1, <3>2, <1>1, <1>2 DEF ToSet
    <3>3. CASE i = Len(seq) + 1
      BY <3>1, <3>3, <1>2
    <3> QED BY <3>2, <3>3, <1>1
  <2>2. ASSUME NEW x \in ToSet(seq) PROVE x \in ToSet(r)
    <3>1. PICK i \in 1..Len(seq) : x = seq[i]
      BY <1>1 DEF ToSet
    <3>2. i \in DOMAIN r /\ r[i] = x
      BY <3>1, <1>1, <1>2, <1>3
    <3> QED BY <3>2 DEF ToSet
  <2>3. e \in ToSet(r)
    <3>1. Len(seq) + 1 \in DOMAIN r
      BY <1>1, <1>3
    <3> QED BY <3>1, <1>2 DEF ToSet
  <2> QED BY <2>1, <2>2, <2>3
<1> QED BY <1>2, <1>5, <1>6 DEF r

\* Taking the first element off a sequence.
LEMMA ToSetTail ==
    ASSUME NEW S, NEW seq \in Seq(S), seq # <<>>
    PROVE  ToSet(seq) = {Head(seq)} \cup ToSet(Tail(seq))
<1>1. /\ Len(seq) \in Nat /\ Len(seq) > 0 /\ DOMAIN seq = 1..Len(seq)
      /\ Head(seq) = seq[1]
      /\ Tail(seq) \in Seq(S) /\ Len(Tail(seq)) = Len(seq) - 1
      /\ \A i \in 1..Len(Tail(seq)) : Tail(seq)[i] = seq[i + 1]
  BY LenProperties, EmptySeq, HeadTailProperties
<1>2. DOMAIN Tail(seq) = 1..(Len(seq) - 1)
  BY <1>1, LenProperties
<1>3. ASSUME NEW x \in ToSet(seq) PROVE x \in {Head(seq)} \cup ToSet(Tail(seq))
  <2>1. PICK i \in 1..Len(seq) : x = seq[i]
    BY <1>1 DEF ToSet
  <2>2. CASE i = 1
    BY <1>1, <2>1, <2>2
  <2>3. CASE i # 1
    <3>1. i - 1 \in 1..(Len(seq) - 1) /\ i - 1 \in 1..Len(Tail(seq)) /\ (i - 1) + 1 = i
      BY <1>1, <2>3
    <3>2. Tail(seq)[i - 1] = x
      BY <1>1, <2>1, <3>1
    <3> QED BY <1>2, <3>1, <3>2 DEF ToSet
  <2> QED BY <2>2, <2>3
<1>4. Head(seq) \in ToSet(seq)
  BY <1>1 DEF ToSet
<1>5. ASSUME NEW x \in ToSet(Tail(seq)) PROVE x \in ToSet(seq)
  <2>1. PICK i \in 1..(Len(seq) - 1) : x = Tail(seq)[i]
    BY <1>2 DEF ToSet
  <2>2. i + 1 \in 1..Len(seq) /\ seq[i + 1] = x
    BY <1>1, <2>1
  <2> QED BY <1>1, <2>2 DEF ToSet
<1> QED BY <1>3, <1>4, <1>5

\* Adding an element at the end of a sequence.
LEMMA ToSetAppend ==
    ASSUME NEW S, NEW seq \in Seq(S), NEW e \in S
    PROVE  ToSet(Append(seq, e)) = ToSet(seq) \cup {e}
<1>1. <<e>> \in Seq(S) /\ Append(seq, e) = seq \o <<e>>
  BY AppendIsConcat
<1>2. ToSet(seq \o <<e>>) = ToSet(seq) \cup ToSet(<<e>>)
  BY <1>1, ToSetConcat, ZenonT(30)
<1>3. ToSet(<<e>>) = {e}
  BY DEF ToSet
<1> QED BY <1>1, <1>2, <1>3

\* Cutting a sequence in two loses none of its elements.
LEMMA ToSetSplit ==
    ASSUME NEW S, NEW seq \in Seq(S), NEW n \in 0..Len(seq)
    PROVE  /\ SubSeq(seq, 1, n) \in Seq(S)
           /\ SubSeq(seq, n + 1, Len(seq)) \in Seq(S)
           /\ ToSet(seq) = ToSet(SubSeq(seq, 1, n)) \cup ToSet(SubSeq(seq, n + 1, Len(seq)))
<1>1. Len(seq) \in Nat /\ \A i \in 1..Len(seq) : seq[i] \in S
  BY LenProperties, ElementOfSeq
<1>2. SubSeq(seq, 1, n) \in Seq(S)
  <2>1. n \in Int /\ \A i \in 1..n : seq[i] \in S
    BY <1>1
  <2> QED BY <2>1, SubSeqProperties
<1>3. SubSeq(seq, n + 1, Len(seq)) \in Seq(S)
  BY SuffixProperties
<1>4. SubSeq(seq, 1, n) \o SubSeq(seq, n + 1, Len(seq)) = SubSeq(seq, 1, Len(seq))
  <2>1. 1 \in 1..(Len(seq) + 1) /\ n \in (1 - 1)..Len(seq) /\ Len(seq) \in n..Len(seq)
    BY <1>1
  <2> QED BY <2>1, ConcatAdjacentSubSeq
<1>5. SubSeq(seq, 1, Len(seq)) = seq
  BY SubSeqFull
<1> DEFINE first == SubSeq(seq, 1, n)
           rest == SubSeq(seq, n + 1, Len(seq))
<1>6. first \in Seq(S) /\ rest \in Seq(S) /\ first \o rest = seq
  BY <1>2, <1>3, <1>4, <1>5
<1> HIDE DEF first, rest
<1>7. ToSet(first \o rest) = ToSet(first) \cup ToSet(rest)
  BY <1>6, ToSetConcat, ZenonT(30)
<1> QED BY <1>6, <1>7 DEF first, rest
-----------------------------------------------------------------------------
\* Counting.

\* A sequence without repetition has as many elements as places.
LEMMA InjectiveCardinality ==
    ASSUME NEW S, NEW seq \in Seq(S), IsInjective(seq)
    PROVE  IsFiniteSet(ToSet(seq)) /\ Cardinality(ToSet(seq)) = Len(seq)
<1> DEFINE n == Len(seq)
           f == [i \in 1..n |-> seq[i]]
<1>1. n \in Nat /\ DOMAIN seq = 1..n
  BY LenProperties
<1>2. \A i, j \in 1..n : seq[i] = seq[j] => i = j
  BY <1>1 DEF IsInjective
<1>3. f \in Bijection(1..n, ToSet(seq))
  <2>1. f \in [1..n -> ToSet(seq)]
    BY <1>1 DEF ToSet
  <2>2. \A i, j \in 1..n : f[i] = f[j] => i = j
    BY <1>2
  <2>3. \A y \in ToSet(seq) : \E i \in 1..n : f[i] = y
    BY <1>1 DEF ToSet
  <2> HIDE DEF f
  <2> QED BY <2>1, <2>2, <2>3 DEF Bijection, Injection, Surjection, IsInjective
<1>4. ExistsBijection(1..n, ToSet(seq))
  BY <1>3 DEF ExistsBijection
<1>5. PICK m \in Nat : m = n
  BY <1>1
<1>6. ExistsBijection(1..m, ToSet(seq))
  BY <1>4, <1>5
<1>7. Cardinality(ToSet(seq)) = m
  BY <1>6, FS_CountingElements
<1>8. IsFiniteSet(1..m)
  <2>1. 1 \in Int /\ m \in Int
    OBVIOUS
  <2> QED BY <2>1, FS_Interval
<1>9. IsFiniteSet(ToSet(seq))
  BY <1>6, <1>8, FS_Bijection
<1> QED BY <1>5, <1>7, <1>9

\* A non-empty set of numbers up to n has a greatest one.
LEMMA GreatestNatural ==
    ASSUME NEW n \in Nat, NEW S \in SUBSET (0..n), S # {}
    PROVE  Max(S) \in S /\ \A y \in S : y <= Max(S)
<1> DEFINE T == {n - x : x \in S}
<1>1. T \in SUBSET Nat /\ T # {}
  <2>1. ASSUME NEW x \in S PROVE n - x \in Nat
    OBVIOUS
  <2> QED BY <2>1
<1>2. PICK t \in T : \A y \in T : t <= y
  BY <1>1, LeastNatural
<1>3. PICK x \in S : t = n - x
  BY <1>2
<1>4. \A y \in S : y <= x
  BY <1>2, <1>3
<1> QED BY <1>3, <1>4 DEF Max

-----------------------------------------------------------------------------
\* Matching places in order.

\* No two numbers are matched with the same number.
LEMMA MatchedOnce ==
    ASSUME NEW P \in SUBSET Int, NEW Q \in SUBSET Int, NEW f \in Matchings(P, Q)
    PROVE  /\ f \in [P -> Q]
           /\ \A b \in Q : \E a \in P : f[a] = b
           /\ \A a, b \in P : a < b <=> f[a] < f[b]
           /\ \A a, b \in P : f[a] = f[b] => a = b
<1>1. /\ f \in [P -> Q] /\ \A b \in Q : \E a \in P : f[a] = b
      /\ \A a, b \in P : a < b => f[a] < f[b]
  BY DEF Matchings
<1>2. ASSUME NEW a \in P, NEW b \in P
      PROVE  (a < b <=> f[a] < f[b]) /\ (f[a] = f[b] => a = b)
  <2>1. a \in Int /\ b \in Int /\ f[a] \in Int /\ f[b] \in Int
    BY <1>1
  <2>2. (a < b => f[a] < f[b]) /\ (b < a => f[b] < f[a])
    BY <1>1
  <2> QED BY <2>1, <2>2
<1> QED BY <1>1, <1>2

\* As many numbers are matched as there are to match.
LEMMA MatchedCardinality ==
    ASSUME NEW P \in SUBSET Int, NEW Q \in SUBSET Int, NEW f \in Matchings(P, Q),
           IsFiniteSet(P)
    PROVE  IsFiniteSet(Q) /\ Cardinality(Q) = Cardinality(P)
<1>1. /\ f \in [P -> Q] /\ \A b \in Q : \E a \in P : f[a] = b
      /\ \A a, b \in P : f[a] = f[b] => a = b
  BY MatchedOnce
<1>2. f \in Bijection(P, Q)
  BY <1>1 DEF Bijection, Injection, Surjection, IsInjective
<1>3. ExistsBijection(P, Q)
  BY <1>2 DEF ExistsBijection
<1> QED BY <1>3, FS_Bijection

\* One matching after another.
LEMMA MatchedTwice ==
    ASSUME NEW P \in SUBSET Int, NEW Q \in SUBSET Int, NEW R \in SUBSET Int,
           NEW f \in Matchings(P, Q), NEW g \in Matchings(Q, R)
    PROVE  [a \in P |-> g[f[a]]] \in Matchings(P, R)
<1> DEFINE h == [a \in P |-> g[f[a]]]
<1>1. /\ f \in [P -> Q] /\ \A b \in Q : \E a \in P : f[a] = b
      /\ \A a, b \in P : a < b => f[a] < f[b]
  BY DEF Matchings
<1>2. /\ g \in [Q -> R] /\ \A b \in R : \E a \in Q : g[a] = b
      /\ \A a, b \in Q : a < b => g[a] < g[b]
  BY DEF Matchings
<1>3. h \in [P -> R]
  BY <1>1, <1>2
<1>4. ASSUME NEW c \in R PROVE \E a \in P : h[a] = c
  <2>1. PICK b \in Q : g[b] = c
    BY <1>2
  <2>2. PICK a \in P : f[a] = b
    BY <1>1
  <2> QED BY <2>1, <2>2
<1>5. ASSUME NEW a \in P, NEW b \in P, a < b PROVE h[a] < h[b]
  <2>1. f[a] \in Q /\ f[b] \in Q /\ f[a] < f[b]
    BY <1>1, <1>5
  <2> QED BY <1>2, <2>1
<1> QED BY <1>3, <1>4, <1>5 DEF Matchings

\* A new greatest number is matched with a new greatest number.
LEMMA MatchedLast ==
    ASSUME NEW P \in SUBSET Int, NEW Q \in SUBSET Int, NEW f \in Matchings(P, Q),
           NEW a \in Int, NEW b \in Int, \A c \in P : c < a, \A c \in Q : c < b
    PROVE  [c \in P \cup {a} |-> IF c = a THEN b ELSE f[c]]
              \in Matchings(P \cup {a}, Q \cup {b})
<1> DEFINE h == [c \in P \cup {a} |-> IF c = a THEN b ELSE f[c]]
<1>1. /\ f \in [P -> Q] /\ \A c \in Q : \E d \in P : f[d] = c
      /\ \A c, d \in P : c < d => f[c] < f[d]
  BY DEF Matchings
<1>2. a \notin P
  OBVIOUS
<1>3. h[a] = b /\ \A c \in P : h[c] = f[c]
  BY <1>2
<1>4. h \in [P \cup {a} -> Q \cup {b}]
  BY <1>1
<1> HIDE DEF h
<1>5. ASSUME NEW c \in Q \cup {b} PROVE \E d \in P \cup {a} : h[d] = c
  BY <1>1, <1>3
<1>6. ASSUME NEW c \in P \cup {a}, NEW d \in P \cup {a}, c < d PROVE h[c] < h[d]
  <2>1. c # a
    <3>1. \A x \in P \cup {a} : x <= a
      OBVIOUS
    <3> QED BY <3>1, <1>6
  <2>2. CASE d = a
    <3>1. h[c] \in Q /\ h[d] = b
      BY <1>1, <1>3, <2>1, <2>2
    <3> QED BY <3>1
  <2>3. CASE d # a
    BY <1>1, <1>3, <1>6, <2>1, <2>3
  <2> QED BY <2>2, <2>3
<1>7. h \in Matchings(P \cup {a}, Q \cup {b})
  BY <1>4, <1>5, <1>6 DEF Matchings
<1> QED BY <1>7 DEF h

\* Without the least numbers on either side, the others are matched as before.
LEMMA MatchedRest ==
    ASSUME NEW P \in SUBSET Int, NEW Q \in SUBSET Int, NEW f \in Matchings(P, Q),
           NEW a \in P
    PROVE  [c \in {d \in P : d > a} |-> f[c]]
              \in Matchings({d \in P : d > a}, {d \in Q : d > f[a]})
<1> DEFINE left == {d \in P : d > a}
           right == {d \in Q : d > f[a]}
           h == [c \in left |-> f[c]]
<1>1. /\ f \in [P -> Q] /\ \A c \in Q : \E d \in P : f[d] = c
      /\ \A c, d \in P : c < d <=> f[c] < f[d]
  BY MatchedOnce
<1>2. \A c \in P : c > a <=> f[c] > f[a]
  <2>1. ASSUME NEW c \in P PROVE c > a <=> f[c] > f[a]
    <3>1. c \in Int /\ a \in Int /\ f[c] \in Int /\ f[a] \in Int
      BY <1>1
    <3> QED BY <1>1, <3>1
  <2> QED BY <2>1
<1>3. h \in [left -> right] /\ \A c \in left : h[c] = f[c]
  BY <1>1, <1>2
<1> HIDE DEF h
<1>4. ASSUME NEW c \in right PROVE \E d \in left : h[d] = c
  <2>1. PICK d \in P : f[d] = c
    BY <1>1
  <2> QED BY <1>2, <1>3, <2>1
<1>5. \A c, d \in left : c < d => h[c] < h[d]
  BY <1>1, <1>3
<1>6. h \in Matchings(left, right)
  BY <1>3, <1>4, <1>5 DEF Matchings
<1> QED BY <1>6 DEF h
====
