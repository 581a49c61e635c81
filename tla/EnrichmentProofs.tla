---- MODULE EnrichmentProofs ----
(***************************************************************************)
(* Proofs about ContextIndex and Enrichment, for every set of endpoints,   *)
(* records, documents and candidates and for every bound: the indexes stay *)
(* well formed, an alert lacks no evidence that fits, its confidence and   *)
(* severity are those that its evidence earns, and the indexes forget only *)
(* what is oldest.                                                         *)
(***************************************************************************)
EXTENDS MCEnrichment, SequenceLemmas, FunctionTheorems

-----------------------------------------------------------------------------
\* The inductive invariant.  The properties of an alert speak of the indexes and the
\* store as they are, which a call that reports leaves alone; what they need beside
\* themselves is that the sets of events they count are finite.
EnrichmentInv ==
    /\ suricata \in Index /\ authentication \in Index
    /\ ContextBounded
    /\ stored \subseteq Document
    /\ auth_lookup_errors \in Nat
    /\ EvidenceComplete
    /\ BoostsJustified

-----------------------------------------------------------------------------
\* The end of a sequence.

\* The last n items of a sequence are at most n of its items, the last one among them,
\* and no item is repeated that the sequence does not repeat.
LEMMA LastOfProperties ==
    ASSUME NEW S, NEW s \in Seq(S), NEW n \in Nat \ {0}
    PROVE  /\ LastOf(s, n) \in Seq(S)
           /\ Len(LastOf(s, n)) <= n
           /\ ToSet(LastOf(s, n)) \subseteq ToSet(s)
           /\ s # <<>> => LastOf(s, n) # <<>> /\ s[Len(s)] \in ToSet(LastOf(s, n))
           /\ IsInjective(s) => IsInjective(LastOf(s, n))
<1> DEFINE m == IF Len(s) > n THEN Len(s) - n ELSE 0
           r == LastOf(s, n)
<1>1. Len(s) \in Nat /\ DOMAIN s = 1..Len(s)
  BY LenProperties
<1>2. m \in 0..Len(s) /\ Len(s) - m <= n /\ (Len(s) > 0 => m < Len(s))
  BY <1>1
<1>3. r = SubSeq(s, m + 1, Len(s))
  BY <1>1 DEF LastOf
<1> HIDE DEF m
<1>4. /\ r \in Seq(S) /\ Len(r) = Len(s) - m
      /\ \A i \in 1..(Len(s) - m) : r[i] = s[i + m]
  BY <1>2, <1>3, SuffixProperties
<1> HIDE DEF r
<1>5. DOMAIN r = 1..(Len(s) - m)
  BY <1>4, LenProperties
<1>6. ASSUME NEW x \in ToSet(r) PROVE x \in ToSet(s)
  <2>1. PICK i \in 1..(Len(s) - m) : x = r[i]
    BY <1>5 DEF ToSet
  <2>2. i + m \in 1..Len(s) /\ x = s[i + m]
    BY <1>1, <1>2, <1>4, <2>1
  <2> QED BY <1>1, <2>2 DEF ToSet
<1>7. ASSUME s # <<>> PROVE r # <<>> /\ s[Len(s)] \in ToSet(r)
  <2>1. Len(s) > 0
    BY <1>1, <1>7, EmptySeq
  <2>2. Len(s) - m \in 1..(Len(s) - m) /\ (Len(s) - m) + m = Len(s)
    BY <1>1, <1>2, <2>1
  <2>3. r[Len(s) - m] = s[Len(s)] /\ Len(s) - m \in DOMAIN r
    BY <1>4, <1>5, <2>2
  <2>4. r # <<>>
    BY <2>3
  <2> QED BY <2>3, <2>4 DEF ToSet
<1>8. ASSUME IsInjective(s) PROVE IsInjective(r)
  <2> SUFFICES ASSUME NEW i \in 1..(Len(s) - m), NEW j \in 1..(Len(s) - m), r[i] = r[j]
               PROVE  i = j
    BY <1>5 DEF IsInjective
  <2>1. i + m \in 1..Len(s) /\ j + m \in 1..Len(s) /\ s[i + m] = s[j + m]
    BY <1>1, <1>2, <1>4
  <2>2. i + m = j + m
    BY <1>1, <1>8, <2>1 DEF IsInjective
  <2> QED BY <1>2, <2>2
<1>9. Len(r) <= n
  BY <1>2, <1>4
<1> QED BY <1>4, <1>6, <1>7, <1>8, <1>9 DEF r

-----------------------------------------------------------------------------
\* The index.

\* MovedToEnd lists p last and keeps every other endpoint.
LEMMA MovedToEndProperties ==
    ASSUME NEW order \in Seq(Endpoint), IsInjective(order), NEW p \in Endpoint
    PROVE  /\ MovedToEnd(order, p) \in Seq(Endpoint)
           /\ IsInjective(MovedToEnd(order, p))
           /\ MovedToEnd(order, p) # <<>>
           /\ MovedToEnd(order, p)[Len(MovedToEnd(order, p))] = p
           /\ ToSet(MovedToEnd(order, p)) = ToSet(order) \cup {p}
<1> DEFINE at == CHOOSE i \in DOMAIN order : order[i] = p
           rest == IF p \in ToSet(order) THEN RemoveAt(order, at) ELSE order
<1>1. rest \in Seq(Endpoint) /\ IsInjective(rest) /\ ToSet(rest) = ToSet(order) \ {p}
  <2>1. CASE p \in ToSet(order)
    <3>1. at \in DOMAIN order /\ order[at] = p
      BY <2>1 DEF ToSet
    <3>2. DOMAIN order = 1..Len(order)
      BY LenProperties
    <3> HIDE DEF at
    <3>3. /\ RemoveAt(order, at) \in Seq(Endpoint) /\ IsInjective(RemoveAt(order, at))
          /\ ToSet(RemoveAt(order, at)) = ToSet(order) \ {order[at]}
      BY <3>1, <3>2, RemovedElement
    <3> QED BY <2>1, <3>1, <3>3
  <2>2. CASE p \notin ToSet(order)
    BY <2>2
  <2> QED BY <2>1, <2>2
<1>2. MovedToEnd(order, p) = Append(rest, p)
  BY DEF MovedToEnd
<1> HIDE DEF rest
<1>3. p \notin ToSet(rest) /\ ToSet(rest) \cup {p} = ToSet(order) \cup {p}
  BY <1>1
<1>4. /\ Append(rest, p) \in Seq(Endpoint) /\ IsInjective(Append(rest, p))
      /\ Len(Append(rest, p)) = Len(rest) + 1 /\ Append(rest, p)[Len(rest) + 1] = p
      /\ ToSet(Append(rest, p)) = ToSet(rest) \cup {p}
  BY <1>1, <1>3, AddedElement
<1>5. Append(rest, p) # <<>>
  BY <1>3, <1>4 DEF ToSet
<1> QED BY <1>2, <1>3, <1>4, <1>5

\* Filing a record leaves an index well formed and within its bounds, for every order in
\* which endpoints were written before.
LEMMA FiledWellFormed ==
    ASSUME ContextAssumption, NEW index \in Index, WellFormed(index),
           NEW p \in Endpoint, NEW r \in Record
    PROVE  Filed(index, p, r) \in Index /\ WellFormed(Filed(index, p, r))
<1> DEFINE keys == MovedToEnd(index.order, p)
           kept == LastOf(keys, MaxEndpoints)
           mine == LastOf(Append(index.records[p], r), MaxRecords)
           records == [q \in Endpoint |->
                        IF q \notin ToSet(kept) THEN <<>>
                        ELSE IF q = p THEN mine ELSE index.records[q]]
<1>1. /\ index.order \in Seq(Endpoint) /\ IsInjective(index.order)
      /\ index.records \in [Endpoint -> Seq(Record)]
      /\ MaxRecords \in Nat \ {0} /\ MaxEndpoints \in Nat \ {0}
      /\ \A q \in Endpoint :
            /\ (q \in ToSet(index.order)) <=> (index.records[q] # <<>>)
            /\ Len(index.records[q]) <= MaxRecords
  BY DEF Index, WellFormed, ContextAssumption
<1>2. /\ keys \in Seq(Endpoint) /\ IsInjective(keys) /\ keys # <<>>
      /\ keys[Len(keys)] = p /\ ToSet(keys) = ToSet(index.order) \cup {p}
  BY <1>1, MovedToEndProperties
<1> HIDE DEF keys
<1>3. /\ kept \in Seq(Endpoint) /\ IsInjective(kept) /\ Len(kept) <= MaxEndpoints
      /\ ToSet(kept) \subseteq ToSet(keys) /\ p \in ToSet(kept)
  BY <1>1, <1>2, LastOfProperties
<1> HIDE DEF kept
<1>4. mine \in Seq(Record) /\ Len(mine) <= MaxRecords /\ mine # <<>>
  <2>1. index.records[p] \in Seq(Record)
    BY <1>1
  <2>2. Append(index.records[p], r) \in Seq(Record) /\ Append(index.records[p], r) # <<>>
    BY <2>1, AppendProperties
  <2> QED BY <1>1, <2>2, LastOfProperties
<1> HIDE DEF mine
<1>5. <<>> \in Seq(Record) /\ Len(<<>>) <= MaxRecords
  BY <1>1, EmptySeq
<1>6. records \in [Endpoint -> Seq(Record)]
  BY <1>1, <1>4, <1>5
<1>7. ASSUME NEW q \in Endpoint
      PROVE  ((q \in ToSet(kept)) <=> (records[q] # <<>>)) /\ Len(records[q]) <= MaxRecords
  <2>1. CASE q \notin ToSet(kept)
    BY <1>5, <2>1
  <2>2. CASE q \in ToSet(kept) /\ q = p
    BY <1>4, <2>2
  <2>3. CASE q \in ToSet(kept) /\ q # p
    BY <1>1, <1>2, <1>3, <2>3
  <2> QED BY <2>1, <2>2, <2>3
<1>8. Filed(index, p, r) = [order |-> kept, records |-> records]
  BY DEF Filed, keys, kept, mine
<1> HIDE DEF records
<1> QED BY <1>3, <1>6, <1>7, <1>8 DEF Index, WellFormed

\* So does filing it under all of its endpoints, in any order.
LEMMA FiledUnderAllWellFormed ==
    ASSUME ContextAssumption, NEW index \in Index, WellFormed(index), NEW r \in Record,
           NEW x \in FiledUnderAll(index, r)
    PROVE  x \in Index /\ WellFormed(x)
<1>1. r.endpoints \subseteq Endpoint
  BY DEF ContextAssumption
<1>2. CASE r.endpoints = {}
  BY <1>2 DEF FiledUnderAll
<1>3. CASE r.endpoints # {}
  <2>1. PICK p \in r.endpoints :
            \/ x = Filed(index, p, r)
            \/ \E q \in r.endpoints : x = Filed(Filed(index, p, r), q, r)
    BY <1>3 DEF FiledUnderAll
  <2>2. Filed(index, p, r) \in Index /\ WellFormed(Filed(index, p, r))
    BY <1>1, FiledWellFormed
  <2>3. ASSUME NEW q \in r.endpoints, x = Filed(Filed(index, p, r), q, r)
        PROVE  x \in Index /\ WellFormed(x)
    BY <1>1, <2>2, <2>3, FiledWellFormed
  <2> QED BY <2>1, <2>2, <2>3
<1> QED BY <1>2, <1>3

-----------------------------------------------------------------------------
\* Finite sets of events.

\* The elements of a sequence are finitely many.
LEMMA ToSetFinite ==
    ASSUME NEW S, NEW s \in Seq(S)
    PROVE  IsFiniteSet(ToSet(s))
<1> DEFINE f == [i \in 1..Len(s) |-> s[i]]
<1>1. Len(s) \in Nat /\ DOMAIN s = 1..Len(s)
  BY LenProperties
<1>2. f \in [1..Len(s) -> ToSet(s)] /\ \A x \in ToSet(s) : \E i \in 1..Len(s) : f[i] = x
  BY <1>1 DEF ToSet
<1>3. f \in Surjection(1..Len(s), ToSet(s))
  BY <1>2, Fun_IsSurj
<1>4. IsFiniteSet(1..Len(s))
  BY <1>1, FS_Interval
<1> QED BY <1>3, <1>4, FS_Surjection

\* What an index holds around a candidate: finitely many records.
LEMMA AroundProperties ==
    ASSUME ContextAssumption, EnrichmentAssumption, NEW index \in Index, NEW c \in Candidate,
           NEW delta
    PROVE  /\ IsFiniteSet(Around(index, c, delta))
           /\ \A e \in Around(index, c, delta) : e.observed_at \in Int
<1> DEFINE held == [q \in c.endpoints |-> ToSet(index.records[q])]
           sets == {ToSet(index.records[q]) : q \in c.endpoints}
<1>1. c.endpoints \subseteq Endpoint /\ IsFiniteSet(c.endpoints)
  BY DEF EnrichmentAssumption
<1>2. \A q \in c.endpoints : index.records[q] \in Seq(Record)
  BY <1>1 DEF Index
<1>3. held \in [c.endpoints -> sets] /\ \A t \in sets : \E q \in c.endpoints : held[q] = t
  OBVIOUS
<1>4. held \in Surjection(c.endpoints, sets)
  BY <1>3, Fun_IsSurj
<1>5. IsFiniteSet(sets)
  BY <1>1, <1>4, FS_Surjection
<1>6. \A t \in sets : IsFiniteSet(t) /\ t \subseteq Record
  <2>1. \A q \in c.endpoints : IsFiniteSet(ToSet(index.records[q]))
                                /\ ToSet(index.records[q]) \subseteq Record
    BY <1>2, ToSetFinite, ToSetType
  <2> QED BY <2>1
<1>7. Around(index, c, delta) \subseteq UNION sets
  BY DEF Around, Find
<1> HIDE DEF sets
<1>8. IsFiniteSet(UNION sets) /\ UNION sets \subseteq Record
  BY <1>5, <1>6, FS_UNION
<1>9. IsFiniteSet(Around(index, c, delta))
  BY <1>7, <1>8, FS_Subset
<1> QED BY <1>7, <1>8, <1>9 DEF ContextAssumption

\* The events of some documents of the store: finitely many.
LEMMA EventsProperties ==
    ASSUME EnrichmentAssumption, NEW D \in SUBSET Document
    PROVE  LET events == {d.event : d \in D}
           IN  IsFiniteSet(events) /\ \A e \in events : e.observed_at \in Int
<1> DEFINE events == {d.event : d \in D}
           f == [d \in D |-> d.event]
<1>1. IsFiniteSet(D)
  BY FS_Subset DEF EnrichmentAssumption
<1>2. f \in [D -> events] /\ \A e \in events : \E d \in D : f[d] = e
  OBVIOUS
<1>3. f \in Surjection(D, events)
  BY <1>2, Fun_IsSurj
<1>4. IsFiniteSet(events)
  BY <1>1, <1>3, FS_Surjection
<1> QED BY <1>4 DEF EnrichmentAssumption

-----------------------------------------------------------------------------
\* What the limits leave out.

\* As many other events of S as fit are at least as new as e.
Outranked(e, S, limit) ==
    Cardinality({x \in S \ {e} : x.observed_at >= e.observed_at}) >= limit

\* An event outranked in a set is outranked in a larger one.
LEMMA OutrankedGrows ==
    ASSUME NEW S, NEW T, IsFiniteSet(T), S \subseteq T, NEW limit \in Nat,
           NEW e, Outranked(e, S, limit)
    PROVE  Outranked(e, T, limit)
<1> DEFINE A == {x \in S \ {e} : x.observed_at >= e.observed_at}
           B == {x \in T \ {e} : x.observed_at >= e.observed_at}
<1>1. A \subseteq B /\ B \subseteq T
  OBVIOUS
<1>2. Cardinality(A) >= limit
  BY DEF Outranked
<1>3. Outranked(e, T, limit) <=> Cardinality(B) >= limit
  BY DEF Outranked
<1> HIDE DEF A, B
<1>4. IsFiniteSet(B)
  BY <1>1, FS_Subset
<1>5. IsFiniteSet(A) /\ Cardinality(A) <= Cardinality(B)
  BY <1>1, <1>4, FS_Subset
<1>6. Cardinality(A) \in Nat /\ Cardinality(B) \in Nat
  BY <1>4, <1>5, FS_CardinalityType
<1> QED BY <1>2, <1>3, <1>5, <1>6

\* Newest picks events, no more than the limit, and leaves out only those outranked.
LEMMA NewestProperties ==
    ASSUME NEW S, IsFiniteSet(S), \A e \in S : e.observed_at \in Int, NEW limit \in Nat,
           NEW chosen \in Newest(S, limit)
    PROVE  /\ chosen \subseteq S /\ IsFiniteSet(chosen) /\ Cardinality(chosen) <= limit
           /\ \A e \in S \ chosen : Outranked(e, S, limit)
<1> DEFINE n == IF Cardinality(S) < limit THEN Cardinality(S) ELSE limit
<1>1. /\ chosen \subseteq S /\ Cardinality(chosen) = n
      /\ \A r \in chosen, q \in S \ chosen : q.observed_at <= r.observed_at
  BY DEF Newest, kSubset
<1>2. Cardinality(S) \in Nat
  BY FS_CardinalityType
<1>3. IsFiniteSet(chosen)
  BY <1>1, FS_Subset
<1>4. n \in Nat /\ n <= limit
  BY <1>2
<1>5. ASSUME NEW e \in S \ chosen PROVE Outranked(e, S, limit)
  <2>1. n = limit
    <3>1. SUFFICES ASSUME Cardinality(S) < limit PROVE FALSE
      BY <1>2
    <3>2. Cardinality(chosen) = Cardinality(S)
      BY <1>1, <3>1
    <3>3. chosen = S
      BY <1>1, <3>2, FS_Subset
    <3> QED BY <3>3
  <2> DEFINE A == {x \in S \ {e} : x.observed_at >= e.observed_at}
  <2>2. chosen \subseteq A /\ A \subseteq S
    BY <1>1
  <2>3. Outranked(e, S, limit) <=> Cardinality(A) >= limit
    BY DEF Outranked
  <2> HIDE DEF A
  <2>4. IsFiniteSet(A)
    BY <2>2, FS_Subset
  <2>5. Cardinality(chosen) <= Cardinality(A) /\ Cardinality(A) \in Nat
    BY <2>2, <2>4, FS_Subset, FS_CardinalityType
  <2> HIDE DEF n
  <2> QED BY <1>1, <1>4, <2>1, <2>3, <2>5
<1> HIDE DEF n
<1> QED BY <1>1, <1>3, <1>4, <1>5

\* Complete in terms of Outranked.
LEMMA CompleteMeans ==
    ASSUME NEW evidence, NEW known, NEW matches,
           evidence \subseteq known, Cardinality(evidence) <= MaxMatches,
           \A e \in known \ evidence : Outranked(e, matches, MaxMatches)
    PROVE  Complete(evidence, known, matches)
BY DEF Complete, Outranked

\* The merge of the limited local events with the limited remote ones, limited again:
\* what it lacks of the local events is outranked by local and remote ones together.
LEMMA MergeComplete ==
    ASSUME EnrichmentAssumption,
           NEW all, IsFiniteSet(all), \A e \in all : e.observed_at \in Int,
           NEW hits, IsFiniteSet(hits), \A e \in hits : e.observed_at \in Int,
           NEW known \in SUBSET hits, NEW remote \in SUBSET known,
           \A e \in known \ remote : Outranked(e, hits, MaxMatches),
           NEW local \in Newest(all, MaxMatches),
           NEW logins \in Newest(local \cup remote, MaxMatches)
    PROVE  IsFiniteSet(logins) /\ Complete(logins, all \cup known, all \cup hits)
<1>1. MaxMatches \in Nat
  BY DEF EnrichmentAssumption
<1>2. /\ local \subseteq all /\ IsFiniteSet(local)
      /\ \A e \in all \ local : Outranked(e, all, MaxMatches)
  BY <1>1, NewestProperties
<1>3. IsFiniteSet(remote) /\ IsFiniteSet(local \cup remote) /\ IsFiniteSet(all \cup hits)
  BY <1>2, FS_Subset, FS_Union
<1>4. \A e \in local \cup remote : e.observed_at \in Int
  BY <1>2
<1>5. /\ logins \subseteq local \cup remote /\ IsFiniteSet(logins)
      /\ Cardinality(logins) <= MaxMatches
      /\ \A e \in (local \cup remote) \ logins : Outranked(e, local \cup remote, MaxMatches)
  BY <1>1, <1>3, <1>4, NewestProperties
<1>6. ASSUME NEW e \in (all \cup known) \ logins
      PROVE  Outranked(e, all \cup hits, MaxMatches)
  <2>1. CASE e \in local \cup remote
    <3>1. Outranked(e, local \cup remote, MaxMatches)
      BY <1>5, <2>1
    <3>2. local \cup remote \subseteq all \cup hits
      BY <1>2
    <3> QED BY <1>1, <1>3, <3>1, <3>2, OutrankedGrows
  <2>2. CASE e \in all \ local
    <3>1. Outranked(e, all, MaxMatches)
      BY <1>2, <2>2
    <3> QED BY <1>1, <1>3, <3>1, OutrankedGrows
  <2>3. CASE e \in known \ remote
    <3>1. Outranked(e, hits, MaxMatches)
      BY <2>3
    <3> QED BY <1>1, <1>3, <3>1, OutrankedGrows
  <2> QED BY <2>1, <2>2, <2>3
<1>7. logins \subseteq all \cup known
  BY <1>2, <1>5
<1> QED BY <1>5, <1>6, <1>7, CompleteMeans

-----------------------------------------------------------------------------
\* One candidate.

\* The answer of the lookup lacks only outranked hits that parse.
LEMMA SearchProperties ==
    ASSUME EnrichmentAssumption, stored \subseteq Document, NEW c \in Candidate,
           NEW remote \in Search(c)
    PROVE  LET hits == {d.event : d \in Hits(c)}
               parsed == {d.event : d \in {x \in Hits(c) : x.parses}}
           IN  /\ IsFiniteSet(hits) /\ \A e \in hits : e.observed_at \in Int
               /\ parsed \subseteq hits /\ remote \subseteq parsed
               /\ \A e \in parsed \ remote : Outranked(e, hits, MaxMatches)
<1> DEFINE hits == {d.event : d \in Hits(c)}
           parsed == {d.event : d \in {x \in Hits(c) : x.parses}}
<1>1. Hits(c) \in SUBSET Document /\ MaxMatches \in Nat
  BY DEF Hits, EnrichmentAssumption
<1>2. IsFiniteSet(hits) /\ \A e \in hits : e.observed_at \in Int
  BY <1>1, EventsProperties
<1>3. PICK newest \in Newest(hits, MaxMatches) :
        remote = {d.event : d \in {x \in Hits(c) : x.parses /\ x.event \in newest}}
  BY DEF Search
<1>4. \A e \in parsed \ remote : e \in hits \ newest
  BY <1>3
<1>5. parsed \subseteq hits /\ remote \subseteq parsed
  BY <1>3
<1> HIDE DEF hits
<1>6. \A e \in hits \ newest : Outranked(e, hits, MaxMatches)
  BY <1>1, <1>2, NewestProperties
<1> QED BY <1>2, <1>4, <1>5, <1>6 DEF hits

\* No evidence is empty exactly when its count is 0.
LEMMA FailuresCount ==
    ASSUME NEW S, IsFiniteSet(S)
    PROVE  Failures(S) > 0 <=> \E e \in S : e.grave
<1> DEFINE G == {e \in S : e.grave}
<1>1. IsFiniteSet(G)
  BY FS_Subset
<1>2. Failures(S) = Cardinality(G)
  BY DEF Failures
<1>3. G # {} <=> \E e \in S : e.grave
  OBVIOUS
<1> HIDE DEF G
<1>4. Cardinality(G) \in Nat /\ (Cardinality(G) = 0 <=> G = {})
  BY <1>1, FS_CardinalityType, FS_EmptySet
<1> QED BY <1>2, <1>3, <1>4

\* A grave event that fits is part of evidence that is complete.
LEMMA GraveShown ==
    ASSUME NEW evidence, NEW known, NEW matches, MaxMatches \in Nat, IsFiniteSet(matches),
           Complete(evidence, known, matches), GraveFits(known, matches)
    PROVE  \E e \in evidence : e.grave
<1>1. PICK e \in known :
        /\ e.grave
        /\ Cardinality({x \in matches \ {e} : x.observed_at >= e.observed_at}) < MaxMatches
  BY DEF GraveFits
<1> DEFINE A == {x \in matches \ {e} : x.observed_at >= e.observed_at}
<1>2. IsFiniteSet(A)
  BY FS_Subset
<1>3. Cardinality(A) \in Nat
  BY <1>2, FS_CardinalityType
<1>4. e \notin known \ evidence
  <2>1. SUFFICES ASSUME e \in known \ evidence PROVE FALSE
    OBVIOUS
  <2>2. Cardinality(A) >= MaxMatches
    BY <2>1 DEF Complete
  <2>3. Cardinality(A) < MaxMatches
    BY <1>1
  <2> HIDE DEF A
  <2> QED BY <1>3, <2>2, <2>3
<1> QED BY <1>1, <1>4

\* The confidence and the severity of an alert, from the evidence it shows and from what
\* is due to it.
LEMMA EnrichedJustified ==
    ASSUME EnrichmentAssumption, NEW c \in Candidate,
           NEW alerts, NEW logins, IsFiniteSet(logins),
           NEW failure_due \in BOOLEAN, failure_due => \E e \in logins : e.grave,
           NEW alert_due \in BOOLEAN, alert_due => \E e \in alerts : e.grave
    PROVE  LET a == Enriched(c, alerts, logins)
               failed == \E e \in logins : e.grave
               grave == \E e \in alerts : e.grave
               levels_due == (IF failure_due /\ SeverityBoost THEN 1 ELSE 0)
                                + (IF alert_due THEN 1 ELSE 0)
           IN  /\ a.severity \in Lesser(c.severity + levels_due, Critical)..Critical
               /\ a.confidence \in c.confidence..100
               /\ failure_due => a.confidence >= Lesser(c.confidence + FailureBoost, 100)
               /\ a.severity > c.severity => failed \/ grave
               /\ a.severity > c.severity + 1 => failed /\ grave
               /\ a.confidence > c.confidence + 5 => failed
               /\ a.confidence > c.confidence + FailureBoost => alerts # {}
<1> DEFINE a == Enriched(c, alerts, logins)
           failed == \E e \in logins : e.grave
           grave == \E e \in alerts : e.grave
           levels_due == (IF failure_due /\ SeverityBoost THEN 1 ELSE 0)
                            + (IF alert_due THEN 1 ELSE 0)
           boost == (IF failed THEN FailureBoost ELSE 0) + (IF alerts # {} THEN 5 ELSE 0)
           first == Raised(c.severity, failed /\ SeverityBoost)
<1>1. /\ c.confidence \in 0..100 /\ c.severity \in 1..4
      /\ FailureBoost \in 0..50 /\ SeverityBoost \in BOOLEAN
  BY DEF EnrichmentAssumption, Critical
<1>2. Failures(logins) > 0 <=> failed
  BY FailuresCount
<1>3. /\ a.confidence = Lesser(c.confidence + boost, 100)
      /\ a.severity = Raised(first, grave)
  <2>1. CASE failed
    BY <1>2, <2>1 DEF Enriched, Raised
  <2>2. CASE ~ failed
    BY <1>2, <2>2 DEF Enriched, Raised
  <2> QED BY <2>1, <2>2
<1>4. grave => alerts # {}
  OBVIOUS
<1>5. failed \in BOOLEAN /\ grave \in BOOLEAN
  OBVIOUS
<1>6. (failure_due => failed) /\ (alert_due => grave)
  OBVIOUS
<1> DEFINE shown == alerts # {}
<1>7. shown \in BOOLEAN
  OBVIOUS
<1> HIDE DEF a, failed, grave, shown
<1>8. /\ a.confidence \in c.confidence..100
      /\ failure_due => a.confidence >= Lesser(c.confidence + FailureBoost, 100)
      /\ a.confidence > c.confidence + 5 => failed
      /\ a.confidence > c.confidence + FailureBoost => shown
  <2>1. /\ failed /\ shown => boost = FailureBoost + 5
        /\ failed /\ ~ shown => boost = FailureBoost
        /\ ~ failed /\ shown => boost = 5
        /\ ~ failed /\ ~ shown => boost = 0
    BY <1>1 DEF shown
  <2>2. boost \in Nat
    BY <1>1, <2>1
  <2> HIDE DEF boost
  <2>3. PICK n \in Nat : n = boost
    BY <2>2
  <2>4. /\ a.confidence = IF c.confidence + n < 100 THEN c.confidence + n ELSE 100
        /\ a.confidence \in Int
    BY <1>1, <1>3, <2>3 DEF Lesser
  <2>5. a.confidence \in c.confidence..100
    BY <1>1, <2>4
  <2>6. failed => a.confidence >= Lesser(c.confidence + FailureBoost, 100)
    BY <1>1, <2>1, <2>3, <2>4 DEF Lesser
  <2>7. /\ ~ failed => a.confidence <= c.confidence + 5
        /\ ~ shown => a.confidence <= c.confidence + FailureBoost
    BY <1>1, <2>1, <2>3, <2>4, SMTT(30)
  <2> QED BY <1>1, <1>6, <2>4, <2>5, <2>6, <2>7, SMTT(30)
<1>9. /\ a.severity \in Lesser(c.severity + levels_due, Critical)..Critical
      /\ a.severity > c.severity => failed \/ grave
      /\ a.severity > c.severity + 1 => failed /\ grave
  BY <1>1, <1>3, <1>5, <1>6 DEF Lesser, Raised, IncreaseSeverity, Critical
<1> QED BY <1>8, <1>9 DEF a, failed, grave, shown

\* An alert made from the answer of the lookup, or without it.
LEMMA EnrichInv ==
    ASSUME ContextAssumption, EnrichmentAssumption, EnrichmentInv, NEW c \in Candidate,
           NEW known, NEW remote,
           known \subseteq {d.event : d \in Hits(c)}, remote \subseteq known,
           \A e \in known \ remote : Outranked(e, {d.event : d \in Hits(c)}, MaxMatches),
           known = {d.event : d \in {x \in Hits(c) : x.parses}}
                \/ (known = {} /\ auth_lookup_errors' > 0),
           Enrich(c, remote), UNCHANGED <<suricata, authentication, stored>>,
           auth_lookup_errors' \in Nat
    PROVE  EnrichmentInv'
<1> DEFINE hits == {d.event : d \in Hits(c)}
           near == Around(suricata, c, ContextDelta)
           around == Around(authentication, c, AuthDelta)
<1>1. /\ suricata \in Index /\ authentication \in Index /\ stored \subseteq Document
      /\ MaxMatches \in Nat
  BY DEF EnrichmentInv, EnrichmentAssumption
<1>2. /\ IsFiniteSet(near) /\ \A e \in near : e.observed_at \in Int
      /\ IsFiniteSet(around) /\ \A e \in around : e.observed_at \in Int
  BY <1>1, AroundProperties
<1>3. IsFiniteSet(hits) /\ \A e \in hits : e.observed_at \in Int
  <2>1. Hits(c) \in SUBSET Document
    BY <1>1 DEF Hits
  <2> QED BY <2>1, EventsProperties
<1>4. PICK alerts \in Newest(near, MaxMatches), local \in Newest(around, MaxMatches) :
        \E logins \in Newest(local \cup remote, MaxMatches) :
            alert' = {Enriched(c, alerts, logins)}
  BY DEF Enrich
<1>5. PICK logins \in Newest(local \cup remote, MaxMatches) :
        alert' = {Enriched(c, alerts, logins)}
  BY <1>4
<1>6. Hits(c)' = Hits(c) /\ near' = near /\ around' = around
  BY DEF Hits, Around
<1>7. hits' = hits
  BY <1>6
<1> HIDE DEF hits, near, around
<1>8. Complete(alerts, near, near)
  <2>1. /\ alerts \subseteq near /\ Cardinality(alerts) <= MaxMatches
        /\ \A e \in near \ alerts : Outranked(e, near, MaxMatches)
    BY <1>1, <1>2, NewestProperties
  <2> QED BY <2>1, CompleteMeans
<1>9. IsFiniteSet(logins) /\ Complete(logins, around \cup known, around \cup hits)
  BY <1>2, <1>3, MergeComplete DEF hits
<1>10. known = {} => Complete(logins, around, around)
  <2>1. SUFFICES ASSUME known = {} PROVE Complete(logins, around, around)
    OBVIOUS
  <2>2. remote \subseteq {} /\ logins \in Newest(local \cup remote, MaxMatches)
    BY <2>1
  <2>3. IsFiniteSet({})
    BY FS_EmptySet
  <2>4. Complete(logins, around \cup {}, around \cup {})
    <3>1. /\ {} \in SUBSET {} /\ remote \in SUBSET {}
          /\ \A e \in {} \ remote : Outranked(e, {}, MaxMatches)
          /\ \A e \in {} : e.observed_at \in Int
      BY <2>2
    <3> QED BY <1>2, <2>2, <2>3, <3>1, MergeComplete
  <2>5. around \cup {} = around
    OBVIOUS
  <2> QED BY <2>4, <2>5
<1> DEFINE a == Enriched(c, alerts, logins)
           failure_due == GraveFits(around, around \cup hits)
           alert_due == GraveFits(near, near)
<1>11. failure_due => \E e \in logins : e.grave
  <2>1. SUFFICES ASSUME failure_due PROVE \E e \in logins : e.grave
    OBVIOUS
  <2>2. GraveFits(around \cup known, around \cup hits)
    BY <2>1 DEF GraveFits
  <2>3. IsFiniteSet(around \cup hits)
    BY <1>2, <1>3, FS_Union
  <2> QED BY <1>1, <1>9, <2>2, <2>3, GraveShown
<1>12. alert_due => \E e \in alerts : e.grave
  BY <1>1, <1>2, <1>8, GraveShown
<1>13. failure_due \in BOOLEAN /\ alert_due \in BOOLEAN
  BY DEF GraveFits
<1>14. a.candidate = c /\ a.suricata = alerts /\ a.authentication = logins
  BY DEF Enriched
<1>15. EvidenceComplete'
  <2>1. /\ Complete(a.suricata, near, near)
        /\ \/ Complete(a.authentication, around \cup {d.event : d \in {x \in Hits(c) : x.parses}},
                       around \cup hits)
           \/ auth_lookup_errors' > 0 /\ Complete(a.authentication, around, around)
    BY <1>8, <1>9, <1>10, <1>14
  <2>2. alert' = {a}
    BY <1>5
  <2> HIDE DEF a
  <2>3. SUFFICES ASSUME NEW b \in alert'
                 PROVE  LET alerts_ == Around(suricata, b.candidate, ContextDelta)
                            local_ == Around(authentication, b.candidate, AuthDelta)
                            hits_ == {d.event : d \in Hits(b.candidate)}
                            parsed_ == {d.event : d \in {x \in Hits(b.candidate) : x.parses}}
                        IN  /\ Complete(b.suricata, alerts_, alerts_)
                            /\ \/ Complete(b.authentication, local_ \cup parsed_,
                                           local_ \cup hits_)
                               \/ auth_lookup_errors' > 0
                                    /\ Complete(b.authentication, local_, local_)
    BY DEF EvidenceComplete, Hits
  <2>4. b = a /\ b.candidate = c
    BY <1>14, <2>2
  <2> QED BY <1>14, <2>1, <2>4 DEF hits, near, around
<1>16. BoostsJustified'
  <2> HIDE DEF failure_due, alert_due
  <2> DEFINE failed == \E e \in logins : e.grave
             grave == \E e \in alerts : e.grave
             levels_due == (IF failure_due /\ SeverityBoost THEN 1 ELSE 0)
                            + (IF alert_due THEN 1 ELSE 0)
  <2>1. /\ a.severity \in Lesser(c.severity + levels_due, Critical)..Critical
        /\ a.confidence \in c.confidence..100
        /\ failure_due => a.confidence >= Lesser(c.confidence + FailureBoost, 100)
        /\ a.severity > c.severity => failed \/ grave
        /\ a.severity > c.severity + 1 => failed /\ grave
        /\ a.confidence > c.confidence + 5 => failed
        /\ a.confidence > c.confidence + FailureBoost => alerts # {}
    BY <1>9, <1>11, <1>12, <1>13, EnrichedJustified
  <2>2. alert' = {a}
    BY <1>5
  <2> HIDE DEF a
  <2>3. SUFFICES ASSUME NEW b \in alert'
                 PROVE  LET c_ == b.candidate
                            failed_ == \E e \in b.authentication : e.grave
                            grave_ == \E e \in b.suricata : e.grave
                            alerts_ == Around(suricata, c_, ContextDelta)
                            local_ == Around(authentication, c_, AuthDelta)
                            due_ == GraveFits(local_, local_ \cup {d.event : d \in Hits(c_)})
                            levels_ == (IF due_ /\ SeverityBoost THEN 1 ELSE 0)
                                        + (IF GraveFits(alerts_, alerts_) THEN 1 ELSE 0)
                        IN  /\ b.severity \in Lesser(c_.severity + levels_, Critical)..Critical
                            /\ b.confidence \in c_.confidence..100
                            /\ due_ => b.confidence >= Lesser(c_.confidence + FailureBoost, 100)
                            /\ b.severity > c_.severity => failed_ \/ grave_
                            /\ b.severity > c_.severity + 1 => failed_ /\ grave_
                            /\ b.confidence > c_.confidence + 5 => failed_
                            /\ b.confidence > c_.confidence + FailureBoost => b.suricata # {}
    BY ZenonT(60) DEF BoostsJustified, Hits
  <2>4. b = a /\ b.candidate = c
    BY <1>14, <2>2
  <2> QED BY <1>14, <2>1, <2>4 DEF failure_due, alert_due, hits, near, around
<1>17. ContextBounded'
  BY DEF EnrichmentInv, ContextBounded, WellFormed
<1> QED BY <1>1, <1>15, <1>16, <1>17 DEF EnrichmentInv

-----------------------------------------------------------------------------
\* The specification.

\* An index without records is well formed.
LEMMA EmptyIndexWellFormed ==
    ASSUME ContextAssumption
    PROVE  EmptyIndex \in Index /\ WellFormed(EmptyIndex)
<1>1. MaxRecords \in Nat /\ MaxEndpoints \in Nat
  BY DEF ContextAssumption
<1>2. ToSet(<<>>) = {} /\ IsInjective(<<>>) /\ Len(<<>>) = 0
  BY DEF ToSet, IsInjective
<1> QED BY <1>1, <1>2 DEF EmptyIndex, Index, WellFormed

\* Filing a record withdraws the alert of the call before.
LEMMA FiledInv ==
    ASSUME ContextAssumption, EnrichmentInv, NEW r \in Record,
           \/ suricata' \in FiledUnderAll(suricata, r) /\ UNCHANGED authentication
           \/ authentication' \in FiledUnderAll(authentication, r) /\ UNCHANGED suricata,
           alert' = {}, UNCHANGED <<auth_lookup_errors, stored>>
    PROVE  EnrichmentInv'
<1>1. /\ suricata \in Index /\ WellFormed(suricata)
      /\ authentication \in Index /\ WellFormed(authentication)
  BY DEF EnrichmentInv, ContextBounded
<1>2. /\ suricata' \in Index /\ WellFormed(suricata')
      /\ authentication' \in Index /\ WellFormed(authentication')
  BY <1>1, FiledUnderAllWellFormed
<1>3. ContextBounded'
  BY <1>2 DEF ContextBounded, WellFormed
<1>4. EvidenceComplete' /\ BoostsJustified'
  BY DEF EvidenceComplete, BoostsJustified
<1> QED BY <1>2, <1>3, <1>4 DEF EnrichmentInv

\* Every reachable state satisfies the invariant.
THEOREM EnrichmentInvariant ==
    ASSUME ContextAssumption, EnrichmentAssumption
    PROVE  EnrichmentSpec => []EnrichmentInv
<1>1. EnrichmentInit => EnrichmentInv
  <2> SUFFICES ASSUME EnrichmentInit PROVE EnrichmentInv
    OBVIOUS
  <2>1. ContextBounded /\ suricata \in Index /\ authentication \in Index
    BY EmptyIndexWellFormed DEF EnrichmentInit, ContextInit, ContextBounded
  <2>2. EvidenceComplete /\ BoostsJustified
    BY DEF EnrichmentInit, EvidenceComplete, BoostsJustified
  <2> QED BY <2>1, <2>2 DEF EnrichmentInit, EnrichmentInv
<1>2. EnrichmentInv /\ [Process]_enrichmentVars => EnrichmentInv'
  <2> SUFFICES ASSUME EnrichmentInv, [Process]_enrichmentVars PROVE EnrichmentInv'
    OBVIOUS
  <2>1. ASSUME NEW r \in SuricataAlert, ProcessSuricata(r) PROVE EnrichmentInv'
    BY <2>1, FiledInv DEF ProcessSuricata, AddSuricata, Record
  <2>2. ASSUME NEW r \in EndpointAuthEvent, ProcessAuthentication(r) PROVE EnrichmentInv'
    BY <2>2, FiledInv DEF ProcessAuthentication, AddAuthentication, Record
  <2>3. ASSUME NEW c \in Candidate, ProcessCandidate(c) PROVE EnrichmentInv'
    <3>1. /\ UNCHANGED <<suricata, authentication, stored>>
          /\ auth_lookup_errors \in Nat /\ stored \subseteq Document
      BY <2>3 DEF ProcessCandidate, EnrichmentInv
    <3>2. CASE LookupAnswers(c)
      <4> DEFINE known == {d.event : d \in {x \in Hits(c) : x.parses}}
      <4>1. PICK remote \in Search(c) : Enrich(c, remote)
        BY <3>2 DEF LookupAnswers
      <4>2. auth_lookup_errors' = auth_lookup_errors
        BY <3>2 DEF LookupAnswers
      <4>3. /\ known \subseteq {d.event : d \in Hits(c)} /\ remote \subseteq known
            /\ \A e \in known \ remote :
                    Outranked(e, {d.event : d \in Hits(c)}, MaxMatches)
        BY <3>1, <4>1, SearchProperties
      <4> QED BY <3>1, <4>1, <4>2, <4>3, EnrichInv
    <3>3. CASE LookupFails(c)
      <4>1. Enrich(c, {}) /\ auth_lookup_errors' = auth_lookup_errors + 1
        BY <3>3 DEF LookupFails
      <4>2. auth_lookup_errors' \in Nat /\ auth_lookup_errors' > 0
        BY <3>1, <4>1
      <4> DEFINE none == {}
      <4>3. /\ none \subseteq {d.event : d \in Hits(c)} /\ none \subseteq none
            /\ \A e \in none \ none :
                    Outranked(e, {d.event : d \in Hits(c)}, MaxMatches)
            /\ none = {} /\ Enrich(c, none)
        BY <4>1
      <4> HIDE DEF none
      <4> QED BY <3>1, <4>2, <4>3, EnrichInv
    <3> QED BY <2>3, <3>2, <3>3 DEF ProcessCandidate
  <2>4. CASE UNCHANGED enrichmentVars
    <3>1. /\ suricata' = suricata /\ authentication' = authentication /\ alert' = alert
          /\ auth_lookup_errors' = auth_lookup_errors /\ stored' = stored
      BY <2>4 DEF enrichmentVars
    <3>2. ContextBounded'
      BY <3>1 DEF EnrichmentInv, ContextBounded, WellFormed
    <3>3. EvidenceComplete'
      BY <3>1 DEF EnrichmentInv, EvidenceComplete, Around, Hits
    <3>4. BoostsJustified'
      BY <3>1, ZenonT(60) DEF EnrichmentInv, BoostsJustified, Around, Hits
    <3> QED BY <3>1, <3>2, <3>3, <3>4 DEF EnrichmentInv
  <2> QED BY <2>1, <2>2, <2>3, <2>4 DEF Process
<1> QED BY <1>1, <1>2, PTL DEF EnrichmentSpec

\* Whatever flood of records arrives, in whatever order their endpoints are visited, an
\* index lists each endpoint once, exactly when it has records, within both bounds.
THEOREM IndexBounded ==
    ASSUME ContextAssumption, EnrichmentAssumption
    PROVE  EnrichmentSpec => []ContextBounded
<1>1. EnrichmentInv => ContextBounded
  BY DEF EnrichmentInv
<1> QED BY <1>1, EnrichmentInvariant, PTL

\* An alert lacks only evidence that as much other evidence outranks as fits, although
\* the local events are limited before they are merged with the remote ones.
THEOREM AlertsShowWhatFits ==
    ASSUME ContextAssumption, EnrichmentAssumption
    PROVE  EnrichmentSpec => []EvidenceComplete
<1>1. EnrichmentInv => EvidenceComplete
  BY DEF EnrichmentInv
<1> QED BY <1>1, EnrichmentInvariant, PTL

\* Confidence and severity stay on their scales and are raised as far as the evidence
\* that an alert shows accounts for, and at least as far as the evidence due to it.
THEOREM AlertsEarnTheirLevel ==
    ASSUME ContextAssumption, EnrichmentAssumption
    PROVE  EnrichmentSpec => []BoostsJustified
<1>1. EnrichmentInv => BoostsJustified
  BY DEF EnrichmentInv
<1> QED BY <1>1, EnrichmentInvariant, PTL

-----------------------------------------------------------------------------
\* What an index remembers of the log of what was filed.

\* u is the place where Between stops: the next filing after j, or the end of the log.
Stops(log, F, e, j, u) ==
    /\ u \in j..Len(log)
    /\ Between(log, F, e, j) = Written(log, j, u) \ {e}
    /\ (\A k \in F : k <= j) => u = Len(log)
    /\ ~ (\A k \in F : k <= j) => u \in F /\ u > j /\ \A k \in F : k > j => u <= k

\* There is such a place.
LEMMA BetweenMeans ==
    ASSUME NEW log, Len(log) \in Nat, NEW F \in SUBSET (1..Len(log)), NEW e, NEW j \in F
    PROVE  \E u : Stops(log, F, e, j, u)
<1> DEFINE later == {k \in F : k > j}
           until == IF later = {} THEN Len(log) ELSE Min(later)
<1>1. Len(log) \in Nat /\ j \in 1..Len(log) /\ later \in SUBSET Nat
  <2>1. Len(log) \in Nat
    OBVIOUS
  <2>2. j \in 1..Len(log)
    OBVIOUS
  <2>3. later \in SUBSET Nat
    <3>1. ASSUME NEW k \in F PROVE k \in Nat
      <4>1. k \in 1..Len(log)
        OBVIOUS
      <4> QED BY <2>1, <4>1
    <3> QED BY <3>1
  <2> HIDE DEF later
  <2> QED BY <2>1, <2>2, <2>3
<1>2. Between(log, F, e, j) = Written(log, j, until) \ {e}
  BY DEF Between
<1>3. CASE later = {}
  <2>1. \A k \in F : k <= j
    BY <1>1, <1>3
  <2>2. until = Len(log)
    BY <1>3
  <2>3. Len(log) \in j..Len(log)
    BY <1>1
  <2> HIDE DEF until
  <2> QED BY <1>2, <2>1, <2>2, <2>3 DEF Stops
<1>4. CASE later # {}
  <2>1. until \in later /\ \A y \in later : until <= y
    BY <1>1, <1>4, LeastNatural
  <2> HIDE DEF until
  <2>2. until \in j..Len(log) /\ until \in F /\ until > j /\ \A k \in F : k > j => until <= k
    BY <1>1, <2>1
  <2>3. ~ (\A k \in F : k <= j)
    BY <1>1, <2>2
  <2> QED BY <1>2, <2>2, <2>3 DEF Stops
<1> QED BY <1>3, <1>4

\* The endpoints in between are finitely many.
LEMMA BetweenFinite ==
    ASSUME ContextAssumption, NEW log \in Seq(Record), NEW F \in SUBSET (1..Len(log)),
           NEW e, NEW j \in F
    PROVE  IsFiniteSet(Between(log, F, e, j)) /\ Cardinality(Between(log, F, e, j)) \in Nat
<1>0. Len(log) \in Nat
  BY LenProperties
<1>1. PICK u : Stops(log, F, e, j, u)
  BY <1>0, BetweenMeans
<1>2. /\ j \in 1..Len(log) /\ u \in 1..Len(log)
      /\ Between(log, F, e, j) = Written(log, j, u) \ {e}
  BY <1>0, <1>1 DEF Stops
<1> DEFINE sets == {log[k].endpoints : k \in j..u}
<1>3. IsFiniteSet(sets)
  <2>1. IsFiniteSet(j..u)
    <3>1. j \in Int /\ u \in Int
      BY <1>0, <1>2
    <3> QED BY <3>1, FS_Interval
  <2> DEFINE f == [k \in j..u |-> log[k].endpoints]
  <2>2. f \in Surjection(j..u, sets)
    BY DEF Surjection
  <2> HIDE DEF f, sets
  <2> QED BY <2>1, <2>2, FS_Surjection
<1>4. \A s \in sets : IsFiniteSet(s)
  <2> SUFFICES ASSUME NEW k \in j..u PROVE IsFiniteSet(log[k].endpoints)
    OBVIOUS
  <2>1. k \in 1..Len(log)
    BY <1>0, <1>2
  <2>2. log[k] \in Record
    BY <2>1, ElementOfSeq
  <2> QED BY <2>2 DEF ContextAssumption
<1> HIDE DEF sets
<1>5. IsFiniteSet(UNION sets)
  BY <1>3, <1>4, FS_UNION
<1>6. IsFiniteSet((UNION sets) \ {e})
  BY <1>5, FS_Difference
<1> QED BY <1>2, <1>6, FS_CardinalityType DEF sets, Written

\* One more record in the log takes nothing away from what is in between.
LEMMA BetweenLogged ==
    ASSUME NEW S, NEW log \in Seq(S), NEW r \in S, NEW F \in SUBSET (1..Len(log)), NEW e,
           NEW j \in F
    PROVE  Between(log, F, e, j) \subseteq Between(Append(log, r), F, e, j)
<1> DEFINE more == Append(log, r)
<1>1. /\ Len(log) \in Nat /\ more \in Seq(S) /\ Len(more) = Len(log) + 1
      /\ \A k \in 1..Len(log) : more[k] = log[k]
  BY LenProperties, AppendProperties
<1> HIDE DEF more
<1>2. PICK u : Stops(log, F, e, j, u)
  BY <1>1, BetweenMeans
<1>3. F \in SUBSET (1..Len(more)) /\ Len(more) \in Nat
  BY <1>1
<1>4. PICK w : Stops(more, F, e, j, w)
  BY <1>3, BetweenMeans
<1>5. j \in 1..Len(log) /\ u \in j..Len(log) /\ w \in j..Len(more) /\ u \in Int /\ w \in Int
  BY <1>1, <1>2, <1>4 DEF Stops
<1>6. u <= w
  <2>1. CASE \A k \in F : k <= j
    <3>1. w = Len(more)
      BY <1>4, <2>1 DEF Stops
    <3> QED BY <1>1, <1>5, <3>1
  <2>2. CASE ~ (\A k \in F : k <= j)
    <3>1. w \in F /\ w > j
      BY <1>4, <2>2 DEF Stops
    <3> QED BY <1>2, <2>2, <3>1 DEF Stops
  <2> QED BY <2>1, <2>2
<1>7. \A k \in j..u : k \in j..w /\ more[k] = log[k]
  BY <1>1, <1>5, <1>6
<1>8. Between(log, F, e, j) \subseteq Between(more, F, e, j)
  <2>1. /\ Between(log, F, e, j) = Written(log, j, u) \ {e}
        /\ Between(more, F, e, j) = Written(more, j, w) \ {e}
    BY <1>2, <1>4 DEF Stops
  <2> QED BY <1>7, <2>1 DEF Written
<1> QED BY <1>8 DEF more

\* Nor does it when the last record of the log is filed under the endpoint.
LEMMA BetweenFiled ==
    ASSUME NEW S, NEW log \in Seq(S), NEW F \in SUBSET (1..Len(log)), Len(log) > 0,
           Len(log) \notin F, NEW e, NEW j \in F
    PROVE  Between(log, F \cup {Len(log)}, e, j) = Between(log, F, e, j)
<1> DEFINE G == F \cup {Len(log)}
<1>1. Len(log) \in Nat /\ j \in 1..Len(log) /\ G \in SUBSET (1..Len(log)) /\ j \in G
  <2>1. Len(log) \in Nat
    BY LenProperties
  <2>2. j \in 1..Len(log) /\ j \in G
    OBVIOUS
  <2>3. G \in SUBSET (1..Len(log))
    <3>1. Len(log) \in 1..Len(log)
      BY <2>1
    <3> QED BY <3>1
  <2> HIDE DEF G
  <2> QED BY <2>1, <2>2, <2>3
<1>2. PICK u : Stops(log, F, e, j, u)
  BY <1>1, BetweenMeans
<1>3. PICK w : Stops(log, G, e, j, w)
  <2> HIDE DEF G
  <2> QED BY <1>1, BetweenMeans
<1>4. u \in Int /\ w \in Int /\ u <= Len(log) /\ w <= Len(log) /\ j < Len(log)
  <2>1. u \in j..Len(log) /\ w \in j..Len(log)
    BY <1>2, <1>3 DEF Stops
  <2> QED BY <1>1, <2>1
<1>5. ~ (\A k \in G : k <= j)
  BY <1>4
<1>6. w \in G /\ w > j /\ \A k \in G : k > j => w <= k
  <2> HIDE DEF G
  <2> QED BY <1>3, <1>5 DEF Stops
<1>7. u = w
  <2>1. CASE \A k \in F : k <= j
    <3>1. u = Len(log) /\ w \notin F
      BY <1>2, <1>4, <1>6, <2>1 DEF Stops
    <3> QED BY <1>6, <3>1
  <2>2. CASE ~ (\A k \in F : k <= j)
    <3>1. u \in F /\ u > j /\ \A k \in F : k > j => u <= k
      BY <1>2, <2>2 DEF Stops
    <3>2. w <= u
      BY <1>6, <3>1
    <3>3. u <= w
      BY <1>4, <1>6, <3>1
    <3> QED BY <1>4, <3>2, <3>3
  <2> QED BY <2>1, <2>2
<1> HIDE DEF G
<1>8. Between(log, G, e, j) = Between(log, F, e, j)
  BY <1>2, <1>3, <1>7 DEF Stops
<1> QED BY <1>8 DEF G

\* What was filed under e lies at these places of the log.  The deque has those after some
\* place n, and if it lacks any then either it is full, or the endpoint was evicted after
\* the last one it lacks, because of the endpoints written since.
Retains(deque, log, e, filings) ==
    \E n \in 0..Len(log) :
        /\ Lists(deque, log, After(filings, n))
        /\ \/ \A i \in filings : i > n
           \/ Len(deque) = MaxRecords
           \/ \E j \in filings :
                /\ j <= n /\ \A i \in filings : i > j => i > n
                /\ Cardinality(Between(log, filings, e, j)) >= MaxEndpoints

\* What stands behind e in the order was written since the last filing under e.
Follows(order, log, e, filings) ==
    \A j \in filings : (\A i \in filings : i <= j) =>
        \A a, b \in 1..Len(order) :
            a < b /\ order[a] = e => order[b] \in Between(log, filings, e, j)

Remembers(index, log, e, filings) ==
    /\ Retains(index.records[e], log, e, filings)
    /\ Follows(index.order, log, e, filings)

\* A record that was logged but is not filed yet changes nothing of it.
LEMMA LoggedRemembers ==
    ASSUME ContextAssumption, NEW index, NEW log \in Seq(Record), NEW r \in Record,
           NEW e, NEW F \in SUBSET (1..Len(log)), Remembers(index, log, e, F)
    PROVE  Remembers(index, Append(log, r), e, F)
<1> DEFINE more == Append(log, r)
<1>1. /\ Len(log) \in Nat /\ more \in Seq(Record) /\ Len(more) = Len(log) + 1
      /\ \A k \in 1..Len(log) : more[k] = log[k]
  BY LenProperties, AppendProperties
<1>2. \A j \in F : Between(log, F, e, j) \subseteq Between(more, F, e, j)
  BY BetweenLogged
<1> HIDE DEF more
<1>3. F \in SUBSET (1..Len(more))
  BY <1>1
<1>4. ASSUME NEW j \in F, Cardinality(Between(log, F, e, j)) >= MaxEndpoints
      PROVE  Cardinality(Between(more, F, e, j)) >= MaxEndpoints
  <2>1. /\ IsFiniteSet(Between(more, F, e, j)) /\ Cardinality(Between(more, F, e, j)) \in Nat
        /\ Cardinality(Between(log, F, e, j)) \in Nat
    BY <1>1, <1>3, BetweenFinite
  <2>2. Cardinality(Between(log, F, e, j)) <= Cardinality(Between(more, F, e, j))
    BY <1>2, <2>1, FS_Subset
  <2>3. MaxEndpoints \in Nat
    BY DEF ContextAssumption
  <2> QED BY <1>4, <2>1, <2>2, <2>3
<1> DEFINE deque == index.records[e]
<1>5. PICK n \in 0..Len(log) :
        /\ Lists(deque, log, After(F, n))
        /\ \/ \A i \in F : i > n
           \/ Len(deque) = MaxRecords
           \/ \E j \in F :
                /\ j <= n /\ \A i \in F : i > j => i > n
                /\ Cardinality(Between(log, F, e, j)) >= MaxEndpoints
  BY DEF Remembers, Retains
<1> HIDE DEF deque
<1>6. n \in 0..Len(more)
  BY <1>1
<1>7. Lists(deque, more, After(F, n))
  <2>1. PICK f \in Matchings(DOMAIN deque, After(F, n)) :
            \A j \in DOMAIN deque : deque[j] = log[f[j]]
    BY <1>5 DEF Lists
  <2>2. \A j \in DOMAIN deque : f[j] \in F
    BY <2>1 DEF Matchings, After
  <2>3. \A j \in DOMAIN deque : deque[j] = more[f[j]]
    BY <1>1, <2>1, <2>2
  <2> QED BY <2>1, <2>3 DEF Lists
<1>8. Retains(deque, more, e, F)
  BY <1>4, <1>5, <1>6, <1>7 DEF Retains
<1>9. Follows(index.order, more, e, F)
  BY <1>2 DEF Remembers, Follows
<1> QED BY <1>8, <1>9 DEF Remembers, more, deque

\* What is behind an endpoint after another one, p, was moved to the end is p, or was
\* behind it before.
Behind(order, p, keys) ==
    \A a, b \in 1..Len(keys) :
        a < b /\ keys[a] # p =>
            \/ keys[b] = p
            \/ \E c, d \in 1..Len(order) :
                 c < d /\ order[c] = keys[a] /\ order[d] = keys[b]

\* Moving p to the end has this effect.
LEMMA MovedBehind ==
    ASSUME NEW order \in Seq(Endpoint), IsInjective(order), NEW p \in Endpoint,
           NEW keys, keys = MovedToEnd(order, p)
    PROVE  Behind(order, p, keys)
<1> SUFFICES ASSUME NEW a \in 1..Len(keys), NEW b \in 1..Len(keys), a < b, keys[a] # p
             PROVE  \/ keys[b] = p
                    \/ \E c, d \in 1..Len(order) :
                         c < d /\ order[c] = keys[a] /\ order[d] = keys[b]
  BY DEF Behind
<1> DEFINE at == CHOOSE i \in DOMAIN order : order[i] = p
           rest == IF p \in ToSet(order) THEN RemoveAt(order, at) ELSE order
<1>1. Len(order) \in Nat /\ DOMAIN order = 1..Len(order)
  BY LenProperties
<1>2. /\ rest \in Seq(Endpoint)
      /\ \A i, j \in 1..Len(rest) : i < j =>
            \E c, d \in 1..Len(order) : c < d /\ order[c] = rest[i] /\ order[d] = rest[j]
  <2>1. CASE p \in ToSet(order)
    <3>1. at \in 1..Len(order)
      BY <1>1, <2>1 DEF ToSet
    <3> HIDE DEF at
    <3>2. /\ RemoveAt(order, at) \in Seq(Endpoint)
          /\ Len(RemoveAt(order, at)) = Len(order) - 1
          /\ \A i \in 1..(Len(order) - 1) :
                RemoveAt(order, at)[i] = IF i < at THEN order[i] ELSE order[i + 1]
      BY <3>1, RemovedElement
    <3>3. rest = RemoveAt(order, at)
      BY <2>1
    <3> HIDE DEF rest
    <3>4. ASSUME NEW i \in 1..Len(rest), NEW j \in 1..Len(rest), i < j
          PROVE  \E c, d \in 1..Len(order) : c < d /\ order[c] = rest[i] /\ order[d] = rest[j]
      <4> DEFINE c == IF i < at THEN i ELSE i + 1
                 d == IF j < at THEN j ELSE j + 1
      <4>1. i \in 1..(Len(order) - 1) /\ j \in 1..(Len(order) - 1)
        BY <3>2, <3>3
      <4>2. c \in 1..Len(order) /\ d \in 1..Len(order) /\ c < d
        BY <1>1, <3>1, <3>4, <4>1
      <4>3. order[c] = rest[i] /\ order[d] = rest[j]
        BY <3>2, <3>3, <4>1
      <4> QED BY <4>2, <4>3
    <3> QED BY <3>2, <3>3, <3>4
  <2>2. CASE p \notin ToSet(order)
    BY <2>2
  <2> QED BY <2>1, <2>2
<1>3. keys = Append(rest, p)
  BY DEF MovedToEnd
<1> HIDE DEF rest
<1>4. /\ Len(rest) \in Nat /\ Len(keys) = Len(rest) + 1 /\ keys[Len(rest) + 1] = p
      /\ \A i \in 1..Len(rest) : keys[i] = rest[i]
  BY <1>2, <1>3, AppendProperties, LenProperties
<1>5. a \in 1..(Len(rest) + 1) /\ b \in 1..(Len(rest) + 1) /\ a < b
  BY <1>4
<1>6. CASE b = Len(rest) + 1
  BY <1>4, <1>6
<1>7. CASE b # Len(rest) + 1
  <2>1. a \in 1..Len(rest) /\ b \in 1..Len(rest)
    BY <1>4, <1>5, <1>7
  <2> QED BY <1>2, <1>4, <1>5, <2>1
<1> QED BY <1>6, <1>7

\* What filing a record under p makes of the order: p last (keys), and the first m gone
\* if there are too many; and of the deques: those of the keys gone are emptied.
Shape(index, p, r, keys, m, after) ==
    /\ keys \in Seq(Endpoint) /\ IsInjective(keys) /\ Len(keys) \in Nat \ {0}
    /\ keys[Len(keys)] = p /\ ToSet(keys) = ToSet(index.order) \cup {p}
    /\ Behind(index.order, p, keys)
    /\ m \in 0..(Len(keys) - 1) /\ (m = 0 \/ Len(keys) - m = MaxEndpoints)
    /\ after.order \in Seq(Endpoint) /\ Len(after.order) = Len(keys) - m
    /\ \A i \in 1..(Len(keys) - m) : after.order[i] = keys[i + m]
    /\ after.records[p] = LastOf(Append(index.records[p], r), MaxRecords)
    /\ \A q \in Endpoint : q # p =>
         after.records[q] = IF q \in ToSet(after.order) THEN index.records[q] ELSE <<>>

\* Filing a record has this shape.
LEMMA FiledShape ==
    ASSUME ContextAssumption, NEW index \in Index, WellFormed(index),
           NEW p \in Endpoint, NEW r \in Record
    PROVE  \E keys, m : Shape(index, p, r, keys, m, Filed(index, p, r))
<1> DEFINE keys == MovedToEnd(index.order, p)
           after == Filed(index, p, r)
           kept == LastOf(keys, MaxEndpoints)
           m == IF Len(keys) > MaxEndpoints THEN Len(keys) - MaxEndpoints ELSE 0
<1>1. /\ index.order \in Seq(Endpoint) /\ IsInjective(index.order)
      /\ MaxEndpoints \in Nat \ {0}
  BY DEF Index, WellFormed, ContextAssumption
<1>2. /\ keys \in Seq(Endpoint) /\ IsInjective(keys) /\ keys # <<>>
      /\ keys[Len(keys)] = p /\ ToSet(keys) = ToSet(index.order) \cup {p}
  BY <1>1, MovedToEndProperties
<1>3. after.order = kept
  BY DEF Filed
<1>4. /\ after.records[p] = IF p \notin ToSet(kept) THEN <<>>
                            ELSE LastOf(Append(index.records[p], r), MaxRecords)
      /\ \A q \in Endpoint : q # p =>
            after.records[q] = IF q \notin ToSet(kept) THEN <<>> ELSE index.records[q]
  BY DEF Filed
<1>5. Len(keys) \in Nat \ {0}
  BY <1>2, LenProperties, EmptySeq
<1>6. p \in ToSet(kept)
  BY <1>1, <1>2, LastOfProperties
<1>7. m \in 0..(Len(keys) - 1) /\ m \in 0..Len(keys) /\ (m = 0 \/ Len(keys) - m = MaxEndpoints)
  BY <1>1, <1>5
<1>8. kept = SubSeq(keys, m + 1, Len(keys))
  BY <1>1, <1>5 DEF LastOf
<1> HIDE DEF m, kept
<1>9. /\ kept \in Seq(Endpoint) /\ Len(kept) = Len(keys) - m
      /\ \A i \in 1..(Len(keys) - m) : kept[i] = keys[i + m]
  BY <1>2, <1>7, <1>8, SuffixProperties
<1>10. after.records[p] = LastOf(Append(index.records[p], r), MaxRecords)
  BY <1>4, <1>6
<1>11. \A q \in Endpoint : q # p =>
            after.records[q] = IF q \in ToSet(kept) THEN index.records[q] ELSE <<>>
  BY <1>4
<1>12. Behind(index.order, p, keys)
  BY <1>1, MovedBehind
<1> HIDE DEF keys, after
<1>13. Shape(index, p, r, keys, m, after)
  BY <1>2, <1>3, <1>5, <1>7, <1>9, <1>10, <1>11, <1>12 DEF Shape
<1> QED BY <1>13 DEF after

\* When p, which has just been written, moves to the end, the order follows the log as before.
LEMMA MovedFollows ==
    ASSUME NEW order, NEW keys \in Seq(Endpoint), IsInjective(keys), Len(keys) > 0,
           NEW p, keys[Len(keys)] = p, Behind(order, p, keys),
           NEW log \in Seq(Record), Len(log) > 0, p \in log[Len(log)].endpoints,
           NEW e, NEW F \in SUBSET (1..Len(log)),
           e # p => Follows(order, log, e, F)
    PROVE  Follows(keys, log, e, F)
<1>1. Len(log) \in Nat /\ Len(keys) \in Nat
  BY LenProperties
<1> SUFFICES ASSUME NEW j \in F, \A i \in F : i <= j,
                    NEW a \in 1..Len(keys), NEW b \in 1..Len(keys), a < b, keys[a] = e
             PROVE  keys[b] \in Between(log, F, e, j)
  BY DEF Follows
<1>2. e # p /\ keys[b] # e
  <2>1. DOMAIN keys = 1..Len(keys)
    BY LenProperties
  <2>2. keys[b] # e
    BY <2>1 DEF IsInjective
  <2> SUFFICES ASSUME e = p PROVE FALSE
    BY <2>2
  <2>3. keys[a] = keys[Len(keys)] /\ Len(keys) \in 1..Len(keys)
    BY <1>1
  <2>4. a = Len(keys)
    BY <2>1, <2>3 DEF IsInjective
  <2> QED BY <1>1, <2>4
<1>3. CASE keys[b] = p
  <2>1. PICK u : Stops(log, F, e, j, u)
    <3>1. Len(log) \in Nat
      BY LenProperties
    <3> QED BY <3>1, BetweenMeans
  <2>2. Between(log, F, e, j) = Written(log, j, Len(log)) \ {e}
    BY <2>1 DEF Stops
  <2>3. Len(log) \in j..Len(log)
    BY <2>1 DEF Stops
  <2>4. p \in Written(log, j, Len(log))
    BY <2>3 DEF Written
  <2> QED BY <1>2, <1>3, <2>2, <2>4
<1>4. CASE keys[b] # p
  <2>1. PICK c \in 1..Len(order), d \in 1..Len(order) :
            c < d /\ order[c] = keys[a] /\ order[d] = keys[b]
    BY <1>2, <1>4 DEF Behind
  <2> QED BY <1>2, <2>1 DEF Follows
<1> QED BY <1>3, <1>4

\* So it does after the first keys were evicted.
LEMMA FiledFollows ==
    ASSUME ContextAssumption, NEW index \in Index, WellFormed(index),
           NEW log \in Seq(Record), Len(log) > 0,
           NEW p \in Endpoint, p \in log[Len(log)].endpoints, NEW r \in Record,
           NEW e, NEW F \in SUBSET (1..Len(log)),
           e # p => Follows(index.order, log, e, F)
    PROVE  Follows(Filed(index, p, r).order, log, e, F)
<1> DEFINE after == Filed(index, p, r)
           kept == after.order
<1>1. PICK keys, m : Shape(index, p, r, keys, m, after)
  BY FiledShape
<1> HIDE DEF after
<1>2. /\ keys \in Seq(Endpoint) /\ IsInjective(keys) /\ Len(keys) \in Nat \ {0}
      /\ keys[Len(keys)] = p /\ Behind(index.order, p, keys)
  BY <1>1 DEF Shape
<1>3. /\ Len(keys) \in Nat /\ m \in 0..(Len(keys) - 1) /\ Len(kept) = Len(keys) - m
      /\ \A i \in 1..(Len(keys) - m) : kept[i] = keys[i + m]
  BY <1>1 DEF Shape
<1> HIDE DEF kept
<1>4. Follows(keys, log, e, F)
  <2>1. Len(keys) > 0
    BY <1>2
  <2> QED BY <1>2, <2>1, MovedFollows
<1>5. ASSUME NEW j \in F, \A i \in F : i <= j,
             NEW a \in 1..Len(kept), NEW b \in 1..Len(kept), a < b, kept[a] = e
      PROVE  kept[b] \in Between(log, F, e, j)
  <2>1. a + m \in 1..Len(keys) /\ b + m \in 1..Len(keys) /\ a + m < b + m
    BY <1>3, <1>5, SMTT(30)
  <2>2. kept[a] = keys[a + m] /\ kept[b] = keys[b + m]
    BY <1>3, <1>5, SMTT(30)
  <2> QED BY <1>4, <1>5, <2>1, <2>2 DEF Follows
<1> QED BY <1>5 DEF Follows, kept, after

\* A record at the end of the deque, at a place of the log after all the others.
LEMMA ListsAppended ==
    ASSUME NEW Q, NEW deque \in Seq(Q), NEW log, NEW S \in SUBSET Int,
           Lists(deque, log, S), NEW b \in Int, \A c \in S : c < b
    PROVE  Lists(Append(deque, log[b]), log, S \cup {b})
<1> DEFINE n == Len(deque)
           more == Append(deque, log[b])
<1>1. n \in Nat /\ DOMAIN deque = 1..n
  BY LenProperties
<1>2. /\ DOMAIN more = 1..(n + 1) /\ more[n + 1] = log[b]
      /\ \A c \in 1..n : more[c] = deque[c]
  OBVIOUS
<1>3. PICK f \in Matchings(1..n, S) : \A c \in 1..n : deque[c] = log[f[c]]
  BY <1>1 DEF Lists
<1> HIDE DEF n, more
<1> DEFINE h == [c \in 1..n \cup {n + 1} |-> IF c = n + 1 THEN b ELSE f[c]]
<1>4. 1..n \in SUBSET Int /\ n + 1 \in Int /\ \A c \in 1..n : c < n + 1
  BY <1>1
<1>5. h \in Matchings(1..n \cup {n + 1}, S \cup {b})
  BY <1>4, MatchedLast
<1>6. 1..n \cup {n + 1} = DOMAIN more
  BY <1>1, <1>2
<1>7. \A c \in DOMAIN more : more[c] = log[h[c]]
  BY <1>1, <1>2, <1>3, <1>6
<1> HIDE DEF h
<1> QED BY <1>5, <1>6, <1>7 DEF Lists, more

\* A deque without its first record lists the places after the first.
LEMMA ListsRest ==
    ASSUME NEW Q, NEW deque \in Seq(Q), Len(deque) > 0, NEW log, NEW S \in SUBSET Int,
           Lists(deque, log, S)
    PROVE  \E first \in S :
                Lists(SubSeq(deque, 2, Len(deque)), log, After(S, first))
<1> DEFINE n == Len(deque)
           rest == SubSeq(deque, 1 + 1, Len(deque))
<1>1. n \in Nat /\ n > 0 /\ DOMAIN deque = 1..n
  BY LenProperties
<1>2. /\ rest \in Seq(Q) /\ Len(rest) = n - 1
      /\ \A c \in 1..(n - 1) : rest[c] = deque[c + 1]
  <2>1. 1 \in 0..Len(deque)
    BY <1>1
  <2> QED BY <2>1, SuffixProperties
<1>3. rest = SubSeq(deque, 2, Len(deque))
  OBVIOUS
<1>4. PICK f \in Matchings(1..n, S) : \A c \in 1..n : deque[c] = log[f[c]]
  BY <1>1 DEF Lists
<1> HIDE DEF n, rest
<1>5. DOMAIN rest = 1..(n - 1)
  BY <1>2, LenProperties
<1> DEFINE left == {d \in 1..n : d > 1}
           right == After(S, f[1])
           g == [c \in left |-> f[c]]
           shift == [c \in 1..(n - 1) |-> c + 1]
           h == [c \in 1..(n - 1) |-> g[shift[c]]]
<1>6. 1..n \in SUBSET Int /\ 1 \in 1..n
  BY <1>1
<1>7. f[1] \in S
  BY <1>6 DEF Matchings
<1>8. g \in Matchings(left, right)
  BY <1>6, MatchedRest DEF After
<1>9. shift \in Matchings(1..(n - 1), left)
  <2>1. shift \in [1..(n - 1) -> left]
    BY <1>1
  <2>2. ASSUME NEW b \in left PROVE \E a \in 1..(n - 1) : shift[a] = b
    <3>1. b - 1 \in 1..(n - 1) /\ (b - 1) + 1 = b
      BY <1>1, <2>2
    <3> QED BY <3>1
  <2>3. \A a, b \in 1..(n - 1) : a < b => shift[a] < shift[b]
    BY <1>1
  <2> HIDE DEF shift, left
  <2> QED BY <2>1, <2>2, <2>3 DEF Matchings
<1>10. h \in Matchings(1..(n - 1), right)
  <2>1. 1..(n - 1) \in SUBSET Int
    OBVIOUS
  <2>2. left \in SUBSET Int /\ right \in SUBSET Int
    <3>1. 1..n \in SUBSET Int /\ S \in SUBSET Int
      BY <1>6
    <3> HIDE DEF h, g, shift
    <3> QED BY <3>1 DEF After
  <2> HIDE DEF g, shift, left, right
  <2> QED BY <1>8, <1>9, <2>1, <2>2, MatchedTwice
<1>11. ASSUME NEW c \in 1..(n - 1) PROVE rest[c] = log[h[c]]
  <2>1. c + 1 \in left /\ c + 1 \in 1..n
    BY <1>1
  <2>2. h[c] = f[c + 1]
    BY <2>1
  <2> QED BY <1>2, <1>4, <2>1, <2>2
<1>12. Lists(rest, log, right)
  <2> HIDE DEF h, right
  <2> QED BY <1>5, <1>10, <1>11 DEF Lists
<1> QED BY <1>7, <1>12, <1>3

\* Filing under the endpoint itself: its deque has the record, and lost its oldest one
\* if it was full.
LEMMA FiledRetainsSame ==
    ASSUME ContextAssumption, NEW deque \in Seq(Record), Len(deque) <= MaxRecords,
           NEW log \in Seq(Record), Len(log) > 0, NEW r, r = log[Len(log)],
           NEW e, NEW F \in SUBSET (1..Len(log)), Len(log) \notin F,
           Retains(deque, log, e, F)
    PROVE  Retains(LastOf(Append(deque, r), MaxRecords), log, e, F \cup {Len(log)})
<1> DEFINE N == Len(log)
           G == F \cup {N}
           more == Append(deque, r)
           last == LastOf(more, MaxRecords)
<1>1. N \in Nat \ {0} /\ MaxRecords \in Nat \ {0} /\ Len(deque) \in Nat
  BY LenProperties DEF ContextAssumption
<1>2. \A i \in F : i \in Int /\ 1 <= i /\ i < N
  BY <1>1
<1>3. PICK m \in 0..N :
        /\ Lists(deque, log, After(F, m))
        /\ \/ \A i \in F : i > m
           \/ Len(deque) = MaxRecords
           \/ \E j \in F :
                /\ j <= m /\ \A i \in F : i > j => i > m
                /\ Cardinality(Between(log, F, e, j)) >= MaxEndpoints
  BY DEF Retains
<1>4. \A j \in F : Between(log, G, e, j) = Between(log, F, e, j)
  BY <1>1, BetweenFiled
<1> DEFINE n == IF m = N THEN N - 1 ELSE m
           S == After(F, n)
           T == S \cup {N}
<1>5. /\ N = Len(log) /\ r = log[N]
      /\ \A i \in F : i \in G
      /\ \A i \in G : i \in Int /\ (i \in F \/ i = N)
      /\ N \in G
  <2>1. N = Len(log) /\ r = log[N] /\ N \in Int
    BY <1>1
  <2> HIDE DEF N
  <2> QED BY <1>2, <2>1
<1> HIDE DEF N, G
<1>6. n \in 0..(N - 1) /\ \A i \in F : i > m <=> i > n
  BY <1>1, <1>2
<1> HIDE DEF n
<1>7. Lists(deque, log, S)
  <2>1. S = After(F, m)
    BY <1>6 DEF After
  <2> HIDE DEF S
  <2> QED BY <1>3, <2>1
<1>8. /\ S \in SUBSET Int /\ T \in SUBSET Int /\ \A c \in S : c < N
      /\ \A i \in T : i > n
      /\ \A i \in G : i > n => i \in T
      /\ T = After(G, n)
  <2>1. S \in SUBSET Int /\ \A c \in S : c < N /\ c > n
    BY <1>2 DEF After
  <2>2. T \in SUBSET Int /\ \A i \in T : i > n
    BY <1>1, <1>6, <2>1
  <2>3. \A i \in G : i > n => i \in T
    BY <1>5 DEF After
  <2>4. \A i \in T : i \in G
    BY <1>5 DEF After
  <2> HIDE DEF T
  <2>5. T = After(G, n)
    BY <2>2, <2>3, <2>4 DEF After
  <2> QED BY <2>1, <2>2, <2>3, <2>5
<1>9. Lists(more, log, T)
  <2> HIDE DEF S
  <2>1. N \in Int
    BY <1>1
  <2> QED BY <1>5, <1>7, <1>8, <2>1, ListsAppended
<1>10. more \in Seq(Record) /\ Len(more) = Len(deque) + 1
  <2>1. r \in Record
    BY <1>1, <1>5, ElementOfSeq
  <2> QED BY <2>1, AppendProperties
<1> HIDE DEF more, T
<1>11. ASSUME Len(deque) < MaxRecords PROVE Retains(last, log, e, G)
  <2>1. last = more
    <3>1. ~ (Len(more) > MaxRecords) /\ Len(more) \in Nat
      BY <1>1, <1>10, <1>11
    <3>2. last = SubSeq(more, 1, Len(more))
      BY <3>1 DEF LastOf
    <3> QED BY <1>10, <3>2
  <2>2. \/ \A i \in G : i > n
        \/ \E j \in G :
              /\ j <= n /\ \A i \in G : i > j => i > n
              /\ Cardinality(Between(log, G, e, j)) >= MaxEndpoints
    <3>1. CASE \A i \in F : i > m
      BY <1>1, <1>5, <1>6, <3>1
    <3>2. CASE ~ \A i \in F : i > m
      <4>1. PICK j \in F : /\ j <= m /\ \A i \in F : i > j => i > m
                           /\ Cardinality(Between(log, F, e, j)) >= MaxEndpoints
        <5>1. Len(deque) # MaxRecords
          BY <1>1, <1>11
        <5> QED BY <1>3, <3>2, <5>1
      <4>2. j <= n
        BY <1>1, <1>2, <1>6, <4>1
      <4>3. \A i \in G : i > j => i > n
        BY <1>1, <1>5, <1>6, <4>1
      <4> QED BY <1>4, <1>5, <4>1, <4>2, <4>3
    <3> QED BY <3>1, <3>2
  <2>3. n \in 0..Len(log)
    BY <1>1, <1>5, <1>6
  <2> HIDE DEF last
  <2> QED BY <1>8, <1>9, <2>1, <2>2, <2>3 DEF Retains
<1>12. ASSUME Len(deque) = MaxRecords PROVE Retains(last, log, e, G)
  <2>1. Len(more) > 0 /\ Len(more) = MaxRecords + 1
    BY <1>1, <1>10, <1>12
  <2>2. PICK first \in T : Lists(SubSeq(more, 2, Len(more)), log, After(T, first))
    BY <1>8, <1>9, <1>10, <2>1, ListsRest
  <2>3. last = SubSeq(more, 2, Len(more))
    <3>1. Len(more) > MaxRecords /\ Len(more) - MaxRecords + 1 = 2
      BY <1>1, <2>1
    <3> QED BY <3>1 DEF LastOf
  <2>4. first \in 0..N /\ first > n
    <3>1. first \in G
      BY <1>8, <2>2 DEF After
    <3> QED BY <1>1, <1>2, <1>5, <1>8, <2>2, <3>1
  <2>5. After(G, first) = After(T, first)
    <3>1. \A i \in G : i > first => i > n
      BY <1>5, <1>6, <2>4
    <3>2. \A i \in T : i \in G
      BY <1>8 DEF After
    <3> QED BY <1>8, <3>1, <3>2 DEF After
  <2>6. Len(last) = MaxRecords
    BY <1>1, <1>10, <2>1, <2>3
  <2> HIDE DEF last
  <2> QED BY <1>5, <2>2, <2>3, <2>4, <2>5, <2>6 DEF Retains
<1>13. Retains(last, log, e, G)
  BY <1>1, <1>11, <1>12
<1> QED BY <1>13 DEF G, N, more

\* Filing under another endpoint: either the deque stays as it is, or the endpoint is
\* evicted, and then MaxEndpoints others were written since its last record.
LEMMA FiledRetainsOther ==
    ASSUME ContextAssumption, NEW index \in Index, WellFormed(index),
           NEW log \in Seq(Record), Len(log) > 0,
           NEW p \in Endpoint, p \in log[Len(log)].endpoints, NEW r \in Record,
           NEW e \in Endpoint, e # p, NEW F \in SUBSET (1..Len(log)),
           Remembers(index, log, e, F)
    PROVE  Retains(Filed(index, p, r).records[e], log, e, F)
<1> DEFINE after == Filed(index, p, r)
<1>1. PICK keys, m : Shape(index, p, r, keys, m, after)
  BY FiledShape
<1>2. WellFormed(after)
  BY FiledWellFormed
<1> HIDE DEF after
<1>3. after.records[e] = IF e \in ToSet(after.order) THEN index.records[e] ELSE <<>>
  BY <1>1 DEF Shape
<1>4. Retains(index.records[e], log, e, F) /\ Follows(index.order, log, e, F)
  BY DEF Remembers
<1>5. CASE after.records[e] = index.records[e]
  BY <1>4, <1>5 DEF after
<1>6. CASE after.records[e] # index.records[e]
  <2>1. e \notin ToSet(after.order) /\ index.records[e] # <<>> /\ after.records[e] = <<>>
    BY <1>3, <1>6
  <2>2. /\ keys \in Seq(Endpoint) /\ IsInjective(keys) /\ Len(keys) \in Nat \ {0}
        /\ keys[Len(keys)] = p /\ Behind(index.order, p, keys)
        /\ ToSet(keys) = ToSet(index.order) \cup {p}
        /\ m \in 0..(Len(keys) - 1) /\ (m = 0 \/ Len(keys) - m = MaxEndpoints)
        /\ after.order \in Seq(Endpoint) /\ Len(after.order) = Len(keys) - m
        /\ \A i \in 1..(Len(keys) - m) : after.order[i] = keys[i + m]
    BY <1>1 DEF Shape
  <2>3. DOMAIN keys = 1..Len(keys) /\ DOMAIN after.order = 1..(Len(keys) - m)
    BY <2>2, LenProperties
  <2>4. PICK a \in 1..Len(keys) : keys[a] = e
    <3>1. e \in ToSet(keys)
      BY <2>1, <2>2 DEF WellFormed
    <3> QED BY <2>3, <3>1 DEF ToSet
  <2>5. a <= m
    <3> SUFFICES ASSUME a > m PROVE FALSE
      BY <2>2
    <3>1. a - m \in 1..(Len(keys) - m) /\ (a - m) + m = a
      BY <2>2
    <3>2. after.order[a - m] = e
      BY <2>2, <2>4, <3>1
    <3> QED BY <2>1, <2>3, <3>1, <3>2 DEF ToSet
  <2>6. Len(after.order) = MaxEndpoints
    BY <2>2, <2>5
  <2>7. F # {}
    <3>1. PICK n \in 0..Len(log) : Lists(index.records[e], log, After(F, n))
      BY <1>4 DEF Retains
    <3>2. PICK f \in Matchings(DOMAIN index.records[e], After(F, n)) : TRUE
      BY <3>1 DEF Lists
    <3>3. index.records[e] \in Seq(Record)
      BY DEF Index
    <3>4. 1 \in DOMAIN index.records[e]
      BY <2>1, <3>3, LenProperties, EmptySeq
    <3> QED BY <3>2, <3>4 DEF Matchings, After
  <2> DEFINE j == Max(F)
  <2>8. Len(log) \in Nat /\ j \in F /\ \A i \in F : i <= j
    <3>1. Len(log) \in Nat
      BY LenProperties
    <3>2. F \in SUBSET (0..Len(log))
      BY <3>1
    <3> QED BY <2>7, <3>1, <3>2, GreatestNatural
  <2> HIDE DEF j
  <2>9. Follows(keys, log, e, F)
    BY <1>4, <2>2, MovedFollows
  <2>10. ToSet(after.order) \subseteq Between(log, F, e, j)
    <3> SUFFICES ASSUME NEW i \in 1..(Len(keys) - m)
                 PROVE  after.order[i] \in Between(log, F, e, j)
      BY <2>3 DEF ToSet
    <3>1. i + m \in 1..Len(keys) /\ a < i + m /\ after.order[i] = keys[i + m]
      BY <2>2, <2>5
    <3> QED BY <2>4, <2>8, <2>9, <3>1 DEF Follows
  <2>11. Cardinality(Between(log, F, e, j)) >= MaxEndpoints
    <3>1. Cardinality(ToSet(after.order)) = MaxEndpoints
      BY <1>2, <2>2, <2>6, InjectiveCardinality DEF WellFormed
    <3>2. /\ IsFiniteSet(Between(log, F, e, j)) /\ Cardinality(Between(log, F, e, j)) \in Nat
      BY <2>8, BetweenFinite
    <3>3. Cardinality(ToSet(after.order)) <= Cardinality(Between(log, F, e, j))
      BY <2>10, <3>2, FS_Subset
    <3>4. MaxEndpoints \in Nat
      BY DEF ContextAssumption
    <3> QED BY <3>1, <3>2, <3>3, <3>4
  <2>12. Lists(<<>>, log, After(F, Len(log)))
    <3>1. After(F, Len(log)) = {}
      <4>1. \A i \in F : ~ (i > Len(log))
        BY <2>8
      <4> QED BY <4>1 DEF After
    <3>2. DOMAIN <<>> = {}
      OBVIOUS
    <3>3. [x \in {} |-> x] \in Matchings({}, {})
      BY DEF Matchings
    <3> QED BY <3>1, <3>2, <3>3 DEF Lists
  <2>13. j <= Len(log) /\ \A i \in F : i > j => i > Len(log)
    BY <2>8
  <2>14. Len(log) \in 0..Len(log)
    BY <2>8
  <2>15. Retains(<<>>, log, e, F)
    BY <2>8, <2>11, <2>12, <2>13, <2>14 DEF Retains
  <2> QED BY <2>1, <2>15 DEF after
<1> QED BY <1>5, <1>6

\* The record at the end of the log is filed, so far, under the endpoints done.
FiledSoFar(index, log, done) ==
    \A e \in Endpoint :
        Remembers(index, log, e,
                  IF e \in done THEN Filings(log, e) ELSE Filings(log, e) \ {Len(log)})

\* Filing it under one more.
LEMMA FiledOneMore ==
    ASSUME ContextAssumption, NEW index \in Index, WellFormed(index),
           NEW log \in Seq(Record), Len(log) > 0, NEW r \in Record, r = log[Len(log)],
           NEW p \in Endpoint, p \in r.endpoints, NEW done, p \notin done,
           FiledSoFar(index, log, done)
    PROVE  FiledSoFar(Filed(index, p, r), log, done \cup {p})
<1> DEFINE N == Len(log)
           after == Filed(index, p, r)
<1>1. N \in Nat \ {0} /\ DOMAIN log = 1..N
  BY LenProperties
<1>2. ASSUME NEW e \in Endpoint, e # p,
             NEW F \in SUBSET (1..N), Remembers(index, log, e, F)
      PROVE  Remembers(after, log, e, F)
  <2>1. Retains(after.records[e], log, e, F)
    BY <1>2, FiledRetainsOther
  <2>2. Follows(after.order, log, e, F)
    BY <1>2, FiledFollows DEF Remembers
  <2> QED BY <2>1, <2>2 DEF Remembers
<1>3. Remembers(after, log, p, Filings(log, p))
  <2> DEFINE F == Filings(log, p) \ {N}
             deque == index.records[p]
  <2>1. F \in SUBSET (1..N) /\ N \notin F /\ Filings(log, p) = F \cup {N}
    BY <1>1 DEF Filings
  <2>2. Remembers(index, log, p, F)
    BY DEF FiledSoFar
  <2> HIDE DEF F
  <2>3. deque \in Seq(Record) /\ Len(deque) <= MaxRecords
    BY DEF Index, WellFormed
  <2>4. Retains(deque, log, p, F)
    BY <2>2 DEF Remembers
  <2> HIDE DEF deque
  <2>5. Retains(LastOf(Append(deque, r), MaxRecords), log, p, F \cup {N})
    BY <2>1, <2>3, <2>4, FiledRetainsSame
  <2>6. after.records[p] = LastOf(Append(deque, r), MaxRecords)
    <3>1. PICK keys, m : Shape(index, p, r, keys, m, after)
      BY FiledShape
    <3> QED BY <3>1 DEF Shape, deque
  <2>7. F \cup {N} \in SUBSET (1..Len(log))
    BY <1>1, <2>1
  <2>8. Follows(after.order, log, p, F \cup {N})
    BY <2>7, FiledFollows
  <2> QED BY <2>1, <2>5, <2>6, <2>8 DEF Remembers
<1>4. ASSUME NEW e \in Endpoint
      PROVE  Remembers(after, log, e,
                       IF e \in done \cup {p} THEN Filings(log, e)
                                              ELSE Filings(log, e) \ {Len(log)})
  <2>1. CASE e = p
    BY <1>3, <2>1
  <2>2. CASE e # p
    <3> DEFINE F == IF e \in done THEN Filings(log, e) ELSE Filings(log, e) \ {Len(log)}
    <3>1. F \in SUBSET (1..N)
      BY <1>1 DEF Filings
    <3>2. Remembers(index, log, e, F)
      BY DEF FiledSoFar
    <3>3. F = IF e \in done \cup {p} THEN Filings(log, e)
                                     ELSE Filings(log, e) \ {Len(log)}
      BY <2>2
    <3> HIDE DEF F
    <3>4. Remembers(after, log, e, F)
      BY <1>2, <2>2, <3>1, <3>2
    <3> QED BY <3>3, <3>4
  <2> QED BY <2>1, <2>2
<1> QED BY <1>4 DEF FiledSoFar

\* The two elements of a set that has no more.
LEMMA AtMostTwo ==
    ASSUME NEW S, IsFiniteSet(S), Cardinality(S) <= 2, NEW p \in S, NEW q \in S, p # q
    PROVE  S = {p, q}
<1>1. IsFiniteSet({p}) /\ Cardinality({p}) = 1
  BY FS_Singleton
<1>2. IsFiniteSet({p} \cup {q}) /\ Cardinality({p} \cup {q}) = 2
  BY <1>1, FS_AddElement
<1>3. {p} \cup {q} = {p, q} /\ {p, q} \in SUBSET S
  OBVIOUS
<1>4. Cardinality(S) \in Nat /\ Cardinality({p, q}) <= Cardinality(S)
  BY <1>3, FS_Subset, FS_CardinalityType
<1>5. Cardinality(S) = Cardinality({p, q})
  BY <1>2, <1>3, <1>4
<1> QED BY <1>3, <1>5, FS_Subset

\* A call: the record is logged and filed under all of its endpoints, in any order.
LEMMA FiledUnderAllRemembers ==
    ASSUME ContextAssumption, NEW index \in Index, WellFormed(index),
           NEW log \in Seq(Record), NEW r \in Record, NEW x \in FiledUnderAll(index, r),
           \A e \in Endpoint : Remembers(index, log, e, Filings(log, e))
    PROVE  \A e \in Endpoint : Remembers(x, Append(log, r), e, Filings(Append(log, r), e))
<1> DEFINE more == Append(log, r)
           N == Len(more)
<1>1. /\ more \in Seq(Record) /\ Len(log) \in Nat /\ N = Len(log) + 1 /\ r = more[N]
      /\ \A k \in 1..Len(log) : more[k] = log[k]
      /\ DOMAIN log = 1..Len(log) /\ DOMAIN more = 1..N
  BY LenProperties, AppendProperties
<1>2. r.endpoints \subseteq Endpoint /\ IsFiniteSet(r.endpoints) /\ Cardinality(r.endpoints) <= 2
  BY DEF ContextAssumption
<1>3. ASSUME NEW e
      PROVE  /\ Filings(log, e) \in SUBSET (1..Len(log))
             /\ Filings(log, e) = Filings(more, e) \ {N}
             /\ e \notin r.endpoints => Filings(log, e) = Filings(more, e)
  <2> HIDE DEF more, N
  <2>1. \A k \in 1..Len(log) : k \in DOMAIN more /\ k # N
    BY <1>1
  <2>2. \A k \in DOMAIN more : k # N => k \in 1..Len(log)
    BY <1>1
  <2> QED BY <1>1, <2>1, <2>2 DEF Filings
<1>4. FiledSoFar(index, more, {})
  <2>1. ASSUME NEW e \in Endpoint PROVE Remembers(index, more, e, Filings(log, e))
    BY <1>3, LoggedRemembers
  <2> HIDE DEF more
  <2> QED BY <1>3, <2>1 DEF FiledSoFar
<1>5. ASSUME FiledSoFar(x, more, r.endpoints)
      PROVE  \A e \in Endpoint : Remembers(x, more, e, Filings(more, e))
  <2> HIDE DEF more, N
  <2> SUFFICES ASSUME NEW e \in Endpoint PROVE Remembers(x, more, e, Filings(more, e))
    OBVIOUS
  <2>1. CASE e \in r.endpoints
    BY <1>5, <2>1 DEF FiledSoFar
  <2>2. CASE e \notin r.endpoints
    BY <1>3, <1>5, <2>2 DEF FiledSoFar, N
  <2> QED BY <2>1, <2>2
<1>6. FiledSoFar(x, more, r.endpoints)
  <2>1. CASE r.endpoints = {}
    BY <1>4, <2>1 DEF FiledUnderAll
  <2>2. CASE r.endpoints # {}
    <3>1. PICK p \in r.endpoints :
              \/ x = Filed(index, p, r) /\ r.endpoints \ {p} = {}
              \/ \E q \in r.endpoints \ {p} : x = Filed(Filed(index, p, r), q, r)
      BY <2>2 DEF FiledUnderAll
    <3> DEFINE first == Filed(index, p, r)
    <3>2. first \in Index /\ WellFormed(first)
      BY <1>2, FiledWellFormed
    <3> HIDE DEF more
    <3>3. Len(more) > 0 /\ r = more[Len(more)]
      BY <1>1
    <3>4. FiledSoFar(first, more, {p})
      <4>1. FiledSoFar(first, more, {} \cup {p})
        BY <1>1, <1>2, <1>4, <3>3, FiledOneMore
      <4>2. {} \cup {p} = {p}
        OBVIOUS
      <4> QED BY <4>1, <4>2
    <3>5. CASE x = first /\ r.endpoints \ {p} = {}
      <4>1. r.endpoints = {p}
        BY <3>5
      <4> QED BY <3>4, <3>5, <4>1
    <3> HIDE DEF first
    <3>6. ASSUME NEW q \in r.endpoints \ {p}, x = Filed(first, q, r)
          PROVE  FiledSoFar(x, more, r.endpoints)
      <4>1. FiledSoFar(x, more, {p} \cup {q})
        BY <1>1, <1>2, <3>2, <3>3, <3>4, <3>6, FiledOneMore
      <4>2. r.endpoints = {p, q}
        BY <1>2, <3>6, AtMostTwo
      <4>3. {p} \cup {q} = r.endpoints
        BY <4>2
      <4> QED BY <4>1, <4>3
    <3> QED BY <3>1, <3>5, <3>6 DEF first
  <2> QED BY <2>1, <2>2
<1> QED BY <1>5, <1>6

-----------------------------------------------------------------------------
\* What an index forgets, from what it remembers.

\* A deque that has the places after n, and lacks others only for the one bound or the
\* other, has as many records as still count.
LEMMA RemembersExact ==
    ASSUME ContextAssumption, NEW index \in Index, WellFormed(index),
           NEW log \in Seq(Record), NEW e \in Endpoint,
           Remembers(index, log, e, Filings(log, e))
    PROVE  /\ \E n \in 0..Len(log) : Lists(index.records[e], log, After(Filings(log, e), n))
           /\ Len(index.records[e]) >= Cardinality({i \in DOMAIN log : Recent(log, e, i)})
<1> DEFINE F == Filings(log, e)
           deque == index.records[e]
           R == {i \in DOMAIN log : Recent(log, e, i)}
<1>1. /\ Len(log) \in Nat /\ DOMAIN log = 1..Len(log)
      /\ deque \in Seq(Record) /\ Len(deque) \in Nat /\ DOMAIN deque = 1..Len(deque)
      /\ MaxRecords \in Nat \ {0} /\ MaxEndpoints \in Nat \ {0}
  <2>1. deque \in Seq(Record)
    BY DEF Index
  <2> HIDE DEF deque
  <2> QED BY <2>1, LenProperties DEF ContextAssumption
<1>2. F \in SUBSET (1..Len(log)) /\ IsFiniteSet(F)
  <2>1. F \in SUBSET (1..Len(log))
    BY <1>1 DEF Filings
  <2>2. IsFiniteSet(1..Len(log))
    BY <1>1, FS_Interval
  <2> HIDE DEF F
  <2> QED BY <2>1, <2>2, FS_Subset
<1>3. ASSUME NEW i \in R
      PROVE  /\ i \in F /\ Cardinality({j \in F : j >= i}) <= MaxRecords
             /\ \A j \in F : j >= i => Cardinality(Between(log, F, e, j)) < MaxEndpoints
  BY DEF Recent
<1> HIDE DEF R
<1>4. R \in SUBSET F /\ IsFiniteSet(R) /\ Cardinality(R) \in Nat
  <2>1. R \in SUBSET F
    BY <1>3
  <2> HIDE DEF F
  <2> QED BY <1>2, <2>1, FS_Subset, FS_CardinalityType
<1>5. PICK n \in 0..Len(log) :
        /\ Lists(deque, log, After(F, n))
        /\ \/ \A i \in F : i > n
           \/ Len(deque) = MaxRecords
           \/ \E j \in F :
                /\ j <= n /\ \A i \in F : i > j => i > n
                /\ Cardinality(Between(log, F, e, j)) >= MaxEndpoints
  BY DEF Remembers, Retains
<1> HIDE DEF F, deque
<1> DEFINE S == After(F, n)
<1>6. S \in SUBSET F /\ IsFiniteSet(S) /\ Cardinality(S) = Len(deque)
  <2>1. S \in SUBSET F
    BY DEF After
  <2>2. 1..Len(deque) \in SUBSET Int
    OBVIOUS
  <2>5. S \in SUBSET Int
    <3>1. ASSUME NEW i \in F PROVE i \in Int
      <4>1. i \in 1..Len(log)
        BY <1>2
      <4> QED BY <1>1, <4>1
    <3> QED BY <2>1, <3>1
  <2> HIDE DEF S
  <2>3. PICK f \in Matchings(1..Len(deque), S) : TRUE
    BY <1>1, <1>5 DEF Lists, S
  <2>4. IsFiniteSet(1..Len(deque)) /\ Cardinality(1..Len(deque)) = Len(deque)
    <3>1. 1 \in Int /\ Len(deque) \in Int
      BY <1>1
    <3>2. /\ IsFiniteSet(1..Len(deque))
          /\ Cardinality(1..Len(deque)) = IF 1 > Len(deque) THEN 0 ELSE Len(deque) - 1 + 1
      BY <3>1, FS_Interval
    <3> QED BY <1>1, <3>2
  <2> QED BY <2>1, <2>2, <2>3, <2>4, <2>5, MatchedCardinality
<1>7. ASSUME R \subseteq S PROVE Len(deque) >= Cardinality(R)
  <2> HIDE DEF S
  <2>1. Cardinality(R) <= Cardinality(S)
    BY <1>6, <1>7, FS_Subset
  <2> QED BY <1>1, <1>4, <1>6, <2>1
<1>8. ASSUME \A i \in F : i > n PROVE Len(deque) >= Cardinality(R)
  BY <1>4, <1>7, <1>8 DEF After
<1>9. ASSUME Len(deque) = MaxRecords PROVE Len(deque) >= Cardinality(R)
  <2>1. CASE R = {}
    BY <1>1, <2>1, FS_EmptySet
  <2>2. CASE R # {}
    <3>1. R \in SUBSET Nat
      <4>1. \A i \in F : i \in Nat
        BY <1>2
      <4> QED BY <1>4, <4>1
    <3> DEFINE first == Min(R)
               since == {j \in F : j >= first}
    <3>2. first \in R /\ \A i \in R : first <= i
      BY <2>2, <3>1, LeastNatural
    <3> HIDE DEF first
    <3>3. Cardinality(since) <= MaxRecords
      BY <1>3, <3>2
    <3>4. since \in SUBSET F /\ \A i \in R : i \in since
      BY <1>2, <1>4, <3>1, <3>2
    <3> HIDE DEF since
    <3>5. IsFiniteSet(since) /\ Cardinality(since) \in Nat
      BY <1>2, <3>4, FS_Subset, FS_CardinalityType
    <3>6. Cardinality(R) <= Cardinality(since)
      BY <3>4, <3>5, FS_Subset
    <3> QED BY <1>1, <1>4, <1>9, <3>3, <3>5, <3>6
  <2> QED BY <2>1, <2>2
<1>10. ASSUME \E j \in F :
                /\ j <= n /\ \A i \in F : i > j => i > n
                /\ Cardinality(Between(log, F, e, j)) >= MaxEndpoints
       PROVE  Len(deque) >= Cardinality(R)
  <2>1. PICK j \in F :
              /\ j <= n /\ \A i \in F : i > j => i > n
              /\ Cardinality(Between(log, F, e, j)) >= MaxEndpoints
    BY <1>10
  <2>2. Cardinality(Between(log, F, e, j)) \in Nat
    BY <1>2, BetweenFinite
  <2>3. ASSUME NEW i \in R PROVE i > n
    <3>1. i \in F /\ (j >= i => Cardinality(Between(log, F, e, j)) < MaxEndpoints)
      BY <1>3
    <3>2. ~ (j >= i)
      BY <1>1, <2>1, <2>2, <3>1
    <3>3. i > j
      BY <1>2, <3>1, <3>2
    <3> QED BY <2>1, <3>1, <3>3
  <2>4. R \subseteq S
    BY <1>4, <2>3 DEF After
  <2> QED BY <1>7, <2>4
<1>11. Len(deque) >= Cardinality(R)
  BY <1>5, <1>8, <1>9, <1>10
<1> QED BY <1>5, <1>11 DEF F, deque, R

\* The logs beside the calls take no step of the engine away: the bounded specification of
\* the run is one of its behaviours.
LEMMA MCImplementsSpec == MCSpec => EnrichmentSpec
<1>1. MCInit => EnrichmentInit
  BY DEF MCInit
<1>2. [MCFile \/ MCReport]_mcVars => [Process]_enrichmentVars
  BY DEF MCFile, MCReport, mcVars, Process
<1> QED BY <1>1, <1>2, PTL DEF MCSpec, EnrichmentSpec

\* The inductive invariant of what the two indexes remember.
FilingInv ==
    /\ suricataLog \in Seq(Record) /\ authenticationLog \in Seq(Record)
    /\ \A e \in Endpoint :
        /\ Remembers(suricata, suricataLog, e, Filings(suricataLog, e))
        /\ Remembers(authentication, authenticationLog, e, Filings(authenticationLog, e))

\* At the start nothing was filed, and nothing is held.
LEMMA NothingFiled ==
    ASSUME ContextAssumption, NEW e \in Endpoint
    PROVE  <<>> \in Seq(Record) /\ Remembers(EmptyIndex, <<>>, e, Filings(<<>>, e))
<1>1. Filings(<<>>, e) = {} /\ Len(<<>>) = 0 /\ DOMAIN <<>> = {} /\ 0 \in 0..0
  BY DEF Filings
<1>2. After({}, 0) = {} /\ [x \in {} |-> x] \in Matchings({}, {})
  BY DEF After, Matchings
<1>3. Lists(<<>>, <<>>, After({}, 0))
  BY <1>1, <1>2 DEF Lists
<1>4. Retains(<<>>, <<>>, e, {})
  BY <1>1, <1>3 DEF Retains
<1>5. Follows(<<>>, <<>>, e, {})
  BY DEF Follows
<1>6. EmptyIndex.records[e] = <<>> /\ EmptyIndex.order = <<>>
  BY DEF EmptyIndex
<1>7. Remembers(EmptyIndex, <<>>, e, {})
  BY <1>4, <1>5, <1>6 DEF Remembers
<1> QED BY <1>1, <1>7

\* Every reachable state of the specification with logs satisfies it.
THEOREM FilingInvariant ==
    ASSUME ContextAssumption, EnrichmentAssumption
    PROVE  MCSpec => [](EnrichmentInv /\ FilingInv)
<1>1. MCInit => FilingInv
  <2>1. <<>> \in Seq(Record)
    OBVIOUS
  <2> QED BY <2>1, NothingFiled DEF MCInit, EnrichmentInit, ContextInit, FilingInv
<1>2. EnrichmentInv /\ FilingInv /\ [MCFile \/ MCReport]_mcVars => FilingInv'
  <2> SUFFICES ASSUME EnrichmentInv, FilingInv, [MCFile \/ MCReport]_mcVars PROVE FilingInv'
    OBVIOUS
  <2>1. /\ suricata \in Index /\ WellFormed(suricata)
        /\ authentication \in Index /\ WellFormed(authentication)
    BY DEF EnrichmentInv, ContextBounded
  <2>2. CASE MCFile
    <3>1. CASE \E r \in SuricataAlert :
                 /\ ProcessSuricata(r)
                 /\ suricataLog' = Append(suricataLog, r)
                 /\ UNCHANGED authenticationLog
      <4>1. PICK r \in SuricataAlert :
                 /\ ProcessSuricata(r)
                 /\ suricataLog' = Append(suricataLog, r)
                 /\ UNCHANGED authenticationLog
        BY <3>1
      <4>2. r \in Record /\ suricataLog \in Seq(Record)
        BY DEF Record, FilingInv
      <4>3. /\ suricata' \in FiledUnderAll(suricata, r)
            /\ UNCHANGED <<authentication, authenticationLog>>
        BY <4>1 DEF ProcessSuricata, AddSuricata
      <4>4. \A e \in Endpoint : Remembers(suricata, suricataLog, e, Filings(suricataLog, e))
        BY DEF FilingInv
      <4>5. \A e \in Endpoint :
                Remembers(suricata', suricataLog', e, Filings(suricataLog', e))
        BY <2>1, <4>1, <4>2, <4>3, <4>4, FiledUnderAllRemembers
      <4>6. suricataLog' \in Seq(Record)
        BY <4>1, <4>2, AppendProperties
      <4> QED BY <4>3, <4>5, <4>6 DEF FilingInv
    <3>2. CASE \E r \in EndpointAuthEvent :
                 /\ ProcessAuthentication(r)
                 /\ authenticationLog' = Append(authenticationLog, r)
                 /\ UNCHANGED suricataLog
      <4>1. PICK r \in EndpointAuthEvent :
                 /\ ProcessAuthentication(r)
                 /\ authenticationLog' = Append(authenticationLog, r)
                 /\ UNCHANGED suricataLog
        BY <3>2
      <4>2. r \in Record /\ authenticationLog \in Seq(Record)
        BY DEF Record, FilingInv
      <4>3. /\ authentication' \in FiledUnderAll(authentication, r)
            /\ UNCHANGED <<suricata, suricataLog>>
        BY <4>1 DEF ProcessAuthentication, AddAuthentication
      <4>4. \A e \in Endpoint :
                Remembers(authentication, authenticationLog, e, Filings(authenticationLog, e))
        BY DEF FilingInv
      <4>5. \A e \in Endpoint :
                Remembers(authentication', authenticationLog', e,
                          Filings(authenticationLog', e))
        BY <2>1, <4>1, <4>2, <4>3, <4>4, FiledUnderAllRemembers
      <4>6. authenticationLog' \in Seq(Record)
        BY <4>1, <4>2, AppendProperties
      <4> QED BY <4>3, <4>5, <4>6 DEF FilingInv
    <3> QED BY <2>2, <3>1, <3>2 DEF MCFile
  <2>3. CASE MCReport
    <3>1. UNCHANGED <<suricata, authentication, suricataLog, authenticationLog>>
      BY <2>3 DEF MCReport, ProcessCandidate
    <3> QED BY <3>1 DEF FilingInv
  <2>4. CASE UNCHANGED mcVars
    <3>1. UNCHANGED <<suricata, authentication, suricataLog, authenticationLog>>
      BY <2>4 DEF mcVars, enrichmentVars
    <3> QED BY <3>1 DEF FilingInv
  <2> QED BY <2>2, <2>3, <2>4
<1> QED BY <1>1, <1>2, MCImplementsSpec, EnrichmentInvariant, PTL DEF MCSpec

\* Whatever the order of the events and the size of the bounds, an index has the most
\* recent records filed under an endpoint, in order of arrival, and loses none that
\* neither of its two bounds makes it lose.
THEOREM IndexForgetsOldest ==
    ASSUME ContextAssumption, EnrichmentAssumption
    PROVE  MCSpec => []ForgetsOldest
<1>1. EnrichmentInv /\ FilingInv => ForgetsOldest
  <2> SUFFICES ASSUME EnrichmentInv, FilingInv PROVE ForgetsOldest
    OBVIOUS
  <2>1. /\ suricata \in Index /\ WellFormed(suricata)
        /\ authentication \in Index /\ WellFormed(authentication)
    BY DEF EnrichmentInv, ContextBounded
  <2>2. IndexExact(suricata, suricataLog)
    BY <2>1, RemembersExact DEF FilingInv, IndexExact
  <2>3. IndexExact(authentication, authenticationLog)
    BY <2>1, RemembersExact DEF FilingInv, IndexExact
  <2> QED BY <2>2, <2>3 DEF ForgetsOldest
<1> QED BY <1>1, FilingInvariant, PTL
====
