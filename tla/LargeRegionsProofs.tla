------------------------- MODULE LargeRegionsProofs -------------------------
(***************************************************************************)
(* LargeInv is an invariant of LargeRegions, for any threads, shards and   *)
(* regions and any caps; with it InOnePlace, Recognised, NoFault and       *)
(* IndexExact.  The large tier implements AllocContract.                   *)
(***************************************************************************)
EXTENDS LargeRegions, FiniteSetTheorems, TLAPS

-----------------------------------------------------------------------------
(* Searches. *)

\* Every non-empty set of naturals has a least element.
LEMMA LeastNatural ==
  ASSUME NEW S \in SUBSET Nat, S # {}
  PROVE  \E k \in S : \A m \in S : k <= m
  <1>1. PICK k \in S : \A m \in S : ~(<<m, k>> \in OpToRel(<, Nat))
    BY WFMin, NatLessThanWellFounded
  <1>2. \A m \in S : ~(m < k)
    BY <1>1 DEF OpToRel
  <1>3. \A m \in S : k <= m
    BY <1>2
  <1> QED
    BY <1>3

\* A non-empty set of naturals contains its minimum.
LEMMA MinIn ==
  ASSUME NEW S \in SUBSET Nat, S # {}
  PROVE  Min(S) \in S
  <1>1. \E k \in S : \A m \in S : k <= m
    BY LeastNatural
  <1> QED
    BY <1>1 DEF Min

\* The entries of a sequence, and how long they are.
LEMMA EntryFacts ==
  ASSUME NEW items \in Seq(Entries)
  PROVE  /\ DOMAIN items = 1 .. Len(items) /\ Len(items) \in Nat
         /\ \A i \in DOMAIN items :
              items[i] \in Entries /\ items[i].region \in Region /\ Pages(items[i]) \in Nat \ {0}
  <1>1. DOMAIN items = 1 .. Len(items) /\ Len(items) \in Nat
    OBVIOUS
  <1>2. \A i \in DOMAIN items : items[i] \in Entries
    OBVIOUS
  <1>3. \A e \in Entries : e.region \in Region /\ Pages(e) \in Nat \ {0}
    BY LargeRegionsAssumption DEF Entries, Pages
  <1> QED
    BY <1>1, <1>2, <1>3

\* A scan finds an entry of the length, or there is none.
LEMMA ScanFacts ==
  ASSUME NEW items \in Seq(Entries), NEW n
  PROVE  \/ ScanFor(items, n) \in DOMAIN items /\ Pages(items[ScanFor(items, n)]) = n
         \/ ScanFor(items, n) = 0 /\ \A j \in DOMAIN items : Pages(items[j]) # n
  <1> DEFINE I == {i \in 1 .. Len(items) : Pages(items[i]) = n}
  <1>1. ScanFor(items, n) = IF I # {} THEN Min(I) ELSE 0
    BY DEF ScanFor, SelectInSeq
  <1>2. DOMAIN items = 1 .. Len(items) /\ Len(items) \in Nat
    BY EntryFacts
  <1>3. CASE I = {}
    BY <1>1, <1>2, <1>3
  <1>4. CASE I # {}
    <2>1. I \in SUBSET Nat
      BY <1>2
    <2>2. Min(I) \in I
      BY <1>4, <2>1, MinIn
    <2> QED
      BY <1>1, <1>2, <1>4, <2>2
  <1> QED
    BY <1>3, <1>4

\* The best fit is an entry that is long enough, if there is one.
LEMMA BestFacts ==
  ASSUME NEW items \in Seq(Entries), NEW n \in Nat
  PROVE  \/ BestFit(items, n) \in DOMAIN items /\ Pages(items[BestFit(items, n)]) >= n
         \/ BestFit(items, n) = 0
  <1> DEFINE fit == {i \in DOMAIN items : Pages(items[i]) >= n}
             Better(i, j) == \/ Pages(items[i]) < Pages(items[j])
                             \/ Pages(items[i]) = Pages(items[j]) /\ i <= j
  <1>1. BestFit(items, n) = IF fit = {} THEN 0 ELSE CHOOSE i \in fit : \A j \in fit : Better(i, j)
    BY DEF BestFit
  <1>2. CASE fit = {}
    BY <1>1, <1>2
  <1>3. CASE fit # {}
    <2> DEFINE lengths == {Pages(items[i]) : i \in fit}
    <2>1. lengths \in SUBSET Nat /\ lengths # {}
      BY <1>3, EntryFacts
    <2>2. PICK p \in lengths : \A q \in lengths : p <= q
      BY <2>1, LeastNatural
    <2> DEFINE short == {i \in fit : Pages(items[i]) = p}
    <2>3. short \in SUBSET Nat /\ short # {}
      BY <2>2, EntryFacts
    <2>4. PICK k \in short : \A m \in short : k <= m
      BY <2>3, LeastNatural
    <2>5. \A j \in fit : Better(k, j)
      <3> SUFFICES ASSUME NEW j \in fit PROVE Better(k, j)
        OBVIOUS
      <3>1. Pages(items[k]) = p /\ p \in Nat /\ Pages(items[j]) \in Nat /\ p <= Pages(items[j])
        BY <2>1, <2>2, EntryFacts
      <3>2. CASE Pages(items[j]) = p
        BY <2>4, <3>1, <3>2
      <3>3. CASE Pages(items[j]) # p
        BY <3>1, <3>3
      <3> QED
        BY <3>2, <3>3
    <2>6. k \in fit
      BY <2>4
    <2>7. \E i \in fit : \A j \in fit : Better(i, j)
      BY <2>5, <2>6
    <2> HIDE DEF fit, Better
    <2>8. BestFit(items, n) \in fit
      BY <1>1, <1>3, <2>7
    <2> QED
      BY <2>8 DEF fit
  <1> QED
    BY <1>2, <1>3

\* What the index answers is an entry of the length asked for.
LEMMA ExactFacts ==
  ASSUME NEW tier \in Tiers, NEW n \in Nat
  PROVE  \/ ExactOf(tier, n) \in DOMAIN tier.items /\ Pages(tier.items[ExactOf(tier, n)]) >= n
         \/ ExactOf(tier, n) = 0
  BY DEF ExactOf, Valid

\* take_fit answers with an entry of the shard that is long enough, or none.
LEMMA FitFacts ==
  ASSUME TypeOK, NEW s \in Shard, NEW n \in Nat
  PROVE  LET fit == FitIn(s, n) IN
         \/ /\ fit[1] = "hot" /\ fit[2] \in DOMAIN hot[s].items
            /\ Pages(hot[s].items[fit[2]]) >= n
         \/ /\ fit[1] = "cold" /\ fit[2] \in DOMAIN cold[s].items
            /\ Pages(cold[s].items[fit[2]]) >= n
         \/ fit[1] = "none"
  <1> DEFINE a == ExactOf(hot[s], n)
             b == ExactOf(cold[s], n)
             c == ScanFor(hot[s].items, n)
             d == ScanFor(cold[s].items, n)
             e == BestFit(hot[s].items, n)
             f == BestFit(cold[s].items, n)
             H(i) == i \in DOMAIN hot[s].items /\ Pages(hot[s].items[i]) >= n
             C(i) == i \in DOMAIN cold[s].items /\ Pages(cold[s].items[i]) >= n
             tries == <<<<"hot", a>>, <<"cold", b>>, <<"hot", c>>, <<"cold", d>>, <<"hot", e>>, <<"cold", f>>>>
             I == {i \in 1 .. Len(tries) : tries[i][2] # 0}
             hit == IF I # {} THEN Min(I) ELSE 0
  <1>1. FitIn(s, n) = IF hit = 0 THEN <<"none", 0>> ELSE tries[hit]
    BY DEF FitIn, SelectInSeq
  <1>2. hot[s] \in Tiers /\ cold[s] \in Tiers /\ hot[s].items \in Seq(Entries) /\ cold[s].items \in Seq(Entries)
    BY DEF TypeOK, Tiers
  <1>3. (H(a) \/ a = 0) /\ (C(b) \/ b = 0)
    BY <1>2, ExactFacts
  <1>4. (H(c) \/ c = 0) /\ (C(d) \/ d = 0)
    <2>1. (c \in DOMAIN hot[s].items /\ Pages(hot[s].items[c]) = n) \/ c = 0
      BY <1>2, ScanFacts
    <2>2. (d \in DOMAIN cold[s].items /\ Pages(cold[s].items[d]) = n) \/ d = 0
      BY <1>2, ScanFacts
    <2> HIDE DEF c, d
    <2> QED
      BY <2>1, <2>2
  <1>5. (H(e) \/ e = 0) /\ (C(f) \/ f = 0)
    BY <1>2, BestFacts
  <1> HIDE DEF a, b, c, d, e, f
  <1>6. CASE I = {}
    <2> HIDE DEF I, tries
    <2>1. FitIn(s, n) = <<"none", 0>>
      BY <1>1, <1>6
    <2> QED
      BY <2>1
  <1>7. CASE I # {}
    <2>1. I \subseteq 1 .. 6
      OBVIOUS
    <2>2. I \in SUBSET Nat
      BY <2>1
    <2> HIDE DEF I
    <2>3. hit \in I /\ hit # 0
      BY <1>7, <2>1, <2>2, MinIn
    <2> HIDE DEF hit
    <2>4. FitIn(s, n) = tries[hit] /\ hit \in 1 .. 6 /\ tries[hit][2] # 0
      BY <1>1, <2>1, <2>3 DEF I
    <2>5. tries[hit] \in {<<"hot", a>>, <<"hot", c>>, <<"hot", e>>, <<"cold", b>>, <<"cold", d>>, <<"cold", f>>}
      BY <2>4
    <2> HIDE DEF tries
    <2>6. \/ FitIn(s, n)[1] = "hot" /\ H(FitIn(s, n)[2])
          \/ FitIn(s, n)[1] = "cold" /\ C(FitIn(s, n)[2])
      <3> HIDE DEF H, C
      <3> QED
        BY <1>3, <1>4, <1>5, <2>4, <2>5
    <2> QED
      BY <2>6
  <1> QED
    BY <1>6, <1>7

-----------------------------------------------------------------------------
(* Arrays of regions and entries. *)

\* The last element takes the place of element i.
LEMMA SwapFacts ==
  ASSUME NEW S, NEW seq \in Seq(S), NEW i \in DOMAIN seq
  PROVE  /\ SwapOut(seq, i) \in Seq(S) /\ Len(SwapOut(seq, i)) = Len(seq) - 1
         /\ DOMAIN SwapOut(seq, i) = 1 .. Len(seq) - 1
         /\ \A j \in 1 .. Len(seq) - 1 : SwapOut(seq, i)[j] = IF j = i THEN seq[Len(seq)] ELSE seq[j]
  <1> DEFINE n == Len(seq)
             moved == [seq EXCEPT ![i] = seq[n]]
  <1>1. n \in Nat \ {0} /\ DOMAIN seq = 1 .. n /\ i \in 1 .. n /\ n \in DOMAIN seq
    OBVIOUS
  <1>2. moved \in Seq(S) /\ Len(moved) = n /\ \A j \in 1 .. n : moved[j] = IF j = i THEN seq[n] ELSE seq[j]
    BY <1>1
  <1>3. SwapOut(seq, i) = SubSeq(moved, 1, n - 1)
    BY <1>2 DEF SwapOut, Front, Last
  <1> HIDE DEF moved
  <1>4. /\ SubSeq(moved, 1, n - 1) \in Seq(S) /\ Len(SubSeq(moved, 1, n - 1)) = n - 1
        /\ \A j \in 1 .. n - 1 : SubSeq(moved, 1, n - 1)[j] = moved[j]
    BY <1>1, <1>2
  <1> QED
    BY <1>1, <1>2, <1>3, <1>4

\* If nothing is repeated, it takes just element i out.
LEMMA SwapSet ==
  ASSUME NEW S, NEW seq \in Seq(S), NEW i \in DOMAIN seq,
         Unrepeated(seq)
  PROVE  ToSet(SwapOut(seq, i)) = ToSet(seq) \ {seq[i]} /\ Unrepeated(SwapOut(seq, i))
  <1> DEFINE new == SwapOut(seq, i)
             n == Len(seq)
  <1>1. /\ DOMAIN new = 1 .. n - 1
        /\ \A j \in 1 .. n - 1 : new[j] = IF j = i THEN seq[n] ELSE seq[j]
    BY SwapFacts
  <1>2. n \in Nat \ {0} /\ DOMAIN seq = 1 .. n /\ i \in 1 .. n
    OBVIOUS
  <1> USE DEF Unrepeated
  <1> HIDE DEF new
  <1>3. \A j \in DOMAIN new : new[j] \in ToSet(seq) \ {seq[i]}
    BY <1>1, <1>2 DEF ToSet
  <1>4. ASSUME NEW k \in 1 .. n, seq[k] # seq[i] PROVE \E j \in DOMAIN new : new[j] = seq[k]
    <2>1. k # i
      BY <1>4
    <2>2. CASE k = n
      BY <1>1, <1>2, <2>1, <2>2
    <2>3. CASE k # n
      <3>1. k \in 1 .. n - 1
        <4>1. n \in Nat
          BY <1>2
        <4> HIDE DEF n
        <4> QED
          BY <2>3, <4>1
      <3> QED
        BY <1>1, <2>1, <3>1
    <2> QED
      BY <2>2, <2>3
  <1>5. ToSet(new) = ToSet(seq) \ {seq[i]}
    BY <1>2, <1>3, <1>4 DEF ToSet
  <1>6. \A j, k \in DOMAIN new : new[j] = new[k] => j = k
    BY <1>1, <1>2
  <1> QED
    BY <1>5, <1>6 DEF new

\* An array of entries with no region twice has no entry twice.
LEMMA DistinctFacts ==
  ASSUME NEW items, Distinct(items)
  PROVE  Unrepeated(items) /\ \A e, f \in ToSet(items) : e.region = f.region => e = f
  BY DEF Distinct, Unrepeated, ToSet

\* A tier is its entries and its index.
LEMMA TierFacts ==
  ASSUME NEW tier \in Tiers
  PROVE  /\ tier = [items |-> tier.items, exact |-> tier.exact]
         /\ tier.items \in Seq(Entries) /\ tier.exact \in [1 .. ExactMax -> Nat]
  BY DEF Tiers

\* remove_hot and remove_cold take out entry i and keep the index right.
LEMMA RemoveFacts ==
  ASSUME NEW tier \in Tiers, NEW i \in DOMAIN tier.items, Distinct(tier.items), Indexed(tier)
  PROVE  /\ RemoveEntry(tier, i) \in Tiers
         /\ Distinct(RemoveEntry(tier, i).items)
         /\ ToSet(RemoveEntry(tier, i).items) = ToSet(tier.items) \ {tier.items[i]}
         /\ Indexed(RemoveEntry(tier, i))
  <1> DEFINE items == tier.items
             exact == tier.exact
             last == Len(items)
             p == Pages(items[i])
             q == Pages(items[last])
             items2 == SwapOut(items, i)
             exact2 == IF i < last /\ q <= ExactMax /\ exact[q] = last
                       THEN [exact EXCEPT ![q] = i] ELSE exact
             short == [items |-> items2, exact |-> exact2]
             exact3 == IF p <= ExactMax /\ (exact2[p] = i \/ ~Valid(short, p))
                       THEN [exact2 EXCEPT ![p] = ScanFor(items2, p)] ELSE exact2
             new == [items |-> items2, exact |-> exact3]
  <1>1. tier = [items |-> items, exact |-> exact] /\ items \in Seq(Entries) /\ exact \in [1 .. ExactMax -> Nat]
    BY TierFacts
  <1>2. RemoveEntry(tier, i) = new
    <2>1. [short EXCEPT !.exact =
             IF p <= ExactMax /\ (@[p] = i \/ ~Valid(short, p)) THEN Refresh(short, p) ELSE @] = new
      BY DEF Refresh, ScanFor
    <2> QED
      BY <2>1 DEF RemoveEntry
  <1>3. /\ last \in Nat \ {0} /\ DOMAIN items = 1 .. last /\ i \in 1 .. last
        /\ \A j \in 1 .. last : Pages(items[j]) \in Nat \ {0}
        /\ p \in Nat \ {0} /\ q \in Nat \ {0} /\ ExactMax \in Nat
    BY <1>1, EntryFacts, LargeRegionsAssumption
  <1>4. /\ items2 \in Seq(Entries) /\ DOMAIN items2 = 1 .. last - 1
        /\ \A j \in 1 .. last - 1 : items2[j] = IF j = i THEN items[last] ELSE items[j]
    BY <1>1, SwapFacts
  <1>5. ToSet(items2) = ToSet(items) \ {items[i]}
    BY <1>1, SwapSet, DistinctFacts
  <1>6. Distinct(items2)
    <2> HIDE DEF items2, items
    <2>1. \A j, k \in 1 .. last : items[j].region = items[k].region => j = k
      BY <1>3 DEF Distinct, items
    <2> QED
      BY <1>3, <1>4, <2>1 DEF Distinct
  <1> HIDE DEF items2
  <1>7. exact2 \in [1 .. ExactMax -> Nat]
    BY <1>1, <1>3
  <1>8. ScanFor(items2, p) \in Nat
    BY <1>4, ScanFacts
  <1>9. exact3 \in [1 .. ExactMax -> Nat]
    BY <1>7, <1>8
  <1>10. new \in Tiers
    BY <1>4, <1>9 DEF Tiers
  <1>11. Indexed(new)
    <2> SUFFICES ASSUME NEW k \in 1 .. ExactMax
                 PROVE  IF exact3[k] = 0 THEN \A j \in DOMAIN items2 : Pages(items2[j]) # k
                        ELSE exact3[k] \in DOMAIN items2 /\ Pages(items2[exact3[k]]) = k
      BY DEF Indexed, Valid
    <2>1. IF exact[k] = 0 THEN \A j \in 1 .. last : Pages(items[j]) # k
          ELSE exact[k] \in 1 .. last /\ Pages(items[exact[k]]) = k
      BY <1>1, <1>3 DEF Indexed, Valid
    <2>2. k \in Nat \ {0} /\ k <= ExactMax
      BY <1>3
    <2> HIDE DEF items, exact
    <2>3. CASE k = p /\ (exact2[p] = i \/ ~Valid(short, p))
      <3>1. exact3[k] = ScanFor(items2, k)
        BY <1>7, <2>2, <2>3
      <3> QED
        BY <1>4, <3>1, ScanFacts
    <2>4. CASE k = p /\ exact2[p] # i /\ Valid(short, p)
      <3>1. exact3[k] = exact2[k] /\ exact2[k] \in DOMAIN items2 /\ Pages(items2[exact2[k]]) = k
        BY <2>4 DEF Valid
      <3>2. exact3[k] # 0
        BY <1>4, <3>1, <1>3
      <3> QED
        BY <3>1, <3>2
    <2>5. CASE k # p
      <3>1. exact3[k] = exact2[k]
        BY <1>7, <2>5
      <3> HIDE DEF exact3
      <3>2. CASE i < last /\ q <= ExactMax /\ exact[q] = last /\ k = q
        <4>1. exact2[k] = i /\ Pages(items2[i]) = k /\ i \in DOMAIN items2 /\ i # 0
          BY <1>1, <1>3, <1>4, <3>2 DEF items, exact
        <4> QED
          BY <3>1, <4>1
      <3>3. CASE ~(i < last /\ q <= ExactMax /\ exact[q] = last /\ k = q)
        <4>1. exact2[k] = exact[k]
          BY <1>1, <3>3 DEF items, exact
        <4> HIDE DEF exact2
        <4>2. CASE exact[k] = 0
          <5>1. \A j \in 1 .. last : Pages(items[j]) # k
            BY <2>1, <4>2
          <5>2. \A j \in DOMAIN items2 : Pages(items2[j]) # k
            BY <1>3, <1>4, <5>1 
          <5> QED
            BY <3>1, <4>1, <4>2, <5>2
        <4>3. CASE exact[k] # 0
          <5>1. exact[k] \in 1 .. last /\ Pages(items[exact[k]]) = k
            BY <2>1, <4>3
          <5>2. exact[k] # i
            BY <2>5, <5>1
          <5>3. exact[k] # last
            BY <1>3, <2>2, <3>3, <5>1, <5>2
          <5>4. exact[k] \in 1 .. last - 1
            BY <1>3, <5>1, <5>3
          <5>5. items2[exact[k]] = items[exact[k]]
            BY <1>4, <5>2, <5>4
          <5> QED
            BY <1>4, <3>1, <4>1, <4>3, <5>1, <5>4, <5>5
        <4> QED
          BY <4>2, <4>3
      <3> QED
        BY <3>2, <3>3
    <2> QED
      BY <2>3, <2>4, <2>5
  <1> QED
    BY <1>2, <1>5, <1>6, <1>10, <1>11

\* index_hot and index_cold keep the index right as an entry is added.
LEMMA InsertFacts ==
  ASSUME NEW tier \in Tiers, NEW e \in Entries, Distinct(tier.items), Indexed(tier),
         e.region \notin RegionsIn(tier.items)
  PROVE  /\ InsertEntry(tier, e) \in Tiers
         /\ Distinct(InsertEntry(tier, e).items)
         /\ ToSet(InsertEntry(tier, e).items) = ToSet(tier.items) \cup {e}
         /\ Indexed(InsertEntry(tier, e))
  <1> DEFINE items == tier.items
             exact == tier.exact
             n == Len(items)
             p == Pages(e)
             items2 == Append(items, e)
             new == [items |-> items2, exact |-> exact]
             exact2 == IF p > ExactMax THEN exact
                       ELSE IF exact[p] = 0 THEN [exact EXCEPT ![p] = Len(items2)]
                       ELSE IF Valid(new, p) THEN exact ELSE [exact EXCEPT ![p] = ScanFor(items2, p)]
             last == [items |-> items2, exact |-> exact2]
  <1>1. tier = [items |-> items, exact |-> exact] /\ items \in Seq(Entries) /\ exact \in [1 .. ExactMax -> Nat]
    BY TierFacts
  <1>2. InsertEntry(tier, e) = last
    <2>1. [tier EXCEPT !.items = Append(@, e)] = new
      <3>1. ASSUME NEW x, NEW a, NEW b, x = [items |-> a, exact |-> b], NEW c
            PROVE  [x EXCEPT !.items = c] = [items |-> c, exact |-> b]
        BY <3>1
      <3> QED
        BY <1>1, <3>1
    <2>2. [new EXCEPT !.exact =
             IF p > ExactMax THEN @
             ELSE IF @[p] = 0 THEN [@ EXCEPT ![p] = Len(new.items)]
             ELSE IF Valid(new, p) THEN @ ELSE Refresh(new, p)] = last
      BY DEF Refresh, ScanFor
    <2> QED
      BY <2>1, <2>2 DEF InsertEntry
  <1>3. /\ n \in Nat /\ DOMAIN items = 1 .. n /\ ExactMax \in Nat /\ p \in Nat \ {0}
        /\ \A j \in 1 .. n : Pages(items[j]) \in Nat \ {0}
    BY <1>1, EntryFacts, LargeRegionsAssumption DEF Entries, Pages
  <1>4. /\ items2 \in Seq(Entries) /\ DOMAIN items2 = 1 .. n + 1 /\ Len(items2) = n + 1
        /\ items2[n + 1] = e /\ \A j \in 1 .. n : items2[j] = items[j]
    BY <1>1
  <1>5. ToSet(items2) = ToSet(items) \cup {e}
    <2> HIDE DEF items2, items
    <2> QED
      BY <1>3, <1>4 DEF ToSet
  <1>6. Distinct(items2)
    <2>1. \A j \in 1 .. n : items[j].region # e.region
      BY <1>3 DEF RegionsIn, ToSet
    <2>2. \A j, k \in 1 .. n : items[j].region = items[k].region => j = k
      BY <1>3 DEF Distinct
    <2> HIDE DEF items2, items
    <2> QED
      BY <1>3, <1>4, <2>1, <2>2 DEF Distinct
  <1> HIDE DEF items2
  <1>7. ScanFor(items2, p) \in Nat
    BY <1>4, ScanFacts
  <1>8. exact2 \in [1 .. ExactMax -> Nat]
    BY <1>1, <1>3, <1>4, <1>7
  <1>9. last \in Tiers
    BY <1>4, <1>8 DEF Tiers
  <1>10. Indexed(last)
    <2> SUFFICES ASSUME NEW k \in 1 .. ExactMax
                 PROVE  IF exact2[k] = 0 THEN \A j \in DOMAIN items2 : Pages(items2[j]) # k
                        ELSE exact2[k] \in DOMAIN items2 /\ Pages(items2[exact2[k]]) = k
      BY DEF Indexed, Valid
    <2>1. IF exact[k] = 0 THEN \A j \in 1 .. n : Pages(items[j]) # k
          ELSE exact[k] \in 1 .. n /\ Pages(items[exact[k]]) = k
      BY <1>1, <1>3 DEF Indexed, Valid
    <2>2. k \in Nat \ {0} /\ k <= ExactMax
      BY <1>3
    <2> HIDE DEF items, exact
    <2>3. CASE k # p
      <3>1. exact2[k] = exact[k]
        BY <1>1, <2>3 DEF items, exact
      <3> HIDE DEF exact2
      <3>2. \A j \in 1 .. n + 1 : j = n + 1 \/ j \in 1 .. n
        BY <1>3
      <3>3. 1 .. n \subseteq 1 .. n + 1
        BY <1>3
      <3>4. CASE exact[k] = 0
        BY <1>4, <2>1, <2>3, <3>1, <3>2, <3>4
      <3>5. CASE exact[k] # 0
        BY <1>4, <2>1, <3>1, <3>3, <3>5
      <3> QED
        BY <3>4, <3>5
    <2>4. CASE k = p /\ exact[k] = 0
      <3>1. exact2 = [exact EXCEPT ![p] = Len(items2)] /\ p \in 1 .. ExactMax
        BY <1>3, <2>2, <2>4
      <3>2. exact2[k] = n + 1
        BY <1>1, <1>4, <2>4, <3>1 DEF exact
      <3> QED
        BY <1>3, <1>4, <2>4, <3>2
    <2>5. CASE k = p /\ exact[k] # 0 /\ Valid(new, p)
      <3>1. exact2[k] = exact[k]
        BY <2>5
      <3> QED
        BY <2>5, <3>1 DEF Valid
    <2>6. CASE k = p /\ exact[k] # 0 /\ ~Valid(new, p)
      <3>1. exact2 = [exact EXCEPT ![p] = ScanFor(items2, p)] /\ p \in 1 .. ExactMax
        BY <1>3, <2>2, <2>6
      <3>2. exact2[k] = ScanFor(items2, k)
        BY <1>1, <2>6, <3>1 DEF exact
      <3> QED
        BY <1>4, <3>2, ScanFacts
    <2> QED
      BY <2>3, <2>4, <2>5, <2>6
  <1> QED
    BY <1>2, <1>5, <1>6, <1>9, <1>10

-----------------------------------------------------------------------------
(* Steps, as far as the sets of what is stored go. *)

\* What a stash, or a part of a shard, holds after a step.
StashBecomes(t, S) ==
  \E q \in Seq(Region) : stash' = [stash EXCEPT ![t] = q] /\ ToSet(q) = S /\ Unrepeated(q)
Sound(tier, E) == tier \in Tiers /\ ToSet(tier.items) = E /\ Distinct(tier.items) /\ Indexed(tier)
HotBecomes(s, E) == \E x : hot' = [hot EXCEPT ![s] = x] /\ Sound(x, E)
ColdBecomes(s, E) == \E x : cold' = [cold EXCEPT ![s] = x] /\ Sound(x, E)

StashMiss(t, k, n) ==
  /\ pc[t] = "idle" /\ Goto(t, "shard")
  /\ request' = [request EXCEPT ![t] = [kind |-> k, pages |-> n]]
  /\ UNCHANGED <<osVars, storeVars, regVars, absent, progVars, held>>
StashHit(t, k, n, r) ==
  /\ pc[t] = "idle" /\ Goto(t, "handoff")
  /\ request' = [request EXCEPT ![t] = [kind |-> k, pages |-> n]]
  /\ r \in ToSet(stash[t]) /\ PagesOf[r] >= n
  /\ Hold(t, Entry(r, FALSE, FALSE)) /\ StashBecomes(t, ToSet(stash[t]) \ {r})
  /\ UNCHANGED <<osVars, hot, cold, regVars, absent, progVars>>
TakesHot(t, s, e) ==
  /\ pc[t] = "shard" /\ Goto(t, "handoff")
  /\ e \in ToSet(hot[s].items) /\ Pages(e) >= request[t].pages
  /\ Hold(t, e) /\ HotBecomes(s, ToSet(hot[s].items) \ {e})
  /\ UNCHANGED <<osVars, stash, cold, regVars, absent, progVars, request>>
TakesCold(t, s, e) ==
  /\ pc[t] = "shard" /\ Goto(t, "handoff")
  /\ e \in ToSet(cold[s].items) /\ Pages(e) >= request[t].pages
  /\ Hold(t, e) /\ ColdBecomes(s, ToSet(cold[s].items) \ {e})
  /\ UNCHANGED <<osVars, stash, hot, regVars, absent, progVars, request>>
ShardMiss(t) ==
  /\ pc[t] = "shard" /\ Goto(t, "map")
  /\ UNCHANGED <<osVars, storeVars, regVars, absent, progVars, held, request>>
Pushes(t) ==
  /\ pc[t] = "stash" /\ Done(t)
  /\ StashBecomes(t, ToSet(stash[t]) \cup {held[t].region})
  /\ UNCHANGED <<osVars, hot, cold, regVars, absent, progVars>>
StashFull(t) ==
  /\ pc[t] = "stash" /\ Goto(t, "park")
  /\ UNCHANGED <<osVars, storeVars, regVars, absent, progVars, held, request>>
ParksHot(t, s) ==
  /\ pc[t] = "park" /\ Done(t)
  /\ HotBecomes(s, ToSet(hot[s].items) \cup {held[t]})
  /\ UNCHANGED <<osVars, stash, cold, regVars, absent, progVars>>
ParksCold(t, s, d) ==
  /\ pc[t] = "park" /\ Done(t)
  /\ Discard(held[t].region, d, absent, dirty)
  /\ ColdBecomes(s, ToSet(cold[s].items)
                      \cup {Entry(held[t].region, d.zeroed, d.physical /\ ~d.zeroed)})
  /\ UNCHANGED <<osVars, stash, hot, regVars, live, zeroed>>
ParkFails(t) ==
  /\ pc[t] = "park" /\ Goto(t, "unmap")
  /\ UNCHANGED <<osVars, storeVars, regVars, absent, progVars, held, request>>
Flushes(t, r) ==
  /\ pc[t] = "flush"
  /\ r \in ToSet(stash[t]) /\ Release(r) /\ StashBecomes(t, ToSet(stash[t]) \ {r})
  /\ Goto(t, IF stash'[t] = <<>> THEN "idle" ELSE "flush")
  /\ UNCHANGED <<hot, cold, regVars, absent, progVars, held, request>>

\* A thread holds a region just when it is in the middle of a call.
LEMMA HeldFacts ==
  ASSUME TypeOK, CallInv, NEW t \in Thread
  PROVE  /\ Nothing.region = NoRegion /\ NoRegion \notin Region
         /\ pc[t] \in {"idle", "shard", "map", "flush"} => held[t] = Nothing /\ held[t].region = NoRegion
         /\ pc[t] \notin {"idle", "shard", "map", "flush"} =>
              /\ held[t] \in Entries /\ held[t].region \in Region
              /\ held[t].zeroed \in BOOLEAN /\ held[t].decommitted \in BOOLEAN
              /\ PagesOf[held[t].region] \in Nat \ {0}
  <1>1. held[t] \in Entries \cup {Nothing}
    BY DEF TypeOK
  <1>2. held[t] = Nothing <=> pc[t] \in {"idle", "shard", "map", "flush"}
    BY DEF CallInv
  <1>3. Nothing.region = NoRegion /\ NoRegion \notin Region
    BY LargeRegionsAssumption DEF Nothing, Entry
  <1>4. \A e \in Entries : /\ e.region \in Region /\ e.zeroed \in BOOLEAN /\ e.decommitted \in BOOLEAN
                           /\ PagesOf[e.region] \in Nat \ {0}
    BY LargeRegionsAssumption DEF Entries
  <1> QED
    BY <1>1, <1>2, <1>3, <1>4

\* What a thread's hands hold is in no stash and no shard.
LEMMA HandApart ==
  ASSUME TypeOK, CallInv, Apart, NEW t \in Thread, held[t].region \in Region
  PROVE  /\ held[t].region \notin live /\ held[t].region \notin leaked /\ held[t].region \in mapped
         /\ \A u \in Thread : held[t].region \notin ToSet(stash[u])
         /\ \A u \in Thread : u # t => held[u].region # held[t].region
         /\ \A s \in Shard : held[t].region \notin RegionsIn(hot[s].items)
         /\ \A s \in Shard : held[t].region \notin RegionsIn(cold[s].items)
  <1> DEFINE h == <<"hand", t>>
             r == held[t].region
  <1>1. h \in Places /\ Keeps(h) = {r}
    BY LargeRegionsAssumption DEF Places, Keeps
  <1>2. \A p \in Places : p # h => r \notin Keeps(p)
    BY <1>1 DEF Apart
  <1>3. r \in mapped
    BY <1>1 DEF Apart
  <1>4. r \notin live /\ r \notin leaked
    <2>1. /\ <<"program", 0>> \in Places /\ <<"program", 0>> # h /\ Keeps(<<"program", 0>>) = live
          /\ <<"leaked", 0>> \in Places /\ <<"leaked", 0>> # h /\ Keeps(<<"leaked", 0>>) = leaked
      BY DEF Places, Keeps
    <2> QED
      BY <1>2, <2>1
  <1>5. ASSUME NEW u \in Thread
        PROVE  r \notin ToSet(stash[u]) /\ (u # t => held[u].region # r)
    <2>1. <<"stash", u>> \in Places /\ <<"stash", u>> # h /\ Keeps(<<"stash", u>>) = ToSet(stash[u])
      BY DEF Places, Keeps
    <2>2. <<"hand", u>> \in Places /\ Keeps(<<"hand", u>>) = {held[u].region} \ {NoRegion}
      BY DEF Places, Keeps
    <2>3. u # t => <<"hand", u>> # h
      OBVIOUS
    <2> QED
      BY <1>2, <2>1, <2>2, <2>3, LargeRegionsAssumption
  <1>6. ASSUME NEW s \in Shard
        PROVE  r \notin RegionsIn(hot[s].items) /\ r \notin RegionsIn(cold[s].items)
    <2>1. /\ <<"hot", s>> \in Places /\ <<"hot", s>> # h /\ Keeps(<<"hot", s>>) = RegionsIn(hot[s].items)
          /\ <<"cold", s>> \in Places /\ <<"cold", s>> # h /\ Keeps(<<"cold", s>>) = RegionsIn(cold[s].items)
      BY DEF Places, Keeps
    <2> QED
      BY <1>2, <2>1
  <1> QED
    BY <1>3, <1>4, <1>5, <1>6

\* take_large_stash.
LEMMA AllocView ==
  ASSUME LargeInv, NEW t \in Thread, NEW k, NEW n \in Nat, BeginAlloc(t, k, n)
  PROVE  StashMiss(t, k, n) \/ \E r \in Region : StashHit(t, k, n, r)
  <1> DEFINE items == [j \in DOMAIN stash[t] |-> Entry(stash[t][j], FALSE, FALSE)]
             i == IF ScanFor(items, n) # 0 THEN ScanFor(items, n) ELSE BestFit(items, n)
             r == stash[t][i]
  <1>1. stash[t] \in Seq(Region) /\ Unrepeated(stash[t]) /\ stash \in [Thread -> Seq(Region)]
    BY DEF LargeInv, TypeOK, InOnePlace, NoRepeats
  <1>2. items \in Seq(Entries) /\ DOMAIN items = DOMAIN stash[t]
    <2>1. DOMAIN stash[t] = 1 .. Len(stash[t]) /\ Len(stash[t]) \in Nat
      BY <1>1
    <2>2. \A j \in DOMAIN stash[t] : Entry(stash[t][j], FALSE, FALSE) \in Entries
      BY <1>1 DEF Entries, Entry
    <2>3. items \in [1 .. Len(stash[t]) -> Entries]
      BY <2>1, <2>2
    <2>4. DOMAIN items = DOMAIN stash[t]
      OBVIOUS
    <2> HIDE DEF items
    <2> QED
      BY <2>1, <2>3, <2>4
  <1>3. CASE Goto(t, "shard") /\ UNCHANGED <<stash, held>>
    BY <1>3 DEF BeginAlloc, StashMiss, storeVars
  <1>4. CASE /\ i # 0 /\ Hold(t, items[i]) /\ Goto(t, "handoff")
             /\ stash' = [stash EXCEPT ![t] = SwapOut(@, i)]
    <2>1. i \in DOMAIN items /\ Pages(items[i]) >= n
      <3>1. \/ ScanFor(items, n) \in DOMAIN items /\ Pages(items[ScanFor(items, n)]) = n
            \/ ScanFor(items, n) = 0
        BY <1>2, ScanFacts
      <3>2. \/ BestFit(items, n) \in DOMAIN items /\ Pages(items[BestFit(items, n)]) >= n
            \/ BestFit(items, n) = 0
        BY <1>2, BestFacts
      <3> HIDE DEF items
      <3> QED
        BY <1>4, <3>1, <3>2
    <2> HIDE DEF i
    <2>2. i \in DOMAIN stash[t] /\ r \in Region /\ items[i] = Entry(r, FALSE, FALSE)
      BY <1>1, <1>2, <2>1
    <2>3. PagesOf[r] >= n /\ r \in ToSet(stash[t])
      BY <2>1, <2>2 DEF Pages, Entry, ToSet
    <2>4. /\ SwapOut(stash[t], i) \in Seq(Region) /\ Unrepeated(SwapOut(stash[t], i))
          /\ ToSet(SwapOut(stash[t], i)) = ToSet(stash[t]) \ {r}
      BY <1>1, <2>2, SwapFacts, SwapSet
    <2>5. stash' = [stash EXCEPT ![t] = SwapOut(stash[t], i)]
      BY <1>1, <1>4
    <2>6. StashBecomes(t, ToSet(stash[t]) \ {r})
      BY <2>4, <2>5 DEF StashBecomes
    <2>7. StashHit(t, k, n, r)
      BY <1>4, <2>2, <2>3, <2>6 DEF BeginAlloc, StashHit
    <2> QED
      BY <2>2, <2>7
  <1> QED
    BY <1>3, <1>4 DEF BeginAlloc

\* Every part of a shard is sound.
LEMMA TierSound ==
  ASSUME LargeInv, NEW s \in Shard
  PROVE  /\ hot[s] \in Tiers /\ Distinct(hot[s].items) /\ Indexed(hot[s])
         /\ cold[s] \in Tiers /\ Distinct(cold[s].items) /\ Indexed(cold[s])
         /\ hot \in [Shard -> Tiers] /\ cold \in [Shard -> Tiers]
  BY DEF LargeInv, TypeOK, InOnePlace, NoRepeats, IndexExact

\* take_fit and remove_hot or remove_cold.
LEMMA TakeView ==
  ASSUME LargeInv, NEW t \in Thread, TakeShard(t)
  PROVE  \/ ShardMiss(t)
         \/ \E s \in Shard : \E e \in Entries : TakesHot(t, s, e) \/ TakesCold(t, s, e)
  <1>1. PICK s \in Shard :
          LET fit == FitIn(s, request[t].pages) IN
          \/ /\ fit[1] = "hot"
             /\ Hold(t, hot[s].items[fit[2]]) /\ hot' = [hot EXCEPT ![s] = RemoveEntry(@, fit[2])]
             /\ Goto(t, "handoff") /\ UNCHANGED cold
          \/ /\ fit[1] = "cold"
             /\ Hold(t, cold[s].items[fit[2]]) /\ cold' = [cold EXCEPT ![s] = RemoveEntry(@, fit[2])]
             /\ Goto(t, "handoff") /\ UNCHANGED hot
          \/ /\ fit[1] = "none"
             /\ Goto(t, "map") /\ UNCHANGED <<held, hot, cold>>
    BY DEF TakeShard
  <1> DEFINE fit == FitIn(s, request[t].pages)
             i == fit[2]
  <1>2. request[t].pages \in Nat /\ TypeOK
    BY DEF LargeInv, TypeOK
  <1>3. \/ fit[1] = "hot" /\ i \in DOMAIN hot[s].items /\ Pages(hot[s].items[i]) >= request[t].pages
        \/ fit[1] = "cold" /\ i \in DOMAIN cold[s].items /\ Pages(cold[s].items[i]) >= request[t].pages
        \/ fit[1] = "none"
    BY <1>2, FitFacts
  <1> HIDE DEF fit
  <1>4. CASE fit[1] = "none"
    BY <1>1, <1>4 DEF TakeShard, ShardMiss, storeVars, fit
  <1>5. CASE fit[1] = "hot"
    <2> DEFINE e == hot[s].items[i]
    <2>1. /\ i \in DOMAIN hot[s].items /\ Pages(e) >= request[t].pages /\ Hold(t, e) /\ Goto(t, "handoff")
          /\ hot' = [hot EXCEPT ![s] = RemoveEntry(hot[s], i)] /\ UNCHANGED cold
      BY <1>1, <1>3, <1>5, TierSound DEF fit
    <2>2. Sound(RemoveEntry(hot[s], i), ToSet(hot[s].items) \ {e})
      BY <2>1, TierSound, RemoveFacts DEF Sound
    <2>3. HotBecomes(s, ToSet(hot[s].items) \ {e})
      BY <2>1, <2>2 DEF HotBecomes
    <2>4. e \in Entries /\ e \in ToSet(hot[s].items)
      BY <2>1, TierSound, TierFacts DEF ToSet
    <2>5. TakesHot(t, s, e)
      BY <2>1, <2>3, <2>4 DEF TakeShard, TakesHot
    <2> QED
      BY <2>4, <2>5
  <1>6. CASE fit[1] = "cold"
    <2> DEFINE e == cold[s].items[i]
    <2>1. /\ i \in DOMAIN cold[s].items /\ Pages(e) >= request[t].pages /\ Hold(t, e) /\ Goto(t, "handoff")
          /\ cold' = [cold EXCEPT ![s] = RemoveEntry(cold[s], i)] /\ UNCHANGED hot
      BY <1>1, <1>3, <1>6, TierSound DEF fit
    <2>2. Sound(RemoveEntry(cold[s], i), ToSet(cold[s].items) \ {e})
      BY <2>1, TierSound, RemoveFacts DEF Sound
    <2>3. ColdBecomes(s, ToSet(cold[s].items) \ {e})
      BY <2>1, <2>2 DEF ColdBecomes
    <2>4. e \in Entries /\ e \in ToSet(cold[s].items)
      BY <2>1, TierSound, TierFacts DEF ToSet
    <2>5. TakesCold(t, s, e)
      BY <2>1, <2>3, <2>4 DEF TakeShard, TakesCold
    <2> QED
      BY <2>4, <2>5
  <1> QED
    BY <1>3, <1>4, <1>5, <1>6

\* push_large_stash.
LEMMA PushView ==
  ASSUME LargeInv, NEW t \in Thread, PushStash(t)
  PROVE  StashFull(t) \/ Pushes(t)
  <1> DEFINE r == held[t].region
             q == Append(stash[t], r)
  <1>1. stash[t] \in Seq(Region) /\ Unrepeated(stash[t]) /\ stash \in [Thread -> Seq(Region)]
    BY DEF LargeInv, TypeOK, InOnePlace, NoRepeats
  <1>2. r \in Region
    BY HeldFacts DEF LargeInv, PushStash
  <1>3. r \notin ToSet(stash[t])
    BY <1>2, HandApart DEF LargeInv, InOnePlace
  <1> HIDE DEF r
  <1>4. q \in Seq(Region) /\ Len(q) = Len(stash[t]) + 1 /\ DOMAIN q = 1 .. Len(stash[t]) + 1
    BY <1>1, <1>2
  <1>5. q[Len(stash[t]) + 1] = r /\ \A j \in 1 .. Len(stash[t]) : q[j] = stash[t][j]
    BY <1>1, <1>2
  <1>6. ToSet(q) = ToSet(stash[t]) \cup {r} /\ Unrepeated(q)
    <2> DEFINE n == Len(stash[t])
    <2>1. n \in Nat /\ DOMAIN stash[t] = 1 .. n
      BY <1>1
    <2> HIDE DEF q, n
    <2>2. \A j \in 1 .. n + 1 : j = n + 1 \/ j \in 1 .. n
      BY <2>1
    <2>3. n + 1 \in 1 .. n + 1 /\ \A j \in 1 .. n : j \in 1 .. n + 1
      BY <2>1
    <2>4. DOMAIN q = 1 .. n + 1 /\ q[n + 1] = r /\ \A j \in 1 .. n : q[j] = stash[t][j]
      BY <1>4, <1>5 DEF n
    <2>5. \A j \in 1 .. n : stash[t][j] # r
      BY <1>3, <2>1 DEF ToSet
    <2>6. ToSet(q) = ToSet(stash[t]) \cup {r}
      BY <2>1, <2>2, <2>3, <2>4 DEF ToSet
    <2>7. Unrepeated(q)
      BY <1>1, <2>1, <2>2, <2>4, <2>5 DEF Unrepeated
    <2> QED
      BY <2>6, <2>7
  <1>7. CASE stash' = [stash EXCEPT ![t] = Append(@, r)] /\ Done(t)
    <2>1. stash' = [stash EXCEPT ![t] = q]
      BY <1>1, <1>7
    <2>2. StashBecomes(t, ToSet(stash[t]) \cup {r})
      BY <1>4, <1>6, <2>1 DEF StashBecomes
    <2> QED
      BY <1>7, <2>2 DEF PushStash, Pushes, r
  <1>8. CASE Goto(t, "park") /\ UNCHANGED <<stash, held, request>>
    BY <1>8 DEF PushStash, StashFull, storeVars
  <1> QED
    BY <1>7, <1>8 DEF PushStash, r

\* free_large, under the shard's lock.
LEMMA ParkView ==
  ASSUME LargeInv, NEW t \in Thread, Park(t)
  PROVE  \/ ParkFails(t)
         \/ \E s \in Shard : ParksHot(t, s) \/ \E d \in DiscardOutcomes : ParksCold(t, s, d)
  <1> DEFINE e == held[t]
             C(d) == Entry(e.region, d.zeroed, d.physical /\ ~d.zeroed)
  <1>1. PICK s \in Shard :
          \/ /\ hot' = [hot EXCEPT ![s] = InsertEntry(@, e)]
             /\ Done(t) /\ UNCHANGED <<cold, absent, dirty>>
          \/ /\ \E d \in DiscardOutcomes :
                  /\ Discard(e.region, d, absent, dirty)
                  /\ cold' = [cold EXCEPT ![s] = InsertEntry(@, C(d))]
             /\ Done(t) /\ UNCHANGED hot
          \/ Goto(t, "unmap") /\ UNCHANGED <<hot, cold, absent, dirty, held, request>>
    BY DEF Park
  <1>2. pc[t] = "park" /\ UNCHANGED <<osVars, stash, regVars, live, zeroed>>
    BY DEF Park
  <1>3. e \in Entries /\ e.region \in Region
    BY <1>2, HeldFacts DEF LargeInv
  <1>4. e.region \notin RegionsIn(hot[s].items) /\ e.region \notin RegionsIn(cold[s].items)
    BY <1>3, HandApart DEF LargeInv, InOnePlace
  <1> HIDE DEF e
  <1>5. CASE Goto(t, "unmap") /\ UNCHANGED <<hot, cold, absent, dirty, held, request>>
    BY <1>2, <1>5 DEF ParkFails, storeVars, progVars
  <1>6. CASE hot' = [hot EXCEPT ![s] = InsertEntry(@, e)] /\ Done(t) /\ UNCHANGED <<cold, absent, dirty>>
    <2>1. hot' = [hot EXCEPT ![s] = InsertEntry(hot[s], e)]
      BY <1>6, TierSound
    <2>2. Sound(InsertEntry(hot[s], e), ToSet(hot[s].items) \cup {e})
      BY <1>3, <1>4, TierSound, InsertFacts DEF Sound
    <2>3. HotBecomes(s, ToSet(hot[s].items) \cup {e})
      BY <2>1, <2>2 DEF HotBecomes
    <2>4. ParksHot(t, s)
      BY <1>2, <1>6, <2>3 DEF ParksHot, progVars, e
    <2> QED
      BY <2>4
  <1>7. ASSUME NEW d \in DiscardOutcomes, Discard(e.region, d, absent, dirty),
               cold' = [cold EXCEPT ![s] = InsertEntry(@, C(d))], Done(t), UNCHANGED hot
        PROVE  ParksCold(t, s, d)
    <2>1. d.zeroed \in BOOLEAN /\ d.physical \in BOOLEAN
      BY LargeRegionsAssumption
    <2>2. C(d) \in Entries /\ C(d).region = e.region
      BY <1>3, <2>1 DEF Entries, Entry
    <2>3. cold' = [cold EXCEPT ![s] = InsertEntry(cold[s], C(d))]
      BY <1>7, TierSound
    <2>4. C(d).region \notin RegionsIn(cold[s].items)
      BY <1>4, <2>2
    <2> HIDE DEF C
    <2>5. Sound(InsertEntry(cold[s], C(d)), ToSet(cold[s].items) \cup {C(d)})
      BY <2>2, <2>4, TierSound, InsertFacts DEF Sound
    <2>6. ColdBecomes(s, ToSet(cold[s].items) \cup {C(d)})
      BY <2>3, <2>5 DEF ColdBecomes
    <2> QED
      BY <1>2, <1>7, <2>6 DEF ParksCold, C, e
  <1> QED
    BY <1>1, <1>5, <1>6, <1>7

\* flush_all, one region.
LEMMA FlushView ==
  ASSUME LargeInv, NEW t \in Thread, FlushRegion(t)
  PROVE  \E r \in Region : Flushes(t, r)
  <1> DEFINE q == stash[t]
             r == Head(q)
  <1>1. q \in Seq(Region) /\ Unrepeated(q) /\ stash \in [Thread -> Seq(Region)] /\ q # <<>>
    BY DEF LargeInv, TypeOK, InOnePlace, NoRepeats, CallInv, FlushRegion
  <1> HIDE DEF q
  <1>2. stash' = [stash EXCEPT ![t] = Tail(q)] /\ pc[t] = "flush" /\ Release(r)
    BY <1>1 DEF FlushRegion, q
  <1>3. /\ Tail(q) \in Seq(Region) /\ Len(Tail(q)) = Len(q) - 1 /\ Len(q) \in Nat \ {0}
        /\ DOMAIN q = 1 .. Len(q) /\ DOMAIN Tail(q) = 1 .. Len(q) - 1
        /\ r = q[1] /\ \A j \in 1 .. Len(q) - 1 : Tail(q)[j] = q[j + 1]
    BY <1>1
  <1> DEFINE n == Len(q)
             v == Tail(q)
  <1> HIDE DEF n, v, r
  <1>4. n \in Nat \ {0} /\ DOMAIN q = 1 .. n /\ DOMAIN v = 1 .. n - 1 /\ r = q[1]
        /\ \A j \in 1 .. n - 1 : v[j] = q[j + 1]
    BY <1>3 DEF n, v
  <1>5. r \in Region /\ r \in ToSet(q)
    BY <1>1, <1>4 DEF ToSet
  <1>6. Unrepeated(v)
    <2> SUFFICES ASSUME NEW j \in 1 .. n - 1, NEW k \in 1 .. n - 1, v[j] = v[k] PROVE j = k
      BY <1>4 DEF Unrepeated
    <2>1. j + 1 \in DOMAIN q /\ k + 1 \in DOMAIN q
      BY <1>4
    <2>2. q[j + 1] = q[k + 1]
      BY <1>4
    <2>3. j + 1 = k + 1
      BY <1>1, <2>1, <2>2 DEF Unrepeated
    <2> QED
      BY <1>4, <2>3
  <1>7. ToSet(v) = ToSet(q) \ {r}
    <2>1. \A j \in 1 .. n - 1 : j + 1 \in 1 .. n /\ j + 1 # 1
      BY <1>4
    <2>2. \A k \in 1 .. n : k # 1 => k - 1 \in 1 .. n - 1 /\ k - 1 + 1 = k
      BY <1>4
    <2>3. \A j \in 1 .. n - 1 : v[j] \in ToSet(q) /\ v[j] # r
      <3> SUFFICES ASSUME NEW j \in 1 .. n - 1 PROVE v[j] \in ToSet(q) /\ v[j] # r
        OBVIOUS
      <3>1. j + 1 \in DOMAIN q /\ 1 \in DOMAIN q /\ j + 1 # 1
        BY <1>4, <2>1
      <3>2. q[j + 1] # q[1]
        BY <1>1, <3>1 DEF Unrepeated
      <3> QED
        BY <1>4, <3>1, <3>2 DEF ToSet
    <2>4. ASSUME NEW k \in 1 .. n, q[k] # r PROVE \E j \in 1 .. n - 1 : v[j] = q[k]
      BY <1>4, <2>2, <2>4
    <2>5. ToSet(v) \subseteq ToSet(q) \ {r}
      BY <1>4, <2>3 DEF ToSet
    <2>6. ToSet(q) \ {r} \subseteq ToSet(v)
      <3> SUFFICES ASSUME NEW x \in ToSet(q), x # r PROVE x \in ToSet(v)
        OBVIOUS
      <3>1. PICK k \in 1 .. n : q[k] = x
        BY <1>4 DEF ToSet
      <3>2. PICK j \in 1 .. n - 1 : v[j] = q[k]
        BY <2>4, <3>1
      <3> QED
        BY <1>4, <3>1, <3>2 DEF ToSet
    <2> QED
      BY <2>5, <2>6
  <1>8. StashBecomes(t, ToSet(q) \ {r})
    BY <1>2, <1>3, <1>6, <1>7 DEF StashBecomes, v
  <1>9. stash'[t] = <<>> <=> Len(q) = 1
    <2>1. stash'[t] = Tail(q)
      BY <1>1, <1>2
    <2>2. v \in Seq(Region) /\ Len(v) = Len(q) - 1
      BY <1>3 DEF v
    <2>3. v = <<>> <=> Len(v) = 0
      BY <2>2
    <2> QED
      BY <1>3, <2>1, <2>2, <2>3 DEF v
  <1>10. Flushes(t, r)
    BY <1>2, <1>5, <1>8, <1>9 DEF FlushRegion, Flushes, q, r
  <1> QED
    BY <1>5, <1>10

-----------------------------------------------------------------------------
(* Every step, seen this way. *)

CallView(t) ==
  \/ \E k \in Requests, n \in Nat : StashMiss(t, k, n) \/ \E r \in Region : StashHit(t, k, n, r)
  \/ \E r \in live : Free(t, r)
  \/ BeginFlush(t) \/ \E u \in Thread : Adopt(t, u)
AllocatingView(t) ==
  \/ ShardMiss(t) \/ \E s \in Shard : \E e \in Entries : TakesHot(t, s, e) \/ TakesCold(t, s, e)
  \/ MapRegion(t) \/ Handoff(t) \/ CountRegion(t) \/ LinkRegion(t)
FreeingView(t) ==
  \/ StashFull(t) \/ Pushes(t) \/ ParkFails(t)
  \/ \E s \in Shard : ParksHot(t, s) \/ \E d \in DiscardOutcomes : ParksCold(t, s, d)
  \/ UnmapRegion(t) \/ \E r \in Region : Flushes(t, r)

\* Nothing else happens.
LEMMA NextView ==
  ASSUME LargeInv, Next
  PROVE  \E t \in Thread : CallView(t) \/ AllocatingView(t) \/ FreeingView(t)
  <1>1. PICK t \in Thread :
          \/ \E k \in Requests, n \in {PagesOf[r] : r \in Region} : BeginAlloc(t, k, n)
          \/ \E r \in live : Free(t, r)
          \/ BeginFlush(t) \/ Continue(t)
          \/ \E u \in Thread : Adopt(t, u)
    BY DEF Next
  <1>2. ASSUME NEW k \in Requests, NEW n \in {PagesOf[r] : r \in Region}, BeginAlloc(t, k, n)
        PROVE  CallView(t)
    <2>1. n \in Nat
      BY LargeRegionsAssumption
    <2> QED
      BY <1>2, <2>1, AllocView DEF CallView
  <1>3. (\E r \in live : Free(t, r)) \/ BeginFlush(t) \/ (\E u \in Thread : Adopt(t, u)) => CallView(t)
    BY DEF CallView
  <1>4. CASE Continue(t)
    <2>1. TakeShard(t) => AllocatingView(t)
      BY TakeView DEF AllocatingView
    <2>2. MapRegion(t) \/ Handoff(t) \/ CountRegion(t) \/ LinkRegion(t) => AllocatingView(t)
      BY DEF AllocatingView
    <2>3. PushStash(t) => FreeingView(t)
      BY PushView DEF FreeingView
    <2>4. Park(t) => FreeingView(t)
      BY ParkView DEF FreeingView
    <2>5. FlushRegion(t) => FreeingView(t)
      BY FlushView DEF FreeingView
    <2>6. UnmapRegion(t) => FreeingView(t)
      BY DEF FreeingView
    <2> QED
      BY <1>4, <2>1, <2>2, <2>3, <2>4, <2>5, <2>6 DEF Continue
  <1> QED
    BY <1>1, <1>2, <1>3, <1>4

\* What a step does to the stores.
LEMMA StashAfter ==
  ASSUME TypeOK, NEW t \in Thread, NEW S, StashBecomes(t, S)
  PROVE  /\ stash' \in [Thread -> Seq(Region)] /\ ToSet(stash'[t]) = S /\ Unrepeated(stash'[t])
         /\ \A u \in Thread : u # t => stash'[u] = stash[u]
  BY DEF TypeOK, StashBecomes

\* The hot part of shard s after it changed, and the other shards.
LEMMA HotAfter ==
  ASSUME TypeOK, NEW s \in Shard, NEW E, HotBecomes(s, E)
  PROVE  /\ hot' \in [Shard -> Tiers] /\ Sound(hot'[s], E)
         /\ \A x \in Shard : x # s => hot'[x] = hot[x]
  <1>1. PICK x : hot' = [hot EXCEPT ![s] = x] /\ Sound(x, E)
    BY DEF HotBecomes
  <1>2. x \in Tiers /\ hot \in [Shard -> Tiers]
    BY <1>1 DEF Sound, TypeOK
  <1> QED
    BY <1>1, <1>2

\* The cold part of shard s after it changed, and the other shards.
LEMMA ColdAfter ==
  ASSUME TypeOK, NEW s \in Shard, NEW E, ColdBecomes(s, E)
  PROVE  /\ cold' \in [Shard -> Tiers] /\ Sound(cold'[s], E)
         /\ \A x \in Shard : x # s => cold'[x] = cold[x]
  <1>1. PICK x : cold' = [cold EXCEPT ![s] = x] /\ Sound(x, E)
    BY DEF ColdBecomes
  <1>2. x \in Tiers /\ cold \in [Shard -> Tiers]
    BY <1>1 DEF Sound, TypeOK
  <1> QED
    BY <1>1, <1>2

\* A step of t leaves the other threads' places in their calls alone.
Others(t) == \A u \in Thread : u # t => pc'[u] = pc[u] /\ held'[u] = held[u] /\ request'[u] = request[u]

\* So does every step.
LEMMA OthersStep ==
  ASSUME TypeOK, NEW t \in Thread, CallView(t) \/ AllocatingView(t) \/ FreeingView(t)
  PROVE  Others(t)
  <1> USE DEF TypeOK, Others, Goto, Hold, Done, localVars
  <1>1. CallView(t) => Others(t)
    BY DEF CallView, StashMiss, StashHit, Free, BeginFlush, Adopt
  <1>2. AllocatingView(t) => Others(t)
    BY DEF AllocatingView, ShardMiss, TakesHot, TakesCold, MapRegion, Handoff, CountRegion, LinkRegion
  <1>3. FreeingView(t) => Others(t)
    BY DEF FreeingView, StashFull, Pushes, ParkFails, ParksHot, ParksCold, UnmapRegion, Flushes
  <1> QED
    BY <1>1, <1>2, <1>3

-----------------------------------------------------------------------------
(* The registry's count. *)

\* The threads about to link stay the same if t is one before and after, or is none.
LEMMA LinkingSame ==
  ASSUME NEW t \in Thread, Others(t),
         (pc[t] = "link" /\ held[t].region \notin ArenaRegion)
           <=> (pc'[t] = "link" /\ held'[t].region \notin ArenaRegion)
  PROVE  Linking' = Linking
  BY DEF Linking, Others

\* Every step keeps the registry's count exact: alloc_large_ex counts before it
\* links, and a free lowers the count for a legacy region only.
LEMMA CountStep ==
  ASSUME LargeInv, NEW t \in Thread, CallView(t) \/ AllocatingView(t) \/ FreeingView(t)
  PROVE  Recognised' /\ FiniteInv' /\ registryLen' \in Nat
  <1>1. Others(t)
    BY OthersStep DEF LargeInv
  <1>2. /\ pc \in [Thread -> {"idle", "shard", "map", "handoff", "count", "link", "stash", "park", "unmap", "flush"}]
        /\ DOMAIN held = Thread /\ registryLen \in Nat /\ live \in SUBSET Region /\ known \in SUBSET Region
    BY DEF LargeInv, TypeOK
  <1> DEFINE K == known \ ArenaRegion
  <1>3. /\ live = known /\ Cardinality(K) + Cardinality(Linking) = registryLen
        /\ IsFiniteSet(known) /\ IsFiniteSet(K) /\ IsFiniteSet(Linking)
        /\ Cardinality(K) \in Nat /\ Cardinality(Linking) \in Nat
    BY FS_Difference, FS_CardinalityType DEF LargeInv, Recognised, FiniteInv
  <1>4. ASSUME UNCHANGED <<known, registryLen, live>>, Linking' = Linking
        PROVE  Recognised' /\ FiniteInv' /\ registryLen' \in Nat
    BY <1>2, <1>3, <1>4 DEF Recognised, FiniteInv
  <1>5. ASSUME UNCHANGED <<known, registryLen, live>>, pc[t] # "link", pc'[t] # "link"
        PROVE  Recognised' /\ FiniteInv' /\ registryLen' \in Nat
    <2>1. Linking' = Linking
      BY <1>1, <1>5, LinkingSame
    <2> QED
      BY <1>4, <1>5, <2>1
  <1>6. CASE /\ CallView(t) \/ AllocatingView(t) \/ FreeingView(t)
             /\ ~Handoff(t) /\ ~CountRegion(t) /\ ~LinkRegion(t) /\ ~(\E r \in live : Free(t, r))
    <2>1. UNCHANGED <<known, registryLen, live>> /\ pc[t] # "link" /\ pc'[t] # "link"
      <3> USE <1>2 DEF Goto, Hold, Done, localVars, regVars, progVars
      <3>1. CASE CallView(t)
        BY <1>6, <3>1 DEF CallView, StashMiss, StashHit, BeginFlush, Adopt
      <3>2. CASE AllocatingView(t)
        BY <1>6, <3>2 DEF AllocatingView, ShardMiss, TakesHot, TakesCold, MapRegion
      <3>3. CASE FreeingView(t)
        BY <1>6, <3>3 DEF FreeingView, StashFull, Pushes, ParkFails, ParksHot, ParksCold, UnmapRegion, Flushes
      <3> QED
        BY <1>6, <3>1, <3>2, <3>3
    <2> QED
      BY <1>5, <2>1
  <1>7. CASE Handoff(t)
    <2>1. UNCHANGED <<known, registryLen, live>>
      BY <1>7 DEF Handoff, regVars
    <2>2. /\ pc[t] = "handoff" /\ held'[t].region = held[t].region
          /\ pc'[t] = "link" => held[t].region \in ArenaRegion
      BY <1>2, <1>7 DEF Handoff, Goto, Hold, Entry
    <2>3. Linking' = Linking
      BY <1>1, <2>2, LinkingSame
    <2> QED
      BY <1>4, <2>1, <2>3
  <1>8. CASE CountRegion(t)
    <2>1. /\ UNCHANGED <<known, live, held>> /\ registryLen' = registryLen + 1
          /\ pc[t] = "count" /\ pc'[t] = "link"
      BY <1>2, <1>8 DEF CountRegion, Goto, progVars
    <2>2. held[t].region \notin ArenaRegion
      BY <2>1 DEF LargeInv, CallInv
    <2>3. Linking' = Linking \cup {t} /\ t \notin Linking
      BY <1>1, <2>1, <2>2 DEF Linking, Others
    <2>4. IsFiniteSet(Linking') /\ Cardinality(Linking') = Cardinality(Linking) + 1
      BY <1>3, <2>3, FS_AddElement
    <2>5. Recognised'
      BY <1>2, <1>3, <2>1, <2>4 DEF Recognised
    <2> QED
      BY <1>2, <1>3, <2>1, <2>4, <2>5 DEF FiniteInv
  <1>9. CASE LinkRegion(t)
    <2> DEFINE r == held[t].region
    <2>1. /\ known' = known \cup {r} /\ live' = live \cup {r} /\ registryLen' = registryLen
          /\ pc[t] = "link" /\ pc'[t] = "idle"
      BY <1>2, <1>9 DEF LinkRegion, Done, Goto
    <2>2. r \in Region /\ r \notin live
      BY <2>1, HeldFacts, HandApart DEF LargeInv, InOnePlace
    <2>3. IsFiniteSet(known')
      BY <1>3, <2>1, FS_AddElement
    <2>4. CASE r \in ArenaRegion
      <3>1. (known \ ArenaRegion)' = K
        BY <2>1, <2>4
      <3>2. Linking' = Linking
        BY <1>1, <2>1, <2>4, LinkingSame
      <3> QED
        BY <1>2, <1>3, <2>1, <2>3, <3>1, <3>2 DEF Recognised, FiniteInv
    <2>5. CASE r \notin ArenaRegion
      <3>1. (known \ ArenaRegion)' = K \cup {r} /\ r \notin K
        BY <1>3, <2>1, <2>2, <2>5
      <3>2. Linking' = Linking \ {t} /\ t \in Linking
        BY <1>1, <2>1, <2>5 DEF Linking, Others
      <3>3. Cardinality(K \cup {r}) = Cardinality(K) + 1
        BY <1>3, <3>1, FS_AddElement
      <3>4. IsFiniteSet(Linking \ {t}) /\ Cardinality(Linking \ {t}) = Cardinality(Linking) - 1
        BY <1>3, <3>2, FS_RemoveElement
      <3>5. Cardinality((known \ ArenaRegion)') + Cardinality(Linking') = registryLen'
        <4>1. Cardinality((known \ ArenaRegion)') = Cardinality(K) + 1
          BY <3>1, <3>3
        <4>2. Cardinality(Linking') = Cardinality(Linking) - 1
          BY <3>2, <3>4
        <4> HIDE DEF K
        <4> QED
          BY <1>3, <2>1, <4>1, <4>2
      <3> QED
        BY <1>2, <1>3, <2>1, <2>3, <3>2, <3>4, <3>5 DEF Recognised, FiniteInv
    <2> QED
      BY <2>4, <2>5
  <1>10. ASSUME NEW r \in live, Free(t, r)
         PROVE  Recognised' /\ FiniteInv' /\ registryLen' \in Nat
    <2>1. /\ known' = known \ {r} /\ live' = live \ {r} /\ pc[t] = "idle" /\ pc'[t] = "stash"
          /\ registryLen' = IF r \in ArenaRegion THEN registryLen ELSE registryLen - 1
      BY <1>2, <1>10 DEF Free, Goto
    <2>2. Linking' = Linking
      BY <1>1, <2>1, LinkingSame
    <2>3. IsFiniteSet(known')
      BY <1>3, <2>1, FS_RemoveElement
    <2>4. CASE r \in ArenaRegion
      <3>1. (known \ ArenaRegion)' = K
        BY <2>1, <2>4
      <3> QED
        BY <1>2, <1>3, <2>1, <2>2, <2>3, <2>4, <3>1 DEF Recognised, FiniteInv
    <2>5. CASE r \notin ArenaRegion
      <3>1. (known \ ArenaRegion)' = K \ {r} /\ r \in K
        BY <1>3, <2>1, <2>5
      <3>2. Cardinality(K \ {r}) = Cardinality(K) - 1 /\ IsFiniteSet(K \ {r})
        BY <1>3, <3>1, FS_RemoveElement
      <3>3. Cardinality(K \ {r}) \in Nat
        BY <3>2, FS_CardinalityType
      <3>4. registryLen' \in Nat /\ Cardinality((known \ ArenaRegion)') + Cardinality(Linking') = registryLen'
        <4>1. Cardinality((known \ ArenaRegion)') = Cardinality(K) - 1
          BY <3>1, <3>2
        <4>2. Cardinality(K) - 1 \in Nat
          BY <3>2, <3>3
        <4>3. registryLen' = registryLen - 1 /\ Cardinality(Linking') = Cardinality(Linking)
          BY <2>1, <2>2, <2>5
        <4> DEFINE c == Cardinality(K)
                   l == Cardinality(Linking)
        <4>4. c \in Nat /\ l \in Nat /\ c + l = registryLen /\ c - 1 \in Nat
          BY <1>3, <4>2
        <4> HIDE DEF c, l
        <4>5. registryLen - 1 = c - 1 + l /\ registryLen - 1 \in Nat
          BY <4>4
        <4> QED
          BY <4>1, <4>3, <4>5 DEF c, l
      <3> QED
        BY <1>3, <2>1, <2>2, <2>3, <3>4 DEF Recognised, FiniteInv
    <2> QED
      BY <2>4, <2>5
  <1> QED
    BY <1>6, <1>7, <1>8, <1>9, <1>10

-----------------------------------------------------------------------------
(* Types, and the state of a call. *)

\* Entries are built from a region and two answers.
LEMMA EntryType ==
  ASSUME NEW r \in Region, NEW z \in BOOLEAN, NEW d \in BOOLEAN
  PROVE  /\ Entry(r, z, d) \in Entries /\ Entry(r, z, d) # Nothing
         /\ Entry(r, z, d).region = r /\ Entry(r, z, d).zeroed = z /\ Entry(r, z, d).decommitted = d
  BY LargeRegionsAssumption DEF Entries, Entry, Nothing

\* Empty hands.
LEMMA NothingFacts ==
  /\ Nothing.region = NoRegion /\ Nothing.zeroed = FALSE /\ Nothing.decommitted = FALSE
  /\ NoRegion \notin Region /\ Nothing \notin Entries
  BY LargeRegionsAssumption DEF Nothing, Entry, Entries

\* What the hands of t hold after a step, the step that put it there and the
\* place in the call.
HandStep(t) ==
  \/ /\ held'[t] = held[t] /\ request'[t] = request[t]
     /\ \/ pc'[t] = pc[t]
        \/ <<pc[t], pc'[t]>> \in {<<"shard", "map">>, <<"count", "link">>, <<"stash", "park">>,
                                  <<"park", "unmap">>, <<"flush", "idle">>}
        \/ pc[t] = "idle" /\ pc'[t] = "flush" /\ stash'[t] # <<>>
  \/ /\ held'[t] = held[t] /\ pc[t] = "idle" /\ pc'[t] = "shard"
     /\ request'[t] \in [kind : Requests, pages : Nat]
  \/ /\ held'[t] \in Entries /\ pc'[t] = "handoff"
     /\ request'[t] \in [kind : {"malloc", "calloc"}, pages : Nat]
     /\ PagesOf[held'[t].region] >= request'[t].pages
  \/ /\ pc[t] = "handoff" /\ held'[t] \in Entries /\ held'[t].region = held[t].region
     /\ request'[t] = request[t]
     /\ pc'[t] = IF held[t].region \in ArenaRegion THEN "link" ELSE "count"
  \/ held'[t] \in Entries /\ pc[t] = "idle" /\ pc'[t] = "stash" /\ request'[t] = request[t]
  \/ held'[t] = Nothing /\ pc'[t] = "idle" /\ request'[t] = [kind |-> "malloc", pages |-> 0]

\* Every step is one of these, for the thread that takes it.
LEMMA HandView ==
  ASSUME LargeInv, NEW t \in Thread, CallView(t) \/ AllocatingView(t) \/ FreeingView(t)
  PROVE  HandStep(t)
  <1>1. TypeOK /\ CallInv
    BY DEF LargeInv
  <1>2. /\ DOMAIN pc = Thread /\ DOMAIN held = Thread /\ DOMAIN request = Thread
        /\ request[t] \in [kind : {"malloc", "calloc"}, pages : Nat]
    BY <1>1 DEF TypeOK
  <1> USE <1>2 DEF Goto, Hold, Done
  <1>3. ASSUME NEW k \in Requests, NEW n \in Nat, StashMiss(t, k, n) PROVE HandStep(t)
    BY <1>3 DEF StashMiss, HandStep
  <1>4. ASSUME NEW k \in Requests, NEW n \in Nat, NEW r \in Region, StashHit(t, k, n, r) PROVE HandStep(t)
    <2>1. k \in {"malloc", "calloc"}
      BY LargeRegionsAssumption
    <2>2. request'[t] = [kind |-> k, pages |-> n] /\ PagesOf[r] >= n
      BY <1>4 DEF StashHit
    <2>3. held'[t] = Entry(r, FALSE, FALSE) /\ pc'[t] = "handoff" /\ pc[t] = "idle"
      BY <1>4 DEF StashHit
    <2>4. held'[t] \in Entries /\ held'[t].region = r
      BY <2>3, EntryType
    <2>5. request'[t] \in [kind : {"malloc", "calloc"}, pages : Nat] /\ request'[t].pages = n
      BY <2>1, <2>2
    <2>6. PagesOf[held'[t].region] >= request'[t].pages
      BY <2>2, <2>4, <2>5
    <2> QED
      BY <2>3, <2>4, <2>5, <2>6 DEF HandStep
  <1>5. ASSUME NEW r \in live, Free(t, r) PROVE HandStep(t)
    <2>1. r \in Region
      BY <1>1 DEF TypeOK
    <2>2. Entry(r, FALSE, FALSE) \in Entries
      BY <2>1, EntryType
    <2> QED
      BY <1>5, <2>2 DEF Free, HandStep
  <1>6. BeginFlush(t) => HandStep(t)
    BY DEF BeginFlush, HandStep, storeVars
  <1>7. ASSUME NEW u \in Thread, Adopt(t, u) PROVE HandStep(t)
    BY <1>7 DEF Adopt, HandStep, localVars
  <1>8. ShardMiss(t) \/ CountRegion(t) \/ StashFull(t) \/ ParkFails(t) => HandStep(t)
    BY DEF ShardMiss, CountRegion, StashFull, ParkFails, HandStep
  <1>9. ASSUME NEW s \in Shard, NEW e \in Entries, TakesHot(t, s, e) \/ TakesCold(t, s, e) PROVE HandStep(t)
    BY <1>9 DEF TakesHot, TakesCold, HandStep, Pages
  <1>10. CASE MapRegion(t)
    <2>1. CASE Done(t)
      BY <2>1 DEF HandStep
    <2>2. CASE \E r \in Region \ mapped :
                 /\ PagesOf[r] = request[t].pages
                 /\ Hold(t, Entry(r, TRUE, FALSE)) /\ Goto(t, "handoff") /\ UNCHANGED request
      <3>1. PICK r \in Region : /\ PagesOf[r] = request[t].pages
                                /\ Hold(t, Entry(r, TRUE, FALSE)) /\ Goto(t, "handoff") /\ UNCHANGED request
        BY <2>2
      <3>2. Entry(r, TRUE, FALSE) \in Entries /\ Entry(r, TRUE, FALSE).region = r
        BY EntryType
      <3>3. held'[t] = Entry(r, TRUE, FALSE) /\ pc'[t] = "handoff" /\ request'[t] = request[t]
        BY <3>1
      <3>4. PagesOf[held'[t].region] >= request'[t].pages
        <4>1. held'[t].region = r /\ request'[t].pages = PagesOf[r]
          BY <3>1, <3>2, <3>3
        <4>2. PagesOf[r] \in Nat
          BY LargeRegionsAssumption
        <4>3. PagesOf[r] >= PagesOf[r]
          BY <4>2
        <4> QED
          BY <4>1, <4>3
      <3> QED
        BY <3>2, <3>3, <3>4 DEF HandStep
    <2> QED
      BY <1>10, <2>1, <2>2 DEF MapRegion
  <1>11. CASE Handoff(t)
    <2> DEFINE e == held[t]
    <2>1. pc[t] = "handoff" /\ e.region \in Region /\ e.zeroed \in BOOLEAN
      BY <1>1, <1>11, HeldFacts DEF Handoff
    <2>2. /\ pc'[t] = IF e.region \in ArenaRegion THEN "link" ELSE "count"
          /\ request'[t] = request[t]
      BY <1>11 DEF Handoff
    <2>3. \E z \in BOOLEAN : held'[t] = Entry(e.region, z, FALSE)
      <3>1. \A d \in DiscardOutcomes : d.zeroed \in BOOLEAN
        BY LargeRegionsAssumption
      <3> QED
        BY <1>11, <2>1, <3>1 DEF Handoff
    <2>4. held'[t] \in Entries /\ held'[t].region = e.region
      <3>1. PICK z \in BOOLEAN : held'[t] = Entry(e.region, z, FALSE)
        BY <2>3
      <3>2. Entry(e.region, z, FALSE) \in Entries /\ Entry(e.region, z, FALSE).region = e.region
        BY <2>1, EntryType
      <3> QED
        BY <3>1, <3>2
    <2> QED
      BY <2>1, <2>2, <2>4 DEF HandStep
  <1>12. LinkRegion(t) \/ Pushes(t) \/ UnmapRegion(t) => HandStep(t)
    BY DEF LinkRegion, Pushes, UnmapRegion, HandStep
  <1>13. ASSUME NEW s \in Shard, NEW d \in DiscardOutcomes, ParksHot(t, s) \/ ParksCold(t, s, d) PROVE HandStep(t)
    BY <1>13 DEF ParksHot, ParksCold, HandStep
  <1>14. ASSUME NEW s \in Shard, ParksHot(t, s) PROVE HandStep(t)
    BY <1>14 DEF ParksHot, HandStep
  <1>15. ASSUME NEW r \in Region, Flushes(t, r) PROVE HandStep(t)
    BY <1>15 DEF Flushes, HandStep
  <1> QED
    BY <1>3, <1>4, <1>5, <1>6, <1>7, <1>8, <1>9, <1>10, <1>11, <1>12, <1>13, <1>14, <1>15
       DEF CallView, AllocatingView, FreeingView

\* The stores keep their types, and no region comes to be twice in one.
LEMMA StoreStep ==
  ASSUME LargeInv, NEW t \in Thread, CallView(t) \/ AllocatingView(t) \/ FreeingView(t)
  PROVE  /\ stash' \in [Thread -> Seq(Region)] /\ hot' \in [Shard -> Tiers] /\ cold' \in [Shard -> Tiers]
         /\ NoRepeats' /\ IndexExact'
  <1> DEFINE Stashes == stash' \in [Thread -> Seq(Region)] /\ \A u \in Thread : Unrepeated(stash'[u])
             Hots == hot' \in [Shard -> Tiers] /\ \A s \in Shard : Distinct(hot'[s].items) /\ Indexed(hot'[s])
             Colds == cold' \in [Shard -> Tiers] /\ \A s \in Shard : Distinct(cold'[s].items) /\ Indexed(cold'[s])
  <1>1. TypeOK /\ NoRepeats /\ IndexExact
    BY DEF LargeInv, InOnePlace
  <1>2. /\ UNCHANGED stash => Stashes
        /\ UNCHANGED hot => Hots
        /\ UNCHANGED cold => Colds
    BY <1>1 DEF TypeOK, NoRepeats, IndexExact
  <1>3. \A S : StashBecomes(t, S) => Stashes
    BY <1>1, StashAfter DEF NoRepeats
  <1>4. \A s \in Shard : \A E : HotBecomes(s, E) => Hots
    <2> SUFFICES ASSUME NEW s \in Shard, NEW E, HotBecomes(s, E) PROVE Hots
      OBVIOUS
    <2>1. hot' \in [Shard -> Tiers] /\ Sound(hot'[s], E) /\ \A x \in Shard : x # s => hot'[x] = hot[x]
      BY <1>1, HotAfter
    <2> QED
      BY <1>1, <2>1 DEF Sound, NoRepeats, IndexExact
  <1>5. \A s \in Shard : \A E : ColdBecomes(s, E) => Colds
    <2> SUFFICES ASSUME NEW s \in Shard, NEW E, ColdBecomes(s, E) PROVE Colds
      OBVIOUS
    <2>1. cold' \in [Shard -> Tiers] /\ Sound(cold'[s], E) /\ \A x \in Shard : x # s => cold'[x] = cold[x]
      BY <1>1, ColdAfter
    <2> QED
      BY <1>1, <2>1 DEF Sound, NoRepeats, IndexExact
  <1>6. ASSUME NEW u \in Thread, Adopt(t, u) PROVE Stashes
    <2>1. stash' = [stash EXCEPT ![t] = stash[u], ![u] = <<>>] /\ stash \in [Thread -> Seq(Region)] /\ t # u
      BY <1>1, <1>6 DEF Adopt, TypeOK
    <2>2. stash'[t] = stash[u] /\ stash'[u] = <<>> /\ \A w \in Thread : w # t /\ w # u => stash'[w] = stash[w]
      BY <2>1
    <2>3. stash' \in [Thread -> Seq(Region)]
      BY <2>1
    <2>4. Unrepeated(<<>>)
      BY DEF Unrepeated
    <2> QED
      BY <1>1, <2>2, <2>3, <2>4 DEF NoRepeats
  <1> HIDE DEF Stashes, Hots, Colds
  <1>7. CallView(t) => Stashes /\ Hots /\ Colds
    BY <1>2, <1>3, <1>6 DEF CallView, StashMiss, StashHit, Free, BeginFlush, Adopt, storeVars
  <1>8. AllocatingView(t) => Stashes /\ Hots /\ Colds
    BY <1>2, <1>4, <1>5 DEF AllocatingView, ShardMiss, TakesHot, TakesCold, MapRegion, Handoff, CountRegion,
                            LinkRegion, storeVars
  <1>9. FreeingView(t) => Stashes /\ Hots /\ Colds
    BY <1>2, <1>3, <1>4, <1>5 DEF FreeingView, StashFull, Pushes, ParkFails, ParksHot, ParksCold, UnmapRegion,
                                  Flushes, storeVars
  <1>10. Stashes /\ Hots /\ Colds
    BY <1>7, <1>8, <1>9
  <1> QED
    BY <1>10 DEF Stashes, Hots, Colds, NoRepeats, IndexExact

\* What a step may bring into the sets of regions.
LEMMA SetsType ==
  ASSUME LargeInv, NEW t \in Thread, CallView(t) \/ AllocatingView(t) \/ FreeingView(t)
  PROVE  /\ mapped' \in SUBSET Region /\ leaked' \in SUBSET Region /\ known' \in SUBSET Region
         /\ absent' \in SUBSET Region /\ live' \in SUBSET Region /\ dirty' \in SUBSET Region
         /\ zeroed' \in SUBSET Region
  <1> DEFINE Typed == /\ mapped' \in SUBSET Region /\ leaked' \in SUBSET Region /\ known' \in SUBSET Region
                      /\ absent' \in SUBSET Region /\ live' \in SUBSET Region /\ dirty' \in SUBSET Region
                      /\ zeroed' \in SUBSET Region
  <1>1. /\ mapped \in SUBSET Region /\ leaked \in SUBSET Region /\ known \in SUBSET Region
        /\ absent \in SUBSET Region /\ live \in SUBSET Region /\ dirty \in SUBSET Region
        /\ zeroed \in SUBSET Region /\ TypeOK /\ CallInv
    BY DEF LargeInv, TypeOK
  <1>2. pc[t] \in {"handoff", "link", "park", "unmap"} => held[t].region \in Region
    BY <1>1, HeldFacts
  <1> USE <1>1 DEF osVars, regVars, progVars
  <1>3. UNCHANGED <<osVars, regVars, absent, progVars>> => Typed
    OBVIOUS
  <1>4. ASSUME NEW r \in live, Free(t, r) PROVE Typed
    BY <1>4 DEF Free
  <1>5. MapRegion(t) => Typed
    BY DEF MapRegion
  <1>6. Handoff(t) => Typed
    BY DEF Handoff
  <1>7. CountRegion(t) => Typed
    BY DEF CountRegion
  <1>8. LinkRegion(t) => Typed
    BY <1>2 DEF LinkRegion
  <1>9. ASSUME NEW s \in Shard, NEW d \in DiscardOutcomes, ParksCold(t, s, d) PROVE Typed
    BY <1>2, <1>9 DEF ParksCold, Discard
  <1>10. UnmapRegion(t) => Typed
    BY <1>2 DEF UnmapRegion, Release
  <1>11. ASSUME NEW r \in Region, Flushes(t, r) PROVE Typed
    BY <1>11 DEF Flushes, Release
  <1> HIDE <1>1
  <1> HIDE DEF Typed, osVars, regVars, progVars
  <1>12. CallView(t) => Typed
    BY <1>3, <1>4 DEF CallView, StashMiss, StashHit, BeginFlush, Adopt
  <1>13. AllocatingView(t) => Typed
    <2>1. \A s \in Shard, e \in Entries : TakesHot(t, s, e) \/ TakesCold(t, s, e) => Typed
      BY <1>3 DEF TakesHot, TakesCold
    <2>2. ShardMiss(t) => Typed
      BY <1>3 DEF ShardMiss
    <2> QED
      BY <1>5, <1>6, <1>7, <1>8, <2>1, <2>2 DEF AllocatingView
  <1>14. FreeingView(t) => Typed
    <2>1. \A s \in Shard : ParksHot(t, s) => Typed
      BY <1>3 DEF ParksHot
    <2>2. StashFull(t) \/ Pushes(t) \/ ParkFails(t) => Typed
      BY <1>3 DEF StashFull, Pushes, ParkFails
    <2> QED
      BY <1>9, <1>10, <1>11, <2>1, <2>2 DEF FreeingView
  <1>15. Typed
    BY <1>12, <1>13, <1>14
  <1> QED
    BY <1>15 DEF Typed

\* Calls go on as they should, with types kept.
LEMMA CallStep ==
  ASSUME LargeInv, NEW t \in Thread, CallView(t) \/ AllocatingView(t) \/ FreeingView(t)
  PROVE  TypeOK' /\ CallInv' /\ LongEnough'
  <1>1. TypeOK /\ CallInv /\ LongEnough
    BY DEF LargeInv
  <1>2. HandStep(t) /\ Others(t)
    BY <1>1, HandView, OthersStep
  <1> DEFINE PCs == {"idle", "shard", "map", "handoff", "count", "link", "stash", "park", "unmap", "flush"}
             Reqs == [kind : {"malloc", "calloc"}, pages : Nat]
  <1>3. pc[t] \in PCs /\ held[t] \in Entries \cup {Nothing} /\ request[t] \in Reqs
    BY <1>1 DEF TypeOK
  <1>4. [kind |-> "malloc", pages |-> 0] \in Reqs /\ [kind : Requests, pages : Nat] \subseteq Reqs
    BY LargeRegionsAssumption
  <1>5. pc'[t] \in PCs /\ held'[t] \in Entries \cup {Nothing} /\ request'[t] \in Reqs
    <2> HIDE DEF Reqs
    <2> QED
      BY <1>2, <1>3, <1>4 DEF HandStep, Reqs
  <1>6. /\ pc' \in [Thread -> PCs] /\ held' \in [Thread -> Entries \cup {Nothing}]
        /\ request' \in [Thread -> Reqs]
    <2> DEFINE AllFunctions == /\ pc' = [u \in Thread |-> pc'[u]] /\ held' = [u \in Thread |-> held'[u]]
                               /\ request' = [u \in Thread |-> request'[u]]
    <2>1. AllFunctions
      <3> USE DEF Goto, Hold, Done, localVars
      <3>1. pc \in [Thread -> PCs] /\ held \in [Thread -> Entries \cup {Nothing}] /\ request \in [Thread -> Reqs]
        BY <1>1 DEF TypeOK
      <3>2. CallView(t) => AllFunctions
        BY <3>1 DEF CallView, StashMiss, StashHit, Free, BeginFlush, Adopt
      <3>3. AllocatingView(t) => AllFunctions
        BY <3>1 DEF AllocatingView, ShardMiss, TakesHot, TakesCold, MapRegion, Handoff, CountRegion, LinkRegion
      <3>4. FreeingView(t) => AllFunctions
        BY <3>1 DEF FreeingView, StashFull, Pushes, ParkFails, ParksHot, ParksCold, UnmapRegion, Flushes
      <3> QED
        BY <3>2, <3>3, <3>4
    <2>2. \A u \in Thread : pc'[u] \in PCs /\ held'[u] \in Entries \cup {Nothing} /\ request'[u] \in Reqs
      BY <1>1, <1>2, <1>5 DEF Others, TypeOK
    <2> HIDE DEF PCs, Reqs
    <2> QED
      BY <2>1, <2>2
  <1>7. TypeOK'
    BY <1>6, StoreStep, SetsType, CountStep DEF TypeOK
  <1>8. ASSUME NEW u \in Thread, pc'[u] = "flush" PROVE stash'[u] # <<>>
    <2>1. u # t => stash'[u] = stash[u] \/ pc[u] = "idle"
      <3>1. \A S : StashBecomes(t, S) /\ u # t => stash'[u] = stash[u]
        BY <1>1, StashAfter
      <3>2. stash \in [Thread -> Seq(Region)]
        BY <1>1 DEF TypeOK
      <3> USE <3>1, <3>2 DEF storeVars
      <3>3. ASSUME NEW w \in Thread, Adopt(t, w), u # t PROVE stash'[u] = stash[u] \/ pc[u] = "idle"
        BY <3>3 DEF Adopt
      <3>4. CallView(t) /\ u # t => stash'[u] = stash[u] \/ pc[u] = "idle"
        BY <3>3 DEF CallView, StashMiss, StashHit, Free, BeginFlush
      <3>5. AllocatingView(t) => stash'[u] = stash[u]
        BY DEF AllocatingView, ShardMiss, TakesHot, TakesCold, MapRegion, Handoff, CountRegion, LinkRegion
      <3>6. FreeingView(t) /\ u # t => stash'[u] = stash[u]
        BY DEF FreeingView, StashFull, Pushes, ParkFails, ParksHot, ParksCold, UnmapRegion, Flushes
      <3> QED
        BY <3>4, <3>5, <3>6
    <2>2. CASE u # t
      BY <1>1, <1>2, <1>8, <2>1, <2>2 DEF Others, CallInv
    <2>3. CASE u = t
      <3>1. DOMAIN pc = Thread
        BY <1>1 DEF TypeOK
      <3> USE <1>8, <2>3, <3>1 DEF Goto, Hold, Done, localVars
      <3>2. CallView(t) => stash'[t] # <<>>
        BY DEF CallView, StashMiss, StashHit, Free, BeginFlush, Adopt, storeVars
      <3>3. ~AllocatingView(t)
        BY DEF AllocatingView, ShardMiss, TakesHot, TakesCold, MapRegion, Handoff, CountRegion, LinkRegion
      <3>4. FreeingView(t) => stash'[t] # <<>>
        BY DEF FreeingView, StashFull, Pushes, ParkFails, ParksHot, ParksCold, UnmapRegion, Flushes
      <3> QED
        BY <3>2, <3>3, <3>4
    <2> QED
      BY <2>2, <2>3
  <1>9. /\ held'[t] = Nothing <=> pc'[t] \in {"idle", "shard", "map", "flush"}
        /\ pc'[t] = "count" => held'[t].region \notin ArenaRegion
        /\ pc'[t] \in {"handoff", "count", "link"} => PagesOf[held'[t].region] >= request'[t].pages
    <2>1. /\ held[t] = Nothing <=> pc[t] \in {"idle", "shard", "map", "flush"}
          /\ pc[t] = "count" => held[t].region \notin ArenaRegion
          /\ pc[t] \in {"handoff", "count", "link"} => PagesOf[held[t].region] >= request[t].pages
      BY <1>1 DEF CallInv, LongEnough
    <2> QED
      BY <1>2, <2>1, NothingFacts DEF HandStep
  <1>10. CallInv'
    BY <1>1, <1>2, <1>8, <1>9 DEF CallInv, Others
  <1>11. LongEnough'
    BY <1>1, <1>2, <1>9 DEF LongEnough, Others
  <1> QED
    BY <1>7, <1>10, <1>11

-----------------------------------------------------------------------------
(* Every region has one place. *)

Program == <<"program", 0>>
Leaked  == <<"leaked", 0>>
Hand(t) == <<"hand", t>>
StashOf(t) == <<"stash", t>>
HotOf(s)  == <<"hot", s>>
ColdOf(s) == <<"cold", s>>

\* The places, and what each holds before and after a step.
LEMMA PlaceFacts ==
  /\ Program \in Places /\ Keeps(Program) = live /\ Keeps(Program)' = live'
  /\ Leaked \in Places /\ Keeps(Leaked) = leaked /\ Keeps(Leaked)' = leaked'
  /\ \A t \in Thread :
       /\ Hand(t) \in Places
       /\ Keeps(Hand(t)) = {held[t].region} \ {NoRegion} /\ Keeps(Hand(t))' = {held'[t].region} \ {NoRegion}
       /\ StashOf(t) \in Places
       /\ Keeps(StashOf(t)) = ToSet(stash[t]) /\ Keeps(StashOf(t))' = ToSet(stash'[t])
  /\ \A s \in Shard :
       /\ HotOf(s) \in Places
       /\ Keeps(HotOf(s)) = RegionsIn(hot[s].items) /\ Keeps(HotOf(s))' = RegionsIn(hot'[s].items)
       /\ ColdOf(s) \in Places
       /\ Keeps(ColdOf(s)) = RegionsIn(cold[s].items) /\ Keeps(ColdOf(s))' = RegionsIn(cold'[s].items)
  BY DEF Places, Keeps, Program, Leaked, Hand, StashOf, HotOf, ColdOf, RegionsIn, ToSet

\* Different places have different names.
LEMMA PlaceNames ==
  /\ \A p \in Places : \/ p = Program \/ p = Leaked
                       \/ \E t \in Thread : p = Hand(t) \/ p = StashOf(t)
                       \/ \E s \in Shard : p = HotOf(s) \/ p = ColdOf(s)
  /\ Program # Leaked
  /\ \A t : Hand(t) # Program /\ Hand(t) # Leaked /\ StashOf(t) # Program /\ StashOf(t) # Leaked
  /\ \A t, u : Hand(t) # StashOf(u) /\ Hand(t) # HotOf(u) /\ Hand(t) # ColdOf(u)
  /\ \A t, u : StashOf(t) # HotOf(u) /\ StashOf(t) # ColdOf(u) /\ HotOf(t) # ColdOf(u)
  /\ \A s : HotOf(s) # Program /\ HotOf(s) # Leaked /\ ColdOf(s) # Program /\ ColdOf(s) # Leaked
  /\ \A t, u : t # u => /\ Hand(t) # Hand(u) /\ StashOf(t) # StashOf(u)
                        /\ HotOf(t) # HotOf(u) /\ ColdOf(t) # ColdOf(u)
  BY DEF Places, Program, Leaked, Hand, StashOf, HotOf, ColdOf

\* A step that leaves a place's state alone leaves its regions alone.
Left(P) == \A p \in Places \ P : Keeps(p)' = Keeps(p)

\* It is enough to look at the variables.
LEMMA LeftBy ==
  ASSUME NEW P,
         Program \notin P => live' = live,
         Leaked \notin P => leaked' = leaked,
         \A u \in Thread : Hand(u) \notin P => held'[u].region = held[u].region,
         \A u \in Thread : StashOf(u) \notin P => stash'[u] = stash[u],
         \A s \in Shard : HotOf(s) \notin P => hot'[s] = hot[s],
         \A s \in Shard : ColdOf(s) \notin P => cold'[s] = cold[s]
  PROVE  Left(P)
  <1> SUFFICES ASSUME NEW p \in Places, p \notin P PROVE Keeps(p)' = Keeps(p)
    BY DEF Left
  <1>1. CASE p = Program
    BY <1>1, PlaceFacts
  <1>2. CASE p = Leaked
    BY <1>2, PlaceFacts
  <1>3. ASSUME NEW t \in Thread, p = Hand(t) PROVE Keeps(p)' = Keeps(p)
    BY <1>3, PlaceFacts
  <1>4. ASSUME NEW t \in Thread, p = StashOf(t) PROVE Keeps(p)' = Keeps(p)
    BY <1>4, PlaceFacts
  <1>5. ASSUME NEW s \in Shard, p = HotOf(s) PROVE Keeps(p)' = Keeps(p)
    BY <1>5, PlaceFacts
  <1>6. ASSUME NEW s \in Shard, p = ColdOf(s) PROVE Keeps(p)' = Keeps(p)
    BY <1>6, PlaceFacts
  <1> QED
    BY <1>1, <1>2, <1>3, <1>4, <1>5, <1>6, PlaceNames

\* Nothing moves.
LEMMA ApartStays ==
  ASSUME Apart, Left({}), mapped' = mapped
  PROVE  Apart'
  BY DEF Apart, Left, Places

\* A region moves from p to q.
LEMMA ApartMoves ==
  ASSUME Apart, NEW p \in Places, NEW q \in Places, p # q, NEW r \in Keeps(p), mapped' = mapped,
         Left({p, q}), Keeps(p)' = Keeps(p) \ {r}, Keeps(q)' = Keeps(q) \cup {r}
  PROVE  Apart'
  <1>1. \A a, b \in Places : a # b => Keeps(a) \cap Keeps(b) = {}
    BY DEF Apart
  <1>2. \A a \in Places : a # p /\ a # q => Keeps(a)' = Keeps(a)
    BY DEF Left
  <1>3. \A a \in Places : a # p => r \notin Keeps(a)
    BY <1>1
  <1>4. \A a, b \in Places : a # b => Keeps(a)' \cap Keeps(b)' = {}
    BY <1>1, <1>2, <1>3
  <1>5. \A x : (\E a \in Places : x \in Keeps(a)) <=> (\E a \in Places : x \in Keeps(a)')
    BY <1>2
  <1> QED
    BY <1>4, <1>5 DEF Apart, Places

\* A region that is nowhere comes to q.
LEMMA ApartComes ==
  ASSUME Apart, NEW q \in Places, NEW r \in Region, r \notin mapped, mapped' = mapped \cup {r},
         Left({q}), Keeps(q)' = Keeps(q) \cup {r}
  PROVE  Apart'
  <1>1. \A a, b \in Places : a # b => Keeps(a) \cap Keeps(b) = {}
    BY DEF Apart
  <1>2. \A a \in Places : a # q => Keeps(a)' = Keeps(a)
    BY DEF Left
  <1>3. \A a \in Places : r \notin Keeps(a)
    BY DEF Apart
  <1>4. \A a, b \in Places : a # b => Keeps(a)' \cap Keeps(b)' = {}
    BY <1>1, <1>2, <1>3
  <1>5. \A x : (\E a \in Places : x \in Keeps(a)) \/ x = r <=> (\E a \in Places : x \in Keeps(a)')
    BY <1>2
  <1> QED
    BY <1>4, <1>5 DEF Apart, Places

\* A region leaves p, and is mapped no longer.
LEMMA ApartGoes ==
  ASSUME Apart, NEW p \in Places, NEW r \in Keeps(p), mapped' = mapped \ {r},
         Left({p}), Keeps(p)' = Keeps(p) \ {r}
  PROVE  Apart'
  <1>1. \A a, b \in Places : a # b => Keeps(a) \cap Keeps(b) = {}
    BY DEF Apart
  <1>2. \A a \in Places : a # p => Keeps(a)' = Keeps(a)
    BY DEF Left
  <1>3. \A a \in Places : a # p => r \notin Keeps(a)
    BY <1>1
  <1>4. \A a, b \in Places : a # b => Keeps(a)' \cap Keeps(b)' = {}
    BY <1>1, <1>2
  <1>5. \A x : (\E a \in Places : x \in Keeps(a)) /\ x # r <=> (\E a \in Places : x \in Keeps(a)')
    BY <1>2, <1>3
  <1> QED
    BY <1>4, <1>5 DEF Apart, Places

\* The regions of p all move to q, which had none.
LEMMA ApartSwaps ==
  ASSUME Apart, NEW p \in Places, NEW q \in Places, p # q, Keeps(q) = {}, mapped' = mapped,
         Left({p, q}), Keeps(q)' = Keeps(p), Keeps(p)' = {}
  PROVE  Apart'
  <1>1. \A a, b \in Places : a # b => Keeps(a) \cap Keeps(b) = {}
    BY DEF Apart
  <1>2. \A a \in Places : a # p /\ a # q => Keeps(a)' = Keeps(a)
    BY DEF Left
  <1>3. \A a, b \in Places : a # b => Keeps(a)' \cap Keeps(b)' = {}
    BY <1>1, <1>2
  <1>4. \A x : (\E a \in Places : x \in Keeps(a)) <=> (\E a \in Places : x \in Keeps(a)')
    BY <1>2
  <1> QED
    BY <1>3, <1>4 DEF Apart, Places

\* The regions of an array that loses an entry.
LEMMA RegionsLess ==
  ASSUME NEW items, NEW v, NEW e \in ToSet(items), Distinct(items), ToSet(v) = ToSet(items) \ {e}
  PROVE  RegionsIn(v) = RegionsIn(items) \ {e.region} /\ e.region \in RegionsIn(items)
  BY DistinctFacts DEF RegionsIn

\* And one that gains an entry.
LEMMA RegionsMore ==
  ASSUME NEW items, NEW v, NEW e, ToSet(v) = ToSet(items) \cup {e}
  PROVE  RegionsIn(v) = RegionsIn(items) \cup {e.region}
  BY DEF RegionsIn

\* Every step keeps the places apart: a region moves from one place to one other.
LEMMA ApartStep ==
  ASSUME LargeInv, NEW t \in Thread, CallView(t) \/ AllocatingView(t) \/ FreeingView(t)
  PROVE  Apart'
  <1>1. TypeOK /\ CallInv /\ Apart
    BY DEF LargeInv, InOnePlace
  <1>2. DOMAIN pc = Thread /\ DOMAIN held = Thread
    BY <1>1 DEF TypeOK
  <1>3. Others(t)
    BY <1>1, OthersStep
  <1>4. /\ Hand(t) \in Places /\ StashOf(t) \in Places /\ Program \in Places /\ Leaked \in Places
        /\ Keeps(Hand(t)) = {held[t].region} \ {NoRegion} /\ Keeps(Hand(t))' = {held'[t].region} \ {NoRegion}
        /\ Keeps(StashOf(t)) = ToSet(stash[t]) /\ Keeps(StashOf(t))' = ToSet(stash'[t])
        /\ Keeps(Program) = live /\ Keeps(Program)' = live' /\ Keeps(Leaked) = leaked /\ Keeps(Leaked)' = leaked'
    BY PlaceFacts
  <1>5. /\ pc[t] \in {"idle", "shard", "map", "flush"} => Keeps(Hand(t)) = {}
        /\ pc[t] \notin {"idle", "shard", "map", "flush"} =>
             Keeps(Hand(t)) = {held[t].region} /\ held[t].region \in Region
    BY <1>1, <1>4, HeldFacts
  <1>6. /\ held'[t] = Nothing => Keeps(Hand(t))' = {}
        /\ \A r \in Region : held'[t].region = r => Keeps(Hand(t))' = {r}
    BY <1>4, NothingFacts
  <1>7. \A u \in Thread : u # t => held'[u].region = held[u].region
    BY <1>3 DEF Others
  <1>8. /\ Hand(t) # StashOf(t) /\ Hand(t) # Program /\ Hand(t) # Leaked /\ StashOf(t) # Leaked
        /\ \A s : HotOf(s) # Hand(t) /\ ColdOf(s) # Hand(t)
    BY PlaceNames
  <1> USE DEF Goto, Hold, Done, localVars, osVars, storeVars, progVars
  \* Nothing moves.
  <1>9. ASSUME UNCHANGED <<mapped, leaked, stash, hot, cold, live>>, held'[t].region = held[t].region
        PROVE  Apart'
    <2>1. Left({})
      BY <1>7, <1>9, LeftBy
    <2> QED
      BY <1>1, <1>9, <2>1, ApartStays
  \* The stash and the hands.
  <1>10. ASSUME NEW k \in Requests, NEW n \in Nat, NEW r \in Region, StashHit(t, k, n, r) PROVE Apart'
    <2>1. /\ pc[t] = "idle" /\ r \in ToSet(stash[t]) /\ held'[t] = Entry(r, FALSE, FALSE)
          /\ StashBecomes(t, ToSet(stash[t]) \ {r}) /\ UNCHANGED <<mapped, leaked, hot, cold, live>>
      BY <1>2, <1>10 DEF StashHit
    <2>2. ToSet(stash'[t]) = ToSet(stash[t]) \ {r} /\ \A u \in Thread : u # t => stash'[u] = stash[u]
      BY <1>1, <2>1, StashAfter
    <2>3. Left({StashOf(t), Hand(t)})
      BY <1>7, <2>1, <2>2, LeftBy, PlaceNames
    <2>4. Keeps(Hand(t)) = {} /\ Keeps(Hand(t))' = {r}
      BY <1>5, <1>6, <2>1, EntryType
    <2> QED
      BY <1>1, <1>4, <1>8, <2>1, <2>2, <2>3, <2>4, ApartMoves
  <1>11. CASE Pushes(t)
    <2> DEFINE r == held[t].region
    <2>1. /\ pc[t] = "stash" /\ held'[t] = Nothing
          /\ StashBecomes(t, ToSet(stash[t]) \cup {r}) /\ UNCHANGED <<mapped, leaked, hot, cold, live>>
      BY <1>2, <1>11 DEF Pushes
    <2>2. ToSet(stash'[t]) = ToSet(stash[t]) \cup {r} /\ \A u \in Thread : u # t => stash'[u] = stash[u]
      BY <1>1, <2>1, StashAfter
    <2>3. Left({Hand(t), StashOf(t)})
      BY <1>7, <2>1, <2>2, LeftBy, PlaceNames
    <2>4. Keeps(Hand(t)) = {r} /\ Keeps(Hand(t))' = Keeps(Hand(t)) \ {r}
      BY <1>5, <1>6, <2>1
    <2> QED
      BY <1>1, <1>4, <1>8, <2>1, <2>2, <2>3, <2>4, ApartMoves
  \* The program and the hands.
  <1>12. ASSUME NEW r \in live, Free(t, r) PROVE Apart'
    <2>1. /\ pc[t] = "idle" /\ held'[t] = Entry(r, FALSE, FALSE) /\ live' = live \ {r}
          /\ UNCHANGED <<mapped, leaked, stash, hot, cold>>
      BY <1>2, <1>12 DEF Free
    <2>2. r \in Region
      BY <1>1 DEF TypeOK
    <2>3. Left({Program, Hand(t)})
      BY <1>7, <2>1, LeftBy, PlaceNames
    <2>4. Keeps(Hand(t)) = {} /\ Keeps(Hand(t))' = {r}
      BY <1>5, <1>6, <2>1, <2>2, EntryType
    <2> QED
      BY <1>1, <1>4, <1>8, <2>1, <2>3, <2>4, ApartMoves
  <1>13. CASE LinkRegion(t)
    <2> DEFINE r == held[t].region
    <2>1. /\ pc[t] = "link" /\ held'[t] = Nothing /\ live' = live \cup {r}
          /\ UNCHANGED <<mapped, leaked, stash, hot, cold>>
      BY <1>2, <1>13 DEF LinkRegion
    <2>2. Left({Hand(t), Program})
      BY <1>7, <2>1, LeftBy, PlaceNames
    <2>3. Keeps(Hand(t)) = {r} /\ Keeps(Hand(t))' = Keeps(Hand(t)) \ {r}
      BY <1>5, <1>6, <2>1
    <2> QED
      BY <1>1, <1>4, <1>8, <2>1, <2>2, <2>3, ApartMoves
  \* The shards and the hands.
  <1>14. ASSUME NEW s \in Shard, NEW e \in Entries, TakesHot(t, s, e) PROVE Apart'
    <2>1. /\ pc[t] = "shard" /\ held'[t] = e /\ e \in ToSet(hot[s].items)
          /\ HotBecomes(s, ToSet(hot[s].items) \ {e}) /\ UNCHANGED <<mapped, leaked, stash, cold, live>>
      BY <1>2, <1>14 DEF TakesHot
    <2>2. Sound(hot'[s], ToSet(hot[s].items) \ {e}) /\ \A x \in Shard : x # s => hot'[x] = hot[x]
      BY <1>1, <2>1, HotAfter
    <2>3. Distinct(hot[s].items) /\ e.region \in Region
      BY TierSound DEF Entries
    <2>4. /\ RegionsIn(hot'[s].items) = RegionsIn(hot[s].items) \ {e.region}
          /\ e.region \in RegionsIn(hot[s].items)
      BY <2>1, <2>2, <2>3, RegionsLess DEF Sound
    <2>5. Left({HotOf(s), Hand(t)})
      BY <1>7, <2>1, <2>2, LeftBy, PlaceNames
    <2>6. Keeps(Hand(t)) = {} /\ Keeps(Hand(t))' = {e.region}
      BY <1>5, <1>6, <2>1, <2>3
    <2>7. /\ HotOf(s) \in Places /\ Keeps(HotOf(s)) = RegionsIn(hot[s].items)
          /\ Keeps(HotOf(s))' = RegionsIn(hot'[s].items)
      BY PlaceFacts
    <2> QED
      BY <1>1, <1>4, <1>8, <2>1, <2>4, <2>5, <2>6, <2>7, ApartMoves
  <1>15. ASSUME NEW s \in Shard, NEW e \in Entries, TakesCold(t, s, e) PROVE Apart'
    <2>1. /\ pc[t] = "shard" /\ held'[t] = e /\ e \in ToSet(cold[s].items)
          /\ ColdBecomes(s, ToSet(cold[s].items) \ {e}) /\ UNCHANGED <<mapped, leaked, stash, hot, live>>
      BY <1>2, <1>15 DEF TakesCold
    <2>2. Sound(cold'[s], ToSet(cold[s].items) \ {e}) /\ \A x \in Shard : x # s => cold'[x] = cold[x]
      BY <1>1, <2>1, ColdAfter
    <2>3. Distinct(cold[s].items) /\ e.region \in Region
      BY TierSound DEF Entries
    <2>4. /\ RegionsIn(cold'[s].items) = RegionsIn(cold[s].items) \ {e.region}
          /\ e.region \in RegionsIn(cold[s].items)
      BY <2>1, <2>2, <2>3, RegionsLess DEF Sound
    <2>5. Left({ColdOf(s), Hand(t)})
      BY <1>7, <2>1, <2>2, LeftBy, PlaceNames
    <2>6. Keeps(Hand(t)) = {} /\ Keeps(Hand(t))' = {e.region}
      BY <1>5, <1>6, <2>1, <2>3
    <2>7. /\ ColdOf(s) \in Places /\ Keeps(ColdOf(s)) = RegionsIn(cold[s].items)
          /\ Keeps(ColdOf(s))' = RegionsIn(cold'[s].items)
      BY PlaceFacts
    <2> QED
      BY <1>1, <1>4, <1>8, <2>1, <2>4, <2>5, <2>6, <2>7, ApartMoves
  <1>16. ASSUME NEW s \in Shard, ParksHot(t, s) PROVE Apart'
    <2> DEFINE r == held[t].region
               e == held[t]
    <2>1. /\ pc[t] = "park" /\ held'[t] = Nothing
          /\ HotBecomes(s, ToSet(hot[s].items) \cup {e}) /\ UNCHANGED <<mapped, leaked, stash, cold, live>>
      BY <1>2, <1>16 DEF ParksHot
    <2>2. e.region = r
      BY DEF Entry
    <2> HIDE DEF e
    <2>3. Sound(hot'[s], ToSet(hot[s].items) \cup {e}) /\ \A x \in Shard : x # s => hot'[x] = hot[x]
      BY <1>1, <2>1, HotAfter
    <2>4. RegionsIn(hot'[s].items) = RegionsIn(hot[s].items) \cup {r}
      BY <2>2, <2>3, RegionsMore DEF Sound
    <2>5. Left({Hand(t), HotOf(s)})
      BY <1>7, <2>1, <2>3, LeftBy, PlaceNames
    <2>6. Keeps(Hand(t)) = {r} /\ Keeps(Hand(t))' = Keeps(Hand(t)) \ {r}
      BY <1>5, <1>6, <2>1
    <2>7. /\ HotOf(s) \in Places /\ Keeps(HotOf(s)) = RegionsIn(hot[s].items)
          /\ Keeps(HotOf(s))' = RegionsIn(hot'[s].items)
      BY PlaceFacts
    <2> QED
      BY <1>1, <1>4, <1>8, <2>1, <2>4, <2>5, <2>6, <2>7, ApartMoves
  <1>17. ASSUME NEW s \in Shard, NEW d \in DiscardOutcomes, ParksCold(t, s, d) PROVE Apart'
    <2> DEFINE r == held[t].region
               e == Entry(held[t].region, d.zeroed, d.physical /\ ~d.zeroed)
    <2>1. /\ pc[t] = "park" /\ held'[t] = Nothing
          /\ ColdBecomes(s, ToSet(cold[s].items) \cup {e}) /\ UNCHANGED <<mapped, leaked, stash, hot, live>>
      BY <1>2, <1>17 DEF ParksCold
    <2>2. e.region = r
      BY DEF Entry
    <2> HIDE DEF e
    <2>3. Sound(cold'[s], ToSet(cold[s].items) \cup {e}) /\ \A x \in Shard : x # s => cold'[x] = cold[x]
      BY <1>1, <2>1, ColdAfter
    <2>4. RegionsIn(cold'[s].items) = RegionsIn(cold[s].items) \cup {r}
      BY <2>2, <2>3, RegionsMore DEF Sound
    <2>5. Left({Hand(t), ColdOf(s)})
      BY <1>7, <2>1, <2>3, LeftBy, PlaceNames
    <2>6. Keeps(Hand(t)) = {r} /\ Keeps(Hand(t))' = Keeps(Hand(t)) \ {r}
      BY <1>5, <1>6, <2>1
    <2>7. /\ ColdOf(s) \in Places /\ Keeps(ColdOf(s)) = RegionsIn(cold[s].items)
          /\ Keeps(ColdOf(s))' = RegionsIn(cold'[s].items)
      BY PlaceFacts
    <2> QED
      BY <1>1, <1>4, <1>8, <2>1, <2>4, <2>5, <2>6, <2>7, ApartMoves
  \* The operating system.
  <1>18. ASSUME NEW r \in Region \ mapped, mapped' = mapped \cup {r}, Hold(t, Entry(r, TRUE, FALSE)), MapRegion(t)
         PROVE  Apart'
    <2>1. pc[t] = "map" /\ held'[t] = Entry(r, TRUE, FALSE) /\ UNCHANGED <<leaked, stash, hot, cold, live>>
      BY <1>2, <1>18 DEF MapRegion
    <2>2. Left({Hand(t)})
      BY <1>7, <2>1, LeftBy, PlaceNames
    <2>3. Keeps(Hand(t)) = {} /\ Keeps(Hand(t))' = {r}
      BY <1>5, <1>6, <2>1, EntryType
    <2> QED
      BY <1>1, <1>4, <1>18, <2>2, <2>3, ApartComes
  <1>19. CASE UnmapRegion(t)
    <2> DEFINE r == held[t].region
    <2>1. pc[t] = "unmap" /\ held'[t] = Nothing /\ UNCHANGED <<stash, hot, cold, live>> /\ Release(r)
      BY <1>2, <1>19 DEF UnmapRegion
    <2>2. Keeps(Hand(t)) = {r} /\ Keeps(Hand(t))' = Keeps(Hand(t)) \ {r}
      BY <1>5, <1>6, <2>1
    <2>3. CASE mapped' = mapped \ {r} /\ UNCHANGED leaked
      <3>1. Left({Hand(t)})
        BY <1>7, <2>1, <2>3, LeftBy, PlaceNames
      <3> QED
        BY <1>1, <1>4, <2>2, <2>3, <3>1, ApartGoes
    <2>4. CASE leaked' = leaked \cup {r} /\ UNCHANGED mapped
      <3>1. Left({Hand(t), Leaked})
        BY <1>7, <2>1, <2>4, LeftBy, PlaceNames
      <3> QED
        BY <1>1, <1>4, <1>8, <2>2, <2>4, <3>1, ApartMoves
    <2> QED
      BY <2>1, <2>3, <2>4 DEF Release
  <1>20. ASSUME NEW r \in Region, Flushes(t, r) PROVE Apart'
    <2>1. /\ UNCHANGED <<hot, cold, live, held>> /\ Release(r) /\ r \in ToSet(stash[t])
          /\ StashBecomes(t, ToSet(stash[t]) \ {r})
      BY <1>20 DEF Flushes
    <2>2. ToSet(stash'[t]) = ToSet(stash[t]) \ {r} /\ \A u \in Thread : u # t => stash'[u] = stash[u]
      BY <1>1, <2>1, StashAfter
    <2>3. CASE mapped' = mapped \ {r} /\ UNCHANGED leaked
      <3>1. Left({StashOf(t)})
        BY <2>1, <2>2, <2>3, LeftBy, PlaceNames
      <3> QED
        BY <1>1, <1>4, <2>1, <2>2, <2>3, <3>1, ApartGoes
    <2>4. CASE leaked' = leaked \cup {r} /\ UNCHANGED mapped
      <3>1. Left({StashOf(t), Leaked})
        BY <2>1, <2>2, <2>4, LeftBy, PlaceNames
      <3> QED
        BY <1>1, <1>4, <1>8, <2>1, <2>2, <2>4, <3>1, ApartMoves
    <2> QED
      BY <2>1, <2>3, <2>4 DEF Release
  \* A retired cache.
  <1>21. ASSUME NEW u \in Thread, Adopt(t, u) PROVE Apart'
    <2>1. /\ t # u /\ stash[t] = <<>> /\ stash' = [stash EXCEPT ![t] = stash[u], ![u] = <<>>]
          /\ UNCHANGED <<mapped, leaked, hot, cold, live, held>>
      BY <1>21 DEF Adopt
    <2>2. /\ stash'[t] = stash[u] /\ stash'[u] = <<>>
          /\ \A w \in Thread : w # t /\ w # u => stash'[w] = stash[w]
      BY <1>1, <2>1 DEF TypeOK
    <2>3. Left({StashOf(u), StashOf(t)})
      BY <2>1, <2>2, LeftBy, PlaceNames
    <2>4. ToSet(<<>>) = {}
      BY DEF ToSet
    <2>5. /\ StashOf(u) \in Places /\ StashOf(u) # StashOf(t)
          /\ Keeps(StashOf(u)) = ToSet(stash[u]) /\ Keeps(StashOf(u))' = ToSet(stash'[u])
      BY <2>1, PlaceFacts, PlaceNames
    <2>6. Keeps(StashOf(t)) = {} /\ Keeps(StashOf(t))' = Keeps(StashOf(u)) /\ Keeps(StashOf(u))' = {}
      BY <1>4, <2>1, <2>2, <2>4, <2>5
    <2> QED
      BY <1>1, <1>4, <2>1, <2>3, <2>5, <2>6, ApartSwaps
  \* The rest moves nothing.
  <1>22. CASE CallView(t)
    <2>1. \A k \in Requests, n \in Nat : StashMiss(t, k, n) => Apart'
      BY <1>9 DEF StashMiss
    <2>2. BeginFlush(t) => Apart'
      BY <1>9 DEF BeginFlush
    <2> QED
      BY <1>10, <1>12, <1>21, <1>22, <2>1, <2>2 DEF CallView
  <1>23. CASE AllocatingView(t)
    <2>1. ShardMiss(t) \/ CountRegion(t) => Apart'
      BY <1>9 DEF ShardMiss, CountRegion
    <2>2. Handoff(t) => Apart'
      BY <1>2, <1>9 DEF Handoff, Entry
    <2>3. ASSUME MapRegion(t), Done(t), UNCHANGED mapped PROVE Apart'
      <3>1. held'[t].region = held[t].region
        BY <1>1, <1>2, <2>3, HeldFacts DEF MapRegion
      <3> QED
        BY <1>9, <2>3, <3>1 DEF MapRegion
    <2>4. MapRegion(t) => Apart'
      BY <1>18, <2>3 DEF MapRegion
    <2> QED
      BY <1>13, <1>14, <1>15, <1>23, <2>1, <2>2, <2>4 DEF AllocatingView
  <1>24. CASE FreeingView(t)
    <2>1. StashFull(t) \/ ParkFails(t) => Apart'
      BY <1>9 DEF StashFull, ParkFails
    <2> QED
      BY <1>11, <1>16, <1>17, <1>19, <1>20, <1>24, <2>1 DEF FreeingView
  <1> QED
    BY <1>22, <1>23, <1>24

-----------------------------------------------------------------------------
(* Decommitted pages. *)

\* A decommitted region stays labelled until it is recommitted.
LEMMA AbsentStep ==
  ASSUME LargeInv, NEW t \in Thread, CallView(t) \/ AllocatingView(t) \/ FreeingView(t)
  PROVE  AbsentSays'
  <1>1. TypeOK /\ CallInv /\ AbsentSays /\ Others(t)
    BY OthersStep DEF LargeInv
  <1>2. DOMAIN pc = Thread /\ DOMAIN held = Thread
    BY <1>1 DEF TypeOK
  <1> DEFINE InCold(r) == \E s \in Shard : \E e \in ToSet(cold[s].items) : e.region = r /\ e.decommitted
             InHand(r) == \E u \in Thread : pc[u] = "handoff" /\ held[u].region = r /\ held[u].decommitted
  <1>3. /\ \A r \in absent : InCold(r) \/ InHand(r)
        /\ AbsentSays' <=> \A r \in absent' : InCold(r)' \/ InHand(r)'
    BY <1>1 DEF AbsentSays
  <1>4. ASSUME pc[t] # "handoff", NEW r, InHand(r) PROVE InHand(r)'
    BY <1>1, <1>4 DEF Others
  <1> USE DEF Goto, Hold, Done
  \* What has nothing to do with the cold parts or with a taken region.
  <1>5. ASSUME UNCHANGED cold, absent' \subseteq absent, pc[t] # "handoff" PROVE AbsentSays'
    <2>1. \A r : InCold(r) => InCold(r)'
      BY <1>5
    <2> HIDE DEF InCold, InHand
    <2> QED
      BY <1>3, <1>4, <1>5, <2>1
  <1>6. ASSUME NEW s \in Shard, NEW e \in Entries, TakesCold(t, s, e) PROVE AbsentSays'
    <2>1. /\ pc[t] = "shard" /\ pc'[t] = "handoff" /\ held'[t] = e /\ e \in ToSet(cold[s].items)
          /\ ColdBecomes(s, ToSet(cold[s].items) \ {e}) /\ UNCHANGED absent
      BY <1>2, <1>6 DEF TakesCold
    <2>2. Sound(cold'[s], ToSet(cold[s].items) \ {e}) /\ \A x \in Shard : x # s => cold'[x] = cold[x]
      BY <1>1, <2>1, ColdAfter
    <2>3. ASSUME NEW r, InCold(r) PROVE InCold(r)' \/ InHand(r)'
      <3>1. PICK x \in Shard : \E f \in ToSet(cold[x].items) : f.region = r /\ f.decommitted
        BY <2>3
      <3>2. PICK f \in ToSet(cold[x].items) : f.region = r /\ f.decommitted
        BY <3>1
      <3>3. CASE x = s /\ f = e
        BY <2>1, <3>2, <3>3
      <3>4. CASE ~(x = s /\ f = e)
        <4>1. f \in ToSet(cold'[x].items)
          BY <2>2, <3>4 DEF Sound
        <4> QED
          BY <3>2, <4>1
      <3> QED
        BY <3>3, <3>4
    <2>4. pc[t] # "handoff"
      BY <2>1
    <2> HIDE DEF InCold, InHand
    <2> QED
      BY <1>3, <1>4, <2>1, <2>3, <2>4
  <1>7. ASSUME NEW s \in Shard, NEW d \in DiscardOutcomes, ParksCold(t, s, d) PROVE AbsentSays'
    <2> DEFINE e == Entry(held[t].region, d.zeroed, d.physical /\ ~d.zeroed)
    <2>1. /\ pc[t] = "park" /\ ColdBecomes(s, ToSet(cold[s].items) \cup {e})
          /\ absent' = IF d.physical /\ ~d.zeroed THEN absent \cup {held[t].region} ELSE absent
      BY <1>7 DEF ParksCold, Discard
    <2>2. e.region = held[t].region /\ e.decommitted = (d.physical /\ ~d.zeroed)
      BY DEF Entry
    <2> HIDE DEF e
    <2>3. Sound(cold'[s], ToSet(cold[s].items) \cup {e}) /\ \A x \in Shard : x # s => cold'[x] = cold[x]
      BY <1>1, <2>1, ColdAfter
    <2>4. \A x \in Shard : ToSet(cold[x].items) \subseteq ToSet(cold'[x].items)
      BY <2>3 DEF Sound
    <2>5. \A r : InCold(r) => InCold(r)'
      BY <2>4
    <2>6. e \in ToSet(cold'[s].items)
      BY <2>3 DEF Sound
    <2>7. ASSUME d.physical /\ ~d.zeroed, NEW r, r = held[t].region PROVE InCold(r)'
      <3>1. PICK f \in ToSet(cold'[s].items) : f = e
        BY <2>6
      <3>2. f.region = r /\ f.decommitted
        BY <2>2, <2>7, <3>1
      <3> QED
        BY <3>2
    <2>8. pc[t] # "handoff"
      BY <2>1
    <2> HIDE DEF InCold, InHand
    <2> QED
      BY <1>3, <1>4, <2>1, <2>5, <2>7, <2>8
  <1>8. CASE Handoff(t)
    <2>1. /\ pc[t] = "handoff" /\ UNCHANGED cold
          /\ absent' = IF held[t].decommitted THEN absent \ {held[t].region} ELSE absent
      BY <1>8 DEF Handoff, storeVars
    <2>2. \A r : InCold(r) => InCold(r)'
      BY <2>1
    <2>3. ASSUME NEW r \in absent', InHand(r) PROVE InHand(r)'
      <3>1. PICK u \in Thread : pc[u] = "handoff" /\ held[u].region = r /\ held[u].decommitted
        BY <2>3
      <3>2. u # t
        BY <2>1, <2>3, <3>1
      <3> QED
        BY <1>1, <3>1, <3>2 DEF Others
    <2>4. absent' \subseteq absent
      BY <2>1
    <2> HIDE DEF InCold, InHand
    <2> QED
      BY <1>3, <2>2, <2>3, <2>4
  <1>9. CASE CallView(t)
    BY <1>5, <1>9 DEF CallView, StashMiss, StashHit, Free, BeginFlush, Adopt, storeVars
  <1>10. CASE AllocatingView(t)
    <2>1. ShardMiss(t) \/ MapRegion(t) \/ CountRegion(t) \/ LinkRegion(t) => AbsentSays'
      BY <1>5 DEF ShardMiss, MapRegion, CountRegion, LinkRegion, storeVars
    <2>2. \A s \in Shard, e \in Entries : TakesHot(t, s, e) => AbsentSays'
      BY <1>5 DEF TakesHot
    <2> QED
      BY <1>6, <1>8, <1>10, <2>1, <2>2 DEF AllocatingView
  <1>11. CASE FreeingView(t)
    <2>1. StashFull(t) \/ Pushes(t) \/ ParkFails(t) \/ UnmapRegion(t) => AbsentSays'
      BY <1>5 DEF StashFull, Pushes, ParkFails, UnmapRegion, storeVars
    <2>2. \A s \in Shard : ParksHot(t, s) => AbsentSays'
      BY <1>5 DEF ParksHot
    <2>3. \A r \in Region : Flushes(t, r) => AbsentSays'
      BY <1>5 DEF Flushes
    <2> QED
      BY <1>7, <1>11, <2>1, <2>2, <2>3 DEF FreeingView
  <1> QED
    BY <1>9, <1>10, <1>11

-----------------------------------------------------------------------------
(* Bytes. *)

\* What the program holds is in no thread's hands and in no shard.
LEMMA LiveApart ==
  ASSUME Apart, NEW r \in live, r # NoRegion
  PROVE  /\ \A u \in Thread : held[u].region # r
         /\ \A s \in Shard : r \notin RegionsIn(hot[s].items) /\ r \notin RegionsIn(cold[s].items)
  <1>1. Program \in Places /\ r \in Keeps(Program)
    BY PlaceFacts
  <1>2. \A p \in Places : p # Program => r \notin Keeps(p)
    BY <1>1 DEF Apart
  <1> QED
    BY <1>2, PlaceFacts, PlaceNames

\* A step of t that writes to the regions D only.
LEMMA ZeroBy ==
  ASSUME LargeInv, NEW t \in Thread, Others(t), NEW D, dirty' \subseteq dirty \cup D,
         zeroed' \subseteq live' \ dirty',
         held'[t].zeroed => held'[t].region \notin dirty',
         \A u \in Thread : u # t => held[u].region \notin D,
         \A s \in Shard : \A e \in ToSet(hot'[s].items) :
           (e \in ToSet(hot[s].items) /\ e.region \notin D) \/ (e.zeroed => e.region \notin dirty'),
         \A s \in Shard : \A e \in ToSet(cold'[s].items) :
           (e \in ToSet(cold[s].items) /\ e.region \notin D) \/ (e.zeroed => e.region \notin dirty')
  PROVE  ZeroInv'
  <1>1. /\ \A u \in Thread : held[u].zeroed => held[u].region \notin dirty
        /\ \A s \in Shard : \A e \in ToSet(hot[s].items) : e.zeroed => e.region \notin dirty
        /\ \A s \in Shard : \A e \in ToSet(cold[s].items) : e.zeroed => e.region \notin dirty
    BY DEF LargeInv, ZeroInv
  <1>2. \A u \in Thread : held'[u].zeroed => held'[u].region \notin dirty'
    BY <1>1 DEF Others
  <1>3. \A s \in Shard : \A e \in ToSet(hot'[s].items) : e.zeroed => e.region \notin dirty'
    BY <1>1
  <1>4. \A s \in Shard : \A e \in ToSet(cold'[s].items) : e.zeroed => e.region \notin dirty'
    BY <1>1
  <1> QED
    BY <1>2, <1>3, <1>4 DEF ZeroInv

\* Stores that only lose entries, or stay.
LEMMA ZeroQuiet ==
  ASSUME LargeInv, NEW t \in Thread, Others(t), dirty' \subseteq dirty, zeroed' = zeroed, live' = live,
         held'[t].zeroed => held'[t].region \notin dirty',
         \A s \in Shard : ToSet(hot'[s].items) \subseteq ToSet(hot[s].items),
         \A s \in Shard : ToSet(cold'[s].items) \subseteq ToSet(cold[s].items)
  PROVE  ZeroInv'
  <1>1. zeroed' \subseteq live' \ dirty'
    BY DEF LargeInv, ZeroInv
  <1> DEFINE D == {}
  <1>2. /\ dirty' \subseteq dirty \cup D /\ \A u \in Thread : u # t => held[u].region \notin D
        /\ \A s \in Shard : \A e \in ToSet(hot'[s].items) : e \in ToSet(hot[s].items) /\ e.region \notin D
        /\ \A s \in Shard : \A e \in ToSet(cold'[s].items) : e \in ToSet(cold[s].items) /\ e.region \notin D
    OBVIOUS
  <1> HIDE DEF D
  <1> QED
    BY <1>1, <1>2, ZeroBy

\* No step makes a claim of zero bytes false, or a false claim.
LEMMA ZeroStep ==
  ASSUME LargeInv, NEW t \in Thread, CallView(t) \/ AllocatingView(t) \/ FreeingView(t)
  PROVE  ZeroInv'
  <1>1. TypeOK /\ CallInv /\ Apart /\ ZeroInv /\ Others(t)
    BY OthersStep DEF LargeInv, InOnePlace
  <1>2. DOMAIN pc = Thread /\ DOMAIN held = Thread
    BY <1>1 DEF TypeOK
  <1>3. /\ zeroed \subseteq live \ dirty
        /\ held[t].zeroed => held[t].region \notin dirty
        /\ \A s \in Shard : \A e \in ToSet(hot[s].items) : e.zeroed => e.region \notin dirty
        /\ \A s \in Shard : \A e \in ToSet(cold[s].items) : e.zeroed => e.region \notin dirty
    BY <1>1 DEF ZeroInv
  <1>4. ASSUME UNCHANGED <<hot, cold, live, dirty, zeroed>>, held'[t].zeroed => held'[t] = held[t] PROVE ZeroInv'
    <2>1. held'[t].zeroed => held'[t].region \notin dirty'
      BY <1>3, <1>4
    <2> QED
      BY <1>1, <1>4, <2>1, ZeroQuiet
  <1> USE DEF Goto, Hold, Done, progVars
  <1>5. \A k \in Requests, n \in Nat : StashMiss(t, k, n) => ZeroInv'
    BY <1>4 DEF StashMiss, storeVars
  <1>6. ASSUME NEW k \in Requests, NEW n \in Nat, NEW r \in Region, StashHit(t, k, n, r) PROVE ZeroInv'
    <2>1. held'[t] = Entry(r, FALSE, FALSE)
      BY <1>2, <1>6 DEF StashHit
    <2>2. held'[t].zeroed = FALSE
      BY <2>1, EntryType
    <2> QED
      BY <1>4, <1>6, <2>2 DEF StashHit
  <1>7. ASSUME NEW r \in live, Free(t, r) PROVE ZeroInv'
    <2>1. r \in Region
      BY <1>1 DEF TypeOK
    <2>2. /\ live' = live \ {r} /\ zeroed' = zeroed \ {r} /\ dirty' = dirty \cup {r}
          /\ held'[t] = Entry(r, FALSE, FALSE) /\ UNCHANGED <<hot, cold>>
      BY <1>2, <1>7 DEF Free, storeVars
    <2>3. held'[t].zeroed = FALSE
      BY <2>1, <2>2, EntryType
    <2>4. r # NoRegion
      BY <2>1, LargeRegionsAssumption
    <2>5. /\ \A u \in Thread : held[u].region # r
          /\ \A s \in Shard : r \notin RegionsIn(hot[s].items) /\ r \notin RegionsIn(cold[s].items)
      BY <1>1, <2>4, LiveApart
    <2>6. /\ \A s \in Shard : \A e \in ToSet(hot'[s].items) : e \in ToSet(hot[s].items) /\ e.region \notin {r}
          /\ \A s \in Shard : \A e \in ToSet(cold'[s].items) : e \in ToSet(cold[s].items) /\ e.region \notin {r}
      BY <2>2, <2>5 DEF RegionsIn
    <2>7. zeroed' \subseteq live' \ dirty'
      BY <1>3, <2>2
    <2>8. \A u \in Thread : u # t => held[u].region \notin {r}
      BY <2>5
    <2>9. dirty' \subseteq dirty \cup {r}
      BY <2>2
    <2> QED
      BY <1>1, <2>3, <2>6, <2>7, <2>8, <2>9, ZeroBy
  <1>8. BeginFlush(t) => ZeroInv'
    BY <1>4 DEF BeginFlush, storeVars
  <1>9. \A u \in Thread : Adopt(t, u) => ZeroInv'
    BY <1>4 DEF Adopt, localVars
  <1>10. ShardMiss(t) \/ CountRegion(t) \/ StashFull(t) \/ ParkFails(t) => ZeroInv'
    BY <1>4 DEF ShardMiss, CountRegion, StashFull, ParkFails, storeVars
  <1>11. ASSUME NEW s \in Shard, NEW e \in Entries, TakesHot(t, s, e) PROVE ZeroInv'
    <2>1. /\ held'[t] = e /\ e \in ToSet(hot[s].items) /\ UNCHANGED <<cold, live, dirty, zeroed>>
          /\ HotBecomes(s, ToSet(hot[s].items) \ {e})
      BY <1>2, <1>11 DEF TakesHot
    <2>2. Sound(hot'[s], ToSet(hot[s].items) \ {e}) /\ \A x \in Shard : x # s => hot'[x] = hot[x]
      BY <1>1, <2>1, HotAfter
    <2>3. \A x \in Shard : ToSet(hot'[x].items) \subseteq ToSet(hot[x].items)
      BY <2>2 DEF Sound
    <2>4. held'[t].zeroed => held'[t].region \notin dirty'
      BY <1>3, <2>1
    <2> QED
      BY <1>1, <2>1, <2>3, <2>4, ZeroQuiet
  <1>12. ASSUME NEW s \in Shard, NEW e \in Entries, TakesCold(t, s, e) PROVE ZeroInv'
    <2>1. /\ held'[t] = e /\ e \in ToSet(cold[s].items) /\ UNCHANGED <<hot, live, dirty, zeroed>>
          /\ ColdBecomes(s, ToSet(cold[s].items) \ {e})
      BY <1>2, <1>12 DEF TakesCold
    <2>2. Sound(cold'[s], ToSet(cold[s].items) \ {e}) /\ \A x \in Shard : x # s => cold'[x] = cold[x]
      BY <1>1, <2>1, ColdAfter
    <2>3. \A x \in Shard : ToSet(cold'[x].items) \subseteq ToSet(cold[x].items)
      BY <2>2 DEF Sound
    <2>4. held'[t].zeroed => held'[t].region \notin dirty'
      BY <1>3, <2>1
    <2> QED
      BY <1>1, <2>1, <2>3, <2>4, ZeroQuiet
  <1>13. CASE MapRegion(t)
    <2>1. UNCHANGED <<hot, cold, live, zeroed>> /\ dirty' \subseteq dirty
      BY <1>13 DEF MapRegion, storeVars
    <2>2. held'[t].zeroed => held'[t].region \notin dirty'
      <3>1. CASE Done(t)
        BY <1>2, <3>1, NothingFacts
      <3>2. ASSUME NEW r \in Region, dirty' = dirty \ {r}, Hold(t, Entry(r, TRUE, FALSE))
            PROVE  held'[t].region \notin dirty'
        <4>1. held'[t].region = r
          BY <1>2, <3>2, EntryType
        <4>2. dirty' = dirty \ {r}
          BY <3>2
        <4> QED
          BY <4>1, <4>2
      <3> QED
        BY <1>13, <3>1, <3>2 DEF MapRegion
    <2> QED
      BY <1>1, <2>1, <2>2, ZeroQuiet
  <1>14. CASE Handoff(t)
    <2> DEFINE e == held[t]
    <2>1. UNCHANGED <<hot, cold, live, zeroed>> /\ dirty' \subseteq dirty /\ pc[t] = "handoff"
      BY <1>14 DEF Handoff, storeVars
    <2>2. e.region \in Region /\ e.zeroed \in BOOLEAN
      BY <1>1, <2>1, HeldFacts
    <2>3. held'[t].zeroed => held'[t].region \notin dirty'
      <3>1. CASE request[t].kind = "calloc" /\ ~e.zeroed
        <4>1. PICK d \in DiscardOutcomes : /\ dirty' = IF d.zeroed THEN dirty \ {e.region} ELSE dirty
                                           /\ held'[t] = Entry(e.region, d.zeroed, FALSE)
          BY <1>2, <1>14, <3>1 DEF Handoff
        <4>2. d.zeroed \in BOOLEAN
          BY LargeRegionsAssumption
        <4>3. held'[t].zeroed = d.zeroed /\ held'[t].region = e.region
          BY <4>1 DEF Entry
        <4> QED
          BY <4>1, <4>3
      <3>2. CASE ~(request[t].kind = "calloc" /\ ~e.zeroed)
        <4>1. dirty' = dirty /\ held'[t] = Entry(e.region, e.zeroed, FALSE)
          BY <1>2, <1>14, <3>2 DEF Handoff
        <4>2. held'[t].zeroed = e.zeroed /\ held'[t].region = e.region
          BY <4>1 DEF Entry
        <4> QED
          BY <1>3, <4>1, <4>2
      <3> QED
        BY <3>1, <3>2
    <2> QED
      BY <1>1, <2>1, <2>3, ZeroQuiet
  <1>15. CASE LinkRegion(t)
    <2> DEFINE r == held[t].region
    <2>1. /\ pc[t] = "link" /\ UNCHANGED <<hot, cold>> /\ live' = live \cup {r} /\ held'[t] = Nothing
      BY <1>2, <1>15 DEF LinkRegion, storeVars
    <2>2. r \in Region
      BY <1>1, <2>1, HeldFacts
    <2>3. /\ r \notin live /\ \A u \in Thread : u # t => held[u].region # r
          /\ \A s \in Shard : r \notin RegionsIn(hot[s].items)
          /\ \A s \in Shard : r \notin RegionsIn(cold[s].items)
      BY <1>1, <2>2, HandApart
    <2>4. /\ \A s \in Shard : \A e \in ToSet(hot'[s].items) : e \in ToSet(hot[s].items) /\ e.region \notin {r}
          /\ \A s \in Shard : \A e \in ToSet(cold'[s].items) : e \in ToSet(cold[s].items) /\ e.region \notin {r}
      BY <2>1, <2>3 DEF RegionsIn
    <2>5. dirty' \subseteq dirty \cup {r} /\ zeroed' \subseteq live' \ dirty'
      <3>1. CASE dirty' = dirty \cup {r} /\ UNCHANGED zeroed
        BY <1>3, <2>1, <2>3, <3>1
      <3>2. CASE dirty' = (IF held[t].zeroed THEN dirty ELSE dirty \ {r}) /\ zeroed' = zeroed \cup {r}
        BY <1>3, <2>1, <2>3, <3>2
      <3> QED
        BY <1>15, <3>1, <3>2 DEF LinkRegion
    <2>6. held'[t].zeroed = FALSE
      BY <2>1, NothingFacts
    <2>7. \A u \in Thread : u # t => held[u].region \notin {r}
      BY <2>3
    <2> QED
      BY <1>1, <2>4, <2>5, <2>6, <2>7, ZeroBy
  <1>16. CASE Pushes(t)
    BY <1>2, <1>4, <1>16, NothingFacts DEF Pushes
  <1>17. ASSUME NEW s \in Shard, ParksHot(t, s) PROVE ZeroInv'
    <2>1. /\ pc[t] = "park" /\ held'[t] = Nothing /\ UNCHANGED <<cold, live, dirty, zeroed>>
          /\ HotBecomes(s, ToSet(hot[s].items) \cup {held[t]})
      BY <1>2, <1>17 DEF ParksHot
    <2>2. Sound(hot'[s], ToSet(hot[s].items) \cup {held[t]}) /\ \A x \in Shard : x # s => hot'[x] = hot[x]
      BY <1>1, <2>1, HotAfter
    <2>3. held'[t].zeroed = FALSE
      BY <2>1, NothingFacts
    <2>4. /\ \A x \in Shard : \A e \in ToSet(hot'[x].items) : e.zeroed => e.region \notin dirty'
          /\ \A x \in Shard : \A e \in ToSet(cold'[x].items) : e.zeroed => e.region \notin dirty'
      BY <1>3, <2>1, <2>2 DEF Sound
    <2>5. zeroed' \subseteq live' \ dirty' /\ dirty' \subseteq dirty
      BY <1>3, <2>1
    <2> DEFINE D == {}
    <2>6. dirty' \subseteq dirty \cup D /\ \A u \in Thread : u # t => held[u].region \notin D
      BY <2>5
    <2> HIDE DEF D
    <2> QED
      BY <1>1, <2>3, <2>4, <2>5, <2>6, ZeroBy
  <1>18. ASSUME NEW s \in Shard, NEW d \in DiscardOutcomes, ParksCold(t, s, d) PROVE ZeroInv'
    <2> DEFINE r == held[t].region
               f == Entry(r, d.zeroed, d.physical /\ ~d.zeroed)
    <2>1. /\ pc[t] = "park" /\ held'[t] = Nothing /\ UNCHANGED <<hot, live, zeroed>>
          /\ ColdBecomes(s, ToSet(cold[s].items) \cup {f})
          /\ dirty' = IF d.zeroed THEN dirty \ {r} ELSE dirty
      BY <1>2, <1>18 DEF ParksCold, Discard
    <2>2. f.region = r /\ f.zeroed = d.zeroed
      BY DEF Entry
    <2> HIDE DEF f
    <2>3. Sound(cold'[s], ToSet(cold[s].items) \cup {f}) /\ \A x \in Shard : x # s => cold'[x] = cold[x]
      BY <1>1, <2>1, ColdAfter
    <2>4. held'[t].zeroed = FALSE
      BY <2>1, NothingFacts
    <2>5. dirty' \subseteq dirty /\ (f.zeroed => f.region \notin dirty')
      BY <2>1, <2>2
    <2>6. \A x \in Shard : \A e \in ToSet(hot'[x].items) : e.zeroed => e.region \notin dirty'
      BY <1>3, <2>1, <2>5
    <2>7. ASSUME NEW x \in Shard, NEW e \in ToSet(cold'[x].items) PROVE e.zeroed => e.region \notin dirty'
      <3>1. e \in ToSet(cold[x].items) \/ e = f
        BY <2>3 DEF Sound
      <3> QED
        BY <1>3, <2>5, <3>1
    <2>8. zeroed' \subseteq live' \ dirty' /\ dirty' \subseteq dirty
      BY <1>3, <2>1, <2>5
    <2> DEFINE D == {}
    <2>9. dirty' \subseteq dirty \cup D /\ \A u \in Thread : u # t => held[u].region \notin D
      BY <2>8
    <2> HIDE DEF D
    <2> QED
      BY <1>1, <2>4, <2>6, <2>7, <2>8, <2>9, ZeroBy
  <1>19. UnmapRegion(t) => ZeroInv'
    BY <1>2, <1>4, NothingFacts DEF UnmapRegion, storeVars
  <1>20. \A r \in Region : Flushes(t, r) => ZeroInv'
    BY <1>4 DEF Flushes
  <1> HIDE DEF Goto, Hold, Done, progVars
  <1>21. CASE CallView(t)
    BY <1>5, <1>6, <1>7, <1>8, <1>9, <1>21 DEF CallView
  <1>22. CASE AllocatingView(t)
    BY <1>10, <1>11, <1>12, <1>13, <1>14, <1>15, <1>22 DEF AllocatingView
  <1>23. CASE FreeingView(t)
    BY <1>10, <1>16, <1>17, <1>18, <1>19, <1>20, <1>23 DEF FreeingView
  <1> QED
    BY <1>21, <1>22, <1>23

\* Every step is a step of the contract, or changes nothing it speaks of.
LEMMA ContractStep ==
  ASSUME LargeInv, NEW t \in Thread, CallView(t) \/ AllocatingView(t) \/ FreeingView(t)
  PROVE  Contract!CNext \/ UNCHANGED Contract!cvars
  <1>1. TypeOK /\ CallInv /\ Apart /\ ZeroInv
    BY DEF LargeInv, InOnePlace
  <1>2. dirty' \in SUBSET Region
    BY SetsType
  <1>3. pc[t] \notin {"idle", "shard", "map", "flush"} => held[t].region \in Region /\ held[t].region \notin live
    BY <1>1, HeldFacts, HandApart
  <1>4. UNCHANGED progVars => UNCHANGED Contract!cvars
    BY DEF progVars, Contract!cvars
  <1>5. ASSUME UNCHANGED <<live, zeroed>>, NEW r, r \notin live, dirty' = dirty \ {r} PROVE Contract!CNext
    BY <1>2, <1>5 DEF Contract!CNext, Contract!CReclaim
  <1>6. ASSUME NEW r \in live, Free(t, r) PROVE Contract!CNext
    <2>1. r \in Region
      BY <1>1 DEF TypeOK
    <2>2. Contract!CFree(r)
      BY <1>6 DEF Free, Contract!CFree
    <2> QED
      BY <2>1, <2>2 DEF Contract!CNext
  <1>7. CASE LinkRegion(t)
    <2> DEFINE r == held[t].region
    <2>1. r \in Region /\ r \notin live /\ live' = live \cup {r}
      BY <1>3, <1>7 DEF LinkRegion
    <2>2. CASE dirty' = dirty \cup {r} /\ UNCHANGED zeroed
      <3>1. Contract!CMalloc(r)
        BY <2>1, <2>2 DEF Contract!CMalloc
      <3> QED
        BY <2>1, <3>1 DEF Contract!CNext
    <2>3. CASE dirty' = (IF held[t].zeroed THEN dirty ELSE dirty \ {r}) /\ zeroed' = zeroed \cup {r}
      <3>1. held[t].zeroed => r \notin dirty
        BY <1>1 DEF ZeroInv
      <3>2. dirty' = dirty \ {r}
        BY <2>3, <3>1
      <3>3. Contract!CCalloc(r)
        BY <2>1, <2>3, <3>2 DEF Contract!CCalloc
      <3> QED
        BY <2>1, <3>3 DEF Contract!CNext
    <2> QED
      BY <1>7, <2>2, <2>3 DEF LinkRegion
  <1>8. CASE MapRegion(t)
    <2>1. ASSUME NEW r \in Region \ mapped, dirty' = dirty \ {r} PROVE Contract!CNext
      <3>1. r \notin live
        BY <1>1, PlaceFacts DEF Apart
      <3> QED
        BY <1>5, <1>8, <2>1, <3>1 DEF MapRegion
    <2>2. UNCHANGED dirty => UNCHANGED Contract!cvars
      BY <1>8 DEF MapRegion, Contract!cvars
    <2> QED
      BY <1>8, <2>1, <2>2 DEF MapRegion
  <1>9. CASE Handoff(t)
    <2>1. pc[t] = "handoff" /\ UNCHANGED <<live, zeroed>>
      BY <1>9 DEF Handoff
    <2>2. held[t].region \notin live
      BY <1>3, <2>1
    <2>3. dirty' = dirty \ {held[t].region} \/ dirty' = dirty
      BY <1>9 DEF Handoff
    <2>4. UNCHANGED dirty => UNCHANGED Contract!cvars
      BY <2>1 DEF Contract!cvars
    <2> QED
      BY <1>5, <2>1, <2>2, <2>3, <2>4
  <1>10. ASSUME NEW s \in Shard, NEW d \in DiscardOutcomes, ParksCold(t, s, d)
         PROVE  Contract!CNext \/ UNCHANGED Contract!cvars
    <2>1. pc[t] = "park" /\ UNCHANGED <<live, zeroed>>
      BY <1>10 DEF ParksCold
    <2>2. held[t].region \notin live
      BY <1>3, <2>1
    <2>3. dirty' = dirty \ {held[t].region} \/ dirty' = dirty
      BY <1>10 DEF ParksCold, Discard
    <2>4. UNCHANGED dirty => UNCHANGED Contract!cvars
      BY <2>1 DEF Contract!cvars
    <2> QED
      BY <1>5, <2>1, <2>2, <2>3, <2>4
  <1>11. CASE CallView(t)
    BY <1>4, <1>6, <1>11 DEF CallView, StashMiss, StashHit, BeginFlush, Adopt
  <1>12. CASE AllocatingView(t)
    <2>1. ShardMiss(t) \/ CountRegion(t) => UNCHANGED progVars
      BY DEF ShardMiss, CountRegion
    <2>2. \A s \in Shard, e \in Entries : TakesHot(t, s, e) \/ TakesCold(t, s, e) => UNCHANGED progVars
      BY DEF TakesHot, TakesCold
    <2> QED
      BY <1>4, <1>7, <1>8, <1>9, <1>12, <2>1, <2>2 DEF AllocatingView
  <1>13. CASE FreeingView(t)
    <2>1. StashFull(t) \/ Pushes(t) \/ ParkFails(t) \/ UnmapRegion(t) => UNCHANGED progVars
      BY DEF StashFull, Pushes, ParkFails, UnmapRegion
    <2>2. \A s \in Shard : ParksHot(t, s) => UNCHANGED progVars
      BY DEF ParksHot
    <2>3. \A r \in Region : Flushes(t, r) => UNCHANGED progVars
      BY DEF Flushes
    <2> QED
      BY <1>4, <1>10, <1>13, <2>1, <2>2, <2>3 DEF FreeingView
  <1> QED
    BY <1>11, <1>12, <1>13

-----------------------------------------------------------------------------
(* The theorems. *)

\* It starts so.
LEMMA InitSafe == Init => LargeInv /\ Contract!CInit
  <1> SUFFICES ASSUME Init PROVE LargeInv /\ Contract!CInit
    OBVIOUS
  <1>1. EmptyTier \in Tiers /\ EmptyTier.items = <<>> /\ Distinct(<<>>) /\ ToSet(<<>>) = {} /\ Unrepeated(<<>>)
    BY LargeRegionsAssumption DEF EmptyTier, Tiers, Distinct, ToSet, Unrepeated
  <1>2. Indexed(EmptyTier)
    BY DEF Indexed, EmptyTier
  <1>3. \A s \in Shard : hot[s] = EmptyTier /\ cold[s] = EmptyTier
    BY DEF Init
  <1>4. \A t \in Thread : stash[t] = <<>> /\ held[t] = Nothing /\ pc[t] = "idle"
    BY DEF Init
  <1>5. TypeOK
    BY <1>1 DEF Init, TypeOK
  <1>6. CallInv /\ LongEnough
    BY <1>4 DEF CallInv, LongEnough
  <1>7. NoRepeats /\ IndexExact
    BY <1>1, <1>2, <1>3, <1>4 DEF NoRepeats, IndexExact
  <1>8. \A p \in Places : Keeps(p) = {}
    <2>1. live = {} /\ leaked = {}
      BY DEF Init
    <2>2. \A t \in Thread : Keeps(Hand(t)) = {} /\ Keeps(StashOf(t)) = {}
      BY <1>1, <1>4, PlaceFacts, NothingFacts
    <2>3. \A s \in Shard : Keeps(HotOf(s)) = {} /\ Keeps(ColdOf(s)) = {}
      BY <1>1, <1>3, PlaceFacts DEF RegionsIn
    <2>4. Keeps(Program) = {} /\ Keeps(Leaked) = {}
      BY <2>1, PlaceFacts
    <2> QED
      BY <2>2, <2>3, <2>4, PlaceNames
  <1>9. Apart
    BY <1>8 DEF Apart, Init
  <1>10. AbsentSays
    BY DEF Init, AbsentSays
  <1>11. Linking = {} /\ known = {} /\ live = {} /\ registryLen = 0
    BY <1>4 DEF Linking, Init
  <1>12. Recognised /\ FiniteInv
    <2>1. IsFiniteSet({}) /\ Cardinality({}) = 0
      BY FS_EmptySet
    <2>2. known \ ArenaRegion = {}
      BY <1>11
    <2> QED
      BY <1>11, <2>1, <2>2 DEF Recognised, FiniteInv
  <1>13. ZeroInv
    BY <1>1, <1>3, <1>4, NothingFacts DEF ZeroInv, Init
  <1>14. Contract!CInit
    BY DEF Init, Contract!CInit
  <1> QED
    BY <1>5, <1>6, <1>7, <1>9, <1>10, <1>12, <1>13, <1>14 DEF LargeInv, InOnePlace

\* A step of the large tier keeps the invariant, and is one of the contract.
LEMMA StepSafe ==
  ASSUME LargeInv, [Next]_vars
  PROVE  LargeInv' /\ [Contract!CNext]_(Contract!cvars)
  <1>1. CASE Next
    <2>1. PICK t \in Thread : CallView(t) \/ AllocatingView(t) \/ FreeingView(t)
      BY <1>1, NextView
    <2>2. TypeOK' /\ CallInv' /\ LongEnough'
      BY <2>1, CallStep
    <2>3. NoRepeats' /\ IndexExact'
      BY <2>1, StoreStep
    <2>4. Apart' /\ AbsentSays' /\ ZeroInv'
      BY <2>1, ApartStep, AbsentStep, ZeroStep
    <2>5. Recognised' /\ FiniteInv'
      BY <2>1, CountStep
    <2>6. Contract!CNext \/ UNCHANGED Contract!cvars
      BY <2>1, ContractStep
    <2> QED
      BY <2>2, <2>3, <2>4, <2>5, <2>6 DEF LargeInv, InOnePlace
  <1>2. CASE UNCHANGED vars
    <2> USE <1>2 DEF vars, osVars, storeVars, regVars, progVars, localVars
    <2>1. TypeOK' /\ CallInv' /\ LongEnough'
      BY DEF LargeInv, TypeOK, CallInv, LongEnough
    <2>2. NoRepeats' /\ IndexExact'
      BY DEF LargeInv, InOnePlace, NoRepeats, IndexExact
    <2>3. Left({}) /\ mapped' = mapped
      BY LeftBy
    <2>4. Apart'
      BY <2>3, ApartStays DEF LargeInv, InOnePlace
    <2>5. AbsentSays' /\ ZeroInv'
      BY DEF LargeInv, AbsentSays, ZeroInv
    <2>6. Recognised' /\ FiniteInv'
      BY DEF LargeInv, Recognised, FiniteInv, Linking
    <2>7. UNCHANGED Contract!cvars
      BY DEF Contract!cvars
    <2> QED
      BY <2>1, <2>2, <2>4, <2>5, <2>6, <2>7 DEF LargeInv, InOnePlace
  <1> QED
    BY <1>1, <1>2

\* The inductive invariant: the type invariant, one place for every region,
\* and what the entries, the index and the registry's count say is so.
THEOREM Safety == Spec => []LargeInv
  <1>1. Init => LargeInv
    BY InitSafe
  <1>2. LargeInv /\ [Next]_vars => LargeInv'
    BY StepSafe
  <1> QED
    BY <1>1, <1>2, PTL DEF Spec

\* A region that is mapped is with the program, in one stash, in one entry of
\* one shard, in the hands of one thread or leaked, and in one of these only.
THEOREM PlacedOnce == Spec => []InOnePlace
  <1>1. LargeInv => InOnePlace
    BY DEF LargeInv
  <1> QED
    BY <1>1, Safety, PTL

\* A free of a live region finds it, and LARGE_REGISTRY_LEN, which the lookup
\* reads without the lock, is the number of legacy regions linked or about to be.
THEOREM AlwaysRecognised == Spec => []Recognised
  <1>1. LargeInv => Recognised
    BY DEF LargeInv
  <1> QED
    BY <1>1, Safety, PTL

\* index_hot, remove_hot and their cold versions keep the exact-size index
\* right, however entries are swapped.
THEOREM IndexStaysExact == Spec => []IndexExact
  <1>1. LargeInv => IndexExact
    BY DEF LargeInv
  <1> QED
    BY <1>1, Safety, PTL

\* Decommitted pages are recommitted before the program or alloc_large_ex
\* touches them.
THEOREM NeverFaults == Spec => []NoFault
  <1>1. LargeInv => NoFault
    <2> SUFFICES ASSUME LargeInv, NEW r \in absent
                 PROVE  r \notin live /\ \A t \in Thread : held[t].region = r => pc[t] \notin {"count", "link"}
      BY DEF NoFault
    <2>1. TypeOK /\ CallInv /\ Apart /\ AbsentSays /\ r \in Region
      BY DEF LargeInv, InOnePlace, TypeOK
    <2>2. ASSUME NEW s \in Shard, NEW e \in ToSet(cold[s].items), e.region = r
          PROVE  r \notin live /\ \A t \in Thread : held[t].region # r
      <3>1. ColdOf(s) \in Places /\ r \in Keeps(ColdOf(s))
        BY <2>2, PlaceFacts DEF RegionsIn
      <3>2. \A p \in Places : p # ColdOf(s) => r \notin Keeps(p)
        BY <2>1, <3>1 DEF Apart
      <3>3. Program \in Places /\ Program # ColdOf(s) /\ Keeps(Program) = live
        BY PlaceFacts, PlaceNames
      <3>4. ASSUME NEW t \in Thread PROVE held[t].region # r
        <4>1. Hand(t) \in Places /\ Hand(t) # ColdOf(s) /\ Keeps(Hand(t)) = {held[t].region} \ {NoRegion}
          BY PlaceFacts, PlaceNames
        <4> QED
          BY <2>1, <3>2, <4>1, LargeRegionsAssumption
      <3> QED
        BY <3>2, <3>3, <3>4
    <2>3. ASSUME NEW t \in Thread, pc[t] = "handoff", held[t].region = r
          PROVE  r \notin live /\ \A u \in Thread : u # t => held[u].region # r
      BY <2>1, <2>3, HandApart
    <2>4. CASE \E s \in Shard : \E e \in ToSet(cold[s].items) : e.region = r /\ e.decommitted
      BY <2>2, <2>4
    <2>5. CASE \E t \in Thread : pc[t] = "handoff" /\ held[t].region = r /\ held[t].decommitted
      <3>1. PICK t \in Thread : pc[t] = "handoff" /\ held[t].region = r
        BY <2>5
      <3> QED
        BY <2>3, <3>1
    <2> QED
      BY <2>1, <2>4, <2>5 DEF AbsentSays
  <1> QED
    BY <1>1, Safety, PTL

\* alloc_large_ex never returns a region shorter than was asked for, whichever
\* of the index, the scans and the best fit found it.
THEOREM NeverShort == Spec => []LongEnough
  <1>1. LargeInv => LongEnough
    BY DEF LargeInv
  <1> QED
    BY <1>1, Safety, PTL

\* The large tier implements the contract of a block allocator.
THEOREM ContractHolds == Spec => ImplementsContract
  <1>1. Init => Contract!CInit
    BY InitSafe
  <1>2. LargeInv /\ [Next]_vars => [Contract!CNext]_(Contract!cvars)
    BY StepSafe
  <1> QED
    BY <1>1, <1>2, Safety, PTL DEF Spec, ImplementsContract, Contract!CSpec

=============================================================================
