----------------------------- MODULE ArenaProofs -----------------------------
(***************************************************************************)
(* ArenaInv is an invariant of Arena, for any threads, any reservation and *)
(* any hole store; with it Exclusive, Accounted, InUseIntact and           *)
(* TableExact.  TakesBestFit holds of every step.                          *)
(***************************************************************************)
EXTENDS Arena, FiniteSetTheorems, TLAPS

\* Every non-empty set of naturals has a least element.
LEMMA LeastNatural ==
  ASSUME NEW S \in SUBSET Nat, S # {}
  PROVE  \E k \in S : \A m \in S : k <= m
  <1>1. PICK k \in S : \A m \in S : ~(<<m, k>> \in OpToRel(<, Nat))
    BY WFMin, NatLessThanWellFounded
  <1>2. \A m \in S : ~(m < k)
    BY <1>1 DEF OpToRel
  <1>3. \A m \in S : k <= m
    BY <1>2
  <1> QED
    BY <1>3

\* refresh_exact finds the first entry of a length, or none.
LEMMA FirstFacts ==
  ASSUME NEW ents \in Seq(Slice), NEW n
  PROVE  LET i == FirstOfLength(ents, n) IN
         \/ /\ i \in DOMAIN ents /\ ents[i].n = n
         \/ i = 0 /\ \A j \in DOMAIN ents : ents[j].n # n
  <1> DEFINE I == {i \in 1 .. Len(ents) : ents[i].n = n}
             f == FirstOfLength(ents, n)
  <1>1. f = IF I # {} THEN Min(I) ELSE 0
    BY DEF FirstOfLength, SelectInSeq
  <1>2. DOMAIN ents = 1 .. Len(ents) /\ Len(ents) \in Nat
    OBVIOUS
  <1>3. CASE I = {}
    BY <1>1, <1>2, <1>3
  <1>4. CASE I # {}
    <2>1. I \in SUBSET Nat
      BY <1>2
    <2>2. \E k \in I : \A m \in I : k <= m
      BY <1>4, <2>1, LeastNatural
    <2>3. Min(I) \in I
      BY <2>2 DEF Min
    <2> QED
      BY <1>1, <1>2, <1>4, <2>3
  <1> QED
    BY <1>3, <1>4

\* The entry holes_take decides on is a least sufficient one, if there is any.
LEMMA ChosenFacts ==
  ASSUME TypeOK, NEW n \in Nat, NEW ex, ex = exact \/ ex = RefreshExact(entries, exact, n)
  PROVE  LET i == Chosen(ex, n) IN
         \/ /\ i \in DOMAIN entries /\ entries[i].n >= n
            /\ \A j \in DOMAIN entries : entries[j].n >= n => entries[i].n <= entries[j].n
         \/ i = 0 /\ \A j \in DOMAIN entries : entries[j].n < n
  <1> DEFINE fits == {k \in {e.n : e \in ToSet(entries)} : k >= n}
             least == CHOOSE k \in fits : \A m \in fits : k <= m
  <1>1. entries \in Seq(Slice) /\ DOMAIN entries = 1 .. Len(entries) /\ Len(entries) \in Nat
    BY DEF TypeOK
  <1>2. \A j \in DOMAIN entries : entries[j] \in Slice /\ entries[j].n \in Nat
    BY <1>1 DEF Slice
  <1>3. fits \in SUBSET Nat
    BY <1>2 DEF ToSet
  <1>4. \A j \in DOMAIN entries : entries[j].n >= n <=> entries[j].n \in fits
    BY <1>2 DEF ToSet
  <1>5. CASE n \in DOMAIN ex /\ HintValid(ex, n)
    BY <1>2, <1>5 DEF Chosen, HintValid
  <1>6. CASE ~(n \in DOMAIN ex /\ HintValid(ex, n))
    <2>1. Chosen(ex, n) = IF fits = {} THEN 0 ELSE FirstOfLength(entries, least)
      BY <1>6 DEF Chosen, BestFit
    <2>2. CASE fits = {}
      <3>1. \A j \in DOMAIN entries : ~(entries[j].n >= n)
        BY <1>4, <2>2
      <3> HIDE DEF fits
      <3> QED
        BY <1>2, <2>1, <2>2, <3>1
    <2>3. CASE fits # {}
      <3>1. least \in fits /\ \A m \in fits : least <= m
        BY <1>3, <2>3, LeastNatural
      <3>2. least \in {e.n : e \in ToSet(entries)} /\ least >= n
        BY <3>1
      <3>3. PICK j \in DOMAIN entries : entries[j].n = least
        BY <3>2 DEF ToSet
      <3> DEFINE f == FirstOfLength(entries, least)
      <3> HIDE DEF fits, least
      <3>4. f \in DOMAIN entries /\ entries[f].n = least
        BY <1>1, <3>3, FirstFacts
      <3> QED
        BY <1>2, <1>4, <2>1, <2>3, <3>1, <3>2, <3>4
    <2> QED
      BY <2>2, <2>3
  <1> QED
    BY <1>5, <1>6

-----------------------------------------------------------------------------
(* Pages. *)

\* The pages of sets of slices.
LEMMA PagesOfFacts ==
  /\ PagesOf({}) = {}
  /\ \A s : PagesOf({s}) = Pages(s)
  /\ \A S, T : PagesOf(S \cup T) = PagesOf(S) \cup PagesOf(T)
  /\ \A S : \A s \in S : Pages(s) \subseteq PagesOf(S)
  /\ \A S, p : p \in PagesOf(S) <=> \E s \in S : p \in Pages(s)
  BY DEF PagesOf

\* A slice has as many pages as it says, at least one, all in the reservation.
LEMMA SlicePages ==
  ASSUME NEW s \in Slice
  PROVE  /\ s.off \in Nat /\ s.n \in Nat \ {0} /\ s.off + s.n <= Size
         /\ Pages(s) \subseteq PageIdx
         /\ s.off \in Pages(s)
         /\ IsFiniteSet(Pages(s)) /\ Cardinality(Pages(s)) = s.n
  <1>1. s.off \in Nat /\ s.n \in Nat \ {0} /\ s.off + s.n <= Size
    BY ArenaAssumption DEF Slice, PageIdx
  <1>2. Pages(s) \subseteq PageIdx /\ s.off \in Pages(s)
    <2> DEFINE o == s.off
               n == s.n
    <2> HIDE DEF o, n
    <2>1. o \in Nat /\ n \in Nat \ {0} /\ o + n <= Size /\ Size \in Nat
      BY <1>1, ArenaAssumption DEF o, n
    <2>2. o .. o + n - 1 \subseteq 0 .. Size - 1 /\ o \in o .. o + n - 1
      BY <2>1
    <2> QED
      BY <2>2 DEF o, n, Pages, PageIdx
  <1>3. IsFiniteSet(Pages(s)) /\ Cardinality(Pages(s)) = s.n
    <2> DEFINE o == s.off
               e == s.off + s.n - 1
    <2>1. o \in Int /\ e \in Int /\ ~(o > e) /\ e - o + 1 = s.n
      BY <1>1
    <2> HIDE DEF o, e
    <2>2. IsFiniteSet(o .. e) /\ Cardinality(o .. e) = e - o + 1
      BY <2>1, FS_Interval
    <2> QED
      BY <2>1, <2>2 DEF o, e, Pages
  <1> QED
    BY <1>1, <1>2, <1>3

\* A slice split after its first n pages.
LEMMA SplitPages ==
  ASSUME NEW s \in Slice, NEW n \in Nat \ {0}, n < s.n
  PROVE  LET a == [off |-> s.off, n |-> n]
             r == [off |-> s.off + n, n |-> s.n - n]
         IN  /\ a \in Slice /\ r \in Slice
             /\ Pages(a) \cup Pages(r) = Pages(s)
             /\ Pages(a) \cap Pages(r) = {}
  BY ArenaAssumption DEF Slice, PageIdx, Pages

\* Who owns the pages below an offset b: slices in use, holes, each thread's
\* claim, or nobody any more.
Owned(U, H, C, A, b) ==
  /\ \A t, u \in Thread : t # u => \A p \in C[t] : p \notin C[u]
  /\ \A t \in Thread : \A p \in C[t] : p \notin H /\ p \notin U /\ p \notin A
  /\ \A p \in H : p \notin U /\ p \notin A
  /\ \A p \in U : p \notin A
  /\ \A p : p \in 0 .. b - 1 <=> p \in U \/ p \in H \/ p \in A \/ \E t \in Thread : p \in C[t]

ClaimOf == [t \in Thread |-> PagesOf(claim[t])]

\* The page-level part of Exclusive and Accounted is Owned.
LEMMA OwnedIff ==
  /\ Exclusive /\ Accounted => Owned(PagesOf(InUse), HolePages, ClaimOf, PagesOf(abandoned), bump)
  /\ Owned(PagesOf(InUse), HolePages, ClaimOf, PagesOf(abandoned), bump) =>
       /\ \A t, u \in Thread : t # u => PagesOf(claim[t]) \cap PagesOf(claim[u]) = {}
       /\ HolePages \cap (PagesOf(InUse) \cup ClaimPages \cup PagesOf(abandoned)) = {}
       /\ ClaimPages \cap (PagesOf(InUse) \cup PagesOf(abandoned)) = {}
       /\ PagesOf(InUse) \cap PagesOf(abandoned) = {}
       /\ PagesOf(InUse) \cup HolePages \cup ClaimPages \cup PagesOf(abandoned) = 0 .. bump - 1
  <1> DEFINE U == PagesOf(InUse)
             H == HolePages
             A == PagesOf(abandoned)
             C == ClaimOf
  <1>1. \A t \in Thread : C[t] = PagesOf(claim[t])
    BY DEF ClaimOf
  <1>2. \A p : p \in ClaimPages <=> \E t \in Thread : p \in C[t]
    BY <1>1 DEF ClaimPages
  <1> HIDE DEF U, H, A, C
  <1>3. ASSUME \A t, u \in Thread : t # u => PagesOf(claim[t]) \cap PagesOf(claim[u]) = {},
               H \cap (U \cup ClaimPages \cup A) = {},
               ClaimPages \cap (U \cup A) = {},
               U \cap A = {},
               U \cup H \cup ClaimPages \cup A = 0 .. bump - 1
        PROVE  Owned(U, H, C, A, bump)
    <2>1. \A p : p \in 0 .. bump - 1 <=> p \in U \/ p \in H \/ p \in A \/ \E t \in Thread : p \in C[t]
      BY <1>2, <1>3
    <2>2. \A t \in Thread : \A p \in C[t] : p \notin H /\ p \notin U /\ p \notin A
      BY <1>2, <1>3
    <2>3. \A t, u \in Thread : t # u => \A p \in C[t] : p \notin C[u]
      BY <1>1, <1>3
    <2>4. (\A p \in H : p \notin U /\ p \notin A) /\ (\A p \in U : p \notin A)
      BY <1>3
    <2> QED
      BY <2>1, <2>2, <2>3, <2>4 DEF Owned
  <1>4. ASSUME Owned(U, H, C, A, bump)
        PROVE  /\ \A t, u \in Thread : t # u => PagesOf(claim[t]) \cap PagesOf(claim[u]) = {}
               /\ H \cap (U \cup ClaimPages \cup A) = {}
               /\ ClaimPages \cap (U \cup A) = {}
               /\ U \cap A = {}
               /\ U \cup H \cup ClaimPages \cup A = 0 .. bump - 1
    <2>1. \A t, u \in Thread : t # u => PagesOf(claim[t]) \cap PagesOf(claim[u]) = {}
      BY <1>1, <1>4 DEF Owned
    <2>2. H \cap (U \cup ClaimPages \cup A) = {} /\ ClaimPages \cap (U \cup A) = {} /\ U \cap A = {}
      BY <1>2, <1>4 DEF Owned
    <2>3. \A p : p \in U \cup H \cup ClaimPages \cup A <=> p \in 0 .. bump - 1
      BY <1>2, <1>4 DEF Owned
    <2> QED
      BY <2>1, <2>2, <2>3
  <1> QED
    BY <1>3, <1>4 DEF U, H, A, C, Exclusive, Accounted

\* The moves of pages between owners.
LEMMA MoveHoleToClaim ==
  ASSUME NEW U, NEW H, NEW C, DOMAIN C = Thread, NEW A, NEW b, Owned(U, H, C, A, b),
         NEW t \in Thread, C[t] = {},
         NEW R, NEW P, H = R \cup P, R \cap P = {}
  PROVE  Owned(U, R, [C EXCEPT ![t] = P], A, b)
  BY DEF Owned

\* Pages in use go to the claim of a thread that has none.
LEMMA MoveUseToClaim ==
  ASSUME NEW U, NEW H, NEW C, DOMAIN C = Thread, NEW A, NEW b, Owned(U, H, C, A, b),
         NEW t \in Thread, C[t] = {},
         NEW R, NEW P, U = R \cup P, R \cap P = {}
  PROVE  Owned(R, H, [C EXCEPT ![t] = P], A, b)
  BY DEF Owned

\* A thread's claim goes to the pages in use, to the holes or to the abandoned pages.
LEMMA MoveClaim ==
  ASSUME NEW U, NEW H, NEW C, DOMAIN C = Thread, NEW A, NEW b, Owned(U, H, C, A, b),
         NEW t \in Thread
  PROVE  /\ Owned(U \cup C[t], H, [C EXCEPT ![t] = {}], A, b)
         /\ Owned(U, H \cup C[t], [C EXCEPT ![t] = {}], A, b)
         /\ Owned(U, H, [C EXCEPT ![t] = {}], A \cup C[t], b)
  BY DEF Owned

\* Pages above the frontier go to the claim of a thread that has none.
LEMMA MoveFreshToClaim ==
  ASSUME NEW U, NEW H, NEW C, DOMAIN C = Thread, NEW A, NEW b \in Nat, Owned(U, H, C, A, b),
         NEW t \in Thread, C[t] = {}, NEW c \in Nat, b <= c
  PROVE  Owned(U, H, [C EXCEPT ![t] = b .. c - 1], A, c)
  BY DEF Owned


-----------------------------------------------------------------------------
(* Types and control. *)

\* What TakeHole does to the hole store, without the hints.
TakeEffect(t) ==
  \/ /\ UNCHANGED <<entries, bytes, claim>> /\ Goto(t, "load")
     /\ \A j \in DOMAIN entries : entries[j].n < want[t]
  \/ \E i \in DOMAIN entries :
       LET e == entries[i] IN
       /\ e.n >= want[t]
       /\ \A j \in DOMAIN entries : entries[j].n >= want[t] => e.n <= entries[j].n
       /\ bytes' = bytes - want[t]
       /\ \/ /\ e.n > want[t]
             /\ entries' = [entries EXCEPT ![i] = [off |-> e.off + want[t], n |-> e.n - want[t]]]
          \/ /\ e.n = want[t]
             /\ entries' = SubSeq([entries EXCEPT ![i] = entries[Len(entries)]], 1, Len(entries) - 1)
       /\ Claim(t, {[off |-> e.off, n |-> want[t]]}) /\ Goto(t, "commitHole")

\* refresh_exact keeps the hints indices.
LEMMA RefreshType ==
  ASSUME NEW ents \in Seq(Slice), NEW ex \in [1 .. ExactMax -> Nat], NEW n
  PROVE  RefreshExact(ents, ex, n) \in [1 .. ExactMax -> Nat]
  <1>1. FirstOfLength(ents, n) \in Nat
    BY FirstFacts
  <1> QED
    BY <1>1 DEF RefreshExact

\* The removal or split of an entry.
LEMMA TakenEntries ==
  ASSUME NEW ents \in Seq(Slice), NEW i \in DOMAIN ents, NEW r \in Slice
  PROVE  /\ [ents EXCEPT ![i] = r] \in Seq(Slice)
         /\ SubSeq([ents EXCEPT ![i] = ents[Len(ents)]], 1, Len(ents) - 1) \in Seq(Slice)
         /\ Len([ents EXCEPT ![i] = r]) = Len(ents)
         /\ Len(SubSeq([ents EXCEPT ![i] = ents[Len(ents)]], 1, Len(ents) - 1)) = Len(ents) - 1
         /\ \A j \in 1 .. Len(ents) - 1 :
              SubSeq([ents EXCEPT ![i] = ents[Len(ents)]], 1, Len(ents) - 1)[j] =
                IF j = i THEN ents[Len(ents)] ELSE ents[j]
         /\ ents[i] \in Slice /\ Len(ents) \in Nat \ {0} /\ DOMAIN ents = 1 .. Len(ents)
  <1>1. ents[i] \in Slice /\ Len(ents) \in Nat \ {0} /\ DOMAIN ents = 1 .. Len(ents)
    OBVIOUS
  <1>2. ents[Len(ents)] \in Slice
    BY <1>1
  <1> DEFINE m == [ents EXCEPT ![i] = ents[Len(ents)]]
  <1>3. m \in Seq(Slice) /\ Len(m) = Len(ents)
    BY <1>1, <1>2
  <1>4. \A j \in 1 .. Len(ents) : m[j] = IF j = i THEN ents[Len(ents)] ELSE ents[j]
    BY <1>1
  <1>5. [ents EXCEPT ![i] = r] \in Seq(Slice) /\ Len([ents EXCEPT ![i] = r]) = Len(ents)
    BY <1>1
  <1> HIDE DEF m
  <1>6. /\ SubSeq(m, 1, Len(ents) - 1) \in Seq(Slice)
        /\ Len(SubSeq(m, 1, Len(ents) - 1)) = Len(ents) - 1
        /\ \A j \in 1 .. Len(ents) - 1 : SubSeq(m, 1, Len(ents) - 1)[j] = m[j]
    BY <1>1, <1>3
  <1> QED
    BY <1>1, <1>4, <1>5, <1>6 DEF m

\* TakeHole in terms of the holes alone: refreshed hints only decide which
\* hole is looked at first.
LEMMA TakeFacts ==
  ASSUME TypeOK, NEW t \in Thread, TakeHole(t), want[t] >= 1
  PROVE  TakeEffect(t) /\ exact' \in [1 .. ExactMax -> Nat]
  <1> DEFINE n  == want[t]
             ex == IF n \in DOMAIN exact /\ ~HintValid(exact, n)
                   THEN RefreshExact(entries, exact, n) ELSE exact
             i  == Chosen(ex, n)
             e  == entries[i]
             last == Len(entries)
             rest == [off |-> e.off + n, n |-> e.n - n]
             split == [entries EXCEPT ![i] = rest]
             moved == SubSeq([entries EXCEPT ![i] = entries[last]], 1, last - 1)
  <1>1. n \in Nat \ {0} /\ entries \in Seq(Slice) /\ exact \in [1 .. ExactMax -> Nat]
    BY DEF TypeOK
  <1>2. ex \in [1 .. ExactMax -> Nat]
    BY <1>1, RefreshType
  <1>3. ex = exact \/ ex = RefreshExact(entries, exact, n)
    OBVIOUS
  <1>4. \/ /\ i \in DOMAIN entries /\ entries[i].n >= n
           /\ \A j \in DOMAIN entries : entries[j].n >= n => entries[i].n <= entries[j].n
        \/ i = 0 /\ \A j \in DOMAIN entries : entries[j].n < n
    BY <1>1, <1>3, ChosenFacts
  <1>5. IF i = 0
        THEN exact' = ex /\ Goto(t, "load") /\ UNCHANGED <<entries, bytes, claim>>
        ELSE /\ bytes' = bytes - n
             /\ IF e.n > n
                THEN /\ entries' = split
                     /\ exact' = LET r == RefreshExact(split, ex, e.n) IN
                                 IF rest.n \in DOMAIN r THEN [r EXCEPT ![rest.n] = i] ELSE r
                ELSE /\ entries' = moved
                     /\ exact' = RefreshExact(moved, ex, e.n)
             /\ Claim(t, {[off |-> e.off, n |-> n]})
             /\ Goto(t, "commitHole")
    BY DEF TakeHole
  <1> HIDE DEF ex, i
  <1>6. DOMAIN entries = 1 .. Len(entries) /\ Len(entries) \in Nat
    BY <1>1
  <1>7. CASE i = 0
    <2>1. \A j \in DOMAIN entries : entries[j].n < n
      BY <1>4, <1>6, <1>7
    <2>2. exact' = ex /\ Goto(t, "load") /\ UNCHANGED <<entries, bytes, claim>>
      BY <1>5, <1>7
    <2> QED
      BY <1>2, <2>1, <2>2 DEF TakeEffect
  <1>8. CASE i # 0
    <2>1. i \in DOMAIN entries /\ e.n >= n /\ i \in Nat
      BY <1>4, <1>6, <1>8
    <2>2. e \in Slice /\ e.n \in Nat
      BY <1>1, <2>1, SlicePages
    <2>3. CASE e.n > n
      <3>1. rest \in Slice
        BY <1>1, <2>2, <2>3, SplitPages
      <3>2. split \in Seq(Slice)
        BY <1>1, <2>1, <3>1, TakenEntries
      <3> DEFINE r == RefreshExact(split, ex, e.n)
      <3>3. r \in [1 .. ExactMax -> Nat]
        BY <1>2, <3>2, RefreshType
      <3>4. exact' = IF rest.n \in DOMAIN r THEN [r EXCEPT ![rest.n] = i] ELSE r
        BY <1>5, <1>8, <2>3
      <3>5. exact' \in [1 .. ExactMax -> Nat]
        <4> HIDE DEF r
        <4> QED
          BY <2>1, <3>3, <3>4
      <3> QED
        BY <1>4, <1>5, <1>8, <2>1, <2>3, <3>5 DEF TakeEffect
    <2>4. CASE ~(e.n > n)
      <3>1. e.n = n
        BY <1>1, <2>1, <2>2, <2>4
      <3>2. moved \in Seq(Slice)
        BY <1>1, <2>1, <2>2, TakenEntries
      <3>3. exact' \in [1 .. ExactMax -> Nat]
        BY <1>2, <1>5, <1>8, <2>4, <3>2, RefreshType
      <3> QED
        BY <1>4, <1>5, <1>8, <2>1, <2>4, <3>1, <3>3 DEF TakeEffect
    <2> QED
      BY <2>3, <2>4
  <1> QED
    BY <1>7, <1>8


\* The actions.
LEMMA NextCases ==
  ASSUME Next
  PROVE  \E t \in Thread :
           \/ \E n \in 1 .. MaxRequest : Commit(t, n)
           \/ \E s \in live : BeginRelease(t, s)
           \/ \E s \in live : \E n \in 1 .. Size : BeginGrow(t, s, n)
           \/ Check(t)
           \/ EnterGuard(t)
           \/ Reserve(t)
           \/ Publish(t)
           \/ LeaveGuard(t)
           \/ ReadCount(t)
           \/ TakeHole(t)
           \/ CommitRange(t)
           \/ Give(t)
           \/ LoadBump(t)
           \/ CasBump(t)
           \/ Carve(t)
           \/ GrowCas(t)
           \/ GrowCommit(t)
           \/ Extend(t)
           \/ Discard(t)
  BY DEF Next, Call, Step

\* The first n pages of a slice are a slice.
LEMMA HeadSlice ==
  ASSUME NEW s \in Slice, NEW n \in Nat \ {0}, n <= s.n
  PROVE  [off |-> s.off, n |-> n] \in Slice
  BY ArenaAssumption DEF Slice, PageIdx

\* The range added to a slice, and the slice grown by it.
LEMMA AddedSlice ==
  ASSUME NEW s \in Slice, NEW n \in Nat, n > s.n, s.off + n <= Size
  PROVE  LET g == [off |-> s.off, n |-> n] IN
         /\ Added(s, n) \in Slice /\ g \in Slice
         /\ Pages(s) \cup Pages(Added(s, n)) = Pages(g)
         /\ Pages(s) \cap Pages(Added(s, n)) = {}
         /\ Pages(Added(s, n)) = s.off + s.n .. s.off + n - 1
  BY ArenaAssumption DEF Slice, PageIdx, Pages, Added

\* The holes cover at least the pages of each one: taking them off the total does
\* not underflow.
LEMMA EntryWithinBytes ==
  ASSUME TypeOK, Accounted, NEW i \in DOMAIN entries
  PROVE  entries[i].n <= bytes
  <1>1. entries[i] \in Slice
    BY DEF TypeOK
  <1>2. HolePages \subseteq 0 .. bump - 1 /\ bytes = Cardinality(HolePages)
    BY DEF Accounted
  <1>3. IsFiniteSet(HolePages)
    <2>1. bump - 1 \in Int
      BY ArenaAssumption DEF TypeOK
    <2>2. IsFiniteSet(0 .. bump - 1)
      BY <2>1, FS_Interval
    <2> QED
      BY <1>2, <2>2, FS_Subset
  <1>4. Pages(entries[i]) \subseteq HolePages
    BY DEF HolePages, ToSet, PagesOf
  <1> QED
    BY <1>1, <1>2, <1>3, <1>4, FS_Subset, SlicePages

\* TypeOK, step by step.
LEMMA TypeStep ==
  ASSUME ArenaInv, Next
  PROVE  TypeOK'
  <1>t. PICK t \in Thread :
           \/ \E n \in 1 .. MaxRequest : Commit(t, n)
           \/ \E s \in live : BeginRelease(t, s)
           \/ \E s \in live : \E n \in 1 .. Size : BeginGrow(t, s, n)
           \/ Check(t)
           \/ EnterGuard(t)
           \/ Reserve(t)
           \/ Publish(t)
           \/ LeaveGuard(t)
           \/ ReadCount(t)
           \/ TakeHole(t)
           \/ CommitRange(t)
           \/ Give(t)
           \/ LoadBump(t)
           \/ CasBump(t)
           \/ Carve(t)
           \/ GrowCas(t)
           \/ GrowCommit(t)
           \/ Extend(t)
           \/ Discard(t)
    BY NextCases
  <1>0. TypeOK /\ Hands(t)
    BY DEF ArenaInv
  <1>g. \A label \in PcLabels : Goto(t, label) => pc' \in [Thread -> PcLabels]
    BY <1>0 DEF Goto, TypeOK
  <1>l. {"idle", "check", "spin", "reserve", "publish", "unguard", "count",
         "take", "commitHole", "load", "cas", "commitBump", "carve",
         "discard", "give", "growCas", "growCommit", "extend"} \subseteq PcLabels
    BY DEF PcLabels
  <1>r. Return(t) => /\ pc' \in [Thread -> PcLabels]
                     /\ want' \in [Thread -> Nat] /\ off' \in [Thread -> Nat]
                     /\ fresh' \in [Thread -> BOOLEAN]
                     /\ claim' \in [Thread -> SUBSET Slice] /\ held' \in [Thread -> SUBSET Slice]
    <2> HAVE Return(t)
    <2>1. pc' \in [Thread -> PcLabels]
      BY <1>g, <1>l DEF Return
    <2>2. want' \in [Thread -> Nat] /\ off' \in [Thread -> Nat] /\ fresh' \in [Thread -> BOOLEAN]
      BY <1>0 DEF Return, TypeOK
    <2>3. claim' \in [Thread -> SUBSET Slice] /\ held' \in [Thread -> SUBSET Slice]
      BY <1>0 DEF Return, Claim, TypeOK
    <2> QED
      BY <2>1, <2>2, <2>3
  <1>c. ASSUME NEW s \in Slice, Claim(t, {s})
        PROVE  claim' \in [Thread -> SUBSET Slice]
    BY <1>0, <1>c DEF Claim, TypeOK
  <1>b. Size \in Nat /\ MaxRequest \in Nat /\ bump \in Nat
    BY <1>0, ArenaAssumption DEF TypeOK
  <1> USE DEF initVars, holeVars, localVars, userVars
  <1>1. CASE \E n \in 1 .. MaxRequest : Commit(t, n)
    <2>1. pc' \in [Thread -> PcLabels]
      BY <1>1, <1>g, <1>l DEF Commit
    <2>2. want' \in [Thread -> Nat]
      BY <1>0, <1>1, <1>b DEF Commit, TypeOK
    <2> QED
      BY <1>0, <1>1, <2>1, <2>2 DEF Commit, TypeOK
  <1>2. CASE \E s \in live : BeginRelease(t, s)
    <2> PICK s \in live : BeginRelease(t, s)
      BY <1>2
    <2>1. pc' \in [Thread -> PcLabels]
      BY <1>g, <1>l DEF BeginRelease
    <2>2. s \in Slice /\ claim' \in [Thread -> SUBSET Slice]
      BY <1>0, <1>c DEF BeginRelease, TypeOK
    <2>3. table' \in [PageIdx -> PageIdx \cup {NoMaster}]
      BY <1>0 DEF BeginRelease, TypeOK
    <2> QED
      BY <1>0, <2>1, <2>2, <2>3 DEF BeginRelease, TypeOK
  <1>3. CASE \E s \in live : \E n \in 1 .. Size : BeginGrow(t, s, n)
    <2> PICK s \in live, n \in 1 .. Size : BeginGrow(t, s, n)
      BY <1>3
    <2>1. pc' \in [Thread -> PcLabels]
      BY <1>g, <1>l DEF BeginGrow
    <2>2. held' \in [Thread -> SUBSET Slice] /\ want' \in [Thread -> Nat]
      BY <1>0, <1>b DEF BeginGrow, TypeOK
    <2> QED
      BY <1>0, <2>1, <2>2 DEF BeginGrow, TypeOK
  <1>4. CASE Check(t)
    <2>1. CASE Return(t)
      BY <1>0, <1>4, <2>1, <1>r DEF Check, TypeOK
    <2>2. CASE Goto(t, "spin") /\ UNCHANGED localVars
      BY <1>0, <1>4, <2>2, <1>g, <1>l DEF Check, TypeOK
    <2> QED
      BY <1>4, <2>1, <2>2 DEF Check
  <1>5. CASE EnterGuard(t)
    BY <1>0, <1>5, <1>g, <1>l DEF EnterGuard, TypeOK
  <1>6. CASE Reserve(t)
    <2>1. pc' \in [Thread -> PcLabels]
      BY <1>6, <1>g, <1>l DEF Reserve
    <2>2. bump' \in 0 .. Size /\ state' \in {"uninit", "ready", "disabled"}
      BY <1>0, <1>6, <1>b DEF Reserve, TypeOK
    <2> QED
      BY <1>0, <1>6, <2>1, <2>2 DEF Reserve, TypeOK
  <1>7. CASE Publish(t)
    BY <1>0, <1>7, <1>g, <1>l DEF Publish, TypeOK
  <1>8. CASE LeaveGuard(t)
    <2>1. CASE Return(t)
      BY <1>0, <1>8, <2>1, <1>r DEF LeaveGuard, TypeOK
    <2>2. CASE Goto(t, "count") /\ UNCHANGED localVars
      BY <1>0, <1>8, <2>2, <1>g, <1>l DEF LeaveGuard, TypeOK
    <2> QED
      BY <1>8, <2>1, <2>2 DEF LeaveGuard
  <1>9. CASE ReadCount(t)
    BY <1>0, <1>9, <1>g, <1>l DEF ReadCount, TypeOK
  <1>10. CASE TakeHole(t)
    <2>1. want[t] \in Nat \ {0}
      BY <1>0, <1>10 DEF TakeHole, Hands, EmptyHanded, TypeOK
    <2>2. TakeEffect(t) /\ exact' \in [1 .. ExactMax -> Nat]
      BY <1>0, <1>10, <2>1, TakeFacts
    <2>3. pc' \in [Thread -> PcLabels]
      BY <2>2, <1>g, <1>l DEF TakeEffect
    <2>4. UNCHANGED <<initVars, bump, abandoned, want, off, fresh, held, userVars>>
      BY <1>10 DEF TakeHole
    <2>5. CASE UNCHANGED <<entries, bytes, claim>>
      BY <1>0, <2>2, <2>3, <2>4, <2>5 DEF TypeOK
    <2>6. CASE ~UNCHANGED <<entries, bytes, claim>>
      <3>1. PICK i \in DOMAIN entries :
              /\ entries[i].n >= want[t]
              /\ bytes' = bytes - want[t]
              /\ \/ /\ entries[i].n > want[t]
                    /\ entries' = [entries EXCEPT ![i] = [off |-> entries[i].off + want[t], n |-> entries[i].n - want[t]]]
                 \/ /\ entries[i].n = want[t]
                    /\ entries' = SubSeq([entries EXCEPT ![i] = entries[Len(entries)]], 1, Len(entries) - 1)
              /\ Claim(t, {[off |-> entries[i].off, n |-> want[t]]})
        BY <2>2, <2>6 DEF TakeEffect
      <3>2. entries \in Seq(Slice) /\ entries[i] \in Slice
        BY <1>0 DEF TypeOK
      <3>2b. entries[i].n \in Nat /\ bytes \in Nat /\ entries[i].n <= bytes
        BY <1>0, <3>2, SlicePages, EntryWithinBytes DEF ArenaInv, TypeOK
      <3>3. [off |-> entries[i].off, n |-> want[t]] \in Slice
        BY <2>1, <3>1, <3>2, HeadSlice
      <3>4. entries' \in Seq(Slice)
        <4>1. CASE entries[i].n > want[t]
          <5> DEFINE r == [off |-> entries[i].off + want[t], n |-> entries[i].n - want[t]]
          <5>1. r \in Slice
            BY <2>1, <3>2, <3>2b, <4>1, SplitPages
          <5>2. entries' = [entries EXCEPT ![i] = r]
            BY <2>1, <3>1, <3>2b, <4>1
          <5> HIDE DEF r
          <5> QED
            BY <3>2, <5>1, <5>2, TakenEntries
        <4>2. CASE ~(entries[i].n > want[t])
          <5>1. entries' = SubSeq([entries EXCEPT ![i] = entries[Len(entries)]], 1, Len(entries) - 1)
            BY <3>1, <4>2
          <5> QED
            BY <3>2, <5>1, TakenEntries
        <4> QED
          BY <4>1, <4>2
      <3>5. bytes' \in Nat
        BY <2>1, <3>1, <3>2b
      <3> QED
        BY <1>0, <1>c, <2>2, <2>3, <2>4, <3>1, <3>3, <3>4, <3>5 DEF TypeOK
    <2> QED
      BY <2>5, <2>6
  <1>11. CASE CommitRange(t)
    <2>1. pc' \in [Thread -> PcLabels]
      BY <1>11, <1>g, <1>l DEF CommitRange
    <2>2. fresh' \in [Thread -> BOOLEAN] /\ data' \in SUBSET PageIdx
      BY <1>0, <1>11 DEF CommitRange, TypeOK
    <2> QED
      BY <1>0, <1>11, <2>1, <2>2 DEF CommitRange, TypeOK
  <1>12. CASE Give(t)
    <2>1. PICK s \in claim[t] : HolesGive(s)
      BY <1>12 DEF Give
    <2>2. s \in Slice /\ s.n \in Nat
      BY <1>0, SlicePages DEF TypeOK
    <2>3. /\ entries' \in Seq(Slice) /\ bytes' \in Nat
          /\ exact' \in [1 .. ExactMax -> Nat] /\ abandoned' \in SUBSET Slice
      <3>1. CASE Len(entries) < HoleSlots /\ bytes + s.n <= HoleCap
        <4>1. entries' = Append(entries, s) /\ bytes' = bytes + s.n /\ UNCHANGED abandoned
          BY <2>1, <3>1 DEF HolesGive
        <4>2. exact' = IF s.n \in DOMAIN exact THEN [exact EXCEPT ![s.n] = Len(entries) + 1] ELSE exact
          BY <2>1, <3>1 DEF HolesGive
        <4>3. Len(entries) + 1 \in Nat
          BY <1>0 DEF TypeOK
        <4>4. exact' \in [1 .. ExactMax -> Nat]
          BY <1>0, <4>2, <4>3 DEF TypeOK
        <4> QED
          BY <1>0, <2>2, <4>1, <4>4 DEF TypeOK
      <3>2. CASE ~(Len(entries) < HoleSlots /\ bytes + s.n <= HoleCap)
        BY <1>0, <2>1, <2>2, <3>2 DEF HolesGive, TypeOK
      <3> QED
        BY <3>1, <3>2
    <2>4. live' \in SUBSET Slice
      BY <1>0, <1>12 DEF Give, TypeOK
    <2> QED
      BY <1>0, <1>12, <1>r, <2>3, <2>4 DEF Give, TypeOK
  <1>13. CASE LoadBump(t)
    <2>1. CASE Return(t)
      BY <1>0, <1>13, <2>1, <1>r DEF LoadBump, TypeOK
    <2>2. CASE /\ off' = [off EXCEPT ![t] = bump] /\ Goto(t, "cas")
               /\ UNCHANGED <<want, fresh, claim, held>>
      BY <1>0, <1>13, <1>b, <2>2, <1>g, <1>l DEF LoadBump, TypeOK
    <2> QED
      BY <1>13, <2>1, <2>2 DEF LoadBump
  <1>14. CASE CasBump(t)
    <2>1. off[t] \in Nat /\ want[t] \in Nat \ {0} /\ off[t] + want[t] <= Size
      BY <1>0, <1>14 DEF CasBump, Hands, EmptyHanded, TypeOK
    <2>2. [off |-> off[t], n |-> want[t]] \in Slice
      BY <1>b, <2>1 DEF Slice, PageIdx
    <2>3. pc' \in [Thread -> PcLabels] /\ claim' \in [Thread -> SUBSET Slice] /\ bump' \in 0 .. Size
      <3>1. CASE bump = off[t]
        <4>1. /\ bump' = off[t] + want[t]
              /\ Claim(t, {[off |-> off[t], n |-> want[t]]}) /\ Goto(t, "commitBump")
          BY <1>14, <3>1 DEF CasBump
        <4>2. bump' \in 0 .. Size
          BY <1>b, <2>1, <4>1
        <4> QED
          BY <1>c, <1>g, <1>l, <2>2, <4>1, <4>2
      <3>2. CASE bump # off[t]
        BY <1>0, <1>14, <1>g, <1>l, <3>2 DEF CasBump, TypeOK
      <3> QED
        BY <3>1, <3>2
    <2> QED
      BY <1>0, <1>14, <2>3 DEF CasBump, TypeOK
  <1>15. CASE Carve(t)
    <2>1. PICK s \in claim[t] :
             /\ live' = live \cup {s}
             /\ data' = data \cup Pages(s)
             /\ table' = [i \in PageIdx |-> IF i \in Pages(s) THEN s.off ELSE table[i]]
      BY <1>15 DEF Carve
    <2>2. s \in Slice /\ Pages(s) \subseteq PageIdx /\ s.off \in PageIdx
      BY <1>0, SlicePages DEF TypeOK
    <2>3. table' \in [PageIdx -> PageIdx \cup {NoMaster}]
      BY <1>0, <2>1, <2>2 DEF TypeOK
    <2>4. data' \in SUBSET PageIdx /\ live' \in SUBSET Slice
      BY <1>0, <2>1, <2>2 DEF TypeOK
    <2> QED
      BY <1>0, <1>15, <1>r, <2>3, <2>4 DEF Carve, TypeOK
  <1>16. CASE GrowCas(t)
    <2>1. PICK s \in Slice : held[t] = {s} /\ want[t] > s.n /\ s.off + want[t] <= Size
      BY <1>0, <1>16 DEF GrowCas, Hands
    <2>2. Added(s, want[t]) \in Slice /\ s.off + want[t] \in 0 .. Size
      <3>1. want[t] \in Nat /\ s.off \in Nat
        BY <1>0, SlicePages DEF TypeOK
      <3>2. Added(s, want[t]) \in Slice
        BY <2>1, <3>1, AddedSlice
      <3> QED
        BY <1>b, <2>1, <3>1, <3>2
    <2>3. IF bump = s.off + s.n
          THEN /\ bump' = s.off + want[t] /\ Claim(t, {Added(s, want[t])})
               /\ Goto(t, "growCommit")
               /\ UNCHANGED <<want, off, fresh, held, live>>
          ELSE /\ live' = live \cup {s} /\ Return(t)
               /\ UNCHANGED bump
      BY <1>16, <2>1 DEF GrowCas, Added
    <2>4. UNCHANGED <<initVars, holeVars, data, table>>
      BY <1>16 DEF GrowCas
    <2>5. CASE bump = s.off + s.n
      BY <1>0, <1>c, <1>g, <1>l, <2>2, <2>3, <2>4, <2>5 DEF TypeOK
    <2>6. CASE bump # s.off + s.n
      BY <1>0, <1>r, <2>1, <2>3, <2>4, <2>6 DEF TypeOK
    <2> QED
      BY <2>5, <2>6
  <1>17. CASE GrowCommit(t)
    <2>1. pc' \in [Thread -> PcLabels] /\ data' \in SUBSET PageIdx
      BY <1>0, <1>17, <1>g, <1>l DEF GrowCommit, TypeOK
    <2> QED
      BY <1>0, <1>17, <2>1 DEF GrowCommit, TypeOK
  <1>18. CASE Extend(t)
    <2>1. PICK s \in Slice : /\ held[t] = {s} /\ want[t] > s.n /\ s.off + want[t] <= Size
                             /\ claim[t] = {Added(s, want[t])}
      BY <1>0, <1>18 DEF Extend, Hands
    <2> DEFINE g == [off |-> s.off, n |-> want[t]]
               a == Added(s, want[t])
    <2>2. g \in Slice /\ a \in Slice
      BY <1>0, <2>1, AddedSlice DEF TypeOK
    <2>3. Pages(a) \subseteq PageIdx /\ s.off \in PageIdx
      BY <2>1, <2>2, SlicePages
    <2>4. /\ live' = live \cup {g}
          /\ data' = data \cup Pages(a)
          /\ table' = [i \in PageIdx |-> IF i \in Pages(a) THEN s.off ELSE table[i]]
      BY <1>18, <2>1 DEF Extend
    <2> HIDE DEF a, g
    <2>5. table' \in [PageIdx -> PageIdx \cup {NoMaster}]
      BY <1>0, <2>3, <2>4 DEF TypeOK
    <2> QED
      BY <1>0, <1>18, <1>r, <2>2, <2>3, <2>4, <2>5 DEF Extend, TypeOK
  <1>19. CASE Discard(t)
    <2>1. pc' \in [Thread -> PcLabels] /\ data' \in SUBSET PageIdx
      BY <1>0, <1>19, <1>g, <1>l DEF Discard, TypeOK
    <2> QED
      BY <1>0, <1>19, <2>1 DEF Discard, TypeOK
  <1> QED
    BY <1>t, <1>1, <1>2, <1>3, <1>4, <1>5, <1>6, <1>7, <1>8, <1>9, <1>10, <1>11, <1>12, <1>13, <1>14, <1>15, <1>16, <1>17, <1>18, <1>19

\* A step of t leaves the locals of the other threads alone.
OthersAlone(t) ==
  \A u \in Thread \ {t} : /\ pc'[u] = pc[u] /\ want'[u] = want[u] /\ off'[u] = off[u]
                          /\ claim'[u] = claim[u] /\ held'[u] = held[u]

\* What Return does to the locals.
LEMMA ReturnFacts ==
  ASSUME TypeOK, NEW t \in Thread, Return(t)
  PROVE  OthersAlone(t) /\ pc'[t] = "idle" /\ claim'[t] = {} /\ held'[t] = {}
  BY DEF TypeOK, Return, Goto, Claim, OthersAlone

\* What Goto does to pc.
LEMMA GotoFacts ==
  ASSUME TypeOK, NEW t \in Thread, NEW label, Goto(t, label)
  PROVE  pc'[t] = label /\ \A u \in Thread \ {t} : pc'[u] = pc[u]
  BY DEF TypeOK, Goto

\* What Claim does to the claims.
LEMMA ClaimFacts ==
  ASSUME TypeOK, NEW t \in Thread, NEW S, Claim(t, S)
  PROVE  claim'[t] = S /\ \A u \in Thread \ {t} : claim'[u] = claim[u]
  BY DEF TypeOK, Claim

\* What the other threads have in hand stays right.
LEMMA HandsOthers ==
  ASSUME ArenaInv, NEW t \in Thread, OthersAlone(t),
         state' = state \/ state = "uninit" \/ state' = "ready"
  PROVE  \A u \in Thread \ {t} : Hands(u)'
  <1> TAKE u \in Thread \ {t}
  <1>1. Hands(u) /\ TypeOK
    BY DEF ArenaInv
  <1>2. /\ pc'[u] = pc[u] /\ want'[u] = want[u] /\ off'[u] = off[u]
        /\ claim'[u] = claim[u] /\ held'[u] = held[u]
    BY DEF OthersAlone
  <1>3. pc'[u] \notin Unready => state' = "ready"
    BY <1>1, <1>2 DEF Hands
  <1> QED
    BY <1>1, <1>2, <1>3 DEF Hands

\* Steps away from the guard.
LEMMA GuardQuiet ==
  ASSUME ArenaInv, NEW t \in Thread, OthersAlone(t), UNCHANGED initVars,
         pc[t] \notin {"reserve", "publish", "unguard"},
         pc'[t] \notin {"reserve", "publish", "unguard"},
         UNCHANGED bump \/ state = "ready"
  PROVE  GuardInv'
  <1>1. GuardInv
    BY DEF ArenaInv
  <1>2. \A u \in Thread : pc'[u] \in {"reserve", "publish", "unguard"} <=> guard' = u
    BY <1>1 DEF GuardInv, OthersAlone, initVars
  <1>3. \A u \in Thread : pc'[u] = "publish" => state' = "uninit"
    BY <1>1 DEF GuardInv, OthersAlone, initVars
  <1>4. state' # "ready" => bump' = 0
    BY <1>1 DEF GuardInv, initVars
  <1> QED
    BY <1>2, <1>3, <1>4 DEF GuardInv

\* A slice is in use only in an arena that is ready.
LEMMA LiveReady ==
  ASSUME ArenaInv, NEW s \in live
  PROVE  state = "ready"
  <1>1. s \in Slice /\ TypeOK
    BY DEF ArenaInv, TypeOK
  <1>2. s.off \in Pages(s) /\ s.off \in Nat
    BY <1>1, SlicePages
  <1>3. s.off \in PagesOf(InUse)
    BY <1>2, PagesOfFacts DEF InUse
  <1>4. s.off \in 0 .. bump - 1
    BY <1>3 DEF ArenaInv, Accounted
  <1> QED
    BY <1>1, <1>2, <1>4 DEF ArenaInv, GuardInv, TypeOK

\* Control, step by step: what the thread that steps has in hand is right.
LEMMA ControlStep ==
  ASSUME ArenaInv, Next
  PROVE  GuardInv' /\ \A t \in Thread : Hands(t)'
  <1>t. PICK t \in Thread :
           \/ \E n \in 1 .. MaxRequest : Commit(t, n)
           \/ \E s \in live : BeginRelease(t, s)
           \/ \E s \in live : \E n \in 1 .. Size : BeginGrow(t, s, n)
           \/ Check(t)
           \/ EnterGuard(t)
           \/ Reserve(t)
           \/ Publish(t)
           \/ LeaveGuard(t)
           \/ ReadCount(t)
           \/ TakeHole(t)
           \/ CommitRange(t)
           \/ Give(t)
           \/ LoadBump(t)
           \/ CasBump(t)
           \/ Carve(t)
           \/ GrowCas(t)
           \/ GrowCommit(t)
           \/ Extend(t)
           \/ Discard(t)
    BY NextCases
  <1>0. TypeOK /\ GuardInv /\ Hands(t)
    BY DEF ArenaInv
  <1>s. SUFFICES /\ OthersAlone(t) /\ Hands(t)'
                 /\ state' = state \/ state = "uninit" \/ state' = "ready"
                 /\ GuardInv'
    BY HandsOthers
  <1>q. ASSUME OthersAlone(t), UNCHANGED initVars, Hands(t)',
               pc[t] \notin {"reserve", "publish", "unguard"},
               pc'[t] \notin {"reserve", "publish", "unguard"},
               UNCHANGED bump \/ state = "ready"
        PROVE  /\ OthersAlone(t) /\ Hands(t)'
               /\ state' = state \/ state = "uninit" \/ state' = "ready"
               /\ GuardInv'
    BY <1>q, GuardQuiet DEF initVars
  <1>h. pc'[t] = "idle" /\ claim'[t] = {} /\ held'[t] = {} => Hands(t)'
    BY DEF Hands, EmptyHanded, Unready
  <1>w. ASSUME pc'[t] \in EmptyHanded, claim'[t] = {}, held'[t] = {}, want'[t] >= 1, pc'[t] # "cas",
               pc'[t] \in Unready \/ state' = "ready"
        PROVE  Hands(t)'
    BY <1>w DEF Hands, EmptyHanded, Unready
  <1>r. Return(t) => OthersAlone(t) /\ Hands(t)' /\ pc'[t] = "idle"
    BY <1>0, <1>h, ReturnFacts
  <1> USE DEF initVars, holeVars, localVars, userVars
  <1>1. CASE \E n \in 1 .. MaxRequest : Commit(t, n)
    <2> PICK n \in 1 .. MaxRequest : Commit(t, n)
      BY <1>1
    <2>1. OthersAlone(t) /\ want'[t] = n /\ claim'[t] = {} /\ held'[t] = {} /\ pc[t] = "idle"
      BY <1>0, GotoFacts DEF Commit, OthersAlone, TypeOK, Hands, EmptyHanded, Unready
    <2>2. pc'[t] = IF state = "ready" THEN "count" ELSE "check"
      BY <1>0, GotoFacts DEF Commit
    <2>3. Hands(t)'
      BY <1>w, <2>1, <2>2, ArenaAssumption DEF Commit, EmptyHanded, Unready
    <2> QED
      BY <1>q, <2>1, <2>2, <2>3 DEF Commit
  <1>2. CASE \E s \in live : BeginRelease(t, s)
    <2> PICK s \in live : BeginRelease(t, s)
      BY <1>2
    <2>1. pc[t] = "idle" /\ pc'[t] = "discard" /\ claim'[t] = {s} /\ s \in Slice
      BY <1>0, GotoFacts, ClaimFacts DEF BeginRelease, TypeOK
    <2>2. OthersAlone(t) /\ held'[t] = {}
      BY <1>0, <2>1, GotoFacts, ClaimFacts DEF BeginRelease, OthersAlone, Hands, EmptyHanded, Unready
    <2>3. state' = "ready"
      BY LiveReady DEF BeginRelease
    <2>4. Hands(t)'
      BY <2>1, <2>2, <2>3 DEF Hands, EmptyHanded, Unready
    <2> QED
      BY <1>q, <2>1, <2>2, <2>4 DEF BeginRelease
  <1>3. CASE \E s \in live : \E n \in 1 .. Size : BeginGrow(t, s, n)
    <2> PICK s \in live, n \in 1 .. Size : BeginGrow(t, s, n)
      BY <1>3
    <2>1. pc[t] = "idle" /\ pc'[t] = "growCas" /\ held'[t] = {s} /\ want'[t] = n /\ s \in Slice
      BY <1>0, GotoFacts DEF BeginGrow, TypeOK
    <2>2. OthersAlone(t) /\ claim'[t] = {}
      BY <1>0, <2>1, GotoFacts DEF BeginGrow, OthersAlone, TypeOK, Hands, EmptyHanded, Unready
    <2>3. state' = "ready"
      BY LiveReady DEF BeginGrow
    <2>4. n > s.n /\ s.off + n <= Size
      BY DEF BeginGrow
    <2>5. Hands(t)'
      BY <2>1, <2>2, <2>3, <2>4 DEF Hands, EmptyHanded, Unready
    <2> QED
      BY <1>q, <2>1, <2>2, <2>5 DEF BeginGrow
  <1>4. CASE Check(t)
    <2>1. CASE Return(t)
      BY <1>4, <1>q, <1>r, <2>1 DEF Check
    <2>2. CASE Goto(t, "spin") /\ UNCHANGED localVars
      <3>1. pc[t] = "check" /\ pc'[t] = "spin" /\ OthersAlone(t)
        BY <1>0, <1>4, <2>2, GotoFacts DEF Check, OthersAlone
      <3>2. claim'[t] = {} /\ held'[t] = {} /\ want'[t] >= 1
        BY <1>0, <2>2, <3>1 DEF Hands, EmptyHanded, Unready
      <3>3. Hands(t)'
        BY <1>w, <3>1, <3>2 DEF EmptyHanded, Unready
      <3> QED
        BY <1>4, <1>q, <3>1, <3>3 DEF Check
    <2> QED
      BY <1>4, <2>1, <2>2 DEF Check
  <1>5. CASE EnterGuard(t)
    <2>1. pc[t] = "spin" /\ pc'[t] = "reserve" /\ OthersAlone(t) /\ guard = NoThread /\ guard' = t
      BY <1>0, <1>5, GotoFacts DEF EnterGuard, OthersAlone
    <2>2. claim'[t] = {} /\ held'[t] = {} /\ want'[t] >= 1
      BY <1>0, <1>5, <2>1 DEF EnterGuard, Hands, EmptyHanded, Unready
    <2>3. Hands(t)'
      BY <1>w, <2>1, <2>2 DEF EmptyHanded, Unready
    <2>4. \A u \in Thread : pc[u] \notin {"reserve", "publish", "unguard"}
      BY <1>0, <2>1, ArenaAssumption DEF GuardInv
    <2>5. \A u \in Thread : pc'[u] \in {"reserve", "publish", "unguard"} <=> u = t
      BY <2>1, <2>4 DEF OthersAlone
    <2>6. GuardInv'
      BY <1>0, <1>5, <2>1, <2>4, <2>5 DEF EnterGuard, GuardInv, OthersAlone
    <2> QED
      BY <1>5, <2>1, <2>3, <2>6 DEF EnterGuard
  <1>6. CASE Reserve(t)
    <2>1. pc[t] = "reserve" /\ pc'[t] \in {"publish", "unguard"} /\ OthersAlone(t)
      BY <1>0, <1>6, GotoFacts DEF Reserve, OthersAlone
    <2>2. claim'[t] = {} /\ held'[t] = {} /\ want'[t] >= 1
      BY <1>0, <1>6, <2>1 DEF Reserve, Hands, EmptyHanded, Unready
    <2>3. Hands(t)'
      BY <1>w, <2>1, <2>2 DEF EmptyHanded, Unready
    <2>4. guard = t /\ guard' = t /\ \A u \in Thread \ {t} : pc[u] \notin {"reserve", "publish", "unguard"}
      BY <1>0, <1>6, <2>1 DEF Reserve, GuardInv
    <2>5. \A u \in Thread : pc'[u] \in {"reserve", "publish", "unguard"} <=> guard' = u
      BY <2>1, <2>4 DEF OthersAlone
    <2>6. pc'[t] = "publish" => state' = "uninit"
      BY <1>0, <1>6, GotoFacts DEF Reserve
    <2>7. state' # "ready" => bump' = 0
      BY <1>0, <1>6 DEF Reserve, GuardInv
    <2>8. GuardInv'
      BY <2>1, <2>4, <2>5, <2>6, <2>7 DEF GuardInv, OthersAlone
    <2> QED
      BY <1>6, <2>1, <2>3, <2>8 DEF Reserve
  <1>7. CASE Publish(t)
    <2>1. pc[t] = "publish" /\ pc'[t] = "unguard" /\ OthersAlone(t) /\ state' = "ready"
      BY <1>0, <1>7, GotoFacts DEF Publish, OthersAlone
    <2>2. claim'[t] = {} /\ held'[t] = {} /\ want'[t] >= 1
      BY <1>0, <1>7, <2>1 DEF Publish, Hands, EmptyHanded, Unready
    <2>3. Hands(t)'
      BY <1>w, <2>1, <2>2 DEF EmptyHanded, Unready
    <2>4. guard = t /\ guard' = t /\ \A u \in Thread \ {t} : pc[u] \notin {"reserve", "publish", "unguard"}
      BY <1>0, <1>7, <2>1 DEF Publish, GuardInv
    <2>5. \A u \in Thread : pc'[u] \in {"reserve", "publish", "unguard"} <=> guard' = u
      BY <2>1, <2>4 DEF OthersAlone
    <2>6. GuardInv'
      BY <2>1, <2>4, <2>5 DEF GuardInv, OthersAlone
    <2> QED
      BY <2>1, <2>3, <2>6
  <1>8. CASE LeaveGuard(t)
    <2>1. pc[t] = "unguard" /\ guard' = NoThread
      BY <1>8 DEF LeaveGuard
    <2>2. OthersAlone(t) /\ Hands(t)' /\ pc'[t] \in {"idle", "count"}
      <3>1. CASE Return(t)
        BY <1>r, <3>1
      <3>2. CASE state = "ready" /\ Goto(t, "count") /\ UNCHANGED localVars
        <4>1. pc'[t] = "count" /\ OthersAlone(t)
          BY <1>0, <3>2, GotoFacts DEF OthersAlone
        <4>2. claim'[t] = {} /\ held'[t] = {} /\ want'[t] >= 1
          BY <1>0, <2>1, <3>2 DEF Hands, EmptyHanded, Unready
        <4> QED
          BY <1>8, <1>w, <3>2, <4>1, <4>2 DEF LeaveGuard, EmptyHanded, Unready
      <3> QED
        BY <1>8, <3>1, <3>2 DEF LeaveGuard
    <2>3. \A u \in Thread \ {t} : pc[u] \notin {"reserve", "publish", "unguard"}
      BY <1>0, <2>1 DEF GuardInv
    <2>4. \A u \in Thread : pc'[u] \notin {"reserve", "publish", "unguard"} /\ guard' # u
      BY <2>1, <2>2, <2>3, ArenaAssumption DEF OthersAlone
    <2>5. GuardInv'
      BY <1>0, <1>8, <2>4 DEF LeaveGuard, GuardInv
    <2> QED
      BY <1>8, <2>2, <2>5 DEF LeaveGuard
  <1>9. CASE ReadCount(t)
    <2>1. pc[t] = "count" /\ pc'[t] \in {"load", "take"} /\ OthersAlone(t)
      BY <1>0, <1>9, GotoFacts DEF ReadCount, OthersAlone
    <2>2. claim'[t] = {} /\ held'[t] = {} /\ want'[t] >= 1 /\ state' = "ready"
      BY <1>0, <1>9, <2>1 DEF ReadCount, Hands, EmptyHanded, Unready
    <2>3. Hands(t)'
      BY <1>w, <2>1, <2>2 DEF EmptyHanded, Unready
    <2> QED
      BY <1>9, <1>q, <2>1, <2>3 DEF ReadCount
  <1>10. CASE TakeHole(t)
    <2>1. pc[t] = "take" /\ claim[t] = {} /\ held[t] = {} /\ want[t] >= 1 /\ state = "ready"
      BY <1>0, <1>10 DEF TakeHole, Hands, EmptyHanded, Unready
    <2>2. TakeEffect(t) /\ TypeOK'
      BY <1>0, <1>10, <2>1, TakeFacts, TypeStep
    <2>3. UNCHANGED <<initVars, bump, abandoned, want, off, fresh, held, userVars>>
      BY <1>10 DEF TakeHole
    <2>4. CASE Goto(t, "load") /\ UNCHANGED <<entries, bytes, claim>>
      <3>1. pc'[t] = "load" /\ OthersAlone(t)
        BY <1>0, <2>3, <2>4, GotoFacts DEF OthersAlone
      <3>2. Hands(t)'
        BY <1>w, <2>1, <2>3, <2>4, <3>1 DEF EmptyHanded, Unready
      <3> QED
        BY <1>q, <2>1, <2>3, <3>1, <3>2
    <2>5. CASE Goto(t, "commitHole") /\ \E s : Claim(t, {s})
      <3>1. PICK s : Claim(t, {s})
        BY <2>5
      <3>2. pc'[t] = "commitHole" /\ OthersAlone(t) /\ claim'[t] = {s}
        BY <1>0, <2>3, <2>5, <3>1, GotoFacts, ClaimFacts DEF OthersAlone
      <3>3. s \in Slice
        BY <2>2, <3>2 DEF TypeOK
      <3>4. Hands(t)'
        BY <2>1, <2>3, <3>2, <3>3 DEF Hands, EmptyHanded, Unready
      <3> QED
        BY <1>q, <2>1, <2>3, <3>2, <3>4
    <2> QED
      BY <2>2, <2>4, <2>5 DEF TakeEffect
  <1>11. CASE CommitRange(t)
    <2>1. pc[t] \in {"commitHole", "commitBump"} /\ pc'[t] \in {"carve", "give"} /\ OthersAlone(t)
      BY <1>0, <1>11, GotoFacts DEF CommitRange, OthersAlone
    <2>2. state = "ready" /\ held[t] = {} /\ \E s \in Slice : claim[t] = {s}
      BY <1>0, <2>1 DEF Hands, Unready
    <2>3. Hands(t)'
      BY <1>11, <2>1, <2>2 DEF CommitRange, Hands, EmptyHanded, Unready
    <2> QED
      BY <1>11, <1>q, <2>1, <2>3 DEF CommitRange
  <1>12. CASE Give(t)
    BY <1>12, <1>q, <1>r DEF Give
  <1>13. CASE LoadBump(t)
    <2>1. CASE Return(t)
      BY <1>13, <1>q, <1>r, <2>1 DEF LoadBump
    <2>2. CASE /\ bump + want[t] <= Size
               /\ off' = [off EXCEPT ![t] = bump] /\ Goto(t, "cas")
               /\ UNCHANGED <<want, fresh, claim, held>>
      <3>1. pc[t] = "load" /\ pc'[t] = "cas" /\ OthersAlone(t) /\ off'[t] = bump
        BY <1>0, <1>13, <2>2, GotoFacts DEF LoadBump, OthersAlone, TypeOK
      <3>2. claim'[t] = {} /\ held'[t] = {} /\ want'[t] >= 1 /\ state = "ready"
        BY <1>0, <2>2, <3>1 DEF Hands, EmptyHanded, Unready
      <3>3. Hands(t)'
        BY <1>13, <2>2, <3>1, <3>2 DEF LoadBump, Hands, EmptyHanded, Unready
      <3> QED
        BY <1>13, <1>q, <3>1, <3>3 DEF LoadBump
    <2> QED
      BY <1>13, <2>1, <2>2 DEF LoadBump
  <1>14. CASE CasBump(t)
    <2>1. pc[t] = "cas" /\ claim[t] = {} /\ held[t] = {} /\ want[t] >= 1 /\ state = "ready"
      BY <1>0, <1>14 DEF CasBump, Hands, EmptyHanded, Unready
    <2>2. TypeOK'
      BY TypeStep
    <2>3. CASE bump = off[t]
      <3>1. pc'[t] = "commitBump" /\ OthersAlone(t) /\ claim'[t] = {[off |-> off[t], n |-> want[t]]}
        BY <1>0, <1>14, <2>3, GotoFacts, ClaimFacts DEF CasBump, OthersAlone
      <3>2. \E s \in Slice : claim'[t] = {s}
        BY <2>2, <3>1 DEF TypeOK
      <3>3. Hands(t)'
        BY <1>14, <2>1, <3>1, <3>2 DEF CasBump, Hands, EmptyHanded, Unready
      <3> QED
        BY <1>14, <1>q, <2>1, <3>1, <3>3 DEF CasBump
    <2>4. CASE bump # off[t]
      <3>1. pc'[t] = "load" /\ OthersAlone(t)
        BY <1>0, <1>14, <2>4, GotoFacts DEF CasBump, OthersAlone
      <3>2. Hands(t)'
        BY <1>14, <1>w, <2>1, <2>4, <3>1 DEF CasBump, EmptyHanded, Unready
      <3> QED
        BY <1>14, <1>q, <2>1, <3>1, <3>2 DEF CasBump
    <2> QED
      BY <2>3, <2>4
  <1>15. CASE Carve(t)
    BY <1>15, <1>q, <1>r DEF Carve
  <1>16. CASE GrowCas(t)
    <2>1. pc[t] = "growCas" /\ state = "ready"
      BY <1>0, <1>16 DEF GrowCas, Hands, Unready
    <2>2. PICK s \in Slice : held[t] = {s} /\ want[t] > s.n /\ s.off + want[t] <= Size
      BY <1>0, <2>1 DEF Hands
    <2>3. CASE bump = s.off + s.n
      <3>1. Claim(t, {Added(s, want[t])}) /\ Goto(t, "growCommit") /\ UNCHANGED <<want, off, fresh, held>>
        BY <1>16, <2>2, <2>3 DEF GrowCas, Added
      <3>2. pc'[t] = "growCommit" /\ OthersAlone(t) /\ claim'[t] = {Added(s, want[t])}
        BY <1>0, <3>1, GotoFacts, ClaimFacts DEF OthersAlone
      <3>3. Hands(t)'
        BY <1>16, <2>1, <2>2, <3>1, <3>2 DEF GrowCas, Hands, EmptyHanded, Unready
      <3> QED
        BY <1>16, <1>q, <2>1, <3>2, <3>3 DEF GrowCas
    <2>4. CASE bump # s.off + s.n
      BY <1>16, <1>q, <1>r, <2>1, <2>2, <2>4 DEF GrowCas
    <2> QED
      BY <2>3, <2>4
  <1>17. CASE GrowCommit(t)
    <2>1. pc[t] = "growCommit" /\ pc'[t] \in {"extend", "give"} /\ OthersAlone(t) /\ state = "ready"
      BY <1>0, <1>17, GotoFacts DEF GrowCommit, OthersAlone, Hands, Unready
    <2>2. PICK s \in Slice : /\ held[t] = {s} /\ want[t] > s.n /\ s.off + want[t] <= Size
                             /\ claim[t] = {Added(s, want[t])}
      BY <1>0, <2>1 DEF Hands
    <2>3. Added(s, want[t]) \in Slice
      BY <1>0, <2>2 DEF TypeOK
    <2>4. Hands(t)'
      BY <1>17, <2>1, <2>2, <2>3 DEF GrowCommit, Hands, EmptyHanded, Unready
    <2> QED
      BY <1>17, <1>q, <2>1, <2>4 DEF GrowCommit
  <1>18. CASE Extend(t)
    BY <1>18, <1>q, <1>r DEF Extend
  <1>19. CASE Discard(t)
    <2>1. pc[t] = "discard" /\ pc'[t] = "give" /\ OthersAlone(t)
      BY <1>0, <1>19, GotoFacts DEF Discard, OthersAlone
    <2>2. state = "ready" /\ \E s \in Slice : claim[t] = {s}
      BY <1>0, <2>1 DEF Hands, Unready
    <2>3. Hands(t)'
      BY <1>19, <2>1, <2>2 DEF Discard, Hands, EmptyHanded, Unready
    <2> QED
      BY <1>19, <1>q, <2>1, <2>3 DEF Discard
  <1> QED
    BY <1>t, <1>1, <1>2, <1>3, <1>4, <1>5, <1>6, <1>7, <1>8, <1>9, <1>10, <1>11, <1>12, <1>13, <1>14, <1>15, <1>16, <1>17, <1>18, <1>19

-----------------------------------------------------------------------------
(* Ownership. *)

EntriesApart(ents) == \A i, j \in DOMAIN ents : i # j => Apart(ents[i], ents[j])

\* A page is in a hole when it is a page of some entry.
LEMMA SeqPages ==
  ASSUME NEW ents
  PROVE  \A p : p \in PagesOf(ToSet(ents)) <=> \E j \in DOMAIN ents : p \in Pages(ents[j])
  BY DEF PagesOf, ToSet

\* A hole is parked.
LEMMA AppendedPages ==
  ASSUME NEW ents \in Seq(Slice), EntriesApart(ents), NEW s \in Slice,
         PagesOf(ToSet(ents)) \cap Pages(s) = {}
  PROVE  /\ EntriesApart(Append(ents, s))
         /\ PagesOf(ToSet(Append(ents, s))) = PagesOf(ToSet(ents)) \cup Pages(s)
  <1> DEFINE new == Append(ents, s)
             len == Len(ents)
  <1>1. /\ len \in Nat /\ DOMAIN ents = 1 .. len /\ DOMAIN new = 1 .. len + 1
        /\ \A j \in 1 .. len : new[j] = ents[j]
        /\ new[len + 1] = s
    OBVIOUS
  <1> HIDE DEF new, len
  <1>2. \A j \in 1 .. len : Pages(ents[j]) \cap Pages(s) = {}
    BY <1>1, SeqPages
  <1>3. EntriesApart(new)
    BY <1>1, <1>2 DEF EntriesApart, Apart
  <1>4. \A p : p \in PagesOf(ToSet(new)) <=> p \in PagesOf(ToSet(ents)) \/ p \in Pages(s)
    BY <1>1, SeqPages
  <1>5. PagesOf(ToSet(new)) = PagesOf(ToSet(ents)) \cup Pages(s)
    BY <1>4
  <1> QED
    BY <1>3, <1>5 DEF new

\* The first n pages of a hole are taken: the rest stays a hole, or the last entry
\* takes its place.
LEMMA TakenPages ==
  ASSUME NEW ents \in Seq(Slice), EntriesApart(ents), NEW i \in DOMAIN ents,
         NEW n \in Nat \ {0}, n <= ents[i].n, NEW new,
         \/ /\ ents[i].n > n
            /\ new = [ents EXCEPT ![i] = [off |-> ents[i].off + n, n |-> ents[i].n - n]]
         \/ /\ ents[i].n = n
            /\ new = SubSeq([ents EXCEPT ![i] = ents[Len(ents)]], 1, Len(ents) - 1)
  PROVE  LET a == [off |-> ents[i].off, n |-> n] IN
         /\ EntriesApart(new)
         /\ PagesOf(ToSet(ents)) = PagesOf(ToSet(new)) \cup Pages(a)
         /\ PagesOf(ToSet(new)) \cap Pages(a) = {}
  <1> DEFINE a == [off |-> ents[i].off, n |-> n]
             len == Len(ents)
  <1>1. len \in Nat \ {0} /\ DOMAIN ents = 1 .. len /\ ents[i] \in Slice
    OBVIOUS
  <1>2. ents[i].n \in Nat /\ ents[i].off \in Nat
    BY <1>1, SlicePages
  <1>3. SUFFICES /\ EntriesApart(new)
                 /\ \A p : p \in PagesOf(ToSet(ents)) <=> p \in PagesOf(ToSet(new)) \/ p \in Pages(a)
                 /\ \A p : ~(p \in PagesOf(ToSet(new)) /\ p \in Pages(a))
    OBVIOUS
  <1>4. CASE ents[i].n > n
    <2> DEFINE r == [off |-> ents[i].off + n, n |-> ents[i].n - n]
    <2>1. r \in Slice /\ Pages(a) \cup Pages(r) = Pages(ents[i]) /\ Pages(a) \cap Pages(r) = {}
      BY <1>1, <1>2, <1>4, SplitPages
    <2>2. new = [ents EXCEPT ![i] = r]
      BY <1>2, <1>4
    <2> HIDE DEF r, a
    <2>3. DOMAIN new = 1 .. len /\ \A j \in 1 .. len : new[j] = IF j = i THEN r ELSE ents[j]
      BY <1>1, <2>1, <2>2
    <2> HIDE DEF len
    <2>4. EntriesApart(new)
      BY <1>1, <2>1, <2>3 DEF EntriesApart, Apart
    <2>5. \A p : p \in PagesOf(ToSet(ents)) <=> p \in PagesOf(ToSet(new)) \/ p \in Pages(a)
      <3> TAKE p
      <3>1. p \in Pages(ents[i]) <=> p \in Pages(a) \/ p \in Pages(r)
        BY <2>1
      <3>2. p \in PagesOf(ToSet(ents)) <=> \E j \in 1 .. len : p \in Pages(ents[j])
        BY <1>1, SeqPages
      <3>3. p \in PagesOf(ToSet(new)) <=> \E j \in 1 .. len : p \in Pages(new[j])
        BY <2>3, SeqPages
      <3>4. p \in PagesOf(ToSet(new)) <=> p \in Pages(r) \/ \E j \in 1 .. len : j # i /\ p \in Pages(ents[j])
        BY <1>1, <2>3, <3>3
      <3> QED
        BY <1>1, <3>1, <3>2, <3>4
    <2>6. \A p : ~(p \in PagesOf(ToSet(new)) /\ p \in Pages(a))
      <3> SUFFICES ASSUME NEW p, p \in PagesOf(ToSet(new)), p \in Pages(a) PROVE FALSE
        OBVIOUS
      <3>1. PICK j \in 1 .. len : p \in Pages(new[j])
        BY <2>3, SeqPages
      <3>2. p \in Pages(ents[i]) /\ p \notin Pages(r)
        BY <2>1
      <3>3. j # i /\ p \in Pages(ents[j])
        BY <2>3, <3>1, <3>2
      <3> QED
        BY <1>1, <3>2, <3>3 DEF EntriesApart, Apart
    <2> QED
      BY <2>4, <2>5, <2>6
  <1>5. CASE ~(ents[i].n > n)
    <2>1. a = ents[i]
      BY <1>1, <1>2, <1>5 DEF Slice
    <2>2. new = SubSeq([ents EXCEPT ![i] = ents[Len(ents)]], 1, Len(ents) - 1)
      BY <1>5
    <2> HIDE DEF a
    <2>3. /\ DOMAIN new = 1 .. len - 1
          /\ \A j \in 1 .. len - 1 : new[j] = IF j = i THEN ents[len] ELSE ents[j]
      <3>1. /\ new \in Seq(Slice) /\ Len(new) = len - 1
            /\ \A j \in 1 .. len - 1 : new[j] = IF j = i THEN ents[len] ELSE ents[j]
        <4> DEFINE m == [ents EXCEPT ![i] = ents[len]]
        <4>1. ents[len] \in Slice
          BY <1>1
        <4>2. m \in Seq(Slice) /\ Len(m) = len
          BY <1>1, <4>1
        <4>3. \A j \in 1 .. len : m[j] = IF j = i THEN ents[len] ELSE ents[j]
          BY <1>1
        <4>4. new = SubSeq(m, 1, len - 1)
          BY <2>2
        <4> HIDE DEF m, len
        <4> QED
          BY <1>1, <4>2, <4>3, <4>4
      <3>2. DOMAIN new = 1 .. Len(new)
        BY <3>1
      <3> QED
        BY <3>1, <3>2
    <2> HIDE DEF len
    <2>4. \A j \in 1 .. len - 1 : \E k \in 1 .. len : k # i /\ new[j] = ents[k]
      BY <1>1, <2>3
    <2>5. \A k \in 1 .. len : k # i => \E j \in 1 .. len - 1 : new[j] = ents[k]
      BY <1>1, <2>3
    <2>6. EntriesApart(new)
      BY <1>1, <2>3 DEF EntriesApart, Apart
    <2>7. \A p : p \in PagesOf(ToSet(new)) <=> \E k \in 1 .. len : k # i /\ p \in Pages(ents[k])
      <3> TAKE p
      <3>1. p \in PagesOf(ToSet(new)) <=> \E j \in 1 .. len - 1 : p \in Pages(new[j])
        BY <2>3, SeqPages
      <3> QED
        BY <2>4, <2>5, <3>1
    <2>8. \A p : p \in PagesOf(ToSet(ents)) <=> \E k \in 1 .. len : p \in Pages(ents[k])
      BY <1>1, SeqPages
    <2> QED
      BY <1>1, <2>1, <2>6, <2>7, <2>8 DEF EntriesApart, Apart
  <1> QED
    BY <1>4, <1>5

\* The slices in use, seen from a thread.
Elsewhere(t) == UNION {held[u] : u \in Thread \ {t}}

OwnInv == HeldApart /\ Exclusive /\ Accounted /\ InUseIntact /\ TableExact

\* The slices in use are live, held by t, or held elsewhere; t moves only the first two.
LEMMA InUseSplit ==
  ASSUME NEW t \in Thread, OthersAlone(t)
  PROVE  /\ \A s : s \in InUse <=> s \in live \/ s \in held[t] \/ s \in Elsewhere(t)
         /\ \A s : s \in InUse' <=> s \in live' \/ s \in held'[t] \/ s \in Elsewhere(t)
  <1>1. \A s : s \in Elsewhere(t) <=> \E u \in Thread \ {t} : s \in held[u]
    BY DEF Elsewhere
  <1>2. \A s : s \in InUse <=> s \in live \/ \E u \in Thread : s \in held[u]
    BY DEF InUse
  <1>3. \A s : s \in InUse' <=> s \in live' \/ \E u \in Thread : s \in held'[u]
    BY DEF InUse
  <1>4. \A u \in Thread \ {t} : held'[u] = held[u]
    BY DEF OthersAlone
  <1> QED
    BY <1>1, <1>2, <1>3, <1>4

\* A slice stays with one holder.
LEMMA HeldMove ==
  ASSUME ArenaInv, NEW t \in Thread, OthersAlone(t),
         \A s \in Elsewhere(t) : s \notin live' /\ s \notin held'[t],
         \A s \in live' : s \notin held'[t]
  PROVE  HeldApart' /\ \A u \in Thread : held'[u] \cap live' = {}
  <1>1. \A u \in Thread \ {t} : held'[u] = held[u] /\ \A s \in held[u] : s \in Elsewhere(t)
    BY DEF OthersAlone, Elsewhere
  <1>2. \A u, v \in Thread \ {t} : u # v => held[u] \cap held[v] = {}
    BY DEF ArenaInv, HeldApart
  <1>3. \A u \in Thread : held'[u] \cap live' = {}
    BY <1>1
  <1>4. ASSUME NEW u \in Thread, NEW v \in Thread, u # v
        PROVE  held'[u] \cap held'[v] = {}
    <2>1. CASE u = t
      BY <1>1, <1>4, <2>1
    <2>2. CASE v = t
      BY <1>1, <1>4, <2>2
    <2>3. CASE u # t /\ v # t
      BY <1>1, <1>2, <1>4, <2>3
    <2> QED
      BY <2>1, <2>2, <2>3
  <1> QED
    BY <1>3, <1>4 DEF HeldApart

\* What is held elsewhere is neither live nor held here.
LEMMA ElsewhereApart ==
  ASSUME ArenaInv, NEW t \in Thread
  PROVE  /\ \A s \in Elsewhere(t) : s \notin live /\ s \notin held[t] /\ s \in InUse
         /\ \A s \in live : s \notin held[t]
         /\ InUse \subseteq Slice
  <1>1. \A s \in Elsewhere(t) : \E u \in Thread \ {t} : s \in held[u]
    BY DEF Elsewhere
  <1>2. \A u \in Thread : held[u] \cap live = {}
    BY DEF ArenaInv, Exclusive
  <1>3. \A u \in Thread \ {t} : held[u] \cap held[t] = {}
    BY DEF ArenaInv, HeldApart
  <1>4. InUse \subseteq Slice
    BY DEF ArenaInv, TypeOK, InUse
  <1>5. \A s \in Elsewhere(t) : s \in InUse
    BY <1>1 DEF InUse
  <1> QED
    BY <1>1, <1>2, <1>3, <1>4, <1>5

\* A step of t changes no other thread's claimed pages.
LEMMA ClaimOfStep ==
  ASSUME NEW t \in Thread, OthersAlone(t)
  PROVE  ClaimOf' = [ClaimOf EXCEPT ![t] = PagesOf(claim'[t])]
  BY DEF ClaimOf, OthersAlone

\* Exclusive and Accounted from their parts, after a step.
LEMMA Assemble ==
  ASSUME HeldApart', \A u \in Thread : held'[u] \cap live' = {},
         \A s, r \in InUse' : s # r => Apart(s, r),
         EntriesApart(entries'),
         \A s, r \in abandoned' : s # r => Apart(s, r),
         Owned(PagesOf(InUse'), HolePages', ClaimOf', PagesOf(abandoned'), bump'),
         bytes' = Cardinality(HolePages'),
         InUseIntact', TableExact'
  PROVE  OwnInv'
  <1>1. /\ \A t, u \in Thread : t # u => PagesOf(claim'[t]) \cap PagesOf(claim'[u]) = {}
        /\ HolePages' \cap (PagesOf(InUse') \cup ClaimPages' \cup PagesOf(abandoned')) = {}
        /\ ClaimPages' \cap (PagesOf(InUse') \cup PagesOf(abandoned')) = {}
        /\ PagesOf(InUse') \cap PagesOf(abandoned') = {}
        /\ PagesOf(InUse') \cup HolePages' \cup ClaimPages' \cup PagesOf(abandoned') = 0 .. bump' - 1
    <2>1. (Owned(PagesOf(InUse), HolePages, ClaimOf, PagesOf(abandoned), bump) =>
             /\ \A t, u \in Thread : t # u => PagesOf(claim[t]) \cap PagesOf(claim[u]) = {}
             /\ HolePages \cap (PagesOf(InUse) \cup ClaimPages \cup PagesOf(abandoned)) = {}
             /\ ClaimPages \cap (PagesOf(InUse) \cup PagesOf(abandoned)) = {}
             /\ PagesOf(InUse) \cap PagesOf(abandoned) = {}
             /\ PagesOf(InUse) \cup HolePages \cup ClaimPages \cup PagesOf(abandoned) = 0 .. bump - 1)'
      BY OwnedIff, PTL
    <2> QED
      BY <2>1
  <1>2. Exclusive'
    BY <1>1 DEF Exclusive, EntriesApart
  <1>3. Accounted'
    BY <1>1 DEF Accounted
  <1> QED
    BY <1>2, <1>3 DEF OwnInv

\* The parts of ArenaInv the moves start from.
LEMMA Parts ==
  ASSUME ArenaInv
  PROVE  /\ Owned(PagesOf(InUse), HolePages, ClaimOf, PagesOf(abandoned), bump)
         /\ EntriesApart(entries) /\ entries \in Seq(Slice)
         /\ \A s, r \in InUse : s # r => Apart(s, r)
         /\ \A s, r \in abandoned : s # r => Apart(s, r)
         /\ bytes = Cardinality(HolePages)
         /\ IsFiniteSet(HolePages)
         /\ DOMAIN ClaimOf = Thread
         /\ \A t \in Thread : ClaimOf[t] = PagesOf(claim[t])
         /\ bump \in Nat /\ bytes \in Nat
  <1>1. Owned(PagesOf(InUse), HolePages, ClaimOf, PagesOf(abandoned), bump)
    BY OwnedIff DEF ArenaInv
  <1>2. bump \in Nat /\ bytes \in Nat
    BY ArenaAssumption DEF ArenaInv, TypeOK
  <1>3. IsFiniteSet(HolePages)
    <2>1. HolePages \subseteq 0 .. bump - 1
      BY DEF ArenaInv, Accounted
    <2>2. bump - 1 \in Int
      BY <1>2
    <2>3. IsFiniteSet(0 .. bump - 1)
      BY <2>2, FS_Interval
    <2> QED
      BY <2>1, <2>3, FS_Subset
  <1>4. EntriesApart(entries) /\ entries \in Seq(Slice)
    BY DEF ArenaInv, Exclusive, TypeOK, EntriesApart
  <1>5. /\ \A s, r \in InUse : s # r => Apart(s, r)
        /\ \A s, r \in abandoned : s # r => Apart(s, r)
        /\ bytes = Cardinality(HolePages)
    BY DEF ArenaInv, Exclusive, Accounted
  <1> QED
    BY <1>1, <1>2, <1>3, <1>4, <1>5 DEF ClaimOf

\* A step that moves no page: at most a slice goes from live to held or back, and
\* pages that are claimed are zeroed.
LEMMA QuietStep ==
  ASSUME ArenaInv, TypeOK', NEW t \in Thread, OthersAlone(t), claim'[t] = claim[t],
         \A s : s \in live' \/ s \in held'[t] <=> s \in live \/ s \in held[t],
         \A s \in live' : s \notin held'[t],
         UNCHANGED <<entries, bytes, abandoned, bump, table>>,
         data' = data \/ data' = data \ PagesOf(claim[t])
  PROVE  OwnInv'
  <1>1. InUse' = InUse
    <2>1. \A s : s \in InUse' <=> s \in InUse
      BY InUseSplit
    <2> QED
      BY <2>1
  <1>2. HeldApart' /\ \A u \in Thread : held'[u] \cap live' = {}
    <2>1. \A s \in Elsewhere(t) : s \notin live' /\ s \notin held'[t]
      BY ElsewhereApart
    <2> QED
      BY <2>1, HeldMove
  <1>3. claim' = claim
    BY DEF OthersAlone, ArenaInv, TypeOK
  <1>4. ClaimOf' = ClaimOf /\ HolePages' = HolePages
    BY <1>3 DEF ClaimOf, HolePages
  <1>5. InUseIntact'
    <2>1. PagesOf(InUse) \subseteq data
      BY DEF ArenaInv, InUseIntact
    <2>2. \A p \in PagesOf(claim[t]) : p \notin PagesOf(InUse)
      BY Parts DEF Owned
    <2>3. PagesOf(InUse) \subseteq data'
      BY <2>1, <2>2
    <2> QED
      BY <1>1, <2>3 DEF InUseIntact
  <1>6. TableExact'
    BY <1>1 DEF ArenaInv, TableExact
  <1> QED
    BY <1>1, <1>2, <1>4, <1>5, <1>6, Parts, Assemble

\* Pages that join or leave the holes are counted.
LEMMA CountPages ==
  ASSUME NEW R, IsFiniteSet(R), NEW s \in Slice, R \cap Pages(s) = {}
  PROVE  /\ IsFiniteSet(R \cup Pages(s))
         /\ Cardinality(R \cup Pages(s)) = Cardinality(R) + s.n
         /\ Cardinality(R) \in Nat
  <1>1. IsFiniteSet(Pages(s)) /\ Cardinality(Pages(s)) = s.n /\ s.n \in Nat
    BY SlicePages
  <1>2. Cardinality(R \cap Pages(s)) = 0
    BY FS_EmptySet
  <1>3. Cardinality(R) \in Nat
    BY FS_CardinalityType
  <1>4. /\ IsFiniteSet(R \cup Pages(s))
        /\ Cardinality(R \cup Pages(s)) = Cardinality(R) + Cardinality(Pages(s)) - Cardinality(R \cap Pages(s))
    BY <1>1, FS_Union
  <1> QED
    BY <1>1, <1>2, <1>3, <1>4

\* The slices in use are not touched.
LEMMA UseKept ==
  ASSUME ArenaInv, NEW t \in Thread, OthersAlone(t), UNCHANGED <<live, data, table>>,
         held'[t] = held[t]
  PROVE  /\ InUse' = InUse
         /\ HeldApart' /\ \A u \in Thread : held'[u] \cap live' = {}
         /\ InUseIntact' /\ TableExact'
  <1>1. \A s : s \in InUse' <=> s \in InUse
    BY InUseSplit
  <1>2. InUse' = InUse
    BY <1>1
  <1>3. \A s \in Elsewhere(t) : s \notin live' /\ s \notin held'[t]
    BY ElsewhereApart
  <1>4. \A s \in live' : s \notin held'[t]
    BY ElsewhereApart
  <1>5. HeldApart' /\ \A u \in Thread : held'[u] \cap live' = {}
    BY <1>3, <1>4, HeldMove
  <1>6. InUseIntact'
    BY <1>2 DEF ArenaInv, InUseIntact
  <1>7. TableExact'
    BY <1>2 DEF ArenaInv, TableExact
  <1> QED
    BY <1>2, <1>5, <1>6, <1>7

\* holes_take moves pages from the holes to the claim.
LEMMA TakeStep ==
  ASSUME ArenaInv, TypeOK', NEW t \in Thread, TakeHole(t)
  PROVE  OwnInv'
  <1> USE DEF initVars, userVars
  <1>0. TypeOK /\ Hands(t)
    BY DEF ArenaInv
  <1>1. pc[t] = "take" /\ claim[t] = {} /\ held[t] = {} /\ want[t] \in Nat \ {0}
    BY <1>0 DEF TakeHole, Hands, EmptyHanded, Unready, TypeOK
  <1>2. TakeEffect(t)
    BY <1>0, <1>1, TakeFacts
  <1>3. UNCHANGED <<initVars, bump, abandoned, want, off, fresh, held, userVars>>
    BY DEF TakeHole
  <1>4. CASE Goto(t, "load") /\ UNCHANGED <<entries, bytes, claim>>
    <2>1. OthersAlone(t)
      BY <1>0, <1>3, <1>4, GotoFacts DEF OthersAlone
    <2> QED
      BY <1>1, <1>3, <1>4, <2>1, QuietStep
  <1>5. CASE ~(Goto(t, "load") /\ UNCHANGED <<entries, bytes, claim>>)
    <2>1. PICK i \in DOMAIN entries :
            /\ entries[i].n >= want[t]
            /\ bytes' = bytes - want[t]
            /\ \/ /\ entries[i].n > want[t]
                  /\ entries' = [entries EXCEPT ![i] = [off |-> entries[i].off + want[t], n |-> entries[i].n - want[t]]]
               \/ /\ entries[i].n = want[t]
                  /\ entries' = SubSeq([entries EXCEPT ![i] = entries[Len(entries)]], 1, Len(entries) - 1)
            /\ Claim(t, {[off |-> entries[i].off, n |-> want[t]]})
            /\ Goto(t, "commitHole")
      BY <1>2, <1>5 DEF TakeEffect
    <2> DEFINE a == [off |-> entries[i].off, n |-> want[t]]
    <2>2. entries[i] \in Slice /\ entries[i].n \in Nat
      <3>1. entries[i] \in Slice
        BY <1>0 DEF TypeOK
      <3> QED
        BY <3>1, SlicePages
    <2>3. a \in Slice
      BY <1>1, <2>1, <2>2, HeadSlice
    <2>4. claim'[t] = {a} /\ OthersAlone(t)
      BY <1>0, <1>3, <2>1, GotoFacts, ClaimFacts DEF OthersAlone
    <2>5. /\ EntriesApart(entries')
          /\ HolePages = HolePages' \cup Pages(a)
          /\ HolePages' \cap Pages(a) = {}
      <3>1. EntriesApart(entries) /\ entries \in Seq(Slice)
        BY Parts
      <3>2. want[t] <= entries[i].n
        BY <1>1, <2>1, <2>2
      <3> QED
        BY <1>1, <2>1, <3>1, <3>2, TakenPages DEF HolePages
    <2>6. a.n = want[t]
      OBVIOUS
    <2> HIDE DEF a
    <2>7. Owned(PagesOf(InUse), HolePages', [ClaimOf EXCEPT ![t] = Pages(a)], PagesOf(abandoned), bump)
      <3>1. ClaimOf[t] = {}
        BY <1>1, Parts, PagesOfFacts
      <3> QED
        BY <2>5, <3>1, Parts, MoveHoleToClaim
    <2>8. ClaimOf' = [ClaimOf EXCEPT ![t] = Pages(a)]
      BY <2>4, ClaimOfStep, PagesOfFacts
    <2>9. bytes' = Cardinality(HolePages')
      <3>1. IsFiniteSet(HolePages')
        BY <2>5, Parts, FS_Subset
      <3>2. Cardinality(HolePages) = Cardinality(HolePages') + want[t] /\ Cardinality(HolePages') \in Nat
        BY <2>3, <2>5, <2>6, <3>1, CountPages
      <3> QED
        BY <1>1, <2>1, <3>2, Parts
    <2>10. /\ InUse' = InUse
           /\ HeldApart' /\ \A u \in Thread : held'[u] \cap live' = {}
           /\ InUseIntact' /\ TableExact'
      BY <1>3, <2>4, UseKept
    <2> QED
      BY <1>3, <2>5, <2>7, <2>8, <2>9, <2>10, Parts, Assemble
  <1> QED
    BY <1>4, <1>5

\* holes_give moves the claim to the holes or abandons it.
LEMMA GiveStep ==
  ASSUME ArenaInv, TypeOK', NEW t \in Thread, Give(t)
  PROVE  OwnInv'
  <1> USE DEF initVars
  <1>0. TypeOK /\ Hands(t)
    BY DEF ArenaInv
  <1>1. PICK s \in Slice : claim[t] = {s}
    BY <1>0 DEF Give, Hands
  <1>2. HolesGive(s) /\ live' = live \cup held[t] /\ UNCHANGED <<bump, data, table>> /\ Return(t)
    BY <1>1 DEF Give
  <1>3. OthersAlone(t) /\ claim'[t] = {} /\ held'[t] = {}
    BY <1>0, <1>2, ReturnFacts
  <1>4. InUse' = InUse
    <2>1. \A r : r \in InUse' <=> r \in InUse
      BY <1>2, <1>3, InUseSplit
    <2> QED
      BY <2>1
  <1>5. HeldApart' /\ \A u \in Thread : held'[u] \cap live' = {}
    <2>1. \A r \in Elsewhere(t) : r \notin live' /\ r \notin held'[t]
      BY <1>2, <1>3, ElsewhereApart
    <2> QED
      BY <1>3, <2>1, HeldMove
  <1>6. InUseIntact' /\ TableExact'
    BY <1>2, <1>4 DEF ArenaInv, InUseIntact, TableExact
  <1>7. ClaimOf[t] = Pages(s) /\ ClaimOf' = [ClaimOf EXCEPT ![t] = {}]
    BY <1>1, <1>3, ClaimOfStep, Parts, PagesOfFacts
  <1>8. /\ Owned(PagesOf(InUse), HolePages \cup Pages(s), ClaimOf', PagesOf(abandoned), bump)
        /\ Owned(PagesOf(InUse), HolePages, ClaimOf', PagesOf(abandoned) \cup Pages(s), bump)
    BY <1>7, Parts, MoveClaim
  <1>9. HolePages \cap Pages(s) = {} /\ PagesOf(abandoned) \cap Pages(s) = {}
    BY <1>7, Parts DEF Owned
  <1>10. CASE Len(entries) < HoleSlots /\ bytes + s.n <= HoleCap
    <2>1. entries' = Append(entries, s) /\ bytes' = bytes + s.n /\ abandoned' = abandoned
      BY <1>2, <1>10 DEF HolesGive
    <2>2. EntriesApart(entries') /\ HolePages' = HolePages \cup Pages(s)
      BY <1>9, <2>1, Parts, AppendedPages DEF HolePages
    <2>3. bytes' = Cardinality(HolePages')
      BY <1>9, <2>1, <2>2, Parts, CountPages
    <2> QED
      BY <1>2, <1>4, <1>5, <1>6, <1>8, <2>1, <2>2, <2>3, Parts, Assemble
  <1>11. CASE ~(Len(entries) < HoleSlots /\ bytes + s.n <= HoleCap)
    <2>1. abandoned' = abandoned \cup {s} /\ UNCHANGED <<entries, bytes>>
      BY <1>2, <1>11 DEF HolesGive
    <2>2. PagesOf(abandoned') = PagesOf(abandoned) \cup Pages(s) /\ HolePages' = HolePages
      BY <2>1, PagesOfFacts DEF HolePages
    <2>3. \A r \in abandoned : Apart(s, r) /\ Apart(r, s)
      BY <1>9, PagesOfFacts DEF Apart
    <2>4. \A r, q \in abandoned' : r # q => Apart(r, q)
      BY <2>1, <2>3, Parts
    <2> QED
      BY <1>2, <1>4, <1>5, <1>6, <1>8, <2>1, <2>2, <2>4, Parts, Assemble
  <1> QED
    BY <1>10, <1>11

\* A bump that succeeds moves the frontier over the claim.
LEMMA FreshStep ==
  ASSUME ArenaInv, TypeOK', NEW t \in Thread, OthersAlone(t), claim[t] = {}, held'[t] = held[t],
         UNCHANGED <<entries, bytes, abandoned, live, data, table>>,
         NEW s \in Slice, claim'[t] = {s}, bump = s.off, bump' = s.off + s.n
  PROVE  OwnInv'
  <1>1. s.off \in Nat /\ s.n \in Nat
    BY SlicePages
  <1>2. Pages(s) = bump .. bump' - 1
    BY <1>1 DEF Pages
  <1>3. ClaimOf[t] = {} /\ ClaimOf' = [ClaimOf EXCEPT ![t] = bump .. bump' - 1]
    BY <1>2, ClaimOfStep, Parts, PagesOfFacts
  <1>4. bump' \in Nat /\ bump <= bump'
    BY <1>1
  <1>5. Owned(PagesOf(InUse), HolePages, ClaimOf', PagesOf(abandoned), bump')
    BY <1>3, <1>4, Parts, MoveFreshToClaim
  <1>6. HolePages' = HolePages
    BY DEF HolePages
  <1>7. /\ InUse' = InUse
        /\ HeldApart' /\ \A u \in Thread : held'[u] \cap live' = {}
        /\ InUseIntact' /\ TableExact'
    BY UseKept
  <1> QED
    BY <1>5, <1>6, <1>7, Parts, Assemble

\* A slice whose pages are claimed is apart from the slices in use.
LEMMA ClaimApart ==
  ASSUME ArenaInv, NEW t \in Thread, NEW s \in Slice, claim[t] = {s}
  PROVE  /\ ClaimOf[t] = Pages(s)
         /\ \A r \in InUse : r # s /\ Pages(s) \cap Pages(r) = {}
         /\ \A p \in Pages(s) : p \notin PagesOf(InUse)
  <1>1. ClaimOf[t] = Pages(s)
    BY Parts, PagesOfFacts
  <1>2. \A p \in Pages(s) : p \notin PagesOf(InUse)
    BY <1>1, Parts DEF Owned
  <1>3. \A r \in InUse : Pages(r) \subseteq PagesOf(InUse)
    BY PagesOfFacts
  <1>4. s.off \in Pages(s)
    BY SlicePages
  <1> QED
    BY <1>1, <1>2, <1>3, <1>4

\* The heap takes the claimed slice into use.
LEMMA CarveStep ==
  ASSUME ArenaInv, TypeOK', NEW t \in Thread, Carve(t)
  PROVE  OwnInv'
  <1> USE DEF initVars, holeVars
  <1>0. TypeOK /\ Hands(t)
    BY DEF ArenaInv
  <1>1. PICK s \in Slice : claim[t] = {s} /\ held[t] = {}
    BY <1>0 DEF Carve, Hands
  <1>2. /\ live' = live \cup {s}
        /\ data' = data \cup Pages(s)
        /\ table' = [i \in PageIdx |-> IF i \in Pages(s) THEN s.off ELSE table[i]]
        /\ UNCHANGED <<bump, entries, bytes, abandoned>> /\ Return(t)
    BY <1>1 DEF Carve
  <1>3. OthersAlone(t) /\ claim'[t] = {} /\ held'[t] = {}
    BY <1>0, <1>2, ReturnFacts
  <1>4. InUse' = InUse \cup {s}
    <2>1. \A r : r \in InUse' <=> r \in InUse \/ r = s
      BY <1>1, <1>2, <1>3, InUseSplit
    <2> QED
      BY <2>1
  <1>5. /\ ClaimOf[t] = Pages(s)
        /\ \A r \in InUse : r # s /\ Pages(s) \cap Pages(r) = {}
        /\ \A p \in Pages(s) : p \notin PagesOf(InUse)
    BY <1>1, ClaimApart
  <1>6. HeldApart' /\ \A u \in Thread : held'[u] \cap live' = {}
    <2>1. \A r \in Elsewhere(t) : r \notin live' /\ r \notin held'[t]
      BY <1>2, <1>3, <1>5, ElsewhereApart
    <2> QED
      BY <1>3, <2>1, HeldMove
  <1>7. \A r, q \in InUse' : r # q => Apart(r, q)
    BY <1>4, <1>5, Parts DEF Apart
  <1>8. PagesOf(InUse') = PagesOf(InUse) \cup Pages(s)
    BY <1>4, PagesOfFacts
  <1>9. Owned(PagesOf(InUse'), HolePages', ClaimOf', PagesOf(abandoned'), bump')
    <2>1. ClaimOf' = [ClaimOf EXCEPT ![t] = {}] /\ HolePages' = HolePages
      BY <1>2, <1>3, ClaimOfStep, PagesOfFacts DEF HolePages
    <2>2. Owned(PagesOf(InUse) \cup Pages(s), HolePages, [ClaimOf EXCEPT ![t] = {}], PagesOf(abandoned), bump)
      BY <1>5, Parts, MoveClaim
    <2> QED
      BY <1>2, <1>8, <2>1, <2>2
  <1>10. InUseIntact'
    BY <1>2, <1>8 DEF ArenaInv, InUseIntact
  <1>11. TableExact'
    <2>1. ASSUME NEW r \in InUse', NEW i \in Pages(r)
          PROVE  table'[i] = r.off
      <3>1. r \in Slice /\ i \in PageIdx
        BY <1>4, <2>1, ElsewhereApart, SlicePages
      <3>2. CASE r = s
        BY <1>2, <2>1, <3>1, <3>2
      <3>3. CASE r # s
        <4>1. r \in InUse /\ i \notin Pages(s)
          BY <1>4, <1>5, <2>1, <3>3
        <4>2. table[i] = r.off
          BY <2>1, <4>1 DEF ArenaInv, TableExact
        <4> QED
          BY <1>2, <3>1, <4>1, <4>2
      <3> QED
        BY <3>2, <3>3
    <2>2. ASSUME NEW i \in PageIdx, i \notin PagesOf(InUse')
          PROVE  table'[i] = NoMaster
      <3>1. table[i] = NoMaster
        BY <1>8, <2>2 DEF ArenaInv, TableExact
      <3> QED
        BY <1>2, <1>8, <2>2, <3>1
    <2> QED
      BY <2>1, <2>2 DEF TableExact
  <1>12. bytes' = Cardinality(HolePages') /\ EntriesApart(entries')
    BY <1>2, Parts DEF HolePages
  <1> QED
    BY <1>2, <1>6, <1>7, <1>9, <1>10, <1>11, <1>12, Parts, Assemble

\* The slice and the range added to it become one slice in use.
LEMMA ExtendStep ==
  ASSUME ArenaInv, TypeOK', NEW t \in Thread, Extend(t)
  PROVE  OwnInv'
  <1> USE DEF initVars, holeVars
  <1>0. TypeOK /\ Hands(t)
    BY DEF ArenaInv
  <1>1. PICK s \in Slice : /\ held[t] = {s} /\ want[t] > s.n /\ s.off + want[t] <= Size
                           /\ claim[t] = {Added(s, want[t])}
    BY <1>0 DEF Extend, Hands
  <1> DEFINE a == Added(s, want[t])
             g == [off |-> s.off, n |-> want[t]]
  <1>2. /\ live' = live \cup {g}
        /\ data' = data \cup Pages(a)
        /\ table' = [i \in PageIdx |-> IF i \in Pages(a) THEN s.off ELSE table[i]]
        /\ UNCHANGED <<bump, entries, bytes, abandoned>> /\ Return(t)
    BY <1>1 DEF Extend
  <1>3. /\ a \in Slice /\ g \in Slice /\ g.off = s.off
        /\ Pages(s) \cup Pages(a) = Pages(g)
    <2>1. want[t] \in Nat
      BY <1>0 DEF TypeOK
    <2> QED
      BY <1>1, <2>1, AddedSlice
  <1> HIDE DEF a, g
  <1>4. OthersAlone(t) /\ claim'[t] = {} /\ held'[t] = {}
    BY <1>0, <1>2, ReturnFacts
  <1>5. /\ ClaimOf[t] = Pages(a)
        /\ \A r \in InUse : r # a /\ Pages(a) \cap Pages(r) = {}
        /\ \A p \in Pages(a) : p \notin PagesOf(InUse)
    BY <1>1, <1>3, ClaimApart DEF a
  <1>6. s \in InUse /\ s \notin live /\ s \notin Elsewhere(t) /\ a.off \in Pages(a)
    BY <1>1, <1>3, <1>4, InUseSplit, ElsewhereApart, SlicePages
  <1>7. \A r \in InUse : r # g
    BY <1>3, <1>5, <1>6
  <1>8. \A r : r \in InUse' <=> (r \in InUse /\ r # s) \/ r = g
    BY <1>1, <1>2, <1>4, <1>6, InUseSplit
  <1>9. HeldApart' /\ \A u \in Thread : held'[u] \cap live' = {}
    <2>1. \A r \in Elsewhere(t) : r \notin live' /\ r \notin held'[t]
      BY <1>2, <1>4, <1>7, ElsewhereApart
    <2> QED
      BY <1>4, <2>1, HeldMove
  <1>10. \A r \in InUse : r # s => Pages(r) \cap Pages(g) = {}
    BY <1>3, <1>5, <1>6, Parts DEF Apart
  <1>11. \A r, q \in InUse' : r # q => Apart(r, q)
    BY <1>8, <1>10, Parts DEF Apart
  <1>12. PagesOf(InUse') = PagesOf(InUse) \cup Pages(a)
    <2>1. \A p : p \in PagesOf(InUse') <=> \E r \in InUse' : p \in Pages(r)
      BY PagesOfFacts
    <2>2. \A p : p \in PagesOf(InUse) <=> \E r \in InUse : p \in Pages(r)
      BY PagesOfFacts
    <2>3. \A p : p \in Pages(g) <=> p \in Pages(s) \/ p \in Pages(a)
      BY <1>3
    <2>4. \A p : p \in PagesOf(InUse') <=> p \in PagesOf(InUse) \/ p \in Pages(a)
      BY <1>6, <1>8, <2>1, <2>2, <2>3
    <2> QED
      BY <2>4
  <1>13. Owned(PagesOf(InUse'), HolePages', ClaimOf', PagesOf(abandoned'), bump')
    <2>1. ClaimOf' = [ClaimOf EXCEPT ![t] = {}] /\ HolePages' = HolePages
      BY <1>2, <1>4, ClaimOfStep, PagesOfFacts DEF HolePages
    <2>2. Owned(PagesOf(InUse) \cup Pages(a), HolePages, [ClaimOf EXCEPT ![t] = {}], PagesOf(abandoned), bump)
      BY <1>5, Parts, MoveClaim
    <2> QED
      BY <1>2, <1>12, <2>1, <2>2
  <1>14. InUseIntact'
    BY <1>2, <1>12 DEF ArenaInv, InUseIntact
  <1>15. TableExact'
    <2>1. ASSUME NEW r \in InUse', NEW i \in Pages(r)
          PROVE  table'[i] = r.off
      <3>1. r \in Slice /\ i \in PageIdx
        BY <1>3, <1>8, <2>1, ElsewhereApart, SlicePages
      <3>2. CASE i \in Pages(a)
        <4>1. r = g
          BY <1>5, <1>8, <2>1, <3>2
        <4> QED
          BY <1>2, <1>3, <3>1, <3>2, <4>1
      <3>3. CASE i \notin Pages(a)
        <4>1. table'[i] = table[i]
          BY <1>2, <3>1, <3>3
        <4>2. CASE r = g
          <5>1. i \in Pages(s)
            BY <1>3, <2>1, <3>3, <4>2
          <5>2. table[i] = s.off
            BY <1>6, <5>1 DEF ArenaInv, TableExact
          <5> QED
            BY <1>3, <4>1, <4>2, <5>2
        <4>3. CASE r # g
          <5>1. r \in InUse
            BY <1>8, <2>1, <4>3
          <5>2. table[i] = r.off
            BY <2>1, <5>1 DEF ArenaInv, TableExact
          <5> QED
            BY <4>1, <5>2
        <4> QED
          BY <4>2, <4>3
      <3> QED
        BY <3>2, <3>3
    <2>2. ASSUME NEW i \in PageIdx, i \notin PagesOf(InUse')
          PROVE  table'[i] = NoMaster
      <3>1. table[i] = NoMaster
        BY <1>12, <2>2 DEF ArenaInv, TableExact
      <3> QED
        BY <1>2, <1>12, <2>2, <3>1
    <2> QED
      BY <2>1, <2>2 DEF TableExact
  <1>16. bytes' = Cardinality(HolePages') /\ EntriesApart(entries')
    BY <1>2, Parts DEF HolePages
  <1> QED
    BY <1>2, <1>9, <1>11, <1>13, <1>14, <1>15, <1>16, Parts, Assemble

\* The heap gives up a slice: its pages are claimed and the side table cleared.
LEMMA ReleaseStep ==
  ASSUME ArenaInv, TypeOK', NEW t \in Thread, NEW s \in live, BeginRelease(t, s)
  PROVE  OwnInv'
  <1> USE DEF holeVars
  <1>0. TypeOK /\ Hands(t) /\ s \in Slice
    BY DEF ArenaInv, TypeOK
  <1>1. claim[t] = {} /\ held[t] = {}
    BY <1>0 DEF BeginRelease, Hands, EmptyHanded, Unready
  <1>2. /\ live' = live \ {s}
        /\ table' = [i \in PageIdx |-> IF i \in Pages(s) THEN NoMaster ELSE table[i]]
        /\ UNCHANGED <<bump, entries, bytes, abandoned, held, data>>
    BY DEF BeginRelease
  <1>3. OthersAlone(t) /\ claim'[t] = {s}
    BY <1>0, GotoFacts, ClaimFacts DEF BeginRelease, OthersAlone
  <1>4. \A r : r \in InUse' <=> r \in InUse /\ r # s
    BY <1>1, <1>2, <1>3, InUseSplit, ElsewhereApart
  <1>5. HeldApart' /\ \A u \in Thread : held'[u] \cap live' = {}
    <2>1. \A r \in Elsewhere(t) : r \notin live' /\ r \notin held'[t]
      BY <1>2, ElsewhereApart
    <2>2. \A r \in live' : r \notin held'[t]
      BY <1>1, <1>2
    <2> QED
      BY <1>3, <2>1, <2>2, HeldMove
  <1>6. \A r, q \in InUse' : r # q => Apart(r, q)
    BY <1>4, Parts
  <1>7. s \in InUse
    BY DEF InUse
  <1>8. \A r \in InUse' : Pages(r) \cap Pages(s) = {}
    BY <1>4, <1>7, Parts DEF Apart
  <1>9. /\ PagesOf(InUse) = PagesOf(InUse') \cup Pages(s)
        /\ PagesOf(InUse') \cap Pages(s) = {}
    <2>1. \A p : p \in PagesOf(InUse') <=> \E r \in InUse' : p \in Pages(r)
      BY PagesOfFacts
    <2>2. \A p : p \in PagesOf(InUse) <=> \E r \in InUse : p \in Pages(r)
      BY PagesOfFacts
    <2>3. \A p : p \in PagesOf(InUse) <=> p \in PagesOf(InUse') \/ p \in Pages(s)
      BY <1>4, <1>7, <2>1, <2>2
    <2>4. \A p : ~(p \in PagesOf(InUse') /\ p \in Pages(s))
      BY <1>8, <2>1
    <2> QED
      BY <2>3, <2>4
  <1>10. Owned(PagesOf(InUse'), HolePages', ClaimOf', PagesOf(abandoned'), bump')
    <2>1. ClaimOf' = [ClaimOf EXCEPT ![t] = Pages(s)] /\ HolePages' = HolePages /\ ClaimOf[t] = {}
      BY <1>1, <1>2, <1>3, ClaimOfStep, PagesOfFacts, Parts DEF HolePages
    <2> QED
      BY <1>2, <1>9, <2>1, Parts, MoveUseToClaim
  <1>11. InUseIntact'
    BY <1>2, <1>9 DEF ArenaInv, InUseIntact
  <1>12. TableExact'
    <2>1. ASSUME NEW r \in InUse', NEW i \in Pages(r)
          PROVE  table'[i] = r.off
      <3>1. r \in InUse /\ r \in Slice /\ i \in PageIdx /\ i \notin Pages(s)
        BY <1>4, <1>8, <2>1, ElsewhereApart, SlicePages
      <3>2. table[i] = r.off
        BY <2>1, <3>1 DEF ArenaInv, TableExact
      <3> QED
        BY <1>2, <3>1, <3>2
    <2>2. ASSUME NEW i \in PageIdx, i \notin PagesOf(InUse')
          PROVE  table'[i] = NoMaster
      <3>1. i \in Pages(s) \/ i \notin PagesOf(InUse)
        BY <1>9, <2>2
      <3>2. i \notin PagesOf(InUse) => table[i] = NoMaster
        BY <2>2 DEF ArenaInv, TableExact
      <3> QED
        BY <1>2, <2>2, <3>1, <3>2
    <2> QED
      BY <2>1, <2>2 DEF TableExact
  <1>13. bytes' = Cardinality(HolePages') /\ EntriesApart(entries')
    BY <1>2, Parts DEF HolePages
  <1> QED
    BY <1>2, <1>5, <1>6, <1>10, <1>11, <1>12, <1>13, Parts, Assemble

\* Ownership, step by step.
LEMMA OwnStep ==
  ASSUME ArenaInv, Next
  PROVE  OwnInv'
  <1>t. PICK t \in Thread :
           \/ \E n \in 1 .. MaxRequest : Commit(t, n)
           \/ \E s \in live : BeginRelease(t, s)
           \/ \E s \in live : \E n \in 1 .. Size : BeginGrow(t, s, n)
           \/ Check(t)
           \/ EnterGuard(t)
           \/ Reserve(t)
           \/ Publish(t)
           \/ LeaveGuard(t)
           \/ ReadCount(t)
           \/ TakeHole(t)
           \/ CommitRange(t)
           \/ Give(t)
           \/ LoadBump(t)
           \/ CasBump(t)
           \/ Carve(t)
           \/ GrowCas(t)
           \/ GrowCommit(t)
           \/ Extend(t)
           \/ Discard(t)
    BY NextCases
  <1>0. TypeOK /\ GuardInv /\ Hands(t) /\ TypeOK'
    BY TypeStep DEF ArenaInv
  <1>e. \A s \in live : s \notin held[t]
    BY ElsewhereApart
  <1>q. ASSUME OthersAlone(t), claim'[t] = claim[t], held'[t] = held[t], live' = live,
               UNCHANGED <<entries, bytes, abandoned, bump, table>>,
               data' = data \/ data' = data \ PagesOf(claim[t])
        PROVE  OwnInv'
    BY <1>0, <1>e, <1>q, QuietStep
  <1>r. Return(t) => OthersAlone(t) /\ claim'[t] = {} /\ held'[t] = {}
    BY <1>0, ReturnFacts
  <1> USE DEF initVars, holeVars, localVars, userVars
  <1>1. CASE \E n \in 1 .. MaxRequest : Commit(t, n)
    <2> PICK n \in 1 .. MaxRequest : Commit(t, n)
      BY <1>1
    <2>1. OthersAlone(t)
      BY <1>0, GotoFacts DEF Commit, OthersAlone, TypeOK
    <2> QED
      BY <1>q, <2>1 DEF Commit
  <1>2. CASE \E s \in live : BeginRelease(t, s)
    BY <1>0, <1>2, ReleaseStep
  <1>3. CASE \E s \in live : \E n \in 1 .. Size : BeginGrow(t, s, n)
    <2> PICK s \in live, n \in 1 .. Size : BeginGrow(t, s, n)
      BY <1>3
    <2>1. held'[t] = {s} /\ held[t] = {} /\ live' = live \ {s}
      BY <1>0 DEF BeginGrow, TypeOK, Hands, EmptyHanded, Unready
    <2>2. OthersAlone(t)
      BY <1>0, GotoFacts DEF BeginGrow, OthersAlone, TypeOK
    <2>3. /\ \A r : r \in live' \/ r \in held'[t] <=> r \in live \/ r \in held[t]
          /\ \A r \in live' : r \notin held'[t]
      BY <2>1
    <2>4. claim'[t] = claim[t] /\ UNCHANGED <<entries, bytes, abandoned, bump, table, data>>
      BY DEF BeginGrow
    <2> QED
      BY <1>0, <2>2, <2>3, <2>4, QuietStep
  <1>4. CASE Check(t)
    <2>1. claim[t] = {} /\ held[t] = {}
      BY <1>0, <1>4 DEF Check, Hands, EmptyHanded, Unready
    <2>2. OthersAlone(t) /\ claim'[t] = {} /\ held'[t] = {}
      BY <1>0, <1>4, <1>r, <2>1, GotoFacts DEF Check, OthersAlone, TypeOK
    <2> QED
      BY <1>4, <1>q, <2>1, <2>2 DEF Check
  <1>5. CASE EnterGuard(t)
    <2>1. OthersAlone(t)
      BY <1>0, <1>5, GotoFacts DEF EnterGuard, OthersAlone, TypeOK
    <2> QED
      BY <1>5, <1>q, <2>1 DEF EnterGuard
  <1>6. CASE Reserve(t)
    <2>1. OthersAlone(t)
      BY <1>0, <1>6, GotoFacts DEF Reserve, OthersAlone
    <2>2. bump' = bump
      BY <1>0, <1>6 DEF Reserve, GuardInv
    <2> QED
      BY <1>6, <1>q, <2>1, <2>2 DEF Reserve
  <1>7. CASE Publish(t)
    <2>1. OthersAlone(t)
      BY <1>0, <1>7, GotoFacts DEF Publish, OthersAlone, TypeOK
    <2> QED
      BY <1>7, <1>q, <2>1 DEF Publish
  <1>8. CASE LeaveGuard(t)
    <2>1. claim[t] = {} /\ held[t] = {}
      BY <1>0, <1>8 DEF LeaveGuard, Hands, EmptyHanded, Unready
    <2>2. OthersAlone(t) /\ claim'[t] = {} /\ held'[t] = {}
      BY <1>0, <1>8, <1>r, <2>1, GotoFacts DEF LeaveGuard, OthersAlone, TypeOK
    <2> QED
      BY <1>8, <1>q, <2>1, <2>2 DEF LeaveGuard
  <1>9. CASE ReadCount(t)
    <2>1. OthersAlone(t)
      BY <1>0, <1>9, GotoFacts DEF ReadCount, OthersAlone, TypeOK
    <2> QED
      BY <1>9, <1>q, <2>1 DEF ReadCount
  <1>10. CASE TakeHole(t)
    BY <1>0, <1>10, TakeStep
  <1>11. CASE CommitRange(t)
    <2>1. OthersAlone(t)
      BY <1>0, <1>11, GotoFacts DEF CommitRange, OthersAlone, TypeOK
    <2> QED
      BY <1>11, <1>q, <2>1 DEF CommitRange
  <1>12. CASE Give(t)
    BY <1>0, <1>12, GiveStep
  <1>13. CASE LoadBump(t)
    <2>1. claim[t] = {} /\ held[t] = {}
      BY <1>0, <1>13 DEF LoadBump, Hands, EmptyHanded, Unready
    <2>2. OthersAlone(t) /\ claim'[t] = {} /\ held'[t] = {}
      BY <1>0, <1>13, <1>r, <2>1, GotoFacts DEF LoadBump, OthersAlone, TypeOK
    <2> QED
      BY <1>13, <1>q, <2>1, <2>2 DEF LoadBump
  <1>14. CASE CasBump(t)
    <2>1. claim[t] = {}
      BY <1>0, <1>14 DEF CasBump, Hands, EmptyHanded, Unready
    <2>2. OthersAlone(t)
      BY <1>0, <1>14, GotoFacts, ClaimFacts DEF CasBump, OthersAlone
    <2>3. CASE bump = off[t]
      <3> DEFINE s == [off |-> off[t], n |-> want[t]]
      <3>1. claim'[t] = {s} /\ bump' = off[t] + want[t]
        BY <1>0, <1>14, <2>3, ClaimFacts DEF CasBump
      <3>2. s \in Slice
        BY <1>0, <3>1 DEF TypeOK
      <3>3. s.off = off[t] /\ s.n = want[t]
        OBVIOUS
      <3> HIDE DEF s
      <3>4. held'[t] = held[t] /\ UNCHANGED <<entries, bytes, abandoned, live, data, table>>
        BY <1>14 DEF CasBump
      <3> QED
        BY <1>0, <2>1, <2>2, <2>3, <3>1, <3>2, <3>3, <3>4, FreshStep
    <2>4. CASE bump # off[t]
      BY <1>14, <1>q, <2>2, <2>4 DEF CasBump
    <2> QED
      BY <2>3, <2>4
  <1>15. CASE Carve(t)
    BY <1>0, <1>15, CarveStep
  <1>16. CASE GrowCas(t)
    <2>1. PICK s \in Slice : /\ held[t] = {s} /\ want[t] > s.n /\ s.off + want[t] <= Size
                             /\ claim[t] = {}
      BY <1>0, <1>16 DEF GrowCas, Hands
    <2>2. UNCHANGED <<entries, bytes, abandoned, data, table>>
      BY <1>16 DEF GrowCas
    <2>3. CASE bump = s.off + s.n
      <3> DEFINE a == Added(s, want[t])
      <3>1. /\ bump' = s.off + want[t] /\ Claim(t, {a}) /\ Goto(t, "growCommit")
            /\ UNCHANGED <<want, off, fresh, held, live>>
        BY <1>16, <2>1, <2>3 DEF GrowCas, Added
      <3>2. OthersAlone(t) /\ claim'[t] = {a}
        BY <1>0, <3>1, GotoFacts, ClaimFacts DEF OthersAlone
      <3>3. a \in Slice
        BY <1>0, <3>2 DEF TypeOK
      <3>4. bump = a.off /\ bump' = a.off + a.n
        <4>1. want[t] \in Nat /\ s.off \in Nat /\ s.n \in Nat
          BY <1>0, SlicePages DEF TypeOK
        <4> QED
          BY <2>3, <3>1, <4>1 DEF Added
      <3> HIDE DEF a
      <3> QED
        BY <1>0, <2>1, <2>2, <3>1, <3>2, <3>3, <3>4, FreshStep
    <2>4. CASE bump # s.off + s.n
      <3>1. live' = live \cup {s} /\ Return(t) /\ UNCHANGED bump
        BY <1>16, <2>1, <2>4 DEF GrowCas
      <3>2. OthersAlone(t) /\ claim'[t] = claim[t] /\ held'[t] = {}
        BY <1>r, <2>1, <3>1
      <3>3. /\ \A r : r \in live' \/ r \in held'[t] <=> r \in live \/ r \in held[t]
            /\ \A r \in live' : r \notin held'[t]
        BY <2>1, <3>1, <3>2
      <3> QED
        BY <1>0, <2>2, <3>1, <3>2, <3>3, QuietStep
    <2> QED
      BY <2>3, <2>4
  <1>17. CASE GrowCommit(t)
    <2>1. OthersAlone(t)
      BY <1>0, <1>17, GotoFacts DEF GrowCommit, OthersAlone, TypeOK
    <2> QED
      BY <1>17, <1>q, <2>1 DEF GrowCommit
  <1>18. CASE Extend(t)
    BY <1>0, <1>18, ExtendStep
  <1>19. CASE Discard(t)
    <2>1. OthersAlone(t)
      BY <1>0, <1>19, GotoFacts DEF Discard, OthersAlone, TypeOK
    <2> QED
      BY <1>19, <1>q, <2>1 DEF Discard
  <1> QED
    BY <1>t, <1>1, <1>2, <1>3, <1>4, <1>5, <1>6, <1>7, <1>8, <1>9, <1>10, <1>11, <1>12, <1>13, <1>14, <1>15, <1>16, <1>17, <1>18, <1>19

-----------------------------------------------------------------------------
(* The theorems. *)

\* The initial state satisfies the invariant.
LEMMA InitSafe == Init => ArenaInv
  <1> SUFFICES ASSUME Init PROVE ArenaInv
    OBVIOUS
  <1> USE ArenaAssumption DEF Init
  <1>1. TypeOK
    BY DEF TypeOK, PcLabels, Slice, PageIdx, NoMaster
  <1>2. GuardInv
    BY DEF GuardInv
  <1>3. \A t \in Thread : Hands(t)
    BY DEF Hands, EmptyHanded, Unready
  <1>4. InUse = {} /\ HeldApart
    BY DEF InUse, HeldApart
  <1>5. ToSet(entries) = {}
    BY DEF ToSet
  <1>6. PagesOf(InUse) = {} /\ HolePages = {} /\ PagesOf(abandoned) = {}
    BY <1>4, <1>5, PagesOfFacts DEF HolePages
  <1>7. \A t \in Thread : PagesOf(claim[t]) = {}
    BY PagesOfFacts
  <1>8. ClaimPages = {}
    BY <1>7 DEF ClaimPages
  <1>9. Exclusive
    BY <1>4, <1>6, <1>7, <1>8 DEF Exclusive
  <1>10. Accounted
    BY <1>6, <1>8, FS_EmptySet DEF Accounted
  <1>11. InUseIntact /\ TableExact
    BY <1>4, <1>6 DEF InUseIntact, TableExact
  <1> QED
    BY <1>1, <1>2, <1>3, <1>4, <1>9, <1>10, <1>11 DEF ArenaInv

\* Every step keeps the invariant.
LEMMA StepSafe == ArenaInv /\ [Next]_vars => ArenaInv'
  <1> SUFFICES ASSUME ArenaInv, [Next]_vars PROVE ArenaInv'
    OBVIOUS
  <1>1. CASE Next
    BY <1>1, TypeStep, ControlStep, OwnStep DEF ArenaInv, OwnInv
  <1>2. CASE UNCHANGED vars
    <2> USE <1>2 DEF vars, initVars, holeVars, localVars, userVars
    <2>1. InUse' = InUse /\ HolePages' = HolePages /\ ClaimPages' = ClaimPages
      BY DEF InUse, HolePages, ClaimPages
    <2>2. TypeOK'
      BY DEF ArenaInv, TypeOK
    <2>3. GuardInv' /\ HeldApart'
      BY DEF ArenaInv, GuardInv, HeldApart
    <2>4. \A t \in Thread : Hands(t)'
      BY DEF ArenaInv, Hands
    <2>5. Exclusive'
      BY <2>1 DEF ArenaInv, Exclusive
    <2>6. Accounted' /\ InUseIntact' /\ TableExact'
      BY <2>1 DEF ArenaInv, Accounted, InUseIntact, TableExact
    <2> QED
      BY <2>2, <2>3, <2>4, <2>5, <2>6 DEF ArenaInv
  <1> QED
    BY <1>1, <1>2

\* The inductive invariant holds in every state the arena reaches, for any number
\* of threads, any reservation and any hole store.
THEOREM Safety == Spec => []ArenaInv
  BY InitSafe, StepSafe, PTL DEF Spec

\* A page of the reservation has one owner: what entitles commit_range to map over
\* it with MAP_FIXED, and discard to drop it.
THEOREM PagesExclusive == Spec => []Exclusive
  <1>1. ArenaInv => Exclusive
    BY DEF ArenaInv
  <1> QED
    BY Safety, <1>1, PTL

\* Below the frontier every page is in use, a hole, claimed or abandoned by the
\* full hole store, whatever commit_range and discard fail at; HoleStore.bytes
\* counts the pages of the holes.
THEOREM PagesAccounted == Spec => []Accounted
  <1>1. ArenaInv => Accounted
    BY DEF ArenaInv
  <1> QED
    BY Safety, <1>1, PTL

\* No commit and no discard touches memory in use.
THEOREM MemoryIntact == Spec => []InUseIntact
  <1>1. ArenaInv => InUseIntact
    BY DEF ArenaInv
  <1> QED
    BY Safety, <1>1, PTL

\* The side table leads from the pages in use, and only from them, to the master
\* of their slice.
THEOREM TableLeadsHome == Spec => []TableExact
  <1>1. ArenaInv => TableExact
    BY DEF ArenaInv
  <1> QED
    BY Safety, <1>1, PTL

\* holes_take is best fit, whatever its hints hold.
THEOREM BestFitTaken == Spec => TakesBestFit
  <1> DEFINE Taken(t) ==
        LET fits == {e \in ToSet(entries) : e.n >= want[t]} IN
        IF fits = {} THEN claim'[t] = {}
        ELSE \E e \in fits : /\ \A f \in fits : e.n <= f.n
                             /\ claim'[t] = {[off |-> e.off, n |-> want[t]]}
      A == \A t \in Thread : pc[t] = "take" /\ pc'[t] # "take" => Taken(t)
  <1>1. ASSUME ArenaInv, Next, NEW t \in Thread, pc[t] = "take", pc'[t] # "take"
        PROVE  Taken(t)
    <2>0. TypeOK /\ Hands(t)
      BY <1>1 DEF ArenaInv
    <2>1. TakeHole(t)
      <3>1. PICK u \in Thread : Call(u) \/ Step(u)
        BY <1>1 DEF Next
      <3>2. u = t
        BY <1>1, <2>0, <3>1 DEF Call, Step, Commit, BeginRelease, BeginGrow, Check, EnterGuard,
              Reserve, Publish, LeaveGuard, ReadCount, TakeHole, CommitRange, Give, LoadBump,
              CasBump, Carve, GrowCas, GrowCommit, Extend, Discard, Goto, Return, TypeOK
      <3> QED
        BY <1>1, <3>1, <3>2 DEF Call, Step, Commit, BeginRelease, BeginGrow, Check, EnterGuard,
              Reserve, Publish, LeaveGuard, ReadCount, CommitRange, Give, LoadBump,
              CasBump, Carve, GrowCas, GrowCommit, Extend, Discard
    <2>2. claim[t] = {} /\ want[t] \in Nat \ {0}
      BY <1>1, <2>0 DEF Hands, EmptyHanded, Unready, TypeOK
    <2>3. TakeEffect(t)
      BY <2>0, <2>1, <2>2, TakeFacts
    <2>4. \A j \in DOMAIN entries : entries[j].n \in Nat
      BY <2>0 DEF TypeOK, Slice
    <2> DEFINE fits == {e \in ToSet(entries) : e.n >= want[t]}
    <2>5. CASE UNCHANGED claim /\ \A j \in DOMAIN entries : entries[j].n < want[t]
      <3>1. fits = {}
        BY <2>2, <2>4, <2>5 DEF ToSet
      <3> QED
        BY <2>2, <2>5, <3>1
    <2>6. CASE \E i \in DOMAIN entries :
                 /\ entries[i].n >= want[t]
                 /\ \A j \in DOMAIN entries : entries[j].n >= want[t] => entries[i].n <= entries[j].n
                 /\ Claim(t, {[off |-> entries[i].off, n |-> want[t]]})
      <3>1. PICK i \in DOMAIN entries :
                 /\ entries[i].n >= want[t]
                 /\ \A j \in DOMAIN entries : entries[j].n >= want[t] => entries[i].n <= entries[j].n
                 /\ Claim(t, {[off |-> entries[i].off, n |-> want[t]]})
        BY <2>6
      <3>2. entries[i] \in fits /\ \A f \in fits : entries[i].n <= f.n
        BY <3>1 DEF ToSet
      <3>3. claim'[t] = {[off |-> entries[i].off, n |-> want[t]]}
        BY <2>0, <3>1, ClaimFacts
      <3> QED
        BY <3>2, <3>3
    <2> QED
      BY <2>3, <2>5, <2>6 DEF TakeEffect
  <1>2. ArenaInv /\ [Next]_vars => [A]_vars
    BY <1>1
  <1> QED
    BY Safety, <1>2, PTL DEF Spec, TakesBestFit

=============================================================================
