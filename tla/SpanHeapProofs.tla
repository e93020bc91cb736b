--------------------------- MODULE SpanHeapProofs ---------------------------
(***************************************************************************)
(* SafetyInv is an invariant of SpanHeap, for any threads, spans, batch    *)
(* sizes and caps, of the big tier always and of the medium tier when      *)
(* spans mapped one after the other coincide or are apart (NoOverlap);     *)
(* with it Exclusive, CountsExact, NoSpanLost and ReleasesToOwner.  Both   *)
(* tiers then implement AllocContract.                                     *)
(***************************************************************************)
EXTENDS SpanHeap, FiniteSetTheorems, SequenceTheorems, TLAPS

-----------------------------------------------------------------------------
(* Chains and lists. *)

\* A sequence is a function on 1 .. Len.
LEMMA SeqFacts ==
  ASSUME NEW S, NEW s \in Seq(S)
  PROVE  /\ Len(s) \in Nat /\ DOMAIN s = 1 .. Len(s)
         /\ \A i \in DOMAIN s : s[i] \in S
         /\ s = <<>> <=> Len(s) = 0
         /\ ToSet(s) \subseteq S
         /\ s = <<>> <=> ToSet(s) = {}
  <1>1. Len(s) \in Nat /\ DOMAIN s = 1 .. Len(s) /\ \A i \in DOMAIN s : s[i] \in S
    OBVIOUS
  <1>2. s = <<>> <=> Len(s) = 0
    OBVIOUS
  <1>3. Len(s) # 0 => s[1] \in ToSet(s)
    BY <1>1 DEF ToSet
  <1>4. Len(s) = 0 => ToSet(s) = {}
    BY <1>1 DEF ToSet
  <1> QED
    BY <1>1, <1>2, <1>3, <1>4 DEF ToSet

\* The empty sequence holds nothing.
LEMMA EmptySet == ToSet(<<>>) = {}
  BY DEF ToSet

\* The empty sequence repeats nothing.
LEMMA EmptyInjective == IsInjective(<<>>)
  BY DEF IsInjective

\* A list of one.
LEMMA OneSeq ==
  ASSUME NEW S, NEW a \in S
  PROVE  /\ <<a>> \in Seq(S) /\ Len(<<a>>) = 1 /\ <<a>>[1] = a /\ <<a>> # <<>>
         /\ ToSet(<<a>>) = {a} /\ IsInjective(<<a>>)
  <1>1. <<a>> \in Seq(S) /\ Len(<<a>>) = 1 /\ <<a>>[1] = a /\ DOMAIN <<a>> = 1 .. 1
    OBVIOUS
  <1>2. ToSet(<<a>>) = {a}
    BY <1>1 DEF ToSet
  <1>3. IsInjective(<<a>>)
    BY <1>1 DEF IsInjective
  <1> QED
    BY <1>1, <1>2, <1>3

\* Being on a list.
LEMMA OnList ==
  ASSUME NEW S, NEW s \in Seq(S), NEW e
  PROVE  Contains(s, e) <=> e \in ToSet(s)
  BY SeqFacts DEF Contains, ToSet

\* push_block: one block on top.
LEMMA PushTop ==
  ASSUME NEW S, NEW s \in Seq(S), NEW a \in S
  PROVE  /\ Append(s, a) \in Seq(S) /\ Len(Append(s, a)) = Len(s) + 1
         /\ Append(s, a) # <<>>
         /\ \A i \in 1 .. Len(s) : Append(s, a)[i] = s[i]
         /\ Append(s, a)[Len(s) + 1] = a
         /\ ToSet(Append(s, a)) = ToSet(s) \cup {a}
         /\ IsInjective(s) /\ a \notin ToSet(s) => IsInjective(Append(s, a))
  <1> DEFINE r == Append(s, a)
  <1>1. /\ r \in Seq(S) /\ Len(r) = Len(s) + 1 /\ Len(s) \in Nat
        /\ DOMAIN r = 1 .. Len(s) + 1 /\ DOMAIN s = 1 .. Len(s)
        /\ \A i \in 1 .. Len(s) : r[i] = s[i]
        /\ r[Len(s) + 1] = a
    OBVIOUS
  <1> HIDE DEF r
  <1>2. ToSet(r) = ToSet(s) \cup {a}
    BY <1>1 DEF ToSet
  <1>3. IsInjective(s) /\ a \notin ToSet(s) => IsInjective(r)
    BY <1>1 DEF ToSet, IsInjective
  <1>4. r # <<>>
    BY <1>1
  <1> QED
    BY <1>1, <1>2, <1>3, <1>4 DEF r

\* pop_block: the block on top comes off.
LEMMA PopTop ==
  ASSUME NEW S, NEW s \in Seq(S), s # <<>>
  PROVE  /\ Last(s) \in S /\ Last(s) \in ToSet(s) /\ Last(s) = s[Len(s)] /\ Len(s) > 0
         /\ Front(s) \in Seq(S) /\ Len(Front(s)) = Len(s) - 1
         /\ \A i \in 1 .. Len(s) - 1 : Front(s)[i] = s[i]
         /\ ToSet(s) = ToSet(Front(s)) \cup {Last(s)}
         /\ IsInjective(s) => IsInjective(Front(s)) /\ Last(s) \notin ToSet(Front(s))
  <1> DEFINE r == Front(s)
  <1>1. Len(s) \in Nat /\ Len(s) > 0 /\ DOMAIN s = 1 .. Len(s) /\ Len(s) \in DOMAIN s
    OBVIOUS
  <1>2. /\ r \in Seq(S) /\ Len(r) = Len(s) - 1
        /\ DOMAIN r = 1 .. Len(s) - 1
        /\ \A i \in 1 .. Len(s) - 1 : r[i] = s[i]
    BY <1>1 DEF Front
  <1>3. Last(s) = s[Len(s)] /\ Last(s) \in S
    BY <1>1 DEF Last
  <1> HIDE DEF r
  <1>4. ToSet(s) = ToSet(r) \cup {s[Len(s)]}
    BY <1>1, <1>2 DEF ToSet
  <1>5. IsInjective(s) => IsInjective(r) /\ s[Len(s)] \notin ToSet(r)
    BY <1>1, <1>2 DEF ToSet, IsInjective
  <1> QED
    BY <1>1, <1>2, <1>3, <1>4, <1>5 DEF r

\* The length below the top.
LEMMA PopLen ==
  ASSUME NEW S, NEW s \in Seq(S), s # <<>>
  PROVE  Len(s) - 1 \in Nat
  <1>1. Len(s) \in Nat /\ Len(s) > 0
    BY PopTop
  <1> QED
    BY <1>1

\* Popping the only block leaves nothing.
LEMMA PopLeaves ==
  ASSUME NEW S, NEW s \in Seq(S), s # <<>>
  PROVE  Front(s) = <<>> <=> Len(s) = 1
  <1>1. Front(s) \in Seq(S) /\ Len(Front(s)) = Len(s) - 1 /\ Len(s) \in Nat
    BY PopTop
  <1>2. Front(s) = <<>> <=> Len(Front(s)) = 0
    BY <1>1, SeqFacts
  <1> QED
    BY <1>1, <1>2

\* Something pushed is there, whatever it is.
LEMMA PushSome ==
  ASSUME NEW S, NEW s \in Seq(S), NEW a
  PROVE  Append(s, a) # <<>> /\ <<a>> # <<>>
  <1>1. DOMAIN Append(s, a) = 1 .. Len(s) + 1 /\ Len(s) \in Nat
    OBVIOUS
  <1>2. DOMAIN <<>> = {} /\ DOMAIN <<a>> = 1 .. 1
    OBVIOUS
  <1> QED
    BY <1>1, <1>2

\* A list without its head.
LEMMA PopHead ==
  ASSUME NEW S, NEW s \in Seq(S), s # <<>>
  PROVE  /\ Head(s) \in S /\ Head(s) \in ToSet(s) /\ Head(s) = s[1] /\ Len(s) > 0
         /\ Tail(s) \in Seq(S) /\ Len(Tail(s)) = Len(s) - 1
         /\ \A i \in 1 .. Len(s) - 1 : Tail(s)[i] = s[i + 1]
         /\ ToSet(s) = ToSet(Tail(s)) \cup {Head(s)}
         /\ IsInjective(s) => IsInjective(Tail(s)) /\ Head(s) \notin ToSet(Tail(s))
  <1> DEFINE r == Tail(s)
  <1>1. Len(s) \in Nat /\ Len(s) > 0 /\ DOMAIN s = 1 .. Len(s) /\ 1 \in DOMAIN s
    OBVIOUS
  <1>2. /\ r \in Seq(S) /\ Len(r) = Len(s) - 1
        /\ DOMAIN r = 1 .. Len(s) - 1
        /\ \A i \in 1 .. Len(s) - 1 : r[i] = s[i + 1]
    BY <1>1
  <1>3. Head(s) = s[1] /\ Head(s) \in S
    BY <1>1
  <1> HIDE DEF r
  <1>4. ToSet(s) = ToSet(r) \cup {s[1]}
    <2>1. \A i \in 1 .. Len(s) : i = 1 \/ (i - 1 \in 1 .. Len(s) - 1 /\ r[i - 1] = s[i])
      BY <1>1, <1>2
    <2>2. ToSet(s) \subseteq ToSet(r) \cup {s[1]}
      <3> SUFFICES ASSUME NEW i \in 1 .. Len(s), i # 1 PROVE s[i] \in ToSet(r)
        BY <1>1 DEF ToSet
      <3>1. i - 1 \in DOMAIN r /\ r[i - 1] = s[i]
        BY <1>2, <2>1
      <3> QED
        BY <3>1 DEF ToSet
    <2>3. ToSet(r) \cup {s[1]} \subseteq ToSet(s)
      BY <1>1, <1>2 DEF ToSet
    <2> QED
      BY <2>2, <2>3
  <1>5. ASSUME IsInjective(s) PROVE IsInjective(r) /\ s[1] \notin ToSet(r)
    <2>1. \A i \in DOMAIN r : i + 1 \in DOMAIN s /\ r[i] = s[i + 1]
      BY <1>1, <1>2
    <2>2. ASSUME NEW i \in DOMAIN r, NEW j \in DOMAIN r, r[i] = r[j] PROVE i = j
      <3>1. i + 1 = j + 1
        BY <1>5, <2>1, <2>2 DEF IsInjective
      <3> QED
        BY <1>1, <1>2, <3>1
    <2>3. ASSUME NEW i \in DOMAIN r, r[i] = s[1] PROVE FALSE
      <3>1. i + 1 = 1
        BY <1>1, <1>5, <2>1, <2>3 DEF IsInjective
      <3> QED
        BY <1>1, <1>2, <3>1
    <2> QED
      BY <2>2, <2>3 DEF ToSet, IsInjective
  <1> QED
    BY <1>1, <1>2, <1>3, <1>4, <1>5 DEF r

\* A chain spliced in front of another.
LEMMA Splice ==
  ASSUME NEW S, NEW r \in Seq(S), NEW s \in Seq(S)
  PROVE  /\ r \o s \in Seq(S) /\ Len(r \o s) = Len(r) + Len(s)
         /\ ToSet(r \o s) = ToSet(r) \cup ToSet(s)
         /\ IsInjective(r) /\ IsInjective(s) /\ ToSet(r) \cap ToSet(s) = {} => IsInjective(r \o s)
  <1> DEFINE q == r \o s
  <1>1. /\ q \in Seq(S) /\ Len(q) = Len(r) + Len(s) /\ Len(r) \in Nat /\ Len(s) \in Nat
        /\ DOMAIN q = 1 .. Len(r) + Len(s) /\ DOMAIN r = 1 .. Len(r) /\ DOMAIN s = 1 .. Len(s)
        /\ \A i \in 1 .. Len(r) : q[i] = r[i]
        /\ \A i \in Len(r) + 1 .. Len(r) + Len(s) : q[i] = s[i - Len(r)]
    OBVIOUS
  <1> HIDE DEF q
  <1>2. \A i \in 1 .. Len(s) : q[i + Len(r)] = s[i] /\ i + Len(r) \in 1 .. Len(r) + Len(s)
    BY <1>1
  <1>3. \A i \in DOMAIN q : i \in DOMAIN r \/ i - Len(r) \in DOMAIN s
    BY <1>1
  <1>4. ToSet(q) = ToSet(r) \cup ToSet(s)
    <2>1. ToSet(q) \subseteq ToSet(r) \cup ToSet(s)
      BY <1>1, <1>3 DEF ToSet
    <2>2. ToSet(r) \subseteq ToSet(q)
      BY <1>1 DEF ToSet
    <2>3. ToSet(s) \subseteq ToSet(q)
      BY <1>1, <1>2 DEF ToSet
    <2> QED
      BY <2>1, <2>2, <2>3
  <1>5. ASSUME IsInjective(r), IsInjective(s), ToSet(r) \cap ToSet(s) = {} PROVE IsInjective(q)
    <2> SUFFICES ASSUME NEW i \in DOMAIN q, NEW j \in DOMAIN q, q[i] = q[j] PROVE i = j
      BY DEF IsInjective
    <2>1. CASE i \in DOMAIN r /\ j \in DOMAIN r
      BY <1>1, <1>5, <2>1 DEF IsInjective
    <2>2. CASE i \notin DOMAIN r /\ j \notin DOMAIN r
      <3>1. i - Len(r) \in DOMAIN s /\ j - Len(r) \in DOMAIN s
        BY <1>3, <2>2
      <3>2. s[i - Len(r)] = s[j - Len(r)]
        BY <1>1, <2>2
      <3> QED
        BY <1>1, <1>5, <3>1, <3>2 DEF IsInjective
    <2>3. CASE i \in DOMAIN r /\ j \notin DOMAIN r
      <3>1. q[i] \in ToSet(r) /\ q[j] \in ToSet(s)
        BY <1>1, <1>3, <2>3 DEF ToSet
      <3> QED
        BY <1>5, <3>1
    <2>4. CASE i \notin DOMAIN r /\ j \in DOMAIN r
      <3>1. q[j] \in ToSet(r) /\ q[i] \in ToSet(s)
        BY <1>1, <1>3, <2>4 DEF ToSet
      <3> QED
        BY <1>5, <3>1
    <2> QED
      BY <2>1, <2>2, <2>3, <2>4
  <1> QED
    BY <1>1, <1>4, <1>5 DEF q

\* One at the head.
LEMMA PushHead ==
  ASSUME NEW S, NEW s \in Seq(S), NEW a \in S
  PROVE  /\ <<a>> \o s \in Seq(S) /\ Len(<<a>> \o s) = Len(s) + 1 /\ <<a>> \o s # <<>>
         /\ ToSet(<<a>> \o s) = ToSet(s) \cup {a}
         /\ IsInjective(s) /\ a \notin ToSet(s) => IsInjective(<<a>> \o s)
  <1>1. PICK r : r = <<a>>
    OBVIOUS
  <1>2. r \in Seq(S) /\ ToSet(r) = {a} /\ IsInjective(r) /\ Len(r) = 1
    BY <1>1, OneSeq
  <1>3. /\ r \o s \in Seq(S) /\ Len(r \o s) = Len(r) + Len(s)
        /\ ToSet(r \o s) = ToSet(r) \cup ToSet(s)
        /\ IsInjective(r) /\ IsInjective(s) /\ ToSet(r) \cap ToSet(s) = {} => IsInjective(r \o s)
    BY <1>2, Splice
  <1>4. Len(s) \in Nat /\ (r \o s = <<>> <=> Len(r \o s) = 0)
    BY <1>3, SeqFacts
  <1> QED
    BY <1>1, <1>2, <1>3, <1>4

\* A chain read from its other end.
LEMMA Reversed ==
  ASSUME NEW S, NEW s \in Seq(S)
  PROVE  /\ Reverse(s) \in Seq(S) /\ Len(Reverse(s)) = Len(s)
         /\ ToSet(Reverse(s)) = ToSet(s)
         /\ IsInjective(s) => IsInjective(Reverse(s))
  <1> DEFINE r == Reverse(s)
             n == Len(s)
  <1>1. n \in Nat /\ DOMAIN s = 1 .. n /\ \A i \in 1 .. n : s[i] \in S
    OBVIOUS
  <1>2. r = [i \in 1 .. n |-> s[(n - i) + 1]]
    BY DEF Reverse
  <1>3. \A i \in 1 .. n : (n - i) + 1 \in 1 .. n /\ (n - ((n - i) + 1)) + 1 = i
    BY <1>1
  <1>4. r \in [1 .. n -> S]
    BY <1>1, <1>2, <1>3
  <1>5. r \in Seq(S) /\ Len(r) = n /\ DOMAIN r = 1 .. n
    BY <1>1, <1>4
  <1>6. \A i \in 1 .. n : r[i] = s[(n - i) + 1]
    BY <1>2
  <1> HIDE DEF r, n
  <1>7. \A i \in 1 .. n : s[i] = r[(n - i) + 1]
    BY <1>3, <1>6
  <1>8. ToSet(r) = ToSet(s)
    <2>1. ToSet(r) \subseteq ToSet(s)
      BY <1>1, <1>3, <1>5, <1>6 DEF ToSet
    <2>2. ToSet(s) \subseteq ToSet(r)
      BY <1>1, <1>3, <1>5, <1>7 DEF ToSet
    <2> QED
      BY <2>1, <2>2
  <1>9. ASSUME IsInjective(s) PROVE IsInjective(r)
    <2> SUFFICES ASSUME NEW i \in 1 .. n, NEW j \in 1 .. n, r[i] = r[j] PROVE i = j
      BY <1>5 DEF IsInjective
    <2>1. (n - i) + 1 = (n - j) + 1
      BY <1>1, <1>3, <1>6, <1>9 DEF IsInjective
    <2> QED
      BY <1>1, <2>1
  <1> QED
    BY <1>5, <1>8, <1>9 DEF r, n

\* munlink_partial takes the one span off the list.
LEMMA UnlinkFacts ==
  ASSUME NEW b, partial \in Seq(Base), IsInjective(partial)
  PROVE  /\ Unlinked(b) \in Seq(Base) /\ IsInjective(Unlinked(b))
         /\ ToSet(Unlinked(b)) = ToSet(partial) \ {b}
  <1>1. CASE ~Contains(partial, b)
    BY <1>1, OnList DEF Unlinked
  <1>2. CASE Contains(partial, b)
    <2> DEFINE s == partial
               n == Len(partial)
               k == CHOOSE i \in DOMAIN partial : partial[i] = b
               p == SubSeq(s, 1, k - 1)
               q == SubSeq(s, k + 1, n)
    <2>1. n \in Nat /\ DOMAIN s = 1 .. n /\ \A i \in 1 .. n : s[i] \in Base
      OBVIOUS
    <2>2. k \in 1 .. n /\ s[k] = b
      <3>1. \E i \in DOMAIN s : s[i] = b
        BY <1>2, <2>1 DEF Contains
      <3> QED
        BY <2>1, <3>1
    <2>3. Unlinked(b) = p \o q
      BY <1>2 DEF Unlinked, RemoveAt
    <2> HIDE DEF k, s, n
    <2>4. /\ p \in Seq(Base) /\ Len(p) = k - 1 /\ DOMAIN p = 1 .. k - 1
          /\ \A i \in 1 .. k - 1 : p[i] = s[i]
      BY <2>1, <2>2 DEF s, n
    <2>5. /\ q \in Seq(Base) /\ Len(q) = n - k /\ DOMAIN q = 1 .. n - k
          /\ \A i \in 1 .. n - k : q[i] = s[k + i]
      <3>1. k + 1 \in 1 .. n + 1 /\ n - (k + 1) + 1 = n - k
        BY <2>1, <2>2
      <3>2. /\ q \in Seq(Base) /\ Len(q) = n - k /\ DOMAIN q = 1 .. n - k
            /\ \A i \in 1 .. n - k : q[i] = s[(k + 1) + i - 1]
        <4>1. k + 1 \in Int /\ n \in Int /\ \A i \in k + 1 .. n : s[i] \in Base
          BY <2>1, <2>2
        <4>2. /\ q \in Seq(Base) /\ Len(q) = IF k + 1 <= n THEN n - (k + 1) + 1 ELSE 0
              /\ \A i \in 1 .. n - (k + 1) + 1 : q[i] = s[(k + 1) + i - 1]
          BY <4>1, SubSeqProperties
        <4> HIDE DEF q
        <4>3. Len(q) = n - k
          BY <2>1, <2>2, <4>2
        <4> QED
          BY <3>1, <4>2, <4>3
      <3>3. \A i \in 1 .. n - k : (k + 1) + i - 1 = k + i
        BY <2>1, <2>2
      <3> QED
        BY <3>2, <3>3
    <2> HIDE DEF p, q
    <2>6. IsInjective(s)
      BY DEF s
    <2>7. IsInjective(p)
      BY <2>1, <2>2, <2>4, <2>6 DEF IsInjective
    <2>8. IsInjective(q)
      <3> SUFFICES ASSUME NEW i \in 1 .. n - k, NEW j \in 1 .. n - k, q[i] = q[j] PROVE i = j
        BY <2>5 DEF IsInjective
      <3>1. k + i \in DOMAIN s /\ k + j \in DOMAIN s /\ s[k + i] = s[k + j]
        BY <2>1, <2>2, <2>5
      <3>2. k + i = k + j
        BY <2>6, <3>1 DEF IsInjective
      <3> QED
        BY <2>1, <2>2, <3>2
    <2>9. ToSet(p) \cap ToSet(q) = {}
      <3> SUFFICES ASSUME NEW i \in 1 .. k - 1, NEW j \in 1 .. n - k, p[i] = q[j] PROVE FALSE
        BY <2>4, <2>5 DEF ToSet
      <3>1. i \in DOMAIN s /\ k + j \in DOMAIN s /\ s[i] = s[k + j]
        BY <2>1, <2>2, <2>4, <2>5
      <3>2. i = k + j
        BY <2>6, <3>1 DEF IsInjective
      <3> QED
        BY <2>1, <2>2, <3>2
    <2>10. ToSet(p) \cup ToSet(q) \subseteq ToSet(s) \ {b}
      <3>1. ASSUME NEW i \in 1 .. k - 1 PROVE p[i] \in ToSet(s) \ {b}
        <4>1. i \in DOMAIN s /\ i # k /\ k \in DOMAIN s /\ p[i] = s[i]
          BY <2>1, <2>2, <2>4
        <4> QED
          BY <2>2, <2>6, <4>1 DEF IsInjective, ToSet
      <3>2. ASSUME NEW i \in 1 .. n - k PROVE q[i] \in ToSet(s) \ {b}
        <4>1. k + i \in DOMAIN s /\ k + i # k /\ k \in DOMAIN s /\ q[i] = s[k + i]
          BY <2>1, <2>2, <2>5
        <4> QED
          BY <2>2, <2>6, <4>1 DEF IsInjective, ToSet
      <3> QED
        BY <2>4, <2>5, <3>1, <3>2 DEF ToSet
    <2>11. ToSet(s) \ {b} \subseteq ToSet(p) \cup ToSet(q)
      <3> SUFFICES ASSUME NEW i \in 1 .. n, i # k PROVE s[i] \in ToSet(p) \cup ToSet(q)
        BY <2>1, <2>2 DEF ToSet
      <3>1. CASE i < k
        <4>1. i \in DOMAIN p /\ p[i] = s[i]
          BY <2>1, <2>2, <2>4, <3>1
        <4> QED
          BY <4>1 DEF ToSet
      <3>2. CASE i > k
        <4>1. i - k \in DOMAIN q /\ q[i - k] = s[k + (i - k)] /\ k + (i - k) = i
          BY <2>1, <2>2, <2>5, <3>2
        <4> QED
          BY <4>1 DEF ToSet
      <3> QED
        BY <2>1, <2>2, <3>1, <3>2
    <2> QED
      BY <2>3, <2>4, <2>5, <2>7, <2>8, <2>9, <2>10, <2>11, Splice DEF s
  <1> QED
    BY <1>1, <1>2

-----------------------------------------------------------------------------
(* Spans and their blocks. *)

\* The addresses of a span.
LEMMA SpanFacts ==
  ASSUME NEW b \in Base
  PROVE  /\ b \in Nat /\ SpanLen \in Nat /\ SpanLen > 1
         /\ BlocksOf(b) \subseteq Extent(b) /\ Extent(b) \subseteq Addr
         /\ IsFiniteSet(BlocksOf(b)) /\ Cardinality(BlocksOf(b)) = SpanLen - 1
         /\ BlocksOf(b) # {}
  <1>1. b \in Nat /\ SpanLen \in Nat /\ SpanLen > 1
    BY SpanHeapAssumption
  <1>2. BlocksOf(b) \subseteq Extent(b) /\ b + 1 \in BlocksOf(b)
    BY <1>1 DEF BlocksOf, Extent
  <1>3. Extent(b) \subseteq Addr
    BY DEF Addr
  <1>4. b + 1 \in Int /\ b + SpanLen - 1 \in Int /\ ~(b + 1 > b + SpanLen - 1)
        /\ (b + SpanLen - 1) - (b + 1) + 1 = SpanLen - 1
    BY <1>1
  <1>5. IsFiniteSet(BlocksOf(b)) /\ Cardinality(BlocksOf(b)) = SpanLen - 1
    BY <1>4, FS_Interval DEF BlocksOf
  <1> QED
    BY <1>1, <1>2, <1>3, <1>5

\* A chain without repetitions has as many blocks as its length says.
LEMMA ChainCount ==
  ASSUME NEW S, NEW s \in Seq(S), IsInjective(s)
  PROVE  IsFiniteSet(ToSet(s)) /\ Cardinality(ToSet(s)) = Len(s)
  <1>1. Len(s) \in Nat /\ DOMAIN s = 1 .. Len(s)
    OBVIOUS
  <1>2. s \in [1 .. Len(s) -> ToSet(s)]
    BY <1>1 DEF ToSet
  <1>3. \A e \in ToSet(s) : \E i \in 1 .. Len(s) : s[i] = e
    BY <1>1 DEF ToSet
  <1>4. s \in Bijection(1 .. Len(s), ToSet(s))
    BY <1>2, <1>3 DEF Bijection, Injection, Surjection
  <1>5. ExistsBijection(1 .. Len(s), ToSet(s))
    BY <1>4 DEF ExistsBijection
  <1> QED
    BY <1>1, <1>5, FS_NatBijection, FS_CountingElements

\* A chain of blocks of one span is no longer than the span, and holds all of
\* the span's blocks when it is as long.
LEMMA ChainFits ==
  ASSUME NEW b \in Base, NEW s \in Seq(Addr), IsInjective(s), ToSet(s) \subseteq BlocksOf(b)
  PROVE  /\ Len(s) <= SpanLen - 1
         /\ Len(s) = SpanLen - 1 <=> ToSet(s) = BlocksOf(b)
  <1>1. IsFiniteSet(ToSet(s)) /\ Cardinality(ToSet(s)) = Len(s)
    BY ChainCount
  <1>2. IsFiniteSet(BlocksOf(b)) /\ Cardinality(BlocksOf(b)) = SpanLen - 1
    BY SpanFacts
  <1> QED
    BY <1>1, <1>2, FS_Subset

\* init carves every block of the span.
LEMMA CarvedFacts ==
  ASSUME NEW b \in Base
  PROVE  /\ Carved(b) \in Seq(Addr) /\ Len(Carved(b)) = SpanLen - 1
         /\ ToSet(Carved(b)) = BlocksOf(b) /\ IsInjective(Carved(b))
         /\ Carved(b) # <<>>
  <1> DEFINE n == SpanLen - 1
             s == Carved(b)
  <1>1. b \in Nat /\ SpanLen \in Nat /\ SpanLen > 1 /\ n \in Nat
    BY SpanFacts
  <1>2. s = [i \in 1 .. n |-> b + SpanLen - i]
    BY DEF Carved
  <1>3. \A i \in 1 .. n : b + SpanLen - i \in BlocksOf(b)
    BY <1>1 DEF BlocksOf
  <1>4. s \in [1 .. n -> Addr]
    BY <1>2, <1>3, SpanFacts
  <1>5. s \in Seq(Addr) /\ Len(s) = n /\ DOMAIN s = 1 .. n
    BY <1>1, <1>4
  <1>6. \A i \in 1 .. n : s[i] = b + SpanLen - i
    BY <1>2
  <1> HIDE DEF s
  <1>7. IsInjective(s)
    BY <1>1, <1>5, <1>6 DEF IsInjective
  <1>8. ToSet(s) \subseteq BlocksOf(b)
    BY <1>3, <1>5, <1>6 DEF ToSet
  <1>9. ToSet(s) = BlocksOf(b)
    BY <1>5, <1>7, <1>8, ChainFits
  <1>10. s # <<>>
    BY <1>1, <1>5
  <1> QED
    BY <1>5, <1>7, <1>9, <1>10 DEF s

\* An address lies in at most one mapped span, the one Of finds.
LEMMA OfFacts ==
  ASSUME NEW b \in mapped, NEW a \in BlocksOf(b), mapped \subseteq Base,
         \A c, d \in mapped : Extent(c) \cap Extent(d) # {} => c = d
  PROVE  /\ Of(a) = b
         /\ \A c \in mapped : a \in Extent(c) => c = b
  <1>1. a \in Extent(b)
    BY SpanFacts
  <1>2. \A c \in mapped : a \in Extent(c) => c = b
    BY <1>1
  <1> HIDE DEF Extent
  <1> QED
    BY <1>1, <1>2 DEF Of

-----------------------------------------------------------------------------
(* Groups of blocks to be released. *)

\* No group, no block.
LEMMA NoGroups ==
  GroupBlocks(<<>>) = {} /\ GroupsExclusive(<<>>) /\ GroupsOwned(<<>>)
  <1>1. DOMAIN <<>> = {}
    OBVIOUS
  <1> QED
    BY <1>1, Zenon DEF GroupBlocks, GroupsExclusive, GroupsOwned

\* One group.
LEMMA OneGroup ==
  ASSUME NEW b \in Base, NEW s \in Seq(Addr), NEW g, g = <<[span |-> b, blocks |-> s]>>
  PROVE  /\ g \in Seq(Group) /\ g # <<>>
         /\ GroupBlocks(g) = ToSet(s)
         /\ IsInjective(s) => GroupsExclusive(g)
         /\ b \in mapped /\ s # <<>> /\ ToSet(s) \subseteq BlocksOf(b) => GroupsOwned(g)
  <1>1. [span |-> b, blocks |-> s] \in Group
    BY DEF Group
  <1>2. g \in Seq(Group) /\ g # <<>> /\ DOMAIN g = {1} /\ g[1].span = b /\ g[1].blocks = s
    <2>1. g \in Seq(Group) /\ Len(g) = 1 /\ g[1] = [span |-> b, blocks |-> s]
      BY <1>1, OneSeq
    <2>2. g # <<>> /\ DOMAIN g = {1}
      BY <2>1
    <2> QED
      BY <2>1, <2>2
  <1>3. GroupBlocks(g) = ToSet(s)
    BY <1>2 DEF GroupBlocks
  <1>4. IsInjective(s) => GroupsExclusive(g)
    BY <1>2 DEF GroupsExclusive
  <1>5. b \in mapped /\ s # <<>> /\ ToSet(s) \subseteq BlocksOf(b) => GroupsOwned(g)
    BY <1>2 DEF GroupsOwned
  <1> QED
    BY <1>2, <1>3, <1>4, <1>5

\* The fields of a group.
LEMMA GroupFacts ==
  ASSUME NEW g \in Seq(Group)
  PROVE  /\ Len(g) \in Nat /\ DOMAIN g = 1 .. Len(g)
         /\ \A i \in DOMAIN g : /\ g[i] \in Group /\ g[i].span \in Base /\ g[i].blocks \in Seq(Addr)
                                /\ ToSet(g[i].blocks) \subseteq GroupBlocks(g)
         /\ GroupBlocks(g) \subseteq Addr
  <1>1. Len(g) \in Nat /\ DOMAIN g = 1 .. Len(g) /\ \A i \in DOMAIN g : g[i] \in Group
    OBVIOUS
  <1>2. \A x \in Group : x.span \in Base /\ x.blocks \in Seq(Addr)
    BY DEF Group
  <1>3. \A i \in DOMAIN g : ToSet(g[i].blocks) \subseteq GroupBlocks(g)
    BY DEF GroupBlocks
  <1>4. \A i \in DOMAIN g : ToSet(g[i].blocks) \subseteq Addr
    BY <1>1, <1>2, SeqFacts
  <1>5. GroupBlocks(g) \subseteq Addr
    BY <1>4 DEF GroupBlocks
  <1> QED
    BY <1>1, <1>2, <1>3, <1>5

\* flush_mbin adds a block to the group of its master.
LEMMA GroupedFacts ==
  ASSUME NEW g \in Seq(Group), NEW a \in Addr, a \notin GroupBlocks(g),
         mapped \subseteq Base, Of(a) \in mapped, a \in BlocksOf(Of(a)),
         GroupsExclusive(g), GroupsOwned(g),
         NEW h, h = Grouped(g, a)
  PROVE  /\ h \in Seq(Group) /\ h # <<>>
         /\ GroupBlocks(h) = GroupBlocks(g) \cup {a}
         /\ GroupsExclusive(h) /\ GroupsOwned(h)
  <1> DEFINE n == Len(g)
             b == Of(a)
  <1>1. /\ n \in Nat /\ DOMAIN g = 1 .. n
        /\ \A i \in 1 .. n : /\ g[i] \in Group /\ g[i].span \in Base /\ g[i].blocks \in Seq(Addr)
                             /\ ToSet(g[i].blocks) \subseteq GroupBlocks(g)
    BY GroupFacts
  <1>2. b \in Base /\ b \in mapped /\ a \in BlocksOf(b)
    OBVIOUS
  <1> HIDE DEF b
  <1>3. CASE \E i \in 1 .. n : g[i].span = b
    <2>1. PICK k \in 1 .. n : g[k].span = b
      BY <1>3
    <2>2. \A i \in 1 .. n : g[i].span = b <=> i = k
      BY <1>1, <2>1 DEF GroupsOwned
    <2> DEFINE s == Append(g[k].blocks, a)
    <2>3. /\ s \in Seq(Addr) /\ s # <<>> /\ ToSet(s) = ToSet(g[k].blocks) \cup {a}
          /\ IsInjective(g[k].blocks) /\ a \notin ToSet(g[k].blocks) => IsInjective(s)
      BY <1>1, PushTop
    <2>4. h = [i \in 1 .. n |-> IF g[i].span = b THEN [g[i] EXCEPT !.blocks = Append(@, a)] ELSE g[i]]
      BY <1>1, <1>3 DEF Grouped, b
    <2>5. \A i \in 1 .. n : i # k => h[i] = g[i]
      BY <2>2, <2>4
    <2>6. h[k] = [g[k] EXCEPT !.blocks = s]
      BY <2>2, <2>4
    <2>7. h[k].span = b /\ h[k].blocks = s /\ h[k] \in Group
      BY <1>1, <2>1, <2>3, <2>6 DEF Group
    <2> HIDE DEF s
    <2>8. DOMAIN h = 1 .. n /\ h \in [1 .. n -> Group]
      BY <1>1, <2>4, <2>5, <2>7
    <2>9. h \in Seq(Group) /\ h # <<>>
      <3>1. h \in Seq(Group) /\ Len(h) = n
        BY <1>1, <2>8
      <3> QED
        BY <1>1, <2>1, <3>1
    <2>10. GroupBlocks(h) = GroupBlocks(g) \cup {a}
      <3>1. ASSUME NEW x \in GroupBlocks(h) PROVE x \in GroupBlocks(g) \cup {a}
        <4>1. PICK i \in 1 .. n : x \in ToSet(h[i].blocks)
          BY <2>8 DEF GroupBlocks
        <4> QED
          BY <1>1, <2>3, <2>5, <2>7, <4>1
      <3>2. ASSUME NEW x \in GroupBlocks(g) PROVE x \in GroupBlocks(h)
        <4>1. PICK i \in 1 .. n : x \in ToSet(g[i].blocks)
          BY <1>1 DEF GroupBlocks
        <4>2. x \in ToSet(h[i].blocks)
          BY <2>3, <2>5, <2>7, <4>1
        <4> QED
          BY <2>8, <4>2 DEF GroupBlocks
      <3>3. a \in GroupBlocks(h)
        BY <2>3, <2>7, <2>8 DEF GroupBlocks
      <3> QED
        BY <3>1, <3>2, <3>3
    <2>11. \A i \in 1 .. n : a \notin ToSet(g[i].blocks) /\ IsInjective(g[i].blocks)
      BY <1>1 DEF GroupsExclusive
    <2>12. GroupsExclusive(h)
      <3>1. \A i \in 1 .. n : IsInjective(h[i].blocks)
        BY <2>3, <2>5, <2>7, <2>11
      <3>2. ASSUME NEW i \in 1 .. n, NEW j \in 1 .. n, i # j
            PROVE  ToSet(h[i].blocks) \cap ToSet(h[j].blocks) = {}
        <4>1. ToSet(g[i].blocks) \cap ToSet(g[j].blocks) = {}
          BY <1>1, <3>2 DEF GroupsExclusive
        <4>2. CASE i # k /\ j # k
          BY <2>5, <4>1, <4>2
        <4>3. CASE i = k /\ j # k
          BY <2>3, <2>5, <2>7, <2>11, <4>1, <4>3
        <4>4. CASE i # k /\ j = k
          BY <2>3, <2>5, <2>7, <2>11, <4>1, <4>4
        <4> QED
          BY <3>2, <4>2, <4>3, <4>4
      <3> QED
        BY <2>8, <3>1, <3>2 DEF GroupsExclusive
    <2>13. GroupsOwned(h)
      <3>1. ASSUME NEW i \in 1 .. n
            PROVE  h[i].span \in mapped /\ h[i].blocks # <<>> /\ ToSet(h[i].blocks) \subseteq BlocksOf(h[i].span)
                   /\ h[i].span = g[i].span
        <4>1. g[i].span \in mapped /\ g[i].blocks # <<>> /\ ToSet(g[i].blocks) \subseteq BlocksOf(g[i].span)
          BY <1>1 DEF GroupsOwned
        <4>2. CASE i # k
          BY <2>5, <4>1, <4>2
        <4>3. CASE i = k
          BY <1>2, <2>1, <2>3, <2>7, <4>1, <4>3
        <4> QED
          BY <4>2, <4>3
      <3>2. \A i, j \in 1 .. n : h[i].span = h[j].span => i = j
        BY <1>1, <3>1 DEF GroupsOwned
      <3> QED
        BY <2>8, <3>1, <3>2 DEF GroupsOwned
    <2> QED
      BY <2>9, <2>10, <2>12, <2>13
  <1>4. CASE ~(\E i \in 1 .. n : g[i].span = b)
    <2> DEFINE x == [span |-> b, blocks |-> <<a>>]
    <2>1. h = Append(g, x)
      BY <1>1, <1>4 DEF Grouped, b
    <2>2. x.span = b /\ x.blocks = <<a>> /\ x \in Group
      BY <1>2 DEF Group
    <2> HIDE DEF x
    <2>3. <<a>> # <<>> /\ ToSet(<<a>>) = {a} /\ IsInjective(<<a>>)
      BY OneSeq
    <2>4. /\ h \in Seq(Group) /\ h # <<>> /\ Len(h) = n + 1
          /\ \A i \in 1 .. n : h[i] = g[i]
          /\ h[n + 1] = x
      BY <2>1, <2>2, PushTop
    <2>5. DOMAIN h = 1 .. n + 1
      BY <2>4
    <2>6. \A i \in DOMAIN h : (i \in 1 .. n /\ i # n + 1 /\ h[i] = g[i]) \/ (i = n + 1 /\ h[i] = x)
      BY <1>1, <2>4, <2>5
    <2>7. 1 .. n \subseteq DOMAIN h /\ n + 1 \in DOMAIN h
      BY <1>1, <2>5
    <2>8. GroupBlocks(h) = GroupBlocks(g) \cup {a}
      <3>1. ASSUME NEW y \in GroupBlocks(h) PROVE y \in GroupBlocks(g) \cup {a}
        <4>1. PICK i \in DOMAIN h : y \in ToSet(h[i].blocks)
          BY DEF GroupBlocks
        <4> QED
          BY <1>1, <2>2, <2>3, <2>6, <4>1
      <3>2. ASSUME NEW y \in GroupBlocks(g) PROVE y \in GroupBlocks(h)
        <4>1. PICK i \in 1 .. n : y \in ToSet(g[i].blocks)
          BY <1>1 DEF GroupBlocks
        <4> QED
          BY <2>4, <2>7, <4>1 DEF GroupBlocks
      <3>3. a \in GroupBlocks(h)
        <4>1. a \in ToSet(h[n + 1].blocks)
          BY <2>2, <2>3, <2>4
        <4> QED
          BY <2>7, <4>1 DEF GroupBlocks
      <3> QED
        BY <3>1, <3>2, <3>3
    <2>9. GroupsExclusive(h)
      <3>1. \A i \in 1 .. n : a \notin ToSet(g[i].blocks) /\ IsInjective(g[i].blocks)
        BY <1>1 DEF GroupsExclusive
      <3>2. \A i \in DOMAIN h : IsInjective(h[i].blocks)
        BY <2>2, <2>3, <2>6, <3>1
      <3>3. ASSUME NEW i \in DOMAIN h, NEW j \in DOMAIN h, i # j
            PROVE  ToSet(h[i].blocks) \cap ToSet(h[j].blocks) = {}
        <4>1. CASE i \in 1 .. n /\ h[i] = g[i] /\ j \in 1 .. n /\ h[j] = g[j]
          BY <1>1, <3>3, <4>1 DEF GroupsExclusive
        <4>2. CASE i \in 1 .. n /\ h[i] = g[i] /\ h[j] = x
          BY <2>2, <2>3, <3>1, <4>2
        <4>3. CASE h[i] = x /\ j \in 1 .. n /\ h[j] = g[j]
          BY <2>2, <2>3, <3>1, <4>3
        <4> QED
          BY <2>6, <3>3, <4>1, <4>2, <4>3
      <3> QED
        BY <3>2, <3>3 DEF GroupsExclusive
    <2>10. GroupsOwned(h)
      <3>1. \A i \in 1 .. n : /\ g[i].span \in mapped /\ g[i].blocks # <<>>
                              /\ ToSet(g[i].blocks) \subseteq BlocksOf(g[i].span) /\ g[i].span # b
        BY <1>1, <1>4 DEF GroupsOwned
      <3>2. \A i, j \in 1 .. n : g[i].span = g[j].span => i = j
        BY <1>1 DEF GroupsOwned
      <3>3. \A i \in DOMAIN h : h[i].span \in mapped /\ h[i].blocks # <<>> /\ ToSet(h[i].blocks) \subseteq BlocksOf(h[i].span)
        BY <1>2, <2>2, <2>3, <2>6, <3>1
      <3>4. \A i, j \in DOMAIN h : h[i].span = h[j].span => i = j
        BY <2>2, <2>6, <3>1, <3>2
      <3> QED
        BY <3>3, <3>4 DEF GroupsOwned
    <2> QED
      BY <2>4, <2>8, <2>9, <2>10
  <1> QED
    BY <1>3, <1>4

\* The groups that are left when the first one is back.
LEMMA RestGroups ==
  ASSUME NEW g \in Seq(Group), g # <<>>, GroupsExclusive(g), GroupsOwned(g)
  PROVE  /\ g[1].span \in Base /\ g[1].span \in mapped
         /\ g[1].blocks \in Seq(Addr) /\ g[1].blocks # <<>> /\ IsInjective(g[1].blocks)
         /\ ToSet(g[1].blocks) \subseteq BlocksOf(g[1].span)
         /\ ToSet(g[1].blocks) \subseteq GroupBlocks(g)
         /\ Tail(g) \in Seq(Group)
         /\ GroupBlocks(Tail(g)) = GroupBlocks(g) \ ToSet(g[1].blocks)
         /\ GroupsExclusive(Tail(g)) /\ GroupsOwned(Tail(g))
         /\ \A i \in DOMAIN Tail(g) : Tail(g)[i].span # g[1].span
  <1> DEFINE h == Tail(g)
             n == Len(g)
  <1>1. /\ h \in Seq(Group) /\ Len(h) = n - 1 /\ n > 0
        /\ \A i \in 1 .. n - 1 : h[i] = g[i + 1]
    BY PopHead
  <1>2. n \in Nat /\ DOMAIN g = 1 .. n /\ 1 \in DOMAIN g
    BY <1>1
  <1>3. DOMAIN h = 1 .. n - 1
    BY <1>1, <1>2
  <1> HIDE DEF h
  <1>4. \A i \in DOMAIN h : i + 1 \in DOMAIN g /\ i + 1 # 1 /\ h[i] = g[i + 1]
    BY <1>1, <1>2, <1>3
  <1>5. \A i \in DOMAIN g : i = 1 \/ (i - 1 \in DOMAIN h /\ h[i - 1] = g[i])
    BY <1>1, <1>2, <1>3
  <1>6. GroupBlocks(h) = GroupBlocks(g) \ ToSet(g[1].blocks)
    <2>1. ASSUME NEW y \in GroupBlocks(h) PROVE y \in GroupBlocks(g) \ ToSet(g[1].blocks)
      <3>1. PICK i \in DOMAIN h : y \in ToSet(h[i].blocks)
        BY DEF GroupBlocks
      <3>2. y \in ToSet(g[i + 1].blocks) /\ i + 1 \in DOMAIN g /\ i + 1 # 1
        BY <1>4, <3>1
      <3> QED
        BY <1>2, <3>2 DEF GroupBlocks, GroupsExclusive
    <2>2. ASSUME NEW y \in GroupBlocks(g), y \notin ToSet(g[1].blocks) PROVE y \in GroupBlocks(h)
      <3>1. PICK i \in DOMAIN g : y \in ToSet(g[i].blocks)
        BY DEF GroupBlocks
      <3>2. i - 1 \in DOMAIN h /\ y \in ToSet(h[i - 1].blocks)
        BY <1>5, <2>2, <3>1
      <3> QED
        BY <3>2 DEF GroupBlocks
    <2> QED
      BY <2>1, <2>2
  <1>7. GroupsExclusive(h)
    <2>1. \A i \in DOMAIN h : IsInjective(h[i].blocks)
      BY <1>4 DEF GroupsExclusive
    <2>2. ASSUME NEW i \in DOMAIN h, NEW j \in DOMAIN h, i # j
          PROVE  ToSet(h[i].blocks) \cap ToSet(h[j].blocks) = {}
      <3>1. i + 1 # j + 1
        BY <1>2, <1>3, <2>2
      <3> QED
        BY <1>4, <3>1 DEF GroupsExclusive
    <2> QED
      BY <2>1, <2>2 DEF GroupsExclusive
  <1>8. GroupsOwned(h)
    <2>1. \A i \in DOMAIN h : h[i].span \in mapped /\ h[i].blocks # <<>> /\ ToSet(h[i].blocks) \subseteq BlocksOf(h[i].span)
      BY <1>4 DEF GroupsOwned
    <2>2. ASSUME NEW i \in DOMAIN h, NEW j \in DOMAIN h, h[i].span = h[j].span
          PROVE  i = j
      <3>1. i + 1 = j + 1
        BY <1>4, <2>2 DEF GroupsOwned
      <3> QED
        BY <1>2, <1>3, <3>1
    <2> QED
      BY <2>1, <2>2 DEF GroupsOwned
  <1>9. \A i \in DOMAIN h : h[i].span # g[1].span
    BY <1>2, <1>4 DEF GroupsOwned
  <1>10. /\ g[1].span \in Base /\ g[1].blocks \in Seq(Addr)
         /\ ToSet(g[1].blocks) \subseteq GroupBlocks(g)
    BY <1>2, GroupFacts
  <1>11. /\ g[1].span \in mapped /\ g[1].blocks # <<>> /\ IsInjective(g[1].blocks)
         /\ ToSet(g[1].blocks) \subseteq BlocksOf(g[1].span)
    BY <1>2 DEF GroupsOwned, GroupsExclusive
  <1> QED
    BY <1>1, <1>6, <1>7, <1>8, <1>9, <1>10, <1>11 DEF h

-----------------------------------------------------------------------------
(* The lock and the locals. *)

\* The types of what belongs to one thread.
LEMMA ThreadTypes ==
  ASSUME TypeOK
  PROVE  /\ active \in [Thread -> [span : Base \cup {NoSpan}, chain : Seq(Addr), virgin : Nat]]
         /\ bin \in [Thread -> Seq(Addr)] /\ watermark \in [Thread -> Nat]
         /\ pc \in [Thread -> PcLabels] /\ mode \in [Thread -> {"cache", "direct", "exit"}]
         /\ chain \in [Thread -> Seq(Addr)] /\ virgin \in [Thread -> BOOLEAN]
         /\ own \in [Thread -> SUBSET Base] /\ rel \in [Thread -> Seq(Group)]
         /\ popped \in [Thread -> Nat] /\ floor \in [Thread -> Nat]
  BY DEF TypeOK

\* The fields of an active span.
LEMMA ActiveTypes ==
  ASSUME TypeOK, NEW t \in Thread
  PROVE  /\ active[t].span \in Base \cup {NoSpan} /\ active[t].chain \in Seq(Addr)
         /\ active[t].virgin \in Nat
  <1>1. active[t] \in [span : Base \cup {NoSpan}, chain : Seq(Addr), virgin : Nat]
    BY DEF TypeOK
  <1> QED
    BY <1>1

\* What a thread does to its cache and its locals leaves those of the others alone.
Others(t) ==
  \A u \in Thread : u # t =>
    /\ active'[u] = active[u] /\ bin'[u] = bin[u] /\ watermark'[u] = watermark[u]
    /\ pc'[u] = pc[u] /\ mode'[u] = mode[u] /\ chain'[u] = chain[u] /\ virgin'[u] = virgin[u]
    /\ own'[u] = own[u] /\ rel'[u] = rel[u] /\ floor'[u] = floor[u]

\* Every step of a thread is local to it.
LEMMA OthersStep ==
  ASSUME TypeOK, NEW t \in Thread, Call(t) \/ Continue(t)
  PROVE  Others(t)
  <1> USE ThreadTypes DEF Others, Goto, SetMode, cacheVars, takeVars, flushVars, localVars
  <1>1. CASE AllocActive(t)
    BY <1>1 DEF AllocActive
  <1>2. CASE AllocBin(t)
    BY <1>2 DEF AllocBin
  <1>3. CASE FlushAll(t)
    BY <1>3 DEF FlushAll, FlushActive
  <1>4. CASE Pressure(t)
    BY <1>4 DEF Pressure
  <1>5. CASE FillBlock(t)
    BY <1>5 DEF FillBlock
  <1>6. CASE FillDone(t)
    BY <1>6 DEF FillDone, Finish, Return
  <1>7. CASE MapSpan(t)
    BY <1>7 DEF MapSpan
  <1>8. CASE MapFails(t)
    BY <1>8 DEF MapFails, Return
  <1>9. CASE LinkSpan(t)
    BY <1>9 DEF LinkSpan
  <1>10. CASE GiveBack(t)
    BY <1>10 DEF GiveBack
  <1>11. CASE Trim(t)
    BY <1>11 DEF Trim, FlushActive, Return
  <1>12. CASE FlushPop(t)
    BY <1>12 DEF FlushPop
  <1>13. CASE FlushDone(t)
    BY <1>13 DEF FlushDone, Return
  <1>14. CASE ReleaseGroup(t)
    BY <1>14 DEF ReleaseGroup, ReleaseInner, Park, Resume, Return
  <1>15. CASE UnmapSpan(t)
    BY <1>15 DEF UnmapSpan, Resume, Return
  <1>16. ASSUME NEW m \in {"cache", "direct"}, Take(t, m) PROVE Others(t)
    BY <1>16 DEF Take, BeginTake, TakePartial, TakeEmpty, TakeCold
  <1>17. ASSUME NEW m \in {"cache", "direct"}, TakeNothing(t, m) PROVE Others(t)
    BY <1>17 DEF TakeNothing, BeginTake
  <1>18. ASSUME NEW a \in live, Free(t, a) PROVE Others(t)
    BY <1>18 DEF Free
  <1>19. ASSUME NEW a \in live, FreeDirect(t, a) PROVE Others(t)
    BY <1>19 DEF FreeDirect
  <1> QED
    BY <1>1, <1>2, <1>3, <1>4, <1>5, <1>6, <1>7, <1>8, <1>9, <1>10, <1>11, <1>12, <1>13, <1>14,
       <1>15, <1>16, <1>17, <1>18, <1>19
    DEF Call, Continue

\* The lock is held exactly by a thread inside a critical section.
LEMMA LockStep ==
  ASSUME TypeOK, LockInv, NEW t \in Thread, Call(t) \/ Continue(t)
  PROVE  LockInv'
  <1>0. pc \in [Thread -> PcLabels] /\ NoThread \notin Thread
    BY SpanHeapAssumption DEF TypeOK
  <1> USE <1>0 DEF LockInv, Goto, Acquire, Release, localVars
  <1>1. CASE AllocActive(t)
    BY <1>1 DEF AllocActive
  <1>2. CASE AllocBin(t)
    BY <1>2 DEF AllocBin
  <1>3. CASE FlushAll(t)
    BY <1>3 DEF FlushAll, FlushActive
  <1>4. CASE Pressure(t)
    BY <1>4 DEF Pressure
  <1>5. CASE FillBlock(t)
    BY <1>5 DEF FillBlock
  <1>6. CASE FillDone(t)
    BY <1>6 DEF FillDone, Finish, Return
  <1>7. CASE MapSpan(t)
    BY <1>7 DEF MapSpan
  <1>8. CASE MapFails(t)
    BY <1>8 DEF MapFails, Return
  <1>9. CASE LinkSpan(t)
    BY <1>9 DEF LinkSpan
  <1>10. CASE GiveBack(t)
    BY <1>10 DEF GiveBack
  <1>11. CASE Trim(t)
    BY <1>11 DEF Trim, FlushActive, Return
  <1>12. CASE FlushPop(t)
    BY <1>12 DEF FlushPop
  <1>13. CASE FlushDone(t)
    BY <1>13 DEF FlushDone, Return
  <1>14. CASE ReleaseGroup(t)
    BY <1>14 DEF ReleaseGroup, ReleaseInner, Park, Resume, Return
  <1>15. CASE UnmapSpan(t)
    BY <1>15 DEF UnmapSpan, Resume, Return
  <1>16. ASSUME NEW m \in {"cache", "direct"}, Take(t, m) PROVE LockInv'
    BY <1>16 DEF Take, BeginTake, TakePartial, TakeEmpty, TakeCold
  <1>17. ASSUME NEW m \in {"cache", "direct"}, TakeNothing(t, m) PROVE LockInv'
    BY <1>17 DEF TakeNothing, BeginTake
  <1>18. ASSUME NEW a \in live, Free(t, a) PROVE LockInv'
    BY <1>18 DEF Free
  <1>19. ASSUME NEW a \in live, FreeDirect(t, a) PROVE LockInv'
    BY <1>19 DEF FreeDirect
  <1> QED
    BY <1>1, <1>2, <1>3, <1>4, <1>5, <1>6, <1>7, <1>8, <1>9, <1>10, <1>11, <1>12, <1>13, <1>14,
       <1>15, <1>16, <1>17, <1>18, <1>19
    DEF Call, Continue

\* A thread whose neighbours are left alone has to keep its own locals in order.
LEMMA LocalsFrame ==
  ASSUME LocalsInv, NEW t \in Thread, Others(t), LocalsOf(t)'
  PROVE  LocalsInv'
  <1> SUFFICES ASSUME NEW u \in Thread, u # t PROVE LocalsOf(u)'
    BY DEF LocalsInv
  <1>1. LocalsOf(u)
    BY DEF LocalsInv
  <1>2. /\ active'[u] = active[u] /\ bin'[u] = bin[u] /\ pc'[u] = pc[u] /\ mode'[u] = mode[u]
        /\ chain'[u] = chain[u] /\ own'[u] = own[u] /\ rel'[u] = rel[u] /\ floor'[u] = floor[u]
    BY DEF Others
  <1> QED
    BY <1>1, <1>2 DEF LocalsOf

\* A group for the block there is.
LEMMA GroupedSome ==
  ASSUME NEW g \in Seq(Group), NEW a
  PROVE  Grouped(g, a) # <<>>
  <1>1. CASE \E i \in DOMAIN g : g[i].span = Of(a)
    <2>1. DOMAIN Grouped(g, a) = DOMAIN g
      BY <1>1 DEF Grouped
    <2>2. DOMAIN <<>> = {}
      OBVIOUS
    <2> QED
      BY <1>1, <2>1, <2>2
  <1>2. CASE ~(\E i \in DOMAIN g : g[i].span = Of(a))
    <2> DEFINE x == [span |-> Of(a), blocks |-> <<a>>]
    <2>1. Grouped(g, a) = Append(g, x)
      BY <1>2 DEF Grouped
    <2>2. DOMAIN Append(g, x) = 1 .. Len(g) + 1 /\ Len(g) \in Nat
      BY GroupFacts
    <2>3. DOMAIN <<>> = {}
      OBVIOUS
    <2> QED
      BY <2>1, <2>2, <2>3
  <1> QED
    BY <1>1, <1>2

\* Which locals are in use at which step.
LEMMA LocalsStep ==
  ASSUME TypeOK, LocalsInv, FillInv, NEW t \in Thread, Call(t) \/ Continue(t)
  PROVE  LocalsInv'
  <1>0. LocalsOf(t)
    BY DEF LocalsInv
  <1> SUFFICES LocalsOf(t)'
    BY OthersStep, LocalsFrame
  <1>a. /\ pc \in [Thread -> PcLabels] /\ mode \in [Thread -> {"cache", "direct", "exit"}]
        /\ chain \in [Thread -> Seq(Addr)] /\ bin \in [Thread -> Seq(Addr)]
        /\ own \in [Thread -> SUBSET Base] /\ rel \in [Thread -> Seq(Group)]
        /\ floor \in [Thread -> Nat]
        /\ active \in [Thread -> [span : Base \cup {NoSpan}, chain : Seq(Addr), virgin : Nat]]
    BY DEF TypeOK
  <1> USE <1>0, <1>a DEF LocalsOf, PcLabels, Goto, SetMode, cacheVars, takeVars, flushVars, localVars
  <1>1. CASE AllocActive(t)
    BY <1>1 DEF AllocActive
  <1>2. CASE AllocBin(t)
    BY <1>2 DEF AllocBin
  <1>3. CASE FlushAll(t)
    <2>a. NoActive.chain = <<>>
      BY DEF NoActive
    <2>b. FlushActive(t) => active'[t] = NoActive /\ pc'[t] = "release" /\ rel'[t] # <<>>
      BY DEF FlushActive
    <2>1. mode'[t] = "exit" /\ chain'[t] = <<>> /\ own'[t] = {} /\ bin'[t] = bin[t]
      BY <1>3 DEF FlushAll
    <2>2. CASE FlushActive(t)
      BY <2>a, <2>b, <2>1, <2>2
    <2>3. CASE active[t].chain = <<>> /\ Goto(t, "flush") /\ UNCHANGED <<active, rel>>
      BY <1>3, <2>1, <2>3 DEF FlushAll
    <2> QED
      BY <1>3, <2>2, <2>3 DEF FlushAll
  <1>4. CASE Pressure(t)
    BY <1>4 DEF Pressure
  <1>5. CASE FillBlock(t)
    BY <1>5 DEF FillBlock
  <1>6. CASE FillDone(t)
    <2> DEFINE c == chain[t]
    <2>1. c \in Seq(Addr) /\ c # <<>>
      <3>1. partial # <<>> \/ c # <<>>
        BY <1>6 DEF FillDone, FillInv
      <3>2. Len(c) = RefillBatch => c # <<>>
        BY SpanHeapAssumption
      <3> QED
        BY <1>6, <3>1, <3>2 DEF FillDone
    <2>2. Front(c) = <<>> <=> Len(c) = 1
      BY <2>1, PopLeaves
    <2>3. rel'[t] = <<>> /\ own'[t] = {}
      BY <1>6 DEF FillDone
    <2>4. CASE mode[t] = "direct"
      <3>1. /\ chain'[t] = Front(c)
            /\ IF Len(c) = 1 THEN Return(t) ELSE Goto(t, "giveback") /\ UNCHANGED mode
        BY <1>6, <2>4 DEF FillDone, Finish
      <3> QED
        BY <2>2, <2>3, <2>4, <3>1 DEF Return
    <2>5. CASE mode[t] = "cache"
      <3>1. chain'[t] = <<>> /\ pc'[t] = "idle" /\ mode'[t] = "cache"
        BY <1>6, <2>5 DEF FillDone, Finish, Return
      <3> QED
        BY <2>3, <3>1
    <2> QED
      BY <1>6, <2>4, <2>5 DEF FillDone
  <1>7. CASE MapSpan(t)
    BY <1>7 DEF MapSpan
  <1>8. CASE MapFails(t)
    BY <1>8 DEF MapFails, Return
  <1>9. CASE LinkSpan(t)
    BY <1>9 DEF LinkSpan
  <1>10. CASE GiveBack(t)
    BY <1>10 DEF GiveBack
  <1>11. CASE Trim(t)
    <2>a. NoActive.chain = <<>>
      BY DEF NoActive
    <2>b. FlushActive(t) => active'[t] = NoActive /\ pc'[t] = "release" /\ rel'[t] # <<>>
      BY DEF FlushActive
    <2>1. /\ chain'[t] = <<>> /\ own'[t] = {} /\ bin'[t] = bin[t] /\ mode[t] = "cache"
          /\ rel[t] = <<>>
      BY <1>11 DEF Trim
    <2>2. CASE FlushActive(t) /\ UNCHANGED mode
      BY <2>a, <2>b, <2>1, <2>2
    <2>3. CASE Goto(t, "flush") /\ UNCHANGED <<mode, active, rel>>
      BY <2>1, <2>3
    <2>4. CASE Return(t) /\ UNCHANGED <<active, rel>>
      BY <2>1, <2>4 DEF Return
    <2> QED
      BY <1>11, <2>2, <2>3, <2>4 DEF Trim
  <1>12. CASE FlushPop(t)
    <2>1. Grouped(rel[t], Last(bin[t])) # <<>>
      BY GroupedSome
    <2>2. /\ rel'[t] = Grouped(rel[t], Last(bin[t])) /\ bin'[t] = Front(bin[t]) /\ bin[t] \in Seq(Addr)
          /\ bin[t] # <<>>
          /\ pc'[t] = (IF Len(bin[t]) - 1 > floor[t] /\ popped[t] + 1 < FlushChunk THEN "flush" ELSE "release")
      BY <1>12 DEF FlushPop
    <2>3. Len(bin'[t]) = Len(bin[t]) - 1
      BY <2>2, PopTop
    <2>4. pc'[t] \in {"flush", "release"} /\ (pc'[t] = "flush" => Len(bin'[t]) > floor[t])
      BY <2>2, <2>3
    <2>5. /\ chain'[t] = chain[t] /\ mode'[t] = mode[t] /\ own'[t] = own[t] /\ active'[t] = active[t]
          /\ floor'[t] = floor[t] /\ pc[t] = "flush"
      BY <1>12 DEF FlushPop
    <2> QED
      BY <2>1, <2>2, <2>4, <2>5
  <1>13. CASE FlushDone(t)
    BY <1>13 DEF FlushDone, Return
  <1>14. CASE ReleaseGroup(t)
    BY <1>14 DEF ReleaseGroup, ReleaseInner, Park, Resume, Return
  <1>15. CASE UnmapSpan(t)
    BY <1>15 DEF UnmapSpan, Resume, Return
  <1>16. ASSUME NEW m \in {"cache", "direct"}, Take(t, m) PROVE LocalsOf(t)'
    <2>1. Exhausted(active[t]).chain = <<>> \/ m = "direct"
      BY <1>16 DEF Take, TakeNothing, BeginTake, Exhausted, NoActive
    <2>2. /\ active'[t] = (IF m = "cache" THEN Exhausted(active[t]) ELSE active[t])
          /\ bin'[t] = bin[t] /\ (m = "cache" => bin[t] = <<>>)
          /\ pc'[t] \in {"fill", "map"} /\ mode'[t] = m /\ pc[t] = "idle"
          /\ chain'[t] = chain[t] /\ rel'[t] = rel[t] /\ own'[t] = own[t]
      BY <1>16 DEF Take, TakeNothing, BeginTake
    <2> QED
      BY <2>1, <2>2
  <1>17. ASSUME NEW m \in {"cache", "direct"}, TakeNothing(t, m) PROVE LocalsOf(t)'
    <2>1. Exhausted(active[t]).chain = <<>> \/ m = "direct"
      BY <1>17 DEF Take, TakeNothing, BeginTake, Exhausted, NoActive
    <2>2. /\ active'[t] = (IF m = "cache" THEN Exhausted(active[t]) ELSE active[t])
          /\ bin'[t] = bin[t] /\ (m = "cache" => bin[t] = <<>>)
          /\ pc'[t] \in {"fill", "map"} /\ mode'[t] = m /\ pc[t] = "idle"
          /\ chain'[t] = chain[t] /\ rel'[t] = rel[t] /\ own'[t] = own[t]
      BY <1>17 DEF Take, TakeNothing, BeginTake
    <2> QED
      BY <2>1, <2>2
  <1>18. ASSUME NEW a \in live, Free(t, a) PROVE LocalsOf(t)'
    BY <1>18 DEF Free
  <1>19. ASSUME NEW a \in live, FreeDirect(t, a) PROVE LocalsOf(t)'
    BY <1>19 DEF FreeDirect
  <1> QED
    BY <1>1, <1>2, <1>3, <1>4, <1>5, <1>6, <1>7, <1>8, <1>9, <1>10, <1>11, <1>12, <1>13, <1>14,
       <1>15, <1>16, <1>17, <1>18, <1>19
    DEF Call, Continue

\* Only the holder of the lock takes spans from the partial list.
LEMMA FillStep ==
  ASSUME TypeOK, LockInv, FillInv, ListsInv, SpanInv, NEW t \in Thread, Call(t) \/ Continue(t)
  PROVE  FillInv'
  <1>0. /\ pc \in [Thread -> PcLabels] /\ chain \in [Thread -> Seq(Addr)] /\ NoThread \notin Thread
        /\ rel \in [Thread -> Seq(Group)]
        /\ partial \in Seq(Base) /\ free \in [Base -> Seq(Addr)]
    BY SpanHeapAssumption DEF TypeOK
  <1>l. \A u \in Thread : lock = u <=> pc[u] \in {"fill", "splice"}
    BY DEF LockInv
  <1>o. \A u \in Thread : u # t => pc'[u] = pc[u] /\ chain'[u] = chain[u]
    BY OthersStep DEF Others
  <1>q. ASSUME partial' = partial, pc'[t] = "fill" => pc[t] = "fill" /\ chain'[t] = chain[t] PROVE FillInv'
    BY <1>o, <1>q DEF FillInv
  <1> USE <1>0, <1>l DEF Goto, listVars, localVars, takeVars, PcLabels
  <1>1. CASE AllocActive(t)
    BY <1>1, <1>q DEF AllocActive
  <1>2. CASE AllocBin(t)
    BY <1>2, <1>q DEF AllocBin
  <1>3. CASE FlushAll(t)
    BY <1>3, <1>q DEF FlushAll, FlushActive
  <1>4. CASE Pressure(t)
    BY <1>4, <1>q DEF Pressure
  <1>5. CASE FillBlock(t)
    <2>1. \A u \in Thread : u # t => pc[u] # "fill"
      BY <1>5 DEF FillBlock
    <2>2. chain'[t] # <<>>
      BY <1>5, PushSome DEF FillBlock
    <2> QED
      BY <1>o, <2>1, <2>2 DEF FillInv
  <1>6. CASE FillDone(t)
    BY <1>6, <1>q DEF FillDone, Finish, Return
  <1>7. CASE MapSpan(t)
    BY <1>7, <1>q DEF MapSpan
  <1>8. CASE MapFails(t)
    BY <1>8, <1>q DEF MapFails, Return
  <1>9. CASE LinkSpan(t)
    <2>1. lock = NoThread
      BY <1>9 DEF LinkSpan, Acquire
    <2>2. \A u \in Thread : pc[u] # "fill"
      BY <2>1
    <2>3. partial' # <<>>
      <3>1. PICK b \in own[t] : partial' = <<b>> \o partial
        BY <1>9 DEF LinkSpan
      <3>2. b \in Base
        BY DEF TypeOK
      <3> QED
        BY <3>1, <3>2
    <2> QED
      BY <1>o, <2>2, <2>3 DEF FillInv
  <1>10. CASE GiveBack(t)
    BY <1>10, <1>q DEF GiveBack
  <1>11. CASE Trim(t)
    BY <1>11, <1>q DEF Trim, FlushActive, Return
  <1>12. CASE FlushPop(t)
    BY <1>12, <1>q DEF FlushPop
  <1>13. CASE FlushDone(t)
    BY <1>13, <1>q DEF FlushDone, Return
  <1>14. CASE ReleaseGroup(t)
    <2>1. \A u \in Thread : pc[u] # "fill"
      BY <1>14 DEF ReleaseGroup
    <2>2. pc'[t] # "fill"
      BY <1>14 DEF ReleaseGroup, Resume, Return
    <2> QED
      BY <1>o, <2>1, <2>2 DEF FillInv
  <1>15. CASE UnmapSpan(t)
    BY <1>15, <1>q DEF UnmapSpan, Resume, Return
  <1>16. ASSUME NEW m \in {"cache", "direct"}, Take(t, m) PROVE FillInv'
    <2>1. lock = NoThread
      BY <1>16 DEF Take, Acquire
    <2>2. \A u \in Thread : pc[u] # "fill"
      BY <2>1
    <2>3. partial' # <<>>
      BY <1>16, PushSome DEF Take, TakePartial, TakeEmpty, TakeCold
    <2> QED
      BY <1>o, <2>2, <2>3 DEF FillInv
  <1>17. ASSUME NEW m \in {"cache", "direct"}, TakeNothing(t, m) PROVE FillInv'
    BY <1>17, <1>q DEF TakeNothing, BeginTake
  <1>18. ASSUME NEW a \in live, Free(t, a) PROVE FillInv'
    BY <1>18, <1>q DEF Free
  <1>19. ASSUME NEW a \in live, FreeDirect(t, a) PROVE FillInv'
    BY <1>19, <1>q DEF FreeDirect
  <1> QED
    BY <1>1, <1>2, <1>3, <1>4, <1>5, <1>6, <1>7, <1>8, <1>9, <1>10, <1>11, <1>12, <1>13, <1>14,
       <1>15, <1>16, <1>17, <1>18, <1>19
    DEF Call, Continue

-----------------------------------------------------------------------------
(* Blocks change hands. *)

\* The master of a block that is out is found from the block's address.
LEMMA OwnerFound ==
  ASSUME TypeOK, MappedInv, NEW a \in Outside
  PROVE  /\ Of(a) \in mapped /\ Of(a) \in Base /\ a \in BlocksOf(Of(a)) /\ a \in Addr
         /\ \A b \in mapped : a \in Extent(b) => b = Of(a)
  <1>1. PICK b \in mapped : a \in BlocksOf(b)
    BY DEF MappedInv
  <1>2. mapped \subseteq Base
    BY DEF TypeOK
  <1>3. \A c, d \in mapped : Extent(c) \cap Extent(d) # {} => c = d
    BY DEF MappedInv
  <1>4. Of(a) = b /\ \A c \in mapped : a \in Extent(c) => c = b
    BY <1>1, <1>2, <1>3, OfFacts
  <1>5. a \in Addr
    BY <1>1, <1>2, SpanFacts
  <1> QED
    BY <1>1, <1>2, <1>4, <1>5

\* What a thread holds is out.
LEMMA CachedOut ==
  ASSUME NEW t \in Thread
  PROVE  /\ Cached(t) \subseteq Outside /\ live \subseteq Outside
         /\ ToSet(active[t].chain) \subseteq Outside /\ ToSet(bin[t]) \subseteq Outside
         /\ ToSet(chain[t]) \subseteq Outside /\ GroupBlocks(rel[t]) \subseteq Outside
  BY DEF Cached, Outside

\* A step of t after which no block is twice with t or the program, and which
\* takes no block from another thread.
LEMMA HandsFrame ==
  ASSUME HandsInv, NEW t \in Thread, Others(t),
         ThreadExclusive(t)', Cached(t)' \cap live' = {},
         (Cached(t)' \cup live') \cap Outside \subseteq Cached(t) \cup live
  PROVE  /\ HandsInv'
         /\ Outside' = (Outside \ (Cached(t) \cup live)) \cup Cached(t)' \cup live'
  <1>1. \A u \in Thread : u # t => /\ active'[u] = active[u] /\ bin'[u] = bin[u]
                                   /\ chain'[u] = chain[u] /\ rel'[u] = rel[u]
    BY DEF Others
  <1>2. \A u \in Thread : u # t => Cached(u)' = Cached(u)
    BY <1>1 DEF Cached
  <1>3. \A u \in Thread : u # t => (ThreadExclusive(u)' <=> ThreadExclusive(u))
    BY <1>1 DEF ThreadExclusive
  <1>4. /\ \A u \in Thread : ThreadExclusive(u) /\ Cached(u) \cap live = {}
        /\ \A u, v \in Thread : u # v => Cached(u) \cap Cached(v) = {}
    BY DEF HandsInv
  <1>5. \A u \in Thread : u # t => Cached(u) \cap (Cached(t)' \cup live') = {}
    <2>1. \A u \in Thread : u # t => Cached(u) \cap (Cached(t) \cup live) = {}
      BY <1>4
    <2>2. \A u \in Thread : Cached(u) \subseteq Outside
      BY CachedOut
    <2> QED
      BY <2>1, <2>2
  <1>6. \A u \in Thread : ThreadExclusive(u)' /\ Cached(u)' \cap live' = {}
    BY <1>2, <1>3, <1>4, <1>5
  <1>7. \A u, v \in Thread : u # v => Cached(u)' \cap Cached(v)' = {}
    BY <1>2, <1>4, <1>5
  <1>8. HandsInv'
    BY <1>6, <1>7 DEF HandsInv
  <1>9. Outside' = (Outside \ (Cached(t) \cup live)) \cup Cached(t)' \cup live'
    <2>1. ASSUME NEW a \in Outside' PROVE a \in (Outside \ (Cached(t) \cup live)) \cup Cached(t)' \cup live'
      <3>1. CASE a \in live'
        BY <3>1
      <3>2. CASE \E u \in Thread : a \in Cached(u)'
        <4>1. PICK u \in Thread : a \in Cached(u)'
          BY <3>2
        <4>2. u # t => a \in Cached(u) /\ a \in Outside /\ a \notin Cached(t) \cup live
          BY <1>2, <1>4, <4>1, CachedOut
        <4> QED
          BY <4>1, <4>2
      <3> QED
        BY <3>1, <3>2 DEF Outside
    <2>2. ASSUME NEW a \in Outside, a \notin Cached(t) \cup live PROVE a \in Outside'
      <3>1. PICK u \in Thread : a \in Cached(u)
        BY <2>2 DEF Outside
      <3> QED
        BY <1>2, <2>2, <3>1 DEF Outside
    <2>3. Cached(t)' \subseteq Outside' /\ live' \subseteq Outside'
      BY DEF Outside
    <2> QED
      BY <2>1, <2>2, <2>3
  <1> QED
    BY <1>8, <1>9

\* A step that moves blocks between t's hands and the program's.
LEMMA HandsMove ==
  ASSUME HandsInv, NEW t \in Thread, Others(t),
         ThreadExclusive(t)', Cached(t)' \cap live' = {},
         Cached(t)' \cup live' = Cached(t) \cup live
  PROVE  HandsInv' /\ Outside' = Outside
  BY HandsFrame, CachedOut

\* A step that moves no block.
LEMMA HandsStay ==
  ASSUME HandsInv, NEW t \in Thread, Others(t), live' = live,
         active'[t].chain = active[t].chain, bin'[t] = bin[t], chain'[t] = chain[t], rel'[t] = rel[t]
  PROVE  HandsInv' /\ Outside' = Outside
  <1>1. Cached(t)' = Cached(t)
    BY DEF Cached
  <1>2. ThreadExclusive(t)'
    <2>1. ThreadExclusive(t)
      BY DEF HandsInv
    <2> QED
      BY <2>1 DEF ThreadExclusive
  <1>3. Cached(t) \cap live = {}
    BY DEF HandsInv
  <1> QED
    BY <1>1, <1>2, <1>3, HandsMove

\* Every step but the pop of a fill and the release of a group leaves the same
\* blocks out.
LEMMA HandsStep ==
  ASSUME TypeOK, LocalsInv, FillInv, MappedInv, OwnerInv, HandsInv,
         NEW t \in Thread, Call(t) \/ Continue(t), ~FillBlock(t), ~ReleaseGroup(t)
  PROVE  HandsInv' /\ Outside' = Outside
  <1> DEFINE c == active[t].chain
  <1>l. LocalsOf(t)
    BY DEF LocalsInv
  <1>o. Others(t)
    BY OthersStep
  <1>a. /\ active \in [Thread -> [span : Base \cup {NoSpan}, chain : Seq(Addr), virgin : Nat]]
        /\ bin \in [Thread -> Seq(Addr)] /\ chain \in [Thread -> Seq(Addr)]
        /\ rel \in [Thread -> Seq(Group)]
    BY DEF TypeOK
  <1>b. c \in Seq(Addr) /\ bin[t] \in Seq(Addr) /\ chain[t] \in Seq(Addr) /\ rel[t] \in Seq(Group)
    BY <1>a, ActiveTypes
  <1>c. Cached(t) = ToSet(c) \cup ToSet(bin[t]) \cup ToSet(chain[t]) \cup GroupBlocks(rel[t])
    BY DEF Cached
  <1>d. /\ IsInjective(c) /\ IsInjective(bin[t]) /\ IsInjective(chain[t]) /\ GroupsExclusive(rel[t])
        /\ ToSet(c) \cap ToSet(bin[t]) = {}
        /\ (ToSet(c) \cup ToSet(bin[t])) \cap ToSet(chain[t]) = {}
        /\ (ToSet(c) \cup ToSet(bin[t]) \cup ToSet(chain[t])) \cap GroupBlocks(rel[t]) = {}
        /\ Cached(t) \cap live = {}
    BY DEF HandsInv, ThreadExclusive
  <1>m. ASSUME NEW d, NEW e, NEW f, NEW g,
               active'[t].chain = d, bin'[t] = e, chain'[t] = f, rel'[t] = g,
               IsInjective(d), IsInjective(e), IsInjective(f), GroupsExclusive(g),
               ToSet(d) \cap ToSet(e) = {},
               (ToSet(d) \cup ToSet(e)) \cap ToSet(f) = {},
               (ToSet(d) \cup ToSet(e) \cup ToSet(f)) \cap GroupBlocks(g) = {},
               (ToSet(d) \cup ToSet(e) \cup ToSet(f) \cup GroupBlocks(g)) \cap live' = {},
               ToSet(d) \cup ToSet(e) \cup ToSet(f) \cup GroupBlocks(g) \cup live' = Cached(t) \cup live
        PROVE  HandsInv' /\ Outside' = Outside
    <2>1. ThreadExclusive(t)'
      BY <1>m DEF ThreadExclusive
    <2>2. Cached(t)' = ToSet(d) \cup ToSet(e) \cup ToSet(f) \cup GroupBlocks(g)
      BY <1>m DEF Cached
    <2> QED
      BY <1>m, <1>o, <2>1, <2>2, HandsMove
  <1>1. CASE AllocActive(t)
    <2>1. c # <<>>
      BY <1>1 DEF AllocActive
    <2>2. /\ active'[t].chain = Front(c) /\ bin'[t] = bin[t] /\ chain'[t] = chain[t] /\ rel'[t] = rel[t]
          /\ live' = live \cup {Last(c)}
      BY <1>1, <1>a DEF AllocActive, Serve, localVars, takeVars
    <2>3. /\ ToSet(c) = ToSet(Front(c)) \cup {Last(c)}
          /\ IsInjective(Front(c)) /\ Last(c) \notin ToSet(Front(c))
      <3> HIDE DEF c
      <3> QED
        BY <1>b, <1>d, <2>1, PopTop
    <2> QED
      BY <1>c, <1>d, <1>m, <2>2, <2>3
  <1>2. CASE AllocBin(t)
    <2>1. bin[t] # <<>>
      BY <1>2 DEF AllocBin
    <2>2. /\ active'[t].chain = c /\ bin'[t] = Front(bin[t]) /\ chain'[t] = chain[t] /\ rel'[t] = rel[t]
          /\ live' = live \cup {Last(bin[t])}
      BY <1>2, <1>a DEF AllocBin, Serve, localVars, takeVars, Exhausted, NoActive
    <2>3. /\ ToSet(bin[t]) = ToSet(Front(bin[t])) \cup {Last(bin[t])}
          /\ IsInjective(Front(bin[t])) /\ Last(bin[t]) \notin ToSet(Front(bin[t]))
      BY <1>b, <1>d, <2>1, PopTop
    <2> QED
      BY <1>c, <1>d, <1>m, <2>2, <2>3
  <1>3. CASE FlushAll(t)
    <2>1. CASE FlushActive(t)
      <3>1. rel[t] = <<>> /\ GroupBlocks(rel[t]) = {}
        BY <1>3, <1>l, NoGroups DEF FlushAll, LocalsOf
      <3>2. c # <<>> /\ active'[t].chain = <<>> /\ bin'[t] = bin[t] /\ chain'[t] = chain[t] /\ live' = live
        BY <1>3, <1>a, <2>1 DEF FlushAll, FlushActive, takeVars, progVars, NoActive
      <3>3. rel'[t] = <<[span |-> active[t].span, blocks |-> Reverse(c)]>>
        BY <1>a, <2>1 DEF FlushActive
      <3>4. active[t].span \in Base
        BY <3>2 DEF OwnerInv, ChainOwned, TypeOK
      <3>5. Reverse(c) \in Seq(Addr) /\ ToSet(Reverse(c)) = ToSet(c) /\ IsInjective(Reverse(c))
        BY <1>b, <1>d, Reversed
      <3>6. GroupBlocks(rel'[t]) = ToSet(c) /\ GroupsExclusive(rel'[t])
        BY <3>3, <3>4, <3>5, OneGroup
      <3> QED
        BY <1>c, <1>d, <1>m, <3>1, <3>2, <3>6, EmptySet, EmptyInjective
    <2>2. CASE UNCHANGED <<active, rel>>
      BY <1>3, <1>o, <2>2, HandsStay DEF FlushAll, takeVars, progVars
    <2> QED
      BY <1>3, <2>1, <2>2 DEF FlushAll
  <1>4. CASE Pressure(t)
    BY <1>4, <1>a, <1>o, HandsStay DEF Pressure, cacheVars, takeVars, localVars, progVars
  <1>5. CASE FillBlock(t)
    BY <1>5
  <1>6. CASE FillDone(t)
    <2> DEFINE s == chain[t]
    <2>1. s # <<>>
      <3>1. partial # <<>> \/ s # <<>>
        BY <1>6 DEF FillDone, FillInv
      <3>2. Len(s) = RefillBatch => s # <<>>
        BY <1>b, SpanHeapAssumption
      <3> QED
        BY <1>6, <3>1, <3>2 DEF FillDone
    <2>2. /\ ToSet(s) = ToSet(Front(s)) \cup {Last(s)}
          /\ IsInjective(Front(s)) /\ Last(s) \notin ToSet(Front(s))
      BY <1>b, <1>d, <2>1, PopTop
    <2>3. rel'[t] = rel[t] /\ live' = live \cup {Last(s)}
      BY <1>6 DEF FillDone, Finish, Serve
    <2>4. CASE mode[t] = "direct"
      <3>1. active'[t].chain = c /\ bin'[t] = bin[t] /\ chain'[t] = Front(s)
        BY <1>6, <1>a, <2>4 DEF FillDone, Finish, cacheVars
      <3> QED
        BY <1>c, <1>d, <1>m, <2>2, <2>3, <3>1
    <2>5. CASE mode[t] = "cache"
      <3>1. c = <<>> /\ bin[t] = <<>>
        BY <1>6, <1>l, <2>5 DEF FillDone, LocalsOf
      <3>2. chain'[t] = <<>>
        BY <1>6, <1>a, <2>5 DEF FillDone, Finish
      <3>3. CASE active'[t].chain = Front(s) /\ bin'[t] = bin[t]
        BY <1>c, <1>d, <1>m, <2>2, <2>3, <3>1, <3>2, <3>3, EmptySet, EmptyInjective
      <3>4. CASE active'[t].chain = c /\ bin'[t] = Front(s)
        BY <1>c, <1>d, <1>m, <2>2, <2>3, <3>1, <3>2, <3>4, EmptySet, EmptyInjective
      <3>5. \/ active'[t].chain = Front(s) /\ bin'[t] = bin[t]
            \/ active'[t].chain = c /\ bin'[t] = Front(s)
        BY <1>6, <1>a, <2>5 DEF FillDone, Finish
      <3> QED
        BY <3>3, <3>4, <3>5
    <2> QED
      BY <1>6, <1>l, <2>4, <2>5 DEF FillDone, LocalsOf
  <1>7. CASE MapSpan(t)
    BY <1>7, <1>a, <1>o, HandsStay DEF MapSpan, cacheVars, takeVars, localVars, progVars
  <1>8. CASE MapFails(t)
    BY <1>8, <1>a, <1>o, HandsStay DEF MapFails, cacheVars, takeVars, localVars, progVars
  <1>9. CASE LinkSpan(t)
    BY <1>9, <1>a, <1>o, HandsStay DEF LinkSpan, cacheVars, takeVars, localVars, progVars
  <1>10. CASE GiveBack(t)
    <2> DEFINE a == Last(chain[t])
    <2>1. chain[t] # <<>> /\ rel[t] = <<>>
      BY <1>10, <1>l DEF GiveBack, LocalsOf
    <2>2. /\ active'[t].chain = c /\ bin'[t] = bin[t] /\ chain'[t] = Front(chain[t])
          /\ rel'[t] = <<[span |-> Of(a), blocks |-> <<a>>]>> /\ live' = live
      BY <1>10, <1>a DEF GiveBack, cacheVars, progVars
    <2>3. /\ ToSet(chain[t]) = ToSet(Front(chain[t])) \cup {a} /\ a \in ToSet(chain[t])
          /\ IsInjective(Front(chain[t])) /\ a \notin ToSet(Front(chain[t])) /\ a \in Addr
      BY <1>b, <1>d, <2>1, PopTop
    <2>4. Of(a) \in Base
      BY <2>3, CachedOut, OwnerFound
    <2> HIDE DEF a
    <2>5. <<a>> \in Seq(Addr) /\ ToSet(<<a>>) = {a} /\ IsInjective(<<a>>)
      BY <2>3, OneSeq
    <2>6. GroupBlocks(rel'[t]) = {a} /\ GroupsExclusive(rel'[t])
      BY <2>2, <2>4, <2>5, OneGroup
    <2> QED
      BY <1>c, <1>d, <1>m, <2>1, <2>2, <2>3, <2>6, NoGroups
  <1>11. CASE Trim(t)
    <2>1. CASE FlushActive(t)
      <3>1. rel[t] = <<>> /\ GroupBlocks(rel[t]) = {}
        BY <1>11, <1>l, NoGroups DEF Trim, LocalsOf
      <3>2. c # <<>> /\ active'[t].chain = <<>> /\ bin'[t] = bin[t] /\ chain'[t] = chain[t] /\ live' = live
        BY <1>11, <1>a, <2>1 DEF Trim, FlushActive, takeVars, progVars, NoActive
      <3>3. rel'[t] = <<[span |-> active[t].span, blocks |-> Reverse(c)]>>
        BY <1>a, <2>1 DEF FlushActive
      <3>4. active[t].span \in Base
        BY <3>2 DEF OwnerInv, ChainOwned, TypeOK
      <3>5. Reverse(c) \in Seq(Addr) /\ ToSet(Reverse(c)) = ToSet(c) /\ IsInjective(Reverse(c))
        BY <1>b, <1>d, Reversed
      <3>6. GroupBlocks(rel'[t]) = ToSet(c) /\ GroupsExclusive(rel'[t])
        BY <3>3, <3>4, <3>5, OneGroup
      <3> QED
        BY <1>c, <1>d, <1>m, <3>1, <3>2, <3>6, EmptySet, EmptyInjective
    <2>2. CASE UNCHANGED <<active, rel>>
      BY <1>11, <1>o, <2>2, HandsStay DEF Trim, takeVars, progVars
    <2> QED
      BY <1>11, <2>1, <2>2 DEF Trim
  <1>12. CASE FlushPop(t)
    <2> DEFINE a == Last(bin[t])
    <2>1. bin[t] # <<>>
      BY <1>12, <1>b, SeqFacts DEF FlushPop, TypeOK
    <2>2. /\ active'[t].chain = c /\ bin'[t] = Front(bin[t]) /\ chain'[t] = chain[t]
          /\ rel'[t] = Grouped(rel[t], a) /\ live' = live
      BY <1>12, <1>a DEF FlushPop, takeVars, progVars
    <2>3. /\ ToSet(bin[t]) = ToSet(Front(bin[t])) \cup {a} /\ a \in ToSet(bin[t])
          /\ IsInjective(Front(bin[t])) /\ a \notin ToSet(Front(bin[t])) /\ a \in Addr
      BY <1>b, <1>d, <2>1, PopTop
    <2>4. Of(a) \in mapped /\ a \in BlocksOf(Of(a))
      BY <2>3, CachedOut, OwnerFound
    <2>5. GroupsOwned(rel[t]) /\ mapped \subseteq Base
      BY DEF OwnerInv, TypeOK
    <2> HIDE DEF a
    <2>6. GroupBlocks(rel'[t]) = GroupBlocks(rel[t]) \cup {a} /\ GroupsExclusive(rel'[t])
      BY <1>b, <1>d, <2>2, <2>3, <2>4, <2>5, GroupedFacts
    <2> QED
      BY <1>c, <1>d, <1>m, <2>2, <2>3, <2>6
  <1>13. CASE FlushDone(t)
    <2>1. active'[t].chain = c
      BY <1>13, <1>a, <1>l DEF FlushDone, LocalsOf, NoActive
    <2> QED
      BY <1>13, <1>o, <2>1, HandsStay DEF FlushDone, takeVars, progVars
  <1>14. CASE ReleaseGroup(t)
    BY <1>14
  <1>15. CASE UnmapSpan(t)
    BY <1>15, <1>a, <1>o, HandsStay DEF UnmapSpan, cacheVars, takeVars, localVars, progVars
  <1>16. ASSUME NEW m \in {"cache", "direct"}, Take(t, m) PROVE HandsInv' /\ Outside' = Outside
    <2>1. active'[t].chain = c
      BY <1>16, <1>a DEF Take, BeginTake, Exhausted, NoActive
    <2> QED
      BY <1>16, <1>o, <2>1, HandsStay DEF Take, BeginTake, progVars
  <1>17. ASSUME NEW m \in {"cache", "direct"}, TakeNothing(t, m) PROVE HandsInv' /\ Outside' = Outside
    <2>1. active'[t].chain = c
      BY <1>17, <1>a DEF TakeNothing, BeginTake, Exhausted, NoActive
    <2> QED
      BY <1>17, <1>o, <2>1, HandsStay DEF TakeNothing, BeginTake, progVars
  <1>18. ASSUME NEW a \in live, Free(t, a) PROVE HandsInv' /\ Outside' = Outside
    <2>1. a \in live /\ live' = live \ {a} /\ a \in Addr
      BY <1>18 DEF Free, Drop, TypeOK
    <2>2. chain'[t] = chain[t] /\ rel'[t] = rel[t]
      BY <1>18 DEF Free, takeVars
    <2>3. a \notin Cached(t)
      BY <1>d, <2>1
    <2>4. CASE ActiveContains(t, a)
      <3>1. active'[t].chain = Append(c, a) /\ bin'[t] = bin[t]
        BY <1>18, <1>a, <2>4 DEF Free
      <3>2. ToSet(Append(c, a)) = ToSet(c) \cup {a} /\ IsInjective(Append(c, a))
        BY <1>b, <1>c, <1>d, <2>1, <2>3, PushTop
      <3>3. /\ a \notin ToSet(c) /\ a \notin ToSet(bin[t]) /\ a \notin ToSet(chain[t])
            /\ a \notin GroupBlocks(rel[t])
        BY <1>c, <2>3
      <3> DEFINE d == Append(c, a)
      <3>4. ToSet(d) = ToSet(c) \cup {a} /\ IsInjective(d)
        BY <3>2
      <3>5. active'[t].chain = d /\ bin'[t] = bin[t]
        BY <3>1
      <3> HIDE DEF c, d
      <3>6. (Cached(t) \cup {a}) \cap live' = {} /\ Cached(t) \cup {a} \cup live' = Cached(t) \cup live
        BY <1>d, <2>1, <2>3
      <3>7. /\ ToSet(d) \cap ToSet(bin[t]) = {}
            /\ (ToSet(d) \cup ToSet(bin[t])) \cap ToSet(chain[t]) = {}
            /\ (ToSet(d) \cup ToSet(bin[t]) \cup ToSet(chain[t])) \cap GroupBlocks(rel[t]) = {}
            /\ ToSet(d) \cup ToSet(bin[t]) \cup ToSet(chain[t]) \cup GroupBlocks(rel[t]) = Cached(t) \cup {a}
        BY <1>c, <1>d, <3>3, <3>4
      <3> QED
        BY <1>d, <1>m, <2>2, <3>4, <3>5, <3>6, <3>7
    <2>5. CASE ~ActiveContains(t, a)
      <3>1. active'[t].chain = c /\ bin'[t] = Append(bin[t], a)
        BY <1>18, <1>a, <2>5 DEF Free
      <3>2. ToSet(Append(bin[t], a)) = ToSet(bin[t]) \cup {a} /\ IsInjective(Append(bin[t], a))
        BY <1>b, <1>c, <1>d, <2>1, <2>3, PushTop
      <3>3. /\ a \notin ToSet(c) /\ a \notin ToSet(bin[t]) /\ a \notin ToSet(chain[t])
            /\ a \notin GroupBlocks(rel[t])
        BY <1>c, <2>3
      <3> DEFINE d == Append(bin[t], a)
      <3>4. ToSet(d) = ToSet(bin[t]) \cup {a} /\ IsInjective(d)
        BY <3>2
      <3>5. active'[t].chain = c /\ bin'[t] = d
        BY <3>1
      <3> HIDE DEF c, d
      <3>6. (Cached(t) \cup {a}) \cap live' = {} /\ Cached(t) \cup {a} \cup live' = Cached(t) \cup live
        BY <1>d, <2>1, <2>3
      <3>7. /\ ToSet(c) \cap ToSet(d) = {}
            /\ (ToSet(c) \cup ToSet(d)) \cap ToSet(chain[t]) = {}
            /\ (ToSet(c) \cup ToSet(d) \cup ToSet(chain[t])) \cap GroupBlocks(rel[t]) = {}
            /\ ToSet(c) \cup ToSet(d) \cup ToSet(chain[t]) \cup GroupBlocks(rel[t]) = Cached(t) \cup {a}
        BY <1>c, <1>d, <3>3, <3>4
      <3> QED
        BY <1>d, <1>m, <2>2, <3>4, <3>5, <3>6, <3>7
    <2> QED
      BY <2>4, <2>5
  <1>19. ASSUME NEW a \in live, FreeDirect(t, a) PROVE HandsInv' /\ Outside' = Outside
    <2>1. a \in live /\ live' = live \ {a} /\ a \in Addr
      BY <1>19 DEF FreeDirect, Drop, TypeOK
    <2>2. /\ active'[t].chain = c /\ bin'[t] = bin[t] /\ chain'[t] = chain[t] /\ rel[t] = <<>>
          /\ rel'[t] = <<[span |-> Of(a), blocks |-> <<a>>]>>
      BY <1>19, <1>a, <1>l DEF FreeDirect, LocalsOf, cacheVars, takeVars
    <2>3. a \notin Cached(t)
      BY <1>d, <2>1
    <2>4. Of(a) \in Base
      BY <2>1, CachedOut, OwnerFound
    <2>5. <<a>> \in Seq(Addr) /\ ToSet(<<a>>) = {a} /\ IsInjective(<<a>>)
      BY <2>1, OneSeq
    <2>6. GroupBlocks(rel'[t]) = {a} /\ GroupsExclusive(rel'[t])
      BY <2>2, <2>4, <2>5, OneGroup
    <2> QED
      BY <1>c, <1>d, <1>m, <2>1, <2>2, <2>3, <2>6, NoGroups
  <1> QED
    BY <1>1, <1>2, <1>3, <1>4, <1>5, <1>6, <1>7, <1>8, <1>9, <1>10, <1>11, <1>12, <1>13, <1>14,
       <1>15, <1>16, <1>17, <1>18, <1>19
    DEF Call, Continue

-----------------------------------------------------------------------------
(* The spans and their lists. *)

\* A span whose master, place and blocks out a step leaves alone.
LEMMA SpanFrame ==
  ASSUME NEW c, SpanOf(c), free'[c] = free[c], used'[c] = used[c],
         c \in Bare' <=> c \in Bare, c \in Parked' <=> c \in Parked,
         c \in ToSet(partial') <=> c \in ToSet(partial),
         BlocksOf(c) \cap Outside' = BlocksOf(c) \cap Outside
  PROVE  SpanOf(c)'
  <1>1. BlocksOf(c)' = BlocksOf(c) /\ BlocksOf(c) \ Outside' = BlocksOf(c) \ Outside
    BY DEF BlocksOf
  <1> QED
    BY <1>1 DEF SpanOf

\* The spans threads know of, when t gives up some or learns of a new one.
LEMMA OwnFrame ==
  ASSUME ListsInv, NEW t \in Thread, Others(t), own'[t] \cap OwnSpans \subseteq own[t]
  PROVE  /\ \A u, v \in Thread : u # v => own'[u] \cap own'[v] = {}
         /\ OwnSpans' = (OwnSpans \ own[t]) \cup own'[t]
  <1>1. \A u \in Thread : u # t => own'[u] = own[u]
    BY DEF Others
  <1>2. \A u, v \in Thread : u # v => own[u] \cap own[v] = {}
    BY DEF ListsInv
  <1>3. \A u \in Thread : own[u] \subseteq OwnSpans
    BY DEF OwnSpans
  <1>4. \A u \in Thread : u # t => own[u] \cap own'[t] = {}
    BY <1>2, <1>3
  <1>5. \A u, v \in Thread : u # v => own'[u] \cap own'[v] = {}
    BY <1>1, <1>2, <1>4
  <1>6. ASSUME NEW b \in OwnSpans' PROVE b \in (OwnSpans \ own[t]) \cup own'[t]
    <2>1. PICK u \in Thread : b \in own'[u]
      BY DEF OwnSpans
    <2> QED
      BY <1>1, <1>2, <1>3, <2>1
  <1>7. ASSUME NEW b \in OwnSpans, b \notin own[t] PROVE b \in OwnSpans'
    <2>1. PICK u \in Thread : b \in own[u]
      BY DEF OwnSpans
    <2> QED
      BY <1>1, <1>7, <2>1 DEF OwnSpans
  <1>8. own'[t] \subseteq OwnSpans'
    BY DEF OwnSpans
  <1> QED
    BY <1>5, <1>6, <1>7, <1>8

HeapInv == ListsInv /\ MappedInv /\ SpanInv

\* Nothing happens to the spans.
LEMMA HeapStay ==
  ASSUME HeapInv, UNCHANGED <<listVars, used, free, osVars, own>>, Outside' = Outside
  PROVE  HeapInv'
  <1>1. Bare' = Bare /\ Parked' = Parked /\ OwnSpans' = OwnSpans
    BY DEF Bare, Parked, OwnSpans, listVars, osVars
  <1>2. ListsInv'
    BY <1>1 DEF HeapInv, ListsInv, listVars, osVars
  <1>3. MappedInv'
    BY DEF HeapInv, MappedInv, osVars, Extent, BlocksOf
  <1>4. SpanInv'
    BY <1>1, SpanFrame DEF HeapInv, SpanInv, listVars, osVars
  <1> QED
    BY <1>2, <1>3, <1>4 DEF HeapInv

\* The same spans are mapped, and no new block is out but of one of them.
LEMMA MappedStay ==
  ASSUME MappedInv, mapped' = mapped,
         \A a \in Outside' \ Outside : \E b \in mapped : a \in BlocksOf(b)
  PROVE  MappedInv'
  <1>1. \A a \in Outside' : \E b \in mapped : a \in BlocksOf(b)
    BY DEF MappedInv
  <1> QED
    BY <1>1 DEF MappedInv, Extent, BlocksOf

\* A span nobody has a block of: its free list is whole, unless it is bare.
LEMMA WholeSpan ==
  ASSUME TypeOK, NEW b \in mapped, SpanOf(b), used[b] = 0, b \notin Bare
  PROVE  /\ BlocksOf(b) \cap Outside = {}
         /\ ToSet(free[b]) = BlocksOf(b) /\ free[b] # <<>> /\ Len(free[b]) = SpanLen - 1
  <1>1. b \in Base /\ free[b] \in Seq(Addr)
    BY DEF TypeOK
  <1>2. /\ IsInjective(free[b]) /\ ToSet(free[b]) = BlocksOf(b) \ Outside
        /\ used[b] + Len(free[b]) = SpanLen - 1
    BY DEF SpanOf
  <1>3. Len(free[b]) = SpanLen - 1
    BY <1>1, <1>2, SpanFacts
  <1>4. ToSet(free[b]) = BlocksOf(b)
    BY <1>1, <1>2, <1>3, ChainFits
  <1>5. free[b] # <<>>
    BY <1>1, <1>3, SpanFacts, SeqFacts
  <1> QED
    BY <1>2, <1>3, <1>4, <1>5

\* A cached empty span is linked.
LEMMA TakeEmptyHeap ==
  ASSUME TypeOK, HeapInv, TakeEmpty, UNCHANGED <<osVars, own>>, Outside' = Outside
  PROVE  HeapInv'
  <1>0. PICK b : b = Head(empty)
    OBVIOUS
  <1>1. /\ partial = <<>> /\ empty # <<>> /\ empty' = Tail(empty) /\ partial' = <<b>>
        /\ cold' = cold /\ used' = used /\ free' = free
    BY <1>0 DEF TakeEmpty, spanVars
  <1>2. mapped' = mapped /\ leaked' = leaked /\ OwnSpans' = OwnSpans
    BY DEF osVars, OwnSpans
  <1>3. empty \in Seq(Base)
    BY DEF TypeOK
  <1>4. /\ ToSet(empty) = ToSet(Tail(empty)) \cup {b} /\ b \in Base
        /\ IsInjective(Tail(empty)) /\ b \notin ToSet(Tail(empty))
    BY <1>0, <1>1, <1>3, PopHead DEF HeapInv, ListsInv
  <1>5. ToSet(partial') = {b} /\ IsInjective(partial') /\ ToSet(partial) = {}
    BY <1>1, <1>4, OneSeq, EmptySet
  <1>6. Bare' = Bare /\ Parked' = Parked \ {b}
    BY <1>1, <1>2, <1>4 DEF Bare, Parked, HeapInv, ListsInv
  <1>7. ListsInv'
    BY <1>1, <1>2, <1>4, <1>5, <1>6 DEF HeapInv, ListsInv, Parked, Bare
  <1>8. MappedInv'
    BY <1>2, MappedStay DEF HeapInv
  <1>9. b \in mapped /\ b \notin Bare /\ b \in Parked
    BY <1>4 DEF HeapInv, ListsInv, Parked
  <1>10. SpanOf(b) /\ used[b] = 0
    BY <1>9 DEF HeapInv, SpanInv, SpanOf
  <1>11. SpanOf(b)'
    BY <1>1, <1>5, <1>6, <1>9, <1>10, WholeSpan DEF SpanOf, BlocksOf
  <1>12. SpanInv'
    BY <1>1, <1>2, <1>5, <1>6, <1>11, SpanFrame DEF HeapInv, SpanInv
  <1> QED
    BY <1>7, <1>8, <1>12 DEF HeapInv

\* A cold span is recommitted, carved anew and linked.
LEMMA TakeColdHeap ==
  ASSUME TypeOK, HeapInv, TakeCold, UNCHANGED <<osVars, own>>, Outside' = Outside
  PROVE  HeapInv'
  <1>0. PICK b : b = Last(cold)
    OBVIOUS
  <1>1. /\ partial = <<>> /\ cold # <<>> /\ cold' = Front(cold) /\ partial' = <<b>> /\ empty' = empty
        /\ used' = [used EXCEPT ![b] = 0] /\ free' = [free EXCEPT ![b] = Carved(b)]
    BY <1>0 DEF TakeCold
  <1>2. mapped' = mapped /\ leaked' = leaked /\ OwnSpans' = OwnSpans
    BY DEF osVars, OwnSpans
  <1>3. cold \in Seq(Base) /\ used \in [Base -> Nat] /\ free \in [Base -> Seq(Addr)] /\ mapped \subseteq Base
    BY DEF TypeOK
  <1>4. /\ ToSet(cold) = ToSet(Front(cold)) \cup {b} /\ b \in Base
        /\ IsInjective(Front(cold)) /\ b \notin ToSet(Front(cold))
    BY <1>0, <1>1, <1>3, PopTop DEF HeapInv, ListsInv
  <1>5. ToSet(partial') = {b} /\ IsInjective(partial') /\ ToSet(partial) = {}
    BY <1>1, <1>4, OneSeq, EmptySet
  <1>6. Bare' = Bare \ {b} /\ Parked' = Parked \ {b}
    BY <1>1, <1>2, <1>4 DEF Bare, Parked, HeapInv, ListsInv
  <1>7. ListsInv'
    BY <1>1, <1>2, <1>4, <1>5, <1>6 DEF HeapInv, ListsInv, Parked, Bare
  <1>8. MappedInv'
    BY <1>2, MappedStay DEF HeapInv
  <1>9. b \in mapped /\ b \in Bare /\ b \in Parked
    BY <1>4 DEF HeapInv, ListsInv, Parked, Bare
  <1>10. BlocksOf(b) \cap Outside = {}
    BY <1>9 DEF HeapInv, SpanInv, SpanOf
  <1>11. used'[b] = 0 /\ free'[b] = Carved(b)
    BY <1>1, <1>3, <1>4
  <1>12. SpanOf(b)'
    <2>1. /\ Len(Carved(b)) = SpanLen - 1 /\ ToSet(Carved(b)) = BlocksOf(b) /\ IsInjective(Carved(b))
          /\ Carved(b) # <<>> /\ SpanLen \in Nat
      BY <1>4, CarvedFacts, SpanFacts
    <2>2. used'[b] + Len(free'[b]) = SpanLen - 1
      BY <1>11, <2>1
    <2>3. ToSet(free'[b]) = BlocksOf(b) \ Outside' /\ b \notin Bare' /\ b \notin Parked'
      BY <1>6, <1>10, <1>11, <2>1
    <2> QED
      BY <1>5, <1>11, <2>1, <2>2, <2>3 DEF SpanOf, BlocksOf
  <1>13. \A c \in mapped : c # b => used'[c] = used[c] /\ free'[c] = free[c]
    BY <1>1, <1>3
  <1>14. SpanInv'
    BY <1>2, <1>5, <1>6, <1>12, <1>13, SpanFrame DEF HeapInv, SpanInv
  <1> QED
    BY <1>7, <1>8, <1>14 DEF HeapInv

\* A new span is mapped where no mapped span is.
LEMMA MapHeap ==
  ASSUME TypeOK, LocalsInv, HeapInv, NEW t \in Thread, MapSpan(t), Others(t), Outside' = Outside
  PROVE  HeapInv'
  <1>1. PICK b \in Base :
          /\ \A c \in mapped : Extent(b) \cap Extent(c) = {}
          /\ mapped' = mapped \cup {b}
          /\ free' = [free EXCEPT ![b] = Carved(b)] /\ used' = [used EXCEPT ![b] = 0]
          /\ own' = [own EXCEPT ![t] = {b}]
    BY DEF MapSpan
  <1>2. UNCHANGED <<partial, empty, cold, leaked>> /\ own[t] = {} /\ own'[t] = {b}
    BY <1>1 DEF MapSpan, listVars, LocalsInv, LocalsOf, TypeOK
  <1>3. used \in [Base -> Nat] /\ free \in [Base -> Seq(Addr)] /\ mapped \subseteq Base
    BY DEF TypeOK
  <1>4. Extent(b) # {} /\ BlocksOf(b) \subseteq Extent(b)
    BY SpanFacts
  <1>5. b \notin mapped
    BY <1>1, <1>4
  <1>6. OwnSpans \subseteq mapped /\ ToSet(partial) \cup Parked \subseteq mapped
    BY DEF HeapInv, ListsInv, Parked
  <1>7. /\ \A u, v \in Thread : u # v => own'[u] \cap own'[v] = {}
        /\ OwnSpans' = OwnSpans \cup {b}
    BY <1>2, <1>5, <1>6, OwnFrame DEF HeapInv
  <1>8. Bare' = Bare /\ Parked' = Parked \cup {b}
    BY <1>2, <1>7 DEF Bare, Parked
  <1>9. ListsInv'
    BY <1>1, <1>2, <1>5, <1>6, <1>7, <1>8 DEF HeapInv, ListsInv, Parked, Bare
  <1>10. BlocksOf(b) \cap Outside = {}
    <2>1. ASSUME NEW a \in Outside, a \in BlocksOf(b) PROVE FALSE
      <3>1. PICK c \in mapped : a \in BlocksOf(c)
        BY DEF HeapInv, MappedInv
      <3>2. a \in Extent(c) /\ a \in Extent(b)
        BY <1>3, <1>4, <2>1, <3>1, SpanFacts
      <3> QED
        BY <1>1, <3>2
    <2> QED
      BY <2>1
  <1>11. MappedInv'
    <2>1. \A c, d \in mapped' : Extent(c) \cap Extent(d) # {} => c = d
      BY <1>1 DEF HeapInv, MappedInv
    <2>2. \A a \in Outside' : \E c \in mapped' : a \in BlocksOf(c)
      BY <1>1 DEF HeapInv, MappedInv
    <2> QED
      BY <2>1, <2>2 DEF MappedInv, Extent, BlocksOf
  <1>12. SpanOf(b)'
    <2>1. /\ Len(Carved(b)) = SpanLen - 1 /\ ToSet(Carved(b)) = BlocksOf(b) /\ IsInjective(Carved(b))
          /\ Carved(b) # <<>> /\ SpanLen \in Nat
      BY CarvedFacts, SpanFacts
    <2>2. used'[b] = 0 /\ free'[b] = Carved(b)
      BY <1>1, <1>3
    <2>3. used'[b] + Len(free'[b]) = SpanLen - 1
      BY <2>1, <2>2
    <2>4. /\ ToSet(free'[b]) = BlocksOf(b) \ Outside' /\ b \notin Bare' /\ b \in Parked'
          /\ b \notin ToSet(partial')
      BY <1>2, <1>5, <1>6, <1>8, <1>10, <2>1, <2>2 DEF Parked
    <2> QED
      BY <2>1, <2>2, <2>3, <2>4 DEF SpanOf, BlocksOf
  <1>13. \A c \in mapped : c # b /\ used'[c] = used[c] /\ free'[c] = free[c]
    BY <1>1, <1>3, <1>5
  <1>14. \A c \in mapped : SpanOf(c)'
    BY <1>2, <1>8, <1>13, SpanFrame DEF HeapInv, SpanInv
  <1>15. SpanInv'
    BY <1>1, <1>12, <1>14 DEF SpanInv
  <1> QED
    BY <1>9, <1>11, <1>15 DEF HeapInv

\* The new span is linked at the head of what the partial list is now.
LEMMA LinkHeap ==
  ASSUME TypeOK, LocalsInv, HeapInv, NEW t \in Thread, LinkSpan(t), Others(t), Outside' = Outside
  PROVE  HeapInv'
  <1>1. PICK b \in own[t] : partial' = <<b>> \o partial
    BY DEF LinkSpan
  <1>2. own[t] = {b} /\ own'[t] = {}
    BY <1>1 DEF LinkSpan, LocalsInv, LocalsOf, TypeOK
  <1>3. UNCHANGED <<empty, cold, used, free, mapped, leaked>>
    BY DEF LinkSpan, spanVars, osVars
  <1>4. b \in Base /\ partial \in Seq(Base)
    BY DEF TypeOK
  <1>5. b \in OwnSpans
    BY DEF OwnSpans
  <1>6. b \in mapped /\ b \notin ToSet(partial) /\ b \notin Bare /\ b \in Parked /\ b \notin ToSet(empty)
    BY <1>5 DEF HeapInv, ListsInv, Parked, Bare
  <1>7. ToSet(partial') = ToSet(partial) \cup {b} /\ IsInjective(partial')
    <2>1. IsInjective(partial)
      BY DEF HeapInv, ListsInv
    <2> QED
      BY <1>1, <1>4, <1>6, <2>1, PushHead
  <1>8. /\ \A u, v \in Thread : u # v => own'[u] \cap own'[v] = {}
        /\ OwnSpans' = OwnSpans \ {b}
    BY <1>2, OwnFrame DEF HeapInv
  <1>9. Bare' = Bare /\ Parked' = Parked \ {b}
    BY <1>3, <1>6, <1>8 DEF Bare, Parked
  <1>10. ListsInv'
    BY <1>3, <1>6, <1>7, <1>8, <1>9 DEF HeapInv, ListsInv, Parked, Bare
  <1>11. MappedInv'
    BY <1>3, MappedStay DEF HeapInv
  <1>12. SpanOf(b) /\ used[b] = 0
    BY <1>6 DEF HeapInv, SpanInv, SpanOf
  <1>13. SpanOf(b)'
    BY <1>3, <1>6, <1>7, <1>9, <1>12, WholeSpan DEF SpanOf, BlocksOf
  <1>14. SpanInv'
    BY <1>3, <1>7, <1>9, <1>13, SpanFrame DEF HeapInv, SpanInv
  <1> QED
    BY <1>10, <1>11, <1>14 DEF HeapInv

\* A thread that fills takes a block nobody has, of the first span on the list.
LEMMA FillTakes ==
  ASSUME TypeOK, HeapInv, NEW t \in Thread, FillBlock(t), NEW b, b = Head(partial)
  PROVE  /\ b \in Base /\ b \in mapped /\ b \notin Parked /\ b \notin Bare /\ b \in ToSet(partial)
         /\ free[b] \in Seq(Addr) /\ free[b] # <<>>
         /\ Head(free[b]) \in BlocksOf(b) /\ Head(free[b]) \notin Outside /\ Head(free[b]) \in Addr
         /\ SpanOf(b)
  <1>1. partial # <<>> /\ partial \in Seq(Base)
    BY DEF FillBlock, TypeOK
  <1>2. b \in Base /\ b \in ToSet(partial)
    BY <1>1, PopHead
  <1>3. b \in mapped /\ b \notin Parked /\ b \notin Bare
    BY <1>2 DEF HeapInv, ListsInv, Parked
  <1>4. SpanOf(b) /\ free[b] \in Seq(Addr)
    BY <1>2, <1>3 DEF HeapInv, SpanInv, TypeOK
  <1>5. free[b] # <<>> /\ ToSet(free[b]) = BlocksOf(b) \ Outside
    BY <1>2, <1>3, <1>4 DEF SpanOf
  <1>6. Head(free[b]) \in ToSet(free[b]) /\ Head(free[b]) \in Addr
    BY <1>4, <1>5, PopHead
  <1> QED
    BY <1>2, <1>3, <1>4, <1>5, <1>6

\* It goes on the thread's chain.
LEMMA FillHands ==
  ASSUME TypeOK, HeapInv, HandsInv, NEW t \in Thread, FillBlock(t), Others(t)
  PROVE  HandsInv' /\ Outside' = Outside \cup {Head(free[Head(partial)])}
  <1>0. PICK a : a = Head(free[Head(partial)])
    OBVIOUS
  <1>1. a \notin Outside /\ a \in Addr
    BY <1>0, FillTakes
  <1>2. /\ chain'[t] = Append(chain[t], a) /\ active' = active /\ bin' = bin /\ rel' = rel /\ live' = live
        /\ chain[t] \in Seq(Addr)
    BY <1>0 DEF FillBlock, TypeOK, cacheVars, progVars
  <1>3. ThreadExclusive(t) /\ Cached(t) \cap live = {} /\ a \notin Cached(t) /\ a \notin live
    BY <1>1, CachedOut DEF HandsInv
  <1>4. ToSet(chain'[t]) = ToSet(chain[t]) \cup {a}
    BY <1>1, <1>2, PushTop
  <1>5. IsInjective(chain'[t])
    BY <1>1, <1>2, <1>3, PushTop DEF ThreadExclusive, Cached
  <1>6. Cached(t)' = Cached(t) \cup {a}
    BY <1>2, <1>4 DEF Cached
  <1>7. ThreadExclusive(t)'
    BY <1>2, <1>3, <1>4, <1>5 DEF ThreadExclusive, Cached
  <1>8. /\ HandsInv'
        /\ Outside' = (Outside \ (Cached(t) \cup live)) \cup Cached(t)' \cup live'
    BY <1>1, <1>2, <1>3, <1>6, <1>7, HandsFrame
  <1> QED
    BY <1>0, <1>2, <1>6, <1>8, CachedOut

\* A span that runs dry leaves the list.
LEMMA FillHeap ==
  ASSUME TypeOK, HeapInv, HandsInv, NEW t \in Thread, FillBlock(t), Others(t)
  PROVE  HeapInv'
  <1>0. PICK b : b = Head(partial)
    OBVIOUS
  <1>1. PICK a : a = Head(free[b])
    OBVIOUS
  <1>2. /\ b \in Base /\ b \in mapped /\ b \notin Parked /\ b \notin Bare /\ b \in ToSet(partial)
        /\ free[b] \in Seq(Addr) /\ free[b] # <<>> /\ a \in BlocksOf(b) /\ a \notin Outside
        /\ SpanOf(b)
    BY <1>0, <1>1, FillTakes
  <1>3. Outside' = Outside \cup {a}
    BY <1>0, <1>1, FillHands
  <1>4. /\ free' = [free EXCEPT ![b] = Tail(@)] /\ used' = [used EXCEPT ![b] = @ + 1]
        /\ partial' = (IF Len(free[b]) = 1 THEN Tail(partial) ELSE partial)
        /\ UNCHANGED <<empty, cold, mapped, leaked, own>> /\ partial # <<>>
    BY <1>0 DEF FillBlock, osVars
  <1>5. partial \in Seq(Base) /\ used \in [Base -> Nat] /\ free \in [Base -> Seq(Addr)] /\ mapped \subseteq Base
    BY DEF TypeOK
  <1>6. free'[b] = Tail(free[b]) /\ used'[b] = used[b] + 1 /\ used[b] \in Nat
    BY <1>2, <1>4, <1>5
  <1>7. /\ IsInjective(free[b]) /\ ToSet(free[b]) = BlocksOf(b) \ Outside
        /\ used[b] + Len(free[b]) = SpanLen - 1
    BY <1>2 DEF SpanOf
  <1>8. /\ Tail(free[b]) \in Seq(Addr) /\ Len(Tail(free[b])) = Len(free[b]) - 1 /\ Len(free[b]) \in Nat
        /\ ToSet(free[b]) = ToSet(Tail(free[b])) \cup {a}
        /\ IsInjective(Tail(free[b])) /\ a \notin ToSet(Tail(free[b]))
    BY <1>1, <1>2, <1>7, PopHead, SeqFacts
  <1>9. Tail(free[b]) = <<>> <=> Len(free[b]) = 1
    <2>1. Tail(free[b]) = <<>> <=> Len(Tail(free[b])) = 0
      BY <1>8, SeqFacts
    <2> QED
      BY <1>8, <2>1
  <1>10. /\ ToSet(partial') = (IF Len(free[b]) = 1 THEN ToSet(partial) \ {b} ELSE ToSet(partial))
         /\ IsInjective(partial')
    <2>1. IsInjective(partial)
      BY DEF HeapInv, ListsInv
    <2>2. /\ ToSet(partial) = ToSet(Tail(partial)) \cup {b}
          /\ IsInjective(Tail(partial)) /\ b \notin ToSet(Tail(partial))
      BY <1>0, <1>4, <1>5, <2>1, PopHead
    <2> QED
      BY <1>4, <2>1, <2>2
  <1>11. Bare' = Bare /\ Parked' = Parked /\ OwnSpans' = OwnSpans
    BY <1>4 DEF Bare, Parked, OwnSpans
  <1>12. ListsInv'
    BY <1>4, <1>10, <1>11 DEF HeapInv, ListsInv
  <1>13. MappedInv'
    BY <1>2, <1>3, <1>4, MappedStay DEF HeapInv
  <1>14. SpanOf(b)'
    <2>1. used'[b] + Len(free'[b]) = SpanLen - 1
      BY <1>6, <1>7, <1>8
    <2>2. ToSet(free'[b]) = BlocksOf(b) \ Outside' /\ b \notin Bare' /\ b \notin Parked' /\ IsInjective(free'[b])
      BY <1>2, <1>3, <1>6, <1>7, <1>8, <1>11
    <2>3. b \in ToSet(partial') <=> free'[b] # <<>>
      BY <1>2, <1>6, <1>9, <1>10
    <2> QED
      BY <2>1, <2>2, <2>3 DEF SpanOf, BlocksOf
  <1>15. ASSUME NEW c \in mapped, c # b PROVE SpanOf(c)'
    <2>1. used'[c] = used[c] /\ free'[c] = free[c]
      BY <1>4, <1>5, <1>15
    <2>2. a \notin BlocksOf(c)
      BY <1>2, <1>5, <1>15, SpanFacts DEF HeapInv, MappedInv
    <2>3. BlocksOf(c) \cap Outside' = BlocksOf(c) \cap Outside
      BY <1>3, <2>2
    <2> QED
      BY <1>10, <1>11, <1>15, <2>1, <2>3, SpanFrame DEF HeapInv, SpanInv
  <1>16. SpanInv'
    BY <1>4, <1>14, <1>15 DEF SpanInv
  <1> QED
    BY <1>12, <1>13, <1>16 DEF HeapInv

\* An empty span is unmapped, or leaks.
LEMMA UnmapHeap ==
  ASSUME TypeOK, HeapInv, NEW t \in Thread, UnmapSpan(t), Others(t), Outside' = Outside
  PROVE  HeapInv'
  <1>1. PICK b \in own[t] :
          /\ own' = [own EXCEPT ![t] = @ \ {b}]
          /\ (mapped' = mapped \ {b} /\ leaked' = leaked) \/ (leaked' = leaked \cup {b} /\ mapped' = mapped)
          /\ free' = [free EXCEPT ![b] = <<>>]
    BY DEF UnmapSpan
  <1>2. UNCHANGED <<partial, empty, cold, used>>
    BY DEF UnmapSpan, listVars
  <1>3. b \in Base /\ own'[t] = own[t] \ {b} /\ free'[b] = <<>> /\ mapped \subseteq Base
        /\ \A c \in mapped : c # b => free'[c] = free[c]
    BY <1>1 DEF TypeOK
  <1>4. b \in OwnSpans
    BY DEF OwnSpans
  <1>5. /\ b \in mapped /\ b \notin ToSet(partial) /\ b \notin Bare /\ b \in Parked /\ b \notin ToSet(empty)
    BY <1>4 DEF HeapInv, ListsInv, Parked, Bare
  <1>6. SpanOf(b) /\ used[b] = 0
    BY <1>5 DEF HeapInv, SpanInv, SpanOf
  <1>7. BlocksOf(b) \cap Outside = {}
    BY <1>5, <1>6, WholeSpan
  <1>8. /\ \A u, v \in Thread : u # v => own'[u] \cap own'[v] = {}
        /\ OwnSpans' = OwnSpans \ {b}
    <2>1. own[t] \subseteq OwnSpans
      BY DEF OwnSpans
    <2> QED
      BY <1>3, <2>1, OwnFrame DEF HeapInv
  <1>9. \A c \in mapped \ {b} : SpanOf(c)'
    <2>1. ASSUME NEW c \in mapped, c # b
          PROVE  (c \in Bare' <=> c \in Bare) /\ (c \in Parked' <=> c \in Parked)
      BY <1>1, <1>2, <1>8, <2>1 DEF Bare, Parked
    <2> QED
      BY <1>2, <1>3, <2>1, SpanFrame DEF HeapInv, SpanInv
  <1>10. CASE mapped' = mapped \ {b} /\ leaked' = leaked
    <2>1. Bare' = Bare /\ Parked' = Parked \ {b}
      BY <1>2, <1>5, <1>8, <1>10 DEF Bare, Parked
    <2>2. ListsInv'
      BY <1>2, <1>5, <1>8, <1>10, <2>1 DEF HeapInv, ListsInv, Parked, Bare
    <2>3. MappedInv'
      <3>1. \A a \in Outside' : \E c \in mapped' : a \in BlocksOf(c)
        BY <1>7, <1>10 DEF HeapInv, MappedInv
      <3>2. \A c, d \in mapped' : Extent(c) \cap Extent(d) # {} => c = d
        BY <1>10 DEF HeapInv, MappedInv
      <3> QED
        BY <3>1, <3>2 DEF MappedInv, Extent, BlocksOf
    <2> QED
      BY <1>9, <1>10, <2>2, <2>3 DEF HeapInv, SpanInv
  <1>11. CASE leaked' = leaked \cup {b} /\ mapped' = mapped
    <2>1. Bare' = Bare \cup {b} /\ Parked' = Parked
      BY <1>2, <1>5, <1>8, <1>11 DEF Bare, Parked
    <2>2. ListsInv'
      BY <1>2, <1>5, <1>8, <1>11, <2>1 DEF HeapInv, ListsInv, Parked, Bare
    <2>3. MappedInv'
      BY <1>11, MappedStay DEF HeapInv
    <2>4. SpanOf(b)'
      BY <1>2, <1>3, <1>5, <1>6, <1>7, <2>1, EmptyInjective DEF SpanOf, BlocksOf
    <2> QED
      BY <1>9, <1>11, <2>2, <2>3, <2>4 DEF HeapInv, SpanInv
  <1> QED
    BY <1>1, <1>10, <1>11

\* The first group: some of the blocks that are out, all of one span.
LEMMA ReleaseTakes ==
  ASSUME TypeOK, LocalsInv, HeapInv, OwnerInv, HandsInv, NEW t \in Thread, ReleaseGroup(t),
         NEW b, b = rel[t][1].span, NEW s, s = rel[t][1].blocks
  PROVE  /\ b \in Base /\ b \in mapped /\ b \notin Bare /\ b \notin Parked /\ used[b] \in Nat
         /\ s \in Seq(Addr) /\ s # <<>> /\ IsInjective(s) /\ Len(s) \in Nat \ {0} /\ Len(s) <= used[b]
         /\ ToSet(s) \subseteq BlocksOf(b) /\ ToSet(s) \subseteq GroupBlocks(rel[t])
         /\ free[b] \in Seq(Addr)
         /\ s \o free[b] \in Seq(Addr) /\ IsInjective(s \o free[b]) /\ s \o free[b] # <<>>
         /\ ToSet(s \o free[b]) = BlocksOf(b) \ (Outside \ ToSet(s))
         /\ (used[b] - Len(s)) + Len(s \o free[b]) = SpanLen - 1
  <1>1. rel[t] \in Seq(Group) /\ rel[t] # <<>>
    BY DEF TypeOK, ReleaseGroup, LocalsInv, LocalsOf
  <1>2. GroupsExclusive(rel[t]) /\ GroupsOwned(rel[t])
    BY DEF HandsInv, ThreadExclusive, OwnerInv
  <1>3. /\ b \in Base /\ b \in mapped /\ s \in Seq(Addr) /\ s # <<>> /\ IsInjective(s)
        /\ ToSet(s) \subseteq BlocksOf(b) /\ ToSet(s) \subseteq GroupBlocks(rel[t])
    BY <1>1, <1>2, RestGroups
  <1>4. Len(s) \in Nat \ {0} /\ ToSet(s) # {}
    BY <1>3, SeqFacts
  <1>5. ToSet(s) \subseteq Outside
    BY <1>3, CachedOut
  <1>6. SpanOf(b) /\ free[b] \in Seq(Addr) /\ used[b] \in Nat
    BY <1>3 DEF HeapInv, SpanInv, TypeOK
  <1>7. b \notin Bare
    BY <1>3, <1>4, <1>5, <1>6 DEF SpanOf
  <1>8. IsInjective(free[b]) /\ ToSet(free[b]) = BlocksOf(b) \ Outside /\ used[b] + Len(free[b]) = SpanLen - 1
    BY <1>6, <1>7 DEF SpanOf
  <1>9. /\ s \o free[b] \in Seq(Addr) /\ Len(s \o free[b]) = Len(s) + Len(free[b]) /\ IsInjective(s \o free[b])
        /\ ToSet(s \o free[b]) = BlocksOf(b) \ (Outside \ ToSet(s))
    <2>1. /\ s \o free[b] \in Seq(Addr) /\ Len(s \o free[b]) = Len(s) + Len(free[b])
          /\ ToSet(s \o free[b]) = ToSet(s) \cup ToSet(free[b]) /\ IsInjective(s \o free[b])
      BY <1>3, <1>5, <1>6, <1>8, Splice
    <2> QED
      BY <1>3, <1>5, <1>8, <2>1
  <1>10. Len(s) + Len(free[b]) <= SpanLen - 1
    BY <1>3, <1>9, ChainFits
  <1>11. Len(free[b]) \in Nat /\ SpanLen \in Nat
    BY <1>3, <1>6, SeqFacts, SpanFacts
  <1>12. Len(s) <= used[b] /\ (used[b] - Len(s)) + Len(s \o free[b]) = SpanLen - 1
    <2>1. PICK k, m, n : k = Len(s) /\ m = Len(free[b]) /\ n = Len(s \o free[b])
      OBVIOUS
    <2>2. /\ k \in Nat /\ m \in Nat /\ n = k + m /\ used[b] + m = SpanLen - 1 /\ k + m <= SpanLen - 1
          /\ used[b] \in Nat /\ SpanLen \in Nat
      BY <1>4, <1>6, <1>8, <1>9, <1>10, <1>11, <2>1
    <2>3. k <= used[b] /\ (used[b] - k) + n = SpanLen - 1
      BY <2>2
    <2> QED
      BY <2>1, <2>3
  <1>13. s \o free[b] # <<>>
    BY <1>4, <1>9, <1>11, SeqFacts
  <1>14. b \notin Parked
    BY <1>4, <1>6, <1>12 DEF SpanOf
  <1> QED
    BY <1>3, <1>4, <1>6, <1>7, <1>9, <1>12, <1>13, <1>14

\* They are no longer out.
LEMMA ReleaseHands ==
  ASSUME TypeOK, LocalsInv, OwnerInv, HandsInv, NEW t \in Thread, ReleaseGroup(t), Others(t)
  PROVE  HandsInv' /\ Outside' = Outside \ ToSet(rel[t][1].blocks)
  <1>0. PICK s : s = rel[t][1].blocks
    OBVIOUS
  <1>1. rel[t] \in Seq(Group) /\ rel[t] # <<>>
    BY DEF TypeOK, ReleaseGroup, LocalsInv, LocalsOf
  <1>2. GroupsExclusive(rel[t]) /\ GroupsOwned(rel[t]) /\ ThreadExclusive(t) /\ Cached(t) \cap live = {}
    BY DEF HandsInv, ThreadExclusive, OwnerInv
  <1>3. /\ rel'[t] = Tail(rel[t]) /\ active' = active /\ bin' = bin /\ chain' = chain /\ live' = live
    BY DEF ReleaseGroup, cacheVars, takeVars, TypeOK
  <1>4. /\ GroupBlocks(rel'[t]) = GroupBlocks(rel[t]) \ ToSet(s) /\ GroupsExclusive(rel'[t])
        /\ ToSet(s) \subseteq GroupBlocks(rel[t])
    BY <1>0, <1>1, <1>2, <1>3, RestGroups
  <1>5. ThreadExclusive(t)'
    BY <1>2, <1>3, <1>4 DEF ThreadExclusive
  <1>6. Cached(t)' = Cached(t) \ ToSet(s)
    BY <1>2, <1>3, <1>4 DEF Cached, ThreadExclusive
  <1>7. ToSet(s) \cap live = {} /\ ToSet(s) \subseteq Cached(t)
    BY <1>2, <1>4 DEF Cached
  <1>8. /\ HandsInv'
        /\ Outside' = (Outside \ (Cached(t) \cup live)) \cup Cached(t)' \cup live'
    BY <1>2, <1>3, <1>5, <1>6, HandsFrame
  <1> QED
    BY <1>0, <1>3, <1>6, <1>7, <1>8, CachedOut

\* The span stays in use, or is parked on one of the lists, or with the caller.
LEMMA ReleaseHeap ==
  ASSUME TypeOK, LocalsInv, HeapInv, OwnerInv, HandsInv, NEW t \in Thread, ReleaseGroup(t), Others(t)
  PROVE  HeapInv'
  <1>0. PICK b, s : b = rel[t][1].span /\ s = rel[t][1].blocks
    OBVIOUS
  <1> DEFINE f == s \o free[b]
  <1>1. /\ b \in Base /\ b \in mapped /\ b \notin Bare /\ b \notin Parked /\ used[b] \in Nat
        /\ Len(s) \in Nat \ {0} /\ Len(s) <= used[b] /\ ToSet(s) \subseteq BlocksOf(b)
        /\ IsInjective(f) /\ f # <<>> /\ ToSet(f) = BlocksOf(b) \ (Outside \ ToSet(s))
        /\ (used[b] - Len(s)) + Len(f) = SpanLen - 1 /\ f \in Seq(Addr)
    BY <1>0, ReleaseTakes
  <1>2. Outside' = Outside \ ToSet(s)
    BY <1>0, ReleaseHands
  <1>3. mapped' = mapped /\ leaked' = leaked /\ ReleaseInner(t, b, s)
    BY <1>0 DEF ReleaseGroup, osVars
  <1>4. /\ partial \in Seq(Base) /\ empty \in Seq(Base) /\ cold \in Seq(Base)
        /\ used \in [Base -> Nat] /\ free \in [Base -> Seq(Addr)] /\ own \in [Thread -> SUBSET Base]
        /\ mapped \subseteq Base
    BY DEF TypeOK
  <1>5. used'[b] = used[b] - Len(s) /\ \A c \in mapped : c # b => used'[c] = used[c]
    BY <1>1, <1>3, <1>4 DEF ReleaseInner
  <1>6. IsInjective(partial) /\ IsInjective(empty) /\ IsInjective(cold)
    BY DEF HeapInv, ListsInv
  <1>7. b \notin ToSet(empty) /\ b \notin ToSet(cold) /\ b \notin OwnSpans /\ b \notin leaked
    BY <1>1 DEF Parked, Bare
  <1>8. MappedInv'
    BY <1>2, <1>3, MappedStay DEF HeapInv
  <1>9. \A c \in mapped : c # b => BlocksOf(c) \cap Outside' = BlocksOf(c) \cap Outside
    <2>1. ASSUME NEW c \in mapped, c # b PROVE BlocksOf(c) \cap ToSet(s) = {}
      BY <1>1, <1>4, <2>1, SpanFacts DEF HeapInv, MappedInv
    <2> QED
      BY <1>2, <2>1
  <1>10. ASSUME ListsInv', SpanOf(b)', \A c \in mapped : c # b => free'[c] = free[c],
                \A c \in mapped : c # b =>
                  /\ c \in Bare' <=> c \in Bare
                  /\ c \in Parked' <=> c \in Parked
                  /\ c \in ToSet(partial') <=> c \in ToSet(partial)
         PROVE  HeapInv'
    <2>1. \A c \in mapped : c # b => SpanOf(c)'
      BY <1>5, <1>9, <1>10, SpanFrame DEF HeapInv, SpanInv
    <2>2. SpanInv'
      BY <1>3, <1>10, <2>1 DEF SpanInv
    <2> QED
      BY <1>8, <1>10, <2>2 DEF HeapInv
  <1>11. ASSUME b \notin Bare', free'[b] = f, b \in Parked' => used'[b] = 0,
                b \in ToSet(partial') \cup Parked'
         PROVE  SpanOf(b)'
    <2>1. used'[b] + Len(free'[b]) = SpanLen - 1 /\ ToSet(free'[b]) = BlocksOf(b) \ Outside'
      BY <1>1, <1>2, <1>5, <1>11
    <2> QED
      BY <1>1, <1>11, <2>1 DEF SpanOf, BlocksOf
  <1>12. CASE used[b] # Len(s)
    <2>1. /\ free' = [free EXCEPT ![b] = f] /\ UNCHANGED <<empty, cold, own>>
          /\ partial' = (IF Contains(partial, b) THEN partial ELSE <<b>> \o partial)
      BY <1>3, <1>12, <1>4, <1>1 DEF ReleaseInner
    <2>2. IsInjective(partial') /\ ToSet(partial') = ToSet(partial) \cup {b}
      BY <1>1, <1>4, <1>6, <2>1, OnList, PushHead
    <2>3. Bare' = Bare /\ Parked' = Parked /\ OwnSpans' = OwnSpans
      BY <1>3, <2>1 DEF Bare, Parked, OwnSpans
    <2>4. ListsInv'
      BY <1>1, <1>3, <2>1, <2>2, <2>3 DEF HeapInv, ListsInv
    <2>5. free'[b] = f /\ \A c \in mapped : c # b => free'[c] = free[c]
      BY <1>1, <1>4, <2>1
    <2>6. SpanOf(b)'
      BY <1>1, <1>11, <2>2, <2>3, <2>5
    <2> QED
      BY <1>10, <2>2, <2>3, <2>4, <2>5, <2>6
  <1>13. CASE used[b] = Len(s)
    <2>1. Park(t, b, f)
      BY <1>3, <1>13 DEF ReleaseInner
    <2>2. IsInjective(partial') /\ ToSet(partial') = ToSet(partial) \ {b} /\ used'[b] = 0
      BY <1>1, <1>4, <1>5, <1>6, <1>13, <2>1, UnlinkFacts DEF Park
    <2>3. CASE /\ empty' = <<b>> \o empty /\ free' = [free EXCEPT ![b] = f]
               /\ UNCHANGED <<cold, own>>
      <3>1. IsInjective(empty') /\ ToSet(empty') = ToSet(empty) \cup {b}
        BY <1>1, <1>4, <1>6, <1>7, <2>3, PushHead
      <3>2. OwnSpans' = OwnSpans /\ Bare' = Bare
        BY <1>3, <2>3 DEF OwnSpans, Bare
      <3>3. Parked' = Parked \cup {b}
        BY <3>1, <3>2 DEF Parked
      <3>4. ListsInv'
        BY <1>1, <1>3, <1>7, <2>2, <2>3, <3>1, <3>2, <3>3 DEF HeapInv, ListsInv
      <3>5. free'[b] = f /\ \A c \in mapped : c # b => free'[c] = free[c]
        BY <1>1, <1>4, <2>3
      <3>6. SpanOf(b)'
        BY <1>1, <1>11, <2>2, <3>2, <3>3, <3>5
      <3> QED
        BY <1>10, <2>2, <3>2, <3>3, <3>4, <3>5, <3>6
    <2>4. CASE /\ cold' = Append(cold, b) /\ free' = [free EXCEPT ![b] = <<>>]
               /\ UNCHANGED <<empty, own>>
      <3>1. IsInjective(cold') /\ ToSet(cold') = ToSet(cold) \cup {b}
        BY <1>1, <1>4, <1>6, <1>7, <2>4, PushTop
      <3>2. OwnSpans' = OwnSpans /\ Bare' = Bare \cup {b}
        BY <1>3, <2>4, <3>1 DEF OwnSpans, Bare
      <3>3. Parked' = Parked \cup {b}
        BY <2>4, <3>2 DEF Parked
      <3>4. ListsInv'
        BY <1>1, <1>3, <1>7, <2>2, <2>4, <3>1, <3>2, <3>3 DEF HeapInv, ListsInv
      <3>5. free'[b] = <<>> /\ \A c \in mapped : c # b => free'[c] = free[c]
        BY <1>1, <1>4, <2>4
      <3>6. BlocksOf(b) \cap Outside' = {}
        <4>1. Len(f) = SpanLen - 1
          BY <1>1, <1>13
        <4>2. ToSet(f) = BlocksOf(b)
          BY <1>1, <4>1, ChainFits
        <4> QED
          BY <1>1, <1>2, <4>2
      <3>7. SpanOf(b)'
        BY <2>2, <3>2, <3>3, <3>5, <3>6, EmptyInjective DEF SpanOf, BlocksOf
      <3> QED
        BY <1>10, <2>2, <3>2, <3>3, <3>4, <3>5, <3>7
    <2>5. CASE /\ own' = [own EXCEPT ![t] = @ \cup {b}] /\ free' = [free EXCEPT ![b] = f]
               /\ UNCHANGED <<empty, cold>>
      <3>1. own'[t] = own[t] \cup {b} /\ own[t] \subseteq OwnSpans
        BY <1>4, <2>5 DEF OwnSpans
      <3>2. /\ \A u, v \in Thread : u # v => own'[u] \cap own'[v] = {}
            /\ OwnSpans' = OwnSpans \cup {b}
        BY <1>7, <3>1, OwnFrame DEF HeapInv
      <3>3. Bare' = Bare /\ Parked' = Parked \cup {b}
        BY <1>3, <2>5, <3>2 DEF Bare, Parked
      <3>4. ListsInv'
        BY <1>1, <1>3, <1>7, <2>2, <2>5, <3>2, <3>3 DEF HeapInv, ListsInv
      <3>5. free'[b] = f /\ \A c \in mapped : c # b => free'[c] = free[c]
        BY <1>1, <1>4, <2>5
      <3>6. SpanOf(b)'
        BY <1>1, <1>11, <2>2, <3>3, <3>5
      <3> QED
        BY <1>10, <2>2, <3>3, <3>4, <3>5, <3>6
    <2> QED
      BY <2>1, <2>3, <2>4, <2>5 DEF Park
  <1> QED
    BY <1>12, <1>13

\* The spans and their lists after any step of a thread.
LEMMA HeapStep ==
  ASSUME TypeOK, LocalsInv, FillInv, HeapInv, OwnerInv, HandsInv,
         NEW t \in Thread, Call(t) \/ Continue(t)
  PROVE  HandsInv' /\ HeapInv'
  <1>o. Others(t)
    BY OthersStep
  <1>h. MappedInv
    BY DEF HeapInv
  <1>p. ~FillBlock(t) /\ ~ReleaseGroup(t) => HandsInv' /\ Outside' = Outside
    BY <1>h, HandsStep
  <1>f. FillBlock(t) => HandsInv' /\ HeapInv'
    BY <1>o, FillHands, FillHeap
  <1>r. ReleaseGroup(t) => HandsInv' /\ HeapInv'
    BY <1>o, ReleaseHands, ReleaseHeap
  <1>s. UNCHANGED <<listVars, used, free, osVars, own>> /\ ~FillBlock(t) /\ ~ReleaseGroup(t) => HandsInv' /\ HeapInv'
    BY <1>p, HeapStay
  <1> USE <1>f, <1>r
  <1>1. CASE AllocActive(t)
    BY <1>1, <1>s DEF AllocActive, spanVars, localVars
  <1>2. CASE AllocBin(t)
    BY <1>2, <1>s DEF AllocBin, spanVars, localVars
  <1>3. CASE FlushAll(t)
    BY <1>3, <1>s DEF FlushAll, spanVars, localVars
  <1>4. CASE Pressure(t)
    BY <1>4, <1>s DEF Pressure, spanVars, localVars
  <1>5. CASE FillBlock(t)
    BY <1>5
  <1>6. CASE FillDone(t)
    BY <1>6, <1>s DEF FillDone, spanVars, localVars
  <1>7. CASE MapSpan(t)
    BY <1>7, <1>o, <1>p, MapHeap
  <1>8. CASE MapFails(t)
    BY <1>8, <1>s DEF MapFails, spanVars, localVars
  <1>9. CASE LinkSpan(t)
    BY <1>9, <1>o, <1>p, LinkHeap
  <1>10. CASE GiveBack(t)
    BY <1>10, <1>s DEF GiveBack, spanVars, localVars
  <1>11. CASE Trim(t)
    BY <1>11, <1>s DEF Trim, spanVars, localVars
  <1>12. CASE FlushPop(t)
    BY <1>12, <1>s DEF FlushPop, spanVars, localVars
  <1>13. CASE FlushDone(t)
    BY <1>13, <1>s DEF FlushDone, spanVars, localVars
  <1>14. CASE ReleaseGroup(t)
    BY <1>14
  <1>15. CASE UnmapSpan(t)
    BY <1>15, <1>o, <1>p, UnmapHeap
  <1>16. ASSUME NEW m \in {"cache", "direct"}, Take(t, m) PROVE HandsInv' /\ HeapInv'
    <2>1. UNCHANGED <<osVars, own>>
      BY <1>16 DEF Take, BeginTake
    <2>2. CASE TakePartial
      BY <1>s, <2>1, <2>2 DEF TakePartial, spanVars
    <2>3. CASE TakeEmpty
      BY <1>p, <2>1, <2>3, TakeEmptyHeap
    <2>4. CASE TakeCold
      BY <1>p, <2>1, <2>4, TakeColdHeap
    <2> QED
      BY <1>16, <2>2, <2>3, <2>4 DEF Take
  <1>17. ASSUME NEW m \in {"cache", "direct"}, TakeNothing(t, m) PROVE HandsInv' /\ HeapInv'
    BY <1>17, <1>s DEF TakeNothing, spanVars, localVars, BeginTake
  <1>18. ASSUME NEW a \in live, Free(t, a) PROVE HandsInv' /\ HeapInv'
    BY <1>18, <1>s DEF Free, spanVars, localVars
  <1>19. ASSUME NEW a \in live, FreeDirect(t, a) PROVE HandsInv' /\ HeapInv'
    BY <1>19, <1>s DEF FreeDirect, spanVars, localVars
  <1> QED
    BY <1>1, <1>2, <1>3, <1>4, <1>5, <1>6, <1>7, <1>8, <1>9, <1>10, <1>11, <1>12, <1>13, <1>14,
       <1>15, <1>16, <1>17, <1>18, <1>19
    DEF Call, Continue

\* A chain or a group of a thread that a step leaves alone stays with its span.
LEMMA OwnerFrame ==
  ASSUME OwnerInv, NEW t \in Thread, Others(t), mapped \subseteq mapped',
         NEW x, active'[t] = x, ChainOwned(x), NEW g, rel'[t] = g, GroupsOwned(g)
  PROVE  OwnerInv'
  <1> SUFFICES ASSUME NEW u \in Thread PROVE ChainOwned(active[u])' /\ GroupsOwned(rel[u])'
    BY DEF OwnerInv
  <1>1. ChainOwned(active'[u]) /\ GroupsOwned(rel'[u])
    <2>1. CASE u = t
      BY <2>1
    <2>2. CASE u # t
      BY <2>2 DEF Others, OwnerInv
    <2> QED
      BY <2>1, <2>2
  <1> QED
    BY <1>1 DEF ChainOwned, GroupsOwned, BlocksOf

\* Blocks are only ever returned to the span they are of.
LEMMA OwnerStep ==
  ASSUME TypeOK, LocalsInv, FillInv, HeapInv, OwnerInv, HandsInv, NoOverlap,
         NEW t \in Thread, Call(t) \/ Continue(t)
  PROVE  OwnerInv'
  <1> DEFINE c == active[t].chain
  <1>o. Others(t)
    BY OthersStep
  <1>l. LocalsOf(t)
    BY DEF LocalsInv
  <1>a. /\ active \in [Thread -> [span : Base \cup {NoSpan}, chain : Seq(Addr), virgin : Nat]]
        /\ bin \in [Thread -> Seq(Addr)] /\ chain \in [Thread -> Seq(Addr)]
        /\ rel \in [Thread -> Seq(Group)] /\ mapped \subseteq Base
    BY DEF TypeOK
  <1>b. c \in Seq(Addr) /\ bin[t] \in Seq(Addr) /\ chain[t] \in Seq(Addr) /\ rel[t] \in Seq(Group)
    BY <1>a, ActiveTypes
  <1>c. ChainOwned(active[t]) /\ GroupsOwned(rel[t]) /\ GroupsExclusive(rel[t]) /\ MappedInv /\ ThreadExclusive(t)
    BY DEF OwnerInv, HandsInv, ThreadExclusive, HeapInv
  <1>n. ChainOwned(NoActive) /\ GroupsOwned(<<>>)
    BY NoGroups DEF ChainOwned, NoActive
  <1>e. \A x : x.chain = <<>> => ChainOwned(x)
    BY DEF ChainOwned
  <1>f. \A a \in Outside : Of(a) \in mapped /\ Of(a) \in Base /\ a \in BlocksOf(Of(a)) /\ a \in Addr
    BY <1>c, OwnerFound
  <1>m. ASSUME mapped \subseteq mapped', ChainOwned(active'[t]), GroupsOwned(rel'[t]) PROVE OwnerInv'
    BY <1>m, <1>o, OwnerFrame
  <1>s. ASSUME mapped \subseteq mapped', active'[t] = active[t] \/ active'[t].chain = <<>>, rel'[t] = rel[t] PROVE OwnerInv'
    BY <1>c, <1>e, <1>m, <1>s
  <1>g. ASSUME mapped \subseteq mapped', active'[t] = active[t], NEW a \in Outside,
               rel'[t] = <<[span |-> Of(a), blocks |-> <<a>>]>>
        PROVE  OwnerInv'
    <2>1. <<a>> \in Seq(Addr) /\ ToSet(<<a>>) = {a} /\ <<a>> # <<>>
      BY <1>f, OneSeq
    <2>2. GroupsOwned(rel'[t])
      <3>1. PICK s, b : s = <<a>> /\ b = Of(a)
        OBVIOUS
      <3>2. b \in Base /\ b \in mapped /\ s \in Seq(Addr) /\ s # <<>> /\ ToSet(s) \subseteq BlocksOf(b)
        BY <1>f, <2>1, <3>1
      <3>3. rel'[t] = <<[span |-> b, blocks |-> s]>>
        BY <1>g, <3>1
      <3> QED
        BY <3>2, <3>3, OneGroup
    <2> QED
      BY <1>c, <1>g, <1>m, <2>2
  <1>1. CASE AllocActive(t)
    <2>1. /\ c # <<>> /\ rel' = rel /\ mapped' = mapped /\ active'[t].chain = Front(c)
          /\ active'[t].span = active[t].span
      BY <1>1, <1>a DEF AllocActive, localVars, osVars
    <2>2. ToSet(Front(c)) \subseteq ToSet(c)
      <3> HIDE DEF c
      <3> QED
        BY <1>b, <2>1, PopTop
    <2>3. ChainOwned(active'[t])
      BY <1>c, <2>1, <2>2 DEF ChainOwned
    <2> QED
      BY <1>c, <1>m, <2>1, <2>3
  <1>2. CASE AllocBin(t)
    BY <1>2, <1>a, <1>s DEF AllocBin, Exhausted, NoActive, osVars, cacheVars, localVars
  <1>3. CASE FlushAll(t)
    <2>1. CASE FlushActive(t)
      <3>1. c # <<>> /\ active'[t] = NoActive /\ mapped' = mapped
        BY <1>3, <1>a, <2>1 DEF FlushAll, FlushActive, osVars
      <3>2. rel'[t] = <<[span |-> active[t].span, blocks |-> Reverse(c)]>>
        BY <1>a, <2>1 DEF FlushActive
      <3>3. active[t].span \in Base /\ active[t].span \in mapped /\ ToSet(c) \subseteq BlocksOf(active[t].span)
        BY <1>a, <1>c, <3>1 DEF ChainOwned
      <3>4. Reverse(c) \in Seq(Addr) /\ ToSet(Reverse(c)) = ToSet(c) /\ Reverse(c) # <<>>
        BY <1>b, <3>1, Reversed, SeqFacts
      <3>5. GroupsOwned(rel'[t])
        BY <3>2, <3>3, <3>4, OneGroup
      <3> QED
        BY <1>m, <1>n, <3>1, <3>5
    <2>2. CASE UNCHANGED <<active, rel>>
      BY <1>3, <1>s, <2>2 DEF FlushAll, osVars
    <2> QED
      BY <1>3, <2>1, <2>2 DEF FlushAll
  <1>4. CASE Pressure(t)
    BY <1>4, <1>a, <1>s DEF Pressure, osVars, cacheVars, localVars
  <1>5. CASE FillBlock(t)
    BY <1>5, <1>a, <1>s DEF FillBlock, osVars, cacheVars, localVars
  <1>6. CASE FillDone(t)
    <2>1. rel'[t] = rel[t] /\ mapped' = mapped
      BY <1>6 DEF FillDone, osVars
    <2>2. CASE active'[t] = active[t]
      BY <1>s, <2>1, <2>2
    <2>3. CASE active'[t] # active[t]
      <3>0. PICK s, b : s = chain[t] /\ b = Of(Last(s))
        OBVIOUS
      <3>1. /\ active'[t].span = b /\ active'[t].chain = Front(s)
            /\ \A i \in DOMAIN s : Of(s[i]) = b
        BY <1>6, <1>a, <2>3, <3>0 DEF FillDone, Finish, cacheVars
      <3>2. s # <<>>
        <4>1. partial # <<>> \/ s # <<>>
          BY <1>6, <3>0 DEF FillDone, FillInv
        <4>2. Len(s) = RefillBatch => s # <<>>
          BY <1>b, <3>0, SpanHeapAssumption
        <4> QED
          BY <1>6, <3>0, <4>1, <4>2 DEF FillDone
      <3>3. s \in Seq(Addr) /\ ToSet(s) \subseteq Outside
        BY <1>b, <3>0, CachedOut
      <3>4. Last(s) \in ToSet(s) /\ ToSet(Front(s)) \subseteq ToSet(s)
        BY <3>2, <3>3, PopTop
      <3>5. b \in mapped
        BY <1>f, <3>0, <3>3, <3>4
      <3>6. \A a \in ToSet(s) : Of(a) = b
        BY <3>1 DEF ToSet
      <3>7. ToSet(Front(s)) \subseteq BlocksOf(b)
        BY <1>f, <3>3, <3>4, <3>6
      <3>8. ChainOwned(active'[t])
        BY <3>1, <3>5, <3>7 DEF ChainOwned
      <3> QED
        BY <1>c, <1>m, <2>1, <3>8
    <2> QED
      BY <2>2, <2>3
  <1>7. CASE MapSpan(t)
    BY <1>7, <1>a, <1>s DEF MapSpan, osVars, cacheVars, localVars
  <1>8. CASE MapFails(t)
    BY <1>8, <1>a, <1>s DEF MapFails, osVars, cacheVars, localVars
  <1>9. CASE LinkSpan(t)
    BY <1>9, <1>a, <1>s DEF LinkSpan, osVars, cacheVars, localVars
  <1>10. CASE GiveBack(t)
    <2>0. PICK a : a = Last(chain[t])
      OBVIOUS
    <2>1. /\ active'[t] = active[t] /\ mapped' = mapped
          /\ rel'[t] = <<[span |-> Of(a), blocks |-> <<a>>]>>
      BY <1>10, <1>a, <2>0 DEF GiveBack, cacheVars, osVars
    <2>2. chain[t] # <<>>
      BY <1>10, <1>l DEF GiveBack, LocalsOf
    <2>3. a \in Outside
      BY <1>b, <2>0, <2>2, PopTop, CachedOut
    <2> QED
      BY <1>g, <2>1, <2>3
  <1>11. CASE Trim(t)
    <2>1. CASE FlushActive(t)
      <3>1. c # <<>> /\ active'[t] = NoActive /\ mapped' = mapped
        BY <1>11, <1>a, <2>1 DEF Trim, FlushActive, osVars
      <3>2. rel'[t] = <<[span |-> active[t].span, blocks |-> Reverse(c)]>>
        BY <1>a, <2>1 DEF FlushActive
      <3>3. active[t].span \in Base /\ active[t].span \in mapped /\ ToSet(c) \subseteq BlocksOf(active[t].span)
        BY <1>a, <1>c, <3>1 DEF ChainOwned
      <3>4. Reverse(c) \in Seq(Addr) /\ ToSet(Reverse(c)) = ToSet(c) /\ Reverse(c) # <<>>
        BY <1>b, <3>1, Reversed, SeqFacts
      <3>5. GroupsOwned(rel'[t])
        BY <3>2, <3>3, <3>4, OneGroup
      <3> QED
        BY <1>m, <1>n, <3>1, <3>5
    <2>2. CASE UNCHANGED <<active, rel>>
      BY <1>11, <1>s, <2>2 DEF Trim, osVars
    <2> QED
      BY <1>11, <2>1, <2>2 DEF Trim
  <1>12. CASE FlushPop(t)
    <2>0. PICK a : a = Last(bin[t])
      OBVIOUS
    <2>1. bin[t] # <<>>
      BY <1>12, <1>b, SeqFacts DEF FlushPop, TypeOK
    <2>2. /\ active'[t] = active[t] /\ mapped' = mapped /\ rel'[t] = Grouped(rel[t], a)
      BY <1>12, <1>a, <2>0 DEF FlushPop, osVars
    <2>3. a \in ToSet(bin[t]) /\ a \in Outside
      BY <1>b, <2>0, <2>1, PopTop, CachedOut
    <2>4. Of(a) \in mapped /\ a \in BlocksOf(Of(a)) /\ a \in Addr
      BY <1>f, <2>3
    <2>5. a \notin GroupBlocks(rel[t])
      BY <1>c, <2>3 DEF ThreadExclusive
    <2>6. GroupsOwned(rel'[t])
      BY <1>a, <1>b, <1>c, <2>2, <2>4, <2>5, GroupedFacts
    <2> QED
      BY <1>c, <1>m, <2>2, <2>6
  <1>13. CASE FlushDone(t)
    BY <1>13, <1>a, <1>s DEF FlushDone, NoActive, osVars, cacheVars, localVars
  <1>14. CASE ReleaseGroup(t)
    <2>1. active'[t] = active[t] /\ mapped' = mapped /\ rel'[t] = Tail(rel[t]) /\ rel[t] # <<>>
      BY <1>14, <1>a, <1>l DEF ReleaseGroup, cacheVars, osVars, LocalsOf
    <2>2. GroupsOwned(rel'[t])
      BY <1>b, <1>c, <2>1, RestGroups
    <2> QED
      BY <1>c, <1>m, <2>1, <2>2
  <1>15. CASE UnmapSpan(t)
    <2>1. PICK b \in own[t] : mapped \ {b} \subseteq mapped'
      BY <1>15 DEF UnmapSpan
    <2>2. active' = active /\ rel' = rel
      BY <1>15 DEF UnmapSpan, cacheVars
    <2>3. b \in mapped /\ b \notin Bare /\ b \in Parked
      <3>1. b \in OwnSpans
        BY DEF OwnSpans
      <3> QED
        BY <3>1 DEF HeapInv, ListsInv, Parked, Bare
    <2>4. SpanOf(b) /\ used[b] = 0
      BY <2>3 DEF HeapInv, SpanInv, SpanOf
    <2>5. BlocksOf(b) \cap Outside = {}
      BY <2>3, <2>4, WholeSpan
    <2>6. ASSUME NEW u \in Thread PROVE ChainOwned(active[u])' /\ GroupsOwned(rel[u])'
      <3>1. ChainOwned(active[u]) /\ GroupsOwned(rel[u]) /\ active[u].chain \in Seq(Addr) /\ rel[u] \in Seq(Group)
        BY <1>a, ActiveTypes DEF OwnerInv
      <3>2. active[u].chain # <<>> => active[u].span # b
        <4>1. active[u].chain # <<>> => ToSet(active[u].chain) # {}
          BY <3>1, SeqFacts
        <4> QED
          BY <2>5, <3>1, <4>1, CachedOut DEF ChainOwned
      <3>3. \A i \in DOMAIN rel[u] : rel[u][i].span # b
        <4>1. ASSUME NEW i \in DOMAIN rel[u] PROVE rel[u][i].span # b
          <5>1. /\ rel[u][i].blocks \in Seq(Addr) /\ rel[u][i].blocks # <<>>
                /\ ToSet(rel[u][i].blocks) \subseteq GroupBlocks(rel[u])
                /\ ToSet(rel[u][i].blocks) \subseteq BlocksOf(rel[u][i].span)
            BY <3>1, GroupFacts DEF GroupsOwned
          <5>2. ToSet(rel[u][i].blocks) # {}
            BY <5>1, SeqFacts
          <5> QED
            BY <2>5, <5>1, <5>2, CachedOut
        <4> QED
          BY <4>1
      <3>4. ChainOwned(active[u])'
        BY <2>1, <2>2, <3>1, <3>2 DEF ChainOwned, BlocksOf
      <3>5. GroupsOwned(rel[u])'
        BY <2>1, <2>2, <3>1, <3>3 DEF GroupsOwned, BlocksOf
      <3> QED
        BY <2>2, <3>4, <3>5
    <2> QED
      BY <2>6 DEF OwnerInv
  <1>16. ASSUME NEW m \in {"cache", "direct"}, Take(t, m) PROVE OwnerInv'
    BY <1>16, <1>a, <1>s DEF Take, BeginTake, Exhausted, NoActive, osVars, cacheVars, localVars
  <1>17. ASSUME NEW m \in {"cache", "direct"}, TakeNothing(t, m) PROVE OwnerInv'
    BY <1>17, <1>a, <1>s DEF TakeNothing, BeginTake, Exhausted, NoActive, osVars, cacheVars, localVars
  <1>18. ASSUME NEW a \in live, Free(t, a) PROVE OwnerInv'
    <2>1. rel'[t] = rel[t] /\ mapped' = mapped /\ a \in Outside
      BY <1>18, CachedOut DEF Free, Drop, osVars
    <2>2. CASE ~ActiveContains(t, a)
      BY <1>18, <1>s, <2>1, <2>2 DEF Free
    <2>3. CASE ActiveContains(t, a)
      <3>1. active'[t].span = active[t].span /\ active'[t].chain = Append(c, a)
        BY <1>18, <1>a, <2>3 DEF Free
      <3>2. active[t].span = Of(a)
        <4>1. CASE Tier = "big"
          BY <2>3, <4>1 DEF ActiveContains
        <4>2. CASE Tier # "big"
          <5>1. active[t].span \in Base /\ a \in Extent(active[t].span)
            BY <1>a, <2>3, SpanHeapAssumption DEF ActiveContains
          <5>2. Of(a) \in Base /\ a \in Extent(Of(a))
            BY <1>f, <2>1, SpanFacts
          <5> QED
            BY <4>2, <5>1, <5>2 DEF NoOverlap
        <4> QED
          BY <4>1, <4>2
      <3>3. ToSet(Append(c, a)) = ToSet(c) \cup {a}
        BY <1>b, <1>f, <2>1, PushTop
      <3>4. Of(a) \in mapped /\ a \in BlocksOf(Of(a))
        BY <1>f, <2>1
      <3>5. ToSet(c) \subseteq BlocksOf(Of(a))
        BY <1>b, <1>c, <3>2, SeqFacts DEF ChainOwned
      <3>6. ChainOwned(active'[t])
        BY <3>1, <3>2, <3>3, <3>4, <3>5 DEF ChainOwned
      <3> QED
        BY <1>c, <1>m, <2>1, <3>6
    <2> QED
      BY <2>2, <2>3
  <1>19. ASSUME NEW a \in live, FreeDirect(t, a) PROVE OwnerInv'
    <2>1. /\ active'[t] = active[t] /\ mapped' = mapped /\ a \in Outside
          /\ rel'[t] = <<[span |-> Of(a), blocks |-> <<a>>]>>
      BY <1>19, <1>a, CachedOut DEF FreeDirect, Drop, cacheVars, osVars
    <2> QED
      BY <1>g, <2>1
  <1> QED
    BY <1>1, <1>2, <1>3, <1>4, <1>5, <1>6, <1>7, <1>8, <1>9, <1>10, <1>11, <1>12, <1>13, <1>14,
       <1>15, <1>16, <1>17, <1>18, <1>19
    DEF Call, Continue

-----------------------------------------------------------------------------
(* Types, adoption, and the whole invariant. *)

\* Half of a length.
LEMMA Halved == \A n \in Nat : n \div 2 \in Nat
  OBVIOUS

ActiveSpan == [span : Base \cup {NoSpan}, chain : Seq(Addr), virgin : Nat]

\* Every step of a thread keeps the types.
LEMMA TypeStep ==
  ASSUME TypeOK, LocalsInv, FillInv, HeapInv, OwnerInv, HandsInv,
         NEW t \in Thread, Call(t) \/ Continue(t)
  PROVE  TypeOK'
  <1> DEFINE c == active[t].chain
  <1>l. LocalsOf(t)
    BY DEF LocalsInv
  <1>b. c \in Seq(Addr) /\ bin[t] \in Seq(Addr) /\ chain[t] \in Seq(Addr) /\ rel[t] \in Seq(Group)
    BY ActiveTypes DEF TypeOK
  <1>f. \A a \in Outside : Of(a) \in Base /\ a \in Addr
    BY OwnerFound DEF HeapInv
  <1>lock. lock \in Thread \cup {NoThread}
    BY DEF TypeOK, ActiveSpan
  <1>partial. partial \in Seq(Base)
    BY DEF TypeOK, ActiveSpan
  <1>empty. empty \in Seq(Base)
    BY DEF TypeOK, ActiveSpan
  <1>cold. cold \in Seq(Base)
    BY DEF TypeOK, ActiveSpan
  <1>used. used \in [Base -> Nat]
    BY DEF TypeOK, ActiveSpan
  <1>free. free \in [Base -> Seq(Addr)]
    BY DEF TypeOK, ActiveSpan
  <1>pristine. pristine \in SUBSET Base
    BY DEF TypeOK, ActiveSpan
  <1>mapped. mapped \in SUBSET Base
    BY DEF TypeOK, ActiveSpan
  <1>leaked. leaked \in SUBSET Base
    BY DEF TypeOK, ActiveSpan
  <1>active. active \in [Thread -> ActiveSpan]
    BY DEF TypeOK, ActiveSpan
  <1>bin. bin \in [Thread -> Seq(Addr)]
    BY DEF TypeOK, ActiveSpan
  <1>watermark. watermark \in [Thread -> Nat]
    BY DEF TypeOK, ActiveSpan
  <1>pc. pc \in [Thread -> PcLabels]
    BY DEF TypeOK, ActiveSpan
  <1>mode. mode \in [Thread -> {"cache", "direct", "exit"}]
    BY DEF TypeOK, ActiveSpan
  <1>chain. chain \in [Thread -> Seq(Addr)]
    BY DEF TypeOK, ActiveSpan
  <1>virgin. virgin \in [Thread -> BOOLEAN]
    BY DEF TypeOK, ActiveSpan
  <1>own. own \in [Thread -> SUBSET Base]
    BY DEF TypeOK, ActiveSpan
  <1>rel. rel \in [Thread -> Seq(Group)]
    BY DEF TypeOK, ActiveSpan
  <1>popped. popped \in [Thread -> Nat]
    BY DEF TypeOK, ActiveSpan
  <1>floor. floor \in [Thread -> Nat]
    BY DEF TypeOK, ActiveSpan
  <1>live. live \in SUBSET Addr
    BY DEF TypeOK, ActiveSpan
  <1>dirty. dirty \in SUBSET Addr
    BY DEF TypeOK, ActiveSpan
  <1>zeroed. zeroed \in SUBSET Addr
    BY DEF TypeOK, ActiveSpan
  <1>n. NoActive \in ActiveSpan
    BY DEF NoActive, ActiveSpan
  <1>x. Exhausted(active[t]) \in ActiveSpan
    BY <1>n, <1>active DEF Exhausted
  <1>p. NoThread \notin Thread
    BY SpanHeapAssumption
  <1> USE DEF PcLabels, Goto, SetMode, Return, Acquire, Release, listVars, spanVars, osVars,
              cacheVars, takeVars, flushVars, localVars, progVars
  <1>1. CASE AllocActive(t)
    <2>1. c # <<>>
      BY <1>1 DEF AllocActive
    <2>2. Last(c) \in Addr /\ Front(c) \in Seq(Addr) /\ Len(c) - 1 \in Nat
      <3> HIDE DEF c
      <3> QED
        BY <1>b, <2>1, PopTop, PopLen
    <2>3. [active[t] EXCEPT !.chain = Front(c), !.virgin = Min2(active[t].virgin, Len(c) - 1)] \in ActiveSpan
      BY <1>active, <2>2, ActiveTypes DEF Min2, ActiveSpan
    <2>4. active' \in [Thread -> ActiveSpan]
      BY <1>1, <1>active, <2>3 DEF AllocActive
    <2>5. live' \in SUBSET Addr
      BY <1>1, <1>live, <2>2 DEF AllocActive, Serve
    <2>6. dirty' \in SUBSET Addr
      BY <1>1, <1>dirty, <2>2 DEF AllocActive, Serve
    <2>7. zeroed' \in SUBSET Addr
      BY <1>1, <1>zeroed, <2>2 DEF AllocActive, Serve
    <2>8. UNCHANGED <<lock, partial, empty, cold, used, free, pristine, mapped, leaked, bin,
                     watermark, pc, mode, chain, virgin, own, rel, popped, floor>>
      BY <1>1 DEF AllocActive, Serve
    <2> QED
      BY <2>4, <2>5, <2>6, <2>7, <1>lock, <1>partial, <1>empty, <1>cold, <1>used, <1>free, <1>pristine, <1>mapped, <1>leaked, <1>bin, <1>watermark, <1>pc, <1>mode, <1>chain, <1>virgin, <1>own, <1>rel, <1>popped, <1>floor,
         <2>8 DEF TypeOK, ActiveSpan
  <1>2. CASE AllocBin(t)
    <2>1. bin[t] # <<>>
      BY <1>2 DEF AllocBin
    <2>2. Last(bin[t]) \in Addr /\ Front(bin[t]) \in Seq(Addr) /\ Len(bin[t]) - 1 \in Nat
      BY <1>b, <2>1, PopTop, PopLen
    <2>3. active' \in [Thread -> ActiveSpan]
      BY <1>2, <1>active, <1>x DEF AllocBin
    <2>4. bin' \in [Thread -> Seq(Addr)]
      BY <1>2, <1>bin, <2>2 DEF AllocBin
    <2>5. watermark' \in [Thread -> Nat]
      BY <1>2, <1>watermark, <2>2 DEF AllocBin, Min2
    <2>6. live' \in SUBSET Addr
      BY <1>2, <1>live, <2>2 DEF AllocBin, Serve
    <2>7. dirty' \in SUBSET Addr
      BY <1>2, <1>dirty, <2>2 DEF AllocBin, Serve
    <2>8. zeroed' \in SUBSET Addr
      BY <1>2, <1>zeroed, <2>2 DEF AllocBin, Serve
    <2>9. UNCHANGED <<lock, partial, empty, cold, used, free, pristine, mapped, leaked, pc, mode,
                     chain, virgin, own, rel, popped, floor>>
      BY <1>2 DEF AllocBin
    <2> QED
      BY <2>3, <2>4, <2>5, <2>6, <2>7, <2>8, <1>lock, <1>partial, <1>empty, <1>cold, <1>used, <1>free, <1>pristine, <1>mapped, <1>leaked, <1>pc, <1>mode, <1>chain, <1>virgin, <1>own, <1>rel, <1>popped, <1>floor,
         <2>9 DEF TypeOK, ActiveSpan
  <1>3. CASE FlushAll(t)
    <2>1. FlushActive(t) => <<[span |-> active[t].span, blocks |-> Reverse(c)]>> \in Seq(Group)
      <3>1. ASSUME FlushActive(t) PROVE active[t].span \in Base
        BY <1>mapped, <3>1 DEF FlushActive, OwnerInv, ChainOwned
      <3>2. Reverse(c) \in Seq(Addr)
        BY <1>b, Reversed
      <3> QED
        BY <3>1, <3>2, OneGroup
    <2>2. Len(bin[t]) \in Nat /\ Len(bin[t]) \div 2 \in Nat
      <3>1. Len(bin[t]) \in Nat
        BY <1>b, SeqFacts
      <3> QED
        BY <3>1, Halved
    <2>3. active' \in [Thread -> ActiveSpan]
      BY <1>3, <1>active, <1>n DEF FlushAll, FlushActive
    <2>4. rel' \in [Thread -> Seq(Group)]
      BY <1>3, <1>rel, <2>1 DEF FlushAll, FlushActive
    <2>5. pc' \in [Thread -> PcLabels]
      BY <1>3, <1>pc DEF FlushAll, FlushActive
    <2>6. mode' \in [Thread -> {"cache", "direct", "exit"}]
      BY <1>3, <1>mode DEF FlushAll, FlushActive
    <2>7. floor' \in [Thread -> Nat]
      BY <1>3, <1>floor, <2>2 DEF FlushAll
    <2>8. UNCHANGED <<lock, partial, empty, cold, used, free, pristine, mapped, leaked, bin,
                     watermark, chain, virgin, own, popped, live, dirty, zeroed>>
      BY <1>3 DEF FlushAll
    <2> QED
      BY <2>3, <2>4, <2>5, <2>6, <2>7, <1>lock, <1>partial, <1>empty, <1>cold, <1>used, <1>free, <1>pristine, <1>mapped, <1>leaked, <1>bin, <1>watermark, <1>chain, <1>virgin, <1>own, <1>popped, <1>live, <1>dirty, <1>zeroed,
         <2>8 DEF TypeOK, ActiveSpan
  <1>4. CASE Pressure(t)
    <2>1. pc' \in [Thread -> PcLabels]
      BY <1>4, <1>pc DEF Pressure
    <2>2. UNCHANGED <<lock, partial, empty, cold, used, free, pristine, mapped, leaked, active,
                     bin, watermark, mode, chain, virgin, own, rel, popped, floor, live, dirty,
                     zeroed>>
      BY <1>4 DEF Pressure
    <2> QED
      BY <2>1, <1>lock, <1>partial, <1>empty, <1>cold, <1>used, <1>free, <1>pristine, <1>mapped, <1>leaked, <1>active, <1>bin, <1>watermark, <1>mode, <1>chain, <1>virgin, <1>own, <1>rel, <1>popped, <1>floor, <1>live, <1>dirty, <1>zeroed,
         <2>2 DEF TypeOK, ActiveSpan
  <1>5. CASE FillBlock(t)
    <2>1. PICK b : b = Head(partial)
      OBVIOUS
    <2>2. b \in Base /\ free[b] \in Seq(Addr) /\ free[b] # <<>> /\ Head(free[b]) \in Addr
      BY <1>5, <2>1, FillTakes
    <2>3. Tail(free[b]) \in Seq(Addr)
      BY <2>2, PopHead
    <2>4. Append(chain[t], Head(free[b])) \in Seq(Addr)
      BY <1>b, <2>2, PushTop
    <2>5. partial # <<>> /\ Tail(partial) \in Seq(Base)
      BY <1>5, <1>partial, PopHead DEF FillBlock
    <2>6. partial' \in Seq(Base)
      BY <1>5, <1>partial, <2>5 DEF FillBlock
    <2>7. used' \in [Base -> Nat]
      BY <1>5, <1>used, <2>1, <2>2 DEF FillBlock
    <2>8. free' \in [Base -> Seq(Addr)]
      BY <1>5, <1>free, <2>1, <2>2, <2>3 DEF FillBlock
    <2>9. chain' \in [Thread -> Seq(Addr)]
      BY <1>5, <1>chain, <2>1, <2>4 DEF FillBlock
    <2>10. virgin' \in [Thread -> BOOLEAN]
      BY <1>5, <1>virgin DEF FillBlock
    <2>11. UNCHANGED <<lock, empty, cold, pristine, mapped, leaked, active, bin, watermark, pc,
                     mode, own, rel, popped, floor, live, dirty, zeroed>>
      BY <1>5 DEF FillBlock
    <2> QED
      BY <2>6, <2>7, <2>8, <2>9, <2>10, <1>lock, <1>empty, <1>cold, <1>pristine, <1>mapped, <1>leaked, <1>active, <1>bin, <1>watermark, <1>pc, <1>mode, <1>own, <1>rel, <1>popped, <1>floor, <1>live, <1>dirty, <1>zeroed,
         <2>11 DEF TypeOK, ActiveSpan
  <1>6. CASE FillDone(t)
    <2>1. PICK s : s = chain[t]
      OBVIOUS
    <2>2. s \in Seq(Addr) /\ s # <<>>
      <3>1. partial # <<>> \/ s # <<>>
        BY <1>6, <2>1 DEF FillDone, FillInv
      <3>2. Len(s) = RefillBatch => s # <<>>
        BY <1>b, <2>1, SpanHeapAssumption
      <3> QED
        BY <1>6, <1>b, <2>1, <3>1, <3>2 DEF FillDone
    <2>3. Last(s) \in ToSet(s) /\ Front(s) \in Seq(Addr) /\ Len(s) - 1 \in Nat
      BY <2>2, PopTop, PopLen
    <2>4. Last(s) \in Addr /\ Of(Last(s)) \in Base
      BY <1>f, <2>1, <2>3, CachedOut
    <2>5. \A n \in Nat : [span |-> Of(Last(s)), chain |-> Front(s), virgin |-> n] \in ActiveSpan
      BY <2>3, <2>4 DEF ActiveSpan
    <2>6. (IF virgin[t] THEN Len(s) - 1 ELSE 0) \in Nat
      BY <2>3
    <2>7. <<>> \in Seq(Addr)
      OBVIOUS
    <2>8. lock' \in Thread \cup {NoThread}
      BY <1>6, <1>lock DEF FillDone
    <2>9. active' \in [Thread -> ActiveSpan]
      BY <1>6, <1>active, <2>1, <2>5, <2>6 DEF FillDone, Finish
    <2>10. bin' \in [Thread -> Seq(Addr)]
      BY <1>6, <1>bin, <2>1, <2>3 DEF FillDone, Finish
    <2>11. chain' \in [Thread -> Seq(Addr)]
      BY <1>6, <1>chain, <2>1, <2>3, <2>7 DEF FillDone, Finish
    <2>12. watermark' \in [Thread -> Nat]
      BY <1>6, <1>watermark, <2>1, <2>6 DEF FillDone, Finish
    <2>13. pc' \in [Thread -> PcLabels]
      BY <1>6, <1>pc DEF FillDone, Finish
    <2>14. mode' \in [Thread -> {"cache", "direct", "exit"}]
      BY <1>6, <1>mode DEF FillDone, Finish
    <2>15. virgin' \in [Thread -> BOOLEAN]
      BY <1>6, <1>virgin DEF FillDone
    <2>16. live' \in SUBSET Addr
      BY <1>6, <1>live, <2>1, <2>4 DEF FillDone, Finish, Serve
    <2>17. dirty' \in SUBSET Addr
      BY <1>6, <1>dirty, <2>1, <2>4 DEF FillDone, Finish, Serve
    <2>18. zeroed' \in SUBSET Addr
      BY <1>6, <1>zeroed, <2>1, <2>4 DEF FillDone, Finish, Serve
    <2>19. UNCHANGED <<partial, empty, cold, used, free, pristine, mapped, leaked, own, rel,
                     popped, floor>>
      BY <1>6 DEF FillDone
    <2> QED
      BY <2>8, <2>9, <2>10, <2>11, <2>12, <2>13, <2>14, <2>15, <2>16, <2>17, <2>18, <1>partial, <1>empty, <1>cold, <1>used, <1>free, <1>pristine, <1>mapped, <1>leaked, <1>own, <1>rel, <1>popped, <1>floor,
         <2>19 DEF TypeOK, ActiveSpan
  <1>7. CASE MapSpan(t)
    <2>1. \A b \in Base : Carved(b) \in Seq(Addr)
      BY CarvedFacts
    <2>2. mapped' \in SUBSET Base
      BY <1>7, <1>mapped DEF MapSpan
    <2>3. used' \in [Base -> Nat]
      BY <1>7, <1>used DEF MapSpan
    <2>4. pristine' \in SUBSET Base
      BY <1>7, <1>pristine DEF MapSpan
    <2>5. own' \in [Thread -> SUBSET Base]
      BY <1>7, <1>own DEF MapSpan
    <2>6. dirty' \in SUBSET Addr
      BY <1>7, <1>dirty DEF MapSpan
    <2>7. free' \in [Base -> Seq(Addr)]
      BY <1>7, <1>free, <2>1 DEF MapSpan
    <2>8. pc' \in [Thread -> PcLabels]
      BY <1>7, <1>pc DEF MapSpan
    <2>9. UNCHANGED <<lock, partial, empty, cold, leaked, active, bin, watermark, mode, chain,
                     virgin, rel, popped, floor, live, zeroed>>
      BY <1>7 DEF MapSpan
    <2> QED
      BY <2>2, <2>3, <2>4, <2>5, <2>6, <2>7, <2>8, <1>lock, <1>partial, <1>empty, <1>cold, <1>leaked, <1>active, <1>bin, <1>watermark, <1>mode, <1>chain, <1>virgin, <1>rel, <1>popped, <1>floor, <1>live, <1>zeroed,
         <2>9 DEF TypeOK, ActiveSpan
  <1>8. CASE MapFails(t)
    <2>1. virgin' \in [Thread -> BOOLEAN]
      BY <1>8, <1>virgin DEF MapFails
    <2>2. pc' \in [Thread -> PcLabels]
      BY <1>8, <1>pc DEF MapFails
    <2>3. mode' \in [Thread -> {"cache", "direct", "exit"}]
      BY <1>8, <1>mode DEF MapFails
    <2>4. UNCHANGED <<lock, partial, empty, cold, used, free, pristine, mapped, leaked, active,
                     bin, watermark, chain, own, rel, popped, floor, live, dirty, zeroed>>
      BY <1>8 DEF MapFails
    <2> QED
      BY <2>1, <2>2, <2>3, <1>lock, <1>partial, <1>empty, <1>cold, <1>used, <1>free, <1>pristine, <1>mapped, <1>leaked, <1>active, <1>bin, <1>watermark, <1>chain, <1>own, <1>rel, <1>popped, <1>floor, <1>live, <1>dirty, <1>zeroed,
         <2>4 DEF TypeOK, ActiveSpan
  <1>9. CASE LinkSpan(t)
    <2>1. \A b \in own[t] : <<b>> \o partial \in Seq(Base)
      BY <1>own, <1>partial, PushHead
    <2>2. partial' \in Seq(Base)
      BY <1>9, <1>partial, <2>1 DEF LinkSpan
    <2>3. own' \in [Thread -> SUBSET Base]
      BY <1>9, <1>own DEF LinkSpan
    <2>4. lock' \in Thread \cup {NoThread}
      BY <1>9, <1>lock DEF LinkSpan
    <2>5. pc' \in [Thread -> PcLabels]
      BY <1>9, <1>pc DEF LinkSpan
    <2>6. UNCHANGED <<empty, cold, used, free, pristine, mapped, leaked, active, bin, watermark,
                     mode, chain, virgin, rel, popped, floor, live, dirty, zeroed>>
      BY <1>9 DEF LinkSpan
    <2> QED
      BY <2>2, <2>3, <2>4, <2>5, <1>empty, <1>cold, <1>used, <1>free, <1>pristine, <1>mapped, <1>leaked, <1>active, <1>bin, <1>watermark, <1>mode, <1>chain, <1>virgin, <1>rel, <1>popped, <1>floor, <1>live, <1>dirty, <1>zeroed,
         <2>6 DEF TypeOK, ActiveSpan
  <1>10. CASE GiveBack(t)
    <2>1. Last(chain[t]) \in Outside /\ Front(chain[t]) \in Seq(Addr)
      <3>1. chain[t] # <<>>
        BY <1>10, <1>l DEF GiveBack, LocalsOf
      <3> QED
        BY <1>b, <3>1, PopTop, CachedOut
    <2>2. <<[span |-> Of(Last(chain[t])), blocks |-> <<Last(chain[t])>>]>> \in Seq(Group)
      <3>1. PICK s, b : s = <<Last(chain[t])>> /\ b = Of(Last(chain[t]))
        OBVIOUS
      <3>2. s \in Seq(Addr) /\ b \in Base
        BY <1>f, <2>1, <3>1, OneSeq
      <3> QED
        BY <3>1, <3>2, OneGroup
    <2>3. rel' \in [Thread -> Seq(Group)]
      BY <1>10, <1>rel, <2>2 DEF GiveBack
    <2>4. chain' \in [Thread -> Seq(Addr)]
      BY <1>10, <1>chain, <2>1 DEF GiveBack
    <2>5. pc' \in [Thread -> PcLabels]
      BY <1>10, <1>pc DEF GiveBack
    <2>6. UNCHANGED <<lock, partial, empty, cold, used, free, pristine, mapped, leaked, active,
                     bin, watermark, mode, virgin, own, popped, floor, live, dirty, zeroed>>
      BY <1>10 DEF GiveBack
    <2> QED
      BY <2>3, <2>4, <2>5, <1>lock, <1>partial, <1>empty, <1>cold, <1>used, <1>free, <1>pristine, <1>mapped, <1>leaked, <1>active, <1>bin, <1>watermark, <1>mode, <1>virgin, <1>own, <1>popped, <1>floor, <1>live, <1>dirty, <1>zeroed,
         <2>6 DEF TypeOK, ActiveSpan
  <1>11. CASE Trim(t)
    <2>1. FlushActive(t) => <<[span |-> active[t].span, blocks |-> Reverse(c)]>> \in Seq(Group)
      <3>1. ASSUME FlushActive(t) PROVE active[t].span \in Base
        BY <1>mapped, <3>1 DEF FlushActive, OwnerInv, ChainOwned
      <3>2. Reverse(c) \in Seq(Addr)
        BY <1>b, Reversed
      <3> QED
        BY <3>1, <3>2, OneGroup
    <2>2. Len(bin[t]) \in Nat /\ Len(bin[t]) \div 2 \in Nat
      <3>1. Len(bin[t]) \in Nat
        BY <1>b, SeqFacts
      <3> QED
        BY <3>1, Halved
    <2>3. \E k \in Nat : floor' = [floor EXCEPT ![t] = k]
      BY <1>11, <2>2 DEF Trim
    <2>4. active' \in [Thread -> ActiveSpan]
      BY <1>11, <1>active, <1>n DEF Trim, FlushActive
    <2>5. rel' \in [Thread -> Seq(Group)]
      BY <1>11, <1>rel, <2>1 DEF Trim, FlushActive
    <2>6. pc' \in [Thread -> PcLabels]
      BY <1>11, <1>pc DEF Trim, FlushActive
    <2>7. mode' \in [Thread -> {"cache", "direct", "exit"}]
      BY <1>11, <1>mode DEF Trim, FlushActive
    <2>8. floor' \in [Thread -> Nat]
      BY <1>floor, <2>3
    <2>9. UNCHANGED <<lock, partial, empty, cold, used, free, pristine, mapped, leaked, bin,
                     watermark, chain, virgin, own, popped, live, dirty, zeroed>>
      BY <1>11 DEF Trim
    <2> QED
      BY <2>4, <2>5, <2>6, <2>7, <2>8, <1>lock, <1>partial, <1>empty, <1>cold, <1>used, <1>free, <1>pristine, <1>mapped, <1>leaked, <1>bin, <1>watermark, <1>chain, <1>virgin, <1>own, <1>popped, <1>live, <1>dirty, <1>zeroed,
         <2>9 DEF TypeOK, ActiveSpan
  <1>12. CASE FlushPop(t)
    <2>1. bin[t] # <<>>
      BY <1>12, <1>b, <1>floor, SeqFacts DEF FlushPop
    <2>2. Last(bin[t]) \in ToSet(bin[t]) /\ Front(bin[t]) \in Seq(Addr) /\ Len(bin[t]) - 1 \in Nat
      BY <1>b, <2>1, PopTop, PopLen
    <2>3. PICK a : a = Last(bin[t])
      OBVIOUS
    <2>4. Of(a) \in mapped /\ a \in BlocksOf(Of(a)) /\ a \in Addr
      BY <2>2, <2>3, CachedOut, OwnerFound DEF HeapInv
    <2>5. a \notin GroupBlocks(rel[t]) /\ GroupsExclusive(rel[t]) /\ GroupsOwned(rel[t])
      BY <2>2, <2>3 DEF HandsInv, ThreadExclusive, OwnerInv
    <2>6. Grouped(rel[t], a) \in Seq(Group)
      BY <1>b, <1>mapped, <2>4, <2>5, GroupedFacts
    <2>7. rel' \in [Thread -> Seq(Group)]
      BY <1>12, <1>rel, <2>3, <2>6 DEF FlushPop
    <2>8. bin' \in [Thread -> Seq(Addr)]
      BY <1>12, <1>bin, <2>2 DEF FlushPop
    <2>9. watermark' \in [Thread -> Nat]
      BY <1>12, <1>watermark, <2>2 DEF FlushPop, Min2
    <2>10. popped' \in [Thread -> Nat]
      BY <1>12, <1>popped DEF FlushPop
    <2>11. pc' \in [Thread -> PcLabels]
      BY <1>12, <1>pc DEF FlushPop
    <2>12. UNCHANGED <<lock, partial, empty, cold, used, free, pristine, mapped, leaked, active,
                     mode, chain, virgin, own, floor, live, dirty, zeroed>>
      BY <1>12 DEF FlushPop
    <2> QED
      BY <2>7, <2>8, <2>9, <2>10, <2>11, <1>lock, <1>partial, <1>empty, <1>cold, <1>used, <1>free, <1>pristine, <1>mapped, <1>leaked, <1>active, <1>mode, <1>chain, <1>virgin, <1>own, <1>floor, <1>live, <1>dirty, <1>zeroed,
         <2>12 DEF TypeOK, ActiveSpan
  <1>13. CASE FlushDone(t)
    <2>1. active' \in [Thread -> ActiveSpan]
      BY <1>13, <1>active, <1>n DEF FlushDone
    <2>2. watermark' \in [Thread -> Nat]
      BY <1>13, <1>watermark DEF FlushDone
    <2>3. floor' \in [Thread -> Nat]
      BY <1>13, <1>floor DEF FlushDone
    <2>4. pc' \in [Thread -> PcLabels]
      BY <1>13, <1>pc DEF FlushDone
    <2>5. mode' \in [Thread -> {"cache", "direct", "exit"}]
      BY <1>13, <1>mode DEF FlushDone
    <2>6. UNCHANGED <<lock, partial, empty, cold, used, free, pristine, mapped, leaked, bin,
                     chain, virgin, own, rel, popped, live, dirty, zeroed>>
      BY <1>13 DEF FlushDone
    <2> QED
      BY <2>1, <2>2, <2>3, <2>4, <2>5, <1>lock, <1>partial, <1>empty, <1>cold, <1>used, <1>free, <1>pristine, <1>mapped, <1>leaked, <1>bin, <1>chain, <1>virgin, <1>own, <1>rel, <1>popped, <1>live, <1>dirty, <1>zeroed,
         <2>6 DEF TypeOK, ActiveSpan
  <1>14. CASE ReleaseGroup(t)
    <2>1. PICK b, s : b = rel[t][1].span /\ s = rel[t][1].blocks
      OBVIOUS
    <2>2. /\ b \in Base /\ used[b] \in Nat /\ Len(s) \in Nat /\ Len(s) <= used[b]
          /\ s \o free[b] \in Seq(Addr)
      BY <1>14, <2>1, ReleaseTakes
    <2>3. ReleaseInner(t, b, s)
      BY <1>14, <2>1 DEF ReleaseGroup
    <2>4. used[b] - Len(s) \in Nat /\ <<>> \in Seq(Addr)
      BY <2>2
    <2>5. Unlinked(b) \in Seq(Base)
      BY <1>partial, UnlinkFacts DEF HeapInv, ListsInv
    <2>6. <<b>> \o partial \in Seq(Base) /\ <<b>> \o empty \in Seq(Base) /\ Append(cold, b) \in Seq(Base)
      BY <1>partial, <1>empty, <1>cold, <2>2, PushHead, PushTop
    <2>7. rel[t] # <<>> /\ Tail(rel[t]) \in Seq(Group)
      BY <1>14, <1>b, <1>l, PopHead DEF ReleaseGroup, LocalsOf
    <2>8. lock' \in Thread \cup {NoThread}
      BY <1>14, <1>lock DEF ReleaseGroup
    <2>9. used' \in [Base -> Nat]
      BY <1>used, <2>2, <2>3, <2>4 DEF ReleaseInner
    <2>10. pristine' \in SUBSET Base
      BY <1>pristine, <2>2, <2>3, <2>4 DEF ReleaseInner
    <2>11. free' \in [Base -> Seq(Addr)]
      BY <1>free, <2>2, <2>3, <2>4 DEF ReleaseInner, Park
    <2>12. partial' \in Seq(Base)
      BY <1>partial, <2>3, <2>5, <2>6 DEF ReleaseInner, Park
    <2>13. empty' \in Seq(Base)
      BY <1>empty, <2>3, <2>6 DEF ReleaseInner, Park
    <2>14. cold' \in Seq(Base)
      BY <1>cold, <2>3, <2>6 DEF ReleaseInner, Park
    <2>15. own' \in [Thread -> SUBSET Base]
      BY <1>own, <2>2, <2>3 DEF ReleaseInner, Park
    <2>16. dirty' \in SUBSET Addr
      BY <1>dirty, <2>2, <2>3 DEF ReleaseInner, Park
    <2>17. rel' \in [Thread -> Seq(Group)]
      BY <1>14, <1>rel, <2>7 DEF ReleaseGroup
    <2>18. pc' \in [Thread -> PcLabels]
      BY <1>14, <1>pc DEF ReleaseGroup, Resume
    <2>19. mode' \in [Thread -> {"cache", "direct", "exit"}]
      BY <1>14, <1>mode DEF ReleaseGroup, Resume
    <2>20. UNCHANGED <<mapped, leaked, active, bin, watermark, chain, virgin, popped, floor, live,
                     zeroed>>
      BY <1>14 DEF ReleaseGroup
    <2> QED
      BY <2>8, <2>9, <2>10, <2>11, <2>12, <2>13, <2>14, <2>15, <2>16, <2>17, <2>18, <2>19, <1>mapped, <1>leaked, <1>active, <1>bin, <1>watermark, <1>chain, <1>virgin, <1>popped, <1>floor, <1>live, <1>zeroed,
         <2>20 DEF TypeOK, ActiveSpan
  <1>15. CASE UnmapSpan(t)
    <2>1. <<>> \in Seq(Addr)
      OBVIOUS
    <2>2. own' \in [Thread -> SUBSET Base]
      BY <1>15, <1>own DEF UnmapSpan
    <2>3. mapped' \in SUBSET Base
      BY <1>15, <1>mapped DEF UnmapSpan
    <2>4. dirty' \in SUBSET Addr
      BY <1>15, <1>dirty DEF UnmapSpan
    <2>5. leaked' \in SUBSET Base
      BY <1>15, <1>leaked, <1>own DEF UnmapSpan
    <2>6. free' \in [Base -> Seq(Addr)]
      BY <1>15, <1>free, <2>1 DEF UnmapSpan
    <2>7. pc' \in [Thread -> PcLabels]
      BY <1>15, <1>pc DEF UnmapSpan, Resume
    <2>8. mode' \in [Thread -> {"cache", "direct", "exit"}]
      BY <1>15, <1>mode DEF UnmapSpan, Resume
    <2>9. UNCHANGED <<lock, partial, empty, cold, used, pristine, active, bin, watermark, chain,
                     virgin, rel, popped, floor, live, zeroed>>
      BY <1>15 DEF UnmapSpan
    <2> QED
      BY <2>2, <2>3, <2>4, <2>5, <2>6, <2>7, <2>8, <1>lock, <1>partial, <1>empty, <1>cold, <1>used, <1>pristine, <1>active, <1>bin, <1>watermark, <1>chain, <1>virgin, <1>rel, <1>popped, <1>floor, <1>live, <1>zeroed,
         <2>9 DEF TypeOK, ActiveSpan
  <1>16. ASSUME NEW m \in {"cache", "direct"}, Take(t, m) PROVE TypeOK'
    <2>1. \A b \in Base : Carved(b) \in Seq(Addr) /\ <<b>> \in Seq(Base)
      BY CarvedFacts, OneSeq
    <2>2. empty # <<>> => Head(empty) \in Base /\ Tail(empty) \in Seq(Base)
      BY <1>empty, PopHead
    <2>3. cold # <<>> => Last(cold) \in Base /\ Front(cold) \in Seq(Base)
      BY <1>cold, PopTop
    <2>4. lock' \in Thread \cup {NoThread}
      BY <1>16, <1>lock DEF Take, BeginTake
    <2>5. virgin' \in [Thread -> BOOLEAN]
      BY <1>16, <1>virgin DEF Take, BeginTake
    <2>6. pc' \in [Thread -> PcLabels]
      BY <1>16, <1>pc DEF Take, BeginTake
    <2>7. mode' \in [Thread -> {"cache", "direct", "exit"}]
      BY <1>16, <1>mode DEF Take, BeginTake
    <2>8. active' \in [Thread -> ActiveSpan]
      BY <1>16, <1>active, <1>x DEF Take, BeginTake
    <2>9. partial' \in Seq(Base)
      BY <1>16, <1>partial, <2>1, <2>2, <2>3 DEF Take, TakePartial, TakeEmpty, TakeCold
    <2>10. empty' \in Seq(Base)
      BY <1>16, <1>empty, <2>1, <2>2, <2>3 DEF Take, TakePartial, TakeEmpty, TakeCold
    <2>11. cold' \in Seq(Base)
      BY <1>16, <1>cold, <2>1, <2>2, <2>3 DEF Take, TakePartial, TakeEmpty, TakeCold
    <2>12. used' \in [Base -> Nat]
      BY <1>16, <1>used, <2>3 DEF Take, TakePartial, TakeEmpty, TakeCold
    <2>13. pristine' \in SUBSET Base
      BY <1>16, <1>pristine, <2>3 DEF Take, TakePartial, TakeEmpty, TakeCold
    <2>14. free' \in [Base -> Seq(Addr)]
      BY <1>16, <1>free, <2>1, <2>3 DEF Take, TakePartial, TakeEmpty, TakeCold
    <2>15. UNCHANGED <<mapped, leaked, bin, watermark, chain, own, rel, popped, floor, live,
                     dirty, zeroed>>
      BY <1>16 DEF Take, BeginTake
    <2> QED
      BY <2>4, <2>5, <2>6, <2>7, <2>8, <2>9, <2>10, <2>11, <2>12, <2>13, <2>14, <1>mapped, <1>leaked, <1>bin, <1>watermark, <1>chain, <1>own, <1>rel, <1>popped, <1>floor, <1>live, <1>dirty, <1>zeroed,
         <2>15 DEF TypeOK, ActiveSpan
  <1>17. ASSUME NEW m \in {"cache", "direct"}, TakeNothing(t, m) PROVE TypeOK'
    <2>1. active' \in [Thread -> ActiveSpan]
      BY <1>17, <1>active, <1>x DEF TakeNothing, BeginTake
    <2>2. virgin' \in [Thread -> BOOLEAN]
      BY <1>17, <1>virgin DEF TakeNothing, BeginTake
    <2>3. pc' \in [Thread -> PcLabels]
      BY <1>17, <1>pc DEF TakeNothing, BeginTake
    <2>4. mode' \in [Thread -> {"cache", "direct", "exit"}]
      BY <1>17, <1>mode DEF TakeNothing, BeginTake
    <2>5. UNCHANGED <<lock, partial, empty, cold, used, free, pristine, mapped, leaked, bin,
                     watermark, chain, own, rel, popped, floor, live, dirty, zeroed>>
      BY <1>17 DEF TakeNothing, BeginTake
    <2> QED
      BY <2>1, <2>2, <2>3, <2>4, <1>lock, <1>partial, <1>empty, <1>cold, <1>used, <1>free, <1>pristine, <1>mapped, <1>leaked, <1>bin, <1>watermark, <1>chain, <1>own, <1>rel, <1>popped, <1>floor, <1>live, <1>dirty, <1>zeroed,
         <2>5 DEF TypeOK, ActiveSpan
  <1>18. ASSUME NEW a \in live, Free(t, a) PROVE TypeOK'
    <2>1. a \in Addr
      BY <1>live
    <2>2. Append(c, a) \in Seq(Addr) /\ Append(bin[t], a) \in Seq(Addr)
      BY <1>b, <2>1, PushTop
    <2>3. [active[t] EXCEPT !.chain = Append(c, a)] \in ActiveSpan
      BY <1>active, <2>2, ActiveTypes DEF ActiveSpan
    <2>4. active' \in [Thread -> ActiveSpan]
      BY <1>18, <1>active, <2>3 DEF Free
    <2>5. bin' \in [Thread -> Seq(Addr)]
      BY <1>18, <1>bin, <2>2 DEF Free
    <2>6. pc' \in [Thread -> PcLabels]
      BY <1>18, <1>pc DEF Free
    <2>7. live' \in SUBSET Addr
      BY <1>18, <1>live, <2>1 DEF Free, Drop
    <2>8. dirty' \in SUBSET Addr
      BY <1>18, <1>dirty, <2>1 DEF Free, Drop
    <2>9. zeroed' \in SUBSET Addr
      BY <1>18, <1>zeroed, <2>1 DEF Free, Drop
    <2>10. UNCHANGED <<lock, partial, empty, cold, used, free, pristine, mapped, leaked,
                     watermark, mode, chain, virgin, own, rel, popped, floor>>
      BY <1>18 DEF Free
    <2> QED
      BY <2>4, <2>5, <2>6, <2>7, <2>8, <2>9, <1>lock, <1>partial, <1>empty, <1>cold, <1>used, <1>free, <1>pristine, <1>mapped, <1>leaked, <1>watermark, <1>mode, <1>chain, <1>virgin, <1>own, <1>rel, <1>popped, <1>floor,
         <2>10 DEF TypeOK, ActiveSpan
  <1>19. ASSUME NEW a \in live, FreeDirect(t, a) PROVE TypeOK'
    <2>1. a \in Outside
      BY <1>19, CachedOut
    <2>2. <<[span |-> Of(a), blocks |-> <<a>>]>> \in Seq(Group)
      <3>1. PICK s, b : s = <<a>> /\ b = Of(a)
        OBVIOUS
      <3>2. s \in Seq(Addr) /\ b \in Base
        BY <1>f, <2>1, <3>1, OneSeq
      <3> QED
        BY <3>1, <3>2, OneGroup
    <2>3. rel' \in [Thread -> Seq(Group)]
      BY <1>19, <1>rel, <2>2 DEF FreeDirect
    <2>4. pc' \in [Thread -> PcLabels]
      BY <1>19, <1>pc DEF FreeDirect
    <2>5. mode' \in [Thread -> {"cache", "direct", "exit"}]
      BY <1>19, <1>mode DEF FreeDirect
    <2>6. live' \in SUBSET Addr
      BY <1>19, <1>live, <1>live DEF FreeDirect, Drop
    <2>7. dirty' \in SUBSET Addr
      BY <1>19, <1>dirty, <1>live DEF FreeDirect, Drop
    <2>8. zeroed' \in SUBSET Addr
      BY <1>19, <1>zeroed, <1>live DEF FreeDirect, Drop
    <2>9. UNCHANGED <<lock, partial, empty, cold, used, free, pristine, mapped, leaked, active,
                     bin, watermark, chain, virgin, own, popped, floor>>
      BY <1>19 DEF FreeDirect
    <2> QED
      BY <2>3, <2>4, <2>5, <2>6, <2>7, <2>8, <1>lock, <1>partial, <1>empty, <1>cold, <1>used, <1>free, <1>pristine, <1>mapped, <1>leaked, <1>active, <1>bin, <1>watermark, <1>chain, <1>virgin, <1>own, <1>popped, <1>floor,
         <2>9 DEF TypeOK, ActiveSpan
  <1> QED
    BY <1>1, <1>2, <1>3, <1>4, <1>5, <1>6, <1>7, <1>8, <1>9, <1>10, <1>11, <1>12, <1>13, <1>14,
       <1>15, <1>16, <1>17, <1>18, <1>19
    DEF Call, Continue

\* A parked cache is handed over whole to a thread with nothing cached.
LEMMA AdoptStep ==
  ASSUME SafetyInv, NEW t \in Thread, NEW u \in Thread, Adopt(t, u)
  PROVE  SafetyInv' /\ Outside' = Outside
  <1>1. /\ TypeOK /\ LockInv /\ LocalsInv /\ FillInv /\ HeapInv /\ OwnerInv /\ HandsInv
    BY DEF SafetyInv, HeapInv
  <1>2. /\ t # u /\ pc[t] = "idle" /\ pc[u] = "idle" /\ active[t].chain = <<>> /\ bin[t] = <<>>
        /\ active' = [active EXCEPT ![t] = active[u], ![u] = NoActive]
        /\ bin' = [bin EXCEPT ![t] = bin[u], ![u] = <<>>]
        /\ watermark' = [watermark EXCEPT ![t] = watermark[u], ![u] = 0]
        /\ UNCHANGED <<lock, listVars, spanVars, osVars, localVars, progVars>>
    BY DEF Adopt
  <1>3. UNCHANGED <<pc, mode, chain, virgin, own, rel, popped, floor, live, dirty, zeroed,
                    partial, empty, cold, used, free, pristine, mapped, leaked>>
    BY <1>2 DEF localVars, takeVars, flushVars, progVars, listVars, spanVars, osVars
  <1>4. /\ active \in [Thread -> ActiveSpan] /\ bin \in [Thread -> Seq(Addr)]
        /\ watermark \in [Thread -> Nat] /\ NoActive \in ActiveSpan /\ NoActive.chain = <<>>
        /\ <<>> \in Seq(Addr)
    <2>1. active \in [Thread -> ActiveSpan] /\ bin \in [Thread -> Seq(Addr)] /\ watermark \in [Thread -> Nat]
      BY <1>1 DEF TypeOK, ActiveSpan
    <2>2. NoActive \in ActiveSpan /\ NoActive.chain = <<>>
      BY DEF ActiveSpan, NoActive
    <2>3. <<>> \in Seq(Addr)
      OBVIOUS
    <2> QED
      BY <2>1, <2>2, <2>3
  <1>5. /\ active'[t] = active[u] /\ active'[u] = NoActive /\ bin'[t] = bin[u] /\ bin'[u] = <<>>
        /\ \A v \in Thread : v # t /\ v # u => active'[v] = active[v] /\ bin'[v] = bin[v]
    BY <1>2, <1>4
  <1>6. TypeOK'
    <2>1. active' \in [Thread -> ActiveSpan]
      BY <1>2, <1>4
    <2>2. bin' \in [Thread -> Seq(Addr)]
      BY <1>2, <1>4
    <2>3. watermark' \in [Thread -> Nat]
      BY <1>2, <1>4
    <2> QED
      BY <1>1, <1>2, <1>3, <2>1, <2>2, <2>3 DEF TypeOK, ActiveSpan
  <1>7. LockInv' /\ FillInv'
    BY <1>1, <1>2, <1>3 DEF LockInv, FillInv
  <1>8. LocalsOf(t) /\ LocalsOf(u) /\ mode[t] = "cache" /\ mode[u] = "cache"
    BY <1>1, <1>2 DEF LocalsInv, LocalsOf
  <1>9. LocalsInv'
    <2>1. LocalsOf(t)'
      BY <1>2, <1>3, <1>5, <1>8 DEF LocalsOf
    <2>2. LocalsOf(u)'
      BY <1>2, <1>3, <1>5, <1>8 DEF LocalsOf
    <2>3. ASSUME NEW v \in Thread, v # t, v # u PROVE LocalsOf(v)'
      BY <1>1, <1>3, <1>5, <2>3 DEF LocalsInv, LocalsOf
    <2> QED
      BY <2>1, <2>2, <2>3 DEF LocalsInv
  <1>10. chain[t] = <<>> /\ chain[u] = <<>> /\ rel[t] = <<>> /\ rel[u] = <<>>
    BY <1>2, <1>8 DEF LocalsOf
  <1>11. /\ Cached(t)' = Cached(u) /\ Cached(u)' = {} /\ Cached(t) = {}
         /\ \A v \in Thread : v # t /\ v # u => Cached(v)' = Cached(v)
    BY <1>2, <1>3, <1>4, <1>5, <1>10, EmptySet, NoGroups DEF Cached
  <1>12. /\ \A v \in Thread : ThreadExclusive(v) /\ Cached(v) \cap live = {}
         /\ \A v, w \in Thread : v # w => Cached(v) \cap Cached(w) = {}
    BY <1>1 DEF HandsInv
  <1>13. \A v \in Thread : ThreadExclusive(v)'
    <2>1. ThreadExclusive(t)'
      <3>1. ThreadExclusive(u)
        BY <1>12
      <3> QED
        BY <1>3, <1>5, <1>10, <3>1 DEF ThreadExclusive
    <2>2. ThreadExclusive(u)'
      BY <1>3, <1>4, <1>5, <1>10, EmptySet, EmptyInjective, NoGroups DEF ThreadExclusive
    <2>3. ASSUME NEW v \in Thread, v # t, v # u PROVE ThreadExclusive(v)'
      BY <1>3, <1>5, <1>12, <2>3 DEF ThreadExclusive
    <2> QED
      BY <2>1, <2>2, <2>3
  <1>14. HandsInv'
    <2>1. \A v \in Thread : Cached(v)' \cap live' = {}
      BY <1>3, <1>11, <1>12
    <2>2. ASSUME NEW v \in Thread, NEW w \in Thread, v # w PROVE Cached(v)' \cap Cached(w)' = {}
      BY <1>11, <1>12, <2>2
    <2> QED
      BY <1>13, <2>1, <2>2 DEF HandsInv
  <1>15. Outside' = Outside
    <2>1. ASSUME NEW a PROVE (\E v \in Thread : a \in Cached(v)') <=> (\E v \in Thread : a \in Cached(v))
      BY <1>11
    <2> QED
      BY <1>3, <2>1 DEF Outside
  <1>16. HeapInv'
    BY <1>1, <1>2, <1>3, <1>15, HeapStay
  <1>17. OwnerInv'
    <2>1. ASSUME NEW v \in Thread PROVE ChainOwned(active[v])' /\ GroupsOwned(rel[v])'
      <3>1. ChainOwned(active[v]) /\ ChainOwned(active[u]) /\ GroupsOwned(rel[v])
        BY <1>1 DEF OwnerInv
      <3>2. GroupsOwned(rel[v])'
        BY <1>3, <3>1 DEF GroupsOwned, BlocksOf
      <3>3. active'[v] = active[v] \/ active'[v] = active[u] \/ active'[v].chain = <<>>
        BY <1>4, <1>5
      <3>4. ChainOwned(active[v])'
        BY <1>3, <3>1, <3>3 DEF ChainOwned, BlocksOf
      <3> QED
        BY <3>2, <3>4
    <2> QED
      BY <2>1 DEF OwnerInv
  <1> QED
    BY <1>6, <1>7, <1>9, <1>14, <1>15, <1>16, <1>17 DEF SafetyInv, HeapInv

\* Every step of a thread.
LEMMA ThreadStep ==
  ASSUME SafetyInv, NoOverlap, NEW t \in Thread, Call(t) \/ Continue(t)
  PROVE  SafetyInv'
  <1>1. /\ TypeOK /\ LockInv /\ LocalsInv /\ FillInv /\ HeapInv /\ OwnerInv /\ HandsInv
        /\ ListsInv /\ SpanInv
    BY DEF SafetyInv, HeapInv
  <1>2. TypeOK'
    BY <1>1, TypeStep
  <1>3. LockInv' /\ LocalsInv' /\ FillInv'
    BY <1>1, LockStep, LocalsStep, FillStep
  <1>4. HandsInv' /\ HeapInv'
    BY <1>1, HeapStep
  <1>5. OwnerInv'
    BY <1>1, OwnerStep
  <1> QED
    BY <1>2, <1>3, <1>4, <1>5 DEF SafetyInv, HeapInv

\* A step of nobody.
LEMMA SafeStutter ==
  ASSUME SafetyInv, UNCHANGED vars
  PROVE  SafetyInv'
  <1>1. UNCHANGED <<lock, partial, empty, cold, used, free, pristine, mapped, leaked, active, bin,
                    watermark, pc, mode, chain, virgin, own, rel, popped, floor, live, dirty, zeroed>>
    BY DEF vars, listVars, spanVars, osVars, cacheVars, takeVars, flushVars, localVars, progVars
  <1>2. /\ TypeOK /\ LockInv /\ LocalsInv /\ FillInv /\ HeapInv /\ OwnerInv /\ HandsInv
    BY DEF SafetyInv, HeapInv
  <1>3. TypeOK' /\ LockInv' /\ FillInv'
    BY <1>1, <1>2 DEF TypeOK, LockInv, FillInv
  <1>4. LocalsInv'
    BY <1>1, <1>2 DEF LocalsInv, LocalsOf
  <1>5. OwnerInv'
    BY <1>1, <1>2 DEF OwnerInv, ChainOwned, GroupsOwned, BlocksOf
  <1>6. \A v \in Thread : Cached(v)' = Cached(v) /\ (ThreadExclusive(v)' <=> ThreadExclusive(v))
    BY <1>1 DEF Cached, ThreadExclusive
  <1>7. HandsInv' /\ Outside' = Outside
    BY <1>1, <1>2, <1>6 DEF HandsInv, Outside
  <1>8. HeapInv'
    BY <1>1, <1>2, <1>7, HeapStay DEF listVars, osVars
  <1> QED
    BY <1>3, <1>4, <1>5, <1>7, <1>8 DEF SafetyInv, HeapInv

\* Nothing is mapped or cached at first.
LEMMA InitSafe ==
  ASSUME Init
  PROVE  SafetyInv
  <1>1. /\ lock = NoThread /\ partial = <<>> /\ empty = <<>> /\ cold = <<>>
        /\ mapped = {} /\ leaked = {} /\ live = {} /\ dirty = {} /\ zeroed = {} /\ pristine = {}
        /\ used = [b \in Base |-> 0] /\ free = [b \in Base |-> <<>>]
    BY DEF Init
  <1>2. \A t \in Thread :
          /\ active[t] = NoActive /\ active[t].chain = <<>> /\ bin[t] = <<>> /\ chain[t] = <<>>
          /\ own[t] = {} /\ rel[t] = <<>> /\ pc[t] = "idle" /\ mode[t] = "cache"
    BY DEF Init, NoActive
  <1>3. NoActive \in [span : Base \cup {NoSpan}, chain : Seq(Addr), virgin : Nat]
    BY DEF NoActive
  <1>4. TypeOK
    <2>1. active \in [Thread -> [span : Base \cup {NoSpan}, chain : Seq(Addr), virgin : Nat]]
      BY <1>3 DEF Init
    <2> QED
      BY <1>1, <2>1 DEF Init, TypeOK, PcLabels
  <1>5. LockInv /\ FillInv
    BY <1>1, <1>2, SpanHeapAssumption DEF LockInv, FillInv
  <1>6. LocalsInv
    BY <1>2 DEF LocalsInv, LocalsOf
  <1>7. \A t \in Thread : Cached(t) = {} /\ ThreadExclusive(t)
    BY <1>2, EmptySet, EmptyInjective, NoGroups DEF Cached, ThreadExclusive
  <1>8. HandsInv /\ Outside = {}
    BY <1>1, <1>7 DEF HandsInv, Outside
  <1>9. OwnerInv
    BY <1>2, NoGroups DEF OwnerInv, ChainOwned
  <1>10. OwnSpans = {} /\ Bare = {} /\ Parked = {} /\ ToSet(partial) = {} /\ ToSet(empty) = {} /\ ToSet(cold) = {}
    BY <1>1, <1>2, EmptySet DEF OwnSpans, Bare, Parked
  <1>11. ListsInv
    BY <1>1, <1>2, <1>10, EmptyInjective DEF ListsInv
  <1>12. MappedInv /\ SpanInv
    BY <1>1, <1>8 DEF MappedInv, SpanInv
  <1> QED
    BY <1>4, <1>5, <1>6, <1>8, <1>9, <1>11, <1>12 DEF SafetyInv

-----------------------------------------------------------------------------
(* What the invariant says. *)

\* The master's count is the number of the span's blocks that are out.
LEMMA CountsFollow ==
  ASSUME SafetyInv
  PROVE  CountsExact
  <1>1. TypeOK /\ ListsInv /\ MappedInv /\ SpanInv
    BY DEF SafetyInv
  <1>2. ASSUME NEW b \in mapped
        PROVE  /\ used[b] = Cardinality(BlocksOf(b) \cap Outside)
               /\ b \notin ToSet(cold) \cup leaked => Len(free[b]) + used[b] = SpanLen - 1
    <2>1. /\ b \in Base /\ free[b] \in Seq(Addr) /\ used[b] \in Nat /\ SpanOf(b)
      BY <1>1 DEF TypeOK, SpanInv
    <2>2. CASE b \in Bare
      <3>1. used[b] = 0 /\ BlocksOf(b) \cap Outside = {}
        BY <2>1, <2>2 DEF SpanOf, Parked
      <3> QED
        BY <2>2, <3>1, FS_EmptySet DEF Bare
    <2>3. CASE b \notin Bare
      <3>1. /\ IsInjective(free[b]) /\ ToSet(free[b]) = BlocksOf(b) \ Outside
            /\ used[b] + Len(free[b]) = SpanLen - 1
        BY <2>1, <2>3 DEF SpanOf
      <3>2. IsFiniteSet(BlocksOf(b)) /\ Cardinality(BlocksOf(b)) = SpanLen - 1 /\ SpanLen \in Nat
        BY <2>1, SpanFacts
      <3>3. Cardinality(ToSet(free[b])) = Len(free[b]) /\ Len(free[b]) \in Nat
        BY <2>1, <3>1, ChainCount, SeqFacts
      <3>4. Cardinality(BlocksOf(b) \ ToSet(free[b])) = Cardinality(BlocksOf(b)) - Cardinality(BlocksOf(b) \cap ToSet(free[b]))
        BY <3>2, FS_Difference
      <3>5. BlocksOf(b) \ ToSet(free[b]) = BlocksOf(b) \cap Outside /\ BlocksOf(b) \cap ToSet(free[b]) = ToSet(free[b])
        BY <3>1
      <3>6. Cardinality(BlocksOf(b) \cap Outside) = (SpanLen - 1) - Len(free[b])
        BY <3>2, <3>3, <3>4, <3>5
      <3>7. PICK k, n : k = Len(free[b]) /\ n = used[b]
        OBVIOUS
      <3>8. k \in Nat /\ n \in Nat /\ SpanLen \in Nat /\ n + k = SpanLen - 1
        BY <2>1, <3>1, <3>2, <3>3, <3>7
      <3>9. n = (SpanLen - 1) - k /\ k + n = SpanLen - 1
        BY <3>8
      <3> QED
        BY <3>6, <3>7, <3>9
    <2> QED
      BY <2>2, <2>3
  <1>3. \A a \in Outside : \E b \in mapped : a \in BlocksOf(b)
    BY <1>1 DEF MappedInv
  <1>4. \A b \in OwnSpans \cup leaked : b \in mapped /\ used[b] = 0
    <2>1. OwnSpans \cup leaked \subseteq Parked /\ Parked \subseteq mapped
      BY <1>1 DEF ListsInv, Parked, Bare
    <2> QED
      BY <1>1, <2>1 DEF SpanInv, SpanOf
  <1> QED
    BY <1>2, <1>3, <1>4 DEF CountsExact

\* A mapped span is where the next take or release finds it.
LEMMA PlacesFollow ==
  ASSUME SafetyInv
  PROVE  NoSpanLost
  <1>1. TypeOK /\ ListsInv /\ MappedInv /\ SpanInv
    BY DEF SafetyInv
  <1>2. ASSUME NEW b \in mapped
        PROVE  IF b \in OwnSpans \cup leaked \/ used[b] = SpanLen - 1 THEN Places(b) = {}
               ELSE IF used[b] > 0 THEN Places(b) = {"partial"}
               ELSE \E l \in {"partial", "empty", "cold"} : Places(b) = {l}
    <2>1. /\ b \in Base /\ free[b] \in Seq(Addr) /\ used[b] \in Nat /\ SpanOf(b) /\ SpanLen \in Nat /\ SpanLen > 1
      BY <1>1, SpanFacts DEF TypeOK, SpanInv
    <2>2. Len(free[b]) \in Nat /\ (free[b] = <<>> <=> Len(free[b]) = 0)
      BY <2>1, SeqFacts
    <2>3. /\ Contains(partial, b) <=> b \in ToSet(partial)
          /\ Contains(empty, b) <=> b \in ToSet(empty)
          /\ Contains(cold, b) <=> b \in ToSet(cold)
      BY <1>1, OnList DEF TypeOK
    <2>4. /\ "partial" \in Places(b) <=> b \in ToSet(partial)
          /\ "empty" \in Places(b) <=> b \in ToSet(empty)
          /\ "cold" \in Places(b) <=> b \in ToSet(cold)
          /\ \A l \in Places(b) : l \in {"partial", "empty", "cold"}
      BY <2>3 DEF Places
    <2>5. /\ b \in ToSet(partial) => b \notin Parked
          /\ b \in ToSet(empty) => b \in Parked /\ b \notin OwnSpans /\ b \notin Bare
          /\ b \in ToSet(cold) => b \in Parked /\ b \in Bare /\ b \notin OwnSpans /\ b \notin leaked
          /\ b \in OwnSpans \cup leaked => b \in Parked
          /\ b \in Parked <=> b \in ToSet(empty) \/ b \in OwnSpans \/ b \in ToSet(cold) \/ b \in leaked
          /\ b \in Bare <=> b \in ToSet(cold) \/ b \in leaked
          /\ b \in OwnSpans => b \notin ToSet(empty) /\ b \notin ToSet(cold) /\ b \notin leaked
          /\ b \in leaked => b \notin ToSet(empty) /\ b \notin ToSet(cold)
      BY <1>1 DEF ListsInv, Parked, Bare
    <2>6. /\ b \in Parked => used[b] = 0
          /\ b \notin Bare => used[b] + Len(free[b]) = SpanLen - 1
          /\ b \in ToSet(partial) => free[b] # <<>>
          /\ b \in ToSet(partial) \/ b \in Parked \/ free[b] = <<>>
          /\ b \in Bare => free[b] = <<>>
      BY <2>1 DEF SpanOf
    <2>7. CASE b \in OwnSpans \cup leaked
      BY <2>4, <2>5, <2>7
    <2>8. CASE b \notin OwnSpans \cup leaked /\ used[b] = SpanLen - 1
      <3>1. b \notin Parked /\ b \notin Bare
        BY <2>1, <2>5, <2>6, <2>8
      <3>2. free[b] = <<>>
        BY <2>1, <2>2, <2>6, <2>8, <3>1
      <3> QED
        BY <2>4, <2>5, <2>6, <2>8, <3>1, <3>2
    <2>9. CASE b \notin OwnSpans \cup leaked /\ used[b] # SpanLen - 1 /\ used[b] > 0
      <3>1. b \notin Parked /\ b \notin Bare
        BY <2>1, <2>5, <2>6, <2>9
      <3>2. b \in ToSet(partial)
        BY <2>1, <2>2, <2>6, <2>9, <3>1
      <3>3. Places(b) = {"partial"}
        BY <2>4, <2>5, <3>1, <3>2
      <3> QED
        BY <2>9, <3>3
    <2>10. CASE b \notin OwnSpans \cup leaked /\ used[b] # SpanLen - 1 /\ ~(used[b] > 0)
      <3>1. b \in ToSet(partial) \/ b \in ToSet(empty) \/ b \in ToSet(cold)
        BY <2>1, <2>2, <2>5, <2>6, <2>10
      <3>2. Places(b) = {"partial"} \/ Places(b) = {"empty"} \/ Places(b) = {"cold"}
        BY <2>4, <2>5, <3>1
      <3> QED
        BY <2>10, <3>2
    <2> QED
      BY <2>7, <2>8, <2>9, <2>10
  <1>3. IsInjective(partial) /\ IsInjective(empty) /\ IsInjective(cold)
    BY <1>1 DEF ListsInv
  <1> QED
    BY <1>2, <1>3 DEF NoSpanLost

\* SafetyInv is an invariant of both tiers: whatever the threads do and in
\* whatever order, the lock, the locals of the operations in progress, the span
\* lists, the masters and the chains agree.
THEOREM Safety == NoOverlap => (Spec => []SafetyInv)
  <1> SUFFICES ASSUME NoOverlap PROVE Spec => []SafetyInv
    OBVIOUS
  <1>1. Init => SafetyInv
    BY InitSafe
  <1>2. SafetyInv /\ [Next]_vars => SafetyInv'
    <2> SUFFICES ASSUME SafetyInv, [Next]_vars PROVE SafetyInv'
      OBVIOUS
    <2>1. CASE UNCHANGED vars
      BY <2>1, SafeStutter
    <2>2. ASSUME NEW t \in Thread, Call(t) \/ Continue(t) PROVE SafetyInv'
      BY <2>2, ThreadStep
    <2>3. ASSUME NEW t \in Thread, NEW u \in Thread, Adopt(t, u) PROVE SafetyInv'
      BY <2>3, AdoptStep
    <2> QED
      BY <2>1, <2>2, <2>3 DEF Next
  <1> QED
    BY <1>1, <1>2, PTL DEF Spec

\* Types.
THEOREM TypeCorrect == NoOverlap => (Spec => []TypeOK)
  <1>1. SafetyInv => TypeOK
    BY DEF SafetyInv
  <1> QED
    BY <1>1, Safety, PTL

\* No block is twice cached, or cached and with the program, or out and on the
\* free list of its span.
THEOREM BlocksExclusive == NoOverlap => (Spec => []Exclusive)
  <1>1. SafetyInv => Exclusive
    <2> SUFFICES ASSUME SafetyInv PROVE Exclusive
      OBVIOUS
    <2>1. HandsInv /\ SpanInv
      BY DEF SafetyInv
    <2>2. ASSUME NEW b \in mapped PROVE IsInjective(free[b]) /\ ToSet(free[b]) \cap Outside = {}
      <3>1. SpanOf(b)
        BY <2>1 DEF SpanInv
      <3> QED
        BY <3>1, EmptySet DEF SpanOf
    <2> QED
      BY <2>1, <2>2 DEF Exclusive, HandsInv
  <1> QED
    BY <1>1, Safety, PTL

\* Every master counts its blocks exactly, and no block outlives its span.
THEOREM CountsCorrect == NoOverlap => (Spec => []CountsExact)
  <1>1. SafetyInv => CountsExact
    BY CountsFollow
  <1> QED
    BY <1>1, Safety, PTL

\* No mapped span is ever forgotten, and none is on two lists.
THEOREM SpansFound == NoOverlap => (Spec => []NoSpanLost)
  <1>1. SafetyInv => NoSpanLost
    BY PlacesFollow
  <1> QED
    BY <1>1, Safety, PTL

\* release_blocks is only given blocks of the span it is given: the requirement
\* its doc comment states, for the tier that compares spans, and for the one that
\* compares addresses while bases do not overlap.
THEOREM ReleasesCorrect == NoOverlap => (Spec => []ReleasesToOwner)
  <1>1. SafetyInv => ReleasesToOwner
    BY DEF SafetyInv, OwnerInv, GroupsOwned, ReleasesToOwner
  <1> QED
    BY <1>1, Safety, PTL

-----------------------------------------------------------------------------
(* The contract.  ZeroInv is inductive relative to SafetyInv. *)

\* The first n blocks of the chain s are outside the set d.
Below(s, n, d) == n <= Len(s) /\ \A i \in 1 .. n : s[i] \notin d

\* A claim about nothing.
LEMMA NoClaim ==
  ASSUME NEW S, NEW s \in Seq(S), NEW d
  PROVE  Below(s, 0, d)
  BY SeqFacts DEF Below

\* A claim survives writes to other blocks.
LEMMA ClaimStays ==
  ASSUME NEW S, NEW s \in Seq(S), NEW n \in Nat, NEW d, NEW e, NEW x,
         Below(s, n, d), e \subseteq d \cup x, ToSet(s) \cap x = {}
  PROVE  Below(s, n, e)
  <1>1. Len(s) \in Nat /\ n <= Len(s) /\ \A i \in 1 .. n : s[i] \notin d
    BY SeqFacts DEF Below
  <1>2. \A i \in 1 .. n : s[i] \in ToSet(s)
    BY <1>1, SeqFacts DEF ToSet
  <1> QED
    BY <1>1, <1>2 DEF Below

\* The block on top is taken and written to.
LEMMA ClaimPops ==
  ASSUME NEW S, NEW s \in Seq(S), s # <<>>, IsInjective(s), NEW n \in Nat, NEW d, NEW e,
         Below(s, n, d), e \subseteq d \cup {Last(s)}
  PROVE  /\ Below(Front(s), Min2(n, Len(s) - 1), e)
         /\ Len(s) - 1 < n => Last(s) \notin d
  <1>1. /\ Front(s) \in Seq(S) /\ Len(Front(s)) = Len(s) - 1 /\ Len(s) \in Nat /\ Len(s) > 0
        /\ \A i \in 1 .. Len(s) - 1 : Front(s)[i] = s[i]
        /\ Last(s) = s[Len(s)] /\ Last(s) \notin ToSet(Front(s))
    BY PopTop
  <1>2. n <= Len(s) /\ \A i \in 1 .. n : s[i] \notin d
    BY DEF Below
  <1>3. Len(s) - 1 < n => Last(s) \notin d
    BY <1>1, <1>2
  <1>4. \A i \in 1 .. Len(s) - 1 : Front(s)[i] \in ToSet(Front(s))
    BY <1>1, SeqFacts DEF ToSet
  <1>5. PICK m : m = Min2(n, Len(s) - 1)
    OBVIOUS
  <1>6. m \in Nat /\ m <= n /\ m <= Len(s) - 1
    BY <1>1, <1>5 DEF Min2
  <1>7. ASSUME NEW i \in 1 .. m PROVE Front(s)[i] \notin e
    <2>1. i \in 1 .. n /\ i \in 1 .. Len(s) - 1
      BY <1>1, <1>6
    <2> QED
      BY <1>1, <1>2, <1>4, <2>1
  <1> QED
    BY <1>1, <1>3, <1>5, <1>6, <1>7 DEF Below

\* A block is put on top.
LEMMA ClaimPushed ==
  ASSUME NEW S, NEW s \in Seq(S), NEW a \in S, a \notin ToSet(s), NEW n \in Nat, NEW d, NEW e,
         Below(s, n, d), e \subseteq d \cup {a}
  PROVE  Below(Append(s, a), n, e)
  <1>0. PICK x : x = {a}
    OBVIOUS
  <1>1. Below(s, n, e)
    <2>1. ToSet(s) \cap x = {} /\ e \subseteq d \cup x
      BY <1>0
    <2> QED
      BY <2>1, ClaimStays
  <1>2. /\ Len(Append(s, a)) = Len(s) + 1 /\ Len(s) \in Nat
        /\ \A i \in 1 .. Len(s) : Append(s, a)[i] = s[i]
    BY PushTop, SeqFacts
  <1> QED
    BY <1>1, <1>2 DEF Below

\* A clean chain of which the top block is taken and written to.
LEMMA ClaimRest ==
  ASSUME NEW S, NEW s \in Seq(S), s # <<>>, IsInjective(s), NEW d, NEW e,
         ToSet(s) \cap d = {}, e \subseteq d \cup {Last(s)}
  PROVE  Below(Front(s), Len(s) - 1, e)
  <1>1. /\ Front(s) \in Seq(S) /\ Len(Front(s)) = Len(s) - 1 /\ Len(s) \in Nat /\ Len(s) > 0
        /\ ToSet(s) = ToSet(Front(s)) \cup {Last(s)} /\ Last(s) \notin ToSet(Front(s))
    BY PopTop
  <1>2. \A i \in 1 .. Len(s) - 1 : Front(s)[i] \in ToSet(Front(s))
    BY <1>1, SeqFacts DEF ToSet
  <1> QED
    BY <1>1, <1>2 DEF Below

\* The claims of a thread.
LEMMA CleanIs ==
  ASSUME NEW t
  PROVE  /\ CleanOf(t) <=> /\ Below(active[t].chain, active[t].virgin, dirty)
                           /\ Below(bin[t], watermark[t], dirty)
                           /\ virgin[t] => ToSet(chain[t]) \cap dirty = {}
         /\ CleanOf(t)' <=> /\ Below(active'[t].chain, active'[t].virgin, dirty')
                            /\ Below(bin'[t], watermark'[t], dirty')
                            /\ virgin'[t] => ToSet(chain'[t]) \cap dirty' = {}
  BY DEF CleanOf, Below

\* t writes to the blocks x, which it has or the program has: the claims of the
\* other threads stand, and those of the virgin spans.
LEMMA ZeroFrame ==
  ASSUME SafetyInv, ZeroInv, NEW t \in Thread, Others(t), CleanOf(t)',
         NEW x, x \subseteq Cached(t) \cup live, dirty' \subseteq dirty \cup x,
         \A b \in mapped' \cap pristine' :
           \/ b \in mapped /\ b \in pristine /\ ToSet(free'[b]) \subseteq ToSet(free[b])
           \/ ToSet(free'[b]) \cap dirty' = {}
  PROVE  ZeroInv'
  <1>1. TypeOK /\ HandsInv /\ SpanInv
    BY DEF SafetyInv
  <1>2. ASSUME NEW u \in Thread, u # t PROVE CleanOf(u)'
    <2>1. /\ active[u].chain \in Seq(Addr) /\ active[u].virgin \in Nat
          /\ bin[u] \in Seq(Addr) /\ watermark[u] \in Nat
      BY <1>1, ActiveTypes DEF TypeOK
    <2>2. CleanOf(u)
      BY DEF ZeroInv
    <2>3. /\ active'[u] = active[u] /\ bin'[u] = bin[u] /\ watermark'[u] = watermark[u]
          /\ virgin'[u] = virgin[u] /\ chain'[u] = chain[u]
      BY <1>2 DEF Others
    <2>4. Cached(u) \cap x = {}
      BY <1>1, <1>2 DEF HandsInv
    <2>5. ToSet(active[u].chain) \cap x = {} /\ ToSet(bin[u]) \cap x = {} /\ ToSet(chain[u]) \cap x = {}
      BY <2>4 DEF Cached
    <2>6. Below(active[u].chain, active[u].virgin, dirty')
      BY <2>1, <2>2, <2>5, CleanIs, ClaimStays
    <2>7. Below(bin[u], watermark[u], dirty')
      BY <2>1, <2>2, <2>5, CleanIs, ClaimStays
    <2>8. virgin[u] => ToSet(chain[u]) \cap dirty' = {}
      BY <2>2, <2>5 DEF CleanOf
    <2> QED
      BY <2>3, <2>6, <2>7, <2>8, CleanIs
  <1>3. ASSUME NEW b \in mapped' \cap pristine' PROVE ToSet(free'[b]) \cap dirty' = {}
    <2>1. CASE b \in mapped /\ b \in pristine /\ ToSet(free'[b]) \subseteq ToSet(free[b])
      <3>1. ToSet(free[b]) \cap dirty = {}
        BY <2>1 DEF ZeroInv
      <3>2. ToSet(free[b]) \cap Outside = {}
        <4>1. SpanOf(b)
          BY <1>1, <2>1 DEF SpanInv
        <4> QED
          BY <4>1, EmptySet DEF SpanOf
      <3>3. x \subseteq Outside
        BY CachedOut
      <3> QED
        BY <2>1, <3>1, <3>2, <3>3
    <2> QED
      BY <1>3, <2>1
  <1> QED
    BY <1>2, <1>3 DEF ZeroInv

Implements == [Contract!CNext]_(Contract!cvars)
Progress == ZeroInv' /\ Implements

\* malloc and calloc.
LEMMA ServeAllowed ==
  ASSUME NEW a \in Addr, a \notin live, NEW claim, Serve(a, claim), claim => a \notin dirty
  PROVE  Implements
  <1>1. Contract!CMalloc(a) \/ Contract!CCalloc(a)
    BY DEF Serve, Contract!CMalloc, Contract!CCalloc
  <1> QED
    BY <1>1 DEF Implements, Contract!CNext

\* free.
LEMMA DropAllowed ==
  ASSUME NEW a \in Addr, Drop(a)
  PROVE  Implements
  <1>1. Contract!CFree(a)
    BY DEF Drop, Contract!CFree
  <1> QED
    BY <1>1 DEF Implements, Contract!CNext

\* Mapping, purging and unmapping a span nobody has a block of.
LEMMA ReclaimAllowed ==
  ASSUME TypeOK, UNCHANGED <<live, zeroed>>, dirty' \subseteq dirty, (dirty \ dirty') \cap live = {}
  PROVE  Implements
  <1>1. Contract!CReclaim
    BY DEF Contract!CReclaim, TypeOK
  <1> QED
    BY <1>1 DEF Implements, Contract!CNext

\* Nothing the program sees.
LEMMA QuietAllowed ==
  ASSUME UNCHANGED progVars
  PROVE  Implements
  BY DEF Implements, Contract!cvars, progVars

\* The extent of a span with no block out holds nothing of the program's.
LEMMA ExtentUnused ==
  ASSUME TypeOK, MappedInv, NEW b \in mapped, BlocksOf(b) \cap live = {}
  PROVE  Extent(b) \cap live = {}
  <1>1. ASSUME NEW a \in live, a \in Extent(b) PROVE FALSE
    <2>1. a \in Outside
      BY DEF Outside
    <2>2. b = Of(a) /\ a \in BlocksOf(Of(a))
      BY <1>1, <2>1, OwnerFound
    <2> QED
      BY <1>1, <2>2
  <1> QED
    BY <1>1

\* Every step of a thread keeps the claims true and does to the program only what
\* the contract allows.
LEMMA ThreadProgress ==
  ASSUME SafetyInv, ZeroInv, NEW t \in Thread, Call(t) \/ Continue(t)
  PROVE  Progress
  <1> DEFINE c == active[t].chain
  <1>i. TypeOK /\ LocalsInv /\ FillInv /\ HeapInv /\ OwnerInv /\ HandsInv /\ MappedInv /\ SpanInv
    BY DEF SafetyInv, HeapInv
  <1>o. Others(t)
    BY <1>i, OthersStep
  <1>l. LocalsOf(t)
    BY <1>i DEF LocalsInv
  <1>a. /\ active \in [Thread -> [span : Base \cup {NoSpan}, chain : Seq(Addr), virgin : Nat]]
        /\ bin \in [Thread -> Seq(Addr)] /\ chain \in [Thread -> Seq(Addr)]
        /\ watermark \in [Thread -> Nat] /\ virgin \in [Thread -> BOOLEAN]
    BY <1>i DEF TypeOK
  <1>b. /\ c \in Seq(Addr) /\ bin[t] \in Seq(Addr) /\ chain[t] \in Seq(Addr)
        /\ active[t].virgin \in Nat /\ watermark[t] \in Nat
    BY <1>a, <1>i, ActiveTypes
  <1>c. /\ Below(c, active[t].virgin, dirty) /\ Below(bin[t], watermark[t], dirty)
        /\ virgin[t] => ToSet(chain[t]) \cap dirty = {}
    BY CleanIs DEF ZeroInv
  <1>d. /\ IsInjective(c) /\ IsInjective(bin[t]) /\ IsInjective(chain[t])
        /\ ToSet(c) \cap ToSet(bin[t]) = {}
        /\ (ToSet(c) \cup ToSet(bin[t])) \cap ToSet(chain[t]) = {}
        /\ Cached(t) \cap live = {}
        /\ ToSet(c) \subseteq Cached(t) /\ ToSet(bin[t]) \subseteq Cached(t) /\ ToSet(chain[t]) \subseteq Cached(t)
        /\ Cached(t) \subseteq Addr
    <2>1. Cached(t) \subseteq Addr
      BY <1>i, CachedOut, OwnerFound
    <2> QED
      BY <1>i, <2>1 DEF HandsInv, ThreadExclusive, Cached
  <1>e. NoActive.chain = <<>> /\ NoActive.virgin = 0 /\ Below(<<>>, 0, dirty')
    <2>1. NoActive.chain = <<>> /\ NoActive.virgin = 0
      BY DEF NoActive
    <2>2. <<>> \in Seq(Addr)
      OBVIOUS
    <2> QED
      BY <2>1, <2>2, NoClaim
  <1>q. ASSUME UNCHANGED progVars, UNCHANGED <<mapped, pristine, free>>, CleanOf(t)' PROVE Progress
    <2>1. dirty' \subseteq dirty \cup {} /\ {} \subseteq Cached(t) \cup live
      BY <1>q DEF progVars
    <2>2. \A b \in mapped' \cap pristine' : b \in mapped /\ b \in pristine /\ ToSet(free'[b]) \subseteq ToSet(free[b])
      BY <1>q
    <2>3. ZeroInv'
      BY <1>o, <1>q, <2>1, <2>2, ZeroFrame
    <2> QED
      BY <1>q, <2>3, QuietAllowed DEF Progress
  <1>w. ASSUME NEW a \in Cached(t) \cup live, dirty' \subseteq dirty \cup {a}, UNCHANGED <<mapped, pristine, free>>,
               CleanOf(t)', Implements
        PROVE  Progress
    <2>1. {a} \subseteq Cached(t) \cup live
      OBVIOUS
    <2>2. \A b \in mapped' \cap pristine' : b \in mapped /\ b \in pristine /\ ToSet(free'[b]) \subseteq ToSet(free[b])
      BY <1>w
    <2>3. ZeroInv'
      BY <1>o, <1>w, <2>1, <2>2, ZeroFrame
    <2> QED
      BY <1>w, <2>3 DEF Progress
  <1>r. ASSUME UNCHANGED <<live, zeroed>>, dirty' \subseteq dirty, (dirty \ dirty') \cap live = {}, CleanOf(t)',
               \A b \in mapped' \cap pristine' :
                 \/ b \in mapped /\ b \in pristine /\ ToSet(free'[b]) \subseteq ToSet(free[b])
                 \/ ToSet(free'[b]) \cap dirty' = {}
        PROVE  Progress
    <2>1. dirty' \subseteq dirty \cup {} /\ {} \subseteq Cached(t) \cup live
      BY <1>r
    <2>2. ZeroInv'
      BY <1>o, <1>r, <2>1, ZeroFrame
    <2> QED
      BY <1>i, <1>r, <2>2, ReclaimAllowed DEF Progress
  <1>k. ASSUME dirty' \subseteq dirty, active'[t] = active[t] \/ active'[t] = NoActive, bin'[t] = bin[t],
               watermark'[t] = watermark[t] \/ watermark'[t] = 0,
               virgin'[t] => ToSet(chain'[t]) \cap dirty' = {}
        PROVE  CleanOf(t)'
    <2>1. /\ Below(c, active[t].virgin, dirty') /\ Below(bin[t], watermark[t], dirty')
          /\ Below(bin[t], 0, dirty')
      <3>1. dirty' \subseteq dirty \cup {} /\ ToSet(c) \cap {} = {} /\ ToSet(bin[t]) \cap {} = {}
        BY <1>k
      <3> QED
        BY <1>b, <1>c, <3>1, ClaimStays, NoClaim
    <2> QED
      BY <1>e, <1>k, <2>1, CleanIs
  <1>1. CASE AllocActive(t)
    <2>0. PICK a : a = Last(c)
      OBVIOUS
    <2>1. /\ c # <<>> /\ Serve(a, Len(c) - 1 < active[t].virgin)
          /\ active'[t].chain = Front(c) /\ active'[t].virgin = Min2(active[t].virgin, Len(c) - 1)
          /\ UNCHANGED <<mapped, pristine, free>>
          /\ bin'[t] = bin[t] /\ watermark'[t] = watermark[t] /\ chain'[t] = chain[t] /\ virgin'[t] = virgin[t]
      BY <1>1, <1>a, <2>0 DEF AllocActive, spanVars, osVars, localVars, takeVars
    <2> HIDE DEF c
    <2>2. a \in ToSet(c)
      BY <1>b, <2>0, <2>1, PopTop
    <2>3. a \in Addr /\ a \in Cached(t) /\ a \notin live /\ a \notin ToSet(bin[t]) /\ a \notin ToSet(chain[t])
      BY <1>d, <2>2
    <2>4. dirty' \subseteq dirty \cup {a}
      BY <2>1 DEF Serve
    <2>5. /\ Below(Front(c), Min2(active[t].virgin, Len(c) - 1), dirty')
          /\ Len(c) - 1 < active[t].virgin => a \notin dirty
      BY <1>b, <1>c, <1>d, <2>0, <2>1, <2>4, ClaimPops
    <2>6. Below(bin[t], watermark[t], dirty')
      <3>1. ToSet(bin[t]) \cap {a} = {}
        BY <2>3
      <3> QED
        BY <1>b, <1>c, <2>4, <3>1, ClaimStays
    <2>7. virgin[t] => ToSet(chain[t]) \cap dirty' = {}
      BY <1>c, <2>3, <2>4
    <2>8. CleanOf(t)'
      BY <2>1, <2>5, <2>6, <2>7, CleanIs
    <2>9. Implements
      BY <2>1, <2>3, <2>5, ServeAllowed
    <2> QED
      BY <1>w, <2>1, <2>3, <2>4, <2>8, <2>9
  <1>2. CASE AllocBin(t)
    <2>0. PICK a : a = Last(bin[t])
      OBVIOUS
    <2>1. /\ bin[t] # <<>> /\ Serve(a, Len(bin[t]) - 1 < watermark[t]) /\ bin'[t] = Front(bin[t])
          /\ watermark'[t] = Min2(watermark[t], Len(bin[t]) - 1) /\ UNCHANGED <<mapped, pristine, free>>
          /\ active'[t] = active[t] \/ active'[t] = NoActive
          /\ chain'[t] = chain[t] /\ virgin'[t] = virgin[t]
      BY <1>2, <1>a, <2>0 DEF AllocBin, Exhausted, spanVars, osVars, localVars, takeVars
    <2>2. a \in ToSet(bin[t])
      BY <1>b, <2>0, <2>1, PopTop
    <2>3. a \in Addr /\ a \in Cached(t) /\ a \notin live /\ a \notin ToSet(c) /\ a \notin ToSet(chain[t])
      BY <1>d, <2>2
    <2>4. dirty' \subseteq dirty \cup {a}
      BY <2>1 DEF Serve
    <2>5. /\ Below(Front(bin[t]), Min2(watermark[t], Len(bin[t]) - 1), dirty')
          /\ Len(bin[t]) - 1 < watermark[t] => a \notin dirty
      BY <1>b, <1>c, <1>d, <2>0, <2>1, <2>4, ClaimPops
    <2>6. Below(c, active[t].virgin, dirty')
      <3>1. ToSet(c) \cap {a} = {}
        BY <2>3
      <3> QED
        BY <1>b, <1>c, <2>4, <3>1, ClaimStays
    <2>7. virgin[t] => ToSet(chain[t]) \cap dirty' = {}
      BY <1>c, <2>3, <2>4
    <2>8. CleanOf(t)'
      BY <1>e, <2>1, <2>5, <2>6, <2>7, CleanIs
    <2>9. Implements
      BY <2>1, <2>3, <2>5, ServeAllowed
    <2> QED
      BY <1>w, <2>1, <2>3, <2>4, <2>8, <2>9
  <1>3. CASE FlushAll(t)
    <2>1. /\ UNCHANGED progVars /\ UNCHANGED <<mapped, pristine, free>> /\ dirty' \subseteq dirty
          /\ active'[t] = active[t] \/ active'[t] = NoActive
          /\ bin'[t] = bin[t] /\ (watermark'[t] = watermark[t] \/ watermark'[t] = 0)
          /\ virgin'[t] => ToSet(chain'[t]) \cap dirty' = {}
      BY <1>3, <1>a, <1>c DEF FlushAll, FlushActive, spanVars, osVars, cacheVars, localVars, takeVars, progVars
    <2> QED
      BY <1>k, <1>q, <2>1
  <1>4. CASE Pressure(t)
    <2>1. /\ UNCHANGED progVars /\ UNCHANGED <<mapped, pristine, free>> /\ dirty' \subseteq dirty
          /\ active'[t] = active[t] \/ active'[t] = NoActive
          /\ bin'[t] = bin[t] /\ (watermark'[t] = watermark[t] \/ watermark'[t] = 0)
          /\ virgin'[t] => ToSet(chain'[t]) \cap dirty' = {}
      BY <1>4, <1>a, <1>c DEF Pressure, spanVars, osVars, cacheVars, localVars, takeVars, progVars
    <2> QED
      BY <1>k, <1>q, <2>1
  <1>5. CASE FillBlock(t)
    <2>0. PICK b : b = Head(partial)
      OBVIOUS
    <2>1. PICK a : a = Head(free[b])
      OBVIOUS
    <2>2. b \in Base /\ b \in mapped /\ free[b] \in Seq(Addr) /\ free[b] # <<>> /\ a \in Addr
      BY <1>5, <1>i, <2>0, <2>1, FillTakes
    <2>3. /\ free' = [free EXCEPT ![b] = Tail(free[b])] /\ UNCHANGED <<mapped, pristine, live, zeroed, dirty>>
          /\ chain'[t] = Append(chain[t], a)
          /\ active' = active /\ bin' = bin /\ watermark' = watermark
      BY <1>5, <1>a, <2>0, <2>1 DEF FillBlock, osVars, cacheVars, progVars
    <2>v. virgin'[t] => virgin[t] /\ b \in pristine
      <3>1. virgin' = [virgin EXCEPT ![t] = virgin[t] /\ b \in pristine]
        BY <1>5, <2>0, Zenon DEF FillBlock
      <3> QED
        BY <1>a, <3>1, Zenon
    <2>4. ToSet(free[b]) = ToSet(Tail(free[b])) \cup {a} /\ ToSet(chain'[t]) = ToSet(chain[t]) \cup {a}
      BY <1>b, <2>1, <2>2, <2>3, PopHead, PushTop
    <2>5. b \in pristine => a \notin dirty
      BY <2>2, <2>4 DEF ZeroInv
    <2>6. CleanOf(t)'
      BY <1>c, <1>k, <2>3, <2>4, <2>5, <2>v
    <2>7. \A x \in mapped' \cap pristine' : x \in mapped /\ x \in pristine /\ ToSet(free'[x]) \subseteq ToSet(free[x])
      <3>1. free \in [Base -> Seq(Addr)] /\ mapped \subseteq Base
        BY <1>i DEF TypeOK
      <3>2. free'[b] = Tail(free[b]) /\ \A x \in mapped : x # b => free'[x] = free[x]
        BY <2>2, <2>3, <3>1
      <3>3. ToSet(free'[b]) \subseteq ToSet(free[b])
        BY <2>4, <3>2
      <3> QED
        BY <2>3, <3>2, <3>3
    <2> QED
      BY <1>r, <2>3, <2>6, <2>7
  <1>6. CASE FillDone(t)
    <2>0. PICK s, a, k : s = chain[t] /\ a = Last(s) /\ k = (IF virgin[t] THEN Len(s) - 1 ELSE 0)
      OBVIOUS
    <2>1. /\ Serve(a, virgin[t]) /\ UNCHANGED <<mapped, pristine, free>> /\ virgin'[t] = FALSE
      BY <1>6, <1>a, <2>0 DEF FillDone, Finish, osVars, spanVars
    <2>2. s \in Seq(Addr) /\ s # <<>> /\ IsInjective(s)
      <3>1. partial # <<>> \/ s # <<>>
        BY <1>6, <1>i, <2>0 DEF FillDone, FillInv
      <3>2. Len(s) = RefillBatch => s # <<>>
        BY <1>b, <2>0, SpanHeapAssumption
      <3> QED
        BY <1>6, <1>b, <1>d, <2>0, <3>1, <3>2 DEF FillDone
    <2>3. a \in ToSet(s) /\ Front(s) \in Seq(Addr)
      BY <2>0, <2>2, PopTop
    <2>4. a \in Addr /\ a \in Cached(t) /\ a \notin live /\ a \notin ToSet(c) /\ a \notin ToSet(bin[t])
      BY <1>d, <2>0, <2>3
    <2>5. dirty' \subseteq dirty \cup {a} /\ (virgin[t] => a \notin dirty)
      BY <1>c, <2>0, <2>1, <2>3 DEF Serve
    <2>6. Below(Front(s), k, dirty')
      <3>1. CASE virgin[t]
        <4>1. ToSet(s) \cap dirty = {} /\ k = Len(s) - 1
          BY <1>c, <2>0, <3>1
        <4> QED
          BY <2>0, <2>2, <2>5, <4>1, ClaimRest
      <3>2. CASE ~virgin[t]
        BY <2>0, <2>3, <3>2, NoClaim
      <3> QED
        BY <3>1, <3>2
    <2>7. Below(c, active[t].virgin, dirty') /\ Below(bin[t], watermark[t], dirty') /\ Below(bin[t], 0, dirty')
      <3>1. ToSet(c) \cap {a} = {} /\ ToSet(bin[t]) \cap {a} = {}
        BY <2>4
      <3> QED
        BY <1>b, <1>c, <2>5, <3>1, ClaimStays, NoClaim
    <2>8. CleanOf(t)'
      <3>1. \/ active'[t] = active[t] /\ bin'[t] = bin[t] /\ watermark'[t] = watermark[t]
            \/ active'[t].chain = Front(s) /\ active'[t].virgin = k /\ bin'[t] = bin[t] /\ watermark'[t] = 0
            \/ active'[t] = active[t] /\ bin'[t] = Front(s) /\ watermark'[t] = k
        BY <1>6, <1>a, <2>0 DEF FillDone, Finish, cacheVars
      <3> QED
        BY <2>1, <2>6, <2>7, <3>1, CleanIs
    <2>9. Implements
      BY <2>1, <2>4, <2>5, ServeAllowed
    <2> QED
      BY <1>w, <2>1, <2>4, <2>5, <2>8, <2>9
  <1>7. CASE MapSpan(t)
    <2>1. PICK b \in Base :
            /\ \A x \in mapped : Extent(b) \cap Extent(x) = {}
            /\ mapped' = mapped \cup {b} /\ dirty' = dirty \ Extent(b)
            /\ free' = [free EXCEPT ![b] = Carved(b)] /\ pristine' = pristine \cup {b}
      BY <1>7 DEF MapSpan
    <2>2. /\ UNCHANGED <<live, zeroed>> /\ active'[t] = active[t] /\ bin'[t] = bin[t]
          /\ watermark'[t] = watermark[t] /\ virgin'[t] = virgin[t] /\ chain'[t] = chain[t]
      BY <1>7 DEF MapSpan, cacheVars, takeVars
    <2>3. CleanOf(t)'
      BY <1>c, <1>k, <2>1, <2>2
    <2>4. Extent(b) \cap live = {}
      <3>1. ASSUME NEW a \in live, a \in Extent(b) PROVE FALSE
        <4>1. a \in Outside
          BY CachedOut
        <4>2. Of(a) \in mapped /\ Of(a) \in Base /\ a \in BlocksOf(Of(a))
          BY <1>i, <4>1, OwnerFound
        <4>3. a \in Extent(Of(a))
          BY <4>2, SpanFacts
        <4> QED
          BY <2>1, <3>1, <4>2, <4>3
      <3> QED
        BY <3>1
    <2>5. ToSet(Carved(b)) \cap dirty' = {} /\ Extent(b) # {}
      BY <2>1, CarvedFacts, SpanFacts
    <2>6. ASSUME NEW x \in mapped' \cap pristine'
          PROVE  \/ x \in mapped /\ x \in pristine /\ ToSet(free'[x]) \subseteq ToSet(free[x])
                 \/ ToSet(free'[x]) \cap dirty' = {}
      <3>1. free \in [Base -> Seq(Addr)] /\ mapped \subseteq Base
        BY <1>i DEF TypeOK
      <3> QED
        BY <2>1, <2>5, <3>1
    <2>7. dirty' \subseteq dirty /\ (dirty \ dirty') \cap live = {}
      BY <2>1, <2>4
    <2> QED
      BY <1>r, <2>2, <2>3, <2>6, <2>7
  <1>8. CASE MapFails(t)
    <2>1. /\ UNCHANGED progVars /\ UNCHANGED <<mapped, pristine, free>> /\ dirty' \subseteq dirty
          /\ active'[t] = active[t] \/ active'[t] = NoActive
          /\ bin'[t] = bin[t] /\ (watermark'[t] = watermark[t] \/ watermark'[t] = 0)
          /\ virgin'[t] => ToSet(chain'[t]) \cap dirty' = {}
      BY <1>8, <1>a, <1>c DEF MapFails, spanVars, osVars, cacheVars, localVars, takeVars, progVars
    <2> QED
      BY <1>k, <1>q, <2>1
  <1>9. CASE LinkSpan(t)
    <2>1. /\ UNCHANGED progVars /\ UNCHANGED <<mapped, pristine, free>> /\ dirty' \subseteq dirty
          /\ active'[t] = active[t] \/ active'[t] = NoActive
          /\ bin'[t] = bin[t] /\ (watermark'[t] = watermark[t] \/ watermark'[t] = 0)
          /\ virgin'[t] => ToSet(chain'[t]) \cap dirty' = {}
      BY <1>9, <1>a, <1>c DEF LinkSpan, spanVars, osVars, cacheVars, localVars, takeVars, progVars
    <2> QED
      BY <1>k, <1>q, <2>1
  <1>10. CASE GiveBack(t)
    <2>1. chain[t] # <<>>
      BY <1>10, <1>l DEF GiveBack, LocalsOf
    <2>2. ToSet(Front(chain[t])) \subseteq ToSet(chain[t])
      <3>1. PICK s \in Seq(Addr) : s = chain[t]
        BY <1>b
      <3>2. ToSet(s) = ToSet(Front(s)) \cup {Last(s)}
        BY <2>1, <3>1, PopTop
      <3> QED
        BY <3>1, <3>2
    <2>3. /\ UNCHANGED progVars /\ UNCHANGED <<mapped, pristine, free>> /\ dirty' = dirty
          /\ active'[t] = active[t] /\ bin'[t] = bin[t] /\ watermark'[t] = watermark[t]
          /\ virgin'[t] = virgin[t] /\ chain'[t] = Front(chain[t])
      BY <1>10, <1>a DEF GiveBack, spanVars, osVars, cacheVars, progVars
    <2> QED
      BY <1>c, <1>k, <1>q, <2>2, <2>3
  <1>11. CASE Trim(t)
    <2>1. /\ UNCHANGED progVars /\ UNCHANGED <<mapped, pristine, free>> /\ dirty' \subseteq dirty
          /\ active'[t] = active[t] \/ active'[t] = NoActive
          /\ bin'[t] = bin[t] /\ (watermark'[t] = watermark[t] \/ watermark'[t] = 0)
          /\ virgin'[t] => ToSet(chain'[t]) \cap dirty' = {}
      BY <1>11, <1>a, <1>c DEF Trim, FlushActive, spanVars, osVars, cacheVars, localVars, takeVars, progVars
    <2> QED
      BY <1>k, <1>q, <2>1
  <1>12. CASE FlushPop(t)
    <2>1. bin[t] # <<>>
      BY <1>12, <1>b, <1>i, SeqFacts DEF FlushPop, TypeOK
    <2>2. /\ UNCHANGED progVars /\ UNCHANGED <<mapped, pristine, free>> /\ dirty' = dirty
          /\ active'[t] = active[t] /\ bin'[t] = Front(bin[t])
          /\ watermark'[t] = Min2(watermark[t], Len(bin[t]) - 1)
          /\ virgin'[t] = virgin[t] /\ chain'[t] = chain[t]
      BY <1>12, <1>a DEF FlushPop, spanVars, osVars, takeVars, progVars
    <2>3. Below(Front(bin[t]), Min2(watermark[t], Len(bin[t]) - 1), dirty)
      <3>1. dirty \subseteq dirty \cup {Last(bin[t])}
        OBVIOUS
      <3> QED
        BY <1>b, <1>c, <1>d, <2>1, <3>1, ClaimPops
    <2>4. CleanOf(t)'
      BY <1>c, <2>2, <2>3, CleanIs
    <2> QED
      BY <1>q, <2>2, <2>4
  <1>13. CASE FlushDone(t)
    <2>1. /\ UNCHANGED progVars /\ UNCHANGED <<mapped, pristine, free>> /\ dirty' \subseteq dirty
          /\ active'[t] = active[t] \/ active'[t] = NoActive
          /\ bin'[t] = bin[t] /\ (watermark'[t] = watermark[t] \/ watermark'[t] = 0)
          /\ virgin'[t] => ToSet(chain'[t]) \cap dirty' = {}
      BY <1>13, <1>a, <1>c DEF FlushDone, spanVars, osVars, cacheVars, localVars, takeVars, progVars
    <2> QED
      BY <1>k, <1>q, <2>1
  <1>14. CASE ReleaseGroup(t)
    <2>0. PICK b, s : b = rel[t][1].span /\ s = rel[t][1].blocks
      OBVIOUS
    <2>1. b \in Base /\ b \in mapped /\ ReleaseInner(t, b, s)
      BY <1>14, <1>i, <2>0, ReleaseTakes DEF ReleaseGroup
    <2>2. /\ UNCHANGED <<live, zeroed, mapped>> /\ active'[t] = active[t] /\ bin'[t] = bin[t]
          /\ watermark'[t] = watermark[t] /\ virgin'[t] = virgin[t] /\ chain'[t] = chain[t]
      BY <1>14 DEF ReleaseGroup, cacheVars, takeVars, osVars
    <2>3. pristine' = pristine \ {b} /\ \A x \in mapped : x # b => free'[x] = free[x]
      <3>1. free \in [Base -> Seq(Addr)] /\ mapped \subseteq Base
        BY <1>i DEF TypeOK
      <3> QED
        BY <2>1, <3>1 DEF ReleaseInner, Park
    <2>4. dirty' = dirty \/ (dirty' = dirty \ Extent(b) /\ used[b] = Len(s))
      BY <2>1 DEF ReleaseInner, Park
    <2>5. used[b] = Len(s) => Extent(b) \cap live = {}
      <3>1. ASSUME used[b] = Len(s) PROVE BlocksOf(b) \cap live = {}
        <4> DEFINE f == s \o free[b]
        <4>1. /\ f \in Seq(Addr) /\ IsInjective(f) /\ ToSet(f) = BlocksOf(b) \ (Outside \ ToSet(s))
              /\ (used[b] - Len(s)) + Len(f) = SpanLen - 1 /\ used[b] \in Nat
              /\ ToSet(s) \subseteq GroupBlocks(rel[t])
          BY <1>14, <1>i, <2>0, ReleaseTakes
        <4> HIDE DEF f
        <4>2. Len(f) = SpanLen - 1
          BY <3>1, <4>1
        <4>3. ToSet(f) = BlocksOf(b)
          BY <2>1, <4>1, <4>2, ChainFits
        <4>4. ToSet(s) \cap live = {} /\ live \subseteq Outside
          BY <1>d, <4>1, CachedOut DEF Cached
        <4> QED
          BY <4>1, <4>3, <4>4
      <3> QED
        BY <1>i, <2>1, <3>1, ExtentUnused
    <2>6. dirty' \subseteq dirty /\ (dirty \ dirty') \cap live = {}
      BY <2>4, <2>5
    <2>7. CleanOf(t)'
      BY <1>c, <1>k, <2>2, <2>6
    <2>8. \A x \in mapped' \cap pristine' : x \in mapped /\ x \in pristine /\ ToSet(free'[x]) \subseteq ToSet(free[x])
      BY <2>2, <2>3
    <2> QED
      BY <1>r, <2>2, <2>6, <2>7, <2>8
  <1>15. CASE UnmapSpan(t)
    <2>1. PICK b \in own[t] :
            /\ mapped' \subseteq mapped /\ free' = [free EXCEPT ![b] = <<>>]
            /\ dirty' = dirty \/ dirty' = dirty \ Extent(b)
      BY <1>15 DEF UnmapSpan
    <2>2. /\ UNCHANGED <<live, zeroed, pristine>> /\ active'[t] = active[t] /\ bin'[t] = bin[t]
          /\ watermark'[t] = watermark[t] /\ virgin'[t] = virgin[t] /\ chain'[t] = chain[t]
      BY <1>15 DEF UnmapSpan, cacheVars, takeVars
    <2>3. b \in mapped /\ b \notin Bare /\ b \in Parked
      <3>1. b \in OwnSpans
        BY DEF OwnSpans
      <3> QED
        BY <1>i, <3>1 DEF HeapInv, ListsInv, Parked, Bare
    <2>4. SpanOf(b) /\ used[b] = 0
      BY <1>i, <2>3 DEF SpanInv, SpanOf
    <2>5. BlocksOf(b) \cap live = {}
      BY <1>i, <2>3, <2>4, WholeSpan, CachedOut
    <2>6. Extent(b) \cap live = {}
      BY <1>i, <2>3, <2>5, ExtentUnused
    <2>7. dirty' \subseteq dirty /\ (dirty \ dirty') \cap live = {}
      BY <2>1, <2>6
    <2>8. CleanOf(t)'
      BY <1>c, <1>k, <2>2, <2>7
    <2>9. \A x \in mapped' \cap pristine' : x \in mapped /\ x \in pristine /\ ToSet(free'[x]) \subseteq ToSet(free[x])
      <3>1. free \in [Base -> Seq(Addr)] /\ mapped \subseteq Base
        BY <1>i DEF TypeOK
      <3>2. \A x \in mapped : x # b => free'[x] = free[x]
        BY <2>1, <3>1
      <3>3. ToSet(free'[b]) = {}
        BY <2>1, <2>3, <3>1, EmptySet
      <3> QED
        BY <2>1, <2>2, <3>2, <3>3
    <2> QED
      BY <1>r, <2>2, <2>7, <2>8, <2>9
  <1>16. ASSUME NEW m \in {"cache", "direct"}, Take(t, m) PROVE Progress
    <2>1. chain[t] = <<>> /\ ToSet(chain[t]) = {}
      BY <1>16, <1>l, EmptySet DEF Take, BeginTake, LocalsOf
    <2>2. /\ UNCHANGED progVars /\ mapped' = mapped /\ dirty' \subseteq dirty
          /\ active'[t] = active[t] \/ active'[t] = NoActive
          /\ bin'[t] = bin[t] /\ watermark'[t] = watermark[t] /\ chain'[t] = chain[t]
      BY <1>16, <1>a DEF Take, BeginTake, Exhausted, osVars, progVars
    <2>3. CleanOf(t)'
      BY <1>k, <2>1, <2>2
    <2>4. CASE TakePartial \/ TakeEmpty
      BY <1>q, <2>2, <2>3, <2>4 DEF TakePartial, TakeEmpty, spanVars
    <2>5. CASE TakeCold
      <3>1. PICK b : b = Last(cold)
        OBVIOUS
      <3>2. free' = [free EXCEPT ![b] = Carved(b)] /\ pristine' = pristine \ {b}
        BY <2>5, <3>1 DEF TakeCold
      <3>3. \A x \in mapped' \cap pristine' : x \in mapped /\ x \in pristine /\ ToSet(free'[x]) \subseteq ToSet(free[x])
        <4>1. free \in [Base -> Seq(Addr)] /\ mapped \subseteq Base
          BY <1>i DEF TypeOK
        <4> QED
          BY <2>2, <3>2, <4>1
      <3>4. UNCHANGED <<live, zeroed, dirty>>
        BY <2>2 DEF progVars
      <3> QED
        BY <1>r, <2>3, <3>3, <3>4
    <2> QED
      BY <1>16, <2>4, <2>5 DEF Take
  <1>17. ASSUME NEW m \in {"cache", "direct"}, TakeNothing(t, m) PROVE Progress
    <2>1. chain[t] = <<>> /\ ToSet(chain[t]) = {}
      BY <1>17, <1>l, EmptySet DEF TakeNothing, BeginTake, LocalsOf
    <2>2. /\ UNCHANGED progVars /\ mapped' = mapped /\ dirty' \subseteq dirty
          /\ active'[t] = active[t] \/ active'[t] = NoActive
          /\ bin'[t] = bin[t] /\ watermark'[t] = watermark[t] /\ chain'[t] = chain[t]
      BY <1>17, <1>a DEF TakeNothing, BeginTake, Exhausted, osVars, progVars
    <2>3. CleanOf(t)'
      BY <1>k, <2>1, <2>2
    <2> QED
      BY <1>17, <1>q, <2>2, <2>3 DEF TakeNothing, spanVars
  <1>18. ASSUME NEW a \in live, Free(t, a) PROVE Progress
    <2>1. /\ Drop(a) /\ a \in Addr /\ UNCHANGED <<mapped, pristine, free>> /\ dirty' = dirty \cup {a}
          /\ watermark'[t] = watermark[t] /\ virgin'[t] = virgin[t] /\ chain'[t] = chain[t]
      BY <1>18, <1>i DEF Free, Drop, TypeOK, spanVars, osVars, takeVars
    <2>2. a \notin ToSet(c) /\ a \notin ToSet(bin[t]) /\ a \notin ToSet(chain[t]) /\ dirty' \subseteq dirty \cup {a}
      BY <1>d, <2>1
    <2>3. /\ Below(c, active[t].virgin, dirty') /\ Below(bin[t], watermark[t], dirty')
      <3>1. ToSet(c) \cap {a} = {} /\ ToSet(bin[t]) \cap {a} = {}
        BY <2>2
      <3> QED
        BY <1>b, <1>c, <2>2, <3>1, ClaimStays
    <2>4. Below(Append(c, a), active[t].virgin, dirty') /\ Below(Append(bin[t], a), watermark[t], dirty')
      BY <1>b, <1>c, <2>1, <2>2, ClaimPushed
    <2>5. virgin[t] => ToSet(chain[t]) \cap dirty' = {}
      BY <1>c, <2>1, <2>2
    <2>6. CleanOf(t)'
      <3>1. \/ /\ active'[t].chain = Append(c, a) /\ active'[t].virgin = active[t].virgin
               /\ bin'[t] = bin[t]
            \/ active'[t] = active[t] /\ bin'[t] = Append(bin[t], a)
        BY <1>18, <1>a DEF Free
      <3> QED
        BY <2>1, <2>3, <2>4, <2>5, <3>1, CleanIs
    <2>7. Implements
      BY <2>1, DropAllowed
    <2> QED
      BY <1>w, <2>1, <2>2, <2>6, <2>7
  <1>19. ASSUME NEW a \in live, FreeDirect(t, a) PROVE Progress
    <2>1. /\ Drop(a) /\ a \in Addr /\ UNCHANGED <<mapped, pristine, free>> /\ dirty' = dirty \cup {a}
          /\ active'[t] = active[t] /\ bin'[t] = bin[t]
          /\ watermark'[t] = watermark[t] /\ virgin'[t] = virgin[t] /\ chain'[t] = chain[t]
      BY <1>19, <1>i DEF FreeDirect, Drop, TypeOK, spanVars, osVars, cacheVars, takeVars
    <2>2. a \notin ToSet(c) /\ a \notin ToSet(bin[t]) /\ a \notin ToSet(chain[t]) /\ dirty' \subseteq dirty \cup {a}
      BY <1>d, <2>1
    <2>3. /\ Below(c, active[t].virgin, dirty') /\ Below(bin[t], watermark[t], dirty')
      <3>1. ToSet(c) \cap {a} = {} /\ ToSet(bin[t]) \cap {a} = {}
        BY <2>2
      <3> QED
        BY <1>b, <1>c, <2>2, <3>1, ClaimStays
    <2>4. virgin[t] => ToSet(chain[t]) \cap dirty' = {}
      BY <1>c, <2>1, <2>2
    <2>5. CleanOf(t)'
      BY <2>1, <2>3, <2>4, CleanIs
    <2>6. Implements
      BY <2>1, DropAllowed
    <2> QED
      BY <1>w, <2>1, <2>2, <2>5, <2>6
  <1> QED
    BY <1>1, <1>2, <1>3, <1>4, <1>5, <1>6, <1>7, <1>8, <1>9, <1>10, <1>11, <1>12, <1>13, <1>14,
       <1>15, <1>16, <1>17, <1>18, <1>19
    DEF Call, Continue


\* A parked cache is handed over with its claims.
LEMMA AdoptProgress ==
  ASSUME SafetyInv, ZeroInv, NEW t \in Thread, NEW u \in Thread, Adopt(t, u)
  PROVE  Progress
  <1>1. TypeOK /\ LocalsOf(t) /\ LocalsOf(u)
    BY DEF SafetyInv, LocalsInv
  <1>2. /\ t # u /\ pc[t] = "idle" /\ pc[u] = "idle"
        /\ active' = [active EXCEPT ![t] = active[u], ![u] = NoActive]
        /\ bin' = [bin EXCEPT ![t] = bin[u], ![u] = <<>>]
        /\ watermark' = [watermark EXCEPT ![t] = watermark[u], ![u] = 0]
        /\ UNCHANGED <<spanVars, osVars, localVars, progVars>>
    BY DEF Adopt
  <1>3. UNCHANGED <<chain, virgin, dirty, free, pristine, mapped>>
    BY <1>2 DEF localVars, takeVars, progVars, spanVars, osVars
  <1>4. /\ active \in [Thread -> [span : Base \cup {NoSpan}, chain : Seq(Addr), virgin : Nat]]
        /\ bin \in [Thread -> Seq(Addr)] /\ watermark \in [Thread -> Nat]
    BY <1>1 DEF TypeOK
  <1>5. /\ active'[t] = active[u] /\ active'[u] = NoActive /\ bin'[t] = bin[u] /\ bin'[u] = <<>>
        /\ watermark'[t] = watermark[u] /\ watermark'[u] = 0
    BY <1>2, <1>4
  <1>6. \A v \in Thread : v # t /\ v # u =>
          active'[v] = active[v] /\ bin'[v] = bin[v] /\ watermark'[v] = watermark[v]
    BY <1>2, <1>4
  <1>7. ToSet(chain[t]) = {} /\ ToSet(chain[u]) = {}
    BY <1>1, <1>2, EmptySet DEF LocalsOf
  <1>8. \A v \in Thread : CleanOf(v)
    BY DEF ZeroInv
  <1>9. Below(<<>>, 0, dirty) /\ NoActive.chain = <<>> /\ NoActive.virgin = 0
    <2>1. NoActive.chain = <<>> /\ NoActive.virgin = 0
      BY DEF NoActive
    <2>2. <<>> \in Seq(Addr)
      OBVIOUS
    <2> QED
      BY <2>1, <2>2, NoClaim
  <1>10. CleanOf(t)'
    <2>1. Below(active[u].chain, active[u].virgin, dirty) /\ Below(bin[u], watermark[u], dirty)
      BY <1>8, CleanIs
    <2> QED
      BY <1>3, <1>5, <1>7, <2>1, CleanIs
  <1>11. CleanOf(u)'
    BY <1>3, <1>5, <1>7, <1>9, CleanIs
  <1>12. ASSUME NEW v \in Thread, v # t, v # u PROVE CleanOf(v)'
    <2>1. CleanOf(v)
      BY <1>8
    <2> QED
      BY <1>3, <1>6, <1>12, <2>1 DEF CleanOf
  <1>13. ZeroInv'
    <2>1. \A v \in Thread : CleanOf(v)'
      BY <1>10, <1>11, <1>12
    <2> QED
      BY <1>3, <2>1 DEF ZeroInv
  <1> QED
    BY <1>2, <1>13, QuietAllowed DEF Progress

\* A step of the system keeps the claims true and is a step of the contract.
LEMMA StepProgress ==
  ASSUME SafetyInv, ZeroInv, [Next]_vars
  PROVE  Progress
  <1>1. CASE UNCHANGED vars
    <2>1. UNCHANGED <<active, bin, watermark, virgin, chain, dirty, free, pristine, mapped>>
      BY <1>1 DEF vars, cacheVars, localVars, takeVars, progVars, spanVars, osVars
    <2>2. UNCHANGED progVars
      BY <1>1 DEF vars
    <2>3. ZeroInv'
      BY <2>1 DEF ZeroInv, CleanOf
    <2> QED
      BY <2>2, <2>3, QuietAllowed DEF Progress
  <1>2. ASSUME NEW t \in Thread, Call(t) \/ Continue(t) PROVE Progress
    BY <1>2, ThreadProgress
  <1>3. ASSUME NEW t \in Thread, NEW u \in Thread, Adopt(t, u) PROVE Progress
    BY <1>3, AdoptProgress
  <1> QED
    BY <1>1, <1>2, <1>3 DEF Next

\* In the beginning nothing is claimed and the program has nothing.
LEMMA InitClean ==
  ASSUME Init
  PROVE  ZeroInv /\ Contract!CInit
  <1>1. ASSUME NEW t \in Thread PROVE CleanOf(t)
    <2>1. /\ active[t].chain = <<>> /\ active[t].virgin = 0 /\ bin[t] = <<>> /\ watermark[t] = 0
          /\ virgin[t] = FALSE
      BY DEF Init, NoActive
    <2>2. <<>> \in Seq(Addr)
      OBVIOUS
    <2> QED
      BY <2>1, <2>2, NoClaim, CleanIs
  <1> QED
    BY <1>1 DEF Init, ZeroInv, Contract!CInit

\* ZeroInv is an invariant of both tiers: a block that FLAG_VIRGIN, the active
\* chain's count or the bin's watermark vouches for has no byte the program wrote.
THEOREM ZeroClaims == NoOverlap => (Spec => []ZeroInv)
  <1> SUFFICES ASSUME NoOverlap PROVE Spec => []ZeroInv
    OBVIOUS
  <1>1. Init => ZeroInv
    BY InitClean
  <1>2. SafetyInv /\ ZeroInv /\ [Next]_vars => ZeroInv'
    BY StepProgress DEF Progress
  <1> QED
    BY <1>1, <1>2, Safety, PTL DEF Spec

\* Both span tiers implement AllocContract: malloc and calloc hand out blocks
\* nobody has, no block the program has is written to by the allocator, and what
\* calloc returns reads as zero.
THEOREM ContractHolds == NoOverlap => (Spec => ImplementsContract)
  <1> SUFFICES ASSUME NoOverlap PROVE Spec => ImplementsContract
    OBVIOUS
  <1>1. Init => Contract!CInit
    BY InitClean
  <1>2. SafetyInv /\ ZeroInv /\ [Next]_vars => [Contract!CNext]_(Contract!cvars)
    BY StepProgress DEF Progress, Implements
  <1> QED
    BY <1>1, <1>2, Safety, ZeroClaims, PTL DEF Spec, ImplementsContract, Contract!CSpec

=============================================================================
