--------------------------- MODULE CacheBudgetProofs ---------------------------
(***************************************************************************)
(* Proofs about CacheBudget, for any finite set of classes, any batch       *)
(* sizes and any budgets: the byte counters of a thread cache, and of the   *)
(* cache an exited thread left, are exact, and a free leaves the cache      *)
(* within its limits or with nothing to give back.                          *)
(***************************************************************************)
EXTENDS CacheBudget, TLAPS, FiniteSetTheorems, WellFoundedInduction

-----------------------------------------------------------------------------
(* Minima and maxima. *)

\* A set of naturals that is not empty has a least element.
LEMMA MinNat ==
  ASSUME NEW S, S \subseteq Nat, S # {}
  PROVE  Min(S) \in S /\ \A y \in S : Min(S) <= y
  <1> DEFINE R == {ss \in Nat \X Nat : ss[1] < ss[2]}
  <1>1. OpToRel(<, Nat) = R
    BY Zenon DEF OpToRel
  <1>2. IsWellFoundedOn(R, Nat)
    BY <1>1, NatLessThanWellFounded, Zenon
  <1>3. PICK x \in S : \A y \in S : ~(<<y, x>> \in R)
    <2> HIDE DEF R
    <2> QED
      BY <1>2, WFMin, Zenon
  <1>4. ASSUME NEW y \in S, ~(x <= y) PROVE FALSE
    <2>1. y < x /\ y \in Nat /\ x \in Nat
      BY <1>4
    <2>2. <<y, x>> \in R
      BY <2>1
    <2> QED
      BY <1>3, <2>2
  <1> QED
    BY <1>4 DEF Min

\* A bounded one has a greatest.
LEMMA MaxNat ==
  ASSUME NEW S, S \subseteq Nat, S # {}, NEW n \in Nat, \A x \in S : x <= n
  PROVE  Max(S) \in S /\ \A y \in S : Max(S) >= y
  <1> DEFINE D == {y \in Nat : \E x \in S : y = n - x}
  <1>1. D \subseteq Nat /\ D # {}
    <2>1. PICK x \in S : TRUE
      OBVIOUS
    <2>2. n - x \in D
      BY <2>1
    <2> QED
      BY <2>2
  <1>2. Min(D) \in D /\ \A y \in D : Min(D) <= y
    <2> HIDE DEF D
    <2> QED
      BY <1>1, MinNat
  <1>3. PICK x \in S : Min(D) = n - x
    BY <1>2
  <1>4. ASSUME NEW y \in S PROVE x >= y
    <2>1. n - y \in D
      OBVIOUS
    <2>2. n - x <= n - y
      BY <1>2, <1>3, <2>1
    <2> QED
      BY <2>2
  <1> QED
    BY <1>4 DEF Max

\* The subtraction that stops at zero.
LEMMA SaturatingSub ==
  ASSUME NEW a \in Nat, NEW b \in Nat
  PROVE  /\ saturating_sub(a, b) \in Nat
         /\ saturating_sub(a, b) = IF a >= b THEN a - b ELSE 0
  BY DEF saturating_sub, Max

\* The lesser of two numbers.
LEMMA MinTwo ==
  ASSUME NEW a \in Nat, NEW b \in Nat
  PROVE  Min({a, b}) \in Nat /\ Min({a, b}) <= b
  BY DEF Min

-----------------------------------------------------------------------------
(* Bytes as sets. *)

\* The bytes of one class.
LEMMA OneClass ==
  ASSUME NEW c, NEW m \in Nat
  PROVE  IsFiniteSet({c} \X (1 .. m)) /\ Cardinality({c} \X (1 .. m)) = m
  <1>1. IsFiniteSet(1 .. m) /\ Cardinality(1 .. m) = m
    BY FS_Interval
  <1>2. IsFiniteSet({c}) /\ Cardinality({c}) = 1
    BY FS_Singleton
  <1>3. IsFiniteSet({c} \X (1 .. m)) /\ Cardinality({c} \X (1 .. m)) = 1 * m
    BY <1>1, <1>2, FS_Product
  <1> QED
    BY <1>3

\* What is in a set of bytes.
LEMMA InBytes ==
  ASSUME NEW S, NEW n, NEW x
  PROVE  x \in BytesIn(S, n) <=> \E c \in S : x \in {c} \X (1 .. c * n[c])
  BY Zenon DEF BytesIn

\* Finitely many classes have finitely many bytes.
LEMMA BytesFinite ==
  ASSUME NEW S \in SUBSET Class, NEW n, \A c \in S : n[c] \in Nat
  PROVE  /\ IsFiniteSet(BytesIn(S, n)) /\ BinBytes(S, n) \in Nat
  <1> DEFINE Of(c) == {c} \X (1 .. c * n[c])
             F == {Of(c) : c \in S}
  <1>1. IsFiniteSet(S)
    BY CacheBudgetAssumption, FS_Subset
  <1>2. \A c \in S : c * n[c] \in Nat
    BY CacheBudgetAssumption
  <1>3. \A c \in S : IsFiniteSet(Of(c))
    BY <1>2, OneClass
  <1>4. IsFiniteSet(F)
    <2> HIDE DEF Of
    <2>1. [c \in S |-> Of(c)] \in Surjection(S, F)
      BY DEF Surjection
    <2> HIDE DEF F
    <2> QED
      BY <1>1, <2>1, FS_Surjection
  <1>5. IsFiniteSet(UNION F)
    <2> HIDE DEF Of
    <2>1. \A T \in F : IsFiniteSet(T)
      BY <1>3
    <2> HIDE DEF F
    <2> QED
      BY <1>4, <2>1, FS_UNION
  <1>6. UNION F = BytesIn(S, n)
    BY DEF BytesIn
  <1> QED
    BY <1>5, <1>6, FS_CardinalityType DEF BinBytes

\* Bytes of disjoint sets of classes add up.
LEMMA BytesAdd ==
  ASSUME NEW S \in SUBSET Class, NEW T \in SUBSET Class, S \cap T = {},
         NEW n, \A c \in S \cup T : n[c] \in Nat
  PROVE  BinBytes(S \cup T, n) = BinBytes(S, n) + BinBytes(T, n)
  <1>1. /\ IsFiniteSet(BytesIn(S, n)) /\ IsFiniteSet(BytesIn(T, n))
        /\ BinBytes(S, n) \in Nat /\ BinBytes(T, n) \in Nat
    BY BytesFinite
  <1>2. BytesIn(S \cup T, n) = BytesIn(S, n) \cup BytesIn(T, n)
    <2>1. \A x : x \in BytesIn(S \cup T, n) <=> x \in BytesIn(S, n) \/ x \in BytesIn(T, n)
      BY Zenon DEF BytesIn
    <2> QED
      BY <2>1
  <1>3. BytesIn(S, n) \cap BytesIn(T, n) = {}
    <2>1. ASSUME NEW x, x \in BytesIn(S, n), x \in BytesIn(T, n) PROVE FALSE
      <3>1. PICK c \in S : x \in {c} \X (1 .. c * n[c])
        BY <2>1, InBytes
      <3>2. PICK d \in T : x \in {d} \X (1 .. d * n[d])
        BY <2>1, InBytes
      <3>3. x[1] = c /\ x[1] = d
        BY <3>1, <3>2
      <3> QED
        BY <3>3
    <2> QED
      BY <2>1
  <1>4. Cardinality(BytesIn(S, n) \cup BytesIn(T, n))
          = Cardinality(BytesIn(S, n)) + Cardinality(BytesIn(T, n)) - 0
    BY <1>1, <1>3, FS_Union, FS_EmptySet
  <1>5. BinBytes(S \cup T, n) = BinBytes(S, n) + BinBytes(T, n) - 0
    BY <1>2, <1>4, Zenon DEF BinBytes
  <1> QED
    BY <1>1, <1>5

\* The bytes depend only on the lengths.
LEMMA BytesSame ==
  ASSUME NEW S, NEW n, NEW m, \A c \in S : n[c] = m[c]
  PROVE  BinBytes(S, n) = BinBytes(S, m)
  <1>1. \A c \in S : {c} \X (1 .. c * n[c]) = {c} \X (1 .. c * m[c])
    OBVIOUS
  <1>2. BytesIn(S, n) = BytesIn(S, m)
    BY <1>1, Zenon DEF BytesIn
  <1> QED
    BY <1>2 DEF BinBytes

\* One class has its size times its length.
LEMMA BytesOfOne ==
  ASSUME NEW c \in Class, NEW n, n[c] \in Nat
  PROVE  BinBytes({c}, n) = c * n[c]
  <1>1. BytesIn({c}, n) = {c} \X (1 .. c * n[c])
    <2>1. \A x : x \in BytesIn({c}, n) <=> x \in {c} \X (1 .. c * n[c])
      BY Zenon DEF BytesIn
    <2> QED
      BY <2>1
  <1>2. c * n[c] \in Nat
    BY CacheBudgetAssumption
  <1> QED
    BY <1>1, <1>2, OneClass DEF BinBytes

\* The bytes of one class among those of the others.
LEMMA BytesSplit ==
  ASSUME NEW S \in SUBSET Class, NEW c \in S, NEW n, \A d \in S : n[d] \in Nat
  PROVE  /\ BinBytes(S, n) = BinBytes(S \ {c}, n) + c * n[c]
         /\ BinBytes(S \ {c}, n) \in Nat /\ c * n[c] \in Nat
  <1>1. S = (S \ {c}) \cup {c} /\ (S \ {c}) \cap {c} = {}
    OBVIOUS
  <1>2. S \ {c} \in SUBSET Class /\ {c} \in SUBSET Class
    OBVIOUS
  <1>3. BinBytes((S \ {c}) \cup {c}, n) = BinBytes(S \ {c}, n) + BinBytes({c}, n)
    BY <1>1, <1>2, BytesAdd
  <1>4. BinBytes({c}, n) = c * n[c]
    BY BytesOfOne
  <1>5. BinBytes(S \ {c}, n) \in Nat
    BY <1>2, BytesFinite
  <1>6. c * n[c] \in Nat
    BY CacheBudgetAssumption
  <1> QED
    BY <1>1, <1>3, <1>4, <1>5, <1>6

\* Only the length of one class changes.
LEMMA BytesMove ==
  ASSUME NEW S \in SUBSET Class, NEW c \in S, NEW n, NEW m,
         \A d \in S : n[d] \in Nat /\ m[d] \in Nat, \A d \in S \ {c} : m[d] = n[d]
  PROVE  BinBytes(S, m) = BinBytes(S, n) + c * m[c] - c * n[c]
  <1>1. /\ BinBytes(S, n) = BinBytes(S \ {c}, n) + c * n[c]
        /\ BinBytes(S \ {c}, n) \in Nat /\ c * n[c] \in Nat
    BY BytesSplit
  <1>2. BinBytes(S, m) = BinBytes(S \ {c}, m) + c * m[c] /\ c * m[c] \in Nat
    BY BytesSplit
  <1>3. BinBytes(S \ {c}, m) = BinBytes(S \ {c}, n)
    BY BytesSame
  <1> QED
    BY <1>1, <1>2, <1>3

\* No blocks, no bytes.
LEMMA NoBytes ==
  ASSUME NEW S \in SUBSET Class, NEW n, \A c \in S : n[c] = 0
  PROVE  BinBytes(S, n) = 0
  <1>1. \A c \in S : c * n[c] = 0
    BY CacheBudgetAssumption
  <1>2. \A x : x \notin BytesIn(S, n)
    <2> SUFFICES ASSUME NEW x, x \in BytesIn(S, n) PROVE FALSE
      OBVIOUS
    <2>1. PICK c \in S : x \in {c} \X (1 .. c * n[c])
      BY InBytes
    <2> QED
      BY <1>1, <2>1
  <1> QED
    BY <1>2, FS_EmptySet DEF BinBytes

-----------------------------------------------------------------------------
(* Caches whose counters are exact. *)

\* Blocks of a class in a cache: in the bin, and in the tiers' active chain.
Held(k, c) == IF c \in Tiered THEN k.bin[c] + k.act[c] ELSE k.bin[c]

\* The tiers' blocks of a class, as TierBytes counts them.
TierHeld(k) == [c \in Tiered |-> k.bin[c] + k.act[c]]

\* The kinds of the things that are counted.
LEMMA Kinds ==
  /\ \A c \in Class : c \in Nat \ {0}
  /\ Tiered \subseteq Class /\ Small \subseteq Class /\ Class = Small \cup Tiered
  /\ \A c \in Class : c \in Small <=> c \notin Tiered
  /\ \A k \in Cache : \A c \in Class : k.bin[c] \in Nat /\ Held(k, c) \in Nat
  /\ \A k \in Cache : \A c \in Tiered : k.act[c] \in Nat /\ TierHeld(k)[c] = Held(k, c)
  /\ \A k \in Cache : \A c \in Small : Held(k, c) = k.bin[c]
  /\ \A k : TierBytes(k) = BinBytes(Tiered, TierHeld(k))
  BY CacheBudgetAssumption DEF Class, Tiered, Cache, Held, TierHeld, TierBytes

\* What is cached of one class is part of what the counters say.
LEMMA HeldCounted ==
  ASSUME NEW k \in Cache, Exact(k), NEW c \in Class
  PROVE  /\ c * Held(k, c) \in Nat /\ c * Held(k, c) <= k.cached_bytes
         /\ c \in Tiered => c * Held(k, c) <= k.tier_cached_bytes
         /\ k.tier_cached_bytes <= k.cached_bytes
  <1>1. BinBytes(Tiered, TierHeld(k)) \in Nat /\ BinBytes(Small, k.bin) \in Nat
    BY Kinds, BytesFinite
  <1>2. c * Held(k, c) \in Nat
    BY Kinds
  <1>3. CASE c \in Tiered
    <2>1. /\ BinBytes(Tiered, TierHeld(k)) = BinBytes(Tiered \ {c}, TierHeld(k)) + c * TierHeld(k)[c]
          /\ BinBytes(Tiered \ {c}, TierHeld(k)) \in Nat
      BY <1>3, Kinds, BytesSplit
    <2> QED
      BY <1>1, <1>2, <1>3, <2>1, Kinds DEF Exact
  <1>4. CASE c \in Small
    <2>1. /\ BinBytes(Small, k.bin) = BinBytes(Small \ {c}, k.bin) + c * k.bin[c]
          /\ BinBytes(Small \ {c}, k.bin) \in Nat
      BY <1>4, Kinds, BytesSplit
    <2> QED
      BY <1>1, <1>2, <1>4, <2>1, Kinds DEF Exact
  <1> QED
    BY <1>3, <1>4, Kinds

\* A change of one class that moves the counters by the change keeps them exact.
LEMMA CountsMove ==
  ASSUME NEW k \in Cache, Exact(k), NEW j \in Cache, NEW c \in Class,
         \A d \in Class \ {c} : j.bin[d] = k.bin[d],
         \A d \in Tiered \ {c} : j.act[d] = k.act[d],
         j.cached_bytes = k.cached_bytes + c * Held(j, c) - c * Held(k, c),
         j.tier_cached_bytes = IF c \in Tiered
                               THEN k.tier_cached_bytes + c * Held(j, c) - c * Held(k, c)
                               ELSE k.tier_cached_bytes
  PROVE  Exact(j)
  <1>1. /\ BinBytes(Tiered, TierHeld(k)) \in Nat /\ BinBytes(Small, k.bin) \in Nat
        /\ c * Held(k, c) \in Nat /\ c * Held(j, c) \in Nat
    BY Kinds, BytesFinite
  <1>2. CASE c \in Tiered
    <2>1. \A d \in Tiered \ {c} : TierHeld(j)[d] = TierHeld(k)[d]
      BY Kinds DEF TierHeld
    <2>2. BinBytes(Tiered, TierHeld(j))
            = BinBytes(Tiered, TierHeld(k)) + c * TierHeld(j)[c] - c * TierHeld(k)[c]
      BY <1>2, <2>1, Kinds, BytesMove
    <2>3. BinBytes(Small, j.bin) = BinBytes(Small, k.bin)
      BY <1>2, Kinds, BytesSame
    <2> QED
      BY <1>1, <1>2, <2>2, <2>3, Kinds DEF Exact
  <1>3. CASE c \in Small
    <2>1. \A d \in Tiered : TierHeld(j)[d] = TierHeld(k)[d]
      BY <1>3, Kinds DEF TierHeld
    <2>2. BinBytes(Tiered, TierHeld(j)) = BinBytes(Tiered, TierHeld(k))
      BY <2>1, BytesSame
    <2>3. BinBytes(Small, j.bin) = BinBytes(Small, k.bin) + c * j.bin[c] - c * k.bin[c]
      BY <1>3, Kinds, BytesMove
    <2> QED
      BY <1>1, <1>3, <2>2, <2>3, Kinds DEF Exact
  <1> QED
    BY <1>2, <1>3, Kinds

\* Only budgets and flags differ.
LEMMA CountsSame ==
  ASSUME NEW k \in Cache, Exact(k), NEW j \in Cache, j.bin = k.bin, j.act = k.act,
         j.cached_bytes = k.cached_bytes, j.tier_cached_bytes = k.tier_cached_bytes
  PROVE  Exact(j)
  BY DEF Exact, TierBytes

\* A cache with nothing in it.
LEMMA EmptyExact ==
  ASSUME NEW k \in Cache, \A c \in Class : k.bin[c] = 0, \A c \in Tiered : k.act[c] = 0,
         k.cached_bytes = 0, k.tier_cached_bytes = 0
  PROVE  Exact(k)
  <1>1. \A c \in Tiered : TierHeld(k)[c] = 0
    BY Kinds DEF TierHeld
  <1>2. BinBytes(Tiered, TierHeld(k)) = 0 /\ BinBytes(Small, k.bin) = 0
    BY <1>1, Kinds, NoBytes
  <1> QED
    BY <1>2, Kinds DEF Exact

-----------------------------------------------------------------------------
(* The operations on a cache. *)

\* A cache whose counters are exact.
Sound(k) == k \in Cache /\ Exact(k)

\* k with other contents and counters.
With(k, bin, act, bytes, tiers) ==
  [k EXCEPT !.bin = bin, !.act = act, !.cached_bytes = bytes, !.tier_cached_bytes = tiers]

\* One class of a cache has n blocks in its bin and another active chain, and
\* the counters moved by as much.
LEMMA OneClassSound ==
  ASSUME NEW k, Sound(k), NEW c \in Class, NEW n \in Nat, NEW act \in [Tiered -> Nat],
         NEW held, held = IF c \in Tiered THEN n + act[c] ELSE n,
         NEW bytes \in Nat, NEW tiers \in Nat,
         \A d \in Tiered \ {c} : act[d] = k.act[d],
         bytes = k.cached_bytes + c * held - c * Held(k, c),
         tiers = IF c \in Tiered THEN k.tier_cached_bytes + c * held - c * Held(k, c)
                 ELSE k.tier_cached_bytes,
         NEW bin, bin = [k.bin EXCEPT ![c] = n],
         NEW j, j = With(k, bin, act, bytes, tiers)
  PROVE  /\ Sound(j) /\ j.budget = k.budget /\ Held(j, c) = held
         /\ j.bin = bin /\ j.act = act
  <1>1. k \in Cache /\ Exact(k)
    BY DEF Sound
  <1>2. bin \in [Class -> Nat] /\ bin[c] = n /\ \A d \in Class \ {c} : bin[d] = k.bin[d]
    BY <1>1 DEF Cache
  <1>3. /\ j \in Cache /\ j.bin = bin /\ j.act = act
        /\ j.cached_bytes = bytes /\ j.tier_cached_bytes = tiers /\ j.budget = k.budget
    BY <1>1, <1>2 DEF With, Cache
  <1>4. Held(j, c) = held
    BY <1>2, <1>3 DEF Held
  <1>5. j.cached_bytes = k.cached_bytes + c * Held(j, c) - c * Held(k, c)
    BY <1>3, <1>4
  <1>6. j.tier_cached_bytes = IF c \in Tiered
                              THEN k.tier_cached_bytes + c * Held(j, c) - c * Held(k, c)
                              ELSE k.tier_cached_bytes
    BY <1>3, <1>4
  <1>7. Exact(j)
    BY <1>1, <1>2, <1>3, <1>5, <1>6, CountsMove
  <1> QED
    BY <1>3, <1>4, <1>7 DEF Sound

\* A new cache.
LEMMA EmptyCacheSound == Sound(EmptyCache)
  <1>1. EmptyCache \in Cache
    BY CacheBudgetAssumption DEF EmptyCache, Cache
  <1> QED
    BY <1>1, EmptyExact, Kinds DEF EmptyCache, Sound

\* A pop takes one block and its bytes, and never wraps a counter.
LEMMA PopSound ==
  ASSUME NEW k, Sound(k), NEW c \in Class, Has(k, c)
  PROVE  Sound(Pop(k, c)) /\ Pop(k, c).budget = k.budget
  <1> DEFINE act == IF c \in Tiered /\ k.act[c] > 0 THEN [k.act EXCEPT ![c] = @ - 1] ELSE k.act
             n == IF c \in Tiered /\ k.act[c] > 0 THEN k.bin[c] ELSE k.bin[c] - 1
             bytes == k.cached_bytes - c
             tiers == IF c \in Tiered THEN k.tier_cached_bytes - c ELSE k.tier_cached_bytes
  <1>1. k \in Cache /\ Exact(k) /\ c \in Nat \ {0} /\ Held(k, c) \in Nat
    BY Kinds DEF Sound
  <1>2. Held(k, c) >= 1
    BY <1>1, Kinds DEF Has, Held
  <1>3. c <= c * Held(k, c)
    BY <1>1, <1>2
  <1>4. /\ c <= k.cached_bytes /\ (c \in Tiered => c <= k.tier_cached_bytes)
        /\ k.cached_bytes \in Nat /\ k.tier_cached_bytes \in Nat
    BY <1>1, <1>3, HeldCounted DEF Cache
  <1>5. c \in Tiered => saturating_sub(k.tier_cached_bytes, c) = k.tier_cached_bytes - c
    BY <1>1, <1>4, SaturatingSub
  <1>6. /\ act \in [Tiered -> Nat] /\ n \in Nat /\ bytes \in Nat /\ tiers \in Nat
        /\ \A d \in Tiered \ {c} : act[d] = k.act[d]
        /\ (IF c \in Tiered THEN n + act[c] ELSE n) = Held(k, c) - 1
    <2>1. k.act \in [Tiered -> Nat] /\ k.bin[c] \in Nat
      BY <1>1 DEF Cache
    <2> QED
      BY <1>1, <1>4, <2>1, Kinds DEF Held, Has
  <1>7. Pop(k, c) = With(k, [k.bin EXCEPT ![c] = n], act, bytes, tiers)
    <2>1. CASE c \in Tiered /\ k.act[c] > 0
      BY <1>1, <1>5, <2>1 DEF Pop, Cache, With
    <2>2. CASE ~(c \in Tiered /\ k.act[c] > 0)
      BY <1>1, <1>5, <2>2 DEF Pop, Cache, With
    <2> QED
      BY <2>1, <2>2
  <1>8. /\ bytes = k.cached_bytes + c * (Held(k, c) - 1) - c * Held(k, c)
        /\ tiers = IF c \in Tiered THEN k.tier_cached_bytes + c * (Held(k, c) - 1) - c * Held(k, c)
                   ELSE k.tier_cached_bytes
    <2>1. c * (Held(k, c) - 1) = c * Held(k, c) - c /\ c * Held(k, c) \in Nat
      BY <1>1
    <2> QED
      BY <1>1, <1>4, <2>1
  <1> DEFINE held == Held(k, c) - 1
             bin == [k.bin EXCEPT ![c] = n]
             j == With(k, bin, act, bytes, tiers)
  <1> HIDE DEF n, act, bytes, tiers
  <1>9. /\ bytes = k.cached_bytes + c * held - c * Held(k, c)
        /\ tiers = IF c \in Tiered THEN k.tier_cached_bytes + c * held - c * Held(k, c)
                   ELSE k.tier_cached_bytes
        /\ held = IF c \in Tiered THEN n + act[c] ELSE n
        /\ bin = [k.bin EXCEPT ![c] = n] /\ j = With(k, bin, act, bytes, tiers)
        /\ j = Pop(k, c)
    BY <1>6, <1>7, <1>8
  <1> HIDE DEF held, bin, j
  <1>10. Sound(j) /\ j.budget = k.budget
    BY <1>6, <1>9, OneClassSound
  <1> QED
    BY <1>9, <1>10

\* n blocks more, in the bin or in the active chain.
LEMMA AddSound ==
  ASSUME NEW k, Sound(k), NEW c \in Class, NEW n \in Nat
  PROVE  /\ LET j == [Added(k, c, n) EXCEPT !.bin[c] = k.bin[c] + n]
            IN  Sound(j) /\ j.budget = k.budget
         /\ c \in Tiered => LET j == [Added(k, c, n) EXCEPT !.act[c] = k.act[c] + n]
                            IN  Sound(j) /\ j.budget = k.budget
  <1> DEFINE bytes == k.cached_bytes + c * n
             tiers == IF c \in Tiered THEN k.tier_cached_bytes + c * n ELSE k.tier_cached_bytes
  <1>1. /\ k \in Cache /\ Exact(k) /\ c \in Nat \ {0} /\ Held(k, c) \in Nat /\ k.bin[c] \in Nat
        /\ k.act \in [Tiered -> Nat] /\ (c \in Tiered => k.act[c] \in Nat)
        /\ k.cached_bytes \in Nat /\ k.tier_cached_bytes \in Nat
    BY Kinds DEF Sound, Cache
  <1>2. c * n \in Nat /\ c * Held(k, c) \in Nat /\ c * (Held(k, c) + n) = c * Held(k, c) + c * n
    BY <1>1
  <1>3. bytes \in Nat /\ tiers \in Nat
    BY <1>1, <1>2
  <1>4. /\ bytes = k.cached_bytes + c * (Held(k, c) + n) - c * Held(k, c)
        /\ tiers = IF c \in Tiered THEN k.tier_cached_bytes + c * (Held(k, c) + n) - c * Held(k, c)
                   ELSE k.tier_cached_bytes
    BY <1>1, <1>2
  <1> HIDE DEF bytes, tiers
  <1> DEFINE held == Held(k, c) + n
  <1>5. /\ bytes = k.cached_bytes + c * held - c * Held(k, c)
        /\ tiers = IF c \in Tiered THEN k.tier_cached_bytes + c * held - c * Held(k, c)
                   ELSE k.tier_cached_bytes
    BY <1>4
  <1>6. LET j == [Added(k, c, n) EXCEPT !.bin[c] = k.bin[c] + n] IN Sound(j) /\ j.budget = k.budget
    <2> DEFINE more == k.bin[c] + n
               act == k.act
               bin == [k.bin EXCEPT ![c] = more]
               j == [Added(k, c, n) EXCEPT !.bin[c] = k.bin[c] + n]
    <2>1. held = (IF c \in Tiered THEN more + act[c] ELSE more) /\ more \in Nat
      BY <1>1 DEF Held
    <2>2. j = With(k, bin, act, bytes, tiers)
      BY <1>1 DEF Added, Cache, With, bytes, tiers
    <2>3. /\ bin = [k.bin EXCEPT ![c] = more] /\ act \in [Tiered -> Nat]
          /\ \A d \in Tiered \ {c} : act[d] = k.act[d]
      BY <1>1
    <2>4. ASSUME NEW i, i = j PROVE Sound(i) /\ i.budget = k.budget
      <3>1. i = With(k, bin, act, bytes, tiers)
        BY <2>2, <2>4
      <3> HIDE DEF held, more, act, bin, j
      <3> QED
        BY <1>3, <1>5, <2>1, <2>3, <3>1, OneClassSound
    <2> QED
      BY <2>4
  <1>7. ASSUME c \in Tiered
        PROVE  LET j == [Added(k, c, n) EXCEPT !.act[c] = k.act[c] + n] IN Sound(j) /\ j.budget = k.budget
    <2> DEFINE act == [k.act EXCEPT ![c] = k.act[c] + n]
               len == k.bin[c]
               bin == [k.bin EXCEPT ![c] = len]
               j == [Added(k, c, n) EXCEPT !.act[c] = k.act[c] + n]
    <2>1. /\ act \in [Tiered -> Nat] /\ act[c] = k.act[c] + n /\ len \in Nat
          /\ \A d \in Tiered \ {c} : act[d] = k.act[d]
      BY <1>1, <1>7
    <2>2. held = IF c \in Tiered THEN len + act[c] ELSE len
      BY <1>1, <1>7, <2>1 DEF Held
    <2>3. bin = [k.bin EXCEPT ![c] = len] /\ bin = k.bin
      BY <1>1 DEF Cache
    <2>4. j = With(k, k.bin, act, bytes, tiers)
      BY <1>1, <1>7 DEF Added, Cache, With, bytes, tiers
    <2>5. ASSUME NEW i, i = j PROVE Sound(i) /\ i.budget = k.budget
      <3>1. i = With(k, bin, act, bytes, tiers)
        BY <2>3, <2>4, <2>5
      <3> HIDE DEF held, len, act, bin, j
      <3> QED
        BY <1>3, <1>5, <2>1, <2>2, <2>3, <3>1, OneClassSound
    <2> QED
      BY <2>5
  <1> QED
    BY <1>6, <1>7

\* A free pushes one block.
LEMMA PushedSound ==
  ASSUME NEW k, Sound(k), NEW c \in Class, NEW j \in Pushed(k, c)
  PROVE  Sound(j) /\ j.budget = k.budget
  <1>1. k \in Cache
    BY DEF Sound
  <1>2. /\ [Added(k, c, 1) EXCEPT !.bin[c] = @ + 1] = [Added(k, c, 1) EXCEPT !.bin[c] = k.bin[c] + 1]
        /\ c \in Tiered => [Added(k, c, 1) EXCEPT !.act[c] = @ + 1]
                             = [Added(k, c, 1) EXCEPT !.act[c] = k.act[c] + 1]
    BY <1>1 DEF Added, Cache
  <1>3. CASE j = [Added(k, c, 1) EXCEPT !.bin[c] = @ + 1]
    BY <1>2, <1>3, AddSound
  <1>4. CASE c \in Tiered /\ j = [Added(k, c, 1) EXCEPT !.act[c] = @ + 1]
    BY <1>2, <1>4, AddSound
  <1> QED
    BY <1>3, <1>4 DEF Pushed

\* A flush of m blocks leaves f in the bin and the active chains act, and takes
\* the bytes of the rest off the counters.
Shrunk(k, c, m, f, act) == [[Dropped(k, c, m) EXCEPT !.bin[c] = f] EXCEPT !.act = act]

\* A flush keeps the counters exact, and touches no other class.
LEMMA FlushSound ==
  ASSUME NEW k, Sound(k), NEW c \in Class, NEW f \in Nat, NEW act \in [Tiered -> Nat],
         NEW m \in Nat,
         \A d \in Tiered \ {c} : act[d] = k.act[d],
         m = Held(k, c) - (IF c \in Tiered THEN f + act[c] ELSE f),
         NEW j, j = Shrunk(k, c, m, f, act)
  PROVE  /\ Sound(j) /\ j.budget = k.budget
         /\ \A d \in Class \ {c} : j.bin[d] = k.bin[d]
         /\ \A d \in Tiered \ {c} : j.act[d] = k.act[d]
         /\ Held(j, c) <= Held(k, c)
  <1> DEFINE bytes == k.cached_bytes - c * m
             tiers == IF c \in Tiered THEN k.tier_cached_bytes - c * m ELSE k.tier_cached_bytes
             left == IF c \in Tiered THEN f + act[c] ELSE f
             w == With(k, [k.bin EXCEPT ![c] = f], act, bytes, tiers)
  <1>1. /\ k \in Cache /\ Exact(k) /\ c \in Nat \ {0} /\ Held(k, c) \in Nat /\ k.bin[c] \in Nat
        /\ k.act \in [Tiered -> Nat] /\ k.cached_bytes \in Nat /\ k.tier_cached_bytes \in Nat
    BY Kinds DEF Sound, Cache
  <1>2. left \in Nat /\ m = Held(k, c) - left
    OBVIOUS
  <1> HIDE DEF left
  <1>3. /\ c * m \in Nat /\ c * left \in Nat /\ c * Held(k, c) \in Nat
        /\ c * m = c * Held(k, c) - c * left
    BY <1>1, <1>2
  <1>4. /\ c * Held(k, c) <= k.cached_bytes
        /\ c \in Tiered => c * Held(k, c) <= k.tier_cached_bytes
    BY <1>1, HeldCounted
  <1>5. /\ bytes \in Nat /\ tiers \in Nat
        /\ saturating_sub(k.cached_bytes, c * m) = bytes
        /\ c \in Tiered => saturating_sub(k.tier_cached_bytes, c * m) = tiers
    <2> DEFINE x == c * m
    <2>1. x \in Nat /\ x <= k.cached_bytes /\ (c \in Tiered => x <= k.tier_cached_bytes)
      BY <1>1, <1>3, <1>4
    <2> HIDE DEF x
    <2>2. /\ saturating_sub(k.cached_bytes, x) = k.cached_bytes - x
          /\ c \in Tiered => saturating_sub(k.tier_cached_bytes, x) = k.tier_cached_bytes - x
      BY <1>1, <2>1, SaturatingSub
    <2> QED
      BY <1>1, <2>1, <2>2 DEF x
  <1>6. /\ bytes = k.cached_bytes + c * left - c * Held(k, c)
        /\ tiers = IF c \in Tiered THEN k.tier_cached_bytes + c * left - c * Held(k, c)
                   ELSE k.tier_cached_bytes
    BY <1>1, <1>3, <1>4
  <1>7. j = w
    <2>1. c \notin Tiered => tiers = k.tier_cached_bytes
      OBVIOUS
    <2> HIDE DEF bytes, tiers
    <2> QED
      BY <1>1, <1>5, <2>1 DEF Shrunk, Dropped, Cache, With
  <1> DEFINE bin == [k.bin EXCEPT ![c] = f]
  <1>8. /\ Sound(w) /\ w.budget = k.budget /\ Held(w, c) = left
        /\ w.bin = bin /\ w.act = act
    <2>1. left = IF c \in Tiered THEN f + act[c] ELSE f
      BY DEF left
    <2>2. bin = [k.bin EXCEPT ![c] = f] /\ w = With(k, bin, act, bytes, tiers)
      OBVIOUS
    <2> HIDE DEF bytes, tiers, bin, w
    <2> QED
      BY <1>5, <1>6, <2>1, <2>2, OneClassSound
  <1>9. \A d \in Class \ {c} : bin[d] = k.bin[d]
    BY <1>1 DEF Cache
  <1>10. left <= Held(k, c)
    BY <1>1, <1>2
  <1> HIDE DEF w, bin
  <1> QED
    BY <1>7, <1>8, <1>9, <1>10

\* Only budgets and flags differ.
Alike(j, k) == j.bin = k.bin /\ j.act = k.act

\* A new budget, or the exit hook, changes no contents.
LEMMA BudgetSound ==
  ASSUME NEW k, Sound(k), TypeOK
  PROVE  /\ Sound(refresh_budget(k)) /\ Alike(refresh_budget(k), k)
         /\ \A j \in arm_exit_hook(k) : Sound(j) /\ Alike(j, k)
  <1>1. k \in Cache /\ Exact(k) /\ CACHE_BUDGET \in Nat /\ CACHE_BUDGET_EPOCH \in 0 .. MaxEpoch
    BY DEF Sound, TypeOK
  <1>2. Sound(refresh_budget(k)) /\ Alike(refresh_budget(k), k)
    <2> DEFINE j == [k EXCEPT !.budget = CACHE_BUDGET, !.budget_epoch = CACHE_BUDGET_EPOCH]
    <2>1. /\ j \in Cache /\ j.bin = k.bin /\ j.act = k.act
          /\ j.cached_bytes = k.cached_bytes /\ j.tier_cached_bytes = k.tier_cached_bytes
      BY <1>1 DEF Cache
    <2>2. refresh_budget(k) = k \/ refresh_budget(k) = j
      BY DEF refresh_budget
    <2> HIDE DEF j
    <2>3. Exact(j)
      BY <1>1, <2>1, CountsSame
    <2> QED
      BY <1>1, <2>1, <2>2, <2>3 DEF Sound, Alike
  <1>3. ASSUME NEW j \in arm_exit_hook(k) PROVE Sound(j) /\ Alike(j, k)
    <2> DEFINE r == refresh_budget(k)
    <2>1. r \in Cache /\ Exact(r) /\ Alike(r, k)
      BY <1>2 DEF Sound
    <2>2. j = k \/ \E ok \in BOOLEAN : j = [r EXCEPT !.exit_armed = ok]
      BY <1>3 DEF arm_exit_hook
    <2>3. CASE j = k
      BY <1>1, <2>3 DEF Sound, Alike
    <2>4. CASE \E ok \in BOOLEAN : j = [r EXCEPT !.exit_armed = ok]
      <3> HIDE DEF r
      <3>1. /\ j \in Cache /\ j.bin = r.bin /\ j.act = r.act
            /\ j.cached_bytes = r.cached_bytes /\ j.tier_cached_bytes = r.tier_cached_bytes
        BY <2>1, <2>4 DEF Cache
      <3>2. Exact(j)
        BY <2>1, <3>1, CountsSame
      <3> QED
        BY <2>1, <3>1, <3>2 DEF Sound, Alike
    <2> QED
      BY <2>2, <2>3, <2>4
  <1> QED
    BY <1>2, <1>3

\* Counting a foreign free changes no contents.
LEMMA CountedSound ==
  ASSUME NEW k, Sound(k), NEW c \in Class, NEW gate, NEW j \in Counted(k, c, gate)
  PROVE  Sound(j)
  <1>1. k \in Cache /\ Exact(k) /\ c \in Nat
    BY Kinds DEF Sound
  <1>2. CASE j = k
    BY <1>2
  <1>3. CASE j = [k EXCEPT !.foreign_bytes = @ + c]
    <2>1. /\ j \in Cache /\ j.bin = k.bin /\ j.act = k.act
          /\ j.cached_bytes = k.cached_bytes /\ j.tier_cached_bytes = k.tier_cached_bytes
      BY <1>1, <1>3 DEF Cache
    <2> QED
      BY <1>1, <2>1, CountsSame DEF Sound
  <1> QED
    BY <1>2, <1>3 DEF Counted

\* flush_all leaves an empty cache with its budget.
LEMMA FlushAllSound ==
  ASSUME NEW k, Sound(k)
  PROVE  Sound(flush_all(k)) /\ flush_all(k).budget = k.budget
  <1> DEFINE j == flush_all(k)
  <1>1. k \in Cache
    BY DEF Sound
  <1>2. EmptyCache \in Cache
    BY EmptyCacheSound DEF Sound
  <1>3. /\ j \in Cache /\ j.budget = k.budget /\ j.bin = EmptyCache.bin /\ j.act = EmptyCache.act
        /\ j.cached_bytes = EmptyCache.cached_bytes
        /\ j.tier_cached_bytes = EmptyCache.tier_cached_bytes
    BY <1>1, <1>2 DEF flush_all, Cache
  <1>4. Exact(EmptyCache)
    BY EmptyCacheSound DEF Sound
  <1> HIDE DEF j
  <1>5. Exact(j)
    BY <1>2, <1>3, <1>4, CountsSame
  <1> QED
    BY <1>3, <1>5 DEF Sound, j

\* Stolen bins come with their bytes: a class that is taken had none here.
LEMMA StealSound ==
  ASSUME NEW k, Sound(k), NEW o, Sound(o)
  PROVE  Sound(steal_empty_bins(k, o))
  <1> DEFINE taken == {c \in Small : o.bin[c] > 0 /\ k.bin[c] = 0}
             b == [c \in Class |-> IF c \in taken THEN o.bin[c] ELSE k.bin[c]]
             bytes == k.cached_bytes + BinBytes(taken, o.bin)
             j == steal_empty_bins(k, o)
  <1>1. /\ k \in Cache /\ Exact(k) /\ o \in Cache /\ k.cached_bytes \in Nat
        /\ \A c \in Class : k.bin[c] \in Nat /\ o.bin[c] \in Nat
    BY Kinds DEF Sound, Cache
  <1>2. taken \in SUBSET Class /\ Small \ taken \in SUBSET Class /\ Small = taken \cup (Small \ taken)
    BY Kinds
  <1>3. /\ b \in [Class -> Nat] /\ \A c \in taken : b[c] = o.bin[c]
        /\ \A c \in Class \ taken : b[c] = k.bin[c]
    BY <1>1, <1>2
  <1>4. BinBytes(taken, o.bin) \in Nat
    BY <1>1, <1>2, BytesFinite
  <1>5. /\ j \in Cache /\ j.bin = b /\ j.act = k.act
        /\ j.cached_bytes = bytes /\ j.tier_cached_bytes = k.tier_cached_bytes
    <2>1. j = [k EXCEPT !.bin = b, !.cached_bytes = bytes]
      BY <1>1 DEF steal_empty_bins, Cache
    <2>2. bytes \in Nat
      BY <1>1, <1>4
    <2> HIDE DEF b, bytes, j
    <2> QED
      BY <1>1, <1>3, <2>1, <2>2 DEF Cache
  <1>6. BinBytes(Small, b) = BinBytes(Small, k.bin) + BinBytes(taken, o.bin)
    <2> DEFINE rest == Small \ taken
    <2>1. rest \in SUBSET Class /\ taken \cap rest = {} /\ Small = taken \cup rest /\ rest \subseteq Class \ taken
          /\ taken \subseteq Class
      BY <1>2
    <2>2. \A c \in taken : k.bin[c] = 0
      OBVIOUS
    <2> HIDE DEF taken, rest, b
    <2>3. BinBytes(taken \cup rest, b) = BinBytes(taken, b) + BinBytes(rest, b)
      BY <1>2, <1>3, <2>1, BytesAdd
    <2>4. BinBytes(taken \cup rest, k.bin) = BinBytes(taken, k.bin) + BinBytes(rest, k.bin)
      BY <1>1, <1>2, <2>1, BytesAdd
    <2>5. BinBytes(taken, k.bin) = 0
      BY <1>2, <2>2, NoBytes
    <2>6. BinBytes(taken, b) = BinBytes(taken, o.bin) /\ BinBytes(rest, b) = BinBytes(rest, k.bin)
      BY <1>3, <2>1, BytesSame
    <2>7. BinBytes(rest, k.bin) \in Nat
      BY <1>1, <2>1, BytesFinite
    <2> QED
      BY <1>4, <2>1, <2>3, <2>4, <2>5, <2>6, <2>7
  <1>7. TierBytes(j) = TierBytes(k)
    <2>1. \A c \in Tiered : c \in Class \ taken
      BY Kinds
    <2>2. \A c \in Tiered : TierHeld(j)[c] = TierHeld(k)[c]
      BY <1>3, <1>5, <2>1, Kinds DEF TierHeld
    <2> QED
      BY <2>2, BytesSame, Kinds
  <1>8. TierBytes(k) \in Nat /\ BinBytes(Small, k.bin) \in Nat
    BY <1>1, Kinds, BytesFinite
  <1> HIDE DEF taken, b, j
  <1>9. Exact(j)
    BY <1>1, <1>4, <1>5, <1>6, <1>7, <1>8 DEF Exact
  <1> QED
    BY <1>5, <1>9 DEF Sound, j

\* What a refill makes of its cache and of the one an exited thread left.
LEMMA ReclaimSound ==
  ASSUME NEW k, Sound(k), retired = NoCache \/ Sound(retired), NEW r \in reclaim_retired(k)
  PROVE  Sound(r[1]) /\ (r[2] = NoCache \/ (r[2] = retired /\ Sound(r[2])))
  <1> DEFINE done(j) == <<[j EXCEPT !.retired_reclaimed = TRUE], NoCache>>
             adopted == [retired EXCEPT !.exit_armed = k.exit_armed,
                           !.budget = k.budget, !.budget_epoch = k.budget_epoch]
  <1>1. ASSUME NEW j, Sound(j) PROVE Sound([j EXCEPT !.retired_reclaimed = TRUE])
    <2> DEFINE i == [j EXCEPT !.retired_reclaimed = TRUE]
    <2>1. j \in Cache /\ Exact(j)
      BY <1>1 DEF Sound
    <2>2. /\ i \in Cache /\ i.bin = j.bin /\ i.act = j.act
          /\ i.cached_bytes = j.cached_bytes /\ i.tier_cached_bytes = j.tier_cached_bytes
      BY <2>1 DEF Cache
    <2> HIDE DEF i
    <2>3. Exact(i)
      BY <2>1, <2>2, CountsSame
    <2> QED
      BY <2>2, <2>3 DEF Sound, i
  <1>2. CASE k.retired_reclaimed \/ retired = NoCache
    BY <1>2 DEF reclaim_retired
  <1>3. CASE ~(k.retired_reclaimed \/ retired = NoCache)
    <2>1. Sound(retired)
      BY <1>3
    <2>2. Sound(adopted)
      <3>1. retired \in Cache /\ Exact(retired) /\ k \in Cache
        BY <2>1 DEF Sound
      <3>2. /\ adopted \in Cache /\ adopted.bin = retired.bin /\ adopted.act = retired.act
            /\ adopted.cached_bytes = retired.cached_bytes
            /\ adopted.tier_cached_bytes = retired.tier_cached_bytes
        BY <3>1 DEF Cache
      <3> HIDE DEF adopted
      <3>3. Exact(adopted)
        BY <3>1, <3>2, CountsSame
      <3> QED
        BY <3>2, <3>3 DEF Sound
    <2>3. r \in {done(steal_empty_bins(k, retired)), done(k), done(adopted)}
      BY <1>3 DEF reclaim_retired
    <2>4. Sound(steal_empty_bins(k, retired))
      BY <2>1, StealSound
    <2>5. PICK j : Sound(j) /\ r = done(j)
      <3> HIDE DEF done, adopted
      <3> QED
        BY <2>2, <2>3, <2>4
    <2>6. r[1] = [j EXCEPT !.retired_reclaimed = TRUE] /\ r[2] = NoCache
      BY <2>5
    <2> QED
      BY <1>1, <2>5, <2>6
  <1> QED
    BY <1>2, <1>3

-----------------------------------------------------------------------------
(* trim. *)

\* A flush brings no class back, and leaves the budget alone.
Flushed(j, k) ==
  /\ Sound(j) /\ j.budget = k.budget
  /\ \A c \in Class : ~Has(k, c) => ~Has(j, c)

\* A class has something cached when it has a block.
LEMMA HasHeld ==
  ASSUME NEW k \in Cache, NEW c \in Class
  PROVE  Has(k, c) <=> Held(k, c) # 0
  BY Kinds DEF Has, Held

\* flush_bin and its versions for the tiers.
LEMMA FlushBinSound ==
  ASSUME NEW k, Sound(k), NEW c \in Class, NEW f \in Nat, f <= k.bin[c]
  PROVE  Flushed(FlushBin(k, c, f), k)
  <1> DEFINE m == k.bin[c] - f
             act == k.act
             j == Shrunk(k, c, m, f, act)
  <1>1. k \in Cache /\ k.bin[c] \in Nat /\ k.act \in [Tiered -> Nat]
    BY Kinds DEF Sound, Cache
  <1>2. /\ m \in Nat /\ act \in [Tiered -> Nat] /\ \A d \in Tiered \ {c} : act[d] = k.act[d]
        /\ m = Held(k, c) - (IF c \in Tiered THEN f + act[c] ELSE f)
    BY <1>1 DEF Held
  <1>3. FlushBin(k, c, f) = j
    BY <1>1 DEF FlushBin, Shrunk, Dropped, Cache
  <1>4. /\ Sound(j) /\ j.budget = k.budget
        /\ \A d \in Class \ {c} : j.bin[d] = k.bin[d]
        /\ \A d \in Tiered \ {c} : j.act[d] = k.act[d]
        /\ Held(j, c) <= Held(k, c)
    <2>1. j = Shrunk(k, c, m, f, act)
      OBVIOUS
    <2> HIDE DEF m, act, j
    <2> QED
      BY <1>2, <2>1, FlushSound
  <1> HIDE DEF j
  <1>5. j \in Cache
    BY <1>4 DEF Sound
  <1>6. \A d \in Class : Held(j, d) <= Held(k, d)
    BY <1>1, <1>4, <1>5, Kinds DEF Held
  <1> QED
    BY <1>1, <1>3, <1>4, <1>5, <1>6, HasHeld, Kinds DEF Flushed

\* flush_active_medium, flush_active_big.
LEMMA FlushActiveSound ==
  ASSUME NEW k, Sound(k), NEW c \in Tiered
  PROVE  Flushed(FlushActive(k, c), k)
  <1> DEFINE m == k.act[c]
             f == k.bin[c]
             act == [k.act EXCEPT ![c] = 0]
             j == Shrunk(k, c, m, f, act)
  <1>1. k \in Cache /\ c \in Class /\ k.bin[c] \in Nat /\ k.act[c] \in Nat /\ k.act \in [Tiered -> Nat]
    BY Kinds DEF Sound, Cache
  <1>2. /\ m \in Nat /\ f \in Nat /\ act \in [Tiered -> Nat] /\ \A d \in Tiered \ {c} : act[d] = k.act[d]
        /\ m = Held(k, c) - (IF c \in Tiered THEN f + act[c] ELSE f)
    BY <1>1 DEF Held
  <1>3. FlushActive(k, c) = j
    BY <1>1 DEF FlushActive, Shrunk, Dropped, Cache
  <1>4. /\ Sound(j) /\ j.budget = k.budget
        /\ \A d \in Class \ {c} : j.bin[d] = k.bin[d]
        /\ \A d \in Tiered \ {c} : j.act[d] = k.act[d]
        /\ Held(j, c) <= Held(k, c)
    <2>1. j = Shrunk(k, c, m, f, act)
      OBVIOUS
    <2> HIDE DEF m, act, f, j
    <2> QED
      BY <1>1, <1>2, <2>1, FlushSound
  <1> HIDE DEF j
  <1>5. j \in Cache
    BY <1>4 DEF Sound
  <1>6. \A d \in Class : Held(j, d) <= Held(k, d)
    BY <1>1, <1>4, <1>5, Kinds DEF Held
  <1> QED
    BY <1>1, <1>3, <1>4, <1>5, <1>6, HasHeld, Kinds DEF Flushed

\* The class with the most bytes is one of those looked at.
LEMMA LargestOf ==
  ASSUME NEW S \in SUBSET Class, S # {}, NEW lens, \A c \in S : lens[c] \in Nat
  PROVE  /\ Largest(S, lens) \in S
         /\ Bytes(S, lens) \in Nat /\ \A c \in S : c * lens[c] <= Bytes(S, lens)
  <1> DEFINE B == {c * lens[c] : c \in S}
             most == Max(B)
             T == {c \in S : c * lens[c] = most}
  <1>1. \A c \in S : c * lens[c] \in Nat
    BY Kinds
  <1>2. B \subseteq Nat /\ B # {}
    BY <1>1
  <1>3. BinBytes(S, lens) \in Nat
    BY BytesFinite
  <1>4. \A x \in B : x <= BinBytes(S, lens)
    <2>1. ASSUME NEW c \in S PROVE c * lens[c] <= BinBytes(S, lens)
      <3>1. /\ BinBytes(S, lens) = BinBytes(S \ {c}, lens) + c * lens[c]
            /\ BinBytes(S \ {c}, lens) \in Nat /\ c * lens[c] \in Nat
        BY BytesSplit
      <3> QED
        BY <3>1
    <2> QED
      BY <2>1
  <1>5. most \in B /\ \A x \in B : most >= x
    <2> HIDE DEF B
    <2> QED
      BY <1>2, <1>3, <1>4, MaxNat
  <1>6. T \subseteq Nat /\ T # {}
    BY <1>5, Kinds
  <1>7. Min(T) \in T
    <2> HIDE DEF T
    <2> QED
      BY <1>6, MinNat
  <1>8. Largest(S, lens) = Min(T) /\ Bytes(S, lens) = most
    BY DEF Largest, Bytes
  <1>9. most \in Nat
    BY <1>2, <1>5
  <1> HIDE DEF most
  <1> QED
    BY <1>5, <1>7, <1>8, <1>9

\* One round of trim; and none is left when the tiers are empty and no small bin
\* is overlong.
LEMMA TrimmedFacts ==
  ASSUME NEW k, Sound(k)
  PROVE  /\ \A j \in Trimmed(k) : Flushed(j, k)
         /\ Trimmed(k) = {} => AtFloor(k)
  <1> DEFINE long == {c \in Small : k.bin[c] > RefillBatch}
             mact == {c \in Medium : k.act[c] > 0}
             bact == {c \in Big : k.act[c] > 0}
             mbin == {c \in Medium : k.bin[c] > 0}
             bbin == {c \in Big : k.bin[c] > 0}
             Halve(S) == {FlushBin(k, Largest(S, k.bin), Floor(k.bin[Largest(S, k.bin)]))}
  <1>1. k \in Cache /\ Exact(k)
    BY DEF Sound
  <1>2. /\ Medium \subseteq Tiered /\ Big \subseteq Tiered /\ Tiered = Medium \cup Big
        /\ \A c \in Class : k.bin[c] \in Nat /\ c \in Nat \ {0}
        /\ \A c \in Tiered : k.act[c] \in Nat /\ c \in Class
    BY <1>1, Kinds DEF Tiered
  <1>3. /\ long \in SUBSET Class /\ mbin \in SUBSET Class /\ bbin \in SUBSET Class
        /\ mact \in SUBSET Class /\ bact \in SUBSET Class
        /\ mact \subseteq Tiered /\ bact \subseteq Tiered
    BY <1>2, Kinds
  <1>4. ASSUME NEW S \in SUBSET Class, S # {}, NEW j \in Halve(S) PROVE Flushed(j, k)
    <2> DEFINE c == Largest(S, k.bin)
    <2>1. c \in S
      BY <1>2, <1>4, LargestOf
    <2>2. c \in Class /\ k.bin[c] \in Nat
      BY <1>2, <2>1
    <2>3. Floor(k.bin[c]) \in Nat /\ Floor(k.bin[c]) <= k.bin[c]
      BY <2>2 DEF Floor
    <2>4. j = FlushBin(k, c, Floor(k.bin[c]))
      BY <1>4
    <2> HIDE DEF c
    <2> QED
      BY <2>2, <2>3, <2>4, FlushBinSound
  <1>5. ASSUME NEW S \in SUBSET Tiered, S # {}
        PROVE  Flushed(FlushActive(k, Largest(S, k.act)), k)
    <2>1. Largest(S, k.act) \in S
      BY <1>2, <1>5, Kinds, LargestOf
    <2> QED
      BY <2>1, FlushActiveSound
  <1>6. Trimmed(k) =
          CASE long # {} -> Halve(long)
            [] long = {} /\ mact # {} -> {FlushActive(k, Largest(mact, k.act))}
            [] long \cup mact = {} /\ bact # {} -> {FlushActive(k, Largest(bact, k.act))}
            [] long \cup mact \cup bact = {} /\ Bytes(bbin, k.bin) > Bytes(mbin, k.bin) -> Halve(bbin)
            [] long \cup mact \cup bact = {} /\ Bytes(bbin, k.bin) <= Bytes(mbin, k.bin) ->
                 IF mbin = {} THEN {} ELSE Halve(mbin)
    BY DEF Trimmed
  <1>7. /\ Bytes(bbin, k.bin) \in Nat /\ Bytes(mbin, k.bin) \in Nat
        /\ mbin = {} => Bytes(mbin, k.bin) = 0
        /\ bbin = {} => Bytes(bbin, k.bin) = 0
        /\ bbin # {} => Bytes(bbin, k.bin) > 0
    <2>1. mbin = {} => Bytes(mbin, k.bin) = 0
      BY DEF Bytes
    <2>2. bbin = {} => Bytes(bbin, k.bin) = 0
      BY DEF Bytes
    <2>3. mbin # {} => Bytes(mbin, k.bin) \in Nat
      <3> HIDE DEF mbin
      <3> QED
        BY <1>2, <1>3, LargestOf
    <2>4. ASSUME bbin # {} PROVE Bytes(bbin, k.bin) \in Nat /\ Bytes(bbin, k.bin) > 0
      <3>1. PICK c \in bbin : c * k.bin[c] \in Nat /\ c * k.bin[c] > 0
        BY <1>2, <1>3, <2>4
      <3>2. Bytes(bbin, k.bin) \in Nat /\ c * k.bin[c] <= Bytes(bbin, k.bin)
        <4> HIDE DEF bbin
        <4> QED
          BY <1>2, <1>3, <2>4, LargestOf
      <3> QED
        BY <3>1, <3>2
    <2> QED
      BY <2>1, <2>2, <2>3, <2>4
  <1>8. \/ long # {} /\ Trimmed(k) = Halve(long)
        \/ mact # {} /\ Trimmed(k) = {FlushActive(k, Largest(mact, k.act))}
        \/ bact # {} /\ Trimmed(k) = {FlushActive(k, Largest(bact, k.act))}
        \/ bbin # {} /\ Trimmed(k) = Halve(bbin)
        \/ mbin # {} /\ Trimmed(k) = Halve(mbin)
        \/ long = {} /\ mact = {} /\ bact = {} /\ mbin = {} /\ bbin = {} /\ Trimmed(k) = {}
    <2> HIDE DEF long, mact, bact, mbin, bbin, Halve
    <2>1. CASE long # {}
      BY <1>6, <2>1
    <2>2. CASE long = {} /\ mact # {}
      BY <1>6, <2>2
    <2>3. CASE long = {} /\ mact = {} /\ bact # {}
      <3>1. long \cup mact = {}
        BY <2>3
      <3> QED
        BY <1>6, <2>3, <3>1
    <2>4. CASE long = {} /\ mact = {} /\ bact = {}
      <3>1. long \cup mact = {} /\ long \cup mact \cup bact = {}
        BY <2>4
      <3>2. CASE Bytes(bbin, k.bin) > Bytes(mbin, k.bin)
        BY <1>6, <1>7, <2>4, <3>1, <3>2
      <3>3. CASE Bytes(bbin, k.bin) <= Bytes(mbin, k.bin)
        BY <1>6, <1>7, <2>4, <3>1, <3>3
      <3> QED
        BY <1>7, <3>2, <3>3
    <2> QED
      BY <2>1, <2>2, <2>3, <2>4
  <1>9. long = {} /\ mact = {} /\ bact = {} /\ mbin = {} /\ bbin = {} => AtFloor(k)
    <2> SUFFICES ASSUME long = {}, mact = {}, bact = {}, mbin = {}, bbin = {} PROVE AtFloor(k)
      OBVIOUS
    <2>1. \A c \in Small : k.bin[c] <= RefillBatch
      BY <1>2, Kinds, CacheBudgetAssumption
    <2>2. \A c \in Tiered : k.bin[c] = 0 /\ k.act[c] = 0
      BY <1>2
    <2>3. \A c \in Tiered : TierHeld(k)[c] = 0
      BY <2>2 DEF TierHeld
    <2>4. TierBytes(k) = 0
      BY <2>3, Kinds, NoBytes
    <2> QED
      BY <2>1, <2>4 DEF AtFloor
  <1>10. \A S : Halve(S) # {}
    OBVIOUS
  <1>11. ASSUME NEW j \in Trimmed(k) PROVE Flushed(j, k)
    <2> HIDE DEF long, mact, bact, mbin, bbin, Halve
    <2> QED
      BY <1>3, <1>4, <1>5, <1>8, <1>11
  <1> HIDE DEF long, mact, bact, mbin, bbin, Halve
  <1> QED
    BY <1>8, <1>9, <1>10, <1>11

-----------------------------------------------------------------------------
(* Steps. *)

\* The invariant, with the types of the caches next to their counters.
Caches == Sound(cache) /\ (retired = NoCache \/ Sound(retired))
CallTypes ==
  /\ CACHE_BUDGET \in Nat /\ CACHE_BUDGET_EPOCH \in 0 .. MaxEpoch
  /\ pc \in {"idle", "enter", "trim", "recheck", "take"}
  /\ class \in Class \cup {0} /\ then \in {"shed", "recheck", "take"} /\ target \in Nat

\* The parts of the invariant say the same.
LEMMA Parts == BudgetInv <=> Caches /\ CallTypes /\ Refilling /\ Targeted
  <1>1. NoCache \notin Cache
    BY CacheBudgetAssumption
  <1> QED
    BY <1>1 DEF BudgetInv, Caches, CallTypes, TypeOK, BytesExact, Sound

\* The same contents have the same blocks.
LEMMA AlikeHas ==
  ASSUME NEW j, NEW k, Alike(j, k), NEW c
  PROVE  Has(j, c) <=> Has(k, c)
  BY DEF Alike, Has

\* The invariant holds at first.
LEMMA InitInv == Init => BudgetInv
  <1> SUFFICES ASSUME Init PROVE Caches /\ CallTypes /\ Refilling /\ Targeted
    BY Parts
  <1>1. Caches
    BY EmptyCacheSound DEF Init, Caches
  <1> QED
    BY <1>1, CacheBudgetAssumption DEF Init, CallTypes, Refilling, Targeted

\* A new budget is seen at the next refresh.
LEMMA SetBudgetInv ==
  ASSUME BudgetInv, NEW bytes \in Budgets, set_budget(bytes) PROVE BudgetInv'
  <1>1. Caches /\ CallTypes /\ Refilling /\ Targeted
    BY Parts
  <1>2. Max({bytes, MinBudget}) \in Nat
    BY CacheBudgetAssumption DEF Max
  <1>3. Caches' /\ CallTypes' /\ Refilling' /\ Targeted'
    BY <1>1, <1>2, CacheBudgetAssumption
       DEF Caches, CallTypes, Refilling, Targeted, set_budget, callVars
  <1> QED
    BY <1>3, Parts, PTL

\* A hit.
LEMMA AllocInv ==
  ASSUME BudgetInv, NEW c \in Class, Alloc(c) PROVE BudgetInv'
  <1>1. Caches /\ CallTypes /\ Refilling /\ Targeted
    BY Parts
  <1>2. Sound(Pop(cache, c))
    BY <1>1, PopSound DEF Caches, Alloc
  <1>3. Caches' /\ CallTypes' /\ Refilling' /\ Targeted'
    BY <1>1, <1>2 DEF Caches, CallTypes, Refilling, Targeted, Alloc, callVars, globalVars
  <1> QED
    BY <1>3, Parts, PTL

\* The end of a free.
LEMMA ShedIfInv ==
  ASSUME BudgetInv, pc = "idle", NEW k, Sound(k), NEW over \in BOOLEAN, ShedIf(k, over),
         UNCHANGED <<retired, globalVars>>
  PROVE  BudgetInv'
  <1>1. Caches /\ CallTypes /\ Refilling /\ Targeted
    BY Parts
  <1>2. Caches' /\ CallTypes' /\ Refilling' /\ Targeted'
    BY <1>1 DEF Caches, CallTypes, Refilling, Targeted, ShedIf, callVars, globalVars
  <1> QED
    BY <1>2, Parts, PTL

\* The caches a free can leave behind.
LEMMA FreedSound ==
  ASSUME BudgetInv, NEW c \in Class, NEW armed \in {cache} \cup arm_exit_hook(cache), NEW gate,
         NEW k \in Counted(armed, c, gate), NEW pushed \in Pushed(k, c)
  PROVE  Sound(pushed)
  <1>1. Sound(cache) /\ TypeOK
    BY Parts DEF Caches, BudgetInv
  <1>2. Sound(armed)
    BY <1>1, BudgetSound
  <1>3. Sound(k)
    BY <1>2, CountedSound
  <1> QED
    BY <1>3, PushedSound

\* A free, with or without a trim to follow.
LEMMA DeallocInv ==
  ASSUME BudgetInv, NEW c \in Class, dealloc(c) \/ DeallocTiered(c) PROVE BudgetInv'
  <1>1. CASE dealloc(c)
    <2>1. PICK armed \in IF small_free_is_warm(cache) THEN {cache} ELSE arm_exit_hook(cache) :
            \E k \in Counted(armed, c, drift_gate_open_small(armed)) :
            \E pushed \in Pushed(k, c) : ShedIf(pushed, should_shed_small(pushed))
      BY <1>1 DEF dealloc
    <2>2. PICK k \in Counted(armed, c, drift_gate_open_small(armed)) :
            \E pushed \in Pushed(k, c) : ShedIf(pushed, should_shed_small(pushed))
      BY <2>1
    <2>3. PICK pushed \in Pushed(k, c) : ShedIf(pushed, should_shed_small(pushed))
      BY <2>2
    <2>4. armed \in {cache} \cup arm_exit_hook(cache)
      BY <2>1
    <2>5. Sound(pushed)
      BY <2>3, <2>4, FreedSound
    <2>6. should_shed_small(pushed) \in BOOLEAN
      BY DEF should_shed_small
    <2> QED
      BY <1>1, <2>3, <2>5, <2>6, ShedIfInv DEF dealloc
  <1>2. CASE DeallocTiered(c)
    <2>1. PICK armed \in arm_exit_hook(cache) :
            \E k \in Counted(armed, c, drift_gate_open(armed)) :
            \E pushed \in Pushed(k, c) : ShedIf(pushed, should_shed(pushed))
      BY <1>2 DEF DeallocTiered
    <2>2. PICK k \in Counted(armed, c, drift_gate_open(armed)) :
            \E pushed \in Pushed(k, c) : ShedIf(pushed, should_shed(pushed))
      BY <2>1
    <2>3. PICK pushed \in Pushed(k, c) : ShedIf(pushed, should_shed(pushed))
      BY <2>2
    <2>4. armed \in {cache} \cup arm_exit_hook(cache)
      BY <2>1
    <2>5. Sound(pushed)
      BY <2>3, <2>4, FreedSound
    <2>6. should_shed(pushed) \in BOOLEAN
      BY DEF should_shed, should_shed_small
    <2> QED
      BY <1>2, <2>3, <2>5, <2>6, ShedIfInv DEF DeallocTiered
  <1> QED
    BY <1>1, <1>2

\* trim refreshes the budget, and computes its target from it.
LEMMA EnterTrimInv ==
  ASSUME BudgetInv, EnterTrim PROVE BudgetInv'
  <1>1. Caches /\ CallTypes /\ Refilling /\ Targeted /\ TypeOK
    BY Parts DEF BudgetInv
  <1>2. PICK armed \in arm_exit_hook(cache) :
          /\ cache' = refresh_budget(armed)
          /\ target' = refresh_budget(armed).budget \div 2
                         + Min({refresh_budget(armed).tier_cached_bytes,
                                2 * refresh_budget(armed).budget})
    BY DEF EnterTrim
  <1>3. Sound(armed) /\ Alike(armed, cache)
    BY <1>1, BudgetSound DEF Caches
  <1> DEFINE k == refresh_budget(armed)
  <1>4. Sound(k) /\ Alike(k, armed)
    BY <1>1, <1>3, BudgetSound
  <1>5. k.budget \in Nat /\ k.tier_cached_bytes \in Nat
    BY <1>4 DEF Sound, Cache
  <1> HIDE DEF k
  <1>6. /\ Min({k.tier_cached_bytes, 2 * k.budget}) \in Nat
        /\ Min({k.tier_cached_bytes, 2 * k.budget}) <= 2 * k.budget
    <2> DEFINE d == 2 * k.budget
    <2>1. d \in Nat
      BY <1>5
    <2> HIDE DEF d
    <2>2. Min({k.tier_cached_bytes, d}) \in Nat /\ Min({k.tier_cached_bytes, d}) <= d
      BY <1>5, <2>1, MinTwo
    <2> QED
      BY <2>2 DEF d
  <1>7. target' \in Nat /\ target' <= 3 * k.budget /\ cache' = k
    <2>1. /\ cache' = k
          /\ target' = k.budget \div 2 + Min({k.tier_cached_bytes, 2 * k.budget})
      BY <1>2 DEF k
    <2>2. k.budget \div 2 \in Nat /\ k.budget \div 2 <= k.budget
      BY <1>5
    <2> QED
      BY <1>5, <1>6, <2>1, <2>2
  <1>8. Has(k, class) <=> Has(cache, class)
    BY <1>3, <1>4, AlikeHas
  <1>9. /\ pc = "enter" /\ pc' = "trim"
        /\ retired' = retired /\ class' = class /\ then' = then
        /\ CACHE_BUDGET' = CACHE_BUDGET /\ CACHE_BUDGET_EPOCH' = CACHE_BUDGET_EPOCH
    BY DEF EnterTrim, globalVars
  <1>10. Caches' /\ CallTypes' /\ Targeted'
    BY <1>1, <1>4, <1>7, <1>9 DEF Caches, CallTypes, Targeted
  <1>11. Refilling'
    BY <1>1, <1>7, <1>8, <1>9 DEF Refilling
  <1> QED
    BY <1>10, <1>11, Parts, PTL

\* A round of trim.
LEMMA TrimStepInv ==
  ASSUME BudgetInv, TrimStep PROVE BudgetInv'
  <1>1. Caches /\ CallTypes /\ Refilling /\ Targeted
    BY Parts
  <1>2. /\ pc = "trim" /\ cache' \in Trimmed(cache)
        /\ retired' = retired /\ pc' = pc /\ class' = class /\ then' = then /\ target' = target
        /\ CACHE_BUDGET' = CACHE_BUDGET /\ CACHE_BUDGET_EPOCH' = CACHE_BUDGET_EPOCH
    BY DEF TrimStep, globalVars, callVars
  <1>3. Flushed(cache', cache)
    BY <1>1, <1>2, TrimmedFacts DEF Caches
  <1>4. Caches' /\ CallTypes' /\ Targeted'
    BY <1>1, <1>2, <1>3 DEF Caches, CallTypes, Targeted, Flushed
  <1>5. Refilling'
    BY <1>1, <1>2, <1>3 DEF Refilling, Flushed
  <1> QED
    BY <1>4, <1>5, Parts, PTL

\* The end of trim.
LEMMA TrimDoneInv ==
  ASSUME BudgetInv, TrimDone PROVE BudgetInv'
  <1>1. Caches /\ CallTypes /\ Refilling /\ Targeted
    BY Parts
  <1>2. /\ pc = "trim" /\ retired' = retired
        /\ CACHE_BUDGET' = CACHE_BUDGET /\ CACHE_BUDGET_EPOCH' = CACHE_BUDGET_EPOCH
    BY DEF TrimDone, globalVars
  <1>3. CASE then = "shed"
    <2> DEFINE k == [cache EXCEPT !.foreign_bytes = 0]
    <2>1. cache \in Cache /\ Exact(cache)
      BY <1>1 DEF Caches, Sound
    <2>2. /\ k \in Cache /\ k.bin = cache.bin /\ k.act = cache.act
          /\ k.cached_bytes = cache.cached_bytes /\ k.tier_cached_bytes = cache.tier_cached_bytes
      BY <2>1 DEF Cache
    <2>3. cache' = k /\ Return
      BY <1>3 DEF TrimDone
    <2> HIDE DEF k
    <2>4. Sound(k)
      BY <2>1, <2>2, CountsSame DEF Sound
    <2>5. Caches' /\ CallTypes' /\ Targeted' /\ Refilling'
      BY <1>1, <1>2, <2>3, <2>4 DEF Caches, CallTypes, Targeted, Refilling, Return
    <2> QED
      BY <2>5, Parts, PTL
  <1>4. CASE then # "shed"
    <2>1. pc' = then /\ then' = "shed" /\ target' = 0 /\ cache' = cache /\ class' = class
      BY <1>4 DEF TrimDone
    <2>2. Caches' /\ CallTypes' /\ Targeted' /\ Refilling'
      BY <1>1, <1>2, <1>4, <2>1 DEF Caches, CallTypes, Targeted, Refilling
    <2> QED
      BY <2>2, Parts, PTL
  <1> QED
    BY <1>3, <1>4

\* A miss: the retired cache is adopted, stolen from or drained.
LEMMA RefillInv ==
  ASSUME BudgetInv, NEW c \in Class, Refill(c) PROVE BudgetInv'
  <1>1. Caches /\ CallTypes /\ Refilling /\ Targeted /\ TypeOK
    BY Parts DEF BudgetInv
  <1> DEFINE next == IF c \in Big THEN "recheck" ELSE "take"
  <1>2. PICK armed \in arm_exit_hook(cache) : \E r \in reclaim_retired(refresh_budget(armed)) :
          /\ retired' = r[2]
          /\ IF Has(r[1], c) THEN cache' = Pop(r[1], c) /\ UNCHANGED callVars
             ELSE /\ cache' = r[1] /\ class' = c /\ UNCHANGED target
                  /\ IF small_cached_bytes(r[1]) > r[1].budget \div 2
                     THEN pc' = "enter" /\ then' = next ELSE pc' = next /\ UNCHANGED then
    BY DEF Refill
  <1>3. PICK r \in reclaim_retired(refresh_budget(armed)) :
          /\ retired' = r[2]
          /\ IF Has(r[1], c) THEN cache' = Pop(r[1], c) /\ UNCHANGED callVars
             ELSE /\ cache' = r[1] /\ class' = c /\ UNCHANGED target
                  /\ IF small_cached_bytes(r[1]) > r[1].budget \div 2
                     THEN pc' = "enter" /\ then' = next ELSE pc' = next /\ UNCHANGED then
    BY <1>2
  <1>4. Sound(refresh_budget(armed))
    <2>1. Sound(armed)
      BY <1>1, <1>2, BudgetSound DEF Caches
    <2> QED
      BY <1>1, <2>1, BudgetSound
  <1>5. Sound(r[1]) /\ (r[2] = NoCache \/ Sound(r[2]))
    BY <1>1, <1>3, <1>4, ReclaimSound DEF Caches
  <1>6. /\ pc = "idle"
        /\ CACHE_BUDGET' = CACHE_BUDGET /\ CACHE_BUDGET_EPOCH' = CACHE_BUDGET_EPOCH
    BY DEF Refill, globalVars
  <1>7. next \in {"recheck", "take"}
    OBVIOUS
  <1> HIDE DEF next
  <1>8. CASE Has(r[1], c)
    <2>1. Sound(Pop(r[1], c))
      BY <1>5, <1>8, PopSound
    <2>2. Caches' /\ CallTypes' /\ Refilling' /\ Targeted'
      BY <1>1, <1>3, <1>5, <1>6, <1>8, <2>1 DEF Caches, CallTypes, Refilling, Targeted, callVars
    <2> QED
      BY <2>2, Parts, PTL
  <1>9. CASE ~Has(r[1], c)
    <2>1. Caches'
      BY <1>3, <1>5, <1>9 DEF Caches
    <2>2. CallTypes' /\ Refilling' /\ Targeted'
      BY <1>1, <1>3, <1>6, <1>7, <1>9 DEF CallTypes, Refilling, Targeted
    <2> QED
      BY <2>1, <2>2, Parts, PTL
  <1> QED
    BY <1>8, <1>9

\* The second look of a big refill.
LEMMA RecheckInv ==
  ASSUME BudgetInv, Recheck PROVE BudgetInv'
  <1>1. Caches /\ CallTypes /\ Refilling /\ Targeted
    BY Parts
  <1>2. Caches' /\ CallTypes' /\ Refilling' /\ Targeted'
    BY <1>1 DEF Caches, CallTypes, Refilling, Targeted, Recheck, globalVars
  <1> QED
    BY <1>2, Parts, PTL

\* The blocks of a refill are counted, whichever chain they go to: there was
\* nothing of the class, so the new active chain replaces none.
LEMMA TakeInv ==
  ASSUME BudgetInv, Take PROVE BudgetInv'
  <1>1. Caches /\ CallTypes /\ Refilling /\ Targeted
    BY Parts
  <1> DEFINE c == class
  <1>2. /\ c \in Class /\ ~Has(cache, c) /\ retired' = retired /\ Return
        /\ CACHE_BUDGET' = CACHE_BUDGET /\ CACHE_BUDGET_EPOCH' = CACHE_BUDGET_EPOCH
    BY <1>1 DEF Take, Refilling, globalVars
  <1>3. Sound(cache')
    <2>1. CASE UNCHANGED cache
      BY <1>1, <2>1 DEF Caches
    <2>2. ASSUME NEW count \in 1 .. IF c \in Small THEN RefillBatch ELSE SpanBatch,
                 \/ c \in Tiered /\ cache' = [Added(cache, c, count - 1) EXCEPT !.act[c] = count - 1]
                 \/ cache' = [Added(cache, c, count - 1) EXCEPT !.bin[c] = @ + count - 1]
          PROVE  Sound(cache')
      <3> DEFINE n == count - 1
      <3>1. n \in Nat
        BY <2>2, CacheBudgetAssumption
      <3>2. cache \in Cache /\ Sound(cache)
        BY <1>1 DEF Caches, Sound
      <3>3. cache.bin[c] = 0 /\ (c \in Tiered => cache.act[c] = 0)
        BY <1>2, <3>2, Kinds DEF Has
      <3>4. /\ Sound([Added(cache, c, n) EXCEPT !.bin[c] = cache.bin[c] + n])
            /\ c \in Tiered => Sound([Added(cache, c, n) EXCEPT !.act[c] = cache.act[c] + n])
        <4> HIDE DEF n
        <4> QED
          BY <1>2, <3>1, <3>2, AddSound
      <3>5. /\ [Added(cache, c, n) EXCEPT !.bin[c] = @ + count - 1]
                 = [Added(cache, c, n) EXCEPT !.bin[c] = cache.bin[c] + n]
            /\ c \in Tiered => [Added(cache, c, n) EXCEPT !.act[c] = n]
                 = [Added(cache, c, n) EXCEPT !.act[c] = cache.act[c] + n]
        <4>1. Added(cache, c, n).bin[c] + count - 1 = cache.bin[c] + n
          BY <2>2, <3>2, <3>3 DEF Added, Cache
        <4>2. c \in Tiered => n = cache.act[c] + n
          BY <3>1, <3>3
        <4> HIDE DEF n
        <4> QED
          BY <4>1, <4>2
      <3> QED
        BY <2>2, <3>4, <3>5
    <2> QED
      BY <2>1, <2>2 DEF Take
  <1>4. Caches' /\ CallTypes' /\ Refilling' /\ Targeted'
    BY <1>1, <1>2, <1>3 DEF Caches, CallTypes, Refilling, Targeted, Return
  <1> QED
    BY <1>4, Parts, PTL

\* Flush and exit.
LEMMA LeaveInv ==
  ASSUME BudgetInv, FlushThread \/ Exit PROVE BudgetInv'
  <1>1. Caches /\ CallTypes /\ Refilling /\ Targeted
    BY Parts
  <1>2. /\ Sound(cache') /\ retired' \in {NoCache, retired, cache} /\ pc = "idle"
        /\ pc' = pc /\ class' = class /\ then' = then /\ target' = target
        /\ CACHE_BUDGET' = CACHE_BUDGET /\ CACHE_BUDGET_EPOCH' = CACHE_BUDGET_EPOCH
    BY <1>1, FlushAllSound, EmptyCacheSound DEF Caches, FlushThread, Exit, callVars, globalVars
  <1>3. Caches' /\ CallTypes' /\ Refilling' /\ Targeted'
    BY <1>1, <1>2 DEF Caches, CallTypes, Refilling, Targeted
  <1> QED
    BY <1>3, Parts, PTL

\* Every step keeps the invariant.
LEMMA StepInv == BudgetInv /\ [Next]_vars => BudgetInv'
  <1> SUFFICES ASSUME BudgetInv, [Next]_vars PROVE BudgetInv'
    OBVIOUS
  <1>1. CASE UNCHANGED vars
    <2>1. Caches /\ CallTypes /\ Refilling /\ Targeted
      BY Parts
    <2>2. Caches' /\ CallTypes' /\ Refilling' /\ Targeted'
      BY <1>1, <2>1 DEF Caches, CallTypes, Refilling, Targeted, vars, globalVars, callVars
    <2> QED
      BY <2>2, Parts, PTL
  <1>2. CASE \E bytes \in Budgets : set_budget(bytes)
    BY <1>2, SetBudgetInv
  <1>3. CASE \E c \in Class : Alloc(c)
    BY <1>3, AllocInv
  <1>4. CASE \E c \in Class : Refill(c)
    BY <1>4, RefillInv
  <1>5. CASE (\E c \in Small : dealloc(c)) \/ (\E c \in Tiered : DeallocTiered(c))
    BY <1>5, DeallocInv, Kinds
  <1>6. CASE EnterTrim
    BY <1>6, EnterTrimInv
  <1>7. CASE TrimStep
    BY <1>7, TrimStepInv
  <1>8. CASE TrimDone
    BY <1>8, TrimDoneInv
  <1>9. CASE Recheck
    BY <1>9, RecheckInv
  <1>10. CASE Take
    BY <1>10, TakeInv
  <1>11. CASE FlushThread \/ Exit
    BY <1>11, LeaveInv
  <1> QED
    BY <1>1, <1>2, <1>3, <1>4, <1>5, <1>6, <1>7, <1>8, <1>9, <1>10, <1>11 DEF Next

-----------------------------------------------------------------------------
(* The theorems. *)

\* The inductive invariant of the thread cache across its classes (cache.rs):
\* counters, refills in progress and trim's target.
THEOREM Safety == Spec => []BudgetInv
  <1> QED
    BY InitInv, StepInv, PTL DEF Spec

\* cached_bytes and tier_cached_bytes are exactly the bytes in the bins and the
\* active chains, of the running cache and of the retired one, at every step of
\* every call.
THEOREM CountersExact == Spec => []BytesExact
  <1>1. BudgetInv => BytesExact
    BY DEF BudgetInv
  <1> QED
    BY <1>1, Safety, PTL

\* A free that does not trim left both limits alone.
LEMMA FreeWithin ==
  ASSUME BudgetInv, NEW c \in Class, dealloc(c) \/ DeallocTiered(c), pc' = "idle"
  PROVE  cache'.cached_bytes <= 3 * cache'.budget
  <1>1. Sound(cache')
    <2>1. BudgetInv'
      BY DeallocInv
    <2>2. Caches'
      BY <2>1, Parts, PTL
    <2> QED
      BY <2>2 DEF Caches
  <1> DEFINE k == cache'
  <1>2. k.cached_bytes \in Nat /\ k.tier_cached_bytes \in Nat /\ k.budget \in Nat
    BY <1>1 DEF Sound, Cache
  <1> HIDE DEF k
  <1>3. ~should_shed_small(k) \/ ~should_shed(k)
    BY DEF dealloc, DeallocTiered, ShedIf, k
  <1>4. CASE ~should_shed_small(k)
    BY <1>2, <1>4 DEF should_shed_small, k
  <1>5. CASE ~should_shed(k) /\ k.tier_cached_bytes # 0
    <2>1. k.tier_cached_bytes <= 2 * k.budget /\ small_cached_bytes(k) <= k.budget
      <3>1. small_cached_bytes(k) \in Nat
        BY <1>2, SaturatingSub DEF small_cached_bytes
      <3> QED
        BY <1>2, <1>5, <3>1 DEF should_shed
    <2>2. k.cached_bytes - k.tier_cached_bytes <= small_cached_bytes(k)
      <3>1. small_cached_bytes(k) = IF k.cached_bytes >= k.tier_cached_bytes
                                    THEN k.cached_bytes - k.tier_cached_bytes ELSE 0
        BY <1>2, SaturatingSub DEF small_cached_bytes
      <3> QED
        BY <1>2, <3>1
    <2>3. small_cached_bytes(k) \in Nat
      BY <1>2, SaturatingSub DEF small_cached_bytes
    <2>4. k.cached_bytes <= 3 * k.budget
      BY <1>2, <2>1, <2>2, <2>3
    <2> QED
      BY <2>4 DEF k
  <1>6. CASE ~should_shed(k) /\ k.tier_cached_bytes = 0
    <2>1. ~should_shed_small(k)
      BY <1>6 DEF should_shed
    <2> QED
      BY <1>4, <2>1
  <1> QED
    BY <1>3, <1>4, <1>5, <1>6

\* A free that trims ends at trim's target, or with nothing to give back.
LEMMA TrimWithin ==
  ASSUME BudgetInv, [Next]_vars, pc = "trim", then = "shed", pc' = "idle"
  PROVE  cache'.cached_bytes <= 3 * cache'.budget \/ AtFloor(cache')
  <1>1. TrimDone
    <2>1. ~UNCHANGED vars
      BY DEF vars, callVars
    <2>2. \A bytes \in Budgets : ~set_budget(bytes)
      BY DEF set_budget, callVars
    <2>3. ~TrimStep
      BY DEF TrimStep, callVars
    <2>4. \A c \in Class : ~Alloc(c) /\ ~Refill(c) /\ ~dealloc(c) /\ ~DeallocTiered(c)
      BY DEF Alloc, Refill, dealloc, DeallocTiered
    <2>5. ~EnterTrim /\ ~Recheck /\ ~Take /\ ~FlushThread /\ ~Exit
      BY DEF EnterTrim, Recheck, Take, FlushThread, Exit
    <2> QED
      BY <2>1, <2>2, <2>3, <2>4, <2>5, Kinds DEF Next
  <1>2. Sound(cache) /\ target \in Nat /\ target <= 3 * cache.budget
    BY Parts DEF Caches, CallTypes, Targeted
  <1>3. cache \in Cache /\ cache.budget \in Nat /\ cache.cached_bytes \in Nat
    BY <1>2 DEF Sound, Cache
  <1>4. cache' = [cache EXCEPT !.foreign_bytes = 0]
    BY <1>1 DEF TrimDone
  <1>5. /\ cache'.budget = cache.budget /\ cache'.cached_bytes = cache.cached_bytes
        /\ cache'.bin = cache.bin /\ cache'.act = cache.act
    BY <1>3, <1>4 DEF Cache
  <1>6. CASE cache.cached_bytes <= target
    BY <1>2, <1>3, <1>5, <1>6
  <1>7. CASE Trimmed(cache) = {}
    <2>1. AtFloor(cache)
      BY <1>2, <1>7, TrimmedFacts
    <2> QED
      BY <1>5, <2>1 DEF AtFloor, TierBytes
  <1> QED
    BY <1>1, <1>6, <1>7 DEF TrimDone

\* A free leaves the cache within its budget and the tiers' allowance, or with
\* nothing left to give back (should_shed, trim), however the budget was changed
\* and whatever was adopted or stolen.
THEOREM FreesSettle == Spec => FreeSettles
  <1> DEFINE A == /\ pc' = "idle"
                  /\ \/ \E c \in Class : dealloc(c) \/ DeallocTiered(c)
                     \/ pc = "trim" /\ then = "shed"
                  => cache'.cached_bytes <= 3 * cache'.budget \/ AtFloor(cache')
  <1>1. BudgetInv /\ [Next]_vars => A
    BY FreeWithin, TrimWithin
  <1>2. BudgetInv /\ [Next]_vars => [A]_vars
    BY <1>1
  <1> HIDE DEF A
  <1>3. Spec => [][A]_vars
    BY <1>2, Safety, PTL DEF Spec
  <1> QED
    BY <1>3 DEF FreeSettles, A

=============================================================================
