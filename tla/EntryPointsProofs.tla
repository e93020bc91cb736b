-------------------------- MODULE EntryPointsProofs --------------------------
(***************************************************************************)
(* Proofs about EntryPoints, for every size, every alignment that is a      *)
(* power of two and every word length: a block goes back to its heap and    *)
(* class, is of the least class that fits, has the size and the alignment   *)
(* asked for, and keeps its contents through realloc; and a span holds as   *)
(* many blocks of its class as its capacity says.                           *)
(*                                                                         *)
(* The tables of size classes enter only through TablesGraded.              *)
(***************************************************************************)
EXTENDS EntryPoints, TLAPS, FiniteSetTheorems, WellFoundedInduction

-----------------------------------------------------------------------------
(* Minima and maxima. *)

\* A set of naturals that is not empty has a least element.
LEMMA MinNat ==
  ASSUME NEW S, S \subseteq Nat, S # {}
  PROVE  Min(S) \in S /\ \A y \in S : Min(S) <= y
  <1> DEFINE R == {ss \in Nat \X Nat : ss[1] < ss[2]}
  <1>1. OpToRel(<, Nat) = R
    BY Zenon DEF OpToRel
  <1>2. IsWellFoundedOn(R, Nat)
    BY <1>1, NatLessThanWellFounded, Zenon
  <1>3. PICK x \in S : \A y \in S : ~(<<y, x>> \in R)
    <2> HIDE DEF R
    <2> QED
      BY <1>2, WFMin, Zenon
  <1>4. ASSUME NEW y \in S, ~(x <= y) PROVE FALSE
    <2>1. y < x /\ y \in Nat /\ x \in Nat
      BY <1>4
    <2>2. <<y, x>> \in R
      BY <2>1
    <2> QED
      BY <1>3, <2>2
  <1> QED
    BY <1>4 DEF Min

\* A bounded one has a greatest.
LEMMA MaxNat ==
  ASSUME NEW S, S \subseteq Nat, S # {}, NEW n \in Nat, \A x \in S : x <= n
  PROVE  Max(S) \in S /\ \A y \in S : Max(S) >= y
  <1> DEFINE D == {y \in Nat : \E x \in S : y = n - x}
  <1>1. D \subseteq Nat /\ D # {}
    <2>1. PICK x \in S : TRUE
      OBVIOUS
    <2>2. n - x \in D
      BY <2>1
    <2> QED
      BY <2>2
  <1>2. Min(D) \in D /\ \A y \in D : Min(D) <= y
    <2> HIDE DEF D
    <2> QED
      BY <1>1, MinNat
  <1>3. PICK x \in S : Min(D) = n - x
    BY <1>2
  <1>4. ASSUME NEW y \in S PROVE x >= y
    <2>1. n - y \in D
      OBVIOUS
    <2>2. n - x <= n - y
      BY <1>2, <1>3, <2>1
    <2> QED
      BY <2>2
  <1> QED
    BY <1>4 DEF Max

\* The two-element minima and maxima of realloc.
LEMMA MinMaxTwo ==
  ASSUME NEW a \in Int, NEW b \in Int
  PROVE  /\ Min({a, b}) = IF a <= b THEN a ELSE b
         /\ Max({a, b}) = IF a >= b THEN a ELSE b
  BY DEF Min, Max

-----------------------------------------------------------------------------
(* The tables. *)

\* The scan finds the least class that holds a size, and a larger size never an
\* earlier class.
LEMMA ScanLeast ==
  ASSUME NEW table, NEW num, NEW below \in Nat, NEW top \in Nat, Graded(table, num, below, top),
         NEW size \in Nat, size <= top
  PROVE  /\ Scan(table, num, size) \in 0 .. num - 1
         /\ table[Scan(table, num, size)] >= size
         /\ \A i \in 0 .. num - 1 : table[i] >= size => Scan(table, num, size) <= i
  <1> DEFINE fit == {i \in 0 .. num - 2 : table[i] >= size}
  <1>1. num \in Nat \ {0} /\ table[num - 1] = top
    BY DEF Graded
  <1>2. fit # {} => Min(fit) \in fit /\ \A i \in fit : Min(fit) <= i
    <2>1. fit \subseteq Nat
      BY <1>1
    <2> HIDE DEF fit
    <2> QED
      BY <2>1, MinNat
  <1>3. Scan(table, num, size) = IF fit = {} THEN num - 1 ELSE Min(fit)
    BY DEF Scan
  <1>4. CASE fit = {}
    <2>1. \A i \in 0 .. num - 1 : table[i] >= size => i = num - 1
      BY <1>1, <1>4
    <2> QED
      BY <1>1, <1>3, <1>4, <2>1
  <1>5. CASE fit # {}
    <2>1. Min(fit) \in 0 .. num - 2 /\ table[Min(fit)] >= size
      BY <1>2, <1>5
    <2>2. \A i \in 0 .. num - 1 : table[i] >= size => Min(fit) <= i
      BY <1>1, <1>2, <1>5, <2>1
    <2> HIDE DEF fit
    <2> QED
      BY <1>1, <1>3, <1>5, <2>1, <2>2
  <1> QED
    BY <1>4, <1>5

\* The limits of the tiers.
LEMMA Limits ==
  /\ MAX_SMALL_SIZE \in Nat /\ MAX_MEDIUM_BLOCK \in Nat /\ MAX_BIG_BLOCK \in Nat
  /\ MAX_SMALL_SIZE < MAX_MEDIUM_BLOCK /\ MAX_MEDIUM_BLOCK < MAX_BIG_BLOCK
  /\ MAX_MEDIUM_BLOCK % MIN_ALIGN = 0 /\ MAX_BIG_BLOCK % MIN_ALIGN = 0
  <1>1. MAX_MEDIUM_BLOCK \in MAX_SMALL_SIZE + 1 .. MAX_MEDIUM_BLOCK /\ MAX_MEDIUM_BLOCK % MIN_ALIGN = 0
    BY TablesGraded DEF Graded
  <1>2. MAX_BIG_BLOCK \in MAX_MEDIUM_BLOCK + 1 .. MAX_BIG_BLOCK /\ MAX_BIG_BLOCK % MIN_ALIGN = 0
    BY TablesGraded DEF Graded
  <1>3. MAX_SMALL_SIZE \in Nat
    BY DEF MAX_SMALL_SIZE
  <1> QED
    BY <1>1, <1>2, <1>3

\* Class c is the least of a table that holds a size.
LeastIn(table, num, c, size) ==
  /\ c \in 0 .. num - 1 /\ table[c] >= size
  /\ \A i \in 0 .. num - 1 : table[i] >= size => table[c] <= table[i]

\* Scanning for a size rounded within its multiple of MIN_ALIGN finds the same.
LEMMA ScanRounded ==
  ASSUME NEW table, NEW num, NEW below \in Nat, NEW top \in Nat, Graded(table, num, below, top),
         NEW size \in Nat, NEW near \in Nat, near <= top,
         NEW q \in Nat, size > 16 * q, size <= 16 * q + 16, near > 16 * q, near <= 16 * q + 16
  PROVE  LeastIn(table, num, Scan(table, num, near), size)
  <1> DEFINE c == Scan(table, num, near)
  <1>1. /\ c \in 0 .. num - 1 /\ table[c] >= near
        /\ \A i \in 0 .. num - 1 : table[i] >= near => c <= i
    BY ScanLeast
  <1>2. num \in Nat /\ \A i \in 0 .. num - 1 : table[i] \in Nat /\ table[i] % 16 = 0
    BY DEF Graded, MIN_ALIGN
  <1>3. \A i \in 0 .. num - 1 : table[i] >= near <=> table[i] >= size
    BY <1>2
  <1>4. \A i, j \in 0 .. num - 1 : i <= j => table[i] <= table[j]
    BY DEF Graded
  <1> HIDE DEF c
  <1> QED
    BY <1>1, <1>2, <1>3, <1>4 DEF LeastIn, c

\* class_for_size finds the least small class that holds a size.
LEMMA SmallClass ==
  ASSUME NEW size \in Nat, size > 0, size <= MAX_SMALL_SIZE
  PROVE  LeastIn(CLASSES, NUM_CLASSES, class_for_size(size), size)
  <1> DEFINE q == (size + 15) \div 16
             r == q * 16
  <1>1. q \in 0 .. 1024 /\ q >= 1 /\ r <= 16384 /\ r >= size /\ r < size + 16
    BY DEF MAX_SMALL_SIZE
  <1>2. CLASS_LUT[q] = Scan(CLASSES, NUM_CLASSES, r)
    BY <1>1 DEF CLASS_LUT, build_lut, class_for_size_scan, MAX_SMALL_SIZE, MIN_ALIGN
  <1>3. LeastIn(CLASSES, NUM_CLASSES, Scan(CLASSES, NUM_CLASSES, r), size)
    <2> DEFINE k == q - 1
               zero == 0
    <2>1. /\ k \in Nat /\ r \in Nat /\ r <= MAX_SMALL_SIZE
          /\ size > 16 * k /\ size <= 16 * k + 16
          /\ r > 16 * k /\ r <= 16 * k + 16
      BY <1>1 DEF MAX_SMALL_SIZE
    <2>2. zero \in Nat /\ MAX_SMALL_SIZE \in Nat /\ Graded(CLASSES, NUM_CLASSES, zero, MAX_SMALL_SIZE)
      BY TablesGraded DEF MAX_SMALL_SIZE
    <2> HIDE DEF k, q, r, zero
    <2> QED
      BY <2>1, <2>2, ScanRounded
  <1>4. Scan(CLASSES, NUM_CLASSES, r) % NUM_CLASSES = Scan(CLASSES, NUM_CLASSES, r)
    BY <1>3 DEF LeastIn, NUM_CLASSES
  <1>5. class_for_size(size) = CLASS_LUT[q] % NUM_CLASSES
    BY DEF class_for_size, MIN_ALIGN
  <1> HIDE DEF q, r
  <1> QED
    BY <1>2, <1>3, <1>4, <1>5

\* medium_class_for_size finds the least medium class.
LEMMA MediumClass ==
  ASSUME NEW size \in Nat, size > MAX_SMALL_SIZE, size <= MAX_MEDIUM_BLOCK
  PROVE  LeastIn(MEDIUM_CLASSES, NUM_MEDIUM, medium_class_for_size(size), size)
  <1> DEFINE q == (size - 16384 - 1) \div 16
             r == 16384 + 1 + q * 16
  <1>1. q \in Nat /\ r \in Nat /\ r <= size /\ size <= r + 15
    BY DEF MAX_SMALL_SIZE
  <1>2. medium_class_for_size(size) = Scan(MEDIUM_CLASSES, NUM_MEDIUM, r)
    BY Limits DEF medium_class_for_size, build_medium_lut, MAX_SMALL_SIZE, MIN_ALIGN
  <1>3. LeastIn(MEDIUM_CLASSES, NUM_MEDIUM, Scan(MEDIUM_CLASSES, NUM_MEDIUM, r), size)
    <2> DEFINE k == q + 1024
    <2>1. /\ k \in Nat /\ r \in Nat /\ r <= MAX_MEDIUM_BLOCK
          /\ size > 16 * k /\ size <= 16 * k + 16
          /\ r > 16 * k /\ r <= 16 * k + 16
      BY <1>1, Limits
    <2>2. MAX_SMALL_SIZE \in Nat /\ Graded(MEDIUM_CLASSES, NUM_MEDIUM, MAX_SMALL_SIZE, MAX_MEDIUM_BLOCK)
      BY TablesGraded DEF MAX_SMALL_SIZE
    <2> HIDE DEF k, q, r
    <2> QED
      BY <2>1, <2>2, ScanRounded, Limits
  <1> QED
    BY <1>2, <1>3

\* big_class_for_size finds the least big class.
LEMMA BigClass ==
  ASSUME NEW size \in Nat, size > MAX_MEDIUM_BLOCK, size <= MAX_BIG_BLOCK
  PROVE  LeastIn(BIG_CLASSES, NUM_BIG, big_class_for_size(size), size)
  <1> DEFINE q == (size - MAX_MEDIUM_BLOCK - 1) \div 16
             r == MAX_MEDIUM_BLOCK + 1 + q * 16
             m == MAX_MEDIUM_BLOCK \div 16
  <1>1. q \in Nat /\ r \in Nat /\ r <= size /\ size <= r + 15
    BY Limits
  <1>2. big_class_for_size(size) = Scan(BIG_CLASSES, NUM_BIG, r)
    BY Limits DEF big_class_for_size, build_big_lut, MIN_ALIGN
  <1>3. LeastIn(BIG_CLASSES, NUM_BIG, Scan(BIG_CLASSES, NUM_BIG, r), size)
    <2> DEFINE k == q + m
    <2>0. m \in Nat /\ MAX_MEDIUM_BLOCK = 16 * m
      BY Limits DEF MIN_ALIGN
    <2>1. /\ k \in Nat /\ r \in Nat /\ r <= MAX_BIG_BLOCK
          /\ size > 16 * k /\ size <= 16 * k + 16
          /\ r > 16 * k /\ r <= 16 * k + 16
      BY <1>1, <2>0, Limits
    <2>2. Graded(BIG_CLASSES, NUM_BIG, MAX_MEDIUM_BLOCK, MAX_BIG_BLOCK)
      BY TablesGraded
    <2> HIDE DEF k, q, r, m
    <2> QED
      BY <2>1, <2>2, ScanRounded, Limits
  <1> QED
    BY <1>2, <1>3

\* A size between two of one big class is of that class.
LEMMA BigClassBetween ==
  ASSUME NEW a \in Nat, NEW b \in Nat, NEW c \in Nat, a <= b, b <= c,
         a > MAX_MEDIUM_BLOCK, c <= MAX_BIG_BLOCK,
         big_class_for_size(a) = big_class_for_size(c)
  PROVE  big_class_for_size(b) = big_class_for_size(c)
  <1> DEFINE Slot(x) == MAX_MEDIUM_BLOCK + 1 + ((x - MAX_MEDIUM_BLOCK - 1) \div 16) * 16
  <1>1. ASSUME NEW x \in Nat, x > MAX_MEDIUM_BLOCK, x <= MAX_BIG_BLOCK
        PROVE  /\ Slot(x) \in Nat /\ Slot(x) <= MAX_BIG_BLOCK
               /\ big_class_for_size(x) = Scan(BIG_CLASSES, NUM_BIG, Slot(x))
    BY <1>1, Limits DEF big_class_for_size, build_big_lut, MIN_ALIGN
  <1>2. Slot(a) <= Slot(b) /\ Slot(b) <= Slot(c)
    BY Limits
  <1>3. ASSUME NEW x \in Nat, NEW y \in Nat, x <= y, y <= MAX_BIG_BLOCK
        PROVE  /\ Scan(BIG_CLASSES, NUM_BIG, x) \in Int /\ Scan(BIG_CLASSES, NUM_BIG, y) \in Int
               /\ Scan(BIG_CLASSES, NUM_BIG, x) <= Scan(BIG_CLASSES, NUM_BIG, y)
    <2>1. Graded(BIG_CLASSES, NUM_BIG, MAX_MEDIUM_BLOCK, MAX_BIG_BLOCK)
      BY TablesGraded
    <2>2. \A i \in 0 .. NUM_BIG - 1 : BIG_CLASSES[i] \in Nat
      BY <2>1, Limits DEF Graded
    <2>3. NUM_BIG \in Nat
      BY <2>1 DEF Graded
    <2>4. /\ Scan(BIG_CLASSES, NUM_BIG, x) \in 0 .. NUM_BIG - 1
          /\ \A i \in 0 .. NUM_BIG - 1 : BIG_CLASSES[i] >= x => Scan(BIG_CLASSES, NUM_BIG, x) <= i
      BY <1>3, <2>1, ScanLeast, Limits
    <2>5. /\ Scan(BIG_CLASSES, NUM_BIG, y) \in 0 .. NUM_BIG - 1
          /\ BIG_CLASSES[Scan(BIG_CLASSES, NUM_BIG, y)] >= y
      BY <1>3, <2>1, ScanLeast, Limits
    <2> QED
      BY <1>3, <2>2, <2>3, <2>4, <2>5
  <1>4. b > MAX_MEDIUM_BLOCK /\ b <= MAX_BIG_BLOCK /\ c > MAX_MEDIUM_BLOCK /\ a <= MAX_BIG_BLOCK
    BY Limits
  <1>5. /\ Slot(a) \in Nat /\ Slot(b) \in Nat /\ Slot(c) \in Nat
        /\ Slot(a) <= MAX_BIG_BLOCK /\ Slot(b) <= MAX_BIG_BLOCK /\ Slot(c) <= MAX_BIG_BLOCK
        /\ big_class_for_size(a) = Scan(BIG_CLASSES, NUM_BIG, Slot(a))
        /\ big_class_for_size(b) = Scan(BIG_CLASSES, NUM_BIG, Slot(b))
        /\ big_class_for_size(c) = Scan(BIG_CLASSES, NUM_BIG, Slot(c))
    BY <1>1, <1>4
  <1> HIDE DEF Slot
  <1>6. /\ big_class_for_size(a) \in Int /\ big_class_for_size(b) \in Int
        /\ big_class_for_size(a) <= big_class_for_size(b)
    BY <1>2, <1>3, <1>5
  <1>7. big_class_for_size(c) \in Int /\ big_class_for_size(b) <= big_class_for_size(c)
    BY <1>2, <1>3, <1>5
  <1> QED
    BY <1>6, <1>7

-----------------------------------------------------------------------------
(* Addresses. *)

\* align_up rounds to a multiple, by less than a.
LEMMA AlignUp ==
  ASSUME NEW n \in Nat, NEW a \in Nat \ {0}
  PROVE  /\ align_up(n, a) \in Nat /\ align_up(n, a) >= n /\ align_up(n, a) < n + a
         /\ \E k \in Nat : align_up(n, a) = k * a
  <1> DEFINE k == (n + a - 1) \div a
  <1>1. n + a - 1 = a * k + ((n + a - 1) % a)
    OBVIOUS
  <1>2. (n + a - 1) % a \in 0 .. a - 1
    OBVIOUS
  <1>3. k \in Nat
    OBVIOUS
  <1>4. align_up(n, a) = k * a
    BY DEF align_up
  <1> HIDE DEF k
  <1>5. k * a \in Nat /\ k * a >= n /\ k * a < n + a
    BY <1>1, <1>2, <1>3
  <1> QED
    BY <1>3, <1>4, <1>5

\* A multiple leaves no remainder, and what leaves none is a multiple.
LEMMA Multiple ==
  ASSUME NEW a \in Nat \ {0}, NEW n \in Nat
  PROVE  n % a = 0 <=> \E k \in Nat : n = k * a
  <1>1. ASSUME NEW k \in Nat, n = k * a PROVE n % a = 0
    BY <1>1
  <1>2. ASSUME n % a = 0 PROVE \E k \in Nat : n = k * a
    <2>1. n = a * (n \div a) + (n % a) /\ n \div a \in Nat
      OBVIOUS
    <2> QED
      BY <1>2, <2>1
  <1> QED
    BY <1>1, <1>2

\* The powers that divide a number: the largest, and with it all smaller ones.
LEMMA LowBitFacts ==
  ASSUME NEW n \in Nat, n > 0
  PROVE  LowBit(n) \in Powers /\ \A k \in Powers : n % k = 0 => k <= LowBit(n)
  <1> DEFINE S == {k \in Powers : n % k = 0}
  <1>1. S \subseteq Nat /\ 1 \in S
    <2>1. Powers \subseteq Nat /\ 1 \in Powers
      BY EntryPointsAssumption
    <2>2. n % 1 = 0
      OBVIOUS
    <2> QED
      BY <2>1, <2>2
  <1>2. ASSUME NEW k \in S PROVE k <= n
    <2>1. k \in Nat \ {0} /\ n % k = 0
      BY EntryPointsAssumption
    <2>2. PICK j \in Nat : n = j * k
      BY <2>1, Multiple
    <2>3. j >= 1
      BY <2>1, <2>2
    <2> QED
      BY <2>1, <2>2, <2>3
  <1>3. Max(S) \in S /\ \A y \in S : Max(S) >= y
    <2> HIDE DEF S
    <2> QED
      BY <1>1, <1>2, MaxNat
  <1>4. LowBit(n) = Max(S)
    BY DEF LowBit
  <1>5. \A k \in Powers : k \in Nat
    BY EntryPointsAssumption
  <1> QED
    BY <1>1, <1>3, <1>4, <1>5

\* The user pointer of a large region has the alignment asked for, and at least
\* MIN_ALIGN; it lies at most that and a header from the start.
LEMMA Address ==
  ASSUME NEW align \in Powers, NEW a \in BOOLEAN, NEW o \in Offsets(align, a)
  PROVE  /\ o \in Nat /\ AddressAlign(align, a, o) \in Powers
         /\ AddressAlign(align, a, o) >= align /\ AddressAlign(align, a, o) >= 16
         /\ o <= AddressAlign(align, a, o) + 48
  <1> DEFINE unit == IF a THEN PAGE_SIZE ELSE KERNEL_PAGE
  <1>1. unit \in Nat /\ unit >= 4096
    BY DEF PAGE_SIZE, KERNEL_PAGE
  <1>2. align \in Nat \ {0} /\ 16 \in Powers /\ \A k \in Powers : k \in Nat
    BY EntryPointsAssumption DEF MIN_ALIGN
  <1>3. /\ o \in IF align <= unit THEN {align_up(48, align)} ELSE {unit, align}
        /\ AddressAlign(align, a, o) = IF o < unit THEN LowBit(o) ELSE align
    BY DEF Offsets, AddressAlign, LARGE_HEADER_SIZE
  <1> HIDE DEF unit
  <1>4. CASE align <= unit
    <2>1. o = align_up(48, align)
      BY <1>3, <1>4
    <2>2. o \in Nat /\ o >= 48 /\ o < 48 + align
      BY <1>2, <2>1, AlignUp
    <2>3. PICK k \in Nat : o = k * align
      BY <1>2, <2>1, AlignUp
    <2>4. o % align = 0
      BY <1>2, <2>2, <2>3, Multiple
    <2>5. LowBit(o) \in Powers /\ LowBit(o) \in Nat /\ align <= LowBit(o)
      <3>1. LowBit(o) \in Powers /\ align <= LowBit(o)
        BY <2>2, <2>4, LowBitFacts
      <3> QED
        BY <1>2, <3>1
    <2>6. align < 16 => o = 48
      <3> SUFFICES ASSUME align < 16 PROVE o = 48
        OBVIOUS
      <3>1. 16 % align = 0
        BY <1>2, EntryPointsAssumption
      <3>2. PICK j \in Nat : 16 = j * align
        BY <1>2, <3>1, Multiple
      <3>3. 48 = (3 * j) * align
        BY <1>2, <3>2
      <3>4. 3 * j <= k /\ k < 3 * j + 1
        BY <1>2, <2>2, <2>3, <3>3
      <3> QED
        BY <2>3, <3>3, <3>4
    <2>7. LowBit(o) >= 16
      <3>1. CASE align < 16
        <4>1. 16 <= LowBit(o)
          BY <1>2, <2>2, <2>6, <3>1, LowBitFacts
        <4> QED
          BY <1>2, <2>5, <4>1
      <3>2. CASE align >= 16
        BY <1>2, <2>5, <3>2
      <3> QED
        BY <1>2, <3>1, <3>2
    <2>8. CASE o < unit
      <3>1. AddressAlign(align, a, o) = LowBit(o)
        BY <1>3, <2>8
      <3>2. o <= LowBit(o) + 48
        BY <1>2, <2>2, <2>5
      <3> QED
        BY <2>2, <2>5, <2>7, <3>1, <3>2
    <2>9. CASE ~(o < unit)
      BY <1>1, <1>2, <1>3, <2>2, <2>9
    <2> QED
      BY <2>8, <2>9
  <1>5. CASE ~(align <= unit)
    BY <1>1, <1>2, <1>3, <1>5
  <1> QED
    BY <1>4, <1>5

-----------------------------------------------------------------------------
(* What the tiers give. *)

\* b is what a request for size bytes at align may be answered with.
Given(b, size, align) ==
  /\ Formed(b) /\ b.palign >= align /\ b.palign >= MIN_ALIGN
  /\ IF b.tier = "large"
     THEN /\ b.req = size /\ b.off + size <= b.mapped
          /\ align > MIN_ALIGN \/ size > MAX_MEDIUM_BLOCK
     ELSE align <= MIN_ALIGN /\ PackedAs(b, [api |-> "c", size |-> size, align |-> align])

\* A build with an arena has regions inside and outside of it.
LEMMA PlacesFacts ==
  \A a \in Places : a \in BOOLEAN /\ (a => target = "arena")
  BY DEF Places

\* The small tier.
LEMMA SmallGiven ==
  ASSUME NEW size \in Nat, size > 0, size <= MAX_SMALL_SIZE, NEW align \in Powers, align <= MIN_ALIGN,
         NEW b \in alloc_small(class_for_size(size))
  PROVE  Given(b, size, align)
  <1> DEFINE c == class_for_size(size)
  <1>1. c \in Nat
    BY SmallClass DEF LeastIn, NUM_CLASSES
  <1>2. PICK a \in Places : b = Packed("small", c, a, MIN_ALIGN, "page")
    BY DEF alloc_small
  <1> HIDE DEF c
  <1>3. /\ b \in Block /\ b.tier = "small" /\ b.cls = c /\ b.arena = a
        /\ b.palign = MIN_ALIGN /\ b.mask = "page"
    BY <1>1, <1>2, PlacesFacts DEF Packed, Block, MIN_ALIGN
  <1>4. MIN_ALIGN \in Powers /\ MIN_ALIGN \in Nat
    BY EntryPointsAssumption DEF MIN_ALIGN
  <1>5. Formed(b)
    BY <1>3, <1>4, PlacesFacts DEF Formed
  <1> QED
    BY <1>3, <1>4, <1>5 DEF Given, PackedAs, c

\* The medium tier.
LEMMA MediumGiven ==
  ASSUME NEW size \in Nat, size > MAX_SMALL_SIZE, size <= MAX_MEDIUM_BLOCK,
         NEW align \in Powers, align <= MIN_ALIGN,
         NEW b \in alloc_medium(medium_class_for_size(size))
  PROVE  Given(b, size, align)
  <1> DEFINE c == medium_class_for_size(size)
  <1>1. c \in Nat
    <2>1. NUM_MEDIUM \in Nat
      BY TablesGraded DEF Graded
    <2> QED
      BY <2>1, MediumClass DEF LeastIn
  <1>2. PICK a \in Places, m \in {"span", "page", "other"} :
          (~a => m = "span") /\ b = Packed("medium", c, a, MIN_ALIGN, m)
    <2>1. PICK a \in Places : b \in {Packed("medium", c, a, MIN_ALIGN, m) :
                                       m \in IF a THEN {"span", "page", "other"} ELSE {"span"}}
      BY DEF alloc_medium
    <2>2. PICK m \in IF a THEN {"span", "page", "other"} ELSE {"span"} :
            b = Packed("medium", c, a, MIN_ALIGN, m)
      BY <2>1
    <2> QED
      BY <2>2
  <1> HIDE DEF c
  <1>3. /\ b \in Block /\ b.tier = "medium" /\ b.cls = c /\ b.arena = a
        /\ b.palign = MIN_ALIGN /\ b.mask = m
    BY <1>1, <1>2, PlacesFacts DEF Packed, Block, MIN_ALIGN
  <1>4. MIN_ALIGN \in Powers /\ MIN_ALIGN \in Nat
    BY EntryPointsAssumption DEF MIN_ALIGN
  <1>5. Formed(b)
    BY <1>2, <1>3, <1>4, PlacesFacts DEF Formed
  <1> QED
    BY <1>3, <1>4, <1>5 DEF Given, PackedAs, c

\* The big tier: each block of a span lies at a multiple of MIN_ALIGN.
LEMMA BigGiven ==
  ASSUME target = "arena",
         NEW size \in Nat, size > MAX_MEDIUM_BLOCK, size <= MAX_BIG_BLOCK,
         NEW align \in Powers, align <= MIN_ALIGN,
         NEW b \in alloc_big(big_class_for_size(size))
  PROVE  Given(b, size, align)
  <1> DEFINE c == big_class_for_size(size)
             block == BIG_CLASSES[c]
             end == big_span_pages_for(block) * PAGE_SIZE
  <1>1. c \in Nat /\ block \in Nat \ {0} /\ block % 16 = 0
    <2>1. /\ NUM_BIG \in Nat
          /\ \A i \in 0 .. NUM_BIG - 1 : BIG_CLASSES[i] \in Nat \ {0} /\ BIG_CLASSES[i] % 16 = 0
      <3>1. Graded(BIG_CLASSES, NUM_BIG, MAX_MEDIUM_BLOCK, MAX_BIG_BLOCK)
        BY TablesGraded
      <3> QED
        BY <3>1, Limits DEF Graded, MIN_ALIGN
    <2>2. c \in 0 .. NUM_BIG - 1
      BY BigClass DEF LeastIn
    <2> QED
      BY <2>1, <2>2
  <1>2. PICK o \in BigBlocks(block, big_span_pages_for(block)), m \in {"page", "other"} :
          b = Packed("big", c, TRUE, LowBit(o), m)
    BY DEF alloc_big, Packed
  <1> HIDE DEF c
  <1>3. end \in Nat
    <2> HIDE DEF block
    <2> QED
      BY <1>1 DEF big_span_pages_for, PAGE_SIZE, BIG_MASTER_RESERVE, TARGET_BLOCKS_PER_SPAN
  <1>4. PICK k \in 0 .. (end - 64) \div block - 1 : o = 64 + k * block
    BY <1>2 DEF BigBlocks, Carve, BIG_MASTER_RESERVE
  <1> HIDE DEF end, block
  <1>5. k \in Nat
    BY <1>1, <1>3, <1>4
  <1>6. o \in Nat /\ o > 0 /\ o % 16 = 0
    <2>1. PICK j \in Nat : block = j * 16
      BY <1>1, Multiple
    <2>2. o = 64 + k * (j * 16)
      BY <1>4, <2>1
    <2>3. o = (4 + k * j) * 16 /\ 4 + k * j \in Nat
      BY <1>5, <2>2
    <2>4. o \in Nat /\ o > 0
      <3>1. k * j \in Nat
        BY <1>5
      <3> QED
        BY <2>3, <3>1
    <2> QED
      BY <2>3, <2>4, Multiple
  <1>7. LowBit(o) \in Powers /\ LowBit(o) \in Nat /\ LowBit(o) >= 16
    <2>1. 16 \in Powers /\ \A k_1 \in Powers : k_1 \in Nat
      BY EntryPointsAssumption DEF MIN_ALIGN
    <2>2. LowBit(o) \in Powers /\ 16 <= LowBit(o)
      BY <1>6, <2>1, LowBitFacts
    <2> QED
      BY <2>1, <2>2
  <1>8. /\ b \in Block /\ b.tier = "big" /\ b.cls = c /\ b.arena
        /\ b.palign = LowBit(o) /\ b.mask = m
    BY <1>1, <1>2, <1>7 DEF Packed, Block
  <1>9. Formed(b)
    BY <1>7, <1>8 DEF Formed
  <1>10. align \in Nat
    BY EntryPointsAssumption
  <1> QED
    BY <1>7, <1>8, <1>9, <1>10 DEF Given, PackedAs, c, MIN_ALIGN

\* The large path, with or without room to grow.
LEMMA LargeGiven ==
  ASSUME NEW size \in Nat, NEW align \in Powers, NEW slack \in Nat,
         align > MIN_ALIGN \/ size > MAX_MEDIUM_BLOCK,
         NEW b \in alloc_large_ex(size, align, slack)
  PROVE  Given(b, size, align) /\ b.tier = "large"
  <1> DEFINE total == size + align + LARGE_HEADER_SIZE + slack
             mapped == align_up(total, PAGE_SIZE)
  <1> DEFINE At(a, o, r, m) ==
               [tier |-> "large", cls |-> 0, arena |-> a, off |-> o, mapped |-> r,
                req |-> size, palign |-> AddressAlign(align, a, o), mask |-> m]
             All(a) == {At(a, o, r, m) : o \in Offsets(align, a), r \in Region(mapped),
                                         m \in Masked(a, align)}
  <1>a. b.off + size <= b.mapped /\ \E a \in Places : b \in All(a)
    BY DEF alloc_large_ex
  <1>b. PICK a \in Places : b \in All(a)
    BY <1>a
  <1>c. PICK o \in Offsets(align, a), r \in Region(mapped), m \in Masked(a, align) :
          b = At(a, o, r, m)
    BY <1>b
  <1>1. /\ b = [tier |-> "large", cls |-> 0, arena |-> a, off |-> o, mapped |-> r,
                req |-> size, palign |-> AddressAlign(align, a, o), mask |-> m]
        /\ b.off + size <= b.mapped
    BY <1>a, <1>c
  <1>2. mapped \in Nat
    <2>1. align \in Nat /\ total \in Nat /\ PAGE_SIZE \in Nat \ {0}
      BY EntryPointsAssumption DEF LARGE_HEADER_SIZE, PAGE_SIZE
    <2> HIDE DEF total
    <2> QED
      BY <2>1, AlignUp
  <1> HIDE DEF total, mapped
  <1>3. r \in Nat
    BY <1>1, <1>2 DEF Region, PAGE_SIZE
  <1>4. a \in BOOLEAN /\ (a => target = "arena") /\ m \in {"fault", "other", "page"}
    BY <1>1, PlacesFacts DEF Masked
  <1>5. /\ o \in Nat /\ AddressAlign(align, a, o) \in Powers
        /\ AddressAlign(align, a, o) >= align /\ AddressAlign(align, a, o) >= 16
        /\ o <= AddressAlign(align, a, o) + 48
    BY <1>4, Address
  <1>6. AddressAlign(align, a, o) \in Nat
    BY <1>5, EntryPointsAssumption
  <1>7. b \in Block
    BY <1>1, <1>3, <1>4, <1>5, <1>6 DEF Block
  <1>8. /\ b.tier = "large" /\ b.cls = 0 /\ b.arena = a /\ b.off = o /\ b.mapped = r
        /\ b.req = size /\ b.palign = AddressAlign(align, a, o)
    BY <1>1
  <1>9. Formed(b)
    BY <1>1, <1>4, <1>5, <1>7, <1>8 DEF Formed, LARGE_HEADER_SIZE
  <1> QED
    BY <1>1, <1>5, <1>8, <1>9 DEF Given, MIN_ALIGN

\* Every tier answers a request with a block for it, whichever way it is chosen.
LEMMA AllocGiven ==
  ASSUME target \in {"arena", "plain"}, NEW size \in Nat, size > 0, NEW align \in Powers, NEW b,
         b \in alloc_impl(size, align) \/ b \in alloc_zeroed_impl(size, align)
  PROVE  Given(b, size, align)
  <1>1. align \in Nat /\ MIN_ALIGN \in Nat /\ MAX_SMALL_SIZE \in Nat
    BY EntryPointsAssumption DEF MIN_ALIGN, MAX_SMALL_SIZE
  <1>2. MAX_PACKED_BLOCK = IF target = "arena" THEN MAX_BIG_BLOCK ELSE MAX_MEDIUM_BLOCK
    BY DEF MAX_PACKED_BLOCK
  <1>3. needs_large(size, align) <=> align > MIN_ALIGN \/ size > MAX_PACKED_BLOCK
    BY DEF needs_large
  <1>4. CASE needs_large(size, align)
    <2>1. align > MIN_ALIGN \/ size > MAX_MEDIUM_BLOCK
      BY <1>1, <1>2, <1>3, <1>4, Limits
    <2>2. b \in alloc_large_ex(size, align, 0)
      BY <1>1, <1>4, <2>1, Limits DEF alloc_impl, alloc_zeroed_impl, alloc_tiered
    <2> QED
      BY <2>1, <2>2, LargeGiven
  <1>5. CASE ~needs_large(size, align) /\ size > MAX_MEDIUM_BLOCK
    <2>1. target = "arena" /\ size <= MAX_BIG_BLOCK /\ align <= MIN_ALIGN
      BY <1>1, <1>2, <1>3, <1>5, Limits
    <2>2. b \in alloc_big(big_class_for_size(size)) \/ b \in alloc_large_ex(size, align, 0)
      BY <1>1, <1>5, Limits DEF alloc_impl, alloc_zeroed_impl, alloc_tiered
    <2> QED
      BY <1>5, <2>1, <2>2, BigGiven, LargeGiven
  <1>6. CASE ~needs_large(size, align) /\ size > MAX_SMALL_SIZE /\ size <= MAX_MEDIUM_BLOCK
    <2>1. align <= MIN_ALIGN
      BY <1>1, <1>3, <1>6
    <2>2. b \in alloc_medium(medium_class_for_size(size))
      <3>1. size \in MAX_SMALL_SIZE + 1 .. MAX_MEDIUM_BLOCK
        BY <1>1, <1>6, Limits
      <3> QED
        BY <1>1, <1>6, <3>1, Limits DEF alloc_impl, alloc_zeroed_impl, alloc_tiered
    <2> QED
      BY <1>6, <2>1, <2>2, MediumGiven
  <1>7. CASE ~needs_large(size, align) /\ size <= MAX_SMALL_SIZE
    <2>1. align <= MIN_ALIGN
      BY <1>1, <1>3, <1>7
    <2>2. b \in alloc_small(class_for_size(size))
      BY <1>1, <1>7, <2>1, Limits DEF alloc_impl, alloc_zeroed_impl, alloc_tiered
    <2> QED
      BY <1>7, <2>1, <2>2, SmallGiven
  <1> QED
    BY <1>1, <1>4, <1>5, <1>6, <1>7, Limits

\* Such a block suits the layout the program asked with.
LEMMA GivenMatches ==
  ASSUME NEW size \in Nat, NEW align \in Powers, NEW b, Given(b, size, align),
         NEW l \in Layout, l.size = size, l.align <= b.palign,
         align <= MIN_ALIGN => l.align <= MIN_ALIGN, l.api = "rust" => l.align = align
  PROVE  Matches(b, l)
  <1>1. b \in Block
    BY DEF Given, Formed
  <1>2. /\ l.size \in Nat /\ l.align \in Nat /\ b.palign \in Nat /\ b.mapped \in Nat /\ b.off \in Nat
        /\ align \in Nat /\ MIN_ALIGN \in Nat
    BY <1>1, EntryPointsAssumption DEF Layout, Block, MIN_ALIGN
  <1>3. CASE b.tier = "large"
    <2>1. b.req = size /\ b.off + size <= b.mapped /\ (align > MIN_ALIGN \/ size > MAX_MEDIUM_BLOCK)
      BY <1>3 DEF Given
    <2>2. b.mapped - b.off >= l.size
      BY <1>2, <2>1
    <2>3. LargeAs(b, l)
      BY <1>2, <2>1, <2>2, Limits DEF LargeAs
    <2> QED
      BY <1>2, <1>3, <2>3 DEF Matches
  <1>4. CASE b.tier # "large"
    <2>1. align <= MIN_ALIGN /\ PackedAs(b, [api |-> "c", size |-> size, align |-> align])
      BY <1>4 DEF Given
    <2>2. PackedAs(b, l)
      BY <2>1 DEF PackedAs
    <2> QED
      BY <1>2, <1>4, <2>1, <2>2 DEF Matches, Given
  <1> QED
    BY <1>3, <1>4

-----------------------------------------------------------------------------
(* Finding the way back. *)

\* Probing finds the heap and the class of every block.
LEMMA ProbedHome ==
  ASSUME NEW b, Formed(b)
  PROVE  dealloc_impl(b) = Home(b)
  <1>1. b \in Block
    BY DEF Formed
  <1>2. /\ b.tier \in {"small", "medium", "big", "large"} /\ b.arena \in BOOLEAN
        /\ b.mask \in {"page", "span", "other", "fault"}
    BY <1>1 DEF Block
  <1> QED
    BY <1>2 DEF Formed, dealloc_impl, table_get, large_region_known, legacy_large_contains, ByHeader, Home

\* The layout of a block held through the Rust interface leads there too.
LEMMA LayoutHome ==
  ASSUME NEW b, Formed(b), NEW l \in Layout, Matches(b, l), l.api = "rust", l.size > 0
  PROVE  dealloc_with_layout(b, l.size, l.align) = Home(b)
  <1>1. b \in Block
    BY DEF Formed
  <1>2. /\ b.tier \in {"small", "medium", "big", "large"} /\ b.arena \in BOOLEAN
        /\ l.size \in Nat /\ l.align \in Nat /\ MIN_ALIGN \in Nat /\ MAX_SMALL_SIZE \in Nat
    BY <1>1 DEF Block, Layout, MIN_ALIGN, MAX_SMALL_SIZE
  <1>3. MAX_PACKED_BLOCK = IF target = "arena" THEN MAX_BIG_BLOCK ELSE MAX_MEDIUM_BLOCK
    BY DEF MAX_PACKED_BLOCK
  <1>4. needs_large(l.size, l.align) <=> l.align > MIN_ALIGN \/ l.size > MAX_PACKED_BLOCK
    BY DEF needs_large
  <1>5. CASE b.tier = "small"
    <2>1. l.align <= MIN_ALIGN /\ l.size <= MAX_SMALL_SIZE /\ b.cls = class_for_size(l.size)
      BY <1>5 DEF Matches, PackedAs
    <2> QED
      BY <1>5, <2>1 DEF dealloc_with_layout, Home
  <1>6. CASE b.tier = "medium"
    <2>1. /\ l.align <= MIN_ALIGN /\ l.size > MAX_SMALL_SIZE /\ l.size <= MAX_MEDIUM_BLOCK
          /\ b.cls = medium_class_for_size(l.size)
      BY <1>6 DEF Matches, PackedAs
    <2>2. ~needs_large(l.size, l.align)
      BY <1>2, <1>3, <1>4, <2>1, Limits
    <2> QED
      BY <1>2, <1>6, <2>1, <2>2, Limits DEF dealloc_with_layout, dealloc_tiered, Home
  <1>7. CASE b.tier = "big"
    <2>1. l.align <= MIN_ALIGN /\ l.size > MAX_MEDIUM_BLOCK /\ l.size <= MAX_BIG_BLOCK
      BY <1>7 DEF Matches, PackedAs
    <2>2. b.arena /\ target = "arena"
      BY <1>7 DEF Formed
    <2>3. ~needs_large(l.size, l.align)
      BY <1>2, <1>3, <1>4, <2>1, <2>2, Limits
    <2> QED
      BY <1>2, <1>7, <2>1, <2>2, <2>3, Limits DEF dealloc_with_layout, dealloc_tiered, table_get, Home
  <1>8. CASE b.tier = "large"
    <2>1. b.cls = 0 /\ (l.align <= MIN_ALIGN => l.size > MAX_MEDIUM_BLOCK)
      BY <1>8 DEF Matches, LargeAs, Formed
    <2>2. ~(l.size <= MAX_SMALL_SIZE /\ l.align <= MIN_ALIGN)
      BY <1>2, <2>1, Limits
    <2>3. needs_large(l.size, l.align) \/ l.size > MAX_MEDIUM_BLOCK
      BY <1>2, <1>4, <2>1, Limits
    <2> QED
      BY <1>2, <1>8, <2>1, <2>2, <2>3 DEF dealloc_with_layout, dealloc_tiered, table_get, Home
  <1> QED
    BY <1>2, <1>5, <1>6, <1>7, <1>8

-----------------------------------------------------------------------------
(* Size. *)

\* The class of a packed block is the least of its tier that holds the size.
LEMMA PackedLeast ==
  ASSUME NEW b, NEW l, l.size \in Nat, l.size > 0, PackedAs(b, l), b.tier \in {"small", "medium", "big"}
  PROVE  /\ b.tier = "small" => LeastIn(CLASSES, NUM_CLASSES, b.cls, l.size)
         /\ b.tier = "medium" => LeastIn(MEDIUM_CLASSES, NUM_MEDIUM, b.cls, l.size)
         /\ b.tier = "big" => LeastIn(BIG_CLASSES, NUM_BIG, b.cls, l.size)
  BY SmallClass, MediumClass, BigClass DEF PackedAs

\* The entries of the tables are sizes.
LEMMA TablesTyped ==
  /\ NUM_CLASSES \in Nat /\ \A i \in 0 .. NUM_CLASSES - 1 : CLASSES[i] \in 1 .. MAX_SMALL_SIZE
  /\ NUM_MEDIUM \in Nat
  /\ \A i \in 0 .. NUM_MEDIUM - 1 : MEDIUM_CLASSES[i] \in MAX_SMALL_SIZE + 1 .. MAX_MEDIUM_BLOCK
  /\ NUM_BIG \in Nat
  /\ \A i \in 0 .. NUM_BIG - 1 : BIG_CLASSES[i] \in MAX_MEDIUM_BLOCK + 1 .. MAX_BIG_BLOCK
  <1>1. NUM_CLASSES \in Nat /\ \A i \in 0 .. NUM_CLASSES - 1 : CLASSES[i] \in 1 .. MAX_SMALL_SIZE
    <2>1. Graded(CLASSES, NUM_CLASSES, 0, MAX_SMALL_SIZE)
      BY TablesGraded
    <2> QED
      BY <2>1 DEF Graded
  <1>2. /\ NUM_MEDIUM \in Nat
        /\ \A i \in 0 .. NUM_MEDIUM - 1 : MEDIUM_CLASSES[i] \in MAX_SMALL_SIZE + 1 .. MAX_MEDIUM_BLOCK
    BY TablesGraded DEF Graded
  <1>3. /\ NUM_BIG \in Nat
        /\ \A i \in 0 .. NUM_BIG - 1 : BIG_CLASSES[i] \in MAX_MEDIUM_BLOCK + 1 .. MAX_BIG_BLOCK
    BY TablesGraded DEF Graded
  <1> QED
    BY <1>1, <1>2, <1>3

\* The class of a packed block holds what the program asked for.
LEMMA PackedHolds ==
  ASSUME NEW b, NEW l, l.size \in Nat, l.size > 0, PackedAs(b, l), b.tier \in {"small", "medium", "big"}
  PROVE  ClassSize(b.tier, b.cls) \in Nat /\ ClassSize(b.tier, b.cls) >= l.size
  <1>1. CASE b.tier = "small"
    <2>1. b.cls \in 0 .. NUM_CLASSES - 1 /\ CLASSES[b.cls] >= l.size
      BY <1>1, PackedLeast DEF LeastIn
    <2>2. CLASSES[b.cls] \in Nat
      BY <2>1, TablesTyped
    <2> QED
      BY <1>1, <2>1, <2>2 DEF ClassSize
  <1>2. CASE b.tier = "medium"
    <2>1. b.cls \in 0 .. NUM_MEDIUM - 1 /\ MEDIUM_CLASSES[b.cls] >= l.size
      BY <1>2, PackedLeast DEF LeastIn
    <2>2. MEDIUM_CLASSES[b.cls] \in Nat
      <3>1. MEDIUM_CLASSES[b.cls] \in MAX_SMALL_SIZE + 1 .. MAX_MEDIUM_BLOCK
        BY <2>1, TablesTyped
      <3>2. MAX_SMALL_SIZE \in Nat /\ MAX_MEDIUM_BLOCK \in Nat
        BY Limits
      <3> QED
        BY <3>1, <3>2
    <2> QED
      BY <1>2, <2>1, <2>2 DEF ClassSize
  <1>3. CASE b.tier = "big"
    <2>1. b.cls \in 0 .. NUM_BIG - 1 /\ BIG_CLASSES[b.cls] >= l.size
      BY <1>3, PackedLeast DEF LeastIn
    <2>2. BIG_CLASSES[b.cls] \in Nat
      <3>1. BIG_CLASSES[b.cls] \in MAX_MEDIUM_BLOCK + 1 .. MAX_BIG_BLOCK
        BY <2>1, TablesTyped
      <3>2. MAX_MEDIUM_BLOCK \in Nat /\ MAX_BIG_BLOCK \in Nat
        BY Limits
      <3> QED
        BY <3>1, <3>2
    <2> QED
      BY <1>3, <2>1, <2>2 DEF ClassSize
  <1> QED
    BY <1>1, <1>2, <1>3

\* usable_size is the rest of a region, or the class.
LEMMA Usable ==
  ASSUME NEW b, Formed(b)
  PROVE  usable_size(b) = IF b.tier = "large" THEN b.mapped - b.off ELSE ClassSize(b.tier, b.cls)
  <1>1. b.tier \in {"small", "medium", "big", "large"}
    BY DEF Formed, Block
  <1>2. dealloc_impl(b)[1] = b.tier /\ dealloc_impl(b)[2] = b.cls
    BY ProbedHome DEF Home
  <1> QED
    BY <1>1, <1>2 DEF usable_size

\* A new block has the size that was asked for.
LEMMA GivenUsable ==
  ASSUME NEW size \in Nat, size > 0, NEW align, NEW b, Given(b, size, align)
  PROVE  usable_size(b) \in Int /\ usable_size(b) >= size
  <1>1. b \in Block /\ Formed(b)
    BY DEF Given, Formed
  <1>2. b.tier \in {"small", "medium", "big", "large"} /\ b.mapped \in Nat /\ b.off \in Nat
    BY <1>1 DEF Block
  <1>3. CASE b.tier = "large"
    BY <1>1, <1>2, <1>3, Usable DEF Given
  <1>4. CASE b.tier # "large"
    <2> DEFINE l == [api |-> "c", size |-> size, align |-> align]
    <2>1. PackedAs(b, l) /\ l.size = size
      BY <1>4 DEF Given
    <2> HIDE DEF l
    <2>2. ClassSize(b.tier, b.cls) \in Nat /\ ClassSize(b.tier, b.cls) >= size
      BY <1>2, <1>4, <2>1, PackedHolds
    <2> QED
      BY <1>1, <1>4, <2>2, Usable
  <1> QED
    BY <1>3, <1>4

-----------------------------------------------------------------------------
(* Staying in place. *)

\* Growth by new pages does not wrap: the mapping covers what was asked for.
LEMMA GrowMappedCovers ==
  ASSUME NEW b \in Block, NEW n \in Nat, n + b.palign + LARGE_HEADER_SIZE <= USIZE_MAX,
         GrowMapped(b, n) > b.mapped
  PROVE  GrowMapped(b, n) \in Nat /\ GrowMapped(b, n) >= n + b.palign + LARGE_HEADER_SIZE
  <1> DEFINE x == n + b.palign + LARGE_HEADER_SIZE
             P == 65536
  <1>1. x \in Nat /\ b.mapped \in Nat /\ x <= USIZE_MAX /\ USIZE_MAX \in Nat
    BY EntryPointsAssumption DEF Block, LARGE_HEADER_SIZE
  <1>2. GrowMapped(b, n) = align_up(x, P) % (USIZE_MAX + 1)
    BY DEF GrowMapped, PAGE_SIZE
  <1> HIDE DEF x
  <1>3. PICK k \in Nat : align_up(x, P) = k * P /\ k * P >= x /\ k * P < x + P
    <2>1. P \in Nat \ {0}
      OBVIOUS
    <2> HIDE DEF P
    <2>2. PICK k \in Nat : align_up(x, P) = k * P
      BY <1>1, <2>1, AlignUp
    <2>3. align_up(x, P) >= x /\ align_up(x, P) < x + P
      BY <1>1, <2>1, AlignUp
    <2> QED
      BY <2>2, <2>3
  <1>4. PICK m \in Nat : USIZE_MAX + 1 = m * P
    BY <1>1, EntryPointsAssumption, Multiple DEF PAGE_SIZE
  <1>5. k <= m
    BY <1>1, <1>3, <1>4
  <1>6. k # m
    <2> SUFFICES ASSUME k = m PROVE FALSE
      OBVIOUS
    <2>1. (USIZE_MAX + 1) % (USIZE_MAX + 1) = 0
      BY <1>1
    <2> QED
      BY <1>1, <1>2, <1>3, <1>4, <2>1
  <1>7. k * P < USIZE_MAX + 1
    BY <1>4, <1>5, <1>6
  <1>8. (k * P) % (USIZE_MAX + 1) = k * P
    BY <1>1, <1>3, <1>7
  <1> QED
    BY <1>1, <1>2, <1>3, <1>8 DEF x

\* The layout after a realloc to n bytes.
Resized(l, n) == [l EXCEPT !.size = n]

\* It changes only the size.
LEMMA ResizedFacts ==
  ASSUME NEW l \in Layout, NEW n \in Nat
  PROVE  /\ Resized(l, n) \in Layout /\ Resized(l, n).size = n
         /\ Resized(l, n).align = l.align /\ Resized(l, n).api = l.api
  BY DEF Resized, Layout

\* A large block grown in place is a large block of the new size.
LEMMA Grown ==
  ASSUME NEW b, Formed(b), NEW l \in Layout, Matches(b, l), NEW n \in Nat, n > 0,
         NEW g \in try_grow_large_frontier(b, n)
  PROVE  Formed(g) /\ Matches(g, Resized(l, n))
  <1>1. b \in Block /\ b.palign \in Powers /\ b.arena \in BOOLEAN
    BY DEF Formed, Block
  <1>2. target = "arena" /\ b.tier = "large" /\ b.arena /\ n > b.req
    BY DEF try_grow_large_frontier, GrowFits, GrowExtends, table_get
  <1>3. b.off \in Nat /\ b.req \in Nat /\ b.mapped \in Nat /\ b.palign \in Nat /\ l.align \in Nat
    BY <1>1 DEF Block, Layout
  <1>4. /\ b.cls = 0 /\ b.off + b.req <= b.mapped /\ b.off <= b.palign + LARGE_HEADER_SIZE
    BY <1>2 DEF Formed
  <1>5. PICK r \in Nat : g = [b EXCEPT !.req = n, !.mapped = r] /\ b.off + n <= r
    <2>1. CASE GrowFits(b, n)
      <3>0. ~GrowExtends(b, n)
        BY <1>3, <2>1 DEF GrowFits, GrowExtends
      <3>1. g = [b EXCEPT !.req = n]
        BY <2>1, <3>0 DEF try_grow_large_frontier
      <3>2. g = [b EXCEPT !.req = n, !.mapped = b.mapped]
        BY <1>1, <3>1 DEF Block
      <3>3. b.off + n <= b.mapped
        BY <1>3, <2>1 DEF GrowFits
      <3> QED
        BY <1>3, <3>2, <3>3
    <2>2. CASE ~GrowFits(b, n)
      <3>1. GrowExtends(b, n) /\ g = [b EXCEPT !.req = n, !.mapped = GrowMapped(b, n)]
        BY <2>2 DEF try_grow_large_frontier
      <3>2. GrowMapped(b, n) \in Nat /\ GrowMapped(b, n) >= n + b.palign + LARGE_HEADER_SIZE
        BY <1>1, <3>1, GrowMappedCovers DEF GrowExtends
      <3>3. b.off + n <= GrowMapped(b, n)
        BY <1>3, <1>4, <3>2 DEF LARGE_HEADER_SIZE
      <3> QED
        BY <3>1, <3>2, <3>3
    <2> QED
      BY <2>1, <2>2
  <1>6. /\ g \in Block /\ g.tier = "large" /\ g.arena = b.arena /\ g.cls = 0 /\ g.off = b.off
        /\ g.palign = b.palign /\ g.req = n /\ g.mapped = r
    BY <1>1, <1>2, <1>4, <1>5 DEF Block
  <1>7. Formed(g)
    BY <1>1, <1>2, <1>4, <1>5, <1>6 DEF Formed
  <1>8. LargeAs(g, Resized(l, n))
    <2>1. g.mapped - g.off >= n
      BY <1>3, <1>5, <1>6
    <2>2. l.api = "rust" /\ l.align <= MIN_ALIGN => n > MAX_MEDIUM_BLOCK
      <3>1. l.api = "rust" /\ l.align <= MIN_ALIGN => b.req > MAX_MEDIUM_BLOCK
        BY <1>2 DEF Matches, LargeAs
      <3> QED
        BY <1>2, <1>3, <3>1, Limits
    <2> QED
      BY <1>6, <2>1, <2>2, ResizedFacts DEF LargeAs
  <1>9. g.palign >= l.align
    BY <1>6 DEF Matches
  <1> QED
    BY <1>6, <1>7, <1>8, <1>9, ResizedFacts DEF Matches

\* realloc keeps a block when the layouts are of one class: it then suits both.
LEMMA KeptByLayout ==
  ASSUME NEW b, Formed(b), NEW l \in Layout, Matches(b, l), l.api = "rust",
         NEW n \in Nat, n > 0, same_class(l, n)
  PROVE  Matches(b, Resized(l, n))
  <1>1. /\ b.tier \in {"small", "medium", "big", "large"} /\ b.mapped \in Nat /\ b.off \in Nat
        /\ l.size \in Nat /\ l.align \in Nat /\ MAX_SMALL_SIZE \in Nat /\ MIN_ALIGN \in Nat
    BY DEF Formed, Block, Layout, MAX_SMALL_SIZE, MIN_ALIGN
  <1>2. l.align <= MIN_ALIGN
    BY DEF same_class
  <1>3. CASE b.tier = "large"
    <2> DEFINE u == b.mapped - b.off
    <2>1. l.size > MAX_MEDIUM_BLOCK /\ b.req > MAX_MEDIUM_BLOCK
      BY <1>2, <1>3 DEF Matches, LargeAs
    <2>2. /\ l.size <= MAX_BIG_BLOCK /\ n > MAX_MEDIUM_BLOCK /\ n <= MAX_BIG_BLOCK
          /\ big_class_for_size(l.size) = big_class_for_size(n)
      BY <1>1, <2>1, Limits DEF same_class
    <2>3. u >= l.size \/ big_class_for_size(u) = big_class_for_size(l.size)
      BY <1>3 DEF Matches, LargeAs
    <2>4. u >= n \/ big_class_for_size(u) = big_class_for_size(n)
      <3>1. CASE u >= l.size /\ ~(u >= n)
        <4>1. u \in Nat /\ l.size <= u /\ u <= n
          BY <1>1, <3>1
        <4> HIDE DEF u
        <4> QED
          BY <1>1, <2>1, <2>2, <4>1, BigClassBetween
      <3> QED
        BY <2>2, <2>3, <3>1
    <2>5. LargeAs(b, Resized(l, n))
      BY <1>2, <2>1, <2>2, <2>4, ResizedFacts DEF LargeAs
    <2> QED
      BY <1>3, <2>5, ResizedFacts DEF Matches
  <1>4. CASE b.tier # "large"
    <2>1. PackedAs(b, l)
      BY <1>4 DEF Matches
    <2>2. PackedAs(b, Resized(l, n))
      <3>1. CASE b.tier = "small"
        <4>1. l.size <= MAX_SMALL_SIZE /\ b.cls = class_for_size(l.size)
          BY <2>1, <3>1 DEF PackedAs
        <4>2. n <= MAX_SMALL_SIZE /\ class_for_size(l.size) = class_for_size(n)
          BY <1>1, <4>1, Limits DEF same_class
        <4> QED
          BY <3>1, <4>1, <4>2, ResizedFacts DEF PackedAs
      <3>2. CASE b.tier = "medium"
        <4>1. /\ l.size > MAX_SMALL_SIZE /\ l.size <= MAX_MEDIUM_BLOCK
              /\ b.cls = medium_class_for_size(l.size)
          BY <2>1, <3>2 DEF PackedAs
        <4>2. /\ n > MAX_SMALL_SIZE /\ n <= MAX_MEDIUM_BLOCK
              /\ medium_class_for_size(l.size) = medium_class_for_size(n)
          BY <1>1, <4>1, Limits DEF same_class
        <4> QED
          BY <3>2, <4>1, <4>2, ResizedFacts DEF PackedAs
      <3>3. CASE b.tier = "big"
        <4>1. /\ l.size > MAX_MEDIUM_BLOCK /\ l.size <= MAX_BIG_BLOCK
              /\ b.cls = big_class_for_size(l.size)
          BY <2>1, <3>3 DEF PackedAs
        <4>2. /\ n > MAX_MEDIUM_BLOCK /\ n <= MAX_BIG_BLOCK
              /\ big_class_for_size(l.size) = big_class_for_size(n)
          BY <1>1, <4>1, Limits DEF same_class
        <4> QED
          BY <3>3, <4>1, <4>2, ResizedFacts DEF PackedAs
      <3> QED
        BY <1>1, <1>4, <3>1, <3>2, <3>3
    <2> QED
      BY <1>4, <2>2, ResizedFacts DEF Matches
  <1> QED
    BY <1>3, <1>4

\* The same by probing.
LEMMA KeptByProbe ==
  ASSUME NEW b, Formed(b), NEW l \in Layout, Matches(b, l),
         NEW n \in Nat, n > 0, same_class_probed(b, n)
  PROVE  Matches(b, Resized(l, n))
  <1>1. /\ b.tier \in {"small", "medium", "big", "large"} /\ b.arena \in BOOLEAN
        /\ b.mask \in {"page", "span", "other", "fault"}
    BY DEF Formed, Block
  <1>2. \/ b.tier = "small" /\ n <= MAX_SMALL_SIZE /\ class_for_size(n) = b.cls
        \/ /\ b.tier = "medium" /\ n > MAX_SMALL_SIZE /\ n <= MAX_MEDIUM_BLOCK
           /\ medium_class_for_size(n) = b.cls
        \/ /\ b.tier = "big" /\ n > MAX_MEDIUM_BLOCK /\ n <= MAX_BIG_BLOCK
           /\ big_class_for_size(n) = b.cls
    BY <1>1 DEF Formed, same_class_probed, table_get, large_region_known, legacy_large_contains, ByHeader,
                Fault, Corrupt
  <1>3. b.tier # "large" /\ PackedAs(b, Resized(l, n))
    BY <1>2, ResizedFacts DEF PackedAs
  <1> QED
    BY <1>3, ResizedFacts DEF Matches

-----------------------------------------------------------------------------
(* One address at a time. *)

\* The invariant at p.
PtrOK(p) ==
  /\ out[p] # NoBlock <=> prog[p] # NoLayout /\ prog[p].size > 0
  /\ prog[p] # NoLayout => /\ prog[p].align \in Powers
                           /\ prog[p].api = "c" => prog[p].size > 0
  /\ out[p] # NoBlock => Formed(out[p]) /\ Matches(out[p], prog[p])

\* The invariant is that of all addresses.
LEMMA EveryPtr == EntryInv => TypeOK /\ lost = 0 /\ \A p \in Ptr : PtrOK(p)
  <1> SUFFICES ASSUME EntryInv PROVE TypeOK /\ lost = 0 /\ \A p \in Ptr : PtrOK(p)
    OBVIOUS
  <1>1. TypeOK /\ lost = 0
    BY DEF EntryInv, ContentsKept
  <1>2. ASSUME NEW p \in Ptr PROVE PtrOK(p)
    BY DEF EntryInv, NothingLost, Live, PtrOK
  <1> QED
    BY <1>1, <1>2

\* Put together again after a step.
LEMMA Assembled ==
  ASSUME TypeOK', lost' = 0, \A p \in Ptr : PtrOK(p)'
  PROVE  EntryInv'
  <1>1. NothingLost'
    BY DEF NothingLost, Live, PtrOK
  <1>2. ContentsKept'
    BY DEF ContentsKept
  <1> QED
    BY <1>1, <1>2 DEF EntryInv, PtrOK

\* An address that a step leaves alone.
LEMMA PtrSame ==
  ASSUME NEW q, PtrOK(q), out'[q] = out[q], prog'[q] = prog[q], target' = target
  PROVE  PtrOK(q)'
  BY DEF PtrOK, Formed, Matches, LargeAs, PackedAs

\* An address with a block that suits its layout.
LEMMA PtrHolds ==
  ASSUME NEW q, NEW b, NEW l \in Layout, Formed(b), Matches(b, l), l.align \in Powers, l.size > 0,
         out'[q] = b, prog'[q] = l, target' = target
  PROVE  PtrOK(q)'
  <1>1. b # NoBlock /\ l # NoLayout
    BY EntryPointsAssumption DEF Formed
  <1>2. Formed(b)'
    BY DEF Formed
  <1>3. Formed(out[q])' /\ Matches(out[q], prog[q])'
    BY <1>2 DEF Formed, Matches, LargeAs, PackedAs
  <1> QED
    BY <1>1, <1>3 DEF PtrOK

\* An address with nothing, or with the dangling address of zero bytes.
LEMMA PtrBare ==
  ASSUME NEW q, out'[q] = NoBlock, NEW l, prog'[q] = l,
         l = NoLayout \/ (l \in Layout /\ l.size = 0 /\ l.api = "rust" /\ l.align \in Powers)
  PROVE  PtrOK(q)'
  BY DEF PtrOK

\* The block at p finds its way back, in the interface the program uses.
LEMMA RouteHome ==
  ASSUME TypeOK, NEW p \in Ptr, PtrOK(p), out[p] # NoBlock
  PROVE  RouteOf(p) = Home(out[p])
  <1>1. prog[p] \in Layout /\ prog[p].size > 0 /\ prog[p].api \in {"rust", "c"}
    BY DEF TypeOK, PtrOK, Layout
  <1>2. Formed(out[p]) /\ Matches(out[p], prog[p])
    BY DEF PtrOK
  <1> QED
    BY <1>1, <1>2, ProbedHome, LayoutHome DEF RouteOf

-----------------------------------------------------------------------------
(* The kinds of step. *)

\* A block is given out.
LEMMA GiveStep ==
  ASSUME EntryInv, NEW p \in Ptr, NEW size \in Nat, size > 0, NEW align \in Powers,
         NEW asked \in Powers, NEW b, Given(b, size, asked),
         NEW api \in {"rust", "c"}, align <= b.palign,
         asked <= MIN_ALIGN => align <= MIN_ALIGN, api = "rust" => align = asked,
         Give(p, b, api, size, align)
  PROVE  EntryInv'
  <1> DEFINE l == [api |-> api, size |-> size, align |-> align]
  <1>1. l \in Layout /\ l.size = size /\ l.align = align /\ l.api = api
    BY EntryPointsAssumption DEF Layout
  <1>2. /\ out' = [out EXCEPT ![p] = b] /\ prog' = [prog EXCEPT ![p] = l]
        /\ lost' = 0 /\ target' = target
    BY DEF Give
  <1>3. Formed(b) /\ b \in Block
    BY DEF Given, Formed
  <1> HIDE DEF l
  <1>4. Matches(b, l)
    BY <1>1, GivenMatches
  <1>5. TypeOK /\ \A q \in Ptr : PtrOK(q)
    BY EveryPtr
  <1>6. TypeOK'
    BY <1>1, <1>2, <1>3, <1>5 DEF TypeOK
  <1>7. ASSUME NEW q \in Ptr PROVE PtrOK(q)'
    <2>1. CASE q = p
      <3>1. out'[q] = b /\ prog'[q] = l
        BY <1>2, <1>5, <2>1 DEF TypeOK
      <3> QED
        BY <1>1, <1>2, <1>3, <1>4, <3>1, PtrHolds
    <2>2. CASE q # p
      <3>1. out'[q] = out[q] /\ prog'[q] = prog[q]
        BY <1>2, <1>5, <2>2 DEF TypeOK
      <3> QED
        BY <1>2, <1>5, <3>1, PtrSame
    <2> QED
      BY <2>1, <2>2
  <1> QED
    BY <1>2, <1>6, <1>7, Assembled

\* Nothing is given out for a layout of zero bytes.
LEMMA GiveNone ==
  ASSUME EntryInv, NEW p \in Ptr, NEW align \in Powers, Give(p, NoBlock, "rust", 0, align)
  PROVE  EntryInv'
  <1> DEFINE l == [api |-> "rust", size |-> 0, align |-> align]
  <1>1. l \in Layout /\ l.size = 0 /\ l.align = align /\ l.api = "rust"
    BY EntryPointsAssumption DEF Layout
  <1>2. /\ out' = [out EXCEPT ![p] = NoBlock] /\ prog' = [prog EXCEPT ![p] = l]
        /\ lost' = 0 /\ target' = target
    BY DEF Give
  <1> HIDE DEF l
  <1>5. TypeOK /\ \A q \in Ptr : PtrOK(q)
    BY EveryPtr
  <1>6. TypeOK'
    BY <1>1, <1>2, <1>5 DEF TypeOK
  <1>7. ASSUME NEW q \in Ptr PROVE PtrOK(q)'
    <2>1. CASE q = p
      <3>1. out'[q] = NoBlock /\ prog'[q] = l
        BY <1>2, <1>5, <2>1 DEF TypeOK
      <3> QED
        BY <1>1, <3>1, PtrBare
    <2>2. CASE q # p
      <3>1. out'[q] = out[q] /\ prog'[q] = prog[q]
        BY <1>2, <1>5, <2>2 DEF TypeOK
      <3> QED
        BY <1>2, <1>5, <3>1, PtrSame
    <2> QED
      BY <2>1, <2>2
  <1> QED
    BY <1>2, <1>6, <1>7, Assembled

\* A block is given back, and the program keeps nothing or a dangling address.
LEMMA BackStep ==
  ASSUME EntryInv, NEW p \in Ptr, prog[p] # NoLayout, NEW l,
         l = NoLayout \/ (prog[p].api = "rust" /\ l = Resized(prog[p], 0)),
         out' = [out EXCEPT ![p] = IF out[p] = NoBlock THEN out[p] ELSE Back(out[p], RouteOf(p))],
         prog' = [prog EXCEPT ![p] = l], lost' = 0, target' = target
  PROVE  EntryInv'
  <1>1. TypeOK /\ \A q \in Ptr : PtrOK(q)
    BY EveryPtr
  <1>2. prog[p] \in Layout /\ prog[p].align \in Powers
    BY <1>1 DEF TypeOK, PtrOK
  <1>3. \/ l = NoLayout
        \/ l \in Layout /\ l.size = 0 /\ l.api = "rust" /\ l.align \in Powers
    BY <1>2, ResizedFacts
  <1>4. out'[p] = NoBlock
    <2>1. out[p] # NoBlock => RouteOf(p) = Home(out[p])
      BY <1>1, RouteHome
    <2> QED
      BY <1>1, <2>1 DEF TypeOK, Back
  <1>5. out' = [out EXCEPT ![p] = NoBlock]
    BY <1>1, <1>4 DEF TypeOK
  <1>6. TypeOK'
    BY <1>1, <1>3, <1>5 DEF TypeOK
  <1>7. ASSUME NEW q \in Ptr PROVE PtrOK(q)'
    <2>1. CASE q = p
      <3>1. prog'[q] = l
        BY <1>1, <2>1 DEF TypeOK
      <3> QED
        BY <1>3, <1>4, <2>1, <3>1, PtrBare
    <2>2. CASE q # p
      <3>1. out'[q] = out[q] /\ prog'[q] = prog[q]
        BY <1>1, <2>2 DEF TypeOK
      <3> QED
        BY <1>1, <3>1, PtrSame
    <2> QED
      BY <2>1, <2>2
  <1> QED
    BY <1>6, <1>7, Assembled

\* A block stays where it is.
LEMMA KeepStep ==
  ASSUME EntryInv, NEW p \in Ptr, prog[p] # NoLayout, NEW n \in Nat, n > 0,
         NEW b, Formed(b), Matches(b, Resized(prog[p], n)), Keep(p, b, n)
  PROVE  EntryInv'
  <1> DEFINE l == Resized(prog[p], n)
  <1>1. TypeOK /\ \A q \in Ptr : PtrOK(q)
    BY EveryPtr
  <1>2. prog[p] \in Layout /\ prog[p].align \in Powers
    BY <1>1 DEF TypeOK, PtrOK
  <1>3. l \in Layout /\ l.size = n /\ l.align \in Powers
    BY <1>2, ResizedFacts
  <1>4. /\ out' = [out EXCEPT ![p] = b] /\ prog' = [prog EXCEPT ![p] = l]
        /\ lost' = 0 /\ target' = target
    BY <1>1 DEF Keep, Resized, TypeOK
  <1>5. b \in Block
    BY DEF Formed
  <1>6. Matches(b, l)
    OBVIOUS
  <1> HIDE DEF l
  <1>7. TypeOK'
    BY <1>1, <1>3, <1>4, <1>5 DEF TypeOK
  <1>8. ASSUME NEW q \in Ptr PROVE PtrOK(q)'
    <2>1. CASE q = p
      <3>1. out'[q] = b /\ prog'[q] = l
        BY <1>1, <1>4, <2>1 DEF TypeOK
      <3> QED
        BY <1>3, <1>4, <1>6, <3>1, PtrHolds
    <2>2. CASE q # p
      <3>1. out'[q] = out[q] /\ prog'[q] = prog[q]
        BY <1>1, <1>4, <2>2 DEF TypeOK
      <3> QED
        BY <1>1, <1>4, <3>1, PtrSame
    <2> QED
      BY <2>1, <2>2
  <1> QED
    BY <1>4, <1>7, <1>8, Assembled

\* A block moves: what it is moved to suits the new size, enough is copied, and
\* the old one goes home.
LEMMA MoveStep ==
  ASSUME EntryInv, NEW p \in Ptr, prog[p] # NoLayout, NEW n \in Nat, n > 0,
         NEW b, NEW asked \in Powers, Given(b, n, asked), Matches(b, Resized(prog[p], n)),
         NEW copy \in Int, copy >= prog[p].size \/ copy >= n,
         NEW route, out[p] # NoBlock => route = Home(out[p]),
         Move(p, b, n, copy, route)
  PROVE  EntryInv'
  <1> DEFINE l == Resized(prog[p], n)
  <1>1. TypeOK /\ \A q \in Ptr : PtrOK(q)
    BY EveryPtr
  <1>2. prog[p] \in Layout /\ prog[p].align \in Powers /\ prog[p].size \in Nat
    BY <1>1 DEF TypeOK, PtrOK, Layout
  <1>3. l \in Layout /\ l.size = n /\ l.align \in Powers
    BY <1>2, ResizedFacts
  <1>4. Formed(b) /\ b \in Block
    BY DEF Given, Formed
  <1>5. PICK r \in Ptr \ {p} :
          /\ out' = [out EXCEPT ![r] = b, ![p] = IF out[p] = NoBlock THEN out[p] ELSE Back(out[p], route)]
          /\ prog' = [prog EXCEPT ![p] = NoLayout, ![r] = l]
          /\ lost' = Max({0, Min({prog[p].size, n}) - Min({copy, usable_size(b)})})
          /\ target' = target
    BY <1>1 DEF Move, Resized, TypeOK
  <1>6. Matches(b, l)
    OBVIOUS
  <1> HIDE DEF l
  <1>7. lost' = 0
    <2> DEFINE u == usable_size(b)
               owed == Min({prog[p].size, n})
               got == Min({copy, u})
    <2>1. u \in Int /\ u >= n
      BY GivenUsable
    <2> HIDE DEF u
    <2>2. owed \in Int /\ got \in Int /\ owed <= got
      BY <1>2, <2>1, MinMaxTwo
    <2>3. lost' = Max({0, owed - got})
      BY <1>5 DEF u
    <2> HIDE DEF owed, got
    <2> DEFINE short == owed - got
               zero == 0
    <2>4. short \in Int /\ zero \in Int /\ lost' = Max({zero, short})
      BY <2>2, <2>3
    <2>5. Max({zero, short}) = IF zero >= short THEN zero ELSE short
      <3> HIDE DEF short, zero
      <3> QED
        BY <2>4, MinMaxTwo
    <2> QED
      BY <2>2, <2>4, <2>5
  <1>8. /\ out'[r] = b /\ prog'[r] = l /\ out'[p] = NoBlock /\ prog'[p] = NoLayout
        /\ \A q \in Ptr : q # p /\ q # r => out'[q] = out[q] /\ prog'[q] = prog[q]
    BY <1>1, <1>5 DEF TypeOK, Back
  <1>9. TypeOK'
    <2>1. out' = [out EXCEPT ![r] = b, ![p] = NoBlock]
      BY <1>1, <1>5 DEF TypeOK, Back
    <2> QED
      BY <1>1, <1>3, <1>4, <1>5, <1>7, <2>1 DEF TypeOK
  <1>10. ASSUME NEW q \in Ptr PROVE PtrOK(q)'
    <2>1. CASE q = p
      BY <1>8, <2>1, PtrBare
    <2>2. CASE q = r
      BY <1>3, <1>4, <1>5, <1>6, <1>8, <2>2, PtrHolds
    <2>3. CASE q # p /\ q # r
      BY <1>1, <1>5, <1>8, <2>3, PtrSame
    <2> QED
      BY <2>1, <2>2, <2>3
  <1> QED
    BY <1>7, <1>9, <1>10, Assembled

-----------------------------------------------------------------------------
(* The actions. *)

\* What a caller of realloc holds.
LEMMA Held ==
  ASSUME EntryInv, NEW p \in Ptr, prog[p] # NoLayout
  PROVE  /\ prog[p] \in Layout /\ prog[p].align \in Powers /\ prog[p].size \in Nat
         /\ prog[p].align \in Nat
         /\ prog[p].api = "c" => prog[p].size > 0
         /\ out[p] # NoBlock <=> prog[p].size > 0
         /\ out[p] # NoBlock => Formed(out[p]) /\ Matches(out[p], prog[p])
  <1>1. TypeOK /\ PtrOK(p)
    BY EveryPtr
  <1> QED
    BY <1>1 DEF TypeOK, PtrOK, Layout

\* Allocation through the Rust interface.
LEMMA AllocSafe ==
  ASSUME EntryInv, NEW p \in Ptr, NEW size \in Sizes, NEW align \in Aligns,
         Alloc(p, size, align) \/ AllocZeroed(p, size, align)
  PROVE  EntryInv'
  <1>1. size \in Nat /\ align \in Powers /\ align \in Nat
    BY EntryPointsAssumption
  <1>2. target \in {"arena", "plain"}
    BY EveryPtr DEF TypeOK
  <1>3. CASE size = 0
    <2>1. Give(p, NoBlock, "rust", size, align)
      BY <1>3 DEF Alloc, AllocZeroed
    <2> QED
      BY <1>1, <1>3, <2>1, GiveNone
  <1>4. CASE size # 0
    <2>1. PICK b : /\ b \in alloc_impl(size, align) \/ b \in alloc_zeroed_impl(size, align)
                   /\ Give(p, b, "rust", size, align)
      BY <1>4 DEF Alloc, AllocZeroed
    <2>2. size > 0
      BY <1>1, <1>4
    <2>3. Given(b, size, align)
      BY <1>1, <1>2, <2>1, <2>2, AllocGiven
    <2>4. align <= b.palign
      BY <1>1, <2>3 DEF Given, Formed, Block
    <2> QED
      BY <1>1, <2>1, <2>2, <2>3, <2>4, GiveStep
  <1> QED
    BY <1>3, <1>4

\* Allocation through the C interface.
LEMMA CAllocSafe ==
  ASSUME EntryInv, NEW p \in Ptr, NEW size \in Nat, size > 0, NEW asked \in Powers,
         NEW align \in Powers, asked <= MIN_ALIGN => align <= MIN_ALIGN,
         align = asked \/ align = MIN_ALIGN,
         NEW b, b \in alloc_impl(size, asked) \/ b \in alloc_zeroed_impl(size, asked),
         Give(p, b, "c", size, align)
  PROVE  EntryInv'
  <1>1. target \in {"arena", "plain"}
    BY EveryPtr DEF TypeOK
  <1>2. Given(b, size, asked)
    BY <1>1, AllocGiven
  <1>3. align <= b.palign
    <2>1. b.palign \in Nat /\ asked \in Nat /\ MIN_ALIGN \in Nat
      BY <1>2, EntryPointsAssumption DEF Given, Formed, Block, MIN_ALIGN
    <2> QED
      BY <1>2, <2>1 DEF Given
  <1> QED
    BY <1>2, <1>3, GiveStep

\* The alignment malloc and calloc ask for, and the one they promise.
LEMMA One == {1, MIN_ALIGN} \subseteq Powers /\ 1 <= MIN_ALIGN /\ MIN_ALIGN <= MIN_ALIGN
  BY EntryPointsAssumption DEF MIN_ALIGN

\* malloc.
LEMMA MallocSafe ==
  ASSUME EntryInv, NEW p \in Ptr, NEW size \in Sizes, malloc(p, size)
  PROVE  EntryInv'
  <1> DEFINE one == 1
  <1>1. size \in Nat /\ size > 0
    BY EntryPointsAssumption DEF malloc
  <1>2. PICK b \in alloc_impl(size, one) : Give(p, b, "c", size, MIN_ALIGN)
    BY DEF malloc
  <1>3. one \in Powers /\ MIN_ALIGN \in Powers /\ MIN_ALIGN <= MIN_ALIGN
    BY One
  <1> HIDE DEF one
  <1> QED
    BY <1>1, <1>2, <1>3, CAllocSafe

\* calloc, whose product does not overflow.
LEMMA CallocSafe ==
  ASSUME EntryInv, NEW p \in Ptr, NEW size \in Sizes, NEW nmemb \in Counts, calloc(p, nmemb, size)
  PROVE  EntryInv'
  <1> DEFINE one == 1
             total == nmemb * size
  <1>1. CallocTotal(nmemb, size) > 0
    BY DEF calloc
  <1>2. CallocTotal(nmemb, size) = total
    BY <1>1 DEF CallocTotal
  <1>3. total \in Nat /\ total > 0
    BY <1>1, <1>2, EntryPointsAssumption
  <1>4. PICK b \in alloc_zeroed_impl(total, one) : Give(p, b, "c", total, MIN_ALIGN)
    BY <1>2 DEF calloc
  <1>5. one \in Powers /\ MIN_ALIGN \in Powers /\ MIN_ALIGN <= MIN_ALIGN
    BY One
  <1> HIDE DEF one, total
  <1> QED
    BY <1>3, <1>4, <1>5, CAllocSafe

\* aligned_alloc.
LEMMA AlignedAllocSafe ==
  ASSUME EntryInv, NEW p \in Ptr, NEW size \in Sizes, NEW align \in Aligns,
         aligned_alloc(p, align, size)
  PROVE  EntryInv'
  <1>1. size \in Nat /\ size > 0 /\ align \in Powers
    BY EntryPointsAssumption DEF aligned_alloc
  <1>2. PICK b \in alloc_impl(size, align) : Give(p, b, "c", size, align)
    BY DEF aligned_alloc
  <1> QED
    BY <1>1, <1>2, CAllocSafe

\* Dealloc, free and realloc to zero bytes.
LEMMA ReleaseSafe ==
  ASSUME EntryInv, NEW p \in Ptr, Dealloc(p) \/ free(p) \/ ReallocZero(p)
  PROVE  EntryInv'
  <1>1. TypeOK
    BY EveryPtr
  <1>2. CASE Dealloc(p) \/ free(p)
    <2>1. prog[p] # NoLayout /\ Release(p)
      BY <1>2 DEF Dealloc, free
    <2>2. /\ out' = [out EXCEPT ![p] = IF out[p] = NoBlock THEN out[p] ELSE Back(out[p], RouteOf(p))]
          /\ prog' = [prog EXCEPT ![p] = NoLayout] /\ lost' = 0 /\ target' = target
      BY <2>1 DEF Release
    <2> QED
      BY <2>1, <2>2, BackStep
  <1>3. CASE ReallocZero(p)
    <2>1. prog[p] # NoLayout /\ prog[p].api = "rust"
      BY <1>3 DEF ReallocZero
    <2>2. /\ out' = [out EXCEPT ![p] = IF out[p] = NoBlock THEN out[p] ELSE Back(out[p], RouteOf(p))]
          /\ prog' = [prog EXCEPT ![p] = Resized(prog[p], 0)] /\ lost' = 0 /\ target' = target
      BY <1>1, <1>3 DEF ReallocZero, Resized, TypeOK
    <2> QED
      BY <2>1, <2>2, BackStep
  <1> QED
    BY <1>2, <1>3

\* realloc in place.
LEMMA KeepSafe ==
  ASSUME EntryInv, NEW p \in Ptr, NEW n \in Nat,
         \/ ReallocSame(p, n) \/ ReallocGrow(p, n)
         \/ CReallocSame(p, n) \/ CReallocGrow(p, n)
  PROVE  EntryInv'
  <1>1. prog[p] # NoLayout /\ n > 0
    BY DEF ReallocSame, ReallocGrow, CReallocSame, CReallocGrow, ResizingC, Resizing
  <1>2. /\ prog[p] \in Layout /\ prog[p].size \in Nat
        /\ prog[p].api = "c" => prog[p].size > 0
        /\ out[p] # NoBlock <=> prog[p].size > 0
        /\ out[p] # NoBlock => Formed(out[p]) /\ Matches(out[p], prog[p])
    BY <1>1, Held
  <1>3. CASE ReallocSame(p, n)
    <2>1. prog[p].api = "rust" /\ same_class(prog[p], n) /\ Keep(p, out[p], n)
      BY <1>3 DEF ReallocSame, Resizing
    <2>2. prog[p].size > 0
      <3> DEFINE size == prog[p].size
      <3>1. size \in 1 .. MAX_SMALL_SIZE \/ size > MAX_SMALL_SIZE \/ size > MAX_MEDIUM_BLOCK
        BY <2>1 DEF same_class
      <3>2. size \in Nat
        BY <1>2
      <3> HIDE DEF size
      <3>3. size > 0
        BY <3>1, <3>2, Limits DEF MAX_SMALL_SIZE
      <3> QED
        BY <3>3 DEF size
    <2>3. Formed(out[p]) /\ Matches(out[p], prog[p])
      BY <1>2, <2>2
    <2>4. Matches(out[p], Resized(prog[p], n))
      BY <1>1, <1>2, <2>1, <2>3, KeptByLayout
    <2> QED
      BY <1>1, <2>1, <2>3, <2>4, KeepStep
  <1>4. CASE CReallocSame(p, n)
    <2>1. prog[p].api = "c" /\ same_class_probed(out[p], n) /\ Keep(p, out[p], n)
      BY <1>4 DEF CReallocSame, ResizingC, Resizing
    <2>2. Formed(out[p]) /\ Matches(out[p], prog[p])
      BY <1>2, <2>1
    <2>3. Matches(out[p], Resized(prog[p], n))
      BY <1>1, <1>2, <2>1, <2>2, KeptByProbe
    <2> QED
      BY <1>1, <2>1, <2>2, <2>3, KeepStep
  <1>5. CASE ReallocGrow(p, n) \/ CReallocGrow(p, n)
    <2>1. PICK g \in try_grow_large_frontier(out[p], n) : Keep(p, g, n)
      BY <1>5 DEF ReallocGrow, CReallocGrow
    <2>2. out[p] # NoBlock
      BY <2>1 DEF try_grow_large_frontier, GrowFits, GrowExtends
    <2>3. Formed(g) /\ Matches(g, Resized(prog[p], n))
      BY <1>1, <1>2, <2>1, <2>2, Grown
    <2> QED
      BY <1>1, <2>1, <2>3, KeepStep
  <1> QED
    BY <1>3, <1>4, <1>5

\* A request for n bytes at `asked` is moved to.
LEMMA MoveSafe ==
  ASSUME EntryInv, NEW p \in Ptr, prog[p] # NoLayout, NEW n \in Nat, n > 0,
         NEW b, NEW asked \in Powers, Given(b, n, asked),
         \/ prog[p].align = asked
         \/ prog[p].api = "c" /\ (prog[p].align <= asked \/ prog[p].align <= MIN_ALIGN),
         NEW copy \in Int, copy >= prog[p].size \/ copy >= n,
         NEW route, out[p] # NoBlock => route = Home(out[p]),
         Move(p, b, n, copy, route)
  PROVE  EntryInv'
  <1> DEFINE l == Resized(prog[p], n)
  <1>1. prog[p] \in Layout /\ prog[p].align \in Nat
    BY Held
  <1>2. l \in Layout /\ l.size = n /\ l.align = prog[p].align /\ l.api = prog[p].api
    BY <1>1, ResizedFacts
  <1>3. b.palign \in Nat /\ asked \in Nat /\ MIN_ALIGN \in Nat
    BY EntryPointsAssumption DEF Given, Formed, Block, MIN_ALIGN
  <1>4. b.palign >= asked /\ b.palign >= MIN_ALIGN
    BY DEF Given
  <1>5. /\ l.align <= b.palign /\ (asked <= MIN_ALIGN => l.align <= MIN_ALIGN)
        /\ l.api = "rust" => l.align = asked
    BY <1>1, <1>2, <1>3, <1>4
  <1> HIDE DEF l
  <1>6. Matches(b, l)
    BY <1>2, <1>5, GivenMatches
  <1> QED
    BY <1>6, MoveStep DEF l

\* Promotion of a big block: the new one is a large region for n bytes, and the
\* copy covers what the program had.
LEMMA PromoteFacts ==
  ASSUME EntryInv, NEW p \in Ptr, prog[p] # NoLayout, NEW n \in Nat, n > MAX_MEDIUM_BLOCK,
         NEW align \in Powers, NEW b \in try_promote_big_grow(out[p], n, align)
  PROVE  /\ Given(b, n, align) /\ out[p] # NoBlock
         /\ Min({ClassSize("big", out[p].cls), n}) \in Int
         /\ \/ Min({ClassSize("big", out[p].cls), n}) >= prog[p].size
            \/ Min({ClassSize("big", out[p].cls), n}) >= n
  <1> DEFINE reserve == Min({n * BIG_GROW_SLACK_FACTOR, MAX_BIG_BLOCK})
             size == ClassSize("big", out[p].cls)
  <1>1. /\ out[p] # NoBlock /\ table_get(out[p], "big") /\ reserve > n
        /\ b \in alloc_large_ex(n, align, reserve - n)
    BY DEF try_promote_big_grow
  <1>2. reserve \in Nat
    <2> DEFINE wide == n * BIG_GROW_SLACK_FACTOR
    <2>1. wide \in Nat
      BY DEF BIG_GROW_SLACK_FACTOR
    <2> HIDE DEF wide
    <2>2. Min({wide, MAX_BIG_BLOCK}) \in Nat
      BY <2>1, Limits, MinMaxTwo
    <2> QED
      BY <2>2 DEF wide
  <1>3. reserve - n \in Nat
    BY <1>1, <1>2
  <1>4. Given(b, n, align)
    <2> HIDE DEF reserve
    <2> QED
      BY <1>1, <1>3, LargeGiven
  <1>5. size \in Nat /\ size >= prog[p].size
    <2>1. out[p].tier = "big" /\ prog[p].size \in Nat /\ prog[p].size > 0 /\ PackedAs(out[p], prog[p])
      BY <1>1, Held DEF table_get, Matches
    <2>2. ClassSize(out[p].tier, out[p].cls) \in Nat /\ ClassSize(out[p].tier, out[p].cls) >= prog[p].size
      BY <2>1, PackedHolds
    <2> QED
      BY <2>1, <2>2
  <1>6. prog[p].size \in Nat
    BY Held
  <1> HIDE DEF size
  <1>7. Min({size, n}) \in Int /\ (Min({size, n}) >= prog[p].size \/ Min({size, n}) >= n)
    BY <1>5, <1>6, MinMaxTwo
  <1> QED
    BY <1>1, <1>4, <1>7 DEF size

\* The moves of the Rust interface.
LEMMA RustMovesSafe ==
  ASSUME EntryInv, NEW p \in Ptr, NEW n \in Nat,
         realloc_small(p, n) \/ ReallocPromote(p, n) \/ ReallocMove(p, n)
  PROVE  EntryInv'
  <1> DEFINE l == prog[p]
  <1>1. l # NoLayout /\ l.api = "rust" /\ n > 0
    BY DEF realloc_small, ReallocPromote, ReallocMove, Resizing
  <1>2. /\ l \in Layout /\ l.align \in Powers /\ l.size \in Nat
        /\ out[p] # NoBlock <=> l.size > 0
        /\ out[p] # NoBlock => Formed(out[p]) /\ Matches(out[p], l)
    BY <1>1, Held
  <1>3. target \in {"arena", "plain"}
    BY EveryPtr DEF TypeOK
  <1>4. out[p] # NoBlock => dealloc_with_layout(out[p], l.size, l.align) = Home(out[p])
    BY <1>1, <1>2, LayoutHome
  <1>5. Min({l.size, n}) \in Int /\ (Min({l.size, n}) >= l.size \/ Min({l.size, n}) >= n)
    BY <1>2, MinMaxTwo
  <1>6. CASE realloc_small(p, n)
    <2>1. PICK b \in alloc_small(class_for_size(n)) :
            Move(p, b, n, Min({l.size, n}), <<"small", class_for_size(l.size)>>)
      BY <1>6 DEF realloc_small
    <2>2. l.align <= MIN_ALIGN /\ l.size <= MAX_SMALL_SIZE /\ n <= MAX_SMALL_SIZE
      BY <1>6 DEF realloc_small, small_move
    <2>3. Given(b, n, l.align)
      BY <1>1, <1>2, <2>1, <2>2, SmallGiven
    <2>4. dealloc_with_layout(out[p], l.size, l.align) = <<"small", class_for_size(l.size)>>
      BY <2>2 DEF dealloc_with_layout
    <2> QED
      BY <1>1, <1>2, <1>4, <1>5, <2>1, <2>3, <2>4, MoveSafe
  <1>7. CASE ReallocPromote(p, n)
    <2>1. PICK b \in try_promote_big_grow(out[p], n, l.align) :
            Move(p, b, n, Min({ClassSize("big", out[p].cls), n}), dealloc_impl(out[p]))
      BY <1>7 DEF ReallocPromote
    <2>2. n > MAX_MEDIUM_BLOCK
      BY <1>7 DEF ReallocPromote, may_promote
    <2>3. /\ Given(b, n, l.align) /\ out[p] # NoBlock
          /\ Min({ClassSize("big", out[p].cls), n}) \in Int
          /\ \/ Min({ClassSize("big", out[p].cls), n}) >= l.size
             \/ Min({ClassSize("big", out[p].cls), n}) >= n
      BY <1>1, <1>2, <2>1, <2>2, PromoteFacts
    <2>4. dealloc_impl(out[p]) = Home(out[p])
      BY <1>2, <2>3, ProbedHome
    <2> QED
      BY <1>1, <1>2, <2>1, <2>3, <2>4, MoveSafe
  <1>8. CASE ReallocMove(p, n)
    <2> DEFINE route == IF l.size = 0 THEN Corrupt ELSE dealloc_with_layout(out[p], l.size, l.align)
    <2>1. PICK b \in alloc_impl(n, l.align) : Move(p, b, n, Min({l.size, n}), route)
      BY <1>8 DEF ReallocMove
    <2>2. Given(b, n, l.align)
      BY <1>1, <1>2, <1>3, <2>1, AllocGiven
    <2>3. out[p] # NoBlock => route = Home(out[p])
      BY <1>2, <1>4
    <2> HIDE DEF route
    <2> QED
      BY <1>1, <1>2, <1>5, <2>1, <2>2, <2>3, MoveSafe
  <1> QED
    BY <1>6, <1>7, <1>8

\* The moves of the C interface.
LEMMA CMovesSafe ==
  ASSUME EntryInv, NEW p \in Ptr, NEW n \in Nat, CReallocPromote(p, n) \/ CReallocMove(p, n)
  PROVE  EntryInv'
  <1> DEFINE l == prog[p]
             b == out[p]
  <1>1. l # NoLayout /\ l.api = "c" /\ n > 0
    BY DEF CReallocPromote, CReallocMove, ResizingC, Resizing
  <1>2. /\ l \in Layout /\ l.align \in Powers /\ l.size \in Nat /\ l.size > 0
        /\ b # NoBlock /\ Formed(b) /\ Matches(b, l)
    BY <1>1, Held
  <1>3. target \in {"arena", "plain"}
    BY EveryPtr DEF TypeOK
  <1>4. dealloc_impl(b) = Home(b)
    BY <1>2, ProbedHome
  <1>5. /\ b \in Block /\ b.palign \in Powers /\ b.palign >= l.align
        /\ b.tier \in {"small", "medium", "big", "large"} /\ b.mapped \in Nat /\ b.off \in Nat
        /\ b.palign \in Nat /\ l.align \in Nat
    BY <1>2 DEF Formed, Matches, Block, Layout
  <1>6. usable_size(b) \in Int /\ usable_size(b) >= l.size
    <2>1. CASE b.tier = "large"
      BY <1>1, <1>2, <1>5, <2>1, Usable DEF Matches, LargeAs
    <2>2. CASE b.tier # "large"
      <3>1. ClassSize(b.tier, b.cls) \in Nat /\ ClassSize(b.tier, b.cls) >= l.size
        BY <1>2, <1>5, <2>2, PackedHolds DEF Matches
      <3> QED
        BY <1>2, <2>2, <3>1, Usable
    <2> QED
      BY <2>1, <2>2
  <1>7. CASE CReallocPromote(p, n)
    <2>1. PICK new \in try_promote_big_grow(b, n, b.palign) :
            Move(p, new, n, Min({ClassSize("big", b.cls), n}), dealloc_impl(b))
      BY <1>7 DEF CReallocPromote
    <2>2. n > MAX_MEDIUM_BLOCK
      BY <1>7 DEF CReallocPromote
    <2>3. /\ Given(new, n, b.palign)
          /\ Min({ClassSize("big", b.cls), n}) \in Int
          /\ \/ Min({ClassSize("big", b.cls), n}) >= l.size
             \/ Min({ClassSize("big", b.cls), n}) >= n
      BY <1>1, <1>5, <2>1, <2>2, PromoteFacts
    <2>4. l.align <= b.palign
      BY <1>5
    <2> QED
      BY <1>1, <1>4, <1>5, <2>1, <2>3, <2>4, MoveSafe
  <1>8. CASE CReallocMove(p, n)
    <2> DEFINE asked == IF large_region_known(b) THEN b.palign ELSE 1
               copy == Min({usable_size(b), n})
    <2>1. PICK new \in alloc_impl(n, asked) : Move(p, new, n, copy, dealloc_impl(b))
      BY <1>8 DEF CReallocMove
    <2>2. asked \in Powers
      BY <1>5, EntryPointsAssumption
    <2>3. l.align <= asked \/ l.align <= MIN_ALIGN
      <3>1. CASE large_region_known(b)
        BY <1>5, <3>1
      <3>2. CASE ~large_region_known(b)
        <4>1. b.tier # "large"
          BY <1>5, <3>2 DEF large_region_known, table_get, legacy_large_contains, Block
        <4> QED
          BY <1>2, <4>1 DEF Matches
      <3> QED
        BY <3>1, <3>2
    <2>4. copy \in Int /\ (copy >= l.size \/ copy >= n)
      <3> DEFINE u == usable_size(b)
      <3>1. u \in Int /\ u >= l.size
        BY <1>6
      <3> HIDE DEF u
      <3>2. Min({u, n}) \in Int /\ (Min({u, n}) >= l.size \/ Min({u, n}) >= n)
        <4>1. Min({u, n}) = IF u <= n THEN u ELSE n
          BY <3>1, MinMaxTwo
        <4> QED
          BY <1>2, <3>1, <4>1
      <3> QED
        BY <3>2 DEF u
    <2> HIDE DEF asked, copy
    <2>5. Given(new, n, asked)
      BY <1>1, <1>3, <2>1, <2>2, AllocGiven
    <2> QED
      BY <1>1, <1>4, <2>1, <2>2, <2>3, <2>4, <2>5, MoveSafe
  <1> QED
    BY <1>7, <1>8

-----------------------------------------------------------------------------
(* Spans. *)

\* The quotient of a division by a class size.
LEMMA Quotient ==
  ASSUME NEW n \in Nat, NEW d \in Nat, d > 0
  PROVE  n \div d \in Nat /\ (n \div d) * d <= n /\ n < (n \div d) * d + d
  OBVIOUS

\* A larger quotient times the divisor.
LEMMA TimesGrows ==
  ASSUME NEW i \in Nat, NEW j \in Nat, NEW d \in Nat, d > 0, i < j
  PROVE  i * d + d <= j * d
  <1>1. PICK k \in Nat : j = i + 1 + k
    <2>1. j - i - 1 \in Nat /\ j = i + 1 + (j - i - 1)
      OBVIOUS
    <2> QED
      BY <2>1
  <1>2. j * d = i * d + d + k * d /\ k * d \in Nat /\ i * d \in Nat
    BY <1>1
  <1> QED
    BY <1>2

\* At least w blocks of size d fit where there is room for w of them.
LEMMA RoomFor ==
  ASSUME NEW n \in Nat, NEW d \in Nat, d > 0, NEW w \in Nat, w * d <= n
  PROVE  n \div d >= w
  <1>1. PICK q \in Nat : q = n \div d /\ n < q * d + d
    BY Quotient
  <1>2. ASSUME q < w PROVE FALSE
    BY <1>1, <1>2, TimesGrows
  <1> QED
    BY <1>1, <1>2

\* Carving start .. end - 1 makes as many blocks as the room divided by their
\* size, none of which reaches beyond the end.
LEMMA Carving ==
  ASSUME NEW start \in Nat, NEW end \in Nat, start <= end, NEW block \in Nat, block > 0
  PROVE  /\ IsFiniteSet(Carve(start, end, block))
         /\ Cardinality(Carve(start, end, block)) = (end - start) \div block
         /\ \A o \in Carve(start, end, block) : o \in Nat /\ start <= o /\ o + block <= end
  <1> DEFINE S == Carve(start, end, block)
             f == [k \in 0 .. (end - start) \div block - 1 |-> start + k * block]
  <1>0. end - start \in Nat
    OBVIOUS
  <1>1. PICK q \in Nat : q = (end - start) \div block /\ q * block <= end - start
    BY <1>0, Quotient
  <1>2. f = [k \in 0 .. q - 1 |-> start + k * block] /\ S = {start + k * block : k \in 0 .. q - 1}
    BY <1>1 DEF Carve
  <1> HIDE DEF f, S
  <1>3. ASSUME NEW k \in 0 .. q - 1
        PROVE  start + k * block \in Nat /\ start <= start + k * block /\ start + k * block + block <= end
    <2>1. k \in Nat /\ k < q /\ k * block \in Nat
      OBVIOUS
    <2>2. k * block + block <= q * block
      BY <2>1, TimesGrows
    <2>3. q * block \in Nat
      OBVIOUS
    <2> QED
      BY <1>1, <2>1, <2>2, <2>3
  <1>4. \A o \in S : o \in Nat /\ start <= o /\ o + block <= end
    BY <1>2, <1>3
  <1>5. f \in Bijection(0 .. q - 1, S)
    <2>1. f \in [0 .. q - 1 -> S] /\ \A o \in S : \E k \in 0 .. q - 1 : f[k] = o
      BY <1>2
    <2>2. ASSUME NEW i \in 0 .. q - 1, NEW j \in 0 .. q - 1, f[i] = f[j] PROVE i = j
      <3>1. start + i * block = start + j * block /\ i \in Nat /\ j \in Nat /\ i * block \in Nat /\ j * block \in Nat
        BY <1>2, <2>2
      <3>2. i < j => i * block + block <= j * block
        BY <3>1, TimesGrows
      <3>3. j < i => j * block + block <= i * block
        BY <3>1, TimesGrows
      <3> QED
        BY <3>1, <3>2, <3>3
    <2> QED
      BY <2>1, <2>2 DEF Bijection, Injection, Surjection, IsInjective
  <1>6. IsFiniteSet(0 .. q - 1) /\ Cardinality(0 .. q - 1) = q
    BY FS_Interval
  <1>7. IsFiniteSet(S) /\ Cardinality(S) = q
    BY <1>5, <1>6, FS_Bijection DEF ExistsBijection
  <1> QED
    BY <1>1, <1>4, <1>7 DEF S

\* The blocks of one chunk of a span that is not in the arena.
ChunkBlocks(block, i) ==
  Carve(i * PAGE_SIZE + (IF i = 0 THEN MEDIUM_CHUNK_RESERVE ELSE SPAN_SUB_SIZE), (i + 1) * PAGE_SIZE, block)

\* They are between the header of the chunk and the next chunk.
LEMMA ChunkFacts ==
  ASSUME NEW block \in Nat, block > 0, NEW i \in Nat
  PROVE  /\ IsFiniteSet(ChunkBlocks(block, i))
         /\ Cardinality(ChunkBlocks(block, i)) =
              (IF i = 0 THEN PAGE_SIZE - MEDIUM_CHUNK_RESERVE ELSE PAGE_SIZE - SPAN_SUB_SIZE) \div block
         /\ \A o \in ChunkBlocks(block, i) :
              o \in Nat /\ i * 65536 <= o /\ o + block <= i * 65536 + 65536
  <1>1. PICK start, end : /\ start = i * PAGE_SIZE + (IF i = 0 THEN MEDIUM_CHUNK_RESERVE ELSE SPAN_SUB_SIZE)
                          /\ end = (i + 1) * PAGE_SIZE
    OBVIOUS
  <1>2. /\ start \in Nat /\ end \in Nat /\ start <= end /\ i * 65536 <= start /\ end = i * 65536 + 65536
        /\ end - start = IF i = 0 THEN PAGE_SIZE - MEDIUM_CHUNK_RESERVE ELSE PAGE_SIZE - SPAN_SUB_SIZE
    BY <1>1 DEF PAGE_SIZE, MEDIUM_CHUNK_RESERVE, SPAN_SUB_SIZE
  <1>3. ChunkBlocks(block, i) = Carve(start, end, block)
    BY <1>1 DEF ChunkBlocks
  <1>4. /\ IsFiniteSet(Carve(start, end, block)) /\ Cardinality(Carve(start, end, block)) = (end - start) \div block
        /\ \A o \in Carve(start, end, block) : o \in Nat /\ start <= o /\ o + block <= end
    <2>1. start \in Nat /\ end \in Nat /\ start <= end
      BY <1>2
    <2> QED
      BY <2>1, Carving
  <1>5. \A o \in Carve(start, end, block) : o \in Nat /\ i * 65536 <= o /\ o + block <= i * 65536 + 65536
    BY <1>2, <1>4
  <1> QED
    BY <1>2, <1>3, <1>4, <1>5

\* A span of n chunks holds as many blocks as medium_capacity_legacy_for says.
CountedAt(block, n) ==
  /\ IsFiniteSet(SpanBlocks(FALSE, block, n))
  /\ Cardinality(SpanBlocks(FALSE, block, n)) = medium_capacity_legacy_for(block, n)

\* The blocks of a span are those of its chunks.
LEMMA SpanChunks ==
  ASSUME NEW block, NEW n
  PROVE  SpanBlocks(FALSE, block, n) = UNION {ChunkBlocks(block, i) : i \in 0 .. n - 1}
  BY DEF SpanBlocks, ChunkBlocks

\* One chunk more.
LEMMA OneChunkMore ==
  ASSUME NEW block \in Nat, block > 0, NEW n \in Nat, n > 0, CountedAt(block, n)
  PROVE  CountedAt(block, n + 1)
  <1>1. PICK S, T : S = SpanBlocks(FALSE, block, n) /\ T = ChunkBlocks(block, n)
    OBVIOUS
  <1>2. S = UNION {ChunkBlocks(block, i) : i \in 0 .. n - 1}
    BY <1>1, SpanChunks
  <1>3. SpanBlocks(FALSE, block, n + 1) = S \cup T
    <2>1. SpanBlocks(FALSE, block, n + 1) = UNION {ChunkBlocks(block, i) : i \in 0 .. (n + 1) - 1}
      BY SpanChunks
    <2>2. 0 .. (n + 1) - 1 = (0 .. n - 1) \cup {n}
      OBVIOUS
    <2> QED
      BY <1>1, <1>2, <2>1, <2>2
  <1>4. S \cap T = {}
    <2>1. ASSUME NEW o \in S, o \in T PROVE FALSE
      <3>1. PICK i \in 0 .. n - 1 : o \in ChunkBlocks(block, i)
        BY <1>2
      <3>2. o \in Nat /\ i \in Nat /\ i + 1 <= n /\ o + block <= i * 65536 + 65536
        BY <3>1, ChunkFacts
      <3>3. n * 65536 <= o
        BY <1>1, <2>1, ChunkFacts
      <3> QED
        BY <3>2, <3>3
    <2> QED
      BY <2>1
  <1>5. IsFiniteSet(T) /\ Cardinality(T) = (PAGE_SIZE - SPAN_SUB_SIZE) \div block
    BY <1>1, ChunkFacts
  <1>6. PICK a, c : /\ a = (PAGE_SIZE - MEDIUM_CHUNK_RESERVE) \div block /\ c = (PAGE_SIZE - SPAN_SUB_SIZE) \div block
    OBVIOUS
  <1>7. a \in Nat /\ c \in Nat
    BY <1>6, Quotient DEF PAGE_SIZE, MEDIUM_CHUNK_RESERVE, SPAN_SUB_SIZE
  <1>8. IsFiniteSet(S) /\ Cardinality(S) = a + (n - 1) * c
    BY <1>1, <1>6 DEF CountedAt, medium_capacity_legacy_for
  <1>9. IsFiniteSet(S \cup T) /\ Cardinality(S \cup T) = Cardinality(S) + Cardinality(T)
    <2>1. IsFiniteSet(S \cup T) /\ Cardinality(S \cup T) = Cardinality(S) + Cardinality(T) - Cardinality({})
      BY <1>4, <1>5, <1>8, FS_Union
    <2>2. Cardinality({}) = 0
      BY FS_EmptySet
    <2>3. Cardinality(S) \in Nat /\ Cardinality(T) \in Nat
      BY <1>5, <1>8, FS_CardinalityType
    <2> QED
      BY <2>1, <2>2, <2>3
  <1>10. (a + (n - 1) * c) + c = a + ((n + 1) - 1) * c
    <2>1. n * c = (n - 1) * c + c
      BY <1>7
    <2> QED
      BY <1>7, <2>1
  <1>11. medium_capacity_legacy_for(block, n + 1) = a + ((n + 1) - 1) * c
    BY <1>6 DEF medium_capacity_legacy_for
  <1> QED
    BY <1>3, <1>5, <1>6, <1>8, <1>9, <1>10, <1>11 DEF CountedAt

\* A medium span has at most nine chunks.
LEMMA LegacyCount ==
  ASSUME NEW block \in Nat, block > 0, NEW n \in 1 .. 9
  PROVE  CountedAt(block, n)
  <1>1. CountedAt(block, 1)
    <2>1. SpanBlocks(FALSE, block, 1) = ChunkBlocks(block, 0)
      <3>1. SpanBlocks(FALSE, block, 1) = UNION {ChunkBlocks(block, i) : i \in 0 .. 1 - 1}
        BY SpanChunks
      <3>2. 0 .. 1 - 1 = {0}
        OBVIOUS
      <3>3. UNION {ChunkBlocks(block, i) : i \in {0}} = ChunkBlocks(block, 0)
        OBVIOUS
      <3> QED
        BY <3>1, <3>2, <3>3
    <2>2. PICK a, c : a = (PAGE_SIZE - MEDIUM_CHUNK_RESERVE) \div block /\ c = (PAGE_SIZE - SPAN_SUB_SIZE) \div block
      OBVIOUS
    <2>3. a \in Nat /\ c \in Nat
      BY <2>2, Quotient DEF PAGE_SIZE, MEDIUM_CHUNK_RESERVE, SPAN_SUB_SIZE
    <2>4. IsFiniteSet(ChunkBlocks(block, 0)) /\ Cardinality(ChunkBlocks(block, 0)) = a
      BY <2>2, ChunkFacts
    <2>5. medium_capacity_legacy_for(block, 1) = a + (1 - 1) * c
      BY <2>2 DEF medium_capacity_legacy_for
    <2>6. a + (1 - 1) * c = a
      BY <2>3
    <2> QED
      BY <2>1, <2>4, <2>5, <2>6 DEF CountedAt
  <1>2. CountedAt(block, 2)
    BY <1>1, OneChunkMore
  <1>3. CountedAt(block, 3)
    BY <1>2, OneChunkMore
  <1>4. CountedAt(block, 4)
    BY <1>3, OneChunkMore
  <1>5. CountedAt(block, 5)
    BY <1>4, OneChunkMore
  <1>6. CountedAt(block, 6)
    BY <1>5, OneChunkMore
  <1>7. CountedAt(block, 7)
    BY <1>6, OneChunkMore
  <1>8. CountedAt(block, 8)
    BY <1>7, OneChunkMore
  <1>9. CountedAt(block, 9)
    BY <1>8, OneChunkMore
  <1>10. n = 1 \/ n = 2 \/ n = 3 \/ n = 4 \/ n = 5 \/ n = 6 \/ n = 7 \/ n = 8 \/ n = 9
    OBVIOUS
  <1> QED
    BY <1>1, <1>2, <1>3, <1>4, <1>5, <1>6, <1>7, <1>8, <1>9, <1>10

\* The size of a medium class.
MediumSize(size) == size \in Nat /\ size > 0 /\ size <= MEDIUM_BLOCK_CAP

\* span_pages_for finds a number of chunks with room for the target number of
\* blocks: nine would do.
LEMMA PagesFor ==
  ASSUME NEW t \in {"arena", "plain"}, NEW size, MediumSize(size)
  PROVE  /\ span_pages_for(t, size) \in 1 .. 9
         /\ medium_capacity_for(t, size, span_pages_for(t, size)) >= TARGET_BLOCKS_PER_SPAN
  <1>1. size \in Nat /\ size > 0 /\ size <= 65472
    BY DEF MediumSize, MEDIUM_BLOCK_CAP, PAGE_SIZE, MEDIUM_CHUNK_RESERVE
  <1> DEFINE F == {n \in 1 .. TARGET_BLOCKS_PER_SPAN + 1 : medium_capacity_for(t, size, n) >= TARGET_BLOCKS_PER_SPAN}
  <1>2. medium_capacity_for(t, size, 9) >= 8
    <2>1. CASE t = "arena"
      <3>1. (9 * 65536 - 64) \div size >= 8
        BY <1>1, RoomFor
      <3> QED
        BY <2>1, <3>1 DEF medium_capacity_for, PAGE_SIZE, MEDIUM_CHUNK_RESERVE
    <2>2. CASE t = "plain"
      <3>1. PICK a, c : a = (65536 - 64) \div size /\ c = (65536 - 16) \div size
        OBVIOUS
      <3>2. a \in Nat /\ c \in Nat
        BY <1>1, <3>1, Quotient
      <3>3. a >= 1
        BY <1>1, <3>1, RoomFor
      <3>4. c >= 1
        BY <1>1, <3>1, RoomFor
      <3>5. medium_capacity_for(t, size, 9) = a + (9 - 1) * c
        BY <2>2, <3>1
        DEF medium_capacity_for, medium_capacity_legacy_for, PAGE_SIZE, MEDIUM_CHUNK_RESERVE, SPAN_SUB_SIZE
      <3> QED
        BY <3>2, <3>3, <3>4, <3>5
    <2> QED
      BY <2>1, <2>2
  <1>3. F \subseteq 1 .. 9 /\ 9 \in F
    BY <1>2 DEF TARGET_BLOCKS_PER_SPAN
  <1>4. span_pages_for(t, size) = Min(F)
    BY DEF span_pages_for
  <1>5. \A n \in F : medium_capacity_for(t, size, n) >= TARGET_BLOCKS_PER_SPAN
    OBVIOUS
  <1> HIDE DEF F
  <1>6. Min(F) \in F
    <2>1. F \subseteq Nat /\ F # {}
      BY <1>3
    <2> QED
      BY <2>1, MinNat
  <1> QED
    BY <1>3, <1>4, <1>5, <1>6

\* A medium span in the arena: one run of blocks after the header.
LEMMA ArenaSpan ==
  ASSUME NEW size, MediumSize(size)
  PROVE  LET n == span_pages_for("arena", size) IN
         /\ Cardinality(SpanBlocks(TRUE, size, n)) = medium_capacity_for("arena", size, n)
         /\ medium_capacity_for("arena", size, n) >= TARGET_BLOCKS_PER_SPAN
  <1>1. PICK n : n = span_pages_for("arena", size)
    OBVIOUS
  <1>2. n \in 1 .. 9 /\ medium_capacity_for("arena", size, n) >= TARGET_BLOCKS_PER_SPAN
    BY <1>1, PagesFor
  <1>3. PICK end : end = n * PAGE_SIZE
    OBVIOUS
  <1>4. end \in Nat /\ 64 <= end /\ size \in Nat /\ size > 0
    BY <1>2, <1>3 DEF PAGE_SIZE, MediumSize
  <1>5. Cardinality(Carve(64, end, size)) = (end - 64) \div size
    BY <1>4, Carving
  <1>6. Cardinality(SpanBlocks(TRUE, size, n)) = medium_capacity_for("arena", size, n)
    BY <1>3, <1>5 DEF SpanBlocks, medium_capacity_for, MEDIUM_CHUNK_RESERVE
  <1> QED
    BY <1>1, <1>2, <1>6

\* A medium span elsewhere: a run of blocks in each chunk, none of them across
\* the header of the next.
LEMMA LegacySpan ==
  ASSUME NEW t \in {"arena", "plain"}, NEW size, MediumSize(size)
  PROVE  LET n == span_pages_for(t, size) IN
         /\ Cardinality(SpanBlocks(FALSE, size, n)) = medium_capacity_for("plain", size, n)
         /\ medium_capacity_for("plain", size, n) >= IF t = "plain" THEN TARGET_BLOCKS_PER_SPAN ELSE 1
         /\ \A o \in SpanBlocks(FALSE, size, n) : o \div PAGE_SIZE = (o + size - 1) \div PAGE_SIZE
  <1>1. PICK n : n = span_pages_for(t, size)
    OBVIOUS
  <1>2. n \in 1 .. 9 /\ (t = "plain" => medium_capacity_for("plain", size, n) >= TARGET_BLOCKS_PER_SPAN)
    BY <1>1, PagesFor
  <1>3. size \in Nat /\ size > 0 /\ size <= 65472
    BY DEF MediumSize, MEDIUM_BLOCK_CAP, PAGE_SIZE, MEDIUM_CHUNK_RESERVE
  <1>4. medium_capacity_for("plain", size, n) = medium_capacity_legacy_for(size, n)
    BY DEF medium_capacity_for
  <1>5. Cardinality(SpanBlocks(FALSE, size, n)) = medium_capacity_legacy_for(size, n)
    <2>1. CountedAt(size, n)
      BY <1>2, <1>3, LegacyCount
    <2> QED
      BY <2>1 DEF CountedAt
  <1>6. medium_capacity_legacy_for(size, n) >= 1
    <2>1. PICK a, c : a = (65536 - 64) \div size /\ c = (65536 - 16) \div size
      OBVIOUS
    <2>2. a \in Nat /\ c \in Nat
      BY <1>3, <2>1, Quotient
    <2>3. a >= 1
      BY <1>3, <2>1, RoomFor
    <2>4. medium_capacity_legacy_for(size, n) = a + (n - 1) * c
      BY <2>1 DEF medium_capacity_legacy_for, PAGE_SIZE, MEDIUM_CHUNK_RESERVE, SPAN_SUB_SIZE
    <2>5. (n - 1) * c \in Nat
      BY <1>2, <2>2
    <2> QED
      BY <2>2, <2>3, <2>4, <2>5
  <1>7. ASSUME NEW o \in SpanBlocks(FALSE, size, n) PROVE o \div PAGE_SIZE = (o + size - 1) \div PAGE_SIZE
    <2>0. SpanBlocks(FALSE, size, n) = UNION {ChunkBlocks(size, i) : i \in 0 .. n - 1}
      BY SpanChunks
    <2>1. PICK i \in 0 .. n - 1 : o \in ChunkBlocks(size, i)
      BY <2>0
    <2>2. i \in Nat
      BY <1>2
    <2>3. o \in Nat /\ i * 65536 <= o /\ o + size <= i * 65536 + 65536
      BY <1>3, <2>1, <2>2, ChunkFacts
    <2>4. o \div 65536 = i /\ (o + size - 1) \div 65536 = i
      BY <1>3, <2>2, <2>3
    <2> QED
      BY <2>4 DEF PAGE_SIZE
  <1> QED
    BY <1>1, <1>2, <1>4, <1>5, <1>6, <1>7

\* A big span.
LEMMA BigSpan ==
  ASSUME NEW size \in Nat, size > 0
  PROVE  Cardinality(BigBlocks(size, big_span_pages_for(size))) >= TARGET_BLOCKS_PER_SPAN
  <1>1. PICK end : end = big_span_pages_for(size) * PAGE_SIZE
    OBVIOUS
  <1>2. end \in Nat /\ 64 + 8 * size <= end
    <2>1. PICK x : x = 64 + 8 * size + 65536 - 1
      OBVIOUS
    <2>2. x \in Nat /\ end = (x \div 65536) * 65536
      BY <1>1, <2>1 DEF big_span_pages_for, BIG_MASTER_RESERVE, TARGET_BLOCKS_PER_SPAN, PAGE_SIZE
    <2> QED
      BY <2>1, <2>2
  <1>3. end - 64 \in Nat /\ 8 * size <= end - 64
    BY <1>2
  <1>4. (end - 64) \div size >= 8
    BY <1>3, RoomFor
  <1>5. Cardinality(Carve(64, end, size)) = (end - 64) \div size
    <2>1. 64 \in Nat /\ end \in Nat /\ 64 <= end
      BY <1>2
    <2> QED
      BY <2>1, Carving
  <1> QED
    BY <1>1, <1>4, <1>5 DEF BigBlocks, BIG_MASTER_RESERVE, TARGET_BLOCKS_PER_SPAN

-----------------------------------------------------------------------------
(* The theorems. *)

\* The initial state satisfies the invariant.
LEMMA InitSafe == Init => EntryInv
  <1> SUFFICES ASSUME Init PROVE EntryInv
    OBVIOUS
  <1>1. TypeOK
    BY DEF Init, TypeOK
  <1>2. \A p \in Ptr : out[p] = NoBlock /\ prog[p] = NoLayout
    BY DEF Init
  <1>3. NothingLost /\ ContentsKept
    BY <1>2 DEF NothingLost, Live, ContentsKept, Init
  <1> QED
    BY <1>1, <1>2, <1>3 DEF EntryInv

\* Every step keeps the invariant.
LEMMA StepSafe == EntryInv /\ [Next]_vars => EntryInv'
  <1> SUFFICES ASSUME EntryInv, [Next]_vars PROVE EntryInv'
    OBVIOUS
  <1>1. CASE UNCHANGED vars
    <2>1. out' = out /\ prog' = prog /\ target' = target /\ lost' = lost
      BY <1>1 DEF vars
    <2>2. TypeOK /\ lost = 0 /\ \A p \in Ptr : PtrOK(p)
      BY EveryPtr
    <2>3. TypeOK' /\ lost' = 0
      BY <2>1, <2>2 DEF TypeOK
    <2>4. \A p \in Ptr : PtrOK(p)'
      BY <2>1, <2>2, PtrSame
    <2> QED
      BY <2>3, <2>4, Assembled
  <1>2. ASSUME NEW p \in Ptr, NEW size \in Sizes, NEW align \in Aligns,
               Alloc(p, size, align) \/ AllocZeroed(p, size, align) \/ aligned_alloc(p, align, size)
        PROVE  EntryInv'
    BY <1>2, AllocSafe, AlignedAllocSafe
  <1>3. ASSUME NEW p \in Ptr, NEW size \in Sizes, malloc(p, size)
        PROVE  EntryInv'
    BY <1>3, MallocSafe
  <1>4. ASSUME NEW p \in Ptr, NEW size \in Sizes, NEW nmemb \in Counts, calloc(p, nmemb, size)
        PROVE  EntryInv'
    BY <1>4, CallocSafe
  <1>5. ASSUME NEW p \in Ptr, Dealloc(p) \/ free(p) \/ ReallocZero(p)
        PROVE  EntryInv'
    BY <1>5, ReleaseSafe
  <1>6. ASSUME NEW p \in Ptr, NEW n \in Resizes,
               \/ ReallocSame(p, n) \/ realloc_small(p, n) \/ ReallocPromote(p, n)
               \/ ReallocGrow(p, n) \/ ReallocMove(p, n)
               \/ CReallocSame(p, n) \/ CReallocGrow(p, n)
               \/ CReallocPromote(p, n) \/ CReallocMove(p, n)
        PROVE  EntryInv'
    <2>1. n \in Nat
      BY EntryPointsAssumption
    <2> QED
      BY <1>6, <2>1, KeepSafe, RustMovesSafe, CMovesSafe
  <1> QED
    BY <1>1, <1>2, <1>3, <1>4, <1>5, <1>6 DEF Next

\* The least class of all tiers is the least of the block's own tier.
LEMMA LeastOverall ==
  ASSUME NEW b, Formed(b), NEW l, l.size \in Nat, l.size > 0, PackedAs(b, l), b.tier # "large"
  PROVE  ClassSize(b.tier, b.cls) = Min({c \in AllClasses : c >= l.size})
  <1> DEFINE x == ClassSize(b.tier, b.cls)
             S == {c \in AllClasses : c >= l.size}
  <1>1. b.tier \in {"small", "medium", "big"}
    BY DEF Formed, Block
  <1>2. x \in Nat /\ x >= l.size
    BY <1>1, PackedHolds
  <1>3. /\ DOMAIN CLASSES = 0 .. NUM_CLASSES - 1 /\ DOMAIN MEDIUM_CLASSES = 0 .. NUM_MEDIUM - 1
        /\ DOMAIN BIG_CLASSES = 0 .. NUM_BIG - 1
    <2>1. DOMAIN CLASSES = 0 .. NUM_CLASSES - 1
      BY TablesGraded DEF Graded
    <2>2. DOMAIN MEDIUM_CLASSES = 0 .. NUM_MEDIUM - 1
      BY TablesGraded DEF Graded
    <2>3. DOMAIN BIG_CLASSES = 0 .. NUM_BIG - 1
      BY TablesGraded DEF Graded
    <2> QED
      BY <2>1, <2>2, <2>3
  <1>4. \A y : y \in AllClasses <=>
          \/ \E i \in 0 .. NUM_CLASSES - 1 : y = CLASSES[i]
          \/ \E i \in 0 .. NUM_MEDIUM - 1 : y = MEDIUM_CLASSES[i]
          \/ target = "arena" /\ \E i \in 0 .. NUM_BIG - 1 : y = BIG_CLASSES[i]
    BY <1>3 DEF AllClasses
  <1>5. AllClasses \subseteq Nat
    <2>1. \A i \in 0 .. NUM_CLASSES - 1 : CLASSES[i] \in Nat
      BY TablesTyped, Limits
    <2>2. \A i \in 0 .. NUM_MEDIUM - 1 : MEDIUM_CLASSES[i] \in Nat
      BY TablesTyped, Limits
    <2>3. \A i \in 0 .. NUM_BIG - 1 : BIG_CLASSES[i] \in Nat
      BY TablesTyped, Limits
    <2> QED
      BY <1>4, <2>1, <2>2, <2>3
  <1>6. x \in AllClasses /\ \A y \in AllClasses : y >= l.size => x <= y
    <2>1. CASE b.tier = "small"
      <3>1. /\ b.cls \in 0 .. NUM_CLASSES - 1 /\ x = CLASSES[b.cls]
            /\ \A i \in 0 .. NUM_CLASSES - 1 : CLASSES[i] >= l.size => x <= CLASSES[i]
        BY <1>1, <2>1, PackedLeast DEF LeastIn, ClassSize
      <3>2. x <= MAX_SMALL_SIZE
        BY <3>1, TablesTyped
      <3> HIDE DEF x
      <3>3. ASSUME NEW y \in AllClasses, y >= l.size PROVE x <= y
        <4>1. CASE \E i \in 0 .. NUM_CLASSES - 1 : y = CLASSES[i]
          BY <3>1, <3>3, <4>1
        <4>2. CASE y > MAX_SMALL_SIZE
          BY <1>2, <1>5, <3>2, <4>2 DEF MAX_SMALL_SIZE
        <4> QED
          BY <1>4, <4>1, <4>2, TablesTyped, Limits
      <3> QED
        BY <1>4, <3>1, <3>3
    <2>2. CASE b.tier = "medium"
      <3>1. /\ b.cls \in 0 .. NUM_MEDIUM - 1 /\ x = MEDIUM_CLASSES[b.cls]
            /\ \A i \in 0 .. NUM_MEDIUM - 1 : MEDIUM_CLASSES[i] >= l.size => x <= MEDIUM_CLASSES[i]
        BY <1>1, <2>2, PackedLeast DEF LeastIn, ClassSize
      <3>2. x <= MAX_MEDIUM_BLOCK
        BY <3>1, TablesTyped
      <3>3. l.size > MAX_SMALL_SIZE
        BY <2>2 DEF PackedAs
      <3> HIDE DEF x
      <3>4. ASSUME NEW y \in AllClasses, y >= l.size PROVE x <= y
        <4>1. CASE \E i \in 0 .. NUM_MEDIUM - 1 : y = MEDIUM_CLASSES[i]
          BY <3>1, <3>4, <4>1
        <4>2. CASE \E i \in 0 .. NUM_CLASSES - 1 : y = CLASSES[i]
          <5>1. y <= MAX_SMALL_SIZE
            BY <4>2, TablesTyped
          <5> QED
            BY <1>5, <3>3, <3>4, <5>1 DEF MAX_SMALL_SIZE
        <4>3. CASE \E i \in 0 .. NUM_BIG - 1 : y = BIG_CLASSES[i]
          <5>1. y >= MAX_MEDIUM_BLOCK
            BY <4>3, TablesTyped, Limits
          <5> QED
            BY <1>2, <1>5, <3>2, <5>1, Limits
        <4> QED
          BY <1>4, <4>1, <4>2, <4>3
      <3> QED
        BY <1>4, <3>1, <3>4
    <2>3. CASE b.tier = "big"
      <3>1. /\ b.cls \in 0 .. NUM_BIG - 1 /\ x = BIG_CLASSES[b.cls]
            /\ \A i \in 0 .. NUM_BIG - 1 : BIG_CLASSES[i] >= l.size => x <= BIG_CLASSES[i]
        BY <1>1, <2>3, PackedLeast DEF LeastIn, ClassSize
      <3>2. target = "arena"
        BY <2>3 DEF Formed
      <3>3. l.size > MAX_MEDIUM_BLOCK
        BY <2>3 DEF PackedAs
      <3> HIDE DEF x
      <3>4. ASSUME NEW y \in AllClasses, y >= l.size PROVE x <= y
        <4>1. CASE \E i \in 0 .. NUM_BIG - 1 : y = BIG_CLASSES[i]
          BY <3>1, <3>4, <4>1
        <4>2. CASE \/ \E i \in 0 .. NUM_CLASSES - 1 : y = CLASSES[i]
                   \/ \E i \in 0 .. NUM_MEDIUM - 1 : y = MEDIUM_CLASSES[i]
          <5>1. y <= MAX_MEDIUM_BLOCK
            <6>1. \A i \in 0 .. NUM_CLASSES - 1 : CLASSES[i] <= MAX_MEDIUM_BLOCK
              BY TablesTyped, Limits
            <6>2. \A i \in 0 .. NUM_MEDIUM - 1 : MEDIUM_CLASSES[i] <= MAX_MEDIUM_BLOCK
              BY TablesTyped, Limits
            <6> QED
              BY <4>2, <6>1, <6>2
          <5> QED
            BY <1>5, <3>3, <3>4, <5>1, Limits
        <4> QED
          BY <1>4, <4>1, <4>2
      <3> QED
        BY <1>4, <3>1, <3>2, <3>4
    <2> QED
      BY <1>1, <2>1, <2>2, <2>3
  <1> HIDE DEF x
  <1>7. x \in S /\ S \subseteq Nat
    BY <1>2, <1>5, <1>6
  <1>8. \A y \in S : x <= y
    BY <1>6
  <1> HIDE DEF S
  <1>9. Min(S) \in S /\ Min(S) <= x
    BY <1>7, MinNat
  <1>10. x = Min(S)
    <2> DEFINE m == Min(S)
    <2>1. m \in Nat /\ m <= x /\ x <= m
      BY <1>7, <1>8, <1>9
    <2> HIDE DEF m
    <2>2. x = m
      BY <1>2, <2>1
    <2> QED
      BY <2>2 DEF m
  <1> QED
    BY <1>10 DEF x, S

\* A live block is what its layout says.
LEMMA LiveBlock ==
  ASSUME EntryInv, NEW p \in Live, out[p] # NoBlock
  PROVE  /\ p \in Ptr /\ prog[p] \in Layout /\ prog[p].align \in Powers
         /\ prog[p].size \in Nat /\ prog[p].size > 0
         /\ Formed(out[p]) /\ Matches(out[p], prog[p])
  <1>1. p \in Ptr /\ prog[p] # NoLayout /\ prog[p].size > 0
    BY DEF Live
  <1> QED
    BY <1>1, Held

\* The inductive invariant holds in every reachable state: each block out is well
\* formed, suits the layout the program holds it with, and nothing was lost.
THEOREM Safety == Spec => []EntryInv
  BY InitSafe, StepSafe, PTL DEF Spec

\* Whichever interface frees a block, for every size and alignment, it reaches
\* the heap and the class that gave it out (dealloc_impl, dealloc_with_layout).
THEOREM GoesHome == Spec => []RoutedHome
  <1>1. EntryInv => RoutedHome
    <2> SUFFICES ASSUME EntryInv, NEW p \in Live, out[p] # NoBlock
                 PROVE  RouteOf(p) = Home(out[p])
      BY DEF RoutedHome
    <2> QED
      BY LiveBlock, EveryPtr, RouteHome
  <1> QED
    BY <1>1, Safety, PTL

\* The tiers have a block out exactly where the program holds one, after any
\* sequence of reallocs.
THEOREM NoBlockLost == Spec => []NothingLost
  <1>1. EntryInv => NothingLost
    BY DEF EntryInv
  <1> QED
    BY <1>1, Safety, PTL

\* realloc carries over every byte that is in both the old and the new block.
THEOREM BytesKept == Spec => []ContentsKept
  <1>1. EntryInv => ContentsKept
    BY DEF EntryInv
  <1> QED
    BY <1>1, Safety, PTL

\* A packed block is of the smallest class of any tier that holds its size.
THEOREM LeastClass == Spec => []LeastFit
  <1>1. EntryInv => LeastFit
    <2> SUFFICES ASSUME EntryInv, NEW p \in Live, out[p] # NoBlock, out[p].tier # "large"
                 PROVE  ClassSize(out[p].tier, out[p].cls) = Min({c \in AllClasses : c >= prog[p].size})
      BY DEF LeastFit
    <2>1. /\ Formed(out[p]) /\ prog[p].size \in Nat /\ prog[p].size > 0
          /\ PackedAs(out[p], prog[p])
      BY LiveBlock DEF Matches
    <2> QED
      BY <2>1, LeastOverall
  <1> QED
    BY <1>1, Safety, PTL

\* A block has the alignment and the size asked for, except that a large region
\* in the big range may fall short of a size in its class.
THEOREM ServedAsRequested == Spec => []AsRequested
  <1>1. EntryInv => AsRequested
    <2> SUFFICES ASSUME EntryInv, NEW p \in Live, out[p] # NoBlock
                 PROVE  /\ out[p].palign % prog[p].align = 0
                        /\ \/ usable_size(out[p]) >= prog[p].size
                           \/ /\ LargeInBigRange(p)
                              /\ big_class_for_size(usable_size(out[p])) = big_class_for_size(prog[p].size)
      BY DEF AsRequested
    <2> DEFINE b == out[p]
               l == prog[p]
    <2>1. /\ l.align \in Powers /\ l.size \in Nat /\ l.size > 0 /\ Formed(b) /\ Matches(b, l)
      BY LiveBlock
    <2>2. b.palign \in Powers /\ b.palign >= l.align /\ b.tier \in {"small", "medium", "big", "large"}
      BY <2>1 DEF Formed, Matches, Block
    <2>3. b.palign % l.align = 0
      <3>1. l.align <= b.palign
        BY <2>1, <2>2, EntryPointsAssumption
      <3> QED
        BY <2>1, <2>2, <3>1, EntryPointsAssumption
    <2>4. CASE b.tier = "large"
      <3>1. usable_size(b) = b.mapped - b.off
        BY <2>1, <2>4, Usable
      <3>2. LargeAs(b, l)
        BY <2>1, <2>4 DEF Matches
      <3> QED
        BY <2>3, <2>4, <3>1, <3>2 DEF LargeAs, LargeInBigRange
    <2>5. CASE b.tier # "large"
      <3>1. usable_size(b) = ClassSize(b.tier, b.cls)
        BY <2>1, <2>5, Usable
      <3>2. ClassSize(b.tier, b.cls) >= l.size
        BY <2>1, <2>2, <2>5, PackedHolds DEF Matches
      <3> QED
        BY <2>3, <3>1, <3>2
    <2> QED
      BY <2>4, <2>5
  <1> QED
    BY <1>1, Safety, PTL

\* A span is carved into as many blocks as its capacity says and at least the
\* target number, and no block of a mapped span covers a chunk's header: for every
\* class of both tiers and both builds.
THEOREM SpansCarved == Spec => []SpanFits
  <1>1. EntryInv => SpanFits
    <2> SUFFICES ASSUME EntryInv, NEW p \in Live, out[p] # NoBlock
                 PROVE  LET b == out[p] size == ClassSize(b.tier, b.cls) IN
                   /\ b.tier = "medium" =>
                        LET pages == span_pages_for(target, size)
                            blocks == SpanBlocks(b.arena, size, pages)
                            want == medium_capacity_for(IF b.arena THEN "arena" ELSE "plain", size, pages)
                        IN  /\ Cardinality(blocks) = want
                            /\ want >= IF b.arena \/ target = "plain" THEN TARGET_BLOCKS_PER_SPAN ELSE 1
                            /\ ~b.arena => \A o \in blocks : o \div PAGE_SIZE = (o + size - 1) \div PAGE_SIZE
                   /\ b.tier = "big" =>
                        Cardinality(BigBlocks(size, big_span_pages_for(size))) >= TARGET_BLOCKS_PER_SPAN
      BY DEF SpanFits
    <2>1. PICK b, size : b = out[p] /\ size = ClassSize(b.tier, b.cls)
      OBVIOUS
    <2>2. /\ Formed(b) /\ Matches(b, prog[p]) /\ prog[p].size \in Nat
      BY <2>1, LiveBlock
    <2>3. b.arena \in BOOLEAN /\ (b.arena => target = "arena") /\ target \in {"arena", "plain"}
      BY <2>2 DEF Formed, Block, EntryInv, TypeOK
    <2>4. b.tier \in {"medium", "big"} => PackedAs(b, prog[p])
      BY <2>2 DEF Matches
    <2>5. CASE b.tier = "medium"
      <3>1. b.cls \in 0 .. NUM_MEDIUM - 1
        BY <2>2, <2>4, <2>5, MediumClass DEF PackedAs, LeastIn
      <3>2. size = MEDIUM_CLASSES[b.cls]
        BY <2>1, <2>5 DEF ClassSize
      <3>3. size \in MAX_SMALL_SIZE + 1 .. MAX_MEDIUM_BLOCK
        BY <3>1, <3>2, TablesGraded DEF Graded
      <3>4. MediumSize(size)
        <4>1. MAX_MEDIUM_BLOCK <= MEDIUM_BLOCK_CAP /\ MAX_MEDIUM_BLOCK \in Nat /\ MAX_SMALL_SIZE \in Nat
              /\ MEDIUM_BLOCK_CAP \in Nat
          BY Limits, TablesGraded DEF MEDIUM_BLOCK_CAP, PAGE_SIZE, MEDIUM_CHUNK_RESERVE
        <4> QED
          BY <3>3, <4>1 DEF MediumSize
      <3>5. CASE b.arena
        BY <2>1, <2>3, <2>5, <3>4, <3>5, ArenaSpan
      <3>6. CASE ~b.arena
        BY <2>1, <2>3, <2>5, <3>4, <3>6, LegacySpan
      <3> QED
        BY <3>5, <3>6
    <2>6. CASE b.tier = "big"
      <3>1. b.cls \in 0 .. NUM_BIG - 1
        BY <2>2, <2>4, <2>6, BigClass DEF PackedAs, LeastIn
      <3>2. size = BIG_CLASSES[b.cls]
        BY <2>1, <2>6 DEF ClassSize
      <3>3. size \in MAX_MEDIUM_BLOCK + 1 .. MAX_BIG_BLOCK
        BY <3>1, <3>2, TablesGraded DEF Graded
      <3>4. size \in Nat /\ size > 0
        BY <3>3, Limits
      <3> QED
        BY <2>1, <2>6, <3>4, BigSpan
    <2> QED
      BY <2>1, <2>5, <2>6
  <1> QED
    BY <1>1, Safety, PTL

=============================================================================
