----------------------------- MODULE SizeClasses -----------------------------
(***************************************************************************)
(* The tables of classes.rs and the lookups through them, with the         *)
(* constants of a 64-bit build, and the carving of a span into blocks       *)
(* (page.rs).  A `target` with an arena is cfg(all(unix, feature = "std")). *)
(***************************************************************************)
EXTENDS Integers, FiniteSetsExt

PAGE_SIZE == 65536
MIN_ALIGN == 16
MAX_SMALL_SIZE == 16384
NUM_CLASSES == 64

\* n rounded up to a multiple of a.
align_up(n, a) == ((n + a - 1) \div a) * a

\* One geometric step of about 12.5%, rounded to 16 bytes.
medium_step(size) == align_up((size * 9 + 7) \div 8, 16)

\* The scans that fill the lookup tables: the first class that holds size, or
\* the last class.
Scan(table, num, size) ==
  LET fit == {i \in 0 .. num - 2 : table[i] >= size}
  IN  IF fit = {} THEN num - 1 ELSE Min(fit)

-----------------------------------------------------------------------------
(* Small classes. *)

build_classes[i \in 0 .. NUM_CLASSES - 1] ==
  IF i = 0 THEN MIN_ALIGN
  ELSE LET size == medium_step(build_classes[i - 1])
       IN  IF size > MAX_SMALL_SIZE THEN MAX_SMALL_SIZE ELSE size

CLASSES == [i \in 0 .. NUM_CLASSES - 1 |-> build_classes[i]]

class_for_size_scan(size) == Scan(CLASSES, NUM_CLASSES, size)

\* A slot is filled for the largest size that rounds into it.
build_lut(q) == class_for_size_scan(q * MIN_ALIGN)

CLASS_LUT == [q \in 0 .. MAX_SMALL_SIZE \div MIN_ALIGN |-> build_lut(q)]

class_for_size(size) ==
  IF size <= MAX_SMALL_SIZE
  THEN CLASS_LUT[(size + MIN_ALIGN - 1) \div MIN_ALIGN] % NUM_CLASSES
  ELSE NUM_CLASSES - 1

-----------------------------------------------------------------------------
(* Medium and big classes: a geometric chain from the tier below, and the  *)
(* cap itself as the last class when the chain stops short of it.          *)

MEDIUM_CHUNK_RESERVE == 64      \* the master header of a span
SPAN_SUB_SIZE == 16             \* the header of each further legacy chunk
MEDIUM_BLOCK_CAP == PAGE_SIZE - MEDIUM_CHUNK_RESERVE
BIG_MASTER_RESERVE == 64
BIG_BLOCK_CAP == 1048576
TARGET_BLOCKS_PER_SPAN == 8     \* for medium and for big spans

\* The chains are shorter than this.
ChainBound == 32

\* The classes above `below`, up to cap.
Table(below, cap) ==
  LET chain[i \in 0 .. ChainBound] ==
        medium_step(IF i = 0 THEN below ELSE chain[i - 1])
      count == Cardinality({i \in 0 .. ChainBound : chain[i] <= cap})
      num == IF chain[count - 1] < cap THEN count + 1 ELSE count
  IN  [i \in 0 .. num - 1 |-> IF i < count THEN chain[i] ELSE cap]

MEDIUM_CLASSES == Table(MAX_SMALL_SIZE, MEDIUM_BLOCK_CAP)
NUM_MEDIUM == Cardinality(DOMAIN MEDIUM_CLASSES)
MAX_MEDIUM_BLOCK == MEDIUM_CLASSES[NUM_MEDIUM - 1]

BIG_CLASSES == Table(MAX_MEDIUM_BLOCK, BIG_BLOCK_CAP)
NUM_BIG == Cardinality(DOMAIN BIG_CLASSES)
MAX_BIG_BLOCK == BIG_CLASSES[NUM_BIG - 1]

\* Mutant of build_medium_lut: filled for the size just below the slot.
MediumLutBelow(q) == Scan(MEDIUM_CLASSES, NUM_MEDIUM, MAX_SMALL_SIZE + q * MIN_ALIGN)

\* A slot is filled for the smallest size that falls into it.
build_medium_lut(q) == Scan(MEDIUM_CLASSES, NUM_MEDIUM, MAX_SMALL_SIZE + 1 + q * MIN_ALIGN)

build_big_lut(q) == Scan(BIG_CLASSES, NUM_BIG, MAX_MEDIUM_BLOCK + 1 + q * MIN_ALIGN)

medium_class_for_size(size) ==
  IF size <= MAX_SMALL_SIZE \/ size > MAX_MEDIUM_BLOCK THEN NUM_MEDIUM - 1
  ELSE build_medium_lut((size - MAX_SMALL_SIZE - 1) \div MIN_ALIGN)

big_class_for_size(size) ==
  IF size <= MAX_MEDIUM_BLOCK \/ size > MAX_BIG_BLOCK THEN NUM_BIG - 1
  ELSE build_big_lut((size - MAX_MEDIUM_BLOCK - 1) \div MIN_ALIGN)

\* A table in ascending order that covers the sizes above `below` up to `top`,
\* in multiples of MIN_ALIGN.
Graded(table, num, below, top) ==
  /\ num \in Nat \ {0} /\ DOMAIN table = 0 .. num - 1 /\ table[num - 1] = top
  /\ \A i \in 0 .. num - 1 :
       /\ table[i] \in below + 1 .. top /\ table[i] % MIN_ALIGN = 0
       /\ \A j \in 0 .. num - 1 : i <= j => table[i] <= table[j]

\* What the unit tests of classes.rs assert of the tables.  There is no parameter
\* in it: TLC computes the tables and evaluates it.
ASSUME TablesGraded ==
  /\ Graded(CLASSES, NUM_CLASSES, 0, MAX_SMALL_SIZE)
  /\ Graded(MEDIUM_CLASSES, NUM_MEDIUM, MAX_SMALL_SIZE, MAX_MEDIUM_BLOCK)
  /\ Graded(BIG_CLASSES, NUM_BIG, MAX_MEDIUM_BLOCK, MAX_BIG_BLOCK)
  /\ MAX_MEDIUM_BLOCK <= MEDIUM_BLOCK_CAP

-----------------------------------------------------------------------------
(* Spans. *)

medium_capacity_legacy_for(block, pages) ==
  (PAGE_SIZE - MEDIUM_CHUNK_RESERVE) \div block
    + (pages - 1) * ((PAGE_SIZE - SPAN_SUB_SIZE) \div block)

\* With an arena a span is one run of blocks; without, a run per chunk.
medium_capacity_for(target, block, pages) ==
  IF target = "arena" THEN (pages * PAGE_SIZE - MEDIUM_CHUNK_RESERVE) \div block
  ELSE medium_capacity_legacy_for(block, pages)

span_pages_for(target, block) ==
  Min({n \in 1 .. TARGET_BLOCKS_PER_SPAN + 1 :
         medium_capacity_for(target, block, n) >= TARGET_BLOCKS_PER_SPAN})

\* Mutant of big_span_pages_for: the header is left out.
BigPagesBare(block) == (TARGET_BLOCKS_PER_SPAN * block + PAGE_SIZE - 1) \div PAGE_SIZE

big_span_pages_for(block) ==
  (BIG_MASTER_RESERVE + TARGET_BLOCKS_PER_SPAN * block + PAGE_SIZE - 1) \div PAGE_SIZE

\* Offsets of the blocks carved one after the other in start .. end - 1.
Carve(start, end, block) ==
  {start + k * block : k \in 0 .. (end - start) \div block - 1}

\* SpanMaster::init: the offsets of a medium span's blocks.
SpanBlocks(inArena, block, pages) ==
  IF inArena THEN Carve(MEDIUM_CHUNK_RESERVE, pages * PAGE_SIZE, block)
  ELSE UNION {Carve(i * PAGE_SIZE + (IF i = 0 THEN MEDIUM_CHUNK_RESERVE ELSE SPAN_SUB_SIZE),
                    (i + 1) * PAGE_SIZE, block) : i \in 0 .. pages - 1}

\* BigMaster::init: the offsets of a big span's blocks.
BigBlocks(block, pages) == Carve(BIG_MASTER_RESERVE, pages * PAGE_SIZE, block)

=============================================================================
