---------------------------- MODULE MCEntryPoints ----------------------------
(***************************************************************************)
(* Instances of EntryPoints for TLC.  The sizes are those next to a         *)
(* boundary: the top of a class, one more, and the first size of the next   *)
(* slot of a lookup table.                                                  *)
(***************************************************************************)
EXTENDS EntryPoints, TLC

Symmetry == Permutations(Ptr)

\* A word of 24 bits; calloc of 3 times this size exceeds it by 2.
Overflowing == 5592406

PowersTo24 == {2^i : i \in 0 .. 24}

Tops(table) == {table[i] : i \in DOMAIN table}

\* The tops of some small classes.
SmallTops ==
  {16, 32, 48, 64, 80, 96, 112, 128, 144, 368, 624,
   1040, 1712, 2800, 4512, 7264, 11648, 13104, 14752, 16384}

EverySize ==
  {0, 1, Overflowing, ISIZE_MAX, ISIZE_MAX + 1}
    \cup UNION {{c - 15, c, c + 1} :
                   c \in SmallTops \cup Tops(MEDIUM_CLASSES) \cup Tops(BIG_CLASSES)}

SomeSizes ==
  {1, 16, 17, 33, MAX_SMALL_SIZE, MAX_SMALL_SIZE + 1, 18432, 18433,
   MAX_MEDIUM_BLOCK, MAX_MEDIUM_BLOCK + 1, 80000, 118033, 132800, 132801,
   900000, 983936, MAX_BIG_BLOCK, MAX_BIG_BLOCK + 1, 1245136, ISIZE_MAX}

=============================================================================
