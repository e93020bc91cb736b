----------------------------- MODULE EntryPoints -----------------------------
(***************************************************************************)
(* The entry points of lib.rs: the choice of a tier by size and alignment, *)
(* the two ways a pointer finds its way back (by the layout the program    *)
(* passes, or by probing tables and headers), and realloc, which keeps,    *)
(* grows, promotes or moves a block.                                        *)
(*                                                                         *)
(* The tiers themselves are the other modules.  Here a tier is what it      *)
(* promises: any block of the class asked for, or none.  Nothing here is    *)
(* shared between threads, so a call is one step.                           *)
(***************************************************************************)
EXTENDS SizeClasses

CONSTANTS
  Ptr,        \* addresses
  Sizes,      \* sizes the program allocates
  Resizes,    \* sizes the program passes to realloc
  Aligns,     \* alignments it asks for
  Counts,     \* first arguments of calloc
  USIZE_MAX,  \* a power of two less one; arithmetic beyond it overflows
  Powers,     \* the powers of two an address can be a multiple of
  NoBlock, NoLayout

VARIABLES
  target,     \* the build: "arena" is cfg(all(unix, feature = "std"))
  out,        \* out[p]: the block the tiers gave out at p
  prog,       \* prog[p]: what the program holds at p, as it believes
  lost        \* bytes the last call owed to the program and did not deliver

vars == <<target, out, prog, lost>>

ISIZE_MAX == USIZE_MAX \div 2
LARGE_HEADER_SIZE == 48
BIG_GROW_SLACK_FACTOR == 8
KERNEL_PAGE == 4096

\* The largest power of two that divides n.
LowBit(n) == Max({k \in Powers : n % k = 0})

\* What an allocation can be.  `mask` is what a read at p & !PAGE_MASK finds: a
\* small page's header, a span's, something else (user bytes among them, which
\* may look like the header of a page), or no memory at all.
Block ==
  [tier : {"small", "medium", "big", "large"}, cls : Nat, arena : BOOLEAN,
   off : Nat, mapped : Nat, req : Nat,       \* LargeHeader, as offsets
   palign : Nat,                             \* alignment of the address
   mask : {"page", "span", "other", "fault"}]

Layout == [api : {"rust", "c"}, size : Nat, align : Nat]

ASSUME EntryPointsAssumption ==
  /\ Sizes \subseteq Nat /\ Resizes \subseteq Nat /\ Counts \subseteq Nat
  /\ Powers \subseteq Nat \ {0} /\ {1, MIN_ALIGN} \subseteq Powers
  /\ \A j, k \in Powers : j <= k => k % j = 0
  /\ Aligns \subseteq Powers
  /\ USIZE_MAX \in Nat /\ (USIZE_MAX + 1) % PAGE_SIZE = 0
  /\ NoBlock \notin Block /\ NoLayout \notin Layout

TypeOK ==
  /\ target \in {"arena", "plain"}
  /\ out \in [Ptr -> Block \cup {NoBlock}]
  /\ prog \in [Ptr -> Layout \cup {NoLayout}]
  /\ lost \in Nat

-----------------------------------------------------------------------------
(* What the tiers give. *)

\* A page, span or region comes from the arena or, failing that, the system.
Places == IF target = "arena" THEN BOOLEAN ELSE {FALSE}

Packed(tier, c, a, al, m) ==
  [tier |-> tier, cls |-> c, arena |-> a, off |-> 0, mapped |-> 0, req |-> 0,
   palign |-> al, mask |-> m]

alloc_small(c) == {Packed("small", c, a, MIN_ALIGN, "page") : a \in Places}

\* Chunks of an arena span have no header of their own.
alloc_medium(c) ==
  UNION {{Packed("medium", c, a, MIN_ALIGN, m) :
            m \in IF a THEN {"span", "page", "other"} ELSE {"span"}} : a \in Places}

alloc_big(c) ==
  {Packed("big", c, TRUE, LowBit(o), m) :
     o \in BigBlocks(BIG_CLASSES[c], big_span_pages_for(BIG_CLASSES[c])),
     m \in {"page", "other"}}

\* Where the user pointer can lie in a region: the base is a multiple of 64 KiB
\* in the arena, of a kernel page outside.
Offsets(align, a) ==
  LET unit == IF a THEN PAGE_SIZE ELSE KERNEL_PAGE
  IN  IF align <= unit THEN {align_up(LARGE_HEADER_SIZE, align)} ELSE {unit, align}

AddressAlign(align, a, o) ==
  IF o < (IF a THEN PAGE_SIZE ELSE KERNEL_PAGE) THEN LowBit(o) ELSE align

\* At the base of an arena region is the header or, in front of a header that
\* alignment moved up, old bytes.  Outside the arena the masked address may lie
\* in front of the region.
Masked(a, align) ==
  IF ~a THEN {"fault"} ELSE IF align <= MIN_ALIGN THEN {"other"} ELSE {"other", "page"}

\* A region reused from a cache may be longer than what was asked for.
Region(mapped) == {mapped, mapped + PAGE_SIZE}

alloc_large_ex(size, align, slack) ==
  LET total == size + align + LARGE_HEADER_SIZE + slack
      mapped == align_up(total, PAGE_SIZE)
  IN  IF total + PAGE_SIZE - 1 > USIZE_MAX THEN {}
      ELSE {blk \in
              UNION {{[tier |-> "large", cls |-> 0, arena |-> a, off |-> o, mapped |-> r,
                       req |-> size, palign |-> AddressAlign(align, a, o),
                       mask |-> m] :
                        o \in Offsets(align, a), r \in Region(mapped), m \in Masked(a, align)} :
                       a \in Places} :
              blk.off + size <= blk.mapped}

-----------------------------------------------------------------------------
(* Choice of the tier.  The sets are what a call may return, besides null. *)

MAX_PACKED_BLOCK == IF target = "arena" THEN MAX_BIG_BLOCK ELSE MAX_MEDIUM_BLOCK

needs_large(size, align) == align > MIN_ALIGN \/ size > MAX_PACKED_BLOCK

\* The big tier may be out of memory: then the large path serves the request.
alloc_tiered(size, align) ==
  CASE needs_large(size, align) -> alloc_large_ex(size, align, 0)
    [] ~needs_large(size, align) /\ size > MAX_MEDIUM_BLOCK ->
         alloc_big(big_class_for_size(size)) \cup alloc_large_ex(size, align, 0)
    [] ~needs_large(size, align) /\ size \in MAX_SMALL_SIZE + 1 .. MAX_MEDIUM_BLOCK ->
         alloc_medium(medium_class_for_size(size))
    [] OTHER -> alloc_small(class_for_size(size))

alloc_impl(size, align) ==
  IF size <= MAX_SMALL_SIZE /\ align <= MIN_ALIGN
  THEN alloc_small(class_for_size(size))
  ELSE alloc_tiered(size, align)

\* alloc_zeroed_impl repeats the choice.  What it clears depends on what the tier
\* knows of the block, which the modules of the tiers model.
alloc_zeroed_impl(size, align) ==
  IF needs_large(size, align) THEN alloc_large_ex(size, align, 0)
  ELSE IF size > MAX_MEDIUM_BLOCK
       THEN alloc_big(big_class_for_size(size)) \cup alloc_large_ex(size, align, 0)
  ELSE IF size > MAX_SMALL_SIZE THEN alloc_medium(medium_class_for_size(size))
  ELSE alloc_small(class_for_size(size))

-----------------------------------------------------------------------------
(* Finding the way back.  A route is the heap, and the class of it, that a *)
(* block is handed to; Home is the one it came from.                        *)

Home(b) == <<b.tier, b.cls>>
Corrupt == <<"corrupt", 0>>
Fault == <<"fault", 0>>

\* The arena's side table has one entry per page, tagged with its kind.
table_get(b, tier) == b.arena /\ b.tier = tier

legacy_large_contains(b) == ~b.arena /\ b.tier = "large"

large_region_known(b) == IF b.arena THEN table_get(b, "large") ELSE legacy_large_contains(b)

\* The masked read, then SpanMaster::of.
ByHeader(b) ==
  CASE b.mask = "fault" -> Fault
    [] b.mask = "page" -> <<"small", b.cls>>
    [] b.mask = "span" -> <<"medium", b.cls>>
    [] b.mask = "other" -> Corrupt

dealloc_impl(b) ==
  IF b.arena
  THEN CASE table_get(b, "large") -> <<"large", 0>>
         [] table_get(b, "medium") -> <<"medium", b.cls>>
         [] table_get(b, "big") -> <<"big", b.cls>>
         [] OTHER -> ByHeader(b)
  ELSE IF large_region_known(b) THEN <<"large", 0>> ELSE ByHeader(b)

\* Mutant of dealloc_tiered: the alignment is not looked at.
DeallocBySize(b, size, align) ==
  IF size > MAX_PACKED_BLOCK THEN <<"large", 0>>
  ELSE IF size > MAX_MEDIUM_BLOCK
       THEN CASE ~b.arena \/ table_get(b, "large") -> <<"large", 0>>
              [] table_get(b, "big") -> <<"big", b.cls>>
              [] OTHER -> Corrupt
  ELSE IF size > MAX_SMALL_SIZE THEN <<"medium", medium_class_for_size(size)>>
  ELSE <<"small", class_for_size(size)>>

dealloc_tiered(b, size, align) ==
  IF needs_large(size, align) THEN <<"large", 0>>
  ELSE IF size > MAX_MEDIUM_BLOCK
       THEN CASE ~b.arena \/ table_get(b, "large") -> <<"large", 0>>
              [] table_get(b, "big") -> <<"big", b.cls>>
              [] OTHER -> Corrupt
  ELSE <<"medium", medium_class_for_size(size)>>

dealloc_with_layout(b, size, align) ==
  IF size <= MAX_SMALL_SIZE /\ align <= MIN_ALIGN
  THEN <<"small", class_for_size(size)>>
  ELSE dealloc_tiered(b, size, align)

\* The route of the block at p in the interface the program uses for it.
RouteOf(p) ==
  IF prog[p].api = "c" THEN dealloc_impl(out[p])
  ELSE dealloc_with_layout(out[p], prog[p].size, prog[p].align)

\* A block handed to another heap than its own stays out for ever.
Back(b, route) == IF route = Home(b) THEN NoBlock ELSE b

ClassSize(tier, c) ==
  CASE tier = "small" -> CLASSES[c]
    [] tier = "medium" -> MEDIUM_CLASSES[c]
    [] tier = "big" -> BIG_CLASSES[c]

\* Mutant of usable_size: the big entries of the side table are not looked up.
UsableNoBig(b) ==
  LET route == dealloc_impl(b)
  IN  CASE route[1] = "large" -> b.mapped - b.off
        [] route[1] \in {"small", "medium"} -> ClassSize(route[1], route[2])
        [] OTHER -> 0

\* usable_size probes like dealloc_impl, and knows nothing of what it cannot find.
usable_size(b) ==
  LET route == dealloc_impl(b)
  IN  CASE route[1] = "large" -> b.mapped - b.off
        [] route[1] \in {"small", "medium", "big"} -> ClassSize(route[1], route[2])
        [] OTHER -> 0

-----------------------------------------------------------------------------
(* Allocation and release. *)

\* The program holds one block at a time: blocks do not affect each other here.
Idle == \A p \in Ptr : prog[p] = NoLayout

Give(p, b, api, size, align) ==
  /\ out' = [out EXCEPT ![p] = b]
  /\ prog' = [prog EXCEPT ![p] = [api |-> api, size |-> size, align |-> align]]
  /\ lost' = 0
  /\ UNCHANGED target

\* A Layout is at most isize::MAX bytes once rounded up to its alignment.
ValidLayout(size, align) == align_up(size, align) <= ISIZE_MAX

\* GlobalAlloc::alloc and alloc_zeroed; a zero-size block is a dangling address.
Alloc(p, size, align) ==
  /\ Idle /\ out[p] = NoBlock /\ ValidLayout(size, align)
  /\ \E b \in IF size = 0 THEN {NoBlock} ELSE alloc_impl(size, align) :
       Give(p, b, "rust", size, align)

AllocZeroed(p, size, align) ==
  /\ Idle /\ out[p] = NoBlock /\ ValidLayout(size, align) /\ size > 0
  /\ \E b \in alloc_zeroed_impl(size, align) : Give(p, b, "rust", size, align)

\* The C interface promises 16 bytes of alignment.
malloc(p, size) ==
  /\ Idle /\ out[p] = NoBlock /\ size > 0 /\ size <= ISIZE_MAX
  /\ \E b \in alloc_impl(size, 1) : Give(p, b, "c", size, MIN_ALIGN)

\* checked_mul: the bytes calloc asks for, or 0 for none.
CallocTotal(nmemb, size) == IF nmemb * size <= ISIZE_MAX THEN nmemb * size ELSE 0

calloc(p, nmemb, size) ==
  LET total == CallocTotal(nmemb, size) IN
  /\ Idle /\ out[p] = NoBlock /\ total > 0
  /\ \E b \in alloc_zeroed_impl(total, 1) : Give(p, b, "c", nmemb * size, MIN_ALIGN)

aligned_alloc(p, align, size) ==
  /\ Idle /\ out[p] = NoBlock /\ size > 0 /\ size <= ISIZE_MAX
  /\ \E b \in alloc_impl(size, align) : Give(p, b, "c", size, align)

\* GlobalAlloc::dealloc, which ignores zero-size layouts, and free.
Release(p) ==
  /\ out' = [out EXCEPT ![p] = IF @ = NoBlock THEN @ ELSE Back(@, RouteOf(p))]
  /\ prog' = [prog EXCEPT ![p] = NoLayout]
  /\ lost' = 0
  /\ UNCHANGED target

Dealloc(p) == prog[p] # NoLayout /\ prog[p].api = "rust" /\ Release(p)

free(p) == prog[p] # NoLayout /\ prog[p].api = "c" /\ Release(p)

-----------------------------------------------------------------------------
(* Growing a block. *)

\* try_grow_large_frontier inside the mapping: only the header changes.
GrowFits(b, n) ==
  /\ target = "arena" /\ b # NoBlock /\ table_get(b, "large")
  /\ n > b.req /\ n <= b.mapped - b.off

\* Mutant of GrowMapped: the room in front of an aligned pointer is left out.
GrowMappedBare(b, n) ==
  align_up(n + LARGE_HEADER_SIZE, PAGE_SIZE) % (USIZE_MAX + 1)

\* try_grow_large_frontier by new pages, when arena::grow_frontier can add them.
GrowMapped(b, n) ==
  align_up(n + b.palign + LARGE_HEADER_SIZE, PAGE_SIZE) % (USIZE_MAX + 1)

GrowExtends(b, n) ==
  /\ target = "arena" /\ b # NoBlock /\ table_get(b, "large")
  /\ n > b.req /\ n > b.mapped - b.off
  /\ n + b.palign + LARGE_HEADER_SIZE <= USIZE_MAX
  /\ GrowMapped(b, n) > b.mapped

\* The blocks that growth in place may leave at p.
try_grow_large_frontier(b, n) ==
  CASE GrowFits(b, n) -> {[b EXCEPT !.req = n]}
    [] GrowExtends(b, n) -> {[b EXCEPT !.req = n, !.mapped = GrowMapped(b, n)]}
    [] OTHER -> {}

\* The large blocks a growing big block may move to, with room to grow on.
try_promote_big_grow(b, n, align) ==
  LET reserve == Min({n * BIG_GROW_SLACK_FACTOR, MAX_BIG_BLOCK})
  IN  IF /\ b # NoBlock /\ table_get(b, "big")
         /\ n > BIG_CLASSES[b.cls] /\ reserve > n
      THEN alloc_large_ex(n, align, reserve - n)
      ELSE {}

\* realloc leaves the address of p in place.
Keep(p, b, n) ==
  /\ out' = [out EXCEPT ![p] = b]
  /\ prog' = [prog EXCEPT ![p].size = n]
  /\ lost' = 0
  /\ UNCHANGED target

\* realloc moves p to the block `new` elsewhere, copies `copy` bytes and gives
\* the old block back along `route`.
Move(p, new, n, copy, route) ==
  \E q \in Ptr \ {p} :
    /\ out[q] = NoBlock
    /\ out' = [out EXCEPT ![q] = new, ![p] = IF @ = NoBlock THEN @ ELSE Back(@, route)]
    /\ prog' = [prog EXCEPT ![p] = NoLayout, ![q] = [prog[p] EXCEPT !.size = n]]
    /\ lost' = Max({0, Min({prog[p].size, n}) - Min({copy, usable_size(new)})})
    /\ UNCHANGED target

-----------------------------------------------------------------------------
(* GlobalAlloc::realloc and realloc_slow, for a block of layout l at p.    *)

\* The sizes lie in one class, by the layout alone.
same_class(l, n) ==
  /\ l.align <= MIN_ALIGN
  /\ \/ /\ l.size \in 1 .. MAX_SMALL_SIZE /\ n <= MAX_SMALL_SIZE
        /\ class_for_size(l.size) = class_for_size(n)
     \/ /\ l.size > MAX_SMALL_SIZE /\ l.size <= MAX_MEDIUM_BLOCK
        /\ n > MAX_SMALL_SIZE /\ n <= MAX_MEDIUM_BLOCK
        /\ medium_class_for_size(l.size) = medium_class_for_size(n)
     \/ /\ target = "arena"
        /\ l.size > MAX_MEDIUM_BLOCK /\ l.size <= MAX_BIG_BLOCK
        /\ n > MAX_MEDIUM_BLOCK /\ n <= MAX_BIG_BLOCK
        /\ big_class_for_size(l.size) = big_class_for_size(n)

small_move(l, n) ==
  l.align <= MIN_ALIGN /\ l.size <= MAX_SMALL_SIZE /\ n <= MAX_SMALL_SIZE

may_promote(l, n) ==
  /\ target = "arena" /\ l.align <= MIN_ALIGN
  /\ l.size > MAX_MEDIUM_BLOCK /\ l.size <= MAX_BIG_BLOCK
  /\ n > MAX_MEDIUM_BLOCK /\ n <= MAX_BIG_BLOCK

may_grow(l, n) ==
  \/ l.align <= MIN_ALIGN /\ l.size > MAX_MEDIUM_BLOCK /\ n > MAX_MEDIUM_BLOCK
  \/ l.align > MIN_ALIGN
  \/ l.size > MAX_BIG_BLOCK

Resizing(p, n, api) ==
  prog[p] # NoLayout /\ prog[p].api = api /\ n > 0

\* realloc to zero bytes is a release; the Rust interface answers a dangling
\* address, which the program may go on to use as a block of zero bytes.
ReallocZero(p) ==
  /\ prog[p] # NoLayout /\ prog[p].api = "rust"
  /\ out' = [out EXCEPT ![p] = IF @ = NoBlock THEN @ ELSE Back(@, RouteOf(p))]
  /\ prog' = [prog EXCEPT ![p].size = 0]
  /\ lost' = 0
  /\ UNCHANGED target

ReallocSame(p, n) ==
  /\ Resizing(p, n, "rust") /\ same_class(prog[p], n)
  /\ Keep(p, out[p], n)

\* Mutant of realloc_small: the old block goes to the new size's class.
ReallocSmallNewClass(p, n) ==
  LET l == prog[p] IN
  /\ Resizing(p, n, "rust") /\ small_move(l, n) /\ ~same_class(l, n)
  /\ \E new \in alloc_small(class_for_size(n)) :
       Move(p, new, n, Min({l.size, n}), <<"small", class_for_size(n)>>)

realloc_small(p, n) ==
  LET l == prog[p] IN
  /\ Resizing(p, n, "rust") /\ small_move(l, n) /\ ~same_class(l, n)
  /\ \E new \in alloc_small(class_for_size(n)) :
       Move(p, new, n, Min({l.size, n}), <<"small", class_for_size(l.size)>>)

ReallocPromote(p, n) ==
  LET l == prog[p] b == out[p] IN
  /\ Resizing(p, n, "rust") /\ may_promote(l, n) /\ ~same_class(l, n)
  /\ \E new \in try_promote_big_grow(b, n, l.align) :
       Move(p, new, n, Min({ClassSize("big", b.cls), n}), dealloc_impl(b))

ReallocGrow(p, n) ==
  LET l == prog[p] IN
  /\ Resizing(p, n, "rust") /\ may_grow(l, n) /\ ~same_class(l, n)
  /\ \E grown \in try_grow_large_frontier(out[p], n) : Keep(p, grown, n)

\* Nothing else applied, or promotion or growth failed.
ReallocMove(p, n) ==
  LET l == prog[p] b == out[p] IN
  /\ Resizing(p, n, "rust") /\ ValidLayout(n, l.align)
  /\ ~same_class(l, n) /\ ~small_move(l, n)
  /\ ~(may_grow(l, n) /\ GrowFits(b, n))
  /\ \E new \in alloc_impl(n, l.align) :
       Move(p, new, n, Min({l.size, n}),
            IF l.size = 0 THEN Corrupt ELSE dealloc_with_layout(b, l.size, l.align))

-----------------------------------------------------------------------------
(* The C realloc, which knows a block by probing only. *)

\* The class the probes find is the class of n.
same_class_probed(b, n) ==
  LET by(tier) == \/ table_get(b, tier)
                  \/ /\ ~table_get(b, "big") /\ ~table_get(b, "medium")
                     /\ ~large_region_known(b) /\ ByHeader(b)[1] = tier
  IN  \/ /\ by("small") /\ n <= MAX_SMALL_SIZE /\ class_for_size(n) = b.cls
      \/ /\ by("medium") /\ n > MAX_SMALL_SIZE /\ n <= MAX_MEDIUM_BLOCK
         /\ medium_class_for_size(n) = b.cls
      \/ /\ table_get(b, "big") /\ n > MAX_MEDIUM_BLOCK /\ n <= MAX_BIG_BLOCK
         /\ big_class_for_size(n) = b.cls

ResizingC(p, n) == Resizing(p, n, "c") /\ n <= ISIZE_MAX

CReallocSame(p, n) ==
  ResizingC(p, n) /\ same_class_probed(out[p], n) /\ Keep(p, out[p], n)

CReallocGrow(p, n) ==
  /\ ResizingC(p, n)
  /\ \E grown \in try_grow_large_frontier(out[p], n) : Keep(p, grown, n)

CReallocPromote(p, n) ==
  LET b == out[p] IN
  /\ ResizingC(p, n) /\ table_get(b, "big") /\ ~same_class_probed(b, n)
  /\ n > MAX_MEDIUM_BLOCK /\ n <= MAX_BIG_BLOCK
  /\ \E new \in try_promote_big_grow(b, n, b.palign) :
       Move(p, new, n, Min({ClassSize("big", b.cls), n}), dealloc_impl(b))

\* A large block moves with its alignment.
CReallocMove(p, n) ==
  LET b == out[p] IN
  /\ ResizingC(p, n) /\ ~same_class_probed(b, n) /\ ~GrowFits(b, n)
  /\ \E new \in alloc_impl(n, IF large_region_known(b) THEN b.palign ELSE 1) :
       Move(p, new, n, Min({usable_size(b), n}), dealloc_impl(b))

-----------------------------------------------------------------------------
Init ==
  /\ target \in {"arena", "plain"}
  /\ out = [p \in Ptr |-> NoBlock]
  /\ prog = [p \in Ptr |-> NoLayout]
  /\ lost = 0

Next ==
  \/ \E p \in Ptr, size \in Sizes, align \in Aligns :
       Alloc(p, size, align) \/ AllocZeroed(p, size, align) \/ aligned_alloc(p, align, size)
  \/ \E p \in Ptr, size \in Sizes : malloc(p, size)
  \/ \E p \in Ptr, size \in Sizes, nmemb \in Counts : calloc(p, nmemb, size)
  \/ \E p \in Ptr : Dealloc(p) \/ free(p) \/ ReallocZero(p)
  \/ \E p \in Ptr, n \in Resizes :
       \/ ReallocSame(p, n) \/ realloc_small(p, n) \/ ReallocPromote(p, n)
       \/ ReallocGrow(p, n) \/ ReallocMove(p, n)
       \/ CReallocSame(p, n) \/ CReallocGrow(p, n)
       \/ CReallocPromote(p, n) \/ CReallocMove(p, n)

Spec == Init /\ [][Next]_vars

-----------------------------------------------------------------------------
(* Properties. *)

Live == {p \in Ptr : prog[p] # NoLayout /\ prog[p].size > 0}

\* Whichever interface frees a block, it reaches the heap and the class that
\* gave it out: the size thresholds of allocation, release and realloc agree,
\* and user bytes that look like a header, or memory that cannot be read, are
\* never taken for one (dealloc_impl, dealloc_with_layout).
RoutedHome == \A p \in Live : out[p] # NoBlock => RouteOf(p) = Home(out[p])

\* The tiers have a block out exactly where the program holds one: realloc gives
\* the old block back once, and only when it moved.
NothingLost == \A p \in Ptr : out[p] # NoBlock <=> p \in Live

\* A packed block is of the smallest class that holds its size, also after any
\* number of reallocs that kept the address.
AllClasses ==
  {CLASSES[i] : i \in DOMAIN CLASSES} \cup {MEDIUM_CLASSES[i] : i \in DOMAIN MEDIUM_CLASSES}
    \cup IF target = "arena" THEN {BIG_CLASSES[i] : i \in DOMAIN BIG_CLASSES} ELSE {}

LeastFit ==
  \A p \in Live : out[p] # NoBlock /\ out[p].tier # "large" =>
    ClassSize(out[p].tier, out[p].cls) = Min({c \in AllClasses : c >= prog[p].size})

\* usable_size: the memory behind a block is at least what the program asked for.
SizeBacked == \A p \in Live : out[p] # NoBlock => usable_size(out[p]) >= prog[p].size

\* A block held through the Rust interface whose size is in the big range while
\* its memory is a large region.
LargeInBigRange(p) ==
  /\ prog[p].api = "rust" /\ out[p].tier = "large"
  /\ prog[p].align <= MIN_ALIGN /\ prog[p].size <= MAX_BIG_BLOCK

\* The address has the alignment the block was asked for and the memory behind
\* it the size, through alloc_zeroed, calloc, growth in place and any number of
\* moves.  The exception is LargeInBigRange: there realloc may have answered that
\* the size is in the same class, and the memory may fall short of it, by less
\* than that class.
AsRequested ==
  \A p \in Live : out[p] # NoBlock =>
    /\ out[p].palign % prog[p].align = 0
    /\ \/ usable_size(out[p]) >= prog[p].size
       \/ /\ LargeInBigRange(p)
          /\ big_class_for_size(usable_size(out[p])) = big_class_for_size(prog[p].size)

\* realloc carries over every byte that is in both the old and the new block.
ContentsKept == lost = 0

\* A span is carved into as many blocks as its capacity says, at least the
\* target number unless an arena build had to map it elsewhere; no block of a
\* mapped span covers the header of a chunk.
SpanFits ==
  \A p \in Live : out[p] # NoBlock =>
    LET b == out[p] size == ClassSize(b.tier, b.cls) IN
    /\ b.tier = "medium" =>
         LET pages == span_pages_for(target, size)
             blocks == SpanBlocks(b.arena, size, pages)
             want == medium_capacity_for(IF b.arena THEN "arena" ELSE "plain", size, pages)
         IN  /\ Cardinality(blocks) = want
             /\ want >= IF b.arena \/ target = "plain" THEN TARGET_BLOCKS_PER_SPAN ELSE 1
             /\ ~b.arena => \A o \in blocks : o \div PAGE_SIZE = (o + size - 1) \div PAGE_SIZE
    /\ b.tier = "big" =>
         Cardinality(BigBlocks(size, big_span_pages_for(size))) >= TARGET_BLOCKS_PER_SPAN

-----------------------------------------------------------------------------
(* The inductive invariant. *)

\* What the tiers promise of a block they give out, and growth in place keeps.
Formed(b) ==
  /\ b \in Block /\ b.palign \in Powers /\ (b.arena => target = "arena")
  /\ CASE b.tier = "small" -> b.mask = "page"
       [] b.tier = "medium" -> ~b.arena => b.mask = "span"
       [] b.tier = "big" -> b.arena
       [] b.tier = "large" ->
            /\ b.cls = 0 /\ b.off + b.req <= b.mapped
            /\ b.off <= b.palign + LARGE_HEADER_SIZE

\* A packed block is of the class of the size the program believes it to have.
PackedAs(b, l) ==
  CASE b.tier = "small" -> l.size <= MAX_SMALL_SIZE /\ b.cls = class_for_size(l.size)
    [] b.tier = "medium" ->
         /\ l.size > MAX_SMALL_SIZE /\ l.size <= MAX_MEDIUM_BLOCK
         /\ b.cls = medium_class_for_size(l.size)
    [] b.tier = "big" ->
         /\ l.size > MAX_MEDIUM_BLOCK /\ l.size <= MAX_BIG_BLOCK
         /\ b.cls = big_class_for_size(l.size)

\* A large block has the size, or the class of it; what the Rust interface holds
\* is large by its layout, or in the big range.
LargeAs(b, l) ==
  LET usable == b.mapped - b.off IN
  /\ \/ usable >= l.size
     \/ /\ l.api = "rust" /\ l.align <= MIN_ALIGN /\ l.size <= MAX_BIG_BLOCK
        /\ big_class_for_size(usable) = big_class_for_size(l.size)
  /\ l.api = "rust" /\ l.align <= MIN_ALIGN =>
       l.size > MAX_MEDIUM_BLOCK /\ b.req > MAX_MEDIUM_BLOCK

Matches(b, l) ==
  /\ b.palign >= l.align
  /\ IF b.tier = "large" THEN LargeAs(b, l)
     ELSE l.align <= MIN_ALIGN /\ b.palign >= MIN_ALIGN /\ PackedAs(b, l)

EntryInv ==
  /\ TypeOK /\ NothingLost /\ ContentsKept
  /\ \A p \in Ptr :
       /\ prog[p] # NoLayout => /\ prog[p].align \in Powers
                                /\ prog[p].api = "c" => prog[p].size > 0
       /\ out[p] # NoBlock => Formed(out[p]) /\ Matches(out[p], prog[p])

=============================================================================
