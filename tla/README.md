# Verification of allox

TLA+ models of the allox memory allocator (crate sources in `src/src/*.rs`),
checked with TLC on small instances, with TLAPS proofs of the main safety
results.

## 1. The system

allox is a `GlobalAlloc` (and C `malloc`) implementation. A request goes to one
of four tiers by size. Each of the first three is built the same way: a bin in
the thread's cache, a global heap with one lock per size class behind it, and
the arena or the operating system behind that.

| Component | Source | State it keeps | Operations |
|---|---|---|---|
| Small classes, global heap | `heap.rs` (first half), `page.rs` | per class: lock, partial list, empty-page list, cold-page array; per page: header with `used`, free list, flags | `take_blocks`, `release_blocks`, `release_many`, `release_bin_chunks`, parking and unmapping of empty pages |
| Medium spans | `heap.rs` (second part), `page.rs` `SpanMaster` | per class: lock, partial list, cached empty spans, cold-span array; per span: master with free list and count | `take_blocks`, `release_blocks`, `release_many` |
| Big spans | `heap.rs` (last part), `page.rs` `BigMaster` | per class: lock, partial, empty and cold lists; per span: master with free list and count | `take_blocks`, `release_blocks` |
| Large regions | `lib.rs` 473-1317 | sharded cache of freed regions with an exact-size index, stash of up to eight per thread, registry of live regions | `alloc_large_ex`, `free_large`, in-place growth |
| Thread cache | `cache.rs` | per class: bin (intrusive stack), length, virgin watermark; active medium and big span; byte counts and budget | `alloc`, `alloc_zeroed`, `dealloc`, `refill`, `trim`, `flush_*` |
| Retired caches, TLS states | `cache.rs` 137-160, 736-835, 2252-2335; `lib.rs` 84-238 | slots EMPTY/WRITING/READY/TAKING, count of ready slots; per thread FREE/ACTIVE/RETIRED | `retire`, `take_one`, `steal_empty_bins`, `reclaim_retired` |
| Arena | `arena.rs` | reservation bounds and init guard, bump offset, hole store with a lock, side table | `ensure_init`, `commit`, `grow_frontier`, `release` |
| Exit hook | `thread_exit.rs` | process-wide install state, per-thread registration | `ensure_hook`, `record_flush` |
| Size classes | `classes.rs` | tables computed at compile time | `class_for_size` and its medium and big versions |
| Entry points | `lib.rs` 1360-2102 | none of their own | `alloc`, `alloc_zeroed`, `dealloc`, `realloc`, `usable_size` |
| System backends | `sys/*.rs` | none (the operating system) | map, unmap, discard, recommit, reserve, commit |
| Telemetry | `lib.rs` 2106-2134 and counters everywhere | relaxed atomic counters | `stats` |

How they interact. `lib.rs` picks the tier and finds the thread's cache through
a TLS slot; with no usable cache (first call, re-entrance, thread exit) it calls
the global heap directly. A cache miss takes a batch of blocks from the global
heap under the class lock; the heap drops that lock to ask the arena, or the
operating system, for pages, and takes it again to link them. Frees go the
other way in batches. A thread that exits leaves its cache in a retired slot,
from which another thread's refill adopts it.

What is hard:

* lock drops in the middle of `take_blocks` and of the release paths: what is
  done after relocking was decided before;
* a page that becomes empty is parked, purged or unmapped while other threads
  may still hold blocks of neighbouring pages, or be about to free one;
* claims about memory contents (`VIRGIN`, a bin's watermark, a purge's `zeroed`
  answer) travel through five data structures before `calloc` relies on them;
* lock-free parts: arena bump and init guard, retired slots, large-region index;
* thread exit: caches that outlive their thread, hooks that may run twice or
  re-enter the allocator;
* the tier of a block is never stored: allocation, the two kinds of release and
  realloc each work it out again, from sizes, tables or headers;
* byte counters that are moved by separate additions in a dozen places decide
  when a cache trims itself, and whether it is empty enough to be replaced.

Correctness, per component: a block is handed to one holder at a time; a page
or span stays mapped and unpurged while a block of it is out; counts equal what
they count; nothing mapped is forgotten except by a failed unmap; `calloc`
memory reads as zero; locks are released and spins end; a block is as large and
as aligned as was asked for, and goes back where it came from. The complete list of
hazards, with the properties that answer them, is in `PROJECT.json`.

## 2. Modules

`AllocContract` is the abstract specification: which blocks the program holds,
which have a non-zero byte, which came from `calloc`. A block is given to one
holder, and no step changes bytes the program holds. `SmallHeap`, `SpanHeap` and
`LargeRegions` are each shown to implement it, with the identity on those three
variables. Every `MC...` module instantiates the module of its name for TLC:
symmetry, the answers `sys::discard` may give, the sizes to try. `CacheBudget`
needs none. A component's theorems are in the `...Proofs` module of its name
(section 4); the inductive invariant they rest on is the last section of the
component's own module, so that TLC can check it too.

In all modules, `pc[t]` is the place thread `t` has reached in a call, and the
program is taken at its worst: it writes to a `malloc` block at once and to a
`calloc` block before it frees it. `dirty` holds what has a non-zero byte.
`PROJECT.json` maps every definition to its lines.

**`SmallHeap`** is one small class (classes share nothing but counters).
The class lock is a variable, and a critical section is a sequence of steps.
`free`, `used` and `flags` are the fields of a `PageHeader`; `partial`, `empty`
and `cold` the class' lists; `mem` what the operating system holds; a bin is a sequence with its virgin watermark.
`BeginTake`, `FillBlock`, `TakeEmpty`, `TakeCold`, `FillEmpty`, `MapPage`,
`Relock` and `Finish` are `GlobalHeap::take_blocks`, which drops the lock to map
a page; `ReleaseLock`, `ReleaseGroup`, `ReleaseUnlock`, `UnmapPage` and
`FatesDone` are the release paths, which unmap after they unlock; `Trim`,
`FlushAll` and `FlushChunkStep` are the cache's ways to give blocks back;
`FreeDirect` is a free with no usable cache; `Adopt` takes over a retired bin.

**`Arena`** is `arena.rs`: the reservation and its init guard (`Check`,
`EnterGuard`, `Reserve`, `Publish`, `LeaveGuard`), claims from the frontier
(`LoadBump`, `CasBump`) and from the hole store with its exact-size hints
(`ReadCount`, `TakeHole`, `HolesGive`), `CommitRange`, growth at the frontier
(`BeginGrow`, `GrowCas`, `GrowCommit`, `Extend`) and release. Holes are in an
array, because swaps and stale hints are the point. Every atomic operation is a
step; the sections under the hole lock are one step each, since the only
variable read outside it, `hole_count`, is stored last in them. The side table
is set by `Carve` and `Extend` and cleared by `BeginRelease`, as the span heaps
and the large regions do.

**`SpanHeap`** is one class of the medium (`Tier = "medium"`) or the big tier.
Spans are named by base address, and successive spans may overlap, because the
active-span test of the cache compares addresses. `bin` and `active` are the two
chains of a class in a thread cache. As in `SmallHeap` the class lock is a
variable and a section under it a sequence of steps: `Take` or `TakeNothing`,
`MapSpan` and `LinkSpan` (which map a span with the lock dropped), one `FillBlock`
per block, and `FillDone`. A flush pops one block per step (`FlushPop`) and sorts
it into the group of its master; a release takes one group per step
(`ReleaseGroup`) and unmaps after it unlocked (`UnmapSpan`).

**`LargeRegions`** is the large tier of `lib.rs`. A region goes from the mapping
to the program and, when freed, into the stash of the freeing thread
(`PushStash`), the hot or the cold part of a shard (`Park`, which purges under
the lock), or back (`UnmapRegion`). `BeginAlloc`, `TakeShard` and `MapRegion`
look for one in that order; `Handoff` recommits and purges it, `CountRegion` and
`LinkRegion` register it. `InsertEntry` and `RemoveEntry` keep the exact-size
index as `index_hot`, `remove_hot` and their cold versions do. The shard of a
call depends on addresses and is left open. The branch for an entry that
alignment makes unusable is left out: the request already includes the alignment,
so a region with enough pages always fits.

**`RetiredCaches`** is what happens to a cache on thread exit: the TLS state with
its re-entrancy guard, the slot queue (each atomic operation and each plain
access to a slot is a step) and the ready count, which is a `usize` and wraps
(`Usize` values). `Taken` adopts a cache whole, steals bins and flushes the
rest, or drains it. A cache is the set of its blocks.

**`ExitHook`** is `ensure_hook` under `tls::with`, on unix and on Windows: the
variable `platform` is chosen once, in `Init`. A thread has a stack of calls,
because creating the key may allocate and so come back in.

**`CacheBudget`** is the thread cache across classes: `cached_bytes`,
`tier_cached_bytes` and `foreign_bytes`, the budget with its epoch, the drift
gate and the two shedding tests, and `trim` as a loop (`EnterTrim`, `TrimStep`,
`TrimDone`). Here a bin is its length and a class is its block size; bytes are
counted as elements of a set.
`Alloc`, `dealloc`, `DeallocTiered`, `Refill`, `Recheck` and `Take` are the
operations of the three tiers; `reclaim_retired` adopts or steals
(`steal_empty_bins`) the cache that an exited thread left; `set_budget`,
`FlushThread` and `Exit` come from outside. Whose page a freed block lies in
is left open, so the foreign bytes may grow by any free under the open gate.

**`SizeClasses`** has the tables of `classes.rs` with their real values: the
geometric chains with their explicit top class, the lookup tables with the
rounding each of them uses, span lengths and capacities, and the carving of spans
(`SpanBlocks`, `BigBlocks`). It is a module of constants and functions.

**`EntryPoints`** extends it with `lib.rs`. A block is its tier, its class,
where it lies and, for a large region, the fields of its `LargeHeader`; `out`
is what the tiers gave out and `prog` what the program believes to hold.
`alloc_impl`, `alloc_tiered` and `alloc_zeroed_impl` are the blocks a call may
return; `dealloc_impl` (probing) and `dealloc_with_layout` are the route a
release takes. What a read at the masked address finds is part of the block,
and may be user bytes that look like a header, or memory that cannot be read.
`ReallocSame`, `realloc_small`, `ReallocPromote`, `ReallocGrow` and
`ReallocMove` are the branches of the Rust `realloc`, with each branch that can
fail followed by the next one; the `CRealloc...` actions those of the C one. The
variable `target` chooses a build with or without an arena. The tiers appear as
what the other modules show of them: a block of the class asked for, or none.
The entry points share no state between threads, so a call is one step.

## 3. Runs

| Run | Instance | Shows |
|---|---|---|
| `small_heap` | 2 threads, 2 pages of 2 blocks, any purge outcome | no block in two hands, exact headers, pages in use neither purged nor lost, `calloc` zero |
| `small_tiers` | 2 threads, 3 pages of 1 block, an empty and a cold slot, purges that decommit (Windows), which leave most to be done | the inductive invariant of the proof; refinement of `AllocContract`; every hold of the class lock ends |
| `arena` | 2 threads, 3 pages, 2 hole slots | no page has two owners or is lost, no commit wipes memory in use, side table exact, splits, swaps and stale hints never make the store miss a best fit, every call ends |
| `span_medium` | 2 threads, 2 spans of 2 blocks, `calloc`, a cold slot | as `small_heap`, for spans and active chains; refinement of `AllocContract` |
| `span_big` | 2 threads, 3 overlapping spans of 1 block, `malloc`, an empty slot | blocks are released to the span they came from |
| `span_stale` | 2 threads, 2 overlapping medium spans | **violated**: finding 1 |
| `large` | 2 threads, 1 shard, 4 regions of 1 and 2 pages, 2 of them in the arena | one place per region, registry count exact, no access to decommitted memory, `calloc` zero, exact-size index right; refinement of `AllocContract` |
| `retired` | 2 threads, 2 slots, 2 blocks | a cache is moved whole and once, the count settles, refills and exits end |
| `hook` | 3 threads, both backends | one key, an armed unix thread stays armed, installing ends also when libc allocates |
| `entry` | 2 addresses; sizes at every medium and big class boundary, at 20 small ones and at the largest representable; alignments 1, 64 and 128 KiB; a 24-bit word | each block goes back to its heap and class, nothing lost or copied short by realloc, the least class that fits, size and alignment as requested, spans hold what they promise |
| `entry_backed` | the same with 20 sizes | **violated**: finding 2 |
| `budget` | 2 small, 1 medium and 1 big class, a budget that is lowered once, one retired cache | exact byte counters, a free leaves the cache within its limits or with nothing to give back, `trim` ends |

Why the bounds are enough. Two threads give every pair of conflicting steps of a
locked or compare-and-swap protocol; a third is there where two contend for
something a third left (the hook). Two pages let one be exhausted or
parked while the other is in use, and a batch larger than a page makes refills
cross pages. Every cap is small enough to be reached with blocks to spare, so that
the tier behind it is used too; `ExactMax` and `HugeFrom` are below the longest region,
so that both sides of the comparison occur. Blocks in `small_tiers` are one per
page to leave room for the third page, which all four fates of an empty page need.
In `entry` the tables have their real values; a size differs from its neighbours
only at the top of a class, at a slot of a lookup table or at a tier's end, and
those are the sizes tried: each class top, the size after it and the first size of
its last slot. The word has 24 bits instead of 64, so that sums of a size, an
alignment and a header overflow; the largest table entry is 2^20, far
below, and the 24 powers of two below it are all that an address can be
aligned to. One block at a time is enough, since the entry points keep no state
between blocks. In `budget` the classes are a few bytes and the budget (9, then 8) is
small enough that a cache of two or three blocks is over it; the retired slot
takes caches of up to 7 bytes, so that a cache may be kept or flushed.

Fairness. `FairSpec` in each module is weak fairness of a thread's own steps
inside a call: a thread the operating system keeps running goes on. No lock or
compare-and-swap is assumed fair, so only what follows without it is claimed:
lock holds end (`LockReleased`) rather than every waiter gets in; and in `Arena` a
lost compare-and-swap means another call advanced, which a bounded arena allows
only so often. `TrimEnds` assumes only that the thread inside `trim` runs. Calls
need not start. `hook` allows that the system refuses
for ever, since each call then ends with the hook not installed.

Deadlock is checked in every run.

### Findings

1. `span_stale`: a drained medium active span keeps its address range
   (`cache.rs:1147`, `cache.rs:1169`). After the span is unmapped, a block of a
   later overlapping span joins the stale chain and is released to a master that
   no longer exists. The big tier compares the span itself and is not affected.
2. `entry_backed`: `realloc_slow` (`lib.rs:1791`) keeps a block whose old and new
   size are in one big class. The block may be a large region, because the big
   tier had no memory or because the block was promoted, and a region ends at a
   multiple of 64 KiB rather than at the top of a class. A block of 118033 bytes
   has 131024 usable there, and grows "in place" to 132800. `AsRequested`, which `entry`
   checks, states size and alignment with exactly this case left out.

Two more disagreements, met while modelling and not the subject of a run. The
Windows `ensure_hook` takes `FlsSetValue`'s 0 for success (`thread_exit.rs:165`)
although nonzero is: an installed hook is not recorded and is installed again on
each slow path, and a refused one is taken for armed. `Set` models it, and
`ArmedFires` is stated for unix for this reason. And a slice whose commit fails
becomes a hole that nobody counted in `MAPPED_PAGES` and that is not counted
when it is reused either (`arena.rs:458`), while the comments call such memory
"already live and counted"; the counter is a statistic and is not modelled.

## 4. Proofs

TLAPS checks the theorems below for every value of the constants that the
module's `...Assumption` allows. Those assumptions say of what kind a constant is
(natural, positive where a capacity or a batch is) and little else; sets of
threads, pages, regions and shards need not be finite except where noted. A
theorem that names a property of a run states exactly the formula TLC checks.

Each proof has the same shape: no property is inductive on its own, so the
module ends with an invariant that is. It was checked with TLC before it was
proved, and adding it to the `INVARIANTS` of the run's cfg repeats that;
lemmas show that each action keeps each part of it; `Safety` is
`Spec => []` of it, and every other theorem follows.

| Module | Theorems | Inductive invariant |
|---|---|---|
| `SmallHeapProofs` | `TypeCorrect`, `NoDoubleHandOut`, `UsedCountsOut`, `FreeListsExact`, `PagesPinned`, `PagesNotLost` | `SafetyInv` |
| | `CallocZero`, `ContractHolds` (refinement of `AllocContract`) | `SafetyInv` and `ZeroInv` |
| `SpanHeapProofs` | `TypeCorrect`, `BlocksExclusive`, `CountsCorrect`, `SpansFound`, `ReleasesCorrect` | `SafetyInv` |
| | `ContractHolds` (refinement of `AllocContract`) | `SafetyInv` and `ZeroInv` |
| `ArenaProofs` | `PagesExclusive`, `PagesAccounted`, `MemoryIntact`, `TableLeadsHome`, `BestFitTaken` | `ArenaInv` |
| `LargeRegionsProofs` | `PlacedOnce`, `AlwaysRecognised`, `IndexStaysExact`, `NeverFaults`, `NeverShort`, `ContractHolds` (refinement of `AllocContract`) | `LargeInv` |
| `RetiredCachesProofs` | `MovedOnce`, `CountComesBack` | `RetiredInv` |
| `ExitHookProofs` | `KeyCreatedOnce`, `ArmedMeansArmed` | `HookInv` |
| `CacheBudgetProofs` | `CountersExact`, `FreesSettle` | `BudgetInv` |
| `EntryPointsProofs` | `GoesHome`, `NoBlockLost`, `BytesKept`, `LeastClass`, `ServedAsRequested`, `SpansCarved` | `EntryInv` |

**`SmallHeapProofs`.** `Exclusive` needs to know that a block on a free list is
not also out (`FreeListExact`); that needs `UsedExact`, since a page whose count is
zero is reset; and both are kept through a critical section only if the thread in
it is alone (`LockInv`), its locals describe what it read (`LocalsInv`), the page
it fills from is on the partial list (`HeadInv`), no page is on two lists and the
lists agree with what is mapped (`ListsInv`), and a page in use is on the partial
list just while it has room (`InUseInv`). The proof follows the state rather than
the actions: `TypeStep`, `LockStep`, `LocalsStep` and `HeadStep` treat control;
`BlockStep` the places of blocks, from `BlockAdded` and `BlocksRemoved`; one lemma
per action that touches a page the headers and lists, collected in `PageStep`;
`OthersStep` says what a step leaves alone for the other threads. `StepSafe` puts
them together.

Its second half is about contents. `CallocReadsZero` holds because a claim that memory
is zero is true wherever it is kept: below a bin's watermark (`CleanBin`), in a
chain that is being filled (`CleanChain`), in a page with the `VIRGIN` flag
(`CleanPage`), and in a cold page whose purge zeroed it (`CleanCold`). `ZeroInv` is
their conjunction. That a block is written only by its holder, which keeps the
claims of all the others, is `Exclusive` again. The refinement follows step by
step: a step that answers is the contract's allocation, `Drop` its release, and
every other step leaves alone what the program holds.

**`SpanHeapProofs`.** The theorems have one hypothesis, `NoOverlap`: the tier is
big, or the spans of the class that can ever be mapped coincide or are apart.
It cannot be dropped. The medium tier decides by address range whether a freed
block belongs to the active span, and keeps that range when the chain is
drained; finding 1 is what happens when a later span overlaps it. With
`NoOverlap` the two tests agree: a block in the range of the active span is a
block of the span at that base (`OwnerInv`). `span_medium` and `span_big` satisfy
the hypothesis, the latter with overlapping bases in the big tier, and
`span_stale` does not.

`SafetyInv` ties eight parts together. `LockInv`, `LocalsInv` and `FillInv` say
what each place in a call implies: who has the lock, which of the chain, the
groups and the spans in hand are in use, and that a fill with nothing in its chain
has a span to fill from. `ListsInv` puts each span on at most one list or in
one hand, `MappedInv` keeps mapped spans apart and every block that is out inside
one, `SpanInv` says what a master counts and lists, `OwnerInv` whose blocks a chain
or group holds, and `HandsInv` that no two chains or groups share a block. The
block-level parts are proved by lemmas on what the hands of one thread become
(a block comes, goes, or moves between the bin, the active chain, the chain being
filled and the groups); the span-level ones from the set `Outside` of blocks that
are out, so that most actions only have to show that they leave it alone.
`CountsCorrect` needs that a set of blocks carved from a span has `SpanLen - 1`
elements, which `Carved` being injective gives. `ZeroInv` is inductive relative to
`SafetyInv`: a block that is written to is in the writer's hands, so nobody else's
claim is about it (`ZeroFrame`). `Thread` need not be finite.

**`ArenaProofs`.** `GuardInv` is the spin guard: one thread between winning
and leaving it, publication once, no offset before. `Hands` says, for each place
in a call, which slice a thread has claimed or grows; `HeldApart` that a
slice is grown by one call at a time. With them, `Exclusive` and `Accounted` go
through the compare-and-swap on the frontier because a swap that succeeds saw
the current offset, and through the hole store because a split or swap-remove
keeps the set of pages. `BestFitTaken` is an action property: whatever the
exact-size hints say, a take is from a shortest hole that fits. `Thread` need not be
finite: sums are over the holes, which are in an array.

**`LargeRegionsProofs`.** A step moves a region between lists that are sequences,
so each step is first restated by the set-level change it makes: `StashBecomes`,
`HotBecomes` and `ColdBecomes` describe a list, `StashHit`, `TakesHot`, `ParksCold`
and the like a step. `InOnePlace` is stated as `NoRepeats` (no list has a region
twice) and `Apart` (no two of the `Places` share one), and is kept because a step
moves a region (`ApartMoves`), brings a mapped one in (`ApartComes`) or lets one go
(`ApartGoes`). `RemoveFacts` and `InsertFacts` are about the exact-size index: the
swap on removal moves the last entry, and the links to both entries have to
follow. `Recognised` needs `FiniteInv` (what is counted is finite) and `CallInv`
(what a call holds at each place); `ImplementsContract` needs `ZeroInv`;
`LongEnough` says that what a call has found is as long as it asked for.
`AbsentSays` is why a search that the index answers with nothing may stop.

**`RetiredCachesProofs`.** `SlotInv`: a slot that is being written or taken has
one thread at it, the one whose swap succeeded. `Whereabouts` is `InOnePlace`
without cardinalities: for each block there is a kind of place and an index such that
it is there and nowhere else. `CountSettles` counts threads, so here
`Thread` is assumed finite.

**`ExitHookProofs`.** `StackInv`: only the fallback runs inside another call.
`KeyInv`: `INSTALLING` is set just while one thread is an `Installer`; no key
is published while one is `Creating`; and the number of keys created follows.

**`CacheBudgetProofs`.** The bytes cached are a set with an element per byte
(`BytesIn`), so that what the counters should say is a cardinality rather than
a sum by recursion; `BytesAdd` and `BytesMove` are what is needed of it. A pop
cannot wrap a counter because the class' own bytes are part of the count
(`HeldCounted`). `Refilling` is needed where a refill, after any number of trims,
puts its blocks into a new active chain: there was nothing of the class, so none is
overwritten uncounted. `Targeted` bounds the target of `trim` by the budget it was
computed from; with it, `FreesSettle` (an action property) follows: a free
either saw that it was within the limits, or ends a `trim` that reached its
target or ran out (`TrimmedFacts`).

**`EntryPointsProofs`.** `Formed` is what each tier promises of a block and
`Matches` what connects it with the layout the program holds: for a packed block
the class of its size, for a large one enough bytes or, in the big range, the
same class (finding 2). The size-class tables are built by recursion on the
class index, and what such a recursion computes cannot be proved for every input
here. They are constants, though, so the facts the proof needs of them (sorted,
multiples of 16, the right ends, no medium class above its cap) are the named formula
`TablesGraded`, an assumption that TLC evaluates for the real tables in the
runs. Everything else is proved from it: for every size, every alignment that is
a power of two, and every word length with `USIZE_MAX + 1` a multiple of the page
size. `SpansCarved` is arithmetic about carving: the blocks between two offsets are
in bijection with an interval (`Carving`), those of a span outside the arena are
the disjoint union of its chunks' (`OneChunkMore`, applied up to the nine chunks
that always suffice, `PagesFor`).

Only model-checked:

* Liveness: `LockReleased`, `TrimEnds`, and that calls end in `Arena`,
  `RetiredCaches` and `ExitHook`. It is beyond the prover.
* The values in the size-class tables themselves (`TablesGraded`, above).

Every safety property of a passing run is stated by a theorem.

## 5. Not modelled

* Page and span owners (`claim_page`, `tid`): they decide only whether a free
  counts as foreign, which `CacheBudget` leaves open.
* Statistics and telemetry (`counters.rs`, `stats`): relaxed counters that no
  decision reads.
* The system backends (`sys/*.rs`): each call is its outcomes, failure included.
* The abort on a corrupt pointer and the debug-only validation of frees: the
  program is assumed to free what it was given, once; `RoutedHome` shows that
  such a program never reaches the abort.
* 32-bit builds: their headers, and so some table entries, are smaller.
* A build without `std`, where one cache behind a mutex serves everyone.
* The guards in `fill_from_list` for a page that is on the list although it has
  nothing to give: the invariant shows they are not reached.
* A recommit that fails on Windows (the code ignores it), and a `MAP_FIXED`
  mapping that fails half way.
* Lifetimes of system mappings below the granularity of a page or region, and
  the memory model: atomics are taken in program order. What the code reads
  relaxed (the ready count, `hole_count`, the registry's count) is read in a step
  of its own, so it may be stale by the time it is used.
* `flush_current_thread` repeats until no retired cache is left. It may go on
  while threads keep exiting, so no liveness is claimed for it, and it may miss
  a cache that is parked but not counted yet.
* Growth in place of a large region is in `Arena`, not in `LargeRegions`.

## 6. What is left

The components that keep state are modelled, and their safety is proved. Not done:
a composition of `SmallHeap` or `SpanHeap` with `RetiredCaches`, where a cache is
its bins rather than a set.
