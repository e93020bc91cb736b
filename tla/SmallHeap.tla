------------------------------ MODULE SmallHeap ------------------------------
(***************************************************************************)
(* One small size class: the class' page lists in the global heap          *)
(* (heap.rs), the header of every page of the class (page.rs), the bin     *)
(* each thread's cache keeps for the class (cache.rs), and the paths of    *)
(* lib.rs that go to the global heap without a cache.                      *)
(*                                                                         *)
(* Everything done while the class lock is held is a sequence of steps of  *)
(* the lock holder; mapping and unmapping pages, and everything a thread   *)
(* does to its own bin, happens without the lock.  Intrusive lists are     *)
(* abstracted to sets (which element is at the head is left open), except  *)
(* a bin, whose order is what its virgin watermark is about.               *)
(***************************************************************************)
EXTENDS Naturals, Sequences, FiniteSets

CONSTANTS
  Thread,           \* threads using the allocator
  Page,             \* page-sized ranges the operating system can map
  Capacity,         \* blocks in a page of this class
  RefillBatch,      \* REFILL_BATCH: blocks moved from pages to a cache at once
  EmptyPageCache,   \* EMPTY_PAGE_CACHE_PER_CLASS
  ColdPageSlots,    \* MAX_COLD_PAGE_SLOTS (the byte cap is the same bound)
  FlushChunk,       \* FLUSH_CHUNK: blocks popped from a bin per release_many
  GroupBatch,       \* BATCH of release_many: pages released per lock hold
  Budget,           \* thread cache budget, in blocks of this class
  DiscardOutcomes,  \* what the backend's discard may report
  NoThread, NoPage

ASSUME SmallHeapAssumption ==
  /\ Capacity \in Nat \ {0}
  /\ RefillBatch \in Nat \ {0}
  /\ FlushChunk \in Nat \ {0}
  /\ GroupBatch \in Nat \ {0}
  /\ EmptyPageCache \in Nat /\ ColdPageSlots \in Nat /\ Budget \in Nat
  /\ NoThread \notin Thread
  /\ NoPage \notin Page
  /\ DiscardOutcomes \subseteq {d \in [physical : BOOLEAN, zeroed : BOOLEAN] :
                                  d.zeroed => d.physical}

Index == 0 .. Capacity - 1
Block == Page \X Index
BlocksOf(p) == {p} \X Index

VARIABLES
  \* The class' ListHead and its lock.
  lock, partial, empty, cold,
  \* Page headers: users outside the free list, free list, flags.
  used, free, flags,
  \* What the operating system holds: state of each range, and the ranges
  \* whose munmap failed.
  mem, leaked,
  \* Each thread's bin for the class: blocks from bottom to top, and the
  \* number of never-allocated blocks at its bottom.
  bin, watermark,
  \* Locals of the operation a thread is in the middle of.
  pc,       \* where it is
  mode,     \* through its cache, past it (no TLS cache), or exit flush
  chain,    \* take_blocks: blocks collected so far
  virgin,   \* take_blocks: every page that contributed is still OS-zero
  page,     \* fill_from_list: the list head being drained (lock holder)
  own,      \* pages on no list that only this thread knows of
  rel,      \* blocks popped from the bin and not yet released
  groups,   \* pages released under the present lock hold
  floor,    \* flush_bin: the length to shrink the bin to
  \* The program.
  live, dirty, zeroed

listVars == <<partial, empty, cold>>
hdrVars  == <<used, free, flags>>
osVars   == <<mem, leaked>>
binVars  == <<bin, watermark>>
takeVars == <<chain, virgin, page>>
relVars  == <<rel, groups, floor>>
progVars == <<live, dirty, zeroed>>
vars == <<lock, listVars, hdrVars, osVars, binVars, pc, mode, takeVars, own,
          relVars, progVars>>

Contract == INSTANCE AllocContract

\* FLAG_IN_PARTIAL is membership in partial.
PageFlags == {"VIRGIN", "NEEDS_REINIT"}
ColdEntry == [page : Page, decommitted : BOOLEAN, zeroed : BOOLEAN]
PcLabels  == {"idle", "fill", "map", "relock", "refill", "giveback", "trim",
              "flush", "release", "splice", "fates"}

Min2(a, b) == IF a <= b THEN a ELSE b

Init ==
  /\ lock = NoThread
  /\ partial = {} /\ empty = {} /\ cold = {}
  /\ used  = [p \in Page |-> 0]
  /\ free  = [p \in Page |-> {}]
  /\ flags = [p \in Page |-> {}]
  /\ mem = [p \in Page |-> "unmapped"]
  /\ leaked = {}
  /\ bin = [t \in Thread |-> <<>>]
  /\ watermark = [t \in Thread |-> 0]
  /\ pc = [t \in Thread |-> "idle"]
  /\ mode = [t \in Thread |-> "cache"]
  /\ chain = [t \in Thread |-> <<>>]
  /\ virgin = [t \in Thread |-> FALSE]
  /\ page = NoPage
  /\ own = [t \in Thread |-> {}]
  /\ rel = [t \in Thread |-> {}]
  /\ groups = [t \in Thread |-> 0]
  /\ floor = [t \in Thread |-> 0]
  /\ live = {} /\ dirty = {} /\ zeroed = {}

Goto(t, label) == pc' = [pc EXCEPT ![t] = label]
SetMode(t, m)  == mode' = [mode EXCEPT ![t] = m]
\* The operation is over.  Locals are out of scope: they get one dead value.
Return(t) == Goto(t, "idle") /\ SetMode(t, "cache")
Acquire(t) == lock = NoThread /\ lock' = t
Release(t) == lock = t /\ lock' = NoThread

InitPage(p, extra) ==
  /\ used'  = [used EXCEPT ![p] = 0]
  /\ free'  = [free EXCEPT ![p] = {}]
  /\ flags' = [flags EXCEPT ![p] = extra]

-----------------------------------------------------------------------------
(***************************************************************************)
(* What the program does with an answer.  `claim` is the allocator's word  *)
(* that the block is still OS-zero: calloc then clears only the link word, *)
(* otherwise it clears the whole block.  The program fills a block from    *)
(* malloc at once, and one from calloc before it frees it.                 *)
(***************************************************************************)
Serve(b, claim) ==
  /\ live' = live \cup {b}
  /\ \/ dirty' = dirty \cup {b} /\ UNCHANGED zeroed      \* malloc
     \/ /\ zeroed' = zeroed \cup {b}                     \* calloc
        /\ dirty' = IF claim THEN dirty ELSE dirty \ {b}

Drop(b) ==
  /\ b \in live
  /\ live' = live \ {b}
  /\ zeroed' = zeroed \ {b}
  /\ dirty' = dirty \cup {b}

-----------------------------------------------------------------------------
(* Allocation. *)

Top(s)    == s[Len(s)]
Below(s)  == SubSeq(s, 1, Len(s) - 1)

\* Mutant of AllocHit: the watermark is not lowered with the bin.
AllocHitStaleWatermark(t) ==
  /\ pc[t] = "idle"
  /\ bin[t] # <<>>
  /\ Serve(Top(bin[t]), Len(bin[t]) - 1 < watermark[t])
  /\ bin' = [bin EXCEPT ![t] = Below(@)]
  /\ UNCHANGED <<lock, listVars, hdrVars, osVars, watermark, pc, mode, takeVars, own, relVars>>

\* cache.alloc / alloc_zeroed with a block in the bin.
AllocHit(t) ==
  /\ pc[t] = "idle"
  /\ bin[t] # <<>>
  /\ Serve(Top(bin[t]), Len(bin[t]) - 1 < watermark[t])
  /\ bin' = [bin EXCEPT ![t] = Below(@)]
  /\ watermark' = [watermark EXCEPT ![t] = Min2(@, Len(bin[t]) - 1)]
  /\ UNCHANGED <<lock, listVars, hdrVars, osVars, pc, mode, takeVars, own, relVars>>

\* Thread u has exited and retired its cache; t's next refill (of this class or
\* another) adopts it, and with it u's bin if t's own is empty.  The parked
\* cache belongs to nobody, so u idle stands for it until then; the thread that
\* takes u's place starts with an empty cache.  A bin t has no room for is
\* flushed: FlushAll(u).
Adopt(t, u) ==
  /\ t # u /\ pc[t] = "idle" /\ pc[u] = "idle"
  /\ bin[t] = <<>> /\ bin[u] # <<>>
  /\ bin' = [bin EXCEPT ![t] = bin[u], ![u] = <<>>]
  /\ watermark' = [watermark EXCEPT ![t] = watermark[u], ![u] = 0]
  /\ UNCHANGED <<lock, listVars, hdrVars, osVars, pc, mode, takeVars, own, relVars, progVars>>

\* take_blocks begins: from refill on an empty bin, or from take_one_small
\* on a thread with no cache to use.
BeginTake(t) ==
  /\ pc[t] = "idle"
  /\ \E m \in {"cache", "direct"} : (m = "cache" => bin[t] = <<>>) /\ SetMode(t, m)
  /\ Acquire(t)
  /\ Goto(t, "fill")
  /\ virgin' = [virgin EXCEPT ![t] = TRUE]
  /\ UNCHANGED <<listVars, hdrVars, osVars, binVars, chain, page, own, relVars, progVars>>

Filling(t) == pc[t] \in {"fill", "refill"} /\ lock = t

\* fill_from_list works on the list head until it is exhausted.
HeadPages == IF page = NoPage THEN partial ELSE {page}

\* provision: carve at most `max` blocks past the ones already materialized.
Provision(p, max) ==
  LET materialized == used[p] + Cardinality(free[p])
      count == Min2(Capacity - materialized, max)
  IN  materialized .. materialized + count - 1

\* One turn of fill_from_list's inner loop.
FillBlock(t) ==
  /\ Filling(t)
  /\ Len(chain[t]) < RefillBatch
  /\ \E p \in HeadPages :
       LET listed == IF free[p] # {} THEN free[p]
                     ELSE Provision(p, RefillBatch - Len(chain[t]))
       IN  \E i \in listed :
             /\ chain' = [chain EXCEPT ![t] = Append(@, <<p, i>>)]
             /\ virgin' = [virgin EXCEPT ![t] = @ /\ "VIRGIN" \in flags[p]]
             /\ free' = [free EXCEPT ![p] = listed \ {i}]
             /\ used' = [used EXCEPT ![p] = @ + 1]
             /\ IF listed = {i} /\ used[p] + 1 >= Capacity
                THEN partial' = partial \ {p} /\ page' = NoPage
                ELSE UNCHANGED partial /\ page' = p
  /\ UNCHANGED <<lock, flags, empty, cold, osVars, binVars, pc, mode, own, relVars, progVars>>

\* Recycle a page of the empty list.
TakeEmpty(t) ==
  /\ pc[t] = "fill" /\ lock = t
  /\ chain[t] = <<>> /\ partial = {}
  /\ \E p \in empty :
       /\ empty' = empty \ {p}
       /\ partial' = partial \cup {p}
       /\ IF "NEEDS_REINIT" \in flags[p]
          THEN InitPage(p, {})
          ELSE UNCHANGED hdrVars
       /\ virgin' = [virgin EXCEPT ![t] = @ /\ "NEEDS_REINIT" \notin flags[p]
                                            /\ "VIRGIN" \in flags[p]]
  /\ UNCHANGED <<lock, cold, osVars, binVars, pc, mode, chain, page, own, relVars, progVars>>

\* Mutant of TakeCold: dropped physical pages are taken to read as zero.
TakeColdTrustsPurge(t) ==
  /\ pc[t] = "fill" /\ lock = t
  /\ chain[t] = <<>> /\ partial = {} /\ empty = {}
  /\ \E e \in cold :
       /\ cold' = cold \ {e}
       /\ mem' = IF e.decommitted THEN [mem EXCEPT ![e.page] = "committed"] ELSE mem
       /\ InitPage(e.page, IF e.decommitted THEN {"VIRGIN"} ELSE {})
       /\ virgin' = [virgin EXCEPT ![t] = e.decommitted]
       /\ partial' = partial \cup {e.page}
  /\ UNCHANGED <<lock, empty, leaked, binVars, pc, mode, chain, page, own, relVars, progVars>>

\* Mutant of TakeCold: no recommit before the page is carved.
TakeColdNoRecommit(t) ==
  /\ pc[t] = "fill" /\ lock = t
  /\ chain[t] = <<>> /\ partial = {} /\ empty = {}
  /\ \E e \in cold :
       /\ cold' = cold \ {e}
       /\ InitPage(e.page, IF e.zeroed THEN {"VIRGIN"} ELSE {})
       /\ virgin' = [virgin EXCEPT ![t] = e.zeroed]
       /\ partial' = partial \cup {e.page}
  /\ UNCHANGED <<lock, empty, osVars, binVars, pc, mode, chain, page, own, relVars, progVars>>

\* Re-carve a cold page; recommit it first if its physical pages were dropped.
TakeCold(t) ==
  /\ pc[t] = "fill" /\ lock = t
  /\ chain[t] = <<>> /\ partial = {} /\ empty = {}
  /\ \E e \in cold :
       /\ cold' = cold \ {e}
       /\ mem' = IF e.decommitted THEN [mem EXCEPT ![e.page] = "committed"] ELSE mem
       /\ InitPage(e.page, IF e.zeroed THEN {"VIRGIN"} ELSE {})
       /\ virgin' = [virgin EXCEPT ![t] = e.zeroed]
       /\ partial' = partial \cup {e.page}
  /\ UNCHANGED <<lock, empty, leaked, binVars, pc, mode, chain, page, own, relVars, progVars>>

\* Mutant of Finish: the block handed out also goes to the bin.
FinishKeepsServed(t) ==
  LET c == chain[t] IN
  /\ Serve(Top(c), virgin[t])
  /\ IF mode[t] = "cache"
     THEN /\ bin' = [bin EXCEPT ![t] = c]
          /\ watermark' = [watermark EXCEPT ![t] = 0]
          /\ chain' = [chain EXCEPT ![t] = <<>>]
          /\ Return(t)
     ELSE /\ chain' = [chain EXCEPT ![t] = Below(c)]
          /\ Goto(t, "giveback")
          /\ UNCHANGED <<binVars, mode>>

\* refill and take_one_small, once take_blocks has a chain: the block on top
\* is the answer; the rest fills the (empty) bin, or is given back one by one.
Finish(t) ==
  LET c == chain[t] IN
  /\ Serve(Top(c), virgin[t])
  /\ IF mode[t] = "cache"
     THEN /\ bin' = [bin EXCEPT ![t] = Below(c)]
          /\ watermark' = [watermark EXCEPT ![t] = IF virgin[t] THEN Len(c) - 1 ELSE 0]
          /\ chain' = [chain EXCEPT ![t] = <<>>]
          /\ Return(t)
     ELSE /\ chain' = [chain EXCEPT ![t] = Below(c)]
          /\ Goto(t, "giveback")
          /\ UNCHANGED <<binVars, mode>>

\* Mutant of FillDone: take_blocks waits for a full batch.
FillDoneFullOnly(t) ==
  /\ Filling(t)
  /\ Len(chain[t]) = RefillBatch
  /\ Release(t)
  /\ page' = NoPage
  /\ Finish(t)
  /\ virgin' = [virgin EXCEPT ![t] = FALSE]
  /\ UNCHANGED <<listVars, hdrVars, osVars, own, relVars>>

\* take_blocks returns.
FillDone(t) ==
  /\ Filling(t)
  /\ chain[t] # <<>>
  /\ Len(chain[t]) = RefillBatch \/ partial = {}
  /\ Release(t)
  /\ page' = NoPage
  /\ Finish(t)
  /\ virgin' = [virgin EXCEPT ![t] = FALSE]
  /\ UNCHANGED <<listVars, hdrVars, osVars, own, relVars>>

\* Nothing in any tier: go to the operating system, without the lock.
FillEmpty(t) ==
  /\ pc[t] = "fill"
  /\ chain[t] = <<>> /\ partial = {} /\ empty = {} /\ cold = {}
  /\ Release(t)
  /\ Goto(t, "map")
  /\ UNCHANGED <<listVars, hdrVars, osVars, binVars, mode, takeVars, own, relVars, progVars>>

\* map_heap_pages(1), then init of the page.
MapPage(t) ==
  /\ pc[t] = "map"
  /\ \E p \in Page :
       /\ mem[p] = "unmapped"
       /\ mem' = [mem EXCEPT ![p] = "committed"]
       /\ dirty' = dirty \ BlocksOf(p)
       /\ InitPage(p, {"VIRGIN"})
       /\ own' = [own EXCEPT ![t] = {p}]
  /\ Goto(t, "relock")
  /\ UNCHANGED <<lock, listVars, leaked, binVars, mode, takeVars, relVars, live, zeroed>>

\* The operating system refuses: the allocation returns null.
MapFails(t) ==
  /\ pc[t] = "map"
  /\ Return(t)
  /\ virgin' = [virgin EXCEPT ![t] = FALSE]
  /\ UNCHANGED <<lock, listVars, hdrVars, osVars, binVars, chain, page, own,
                 relVars, progVars>>

\* Link the new page at the head of the list and fill again.
Relock(t) ==
  /\ pc[t] = "relock"
  /\ Acquire(t)
  /\ \E p \in own[t] :
       /\ partial' = partial \cup {p}
       /\ page' = p
  /\ own' = [own EXCEPT ![t] = {}]
  /\ Goto(t, "refill")
  /\ UNCHANGED <<empty, cold, hdrVars, osVars, binVars, mode, chain, virgin,
                 relVars, progVars>>

-----------------------------------------------------------------------------
(* Freeing. *)

\* cache.dealloc: push, then shed if the cache is over budget.  The bytes of
\* the other classes count too, and so do foreign bytes: both are left open.
Free(t, b) ==
  /\ pc[t] = "idle"
  /\ Drop(b)
  /\ bin' = [bin EXCEPT ![t] = Append(@, b)]
  /\ \/ Len(bin[t]) + 1 <= Budget /\ Goto(t, "idle")
     \/ Goto(t, "trim")
  /\ UNCHANGED <<lock, listVars, hdrVars, osVars, watermark, mode, takeVars, own, relVars>>

\* A free with no cache to use: release_blocks of the one block.
FreeDirect(t, b) ==
  /\ pc[t] = "idle"
  /\ Drop(b)
  /\ rel' = [rel EXCEPT ![t] = {b}]
  /\ SetMode(t, "direct")
  /\ Goto(t, "release")
  /\ UNCHANGED <<lock, listVars, hdrVars, osVars, binVars, takeVars, own, groups, floor>>

\* take_one_small gives back the blocks it does not need, one at a time.
GiveBack(t) ==
  /\ pc[t] = "giveback"
  /\ IF chain[t] = <<>>
     THEN Return(t) /\ UNCHANGED <<chain, rel>>
     ELSE /\ rel' = [rel EXCEPT ![t] = {Top(chain[t])}]
          /\ chain' = [chain EXCEPT ![t] = Below(@)]
          /\ Goto(t, "release") /\ UNCHANGED mode
  /\ UNCHANGED <<lock, listVars, hdrVars, osVars, binVars, virgin, page, own,
                 groups, floor, progVars>>

\* A refill or free of another class finds the cache over its target.
Pressure(t) ==
  /\ pc[t] = "idle"
  /\ bin[t] # <<>>
  /\ Goto(t, "trim")
  /\ UNCHANGED <<lock, listVars, hdrVars, osVars, binVars, mode, takeVars, own,
                 relVars, progVars>>

\* trim: halve a bin longer than a batch while the cache is above its target,
\* which this class alone may be, and the other classes may make it.
Trim(t) ==
  LET len == Len(bin[t]) IN
  /\ pc[t] = "trim"
  /\ \/ /\ len > RefillBatch
        /\ floor' = [floor EXCEPT ![t] = len \div 2]
        /\ Goto(t, "flush") /\ UNCHANGED mode
     \/ /\ ~(len > Budget \div 2 /\ len > RefillBatch)
        /\ floor' = [floor EXCEPT ![t] = 0]
        /\ Return(t)
  /\ UNCHANGED <<lock, listVars, hdrVars, osVars, binVars, takeVars, own, rel,
                 groups, progVars>>

\* flush_all, at thread exit or on request.  A bin no longer than a chunk is
\* released by release_bin_chunks under one lock hold, a longer one by flush_bin.
FlushAll(t) ==
  /\ pc[t] = "idle"
  /\ bin[t] # <<>>
  /\ SetMode(t, IF Len(bin[t]) <= FlushChunk THEN "exit" ELSE "cache")
  /\ floor' = [floor EXCEPT ![t] = 0]
  /\ Goto(t, "flush")
  /\ UNCHANGED <<lock, listVars, hdrVars, osVars, binVars, takeVars, own, rel, groups, progVars>>

\* flush_bin's outer loop: pop a chunk off the top of the bin.
FlushChunkStep(t) ==
  LET len  == Len(bin[t])
      keep == IF len <= floor[t] + FlushChunk THEN floor[t] ELSE len - FlushChunk
  IN
  /\ pc[t] = "flush"
  /\ IF len <= floor[t]
     THEN Goto(t, "trim") /\ UNCHANGED <<binVars, rel>>
     ELSE /\ rel' = [rel EXCEPT ![t] = {bin[t][i] : i \in keep + 1 .. len}]
          /\ bin' = [bin EXCEPT ![t] = SubSeq(@, 1, keep)]
          /\ watermark' = [watermark EXCEPT ![t] = Min2(@, keep)]
          /\ Goto(t, "release")
  /\ UNCHANGED <<lock, listVars, hdrVars, osVars, mode, takeVars, own, groups, floor, progVars>>

ReleaseLock(t) ==
  /\ pc[t] = "release"
  /\ Acquire(t)
  /\ Goto(t, "splice")
  /\ UNCHANGED <<listVars, hdrVars, osVars, binVars, mode, takeVars, own, relVars, progVars>>

\* park_empty_page: empty list, cold array (purged under the lock), or, with
\* both full, off every list for the caller to unmap.
Park(t, p) ==
  /\ partial' = partial \ {p}
  /\ \/ /\ Cardinality(empty) < EmptyPageCache
        /\ empty' = empty \cup {p}
        /\ UNCHANGED <<cold, own, mem, dirty>>
     \/ /\ Cardinality(empty) >= EmptyPageCache
        /\ Cardinality(cold) < ColdPageSlots
        /\ \E d \in DiscardOutcomes :
             /\ cold' = cold \cup {[page |-> p, decommitted |-> d.physical, zeroed |-> d.zeroed]}
             /\ mem' = IF d.physical THEN [mem EXCEPT ![p] = "dropped"] ELSE mem
             /\ dirty' = IF d.zeroed THEN dirty \ BlocksOf(p)
                         ELSE IF d.physical THEN dirty \cup BlocksOf(p) ELSE dirty
        /\ UNCHANGED <<empty, own>>
     \/ /\ Cardinality(empty) >= EmptyPageCache
        /\ Cardinality(cold) >= ColdPageSlots
        /\ own' = [own EXCEPT ![t] = @ \cup {p}]
        /\ UNCHANGED <<empty, cold, mem, dirty>>

\* Mutants of ReleaseInner: the page is parked with one block still out; a
\* full page is not linked again.
ReleaseInnerEarlyPark(t, p, idx) ==
  /\ used' = [used EXCEPT ![p] = @ - Cardinality(idx)]
  /\ free' = [free EXCEPT ![p] = @ \cup idx]
  /\ flags' = [flags EXCEPT ![p] = @ \ {"VIRGIN"}]
  /\ IF used[p] <= Cardinality(idx) + 1
     THEN Park(t, p)
     ELSE /\ partial' = partial \cup {p}
          /\ UNCHANGED <<empty, cold, own, mem, dirty>>
ReleaseInnerNoLink(t, p, idx) ==
  /\ used' = [used EXCEPT ![p] = @ - Cardinality(idx)]
  /\ free' = [free EXCEPT ![p] = @ \cup idx]
  /\ flags' = [flags EXCEPT ![p] = @ \ {"VIRGIN"}]
  /\ IF used[p] = Cardinality(idx)
     THEN Park(t, p)
     ELSE UNCHANGED <<partial, empty, cold, own, mem, dirty>>

\* release_inner: splice a group of blocks onto their page's free list.
ReleaseInner(t, p, idx) ==
  /\ used' = [used EXCEPT ![p] = @ - Cardinality(idx)]
  /\ free' = [free EXCEPT ![p] = @ \cup idx]
  /\ flags' = [flags EXCEPT ![p] = @ \ {"VIRGIN"}]
  /\ IF used[p] = Cardinality(idx)
     THEN Park(t, p)
     ELSE /\ partial' = partial \cup {p}
          /\ UNCHANGED <<empty, cold, own, mem, dirty>>

\* Mutant of RetirePage: the old free list survives.
RetirePageKeepsFree(t, p) ==
  /\ used' = [used EXCEPT ![p] = 0]
  /\ flags' = [flags EXCEPT ![p] = (@ \ {"VIRGIN"}) \cup {"NEEDS_REINIT"}]
  /\ Park(t, p)
  /\ UNCHANGED free

\* retire_page_inner: the group is every block the page has out, so its
\* links are not worth splicing; the page is carved anew when it is reused.
RetirePage(t, p) ==
  /\ used' = [used EXCEPT ![p] = 0]
  /\ free' = [free EXCEPT ![p] = {}]
  /\ flags' = [flags EXCEPT ![p] = (@ \ {"VIRGIN"}) \cup {"NEEDS_REINIT"}]
  /\ Park(t, p)

\* The page's blocks among those being released.
Group(t, p) == {i \in Index : <<p, i>> \in rel[t]}

\* Mutant of Retires: any group retires its page.
RetiresAlways(t, p) == mode[t] # "direct"

\* release_many and release_bin_chunks retire a page when the group is all it
\* has out; release_blocks always splices.
Retires(t, p) == mode[t] # "direct" /\ Cardinality(Group(t, p)) = used[p]

\* One page's group of blocks, under the lock.
ReleaseGroup(t) ==
  /\ pc[t] = "splice" /\ lock = t
  /\ groups[t] < GroupBatch \/ mode[t] = "exit"
  /\ \E p \in Page :
       /\ Group(t, p) # {}
       /\ rel' = [rel EXCEPT ![t] = @ \ BlocksOf(p)]
       /\ IF Retires(t, p) THEN RetirePage(t, p) ELSE ReleaseInner(t, p, Group(t, p))
  /\ groups' = [groups EXCEPT ![t] = Min2(@ + 1, GroupBatch)]
  /\ UNCHANGED <<lock, leaked, binVars, pc, mode, takeVars, floor, live, zeroed>>

ReleaseUnlock(t) ==
  /\ pc[t] = "splice"
  /\ rel[t] = {} \/ (groups[t] = GroupBatch /\ mode[t] # "exit")
  /\ Release(t)
  /\ Goto(t, "fates")
  /\ groups' = [groups EXCEPT ![t] = 0]
  /\ UNCHANGED <<listVars, hdrVars, osVars, binVars, mode, takeVars, own, rel, floor, progVars>>

\* act_page_fate: unmap a page that went over the caps.  A failed munmap
\* leaves the page mapped with no one to know of it.
UnmapPage(t) ==
  /\ pc[t] = "fates"
  /\ \E p \in own[t] :
       /\ own' = [own EXCEPT ![t] = @ \ {p}]
       /\ \/ mem' = [mem EXCEPT ![p] = "unmapped"] /\ UNCHANGED leaked
          \/ leaked' = leaked \cup {p} /\ UNCHANGED mem
  /\ UNCHANGED <<lock, listVars, hdrVars, binVars, pc, mode, takeVars, relVars, progVars>>

\* All fates acted on: next batch, next block, or back to the flush loop.
FatesDone(t) ==
  /\ pc[t] = "fates"
  /\ own[t] = {}
  /\ Goto(t, IF rel[t] # {} THEN "release"
             ELSE IF mode[t] = "direct" THEN "giveback" ELSE "flush")
  /\ UNCHANGED <<lock, listVars, hdrVars, osVars, binVars, mode, takeVars, own,
                 relVars, progVars>>

-----------------------------------------------------------------------------
\* Steps inside an operation already begun.
Continue(t) ==
  \/ FillBlock(t) \/ TakeEmpty(t) \/ TakeCold(t) \/ FillDone(t) \/ FillEmpty(t)
  \/ MapPage(t) \/ MapFails(t) \/ Relock(t)
  \/ GiveBack(t) \/ Trim(t) \/ FlushChunkStep(t)
  \/ ReleaseLock(t) \/ ReleaseGroup(t) \/ ReleaseUnlock(t)
  \/ UnmapPage(t) \/ FatesDone(t)

\* The program calls into the allocator.
Call(t) ==
  \/ AllocHit(t) \/ BeginTake(t) \/ FlushAll(t) \/ Pressure(t)
  \/ \E b \in Block : Free(t, b) \/ FreeDirect(t, b)

Next ==
  \E t \in Thread :
    \/ Call(t) \/ Continue(t)
    \/ \E u \in Thread : Adopt(t, u)

Spec == Init /\ [][Next]_vars

\* A thread that is inside the allocator keeps running.
Fairness == \A t \in Thread : WF_vars(Continue(t))
FairSpec == Spec /\ Fairness

-----------------------------------------------------------------------------
(* Where blocks are. *)

SeqBlocks(s) == {s[i] : i \in 1 .. Len(s)}
CachedBy(t) == SeqBlocks(bin[t]) \cup SeqBlocks(chain[t]) \cup rel[t]
Outside == live \cup UNION {CachedBy(t) : t \in Thread}
Out(p) == {i \in Index : <<p, i>> \in Outside}
ColdPages == {e.page : e \in cold}
OwnPages == UNION {own[t] : t \in Thread}

TypeOK ==
  /\ lock \in Thread \cup {NoThread}
  /\ partial \in SUBSET Page /\ empty \in SUBSET Page /\ cold \in SUBSET ColdEntry
  /\ used \in [Page -> Nat]
  /\ free \in [Page -> SUBSET Index]
  /\ flags \in [Page -> SUBSET PageFlags]
  /\ mem \in [Page -> {"unmapped", "committed", "dropped"}]
  /\ leaked \in SUBSET Page
  /\ bin \in [Thread -> Seq(Block)]
  /\ watermark \in [Thread -> Nat]
  /\ pc \in [Thread -> PcLabels]
  /\ mode \in [Thread -> {"cache", "direct", "exit"}]
  /\ chain \in [Thread -> Seq(Block)]
  /\ virgin \in [Thread -> BOOLEAN]
  /\ page \in Page \cup {NoPage}
  /\ own \in [Thread -> SUBSET Page]
  /\ rel \in [Thread -> SUBSET Block]
  /\ groups \in [Thread -> 0 .. GroupBatch]
  /\ floor \in [Thread -> Nat]
  /\ live \in SUBSET Block /\ dirty \in SUBSET Block /\ zeroed \in SUBSET Block

\* A block is in one place only: a bin or a chain holds it once, no two
\* threads hold it, and nobody holds it while the program does.  (pop_block
\* and push_block never put one block in two hands.)
Distinct(s) == \A i, j \in 1 .. Len(s) : s[i] = s[j] => i = j
ThreadExclusive(t) ==
  /\ Distinct(bin[t]) /\ Distinct(chain[t])
  /\ SeqBlocks(bin[t]) \cap SeqBlocks(chain[t]) = {}
  /\ (SeqBlocks(bin[t]) \cup SeqBlocks(chain[t])) \cap rel[t] = {}
Exclusive ==
  /\ \A t \in Thread : ThreadExclusive(t) /\ CachedBy(t) \cap live = {}
  /\ \A t, u \in Thread : t # u => CachedBy(t) \cap CachedBy(u) = {}

\* PageHeader.used counts exactly the blocks outside the page's free list.
UsedExact == \A p \in Page : used[p] = Cardinality(Out(p))

\* The free list of a readable page shares no block with anyone, and the
\* blocks carved so far are a prefix of the page: retire_page_inner may forget
\* the free list, and provision may carve at used + free_count.
Carved(p) ==
  /\ free[p] \cap Out(p) = {}
  /\ free[p] \cup Out(p) = 0 .. used[p] + Cardinality(free[p]) - 1
FreeListExact == \A p \in Page : mem[p] = "committed" => Carved(p)

\* A page with a block outside is mapped, readable, and not in the empty list,
\* the cold array or on its way to being unmapped.
Parked == empty \cup ColdPages \cup OwnPages \cup leaked
Pinned == \A p \in Page : Out(p) # {} => mem[p] = "committed" /\ p \notin Parked

\* No page is lost: every mapped page with room is on the list that will use
\* it, so a page is never stranded with free blocks nobody can reach.
NoPageLost ==
  \A p \in Page : mem[p] # "unmapped" =>
    \/ p \in partial /\ used[p] < Capacity
    \/ p \notin partial /\ used[p] = Capacity
    \/ p \in Parked

\* A block from calloc reads as zero until it is written (the virgin flag, the
\* watermark of a bin and a cold page's `zeroed` never claim too much).
CallocReadsZero == zeroed \cap dirty = {}

\* Implements the contract: no purge, unmap or hand-out changes a live block.
ImplementsContract == Contract!CSpec

\* The class lock is always released: fill_from_list and the release loops
\* terminate, whatever the state of the lists.
LockReleased == (lock # NoThread) ~> (lock = NoThread)

-----------------------------------------------------------------------------
(***************************************************************************)
(* The inductive invariant behind Exclusive, UsedExact, FreeListExact,     *)
(* Pinned and NoPageLost: who holds the lock, which locals are in use      *)
(* where, and on which list each page is.                                  *)
(***************************************************************************)
LockInv == \A t \in Thread : lock = t <=> pc[t] \in {"fill", "refill", "splice"}

LocalsOf(t) ==
  /\ chain[t] # <<>> => pc[t] \in {"fill", "refill", "giveback", "release", "splice", "fates"}
  /\ chain[t] # <<>> /\ pc[t] \in {"giveback", "release", "splice", "fates"} => mode[t] = "direct"
  /\ pc[t] \in {"fill", "map", "relock", "refill"} =>
       mode[t] = "direct" \/ (mode[t] = "cache" /\ bin[t] = <<>>)
  /\ rel[t] # {} => pc[t] \in {"release", "splice", "fates"}
  /\ own[t] # {} => pc[t] \in {"relock", "splice", "fates"}
  /\ pc[t] = "relock" => \E p \in Page : own[t] = {p}
LocalsInv == \A t \in Thread : LocalsOf(t)

HeadInv == page # NoPage =>
             page \in partial /\ \E t \in Thread : lock = t /\ pc[t] \in {"fill", "refill"}

\* Every page is on at most one list, and the lists agree with the system.
ListsInv ==
  /\ partial \cap Parked = {}
  /\ empty \cap (ColdPages \cup OwnPages \cup leaked) = {}
  /\ ColdPages \cap (OwnPages \cup leaked) = {}
  /\ OwnPages \cap leaked = {}
  /\ \A t, u \in Thread : t # u => own[t] \cap own[u] = {}
  /\ \A e, f \in cold : e.page = f.page => e = f
  /\ \A p \in partial \cup empty \cup OwnPages \cup leaked : mem[p] = "committed"
  /\ \A e \in cold : mem[e.page] = IF e.decommitted THEN "dropped" ELSE "committed"
  /\ \A p \in Page : mem[p] = "dropped" => p \in ColdPages

\* A page in use is on the partial list while it has room.
InUseInv ==
  /\ \A p \in partial : used[p] < Capacity
  /\ \A p \in Page : used[p] > 0 =>
       mem[p] = "committed" /\ p \notin Parked /\ (used[p] < Capacity => p \in partial)
  /\ \A p \in Page : used[p] = 0 /\ mem[p] # "unmapped" => p \in partial \cup Parked

SafetyInv ==
  /\ TypeOK /\ LockInv /\ LocalsInv /\ HeadInv /\ ListsInv /\ InUseInv
  /\ Exclusive /\ UsedExact /\ FreeListExact

\* The invariant behind CallocReadsZero and ImplementsContract: who may claim
\* that a block reads as zero.  The blocks below a bin's watermark, a chain taken
\* from virgin pages only, what has never been out of a virgin page, and a cold
\* page that was purged to zeros.
CleanBin(t) ==
  /\ watermark[t] <= Len(bin[t])
  /\ \A i \in 1 .. watermark[t] : bin[t][i] \notin dirty
CleanChain(t) == virgin[t] => SeqBlocks(chain[t]) \cap dirty = {}
CleanPage(p) == "VIRGIN" \in flags[p] => \A i \in Index \ Out(p) : <<p, i>> \notin dirty
CleanCold == \A e \in cold : e.zeroed => BlocksOf(e.page) \cap dirty = {}
ZeroInv ==
  /\ \A t \in Thread : CleanBin(t) /\ CleanChain(t)
  /\ \A p \in Page : CleanPage(p)
  /\ CleanCold
  /\ zeroed \subseteq live /\ CallocReadsZero

=============================================================================
