------------------------------ MODULE SpanHeap ------------------------------
(***************************************************************************)
(* One class of the medium or of the big tier: the span lists of the       *)
(* class in the global heap (heap.rs), the masters of its spans (page.rs), *)
(* and in each thread's cache (cache.rs) the class' bin and its active     *)
(* span, a second chain whose blocks all come from one span.               *)
(*                                                                         *)
(* A span is named by its base address.  Its master occupies the base and  *)
(* its blocks the addresses after it, one unit each; spans mapped one      *)
(* after the other may overlap in different ways.  The loops that pop,     *)
(* group and splice blocks take one step per block or per group; the ones  *)
(* that need the class lock hold it from the first step to the last.       *)
(***************************************************************************)
EXTENDS Integers, Sequences, FiniteSets, SequencesExt

CONSTANTS
  Thread,       \* threads using the allocator
  Base,         \* addresses at which a span of the class can be mapped
  SpanLen,      \* length of a span, master included
  Tier,         \* "medium" or "big"
  RefillBatch,  \* medium_refill_batch, BIG_REFILL_BATCH
  EmptyCap,     \* EMPTY_SPAN_CACHE_PER_CLASS (the byte cap is the same bound)
  ColdCap,      \* MAX_COLD_SPAN_SLOTS (likewise)
  FlushChunk,   \* MFLUSH_CHUNK, BFLUSH_CHUNK
  Requests,     \* what the program asks for: "malloc", "calloc"
  NoSpan, NoThread

ASSUME SpanHeapAssumption ==
  /\ Base \subseteq Nat /\ NoSpan \notin Base /\ NoThread \notin Thread
  /\ SpanLen \in Nat /\ SpanLen > 1
  /\ Tier \in {"medium", "big"}
  /\ RefillBatch \in Nat \ {0} /\ FlushChunk \in Nat \ {0}
  /\ EmptyCap \in Nat /\ ColdCap \in Nat
  /\ Requests \subseteq {"malloc", "calloc"}

Extent(b) == b .. b + SpanLen - 1
BlocksOf(b) == b + 1 .. b + SpanLen - 1
Addr == UNION {Extent(b) : b \in Base}

VARIABLES
  lock,    \* the class lock: its holder
  \* The class' span lists: head first; cold is an array used as a stack.
  partial, empty, cold,
  \* Span masters: blocks out, free list (head first), FLAG_VIRGIN.
  used, free, pristine,
  \* Spans the system holds mapped, and those whose unmap failed.
  mapped, leaked,
  \* Thread caches: active span, bin (bottom first) and its virgin watermark.
  active, bin, watermark,
  \* Locals of the operation a thread is in the middle of.
  pc, mode,
  chain,   \* take_blocks: blocks taken and not yet served, cached or given back
  virgin,  \* take_blocks: every block of the chain is from a virgin span
  own,     \* spans on no list that only this thread knows of
  rel,     \* groups of blocks popped and not yet released
  popped,  \* flush_mbin: blocks popped for this chunk
  floor,   \* flush_mbin: the length to shrink the bin to
  \* The program.
  live, dirty, zeroed

listVars  == <<partial, empty, cold>>
spanVars  == <<used, free, pristine>>
osVars    == <<mapped, leaked>>
cacheVars == <<active, bin, watermark>>
takeVars  == <<chain, virgin>>
flushVars == <<popped, floor>>
localVars == <<pc, mode, takeVars, own, rel, flushVars>>
progVars  == <<live, dirty, zeroed>>
vars == <<lock, listVars, spanVars, osVars, cacheVars, localVars, progVars>>

Contract == INSTANCE AllocContract WITH Block <- Addr

PcLabels == {"idle", "fill", "map", "link", "giveback", "trim", "flush", "release",
             "splice", "fates"}
NoActive == [span |-> NoSpan, chain |-> <<>>, virgin |-> 0]
Min2(a, b) == IF a <= b THEN a ELSE b

Init ==
  /\ lock = NoThread
  /\ partial = <<>> /\ empty = <<>> /\ cold = <<>>
  /\ used = [b \in Base |-> 0] /\ free = [b \in Base |-> <<>>] /\ pristine = {}
  /\ mapped = {} /\ leaked = {}
  /\ active = [t \in Thread |-> NoActive]
  /\ bin = [t \in Thread |-> <<>>] /\ watermark = [t \in Thread |-> 0]
  /\ pc = [t \in Thread |-> "idle"] /\ mode = [t \in Thread |-> "cache"]
  /\ chain = [t \in Thread |-> <<>>] /\ virgin = [t \in Thread |-> FALSE]
  /\ own = [t \in Thread |-> {}] /\ rel = [t \in Thread |-> <<>>]
  /\ popped = [t \in Thread |-> 0] /\ floor = [t \in Thread |-> 0]
  /\ live = {} /\ dirty = {} /\ zeroed = {}

Goto(t, label) == pc' = [pc EXCEPT ![t] = label]
SetMode(t, m) == mode' = [mode EXCEPT ![t] = m]
Return(t) == Goto(t, "idle") /\ SetMode(t, "cache")
Acquire(t) == lock = NoThread /\ lock' = t
Release(t) == lock = t /\ lock' = NoThread
\* Where a release returns to, with the groups r still to be released.
Resume(t, r) ==
  IF mode[t] = "direct" /\ r = <<>> /\ chain[t] = <<>>
  THEN Return(t)
  ELSE /\ Goto(t, IF r # <<>> THEN "release" ELSE IF mode[t] = "direct" THEN "giveback" ELSE "flush")
       /\ UNCHANGED mode

\* SpanMaster::of, big_table_get: the mapped span an address lies in.
Of(a) == CHOOSE b \in mapped : a \in Extent(b)

\* SpanMaster::init carves upwards and pushes, so the list runs downwards.
Carved(b) == [i \in 1 .. SpanLen - 1 |-> b + SpanLen - i]

-----------------------------------------------------------------------------
(* What the program does with an answer, as in SmallHeap. *)

Serve(a, claim) ==
  /\ live' = live \cup {a}
  /\ \/ "malloc" \in Requests /\ dirty' = dirty \cup {a} /\ UNCHANGED zeroed
     \/ /\ "calloc" \in Requests
        /\ zeroed' = zeroed \cup {a}
        /\ dirty' = IF claim THEN dirty ELSE dirty \ {a}

Drop(a) ==
  /\ a \in live
  /\ live' = live \ {a}
  /\ zeroed' = zeroed \ {a}
  /\ dirty' = dirty \cup {a}

-----------------------------------------------------------------------------
(* Allocation. *)

\* Mutant of AllocActive: the virgin count is not lowered with the chain.
AllocActiveStaleVirgin(t) ==
  LET a == active[t] IN
  /\ pc[t] = "idle" /\ a.chain # <<>>
  /\ Serve(Last(a.chain), Len(a.chain) - 1 < a.virgin)
  /\ active' = [active EXCEPT ![t].chain = Front(@)]
  /\ UNCHANGED <<lock, listVars, spanVars, osVars, bin, watermark, localVars>>

\* active_medium_alloc, active_big_alloc with a block in the chain.
AllocActive(t) ==
  LET a == active[t] IN
  /\ pc[t] = "idle" /\ a.chain # <<>>
  /\ Serve(Last(a.chain), Len(a.chain) - 1 < a.virgin)
  /\ active' = [active EXCEPT ![t].chain = Front(@), ![t].virgin = Min2(@, Len(a.chain) - 1)]
  /\ UNCHANGED <<lock, listVars, spanVars, osVars, bin, watermark, localVars>>

\* An active span with no blocks left: the big tier forgets it at once, the
\* medium tier keeps its address range.
Exhausted(a) == IF Tier = "big" THEN NoActive ELSE a

\* alloc_medium, alloc_big: the active chain is empty, the bin is not.
AllocBin(t) ==
  /\ pc[t] = "idle" /\ active[t].chain = <<>> /\ bin[t] # <<>>
  /\ Serve(Last(bin[t]), Len(bin[t]) - 1 < watermark[t])
  /\ active' = [active EXCEPT ![t] = Exhausted(@)]
  /\ bin' = [bin EXCEPT ![t] = Front(@)]
  /\ watermark' = [watermark EXCEPT ![t] = Min2(@, Len(bin[t]) - 1)]
  /\ UNCHANGED <<lock, listVars, spanVars, osVars, localVars>>

\* take_blocks is called: by a refill of an empty cache, or with no cache to use.
BeginTake(t, m) ==
  /\ pc[t] = "idle"
  /\ m = "cache" => active[t].chain = <<>> /\ bin[t] = <<>>
  /\ active' = IF m = "cache" THEN [active EXCEPT ![t] = Exhausted(@)] ELSE active
  /\ virgin' = [virgin EXCEPT ![t] = TRUE]
  /\ SetMode(t, m)
  /\ UNCHANGED <<osVars, bin, watermark, chain, own, rel, flushVars, progVars>>

\* The span take_blocks fills from, under the lock: the partial list has one, or
\* a cached empty span is linked, or a cold one, recommitted and carved anew.
TakePartial == partial # <<>> /\ UNCHANGED <<listVars, spanVars>>

TakeEmpty ==
  /\ partial = <<>> /\ empty # <<>>
  /\ empty' = Tail(empty)
  /\ partial' = <<Head(empty)>>
  /\ UNCHANGED <<cold, spanVars>>

TakeCold ==
  LET b == Last(cold) IN
  /\ partial = <<>> /\ empty = <<>> /\ cold # <<>>
  /\ cold' = Front(cold)
  /\ partial' = <<b>>
  /\ free' = [free EXCEPT ![b] = Carved(b)]
  /\ used' = [used EXCEPT ![b] = 0]
  /\ pristine' = pristine \ {b}
  /\ UNCHANGED empty

Take(t, m) ==
  /\ BeginTake(t, m)
  /\ Acquire(t)
  /\ TakePartial \/ TakeEmpty \/ TakeCold
  /\ Goto(t, "fill")

\* No span in any list: the lock is dropped to map one.
TakeNothing(t, m) ==
  /\ BeginTake(t, m)
  /\ lock = NoThread
  /\ partial = <<>> /\ empty = <<>> /\ cold = <<>>
  /\ Goto(t, "map")
  /\ UNCHANGED <<lock, listVars, spanVars>>

\* map_heap_pages or arena::commit, then init.
MapSpan(t) ==
  /\ pc[t] = "map"
  /\ \E b \in Base :
       /\ \A c \in mapped : Extent(b) \cap Extent(c) = {}
       /\ mapped' = mapped \cup {b}
       /\ dirty' = dirty \ Extent(b)
       /\ free' = [free EXCEPT ![b] = Carved(b)]
       /\ used' = [used EXCEPT ![b] = 0]
       /\ pristine' = pristine \cup {b}
       /\ own' = [own EXCEPT ![t] = {b}]
  /\ Goto(t, "link")
  /\ UNCHANGED <<lock, listVars, leaked, cacheVars, mode, takeVars, rel, flushVars, live, zeroed>>

\* The operating system refuses: the allocation returns null.
MapFails(t) ==
  /\ pc[t] = "map"
  /\ virgin' = [virgin EXCEPT ![t] = FALSE]
  /\ Return(t)
  /\ UNCHANGED <<lock, listVars, spanVars, osVars, cacheVars, chain, own, rel, flushVars, progVars>>

\* Mutant of LinkSpan: the list is taken to be as empty as it was.
LinkSpanAlone(t) ==
  /\ pc[t] = "link"
  /\ Acquire(t)
  /\ \E b \in own[t] : partial' = <<b>>
  /\ own' = [own EXCEPT ![t] = {}]
  /\ Goto(t, "fill")
  /\ UNCHANGED <<empty, cold, spanVars, osVars, cacheVars, mode, takeVars, rel, flushVars, progVars>>

\* Locked again: link the span at the head of what the list is now.
LinkSpan(t) ==
  /\ pc[t] = "link"
  /\ Acquire(t)
  /\ \E b \in own[t] : partial' = <<b>> \o partial
  /\ own' = [own EXCEPT ![t] = {}]
  /\ Goto(t, "fill")
  /\ UNCHANGED <<empty, cold, spanVars, osVars, cacheVars, mode, takeVars, rel, flushVars, progVars>>

\* mfill_from_list: pop a block of the first span on the list; a span that runs
\* dry leaves the list.  (A dry span on the list would be unlinked: NoSpanLost
\* says there is none.)
FillBlock(t) ==
  LET b == Head(partial) IN
  /\ pc[t] = "fill"
  /\ Len(chain[t]) < RefillBatch /\ partial # <<>>
  /\ chain' = [chain EXCEPT ![t] = Append(@, Head(free[b]))]
  /\ virgin' = [virgin EXCEPT ![t] = @ /\ b \in pristine]
  /\ free' = [free EXCEPT ![b] = Tail(@)]
  /\ used' = [used EXCEPT ![b] = @ + 1]
  /\ partial' = IF Len(free[b]) = 1 THEN Tail(partial) ELSE partial
  /\ UNCHANGED <<lock, empty, cold, pristine, osVars, cacheVars, pc, mode, own, rel,
                 flushVars, progVars>>

\* mrefill, bigrefill and take_one_* with the chain take_blocks returned: the
\* block on top is the answer.  The rest becomes the active chain when all of the
\* chain is from one span, the bin when it is not, and without a cache is given
\* back.
Finish(t) ==
  LET c == chain[t]
      span == Of(Last(c))
      single == \A i \in DOMAIN c : Of(c[i]) = span
      claimed == IF virgin[t] THEN Len(c) - 1 ELSE 0
  IN
  /\ Serve(Last(c), virgin[t])
  /\ \/ /\ mode[t] = "direct"
        /\ chain' = [chain EXCEPT ![t] = Front(c)]
        /\ IF Len(c) = 1 THEN Return(t) ELSE Goto(t, "giveback") /\ UNCHANGED mode
        /\ UNCHANGED cacheVars
     \/ /\ mode[t] = "cache" /\ single
        /\ active' = [active EXCEPT ![t] = [span |-> span, chain |-> Front(c), virgin |-> claimed]]
        /\ watermark' = [watermark EXCEPT ![t] = 0]
        /\ chain' = [chain EXCEPT ![t] = <<>>]
        /\ Return(t) /\ UNCHANGED bin
     \/ /\ mode[t] = "cache" /\ ~single
        /\ bin' = [bin EXCEPT ![t] = Front(c)]
        /\ watermark' = [watermark EXCEPT ![t] = claimed]
        /\ chain' = [chain EXCEPT ![t] = <<>>]
        /\ Return(t) /\ UNCHANGED active

\* take_blocks returns.
FillDone(t) ==
  /\ pc[t] = "fill"
  /\ Len(chain[t]) = RefillBatch \/ partial = <<>>
  /\ Release(t)
  /\ Finish(t)
  /\ virgin' = [virgin EXCEPT ![t] = FALSE]
  /\ UNCHANGED <<listVars, spanVars, osVars, own, rel, flushVars>>

\* A whole retired cache is adopted by a thread with nothing cached; t's refill
\* then goes on.  u idle stands for the parked cache, as in SmallHeap.  (Medium
\* and big bins are not stolen one by one: FlushAll(u) is the other outcome.)
Adopt(t, u) ==
  /\ t # u /\ pc[t] = "idle" /\ pc[u] = "idle"
  /\ active[t].chain = <<>> /\ bin[t] = <<>>
  /\ active[u].chain # <<>> \/ bin[u] # <<>>
  /\ active' = [active EXCEPT ![t] = active[u], ![u] = NoActive]
  /\ bin' = [bin EXCEPT ![t] = bin[u], ![u] = <<>>]
  /\ watermark' = [watermark EXCEPT ![t] = watermark[u], ![u] = 0]
  /\ UNCHANGED <<lock, listVars, spanVars, osVars, localVars, progVars>>

-----------------------------------------------------------------------------
(* Freeing. *)

\* Mutant of ActiveContains: the address range decides in both tiers.
ActiveContainsRange(t, a) == active[t].span # NoSpan /\ a \in Extent(active[t].span)

\* active_medium_contains looks at the address range, active_big_contains at
\* the span as well.
ActiveContains(t, a) ==
  LET s == active[t].span IN
  /\ s # NoSpan /\ a \in Extent(s)
  /\ Tier = "big" => s = Of(a)

\* dealloc_medium, dealloc_big.  Whether the cache is then over its budget
\* depends on the other classes.
Free(t, a) ==
  /\ pc[t] = "idle"
  /\ Drop(a)
  /\ IF ActiveContains(t, a)
     THEN active' = [active EXCEPT ![t].chain = Append(@, a)] /\ UNCHANGED bin
     ELSE bin' = [bin EXCEPT ![t] = Append(@, a)] /\ UNCHANGED active
  /\ Goto(t, "idle") \/ Goto(t, "trim")
  /\ UNCHANGED <<lock, listVars, spanVars, osVars, watermark, mode, takeVars, own, rel, flushVars>>

\* A free with no cache to use.
FreeDirect(t, a) ==
  /\ pc[t] = "idle"
  /\ Drop(a)
  /\ rel' = [rel EXCEPT ![t] = <<[span |-> Of(a), blocks |-> <<a>>]>>]
  /\ Goto(t, "release") /\ SetMode(t, "direct")
  /\ UNCHANGED <<lock, listVars, spanVars, osVars, cacheVars, takeVars, own, flushVars>>

\* take_one_medium, take_one_big: the surplus goes back block by block.
GiveBack(t) ==
  /\ pc[t] = "giveback"
  /\ rel' = [rel EXCEPT ![t] = <<[span |-> Of(Last(chain[t])), blocks |-> <<Last(chain[t])>>]>>]
  /\ chain' = [chain EXCEPT ![t] = Front(@)]
  /\ Goto(t, "release")
  /\ UNCHANGED <<lock, listVars, spanVars, osVars, cacheVars, mode, virgin, own, flushVars, progVars>>

\* A refill or a free of another class finds the cache over its target.
Pressure(t) ==
  /\ pc[t] = "idle"
  /\ active[t].chain # <<>> \/ bin[t] # <<>>
  /\ Goto(t, "trim")
  /\ UNCHANGED <<lock, listVars, spanVars, osVars, cacheVars, mode, takeVars, own, rel, flushVars,
                 progVars>>

\* Mutant of FlushActive: the chain is released and kept.
FlushActiveKeeps(t) ==
  /\ active[t].chain # <<>>
  /\ rel' = [rel EXCEPT ![t] =
       <<[span |-> active[t].span, blocks |-> Reverse(active[t].chain)]>>]
  /\ Goto(t, "release") /\ UNCHANGED active

\* flush_active_medium, flush_active_big: the whole chain goes to the span that
\* was active.
FlushActive(t) ==
  /\ active[t].chain # <<>>
  /\ rel' = [rel EXCEPT ![t] =
       <<[span |-> active[t].span, blocks |-> Reverse(active[t].chain)]>>]
  /\ active' = [active EXCEPT ![t] = NoActive]
  /\ Goto(t, "release")

\* trim: the active chain first, then half of the bin, until the cache is under
\* its target.
Trim(t) ==
  /\ pc[t] = "trim"
  /\ \/ /\ FlushActive(t)
        /\ floor' = [floor EXCEPT ![t] = Len(bin[t])] /\ UNCHANGED mode
     \/ /\ active[t].chain = <<>> /\ bin[t] # <<>>
        /\ floor' = [floor EXCEPT ![t] = Len(bin[t]) \div 2]
        /\ Goto(t, "flush") /\ UNCHANGED <<mode, active, rel>>
     \/ Return(t) /\ floor' = [floor EXCEPT ![t] = 0] /\ UNCHANGED <<active, rel>>
  /\ UNCHANGED <<lock, listVars, spanVars, osVars, bin, watermark, takeVars, own, popped, progVars>>

\* flush_all, at exit, on request, or of an adopted cache.
FlushAll(t) ==
  /\ pc[t] = "idle"
  /\ active[t] # NoActive \/ bin[t] # <<>>
  /\ SetMode(t, "exit") /\ floor' = [floor EXCEPT ![t] = 0]
  /\ \/ FlushActive(t)
     \/ active[t].chain = <<>> /\ Goto(t, "flush") /\ UNCHANGED <<active, rel>>
  /\ UNCHANGED <<lock, listVars, spanVars, osVars, bin, watermark, takeVars, own, popped, progVars>>

\* Mutant of Grouped: every block after the first goes to the first group.
GroupedFirst(g, a) ==
  IF g # <<>>
  THEN [i \in DOMAIN g |-> IF i = 1 THEN [g[i] EXCEPT !.blocks = Append(@, a)] ELSE g[i]]
  ELSE <<[span |-> Of(a), blocks |-> <<a>>]>>

\* The block a added to the group of its master, or to a group of its own.
Grouped(g, a) ==
  IF \E i \in DOMAIN g : g[i].span = Of(a)
  THEN [i \in DOMAIN g |-> IF g[i].span = Of(a) THEN [g[i] EXCEPT !.blocks = Append(@, a)] ELSE g[i]]
  ELSE Append(g, [span |-> Of(a), blocks |-> <<a>>])

\* flush_mbin, flush_bbin: pop a block; after the last one of a chunk, release.
FlushPop(t) ==
  LET below == Len(bin[t]) - 1
      more == below > floor[t] /\ popped[t] + 1 < FlushChunk
  IN
  /\ pc[t] = "flush" /\ Len(bin[t]) > floor[t]
  /\ rel' = [rel EXCEPT ![t] = Grouped(@, Last(bin[t]))]
  /\ bin' = [bin EXCEPT ![t] = Front(@)]
  /\ watermark' = [watermark EXCEPT ![t] = Min2(@, below)]
  /\ popped' = [popped EXCEPT ![t] = IF more THEN @ + 1 ELSE 0]
  /\ Goto(t, IF more THEN "flush" ELSE "release")
  /\ UNCHANGED <<lock, listVars, spanVars, osVars, active, mode, takeVars, own, floor, progVars>>

\* The bin is down to its floor: on with trim, or the cache is empty.
FlushDone(t) ==
  /\ pc[t] = "flush" /\ Len(bin[t]) <= floor[t]
  /\ \/ /\ mode[t] = "cache"
        /\ floor' = [floor EXCEPT ![t] = 0]
        /\ Goto(t, "trim") /\ UNCHANGED <<active, watermark, mode>>
     \/ /\ mode[t] = "exit"
        /\ active' = [active EXCEPT ![t] = NoActive]
        /\ watermark' = [watermark EXCEPT ![t] = 0]
        /\ Return(t) /\ UNCHANGED floor
  /\ UNCHANGED <<lock, listVars, spanVars, osVars, bin, takeVars, own, rel, popped, progVars>>

\* munlink_partial, if the span is linked.
Unlinked(b) ==
  IF Contains(partial, b)
  THEN RemoveAt(partial, CHOOSE i \in DOMAIN partial : partial[i] = b)
  ELSE partial

\* The span b has no block out, and f is its free list: it is cached, or purged
\* and parked cold (the purge may do nothing), or left to the caller to unmap.
Park(t, b, f) ==
  /\ partial' = Unlinked(b)
  /\ \/ /\ Len(empty) < EmptyCap
        /\ empty' = <<b>> \o empty
        /\ free' = [free EXCEPT ![b] = f]
        /\ UNCHANGED <<cold, own, dirty>>
     \/ /\ Len(empty) >= EmptyCap /\ Len(cold) < ColdCap
        /\ cold' = Append(cold, b)
        /\ free' = [free EXCEPT ![b] = <<>>]
        /\ dirty' = dirty \ Extent(b) \/ UNCHANGED dirty
        /\ UNCHANGED <<empty, own>>
     \/ /\ Len(empty) >= EmptyCap /\ Len(cold) >= ColdCap
        /\ own' = [own EXCEPT ![t] = @ \cup {b}]
        /\ free' = [free EXCEPT ![b] = f]
        /\ UNCHANGED <<empty, cold, dirty>>

\* mrelease_inner, brelease_inner: the blocks s go on b's free list.
ReleaseInner(t, b, s) ==
  /\ pristine' = pristine \ {b}
  /\ used' = [used EXCEPT ![b] = @ - Len(s)]
  /\ \/ used[b] = Len(s) /\ Park(t, b, s \o free[b])
     \/ /\ used[b] # Len(s)
        /\ free' = [free EXCEPT ![b] = s \o @]
        /\ partial' = IF Contains(partial, b) THEN partial ELSE <<b>> \o partial
        /\ UNCHANGED <<empty, cold, own, dirty>>

\* The first group.  release_many keeps the lock until all groups of a chunk are
\* back; the big tier's release_blocks takes it for each.
ReleaseGroup(t) ==
  LET left == Tail(rel[t]) IN
  /\ (pc[t] = "release" /\ lock = NoThread) \/ pc[t] = "splice"
  /\ ReleaseInner(t, rel[t][1].span, rel[t][1].blocks)
  /\ rel' = [rel EXCEPT ![t] = left]
  /\ IF Tier = "medium" /\ left # <<>>
     THEN lock' = t /\ Goto(t, "splice") /\ UNCHANGED mode
     ELSE /\ lock' = NoThread
          /\ IF own'[t] = {} THEN Resume(t, left) ELSE Goto(t, "fates") /\ UNCHANGED mode
  /\ UNCHANGED <<osVars, cacheVars, takeVars, flushVars, live, zeroed>>

\* mact_fate, bact_fate: back to the arena or unmapped; a failed munmap leaves
\* the span mapped with no one to know of it.
UnmapSpan(t) ==
  /\ pc[t] = "fates"
  /\ \E b \in own[t] :
       /\ own' = [own EXCEPT ![t] = @ \ {b}]
       /\ \/ mapped' = mapped \ {b} /\ dirty' = dirty \ Extent(b) /\ UNCHANGED leaked
          \/ leaked' = leaked \cup {b} /\ UNCHANGED <<mapped, dirty>>
       /\ free' = [free EXCEPT ![b] = <<>>]
       /\ IF own[t] = {b} THEN Resume(t, rel[t]) ELSE UNCHANGED <<pc, mode>>
  /\ UNCHANGED <<lock, listVars, used, pristine, cacheVars, takeVars, rel, flushVars, live, zeroed>>

-----------------------------------------------------------------------------
Call(t) ==
  \/ AllocActive(t) \/ AllocBin(t) \/ FlushAll(t) \/ Pressure(t)
  \/ \E m \in {"cache", "direct"} : Take(t, m) \/ TakeNothing(t, m)
  \/ \E a \in live : Free(t, a) \/ FreeDirect(t, a)

Continue(t) ==
  \/ FillBlock(t) \/ FillDone(t) \/ MapSpan(t) \/ MapFails(t) \/ LinkSpan(t)
  \/ GiveBack(t) \/ Trim(t) \/ FlushPop(t) \/ FlushDone(t)
  \/ ReleaseGroup(t) \/ UnmapSpan(t)

Next ==
  \E t \in Thread :
    \/ Call(t) \/ Continue(t)
    \/ \E u \in Thread : Adopt(t, u)

Spec == Init /\ [][Next]_vars

-----------------------------------------------------------------------------
(* Where blocks are. *)

GroupBlocks(g) == UNION {ToSet(g[i].blocks) : i \in DOMAIN g}
Cached(t) ==
  ToSet(active[t].chain) \cup ToSet(bin[t]) \cup ToSet(chain[t]) \cup GroupBlocks(rel[t])
Outside == live \cup UNION {Cached(t) : t \in Thread}
OwnSpans == UNION {own[t] : t \in Thread}

Group == [span : Base, blocks : Seq(Addr)]
TypeOK ==
  /\ lock \in Thread \cup {NoThread}
  /\ partial \in Seq(Base) /\ empty \in Seq(Base) /\ cold \in Seq(Base)
  /\ used \in [Base -> Nat] /\ free \in [Base -> Seq(Addr)] /\ pristine \in SUBSET Base
  /\ mapped \in SUBSET Base /\ leaked \in SUBSET Base
  /\ active \in [Thread -> [span : Base \cup {NoSpan}, chain : Seq(Addr), virgin : Nat]]
  /\ bin \in [Thread -> Seq(Addr)] /\ watermark \in [Thread -> Nat]
  /\ pc \in [Thread -> PcLabels] /\ mode \in [Thread -> {"cache", "direct", "exit"}]
  /\ chain \in [Thread -> Seq(Addr)] /\ virgin \in [Thread -> BOOLEAN]
  /\ own \in [Thread -> SUBSET Base] /\ rel \in [Thread -> Seq(Group)]
  /\ popped \in [Thread -> Nat] /\ floor \in [Thread -> Nat]
  /\ live \in SUBSET Addr /\ dirty \in SUBSET Addr /\ zeroed \in SUBSET Addr

\* A block is in one place only: in one chain, bin or release group of one
\* thread, on its span's free list, or with the program.
GroupsExclusive(g) ==
  /\ \A i \in DOMAIN g : IsInjective(g[i].blocks)
  /\ \A i, j \in DOMAIN g : i # j => ToSet(g[i].blocks) \cap ToSet(g[j].blocks) = {}
ThreadExclusive(t) ==
  LET c == active[t].chain IN
  /\ IsInjective(c) /\ IsInjective(bin[t]) /\ IsInjective(chain[t]) /\ GroupsExclusive(rel[t])
  /\ ToSet(c) \cap ToSet(bin[t]) = {}
  /\ (ToSet(c) \cup ToSet(bin[t])) \cap ToSet(chain[t]) = {}
  /\ (ToSet(c) \cup ToSet(bin[t]) \cup ToSet(chain[t])) \cap GroupBlocks(rel[t]) = {}
Exclusive ==
  /\ \A t \in Thread : ThreadExclusive(t) /\ Cached(t) \cap live = {}
  /\ \A t, u \in Thread : t # u => Cached(t) \cap Cached(u) = {}
  /\ \A b \in mapped : IsInjective(free[b]) /\ ToSet(free[b]) \cap Outside = {}

\* The master counts exactly: `used` blocks are out, and the free list of a
\* span that is not cold holds all the others.  A block that is out keeps its
\* span mapped, and the span off the way to unmapping.
CountsExact ==
  /\ \A b \in mapped :
       /\ used[b] = Cardinality(BlocksOf(b) \cap Outside)
       /\ b \notin ToSet(cold) \cup leaked => Len(free[b]) + used[b] = SpanLen - 1
  /\ \A a \in Outside : \E b \in mapped : a \in BlocksOf(b)
  /\ \A b \in OwnSpans \cup leaked : b \in mapped /\ used[b] = 0

\* Every mapped span can be found: it is on the partial list while some of its
\* blocks are out and some are not, and on one list when none is out.
Places(b) == {l \in {"partial", "empty", "cold"} :
               Contains([partial |-> partial, empty |-> empty, cold |-> cold][l], b)}
NoSpanLost ==
  /\ \A b \in mapped :
       IF b \in OwnSpans \cup leaked \/ used[b] = SpanLen - 1 THEN Places(b) = {}
       ELSE IF used[b] > 0 THEN Places(b) = {"partial"}
       ELSE \E l \in {"partial", "empty", "cold"} : Places(b) = {l}
  /\ IsInjective(partial) /\ IsInjective(empty) /\ IsInjective(cold)

\* release_blocks is only given blocks that belong to the span it is given
\* (the doc comment of MediumHeap::release_blocks).
ReleasesToOwner ==
  \A t \in Thread : \A i \in DOMAIN rel[t] :
    rel[t][i].span \in mapped /\ ToSet(rel[t][i].blocks) \subseteq BlocksOf(rel[t][i].span)

\* The tier implements the allocator's contract.  In particular a block from
\* calloc reads as zero: FLAG_VIRGIN, the active chain's count and the bin's
\* watermark never claim too much.
ImplementsContract == Contract!CSpec

-----------------------------------------------------------------------------
(***************************************************************************)
(* The inductive invariant behind Exclusive, CountsExact, NoSpanLost and   *)
(* ReleasesToOwner: who holds the lock, which locals are in use where, on  *)
(* which list each span is, and whose blocks a chain or a group holds.     *)
(***************************************************************************)
LockInv == \A t \in Thread : lock = t <=> pc[t] \in {"fill", "splice"}

LocalsOf(t) ==
  /\ chain[t] # <<>> => pc[t] \in {"fill", "giveback", "release", "splice", "fates"}
  /\ chain[t] # <<>> /\ pc[t] # "fill" => mode[t] = "direct"
  /\ pc[t] = "giveback" => chain[t] # <<>>
  /\ pc[t] \in {"fill", "map", "link"} =>
       mode[t] = "direct" \/ (mode[t] = "cache" /\ active[t].chain = <<>> /\ bin[t] = <<>>)
  /\ pc[t] \in {"idle", "trim"} => mode[t] = "cache"
  /\ pc[t] = "flush" => mode[t] # "direct" /\ (rel[t] # <<>> => Len(bin[t]) > floor[t])
  /\ mode[t] = "exit" => active[t].chain = <<>>
  /\ rel[t] # <<>> => pc[t] \in {"flush", "release", "splice", "fates"}
  /\ pc[t] \in {"release", "splice"} => rel[t] # <<>>
  /\ own[t] # {} => pc[t] \in {"link", "splice", "fates"}
  /\ pc[t] = "link" => \E b \in Base : own[t] = {b}
LocalsInv == \A t \in Thread : LocalsOf(t)

\* A fill that has no block yet has a span to take one from.
FillInv == \A t \in Thread : pc[t] = "fill" /\ chain[t] = <<>> => partial # <<>>

\* Every span is in at most one place, and is mapped there.
Bare == ToSet(cold) \cup leaked
Parked == ToSet(empty) \cup OwnSpans \cup Bare
ListsInv ==
  /\ IsInjective(partial) /\ IsInjective(empty) /\ IsInjective(cold)
  /\ ToSet(partial) \cap Parked = {}
  /\ ToSet(empty) \cap (OwnSpans \cup Bare) = {}
  /\ ToSet(cold) \cap (OwnSpans \cup leaked) = {}
  /\ OwnSpans \cap leaked = {}
  /\ \A t, u \in Thread : t # u => own[t] \cap own[u] = {}
  /\ ToSet(partial) \cup Parked \subseteq mapped

\* Mapped spans do not overlap, and hold every block that is out.
MappedInv ==
  /\ \A b, c \in mapped : Extent(b) \cap Extent(c) # {} => b = c
  /\ \A a \in Outside : \E b \in mapped : a \in BlocksOf(b)

\* What the master of a mapped span says.
SpanOf(b) ==
  /\ IsInjective(free[b])
  /\ b \in Bare => free[b] = <<>> /\ BlocksOf(b) \cap Outside = {}
  /\ b \notin Bare => /\ ToSet(free[b]) = BlocksOf(b) \ Outside
                      /\ used[b] + Len(free[b]) = SpanLen - 1
  /\ b \in Parked => used[b] = 0
  /\ b \in ToSet(partial) => free[b] # <<>>
  /\ b \in ToSet(partial) \cup Parked \/ free[b] = <<>>
SpanInv == \A b \in mapped : SpanOf(b)

ChainOwned(c) ==
  c.chain # <<>> => c.span \in mapped /\ ToSet(c.chain) \subseteq BlocksOf(c.span)
GroupsOwned(g) ==
  /\ \A i \in DOMAIN g :
       /\ g[i].span \in mapped /\ g[i].blocks # <<>>
       /\ ToSet(g[i].blocks) \subseteq BlocksOf(g[i].span)
  /\ \A i, j \in DOMAIN g : g[i].span = g[j].span => i = j
OwnerInv == \A t \in Thread : ChainOwned(active[t]) /\ GroupsOwned(rel[t])

\* No block is in two hands.
HandsInv ==
  /\ \A t \in Thread : ThreadExclusive(t) /\ Cached(t) \cap live = {}
  /\ \A t, u \in Thread : t # u => Cached(t) \cap Cached(u) = {}

SafetyInv ==
  /\ TypeOK /\ LockInv /\ LocalsInv /\ FillInv
  /\ ListsInv /\ MappedInv /\ SpanInv /\ OwnerInv /\ HandsInv

\* The invariant behind ImplementsContract: who may claim that a block reads as
\* zero.  The blocks below an active chain's count or a bin's watermark, a chain
\* taken from virgin spans only, and what is on the free list of a virgin span.
CleanOf(t) ==
  /\ active[t].virgin <= Len(active[t].chain)
  /\ \A i \in 1 .. active[t].virgin : active[t].chain[i] \notin dirty
  /\ watermark[t] <= Len(bin[t])
  /\ \A i \in 1 .. watermark[t] : bin[t][i] \notin dirty
  /\ virgin[t] => ToSet(chain[t]) \cap dirty = {}
ZeroInv ==
  /\ \A t \in Thread : CleanOf(t)
  /\ \A b \in mapped \cap pristine : ToSet(free[b]) \cap dirty = {}

\* Spans of the class never overlap a span that was unmapped before, or the tier
\* compares spans and not addresses.
NoOverlap ==
  Tier = "big" \/ \A b, c \in Base : Extent(b) \cap Extent(c) # {} => b = c

=============================================================================
