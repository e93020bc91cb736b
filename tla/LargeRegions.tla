---------------------------- MODULE LargeRegions ----------------------------
(***************************************************************************)
(* The large tier (lib.rs): whole regions of pages, found again through a  *)
(* registry, and kept after a free in a stash of the freeing thread's      *)
(* cache, in the hot or the cold part of a sharded cache, or nowhere.      *)
(*                                                                         *)
(* A region is named by its address range, so its length is fixed; growth  *)
(* in place is in Arena.  A section under a shard's lock, or on the        *)
(* thread's own cache, is one step.  Which shard a call uses depends on    *)
(* addresses, and is left open.                                            *)
(***************************************************************************)
EXTENDS Integers, Sequences, FiniteSets, SequencesExt, FiniteSetsExt

CONSTANTS
  Thread, Region, Shard,
  PagesOf,               \* length of each region
  ArenaRegion,           \* regions inside the arena; the others are legacy
  StashSlots, StashCap,  \* LARGE_STASH_SLOTS, LARGE_STASH_CAP_BYTES in pages
  HugeFrom, HugeCap,     \* LARGE_STASH_HUGE_THRESHOLD, LARGE_STASH_HUGE_CAP_BYTES
  HotSlots, HotCap,      \* LARGE_SHARD_SLOTS, LARGE_SHARD_CAP_BYTES
  ColdSlots, ColdCap,    \* LARGE_COLD_SLOTS, LARGE_COLD_CAP_BYTES
  ExactMax,              \* LARGE_EXACT_MAX_PAGES
  DiscardOutcomes,       \* what sys::discard may answer: [physical, zeroed]
  Requests,              \* what the program asks for: "malloc", "calloc"
  NoRegion

ASSUME LargeRegionsAssumption ==
  /\ PagesOf \in [Region -> Nat \ {0}]
  /\ ArenaRegion \subseteq Region /\ NoRegion \notin Region
  /\ \A n \in {StashSlots, StashCap, HugeFrom, HugeCap, HotSlots, HotCap, ColdSlots, ColdCap, ExactMax} : n \in Nat
  /\ DiscardOutcomes \subseteq [physical : BOOLEAN, zeroed : BOOLEAN]
  /\ Requests \subseteq {"malloc", "calloc"}

VARIABLES
  mapped, leaked,   \* regions the process holds, and those whose unmap failed
  stash,            \* ThreadCache.large, as an array
  hot, cold,        \* per shard: entries and exact-size index
  known,            \* regions a lookup finds: the side table and the registry
  registryLen,      \* LARGE_REGISTRY_LEN
  absent,           \* regions whose pages are decommitted
  live, dirty, zeroed,
  pc, held, request \* the call a thread is in, and the region it holds

storeVars == <<stash, hot, cold>>
osVars    == <<mapped, leaked>>
regVars   == <<known, registryLen>>
progVars  == <<live, dirty, zeroed>>
localVars == <<pc, held, request>>
vars == <<osVars, storeVars, regVars, absent, progVars, localVars>>

Contract == INSTANCE AllocContract WITH Block <- Region

Entry(r, z, d) == [region |-> r, zeroed |-> z, decommitted |-> d]
Nothing == Entry(NoRegion, FALSE, FALSE)
Pages(e) == PagesOf[e.region]
EmptyTier == [items |-> <<>>, exact |-> [p \in 1 .. ExactMax |-> 0]]

Init ==
  /\ mapped = {} /\ leaked = {}
  /\ stash = [t \in Thread |-> <<>>]
  /\ hot = [s \in Shard |-> EmptyTier] /\ cold = [s \in Shard |-> EmptyTier]
  /\ known = {} /\ registryLen = 0
  /\ absent = {} /\ live = {} /\ dirty = {} /\ zeroed = {}
  /\ pc = [t \in Thread |-> "idle"] /\ held = [t \in Thread |-> Nothing]
  /\ request = [t \in Thread |-> [kind |-> "malloc", pages |-> 0]]

Goto(t, label) == pc' = [pc EXCEPT ![t] = label]
Hold(t, e) == held' = [held EXCEPT ![t] = e]
Done(t) ==
  /\ Goto(t, "idle") /\ Hold(t, Nothing)
  /\ request' = [request EXCEPT ![t] = [kind |-> "malloc", pages |-> 0]]

-----------------------------------------------------------------------------
(* The exact-size index.  0 stands for EMPTY_LARGE_INDEX. *)

\* refresh_large_exact
Refresh(tier, p) == [tier.exact EXCEPT ![p] = SelectInSeq(tier.items, LAMBDA e : Pages(e) = p)]

Valid(tier, p) ==
  LET i == tier.exact[p] IN i \in DOMAIN tier.items /\ Pages(tier.items[i]) = p

\* The last element takes the place of element i.
SwapOut(seq, i) == Front([seq EXCEPT ![i] = Last(seq)])

\* An entry is put last, then index_hot, index_cold.
InsertEntry(tier, e) ==
  LET p == Pages(e)
      new == [tier EXCEPT !.items = Append(@, e)]
  IN  [new EXCEPT !.exact =
        IF p > ExactMax THEN @
        ELSE IF @[p] = 0 THEN [@ EXCEPT ![p] = Len(new.items)]
        ELSE IF Valid(new, p) THEN @ ELSE Refresh(new, p)]

\* Mutant of RemoveEntry: the index does not follow the entry that was moved.
RemoveEntryForgetsMove(tier, i) ==
  LET last == Len(tier.items)
      p == Pages(tier.items[i])
      short == [tier EXCEPT !.items = SwapOut(@, i)]
  IN  [short EXCEPT !.exact =
        IF p <= ExactMax /\ (@[p] = i \/ ~Valid(short, p)) THEN Refresh(short, p) ELSE @]

\* remove_hot, remove_cold: the last entry takes the place of entry i.
RemoveEntry(tier, i) ==
  LET last == Len(tier.items)
      p == Pages(tier.items[i])
      q == Pages(tier.items[last])
      follow == IF i < last /\ q <= ExactMax /\ tier.exact[q] = last
                THEN [tier.exact EXCEPT ![q] = i] ELSE tier.exact
      short == [items |-> SwapOut(tier.items, i), exact |-> follow]
  IN  [short EXCEPT !.exact =
        IF p <= ExactMax /\ (@[p] = i \/ ~Valid(short, p)) THEN Refresh(short, p) ELSE @]

\* exact_hot, exact_cold: 0 for none.
ExactOf(tier, n) == IF n <= ExactMax /\ Valid(tier, n) THEN tier.exact[n] ELSE 0

\* The first of the shortest entries that fit, 0 for none.
BestFit(items, n) ==
  LET fit == {i \in DOMAIN items : Pages(items[i]) >= n}
      better(i, j) == Pages(items[i]) < Pages(items[j]) \/ (Pages(items[i]) = Pages(items[j]) /\ i <= j)
  IN  IF fit = {} THEN 0 ELSE CHOOSE i \in fit : \A j \in fit : better(i, j)
ScanFor(items, n) == SelectInSeq(items, LAMBDA e : Pages(e) = n)

\* take_fit: an exact match by index, one by a scan, then the best fit, each
\* time hot before cold.
FitIn(s, n) ==
  LET tries == <<<<"hot", ExactOf(hot[s], n)>>, <<"cold", ExactOf(cold[s], n)>>,
                 <<"hot", ScanFor(hot[s].items, n)>>, <<"cold", ScanFor(cold[s].items, n)>>,
                 <<"hot", BestFit(hot[s].items, n)>>, <<"cold", BestFit(cold[s].items, n)>>>>
      hit == SelectInSeq(tries, LAMBDA x : x[2] # 0)
  IN  IF hit = 0 THEN <<"none", 0>> ELSE tries[hit]

-----------------------------------------------------------------------------
(* alloc_large_ex. *)

\* The thread's stash: an exact match, else the best fit.  A call that has no
\* cache to use goes straight to the shards.
BeginAlloc(t, k, n) ==
  /\ pc[t] = "idle"
  /\ request' = [request EXCEPT ![t] = [kind |-> k, pages |-> n]]
  /\ LET items == [i \in DOMAIN stash[t] |-> Entry(stash[t][i], FALSE, FALSE)]
         i == IF ScanFor(items, n) # 0 THEN ScanFor(items, n) ELSE BestFit(items, n)
     IN
     \/ /\ i # 0
        /\ Hold(t, items[i])
        /\ stash' = [stash EXCEPT ![t] = SwapOut(@, i)]
        /\ Goto(t, "handoff")
     \/ Goto(t, "shard") /\ UNCHANGED <<stash, held>>
  /\ UNCHANGED <<osVars, hot, cold, regVars, absent, progVars>>

TakeShard(t) ==
  /\ pc[t] = "shard"
  /\ \E s \in Shard :
       LET fit == FitIn(s, request[t].pages) IN
       \/ /\ fit[1] = "hot"
          /\ Hold(t, hot[s].items[fit[2]]) /\ hot' = [hot EXCEPT ![s] = RemoveEntry(@, fit[2])]
          /\ Goto(t, "handoff") /\ UNCHANGED cold
       \/ /\ fit[1] = "cold"
          /\ Hold(t, cold[s].items[fit[2]]) /\ cold' = [cold EXCEPT ![s] = RemoveEntry(@, fit[2])]
          /\ Goto(t, "handoff") /\ UNCHANGED hot
       \/ /\ fit[1] = "none"
          /\ Goto(t, "map") /\ UNCHANGED <<held, hot, cold>>
  /\ UNCHANGED <<osVars, stash, regVars, absent, progVars, request>>

\* map_large_region; the memory is zero.
MapRegion(t) ==
  /\ pc[t] = "map"
  /\ \/ \E r \in Region \ mapped :
          /\ PagesOf[r] = request[t].pages
          /\ mapped' = mapped \cup {r}
          /\ dirty' = dirty \ {r} /\ absent' = absent \ {r}
          /\ Hold(t, Entry(r, TRUE, FALSE))
          /\ Goto(t, "handoff") /\ UNCHANGED request
     \/ Done(t) /\ UNCHANGED <<mapped, dirty, absent>>
  /\ UNCHANGED <<leaked, storeVars, regVars, live, zeroed>>

\* sys::discard with answer d.
Discard(r, d, gone, nonzero) ==
  /\ absent' = IF d.physical /\ ~d.zeroed THEN gone \cup {r} ELSE gone
  /\ dirty' = IF d.zeroed THEN nonzero \ {r} ELSE nonzero

\* Mutant of Handoff: a decommitted region is not recommitted.
HandoffNoRecommit(t) ==
  LET e == held[t] IN
  /\ pc[t] = "handoff"
  /\ IF request[t].kind = "calloc" /\ ~e.zeroed
     THEN \E d \in DiscardOutcomes :
            /\ dirty' = IF d.zeroed THEN dirty \ {e.region} ELSE dirty
            /\ Hold(t, Entry(e.region, d.zeroed, FALSE))
     ELSE Hold(t, Entry(e.region, e.zeroed, FALSE)) /\ UNCHANGED dirty
  /\ Goto(t, IF e.region \in ArenaRegion THEN "link" ELSE "count")
  /\ UNCHANGED <<osVars, storeVars, regVars, absent, live, zeroed, request>>

\* The region is the thread's own: it is recommitted if need be, and purged for
\* a calloc if it is not known to be zero (purge_for_handoff recommits too).
Handoff(t) ==
  LET e == held[t] IN
  /\ pc[t] = "handoff"
  /\ IF request[t].kind = "calloc" /\ ~e.zeroed
     THEN \E d \in DiscardOutcomes :
            /\ dirty' = IF d.zeroed THEN dirty \ {e.region} ELSE dirty
            /\ Hold(t, Entry(e.region, d.zeroed, FALSE))
     ELSE Hold(t, Entry(e.region, e.zeroed, FALSE)) /\ UNCHANGED dirty
  /\ absent' = IF e.decommitted THEN absent \ {e.region} ELSE absent
  /\ Goto(t, IF e.region \in ArenaRegion THEN "link" ELSE "count")
  /\ UNCHANGED <<osVars, storeVars, regVars, live, zeroed, request>>

\* register_legacy_large counts first.
CountRegion(t) ==
  /\ pc[t] = "count"
  /\ registryLen' = registryLen + 1
  /\ Goto(t, "link")
  /\ UNCHANGED <<osVars, storeVars, known, absent, progVars, held, request>>

\* The side table, or the registry under its lock; then the program has it.
\* calloc clears what is not known to be zero, and what malloc gave is written.
LinkRegion(t) ==
  LET e == held[t] IN
  /\ pc[t] = "link"
  /\ known' = known \cup {e.region}
  /\ live' = live \cup {e.region}
  /\ \/ /\ request[t].kind = "malloc"
        /\ dirty' = dirty \cup {e.region} /\ UNCHANGED zeroed
     \/ /\ request[t].kind = "calloc"
        /\ dirty' = IF e.zeroed THEN dirty ELSE dirty \ {e.region}
        /\ zeroed' = zeroed \cup {e.region}
  /\ Done(t)
  /\ UNCHANGED <<osVars, storeVars, registryLen, absent>>

-----------------------------------------------------------------------------
(* free_large. *)

\* Mutant of Free: every region lowers the registry's count.
FreeCountsAll(t, r) ==
  /\ pc[t] = "idle" /\ r \in live
  /\ live' = live \ {r} /\ zeroed' = zeroed \ {r} /\ dirty' = dirty \cup {r}
  /\ known' = known \ {r}
  /\ registryLen' = registryLen - 1
  /\ Hold(t, Entry(r, FALSE, FALSE)) /\ Goto(t, "stash")
  /\ UNCHANGED <<osVars, storeVars, absent, request>>

\* dealloc finds the region and unregisters it.
Free(t, r) ==
  /\ pc[t] = "idle" /\ r \in live
  /\ live' = live \ {r} /\ zeroed' = zeroed \ {r} /\ dirty' = dirty \cup {r}
  /\ known' = known \ {r}
  /\ registryLen' = IF r \in ArenaRegion THEN registryLen ELSE registryLen - 1
  /\ Hold(t, Entry(r, FALSE, FALSE)) /\ Goto(t, "stash")
  /\ UNCHANGED <<osVars, storeVars, absent, request>>

TotalPages(items) == FoldSeq(LAMBDA e, n : n + Pages(e), 0, items)
StashPages(regions) == FoldSeq(LAMBDA r, n : n + PagesOf[r], 0, regions)

\* push_large_stash, if the thread has a cache to use.
PushStash(t) ==
  LET r == held[t].region IN
  /\ pc[t] = "stash"
  /\ \/ /\ Len(stash[t]) < StashSlots
        /\ StashPages(stash[t]) + PagesOf[r] <= IF PagesOf[r] >= HugeFrom THEN HugeCap ELSE StashCap
        /\ stash' = [stash EXCEPT ![t] = Append(@, r)]
        /\ Done(t)
     \/ Goto(t, "park") /\ UNCHANGED <<stash, held, request>>
  /\ UNCHANGED <<osVars, hot, cold, regVars, absent, progVars>>

\* Mutant of Park: the bytes of a purge that did nothing are called zero.
ParkTrustsPurge(t) ==
  LET e == held[t] IN
  /\ pc[t] = "park"
  /\ \E s \in Shard :
       LET fitsHot == Len(hot[s].items) < HotSlots /\ TotalPages(hot[s].items) + Pages(e) <= HotCap
           fitsCold == Len(cold[s].items) < ColdSlots /\ TotalPages(cold[s].items) + Pages(e) <= ColdCap
       IN
       \/ /\ fitsHot
          /\ hot' = [hot EXCEPT ![s] = InsertEntry(@, e)]
          /\ Done(t) /\ UNCHANGED <<cold, absent, dirty>>
       \/ /\ ~fitsHot /\ fitsCold
          /\ \E d \in DiscardOutcomes :
               /\ Discard(e.region, d, absent, dirty)
               /\ cold' = [cold EXCEPT ![s] =
                    InsertEntry(@, Entry(e.region, TRUE, d.physical /\ ~d.zeroed))]
          /\ Done(t) /\ UNCHANGED hot
       \/ /\ ~fitsHot /\ ~fitsCold
          /\ Goto(t, "unmap") /\ UNCHANGED <<hot, cold, absent, dirty, held, request>>
  /\ UNCHANGED <<osVars, stash, regVars, live, zeroed>>

\* Under the shard's lock: hot, else cold and purged, else neither.
Park(t) ==
  LET e == held[t] IN
  /\ pc[t] = "park"
  /\ \E s \in Shard :
       LET fitsHot == Len(hot[s].items) < HotSlots /\ TotalPages(hot[s].items) + Pages(e) <= HotCap
           fitsCold == Len(cold[s].items) < ColdSlots /\ TotalPages(cold[s].items) + Pages(e) <= ColdCap
       IN
       \/ /\ fitsHot
          /\ hot' = [hot EXCEPT ![s] = InsertEntry(@, e)]
          /\ Done(t) /\ UNCHANGED <<cold, absent, dirty>>
       \/ /\ ~fitsHot /\ fitsCold
          /\ \E d \in DiscardOutcomes :
               /\ Discard(e.region, d, absent, dirty)
               /\ cold' = [cold EXCEPT ![s] =
                    InsertEntry(@, Entry(e.region, d.zeroed, d.physical /\ ~d.zeroed))]
          /\ Done(t) /\ UNCHANGED hot
       \/ /\ ~fitsHot /\ ~fitsCold
          /\ Goto(t, "unmap") /\ UNCHANGED <<hot, cold, absent, dirty, held, request>>
  /\ UNCHANGED <<osVars, stash, regVars, live, zeroed>>

\* unmap_or_return: to the arena, or unmapped; a failed munmap leaves the
\* region mapped with no one to know of it.
Release(r) ==
  \/ mapped' = mapped \ {r} /\ UNCHANGED leaked
  \/ r \notin ArenaRegion /\ leaked' = leaked \cup {r} /\ UNCHANGED mapped

UnmapRegion(t) ==
  /\ pc[t] = "unmap"
  /\ Release(held[t].region)
  /\ Done(t)
  /\ UNCHANGED <<storeVars, regVars, absent, progVars>>

\* flush_all lets go of the stash, region by region, past the shards.
BeginFlush(t) ==
  /\ pc[t] = "idle" /\ stash[t] # <<>>
  /\ Goto(t, "flush")
  /\ UNCHANGED <<osVars, storeVars, regVars, absent, progVars, held, request>>
FlushRegion(t) ==
  /\ pc[t] = "flush"
  /\ Release(Head(stash[t]))
  /\ stash' = [stash EXCEPT ![t] = Tail(@)]
  /\ Goto(t, IF Len(stash[t]) = 1 THEN "idle" ELSE "flush")
  /\ UNCHANGED <<hot, cold, regVars, absent, progVars, held, request>>

\* Mutant of Adopt: a stash with regions in it is replaced.
AdoptAny(t, u) ==
  /\ t # u /\ pc[t] = "idle" /\ pc[u] = "idle" /\ stash[u] # <<>>
  /\ stash' = [stash EXCEPT ![t] = stash[u], ![u] = <<>>]
  /\ UNCHANGED <<osVars, hot, cold, regVars, absent, progVars, localVars>>

\* u ends, and its retired cache is adopted whole by a thread with nothing
\* cached (reclaim_retired); u then stands for a thread that starts.
Adopt(t, u) ==
  /\ t # u /\ pc[t] = "idle" /\ pc[u] = "idle"
  /\ stash[t] = <<>> /\ stash[u] # <<>>
  /\ stash' = [stash EXCEPT ![t] = stash[u], ![u] = <<>>]
  /\ UNCHANGED <<osVars, hot, cold, regVars, absent, progVars, localVars>>

-----------------------------------------------------------------------------
Continue(t) ==
  \/ TakeShard(t) \/ MapRegion(t) \/ Handoff(t) \/ CountRegion(t) \/ LinkRegion(t)
  \/ PushStash(t) \/ Park(t) \/ UnmapRegion(t) \/ FlushRegion(t)
Next ==
  \E t \in Thread :
    \/ \E k \in Requests, n \in {PagesOf[r] : r \in Region} : BeginAlloc(t, k, n)
    \/ \E r \in live : Free(t, r)
    \/ BeginFlush(t) \/ Continue(t)
    \/ \E u \in Thread : Adopt(t, u)

Spec == Init /\ [][Next]_vars

-----------------------------------------------------------------------------
Entries == [region : Region, zeroed : BOOLEAN, decommitted : BOOLEAN]
Tiers == [items : Seq(Entries), exact : [1 .. ExactMax -> Nat]]
TypeOK ==
  /\ mapped \in SUBSET Region /\ leaked \in SUBSET Region
  /\ stash \in [Thread -> Seq(Region)] /\ hot \in [Shard -> Tiers] /\ cold \in [Shard -> Tiers]
  /\ known \in SUBSET Region /\ registryLen \in Nat /\ absent \in SUBSET Region
  /\ live \in SUBSET Region /\ dirty \in SUBSET Region /\ zeroed \in SUBSET Region
  /\ pc \in [Thread -> {"idle", "shard", "map", "handoff", "count", "link", "stash", "park", "unmap", "flush"}]
  /\ held \in [Thread -> Entries \cup {Nothing}]
  /\ request \in [Thread -> [kind : {"malloc", "calloc"}, pages : Nat]]

\* Where a region may be, and the regions of a place.
Places ==
  {<<"program", 0>>, <<"leaked", 0>>} \cup ({"hand", "stash"} \X Thread) \cup ({"hot", "cold"} \X Shard)
RegionsIn(items) == {e.region : e \in ToSet(items)}
Keeps(p) ==
  CASE p[1] = "program" -> live
    [] p[1] = "leaked"  -> leaked
    [] p[1] = "hand"    -> {held[p[2]].region} \ {NoRegion}
    [] p[1] = "stash"   -> ToSet(stash[p[2]])
    [] p[1] = "hot"     -> RegionsIn(hot[p[2]].items)
    [] p[1] = "cold"    -> RegionsIn(cold[p[2]].items)

\* No region is twice in a stash, or in an array of a shard.
Unrepeated(seq) == \A i, j \in DOMAIN seq : seq[i] = seq[j] => i = j
Distinct(items) == \A i, j \in DOMAIN items : items[i].region = items[j].region => i = j
NoRepeats ==
  /\ \A t \in Thread : Unrepeated(stash[t])
  /\ \A s \in Shard : Distinct(hot[s].items) /\ Distinct(cold[s].items)

\* No region is in two places, and the mapped ones are those in some place.
Apart ==
  /\ \A p, q \in Places : p # q => Keeps(p) \cap Keeps(q) = {}
  /\ \A r \in Region : r \in mapped <=> \E p \in Places : r \in Keeps(p)

\* Every mapped region is in exactly one place: with the program, in a stash,
\* in one entry of one shard, in the hands of one thread, or leaked.
InOnePlace == NoRepeats /\ Apart

\* An index is empty just when no entry has that length, else it is at an
\* entry of that length.
Indexed(tier) ==
  \A p \in 1 .. ExactMax :
    IF tier.exact[p] = 0 THEN \A i \in DOMAIN tier.items : Pages(tier.items[i]) # p
                         ELSE Valid(tier, p)

\* The exact-size index of every shard is right however entries moved.
IndexExact == \A s \in Shard : Indexed(hot[s]) /\ Indexed(cold[s])

\* No decommitted page is in the program's hands, or is touched to write a
\* region's header before the region is registered.
NoFault ==
  \A r \in absent :
    r \notin live /\ \A t \in Thread : held[t].region = r => pc[t] \notin {"count", "link"}

\* The threads that have counted a region and not linked it yet.
Linking == {t \in Thread : pc[t] = "link" /\ held[t].region \notin ArenaRegion}

\* A free of a live region finds it: it is in the side table or the registry,
\* and the registry's count, which a lookup reads first and without the lock,
\* is exactly the regions linked and those about to be.
Recognised ==
  /\ live = known
  /\ Cardinality(known \ ArenaRegion) + Cardinality(Linking) = registryLen

\* The large tier keeps the promises of a block allocator.  In particular a
\* region from calloc reads as zero, wherever it was kept before and whatever
\* the purges on its way answered.
ImplementsContract == Contract!CSpec

-----------------------------------------------------------------------------
(* The inductive invariant of the proofs. *)

\* A thread holds a region in the middle of a call, and only then; a legacy
\* region on its way to be counted; a flush has something left to release.
CallInv ==
  \A t \in Thread :
    /\ held[t] = Nothing <=> pc[t] \in {"idle", "shard", "map", "flush"}
    /\ pc[t] = "count" => held[t].region \notin ArenaRegion
    /\ pc[t] = "flush" => stash[t] # <<>>

\* A region whose pages are decommitted says so, in the cold part of a shard
\* or in the hands of the thread that has just taken it.
AbsentSays ==
  \A r \in absent :
    \/ \E s \in Shard : \E e \in ToSet(cold[s].items) : e.region = r /\ e.decommitted
    \/ \E t \in Thread : pc[t] = "handoff" /\ held[t].region = r /\ held[t].decommitted

\* What is called zero is zero.
ZeroInv ==
  /\ zeroed \subseteq live \ dirty
  /\ \A t \in Thread : held[t].zeroed => held[t].region \notin dirty
  /\ \A s \in Shard : \A e \in ToSet(hot[s].items) \cup ToSet(cold[s].items) :
       e.zeroed => e.region \notin dirty

\* What the registry's count is compared with can be counted.
FiniteInv == IsFiniteSet(known) /\ IsFiniteSet(Linking)

\* What a call is about to return is as long as was asked for.
LongEnough ==
  \A t \in Thread :
    pc[t] \in {"handoff", "count", "link"} => PagesOf[held[t].region] >= request[t].pages

\* What the proofs show by induction: every part is needed for another.
LargeInv ==
  /\ TypeOK /\ CallInv /\ InOnePlace /\ IndexExact /\ AbsentSays
  /\ Recognised /\ FiniteInv /\ ZeroInv /\ LongEnough

=============================================================================
