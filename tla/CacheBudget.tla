----------------------------- MODULE CacheBudget -----------------------------
(***************************************************************************)
(* How much a thread cache keeps (cache.rs): the byte counters that every  *)
(* push, pop, refill, flush and adoption must move together with the bins, *)
(* the limits a free compares them with, and trim, the loop that gives     *)
(* blocks back until the cache is under its target.                        *)
(*                                                                         *)
(* A bin is its length; SmallHeap and SpanHeap model what is in it.  A     *)
(* class is named by its block size.  One thread runs at a time, and a     *)
(* thread that exits may leave its cache to a later one: a cache has one    *)
(* user, and the queue of retired caches is the subject of RetiredCaches.   *)
(***************************************************************************)
EXTENDS Integers, FiniteSets, FiniteSetsExt

CONSTANTS
  Small, Medium, Big,  \* sizes of the classes of each tier
  RefillBatch,         \* REFILL_BATCH
  SpanBatch,           \* MEDIUM_REFILL_BATCH, BIG_REFILL_BATCH
  SlotBytes,           \* RETIRED_SLOT_BYTES
  DefaultBudget,       \* DEFAULT_THREAD_CACHE_BUDGET
  MinBudget,           \* REFILL_BATCH * 16
  Budgets,             \* arguments of set_thread_cache_budget
  MaxEpoch,            \* how often it is called
  NoCache

Tiered == Medium \cup Big
Class == Small \cup Tiered

Cache ==
  [bin : [Class -> Nat], act : [Tiered -> Nat],
   cached_bytes : Nat, tier_cached_bytes : Nat, foreign_bytes : Nat,
   budget : Nat, budget_epoch : 0 .. MaxEpoch,
   exit_armed : BOOLEAN, retired_reclaimed : BOOLEAN]

ASSUME CacheBudgetAssumption ==
  /\ Class \subseteq Nat \ {0} /\ IsFiniteSet(Class)
  /\ Small \cap Tiered = {} /\ Medium \cap Big = {}
  /\ RefillBatch \in Nat \ {0} /\ SpanBatch \in Nat \ {0}
  /\ SlotBytes \in Nat /\ DefaultBudget \in Nat /\ MinBudget \in Nat
  /\ Budgets \subseteq Nat /\ MaxEpoch \in Nat
  /\ NoCache \notin Cache

DRIFT_GATE_DIV == 2
FOREIGN_SHED_DIV == 8

VARIABLES
  cache,         \* the running thread's ThreadCache
  retired,       \* the cache an exited thread left, or NoCache
  CACHE_BUDGET, CACHE_BUDGET_EPOCH,
  pc,            \* "idle", in a refill ("recheck", "take") or in trim ("enter", "trim")
  class,         \* the class a refill is for
  then,          \* what follows the trim: "shed", "recheck" or "take"
  target         \* the bytes trim works towards

callVars == <<pc, class, then, target>>
globalVars == <<CACHE_BUDGET, CACHE_BUDGET_EPOCH>>
vars == <<cache, retired, globalVars, callVars>>

EmptyCache ==
  [bin |-> [c \in Class |-> 0], act |-> [c \in Tiered |-> 0],
   cached_bytes |-> 0, tier_cached_bytes |-> 0, foreign_bytes |-> 0,
   budget |-> DefaultBudget, budget_epoch |-> 0,
   exit_armed |-> FALSE, retired_reclaimed |-> FALSE]

Init ==
  /\ cache = EmptyCache /\ retired = NoCache
  /\ CACHE_BUDGET = DefaultBudget /\ CACHE_BUDGET_EPOCH = 0
  /\ pc = "idle" /\ class = 0 /\ then = "shed" /\ target = 0

saturating_sub(a, b) == Max({a - b, 0})

\* The bytes of n[c] blocks in each class c of S, as a set: byte i of class c.
BytesIn(S, n) == UNION {{c} \X (1 .. c * n[c]) : c \in S}
BinBytes(S, n) == Cardinality(BytesIn(S, n))

Return == pc' = "idle" /\ class' = 0 /\ then' = "shed" /\ target' = 0

-----------------------------------------------------------------------------
(* Budgets and limits of a cache k. *)

refresh_budget(k) ==
  IF k.budget_epoch = CACHE_BUDGET_EPOCH THEN k
  ELSE [k EXCEPT !.budget = CACHE_BUDGET, !.budget_epoch = CACHE_BUDGET_EPOCH]

\* The system may refuse the hook; the next slow path tries again.
arm_exit_hook(k) ==
  IF k.exit_armed THEN {k}
  ELSE {[refresh_budget(k) EXCEPT !.exit_armed = ok] : ok \in BOOLEAN}

small_cached_bytes(k) == saturating_sub(k.cached_bytes, k.tier_cached_bytes)

drift_gate_open(k) ==
  IF k.tier_cached_bytes = 0 THEN k.cached_bytes > k.budget \div DRIFT_GATE_DIV
  ELSE \/ small_cached_bytes(k) > k.budget \div DRIFT_GATE_DIV
       \/ k.tier_cached_bytes > (2 * k.budget) \div DRIFT_GATE_DIV

drift_gate_open_small(k) == k.cached_bytes > k.budget \div DRIFT_GATE_DIV

should_shed_small(k) ==
  \/ k.cached_bytes > k.budget
  \/ k.foreign_bytes >= k.budget \div FOREIGN_SHED_DIV

\* Mutant of should_shed: the tiers' allowance has no limit.
ShedSmallOnly(k) ==
  \/ small_cached_bytes(k) > k.budget
  \/ k.foreign_bytes >= k.budget \div FOREIGN_SHED_DIV

should_shed(k) ==
  IF k.tier_cached_bytes = 0 THEN should_shed_small(k)
  ELSE \/ small_cached_bytes(k) > k.budget
       \/ k.tier_cached_bytes > 2 * k.budget
       \/ k.foreign_bytes >= k.budget \div FOREIGN_SHED_DIV

\* set_budget, by any thread; the running one sees it at its next refresh.
set_budget(bytes) ==
  /\ CACHE_BUDGET_EPOCH < MaxEpoch
  /\ CACHE_BUDGET' = Max({bytes, MinBudget})
  /\ CACHE_BUDGET_EPOCH' = CACHE_BUDGET_EPOCH + 1
  /\ UNCHANGED <<cache, retired, callVars>>

-----------------------------------------------------------------------------
(* Pushes and pops. *)

\* n blocks of class c more, or fewer, in the counters.
Added(k, c, n) ==
  [k EXCEPT !.cached_bytes = @ + c * n,
            !.tier_cached_bytes = IF c \in Tiered THEN @ + c * n ELSE @]

Dropped(k, c, n) ==
  [k EXCEPT !.cached_bytes = saturating_sub(@, c * n),
            !.tier_cached_bytes = IF c \in Tiered THEN saturating_sub(@, c * n) ELSE @]

Has(k, c) == k.bin[c] > 0 \/ (c \in Tiered /\ k.act[c] > 0)

\* A block comes from the active chain while it has one.
Pop(k, c) ==
  LET from == IF c \in Tiered /\ k.act[c] > 0
              THEN [k EXCEPT !.act[c] = @ - 1] ELSE [k EXCEPT !.bin[c] = @ - 1]
  IN  [from EXCEPT !.cached_bytes = @ - c,
                   !.tier_cached_bytes = IF c \in Tiered THEN saturating_sub(@, c) ELSE @]

\* A freed block goes to the active chain if the active span holds it, which is
\* left open, or to the bin.
Pushed(k, c) ==
  {[Added(k, c, 1) EXCEPT !.bin[c] = @ + 1]}
    \cup IF c \in Tiered THEN {[Added(k, c, 1) EXCEPT !.act[c] = @ + 1]} ELSE {}

\* alloc, alloc_medium, alloc_big and their zeroed variants, on a hit.
Alloc(c) ==
  /\ pc = "idle" /\ Has(cache, c)
  /\ cache' = Pop(cache, c)
  /\ UNCHANGED <<retired, globalVars, callVars>>

\* Under the open gate a free looks at the owner of the block's page or span,
\* and may find another thread's.
Counted(k, c, gate) ==
  {k} \cup IF gate THEN {[k EXCEPT !.foreign_bytes = @ + c]} ELSE {}

\* The end of a free of a cache k.
ShedIf(k, over) ==
  /\ cache' = k
  /\ IF over THEN pc' = "enter" /\ then' = "shed" /\ UNCHANGED <<class, target>>
             ELSE UNCHANGED callVars

small_free_is_warm(k) == k.exit_armed /\ ~drift_gate_open_small(k)

dealloc(c) ==
  /\ pc = "idle" /\ c \in Small
  /\ \E armed \in IF small_free_is_warm(cache) THEN {cache} ELSE arm_exit_hook(cache) :
     \E k \in Counted(armed, c, drift_gate_open_small(armed)) :
     \E pushed \in Pushed(k, c) : ShedIf(pushed, should_shed_small(pushed))
  /\ UNCHANGED <<retired, globalVars>>

\* dealloc_medium, dealloc_big.
DeallocTiered(c) ==
  /\ pc = "idle" /\ c \in Tiered
  /\ \E armed \in arm_exit_hook(cache) :
     \E k \in Counted(armed, c, drift_gate_open(armed)) :
     \E pushed \in Pushed(k, c) : ShedIf(pushed, should_shed(pushed))
  /\ UNCHANGED <<retired, globalVars>>

-----------------------------------------------------------------------------
(* Flushes. *)

\* flush_bin, flush_mbin, flush_bbin down to `floor` blocks.
FlushBin(k, c, floor) ==
  [Dropped(k, c, k.bin[c] - floor) EXCEPT !.bin[c] = floor]

\* flush_active_medium, flush_active_big.
FlushActive(k, c) == [Dropped(k, c, k.act[c]) EXCEPT !.act[c] = 0]

flush_all(k) ==
  [EmptyCache EXCEPT !.budget = k.budget, !.budget_epoch = k.budget_epoch,
                     !.exit_armed = k.exit_armed]

-----------------------------------------------------------------------------
(* trim. *)

EnterTrim ==
  /\ pc = "enter"
  /\ \E armed \in arm_exit_hook(cache) :
       LET k == refresh_budget(armed) IN
       /\ cache' = k
       /\ target' = k.budget \div 2 + Min({k.tier_cached_bytes, 2 * k.budget})
  /\ pc' = "trim"
  /\ UNCHANGED <<retired, globalVars, class, then>>

\* The class of S with the most bytes in the bins `lens`: the first of them.
Largest(S, lens) ==
  LET most == Max({c * lens[c] : c \in S})
  IN  Min({c \in S : c * lens[c] = most})

Bytes(S, lens) == IF S = {} THEN 0 ELSE Max({c * lens[c] : c \in S})

\* Mutant of Floor: rounded up.
FloorUp(len) == (len + 1) \div 2

\* What trim leaves in the bin it halves.
Floor(len) == len \div 2

\* The cache after the next flush of the loop, or none if nothing can be given
\* back: an overlong small bin, an active medium chain, an active big chain,
\* the larger of the medium and the big bins.
Trimmed(k) ==
  LET long == {c \in Small : k.bin[c] > RefillBatch}
      mact == {c \in Medium : k.act[c] > 0}
      bact == {c \in Big : k.act[c] > 0}
      mbin == {c \in Medium : k.bin[c] > 0}
      bbin == {c \in Big : k.bin[c] > 0}
      Halve(S) == LET c == Largest(S, k.bin) IN {FlushBin(k, c, Floor(k.bin[c]))}
  IN  CASE long # {} -> Halve(long)
        [] long = {} /\ mact # {} -> {FlushActive(k, Largest(mact, k.act))}
        [] long \cup mact = {} /\ bact # {} -> {FlushActive(k, Largest(bact, k.act))}
        [] long \cup mact \cup bact = {} /\ Bytes(bbin, k.bin) > Bytes(mbin, k.bin) -> Halve(bbin)
        [] long \cup mact \cup bact = {} /\ Bytes(bbin, k.bin) <= Bytes(mbin, k.bin) ->
             IF mbin = {} THEN {} ELSE Halve(mbin)

\* One round of the loop.
TrimStep ==
  /\ pc = "trim"
  /\ cache.cached_bytes > target /\ cache' \in Trimmed(cache)
  /\ UNCHANGED <<retired, globalVars, callVars>>

\* The loop ends; `shed` forgets the foreign bytes, a refill goes on.
TrimDone ==
  /\ pc = "trim"
  /\ cache.cached_bytes <= target \/ Trimmed(cache) = {}
  /\ IF then = "shed"
     THEN cache' = [cache EXCEPT !.foreign_bytes = 0] /\ Return
     ELSE pc' = then /\ then' = "shed" /\ target' = 0 /\ UNCHANGED <<cache, class>>
  /\ UNCHANGED <<retired, globalVars>>

-----------------------------------------------------------------------------
(* Refills. *)

\* Mutant of steal_empty_bins: the stolen bytes are not counted.
StealUncounted(k, o) ==
  LET taken == {c \in Small : o.bin[c] > 0 /\ k.bin[c] = 0}
  IN  [k EXCEPT !.bin = [c \in Class |-> IF c \in taken THEN o.bin[c] ELSE k.bin[c]]]

\* The small bins that k has nothing in are taken over from o.
steal_empty_bins(k, o) ==
  LET taken == {c \in Small : o.bin[c] > 0 /\ k.bin[c] = 0}
  IN  [k EXCEPT !.bin = [c \in Class |-> IF c \in taken THEN o.bin[c] ELSE k.bin[c]],
                !.cached_bytes = @ + BinBytes(taken, o.bin)]

\* The caches reclaim_retired may make of k, and the retired cache after it.  An
\* empty cache, with an empty stash of large regions, adopts a whole one; but a
\* cache that was retired after the first look is stolen from or flushed.
reclaim_retired(k) ==
  IF k.retired_reclaimed \/ retired = NoCache THEN {<<k, retired>>}
  ELSE LET done(j) == <<[j EXCEPT !.retired_reclaimed = TRUE], NoCache>>
           adopted == [retired EXCEPT !.exit_armed = k.exit_armed,
                         !.budget = k.budget, !.budget_epoch = k.budget_epoch]
       IN  {done(steal_empty_bins(k, retired)), done(k)}
             \cup IF k.cached_bytes = 0 THEN {done(adopted)} ELSE {}

\* A miss, up to the point where the heap is asked: refill, mrefill, bigrefill.
Refill(c) ==
  /\ pc = "idle" /\ ~Has(cache, c)
  /\ \E armed \in arm_exit_hook(cache) : \E r \in reclaim_retired(refresh_budget(armed)) :
       LET k == r[1] IN
       /\ retired' = r[2]
       /\ IF Has(k, c) THEN cache' = Pop(k, c) /\ UNCHANGED callVars
          ELSE /\ cache' = k /\ class' = c /\ UNCHANGED target
               /\ LET next == IF c \in Big THEN "recheck" ELSE "take" IN
                  IF small_cached_bytes(k) > k.budget \div 2
                  THEN pc' = "enter" /\ then' = next ELSE pc' = next /\ UNCHANGED then
  /\ UNCHANGED globalVars

\* bigrefill looks at the tiers' bytes as well.
Recheck ==
  /\ pc = "recheck"
  /\ IF cache.tier_cached_bytes > 2 * cache.budget
     THEN pc' = "enter" /\ then' = "take" ELSE pc' = "take" /\ UNCHANGED then
  /\ UNCHANGED <<cache, retired, globalVars, class, target>>

\* take_blocks gives some blocks, or none; one of them is the caller's.  Those
\* of a single span become the active chain.
Take ==
  LET c == class IN
  /\ pc = "take"
  /\ \/ \E count \in 1 .. IF c \in Small THEN RefillBatch ELSE SpanBatch :
          LET k == Added(cache, c, count - 1) IN
          \/ c \in Tiered /\ cache' = [k EXCEPT !.act[c] = count - 1]
          \/ /\ c \in Small \/ count > 1
             /\ cache' = [k EXCEPT !.bin[c] = @ + count - 1]
     \/ UNCHANGED cache
  /\ Return
  /\ UNCHANGED <<retired, globalVars>>

-----------------------------------------------------------------------------
(* Flush and exit. *)

\* flush_current_thread: retired caches are drained first.
FlushThread ==
  /\ pc = "idle"
  /\ cache' = flush_all(cache) /\ retired' = NoCache
  /\ UNCHANGED <<globalVars, callVars>>

\* retire: an empty cache is dropped, an oversized one and one for which there
\* is no slot are flushed.  A new thread starts.
Exit ==
  /\ pc = "idle"
  /\ retired' = IF \/ cache.cached_bytes = 0 \/ cache.cached_bytes > SlotBytes
                   \/ retired # NoCache
                THEN retired ELSE cache
  /\ cache' = EmptyCache
  /\ UNCHANGED <<globalVars, callVars>>

-----------------------------------------------------------------------------
Trimming == EnterTrim \/ TrimStep \/ TrimDone

Next ==
  \/ \E bytes \in Budgets : set_budget(bytes)
  \/ \E c \in Class : Alloc(c) \/ Refill(c)
  \/ \E c \in Small : dealloc(c)
  \/ \E c \in Tiered : DeallocTiered(c)
  \/ EnterTrim \/ TrimStep \/ TrimDone
  \/ Recheck \/ Take \/ FlushThread \/ Exit

Spec == Init /\ [][Next]_vars

\* A thread inside trim keeps running.
FairSpec == Spec /\ WF_vars(Trimming)

-----------------------------------------------------------------------------
TypeOK ==
  /\ cache \in Cache /\ retired \in Cache \cup {NoCache}
  /\ CACHE_BUDGET \in Nat /\ CACHE_BUDGET_EPOCH \in 0 .. MaxEpoch
  /\ pc \in {"idle", "enter", "trim", "recheck", "take"}
  /\ class \in Class \cup {0} /\ then \in {"shed", "recheck", "take"} /\ target \in Nat

TierBytes(k) == BinBytes(Tiered, [c \in Tiered |-> k.bin[c] + k.act[c]])

\* The counters of a cache say what is in it.
Exact(k) ==
  /\ k.tier_cached_bytes = TierBytes(k)
  /\ k.cached_bytes = TierBytes(k) + BinBytes(Small, k.bin)

\* The counters are exact at every step of every call: "It must stay exactly
\* equal to retained bytes" (trim), through adoption and stealing as well.  An
\* adopting cache takes the counter's zero for having nothing to lose, and a
\* pop would wrap a counter that fell behind.
BytesExact == \A k \in {cache, retired} \ {NoCache} : Exact(k)

\* Nothing that trim would give back.
AtFloor(k) == TierBytes(k) = 0 /\ \A c \in Small : k.bin[c] <= RefillBatch

\* A free leaves the cache within its budget and the tiers' allowance of twice
\* that, or with nothing left to give back, whatever was cached, adopted or
\* stolen before it and however the budget was changed.
FreeSettles ==
  [][/\ pc' = "idle"
     /\ \/ \E c \in Class : dealloc(c) \/ DeallocTiered(c)
        \/ pc = "trim" /\ then = "shed"
     => cache'.cached_bytes <= 3 * cache'.budget \/ AtFloor(cache')]_vars

\* trim ends: every round gives something back, until the target is reached or
\* nothing is left to give.
TrimEnds == pc = "trim" ~> pc # "trim"

-----------------------------------------------------------------------------
(* The inductive invariant. *)

\* A refill goes on, through any trims, only for a class with nothing cached.
Refilling ==
  /\ pc \in {"recheck", "take"} \/ (pc \in {"enter", "trim"} /\ then # "shed")
  => class \in Class /\ ~Has(cache, class)

\* trim's target is within the budget it was computed from.
Targeted == pc = "trim" => target <= 3 * cache.budget

BudgetInv == TypeOK /\ BytesExact /\ Refilling /\ Targeted

=============================================================================
