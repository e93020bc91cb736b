--------------------------- MODULE RetiredCaches ---------------------------
(***************************************************************************)
(* What happens to a thread's cache when the thread exits: the state next  *)
(* to the cache in thread-local storage (lib.rs, tls), the queue of        *)
(* retired caches and its ready count (cache.rs, retire and take_one), and *)
(* the refills and flushes that adopt or drain a retired cache.            *)
(*                                                                         *)
(* A cache is the set of the blocks in its bins, active chains and stash;  *)
(* SmallHeap and SpanHeap say how they are kept, and what the global heap  *)
(* does with those it gets back.  Atomic operations are one step each, and *)
(* so is each plain access to a slot.                                      *)
(***************************************************************************)
EXTENDS Integers, FiniteSets

CONSTANTS
  Thread,     \* thread identities; one may be used again by a later thread
  Block,      \* blocks of memory
  SlotCount,  \* RETIRED_SLOT_COUNT
  SlotBytes,  \* RETIRED_SLOT_BYTES, in blocks
  Usize       \* number of values of a usize

ASSUME RetiredCachesAssumption ==
  /\ SlotCount \in Nat \ {0} /\ SlotBytes \in Nat
  /\ Usize \in Nat /\ Usize > SlotCount
  /\ IsFiniteSet(Thread)

Slot == 1 .. SlotCount

VARIABLES
  heap, live,   \* blocks in the global heap, and with the program
  cache,        \* the thread-local cache
  tls,          \* TLS_FREE, TLS_ACTIVE, TLS_RETIRED
  reclaimed,    \* ThreadCache.retired_reclaimed
  slot, stored, \* RETIRED_SLOTS: state and contents
  ready,        \* RETIRED_READY_COUNT
  pc, at,       \* where a thread is, and the slot it is at
  call,         \* the operation it is in: "none", "refill", "flush", "exit"
  want,         \* what it will do with a retired cache: "adopt", "steal", "drain"
  hand          \* the cache it holds as a local value

memVars  == <<heap, live, cache, hand>>
slotVars == <<slot, stored, ready>>
ctlVars  == <<pc, at, call, want>>
vars == <<memVars, tls, reclaimed, slotVars, ctlVars>>

Init ==
  /\ heap = Block /\ live = {}
  /\ cache = [t \in Thread |-> {}] /\ hand = [t \in Thread |-> {}]
  /\ tls = [t \in Thread |-> "free"] /\ reclaimed = [t \in Thread |-> FALSE]
  /\ slot = [s \in Slot |-> "empty"] /\ stored = [s \in Slot |-> {}] /\ ready = 0
  /\ pc = [t \in Thread |-> "idle"] /\ at = [t \in Thread |-> 1]
  /\ call = [t \in Thread |-> "none"] /\ want = [t \in Thread |-> "adopt"]

Goto(t, label) == pc' = [pc EXCEPT ![t] = label]
\* The operation ends; the locals keep no meaning.
Done(t) ==
  /\ pc' = [pc EXCEPT ![t] = "idle"] /\ at' = [at EXCEPT ![t] = 1]
  /\ call' = [call EXCEPT ![t] = "none"] /\ want' = [want EXCEPT ![t] = "adopt"]

-----------------------------------------------------------------------------
(* The program's calls. *)

\* A cache hit, inside one call of tls::with.
Alloc(t) ==
  /\ pc[t] = "idle" /\ tls[t] = "free"
  /\ \E b \in cache[t] :
       /\ live' = live \cup {b}
       /\ cache' = [cache EXCEPT ![t] = @ \ {b}]
  /\ UNCHANGED <<heap, hand, tls, reclaimed, slotVars, ctlVars>>

\* A free through the cache, which may then trim itself.
Free(t) ==
  /\ pc[t] = "idle" /\ tls[t] = "free"
  /\ \E b \in live : \E shed \in SUBSET (cache[t] \cup {b}) :
       /\ live' = live \ {b}
       /\ cache' = [cache EXCEPT ![t] = (@ \cup {b}) \ shed]
       /\ heap' = heap \cup shed
  /\ UNCHANGED <<hand, tls, reclaimed, slotVars, ctlVars>>

\* The fallback of tls::with: the cache is retired and the global heap serves.
Direct(t) ==
  /\ pc[t] = "idle" /\ tls[t] # "free"
  /\ \/ \E b \in heap : heap' = heap \ {b} /\ live' = live \cup {b}
     \/ \E b \in live : heap' = heap \cup {b} /\ live' = live \ {b}
  /\ UNCHANGED <<cache, hand, tls, reclaimed, slotVars, ctlVars>>

\* A miss: refill, mrefill and bigrefill begin with reclaim_retired, which does
\* nothing in a cache that has reclaimed since its last flush.
BeginRefill(t) ==
  /\ pc[t] = "idle" /\ tls[t] = "free"
  /\ tls' = [tls EXCEPT ![t] = "active"]
  /\ call' = [call EXCEPT ![t] = "refill"]
  /\ Goto(t, IF reclaimed[t] THEN "serve" ELSE "load")
  /\ want' = [want EXCEPT ![t] = IF cache[t] = {} THEN "adopt" ELSE "steal"]
  /\ UNCHANGED <<memVars, reclaimed, slotVars, at>>

\* The rest of the refill: a block of the cache, or a batch from the heap.
Serve(t) ==
  /\ pc[t] = "serve"
  /\ \/ \E b \in cache[t] :
          /\ live' = live \cup {b} /\ cache' = [cache EXCEPT ![t] = @ \ {b}]
          /\ UNCHANGED heap
     \/ \E batch \in SUBSET heap : \E b \in batch :
          /\ heap' = heap \ batch /\ live' = live \cup {b}
          /\ cache' = [cache EXCEPT ![t] = @ \cup (batch \ {b})]
     \/ heap = {} /\ UNCHANGED <<heap, live, cache>>
  /\ tls' = [tls EXCEPT ![t] = "free"]
  /\ Done(t)
  /\ UNCHANGED <<hand, reclaimed, slotVars>>

\* flush_current_thread: reclaim_all, outside tls::with, then flush_all in it.
BeginFlush(t) ==
  /\ pc[t] = "idle"
  /\ call' = [call EXCEPT ![t] = "flush"] /\ want' = [want EXCEPT ![t] = "drain"]
  /\ Goto(t, "load")
  /\ UNCHANGED <<memVars, tls, reclaimed, slotVars, at>>

FlushOwn(t) ==
  /\ pc[t] = "flush_own"
  /\ IF tls[t] = "free"
     THEN /\ heap' = heap \cup cache[t]
          /\ cache' = [cache EXCEPT ![t] = {}]
          /\ reclaimed' = [reclaimed EXCEPT ![t] = FALSE]
     ELSE UNCHANGED <<heap, cache, reclaimed>>
  /\ Done(t)
  /\ UNCHANGED <<live, hand, tls, slotVars>>

-----------------------------------------------------------------------------
(* take_one. *)

\* Mutant of NotTaken: a refill keeps looking for a cache to steal from.
NotTakenRetries(t) ==
  /\ at' = [at EXCEPT ![t] = 1]
  /\ IF call[t] = "flush"
     THEN Goto(t, "flush_own") /\ UNCHANGED want
     ELSE Goto(t, "load") /\ want' = [want EXCEPT ![t] = "steal"]
  /\ UNCHANGED call

\* No retired cache: reclaim_retired looks for one three times over, to adopt
\* it, to steal from it, to drain it; a flush is through with reclaim_all.
NotTaken(t) ==
  /\ at' = [at EXCEPT ![t] = 1]
  /\ \/ want[t] = "adopt" /\ want' = [want EXCEPT ![t] = "steal"] /\ Goto(t, "load")
     \/ want[t] = "steal" /\ want' = [want EXCEPT ![t] = "drain"] /\ Goto(t, "load")
     \/ /\ want[t] = "drain" /\ UNCHANGED want
        /\ Goto(t, IF call[t] = "flush" THEN "flush_own" ELSE "serve")
  /\ UNCHANGED call

LoadCount(t) ==
  /\ pc[t] = "load"
  /\ IF ready = 0
     THEN NotTaken(t)
     ELSE Goto(t, "scan") /\ UNCHANGED <<at, call, want>>
  /\ UNCHANGED <<memVars, tls, reclaimed, slotVars>>

\* One compare-and-swap from READY to TAKING.
ScanSlot(t) ==
  /\ pc[t] = "scan"
  /\ IF slot[at[t]] = "ready"
     THEN slot' = [slot EXCEPT ![at[t]] = "taking"] /\ Goto(t, "read") /\ UNCHANGED <<at, call, want>>
     ELSE /\ UNCHANGED slot
          /\ IF at[t] < SlotCount
             THEN at' = [at EXCEPT ![t] = @ + 1] /\ UNCHANGED <<pc, call, want>>
             ELSE NotTaken(t)
  /\ UNCHANGED <<memVars, tls, reclaimed, stored, ready>>

ReadSlot(t) ==
  /\ pc[t] = "read"
  /\ hand' = [hand EXCEPT ![t] = stored[at[t]]]
  /\ Goto(t, "empty")
  /\ UNCHANGED <<heap, live, cache, tls, reclaimed, slotVars, at, call, want>>

EmptySlot(t) ==
  /\ pc[t] = "empty"
  /\ slot' = [slot EXCEPT ![at[t]] = "empty"]
  /\ Goto(t, "uncount")
  /\ UNCHANGED <<memVars, tls, reclaimed, stored, ready, at, call, want>>

\* An empty cache becomes the adopted one.  Any other steals the bins it has
\* nothing in, and flushes the rest; reclaim_one flushes everything.
Taken(t) ==
  /\ \E stolen \in SUBSET hand[t] :
       /\ want[t] = "adopt" => stolen = hand[t]
       /\ want[t] = "drain" => stolen = {}
       /\ cache' = [cache EXCEPT ![t] = @ \cup stolen]
       /\ heap' = heap \cup (hand[t] \ stolen)
  /\ hand' = [hand EXCEPT ![t] = {}]
  /\ at' = [at EXCEPT ![t] = 1]
  /\ IF call[t] = "flush"
     THEN Goto(t, "load") /\ UNCHANGED reclaimed
     ELSE Goto(t, "serve") /\ reclaimed' = [reclaimed EXCEPT ![t] = TRUE]

\* The ready count is lowered, perhaps before it was raised: it may wrap.
Uncount(t) ==
  /\ pc[t] = "uncount"
  /\ ready' = (ready - 1) % Usize
  /\ Taken(t)
  /\ UNCHANGED <<live, tls, slot, stored, call, want>>

-----------------------------------------------------------------------------
(* The exit hook. *)

\* Mutant of Exit: the cache is moved out of a thread-local that stays usable.
ExitStaysFree(t) ==
  /\ pc[t] = "idle" /\ tls[t] = "free"
  /\ UNCHANGED tls
  /\ IF cache[t] = {} \/ Cardinality(cache[t]) > SlotBytes
     THEN heap' = heap \cup cache[t] /\ UNCHANGED <<hand, ctlVars>>
     ELSE /\ hand' = [hand EXCEPT ![t] = cache[t]]
          /\ call' = [call EXCEPT ![t] = "exit"]
          /\ Goto(t, "claim") /\ UNCHANGED <<heap, at, want>>
  /\ UNCHANGED <<live, cache, reclaimed, slotVars>>

\* tls::retire and the start of cache::retire, when no call of the thread is in
\* progress.  The cache is copied out of the thread-local, which keeps its old
\* bytes; an empty cache is dropped and an oversized one flushed.
Exit(t) ==
  /\ pc[t] = "idle" /\ tls[t] = "free"
  /\ tls' = [tls EXCEPT ![t] = "retired"]
  /\ IF cache[t] = {} \/ Cardinality(cache[t]) > SlotBytes
     THEN heap' = heap \cup cache[t] /\ UNCHANGED <<hand, ctlVars>>
     ELSE /\ hand' = [hand EXCEPT ![t] = cache[t]]
          /\ call' = [call EXCEPT ![t] = "exit"]
          /\ Goto(t, "claim") /\ UNCHANGED <<heap, at, want>>
  /\ UNCHANGED <<live, cache, reclaimed, slotVars>>

\* One compare-and-swap from EMPTY to WRITING; with every slot in use, flush.
ClaimSlot(t) ==
  /\ pc[t] = "claim"
  /\ \/ /\ slot[at[t]] = "empty"
        /\ slot' = [slot EXCEPT ![at[t]] = "writing"]
        /\ Goto(t, "write") /\ UNCHANGED <<heap, hand, at, call, want>>
     \/ /\ slot[at[t]] # "empty" /\ at[t] < SlotCount
        /\ at' = [at EXCEPT ![t] = @ + 1]
        /\ UNCHANGED <<heap, hand, slot, pc, call, want>>
     \/ /\ slot[at[t]] # "empty" /\ at[t] = SlotCount
        /\ heap' = heap \cup hand[t] /\ hand' = [hand EXCEPT ![t] = {}]
        /\ Done(t) /\ UNCHANGED slot
  /\ UNCHANGED <<live, cache, tls, reclaimed, stored, ready>>

WriteSlot(t) ==
  /\ pc[t] = "write"
  /\ stored' = [stored EXCEPT ![at[t]] = hand[t]]
  /\ Goto(t, "publish")
  /\ UNCHANGED <<memVars, tls, reclaimed, slot, ready, at, call, want>>

PublishSlot(t) ==
  /\ pc[t] = "publish"
  /\ slot' = [slot EXCEPT ![at[t]] = "ready"]
  /\ hand' = [hand EXCEPT ![t] = {}]
  /\ Goto(t, "count")
  /\ UNCHANGED <<heap, live, cache, tls, reclaimed, stored, ready, at, call, want>>

\* Mutant of Count: the count saturates instead of coming back from a wrap.
CountSaturating(t) ==
  /\ pc[t] = "count"
  /\ ready' = IF ready = Usize - 1 THEN ready ELSE ready + 1
  /\ Done(t)
  /\ UNCHANGED <<memVars, tls, reclaimed, slot, stored>>

Count(t) ==
  /\ pc[t] = "count"
  /\ ready' = (ready + 1) % Usize
  /\ Done(t)
  /\ UNCHANGED <<memVars, tls, reclaimed, slot, stored>>

\* The operating system gives the identity to a new thread.
Start(t) ==
  /\ pc[t] = "idle" /\ tls[t] = "retired"
  /\ tls' = [tls EXCEPT ![t] = "free"]
  /\ cache' = [cache EXCEPT ![t] = {}]
  /\ reclaimed' = [reclaimed EXCEPT ![t] = FALSE]
  /\ UNCHANGED <<heap, live, hand, slotVars, ctlVars>>

-----------------------------------------------------------------------------
Call(t) == Alloc(t) \/ Free(t) \/ Direct(t) \/ BeginRefill(t) \/ BeginFlush(t) \/ Exit(t) \/ Start(t)
Continue(t) ==
  \/ Serve(t) \/ FlushOwn(t)
  \/ LoadCount(t) \/ ScanSlot(t) \/ ReadSlot(t) \/ EmptySlot(t) \/ Uncount(t)
  \/ ClaimSlot(t) \/ WriteSlot(t) \/ PublishSlot(t) \/ Count(t)
Next == \E t \in Thread : Call(t) \/ Continue(t)

Spec == Init /\ [][Next]_vars
\* A thread inside the allocator keeps running.
FairSpec == Spec /\ \A t \in Thread : WF_vars(Continue(t))

-----------------------------------------------------------------------------
PcLabels == {"idle", "serve", "flush_own", "load", "scan", "read", "empty", "uncount",
             "claim", "write", "publish", "count"}
TypeOK ==
  /\ heap \in SUBSET Block /\ live \in SUBSET Block
  /\ cache \in [Thread -> SUBSET Block] /\ hand \in [Thread -> SUBSET Block]
  /\ tls \in [Thread -> {"free", "active", "retired"}] /\ reclaimed \in [Thread -> BOOLEAN]
  /\ slot \in [Slot -> {"empty", "writing", "ready", "taking"}]
  /\ stored \in [Slot -> SUBSET Block] /\ ready \in 0 .. Usize - 1
  /\ pc \in [Thread -> PcLabels] /\ at \in [Thread -> Slot]
  /\ call \in [Thread -> {"none", "refill", "flush", "exit"}]
  /\ want \in [Thread -> {"adopt", "steal", "drain"}]

\* Threads that are in sole possession of slot s.
Owners(s) == {t \in Thread : pc[t] \in {"read", "empty", "write", "publish"} /\ at[t] = s}
\* The cache in slot s is nowhere else.
Holds(s) == slot[s] = "ready" \/ \E t \in Owners(s) : pc[t] = "read"

\* A retired cache moves whole and once: every block is in exactly one place,
\* with the program, in the heap, in a usable thread-local cache, in a local of
\* some thread or in a queue slot.
InOnePlace ==
  \A b \in Block :
    Cardinality({t \in Thread : tls[t] # "retired" /\ b \in cache[t]})
      + Cardinality({t \in Thread : b \in hand[t]})
      + Cardinality({s \in Slot : Holds(s) /\ b \in stored[s]})
      + (IF b \in heap THEN 1 ELSE 0) + (IF b \in live THEN 1 ELSE 0) = 1

\* The ready count differs from the number of ready slots only by what the
\* threads inside retire and take_one have yet to add or to subtract, modulo
\* the width of the counter: it never strands a cache for good.
CountSettles ==
  LET adding == {t \in Thread : pc[t] = "count"}
      taking == {t \in Thread : pc[t] \in {"read", "empty", "uncount"}}
      parked == {s \in Slot : slot[s] = "ready"}
  IN  ready = (Cardinality(parked) + Cardinality(taking) - Cardinality(adding)) % Usize

\* A refill and an exit end, whatever the other threads do to the queue.
CallReturns ==
  \A t \in Thread : call[t] \in {"refill", "exit"} ~> pc[t] = "idle"

-----------------------------------------------------------------------------
(* The inductive invariant. *)

\* Block b is at the place of kind k with index i.
Kinds == {"heap", "live", "cache", "hand", "slot"}
Index == Thread \cup Slot \cup {0}
IsAt(b, k, i) ==
  \/ k = "heap" /\ i = 0 /\ b \in heap
  \/ k = "live" /\ i = 0 /\ b \in live
  \/ k = "cache" /\ i \in Thread /\ tls[i] # "retired" /\ b \in cache[i]
  \/ k = "hand" /\ i \in Thread /\ b \in hand[i]
  \/ k = "slot" /\ i \in Slot /\ Holds(i) /\ b \in stored[i]

\* InOnePlace, without counting.
Whereabouts ==
  \A b \in Block : \E k \in Kinds, i \in Index :
    \A l \in Kinds, j \in Index : IsAt(b, l, j) <=> l = k /\ j = i

\* A slot that is being written or taken has one thread at it, and what is about
\* to be published is written.
SlotInv ==
  /\ \A t \in Thread : pc[t] \in {"read", "empty"} => slot[at[t]] = "taking"
  /\ \A t \in Thread : pc[t] \in {"write", "publish"} => slot[at[t]] = "writing"
  /\ \A s \in Slot : \A t, u \in Owners(s) : t = u
  /\ \A t \in Thread : pc[t] = "publish" => stored[at[t]] = hand[t]

\* Where a call can be, and that a cache is filled only while it is usable.
CallOf(t) ==
  /\ pc[t] \notin {"empty", "uncount", "claim", "write", "publish"} => hand[t] = {}
  /\ pc[t] \in {"claim", "write", "publish", "count"} => call[t] = "exit" /\ tls[t] = "retired"
  /\ pc[t] = "serve" => call[t] = "refill"
  /\ pc[t] = "flush_own" => call[t] = "flush"
  /\ pc[t] \in {"load", "scan", "read", "empty", "uncount"} => call[t] \in {"refill", "flush"}
  /\ call[t] = "refill" => tls[t] = "active"
  /\ call[t] = "flush" => want[t] = "drain"
CallInv == \A t \in Thread : CallOf(t)

RetiredInv == TypeOK /\ SlotInv /\ CallInv /\ Whereabouts /\ CountSettles

=============================================================================
