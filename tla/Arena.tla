-------------------------------- MODULE Arena --------------------------------
(***************************************************************************)
(* The virtual-memory arena (arena.rs): one reservation, slices of pages   *)
(* claimed from its bump offset or from the store of holes, and the side   *)
(* table that leads from a page of a slice to its master.  Its clients are *)
(* the span heaps and the large regions: they carve a slice they obtained, *)
(* may grow the one at the frontier, and release it.                       *)
(*                                                                         *)
(* Offsets and lengths are counted in 64 KiB pages.  The sections under    *)
(* the hole lock are single steps: the only thing read without the lock is *)
(* hole_count, which the sections store last.                              *)
(***************************************************************************)
EXTENDS Integers, Sequences, FiniteSets, SequencesExt

CONSTANTS
  Thread,      \* threads using the arena
  Size,        \* pages of the reservation (ARENA_SIZE)
  HoleSlots,   \* HOLE_SLOTS
  HoleCap,     \* HOLE_CAP_BYTES, in pages
  ExactMax,    \* EXACT_BUCKET_MAX
  MaxRequest,  \* largest request modelled, in pages
  NoThread

ASSUME ArenaAssumption ==
  /\ Size \in Nat \ {0} /\ MaxRequest \in Nat \ {0}
  /\ HoleSlots \in Nat /\ HoleCap \in Nat /\ ExactMax \in Nat \ {0}
  /\ NoThread \notin Thread

PageIdx == 0 .. Size - 1
Slice == {s \in [off : PageIdx, n : 1 .. Size] : s.off + s.n <= Size}
Pages(s) == s.off .. s.off + s.n - 1
PagesOf(S) == UNION {Pages(s) : s \in S}
NoMaster == -1

VARIABLES
  state,      \* "uninit", "ready" or "disabled"
  guard,      \* who holds init_guard
  bump,       \* offset of the next fresh slice
  entries,    \* HoleStore.entries
  bytes,      \* HoleStore.bytes, in pages
  exact,      \* HoleStore.exact: for each length, a hint into entries (0: none)
  abandoned,  \* slices the full hole store dropped
  pc, want, off, fresh,   \* locals of a call: place, pages asked, bump read
  claim,      \* the slice a call has claimed and not yet passed on
  held,       \* the slice a call is growing
  live,       \* slices in use by a heap
  data,       \* pages holding something other than zeros
  table       \* the side table

initVars == <<state, guard>>
holeVars == <<entries, bytes, exact, abandoned>>
localVars == <<want, off, fresh, claim, held>>
userVars == <<live, data, table>>
vars == <<initVars, bump, holeVars, pc, localVars, userVars>>

PcLabels == {"idle", "check", "spin", "reserve", "publish", "unguard", "count",
             "take", "commitHole", "load", "cas", "commitBump", "carve",
             "discard", "give", "growCas", "growCommit", "extend"}

Init ==
  /\ state = "uninit" /\ guard = NoThread
  /\ bump = 0
  /\ entries = <<>> /\ bytes = 0 /\ exact = [n \in 1 .. ExactMax |-> 0]
  /\ abandoned = {}
  /\ pc = [t \in Thread |-> "idle"]
  /\ want = [t \in Thread |-> 0] /\ off = [t \in Thread |-> 0]
  /\ fresh = [t \in Thread |-> FALSE]
  /\ claim = [t \in Thread |-> {}] /\ held = [t \in Thread |-> {}]
  /\ live = {} /\ data = {} /\ table = [i \in PageIdx |-> NoMaster]

Goto(t, label) == pc' = [pc EXCEPT ![t] = label]
Claim(t, S) == claim' = [claim EXCEPT ![t] = S]
\* The call returns; its locals are out of scope.
Return(t) ==
  /\ Goto(t, "idle")
  /\ want' = [want EXCEPT ![t] = 0] /\ off' = [off EXCEPT ![t] = 0]
  /\ fresh' = [fresh EXCEPT ![t] = FALSE]
  /\ Claim(t, {}) /\ held' = [held EXCEPT ![t] = {}]

-----------------------------------------------------------------------------
(* ensure_init. *)

\* commit, up to the first load of the state.
Commit(t, n) ==
  /\ pc[t] = "idle"
  /\ want' = [want EXCEPT ![t] = n]
  /\ Goto(t, IF state = "ready" THEN "count" ELSE "check")
  /\ UNCHANGED <<initVars, bump, holeVars, off, fresh, claim, held, userVars>>

\* The second load: a disabled arena sends the caller to the legacy mapping.
Check(t) ==
  /\ pc[t] = "check"
  /\ \/ state = "disabled" /\ Return(t)
     \/ state # "disabled" /\ Goto(t, "spin") /\ UNCHANGED localVars
  /\ UNCHANGED <<initVars, bump, holeVars, userVars>>

\* init_guard.swap(1) returned 0.
EnterGuard(t) ==
  /\ pc[t] = "spin" /\ guard = NoThread
  /\ guard' = t
  /\ Goto(t, "reserve")
  /\ UNCHANGED <<state, bump, holeVars, localVars, userVars>>

\* The mmap of the reservation and the stores of its bounds and of a bump offset
\* of zero, with the state looked at again.
Reserve(t) ==
  /\ pc[t] = "reserve"
  /\ \/ /\ state = "uninit"
        /\ bump' = 0
        /\ Goto(t, "publish") /\ UNCHANGED state
     \/ /\ state = "uninit"
        /\ state' = "disabled" /\ Goto(t, "unguard")
        /\ UNCHANGED bump
     \/ /\ state # "uninit" /\ Goto(t, "unguard")
        /\ UNCHANGED <<state, bump>>
  /\ UNCHANGED <<guard, holeVars, localVars, userVars>>

Publish(t) ==
  /\ pc[t] = "publish"
  /\ state' = "ready"
  /\ Goto(t, "unguard")
  /\ UNCHANGED <<guard, bump, holeVars, localVars, userVars>>

\* Mutant of LeaveGuard: the guard stays taken on a disabled arena.
LeaveGuardIfReady(t) ==
  /\ pc[t] = "unguard"
  /\ guard' = IF state = "ready" THEN NoThread ELSE guard
  /\ IF state = "ready" THEN Goto(t, "count") /\ UNCHANGED localVars ELSE Return(t)
  /\ UNCHANGED <<state, bump, holeVars, userVars>>

LeaveGuard(t) ==
  /\ pc[t] = "unguard"
  /\ guard' = NoThread
  /\ IF state = "ready" THEN Goto(t, "count") /\ UNCHANGED localVars ELSE Return(t)
  /\ UNCHANGED <<state, bump, holeVars, userVars>>

-----------------------------------------------------------------------------
(* The hole store. *)

\* refresh_exact: the first entry of the length.
FirstOfLength(ents, n) == SelectInSeq(ents, LAMBDA e : e.n = n)
RefreshExact(ents, ex, n) ==
  IF n \in DOMAIN ex THEN [ex EXCEPT ![n] = FirstOfLength(ents, n)] ELSE ex

\* Mutant of HintValid: any entry will do.
HintInRange(ex, n) == ex[n] \in DOMAIN entries

HintValid(ex, n) == ex[n] \in DOMAIN entries /\ entries[ex[n]].n = n

\* The best-fit scan: the first entry of the least sufficient length.
BestFit(n) ==
  LET fits == {k \in {e.n : e \in ToSet(entries)} : k >= n}
  IN  IF fits = {} THEN 0
      ELSE FirstOfLength(entries, CHOOSE k \in fits : \A m \in fits : k <= m)

\* The entry holes_take decides on (0: none), from refreshed hints.
Chosen(ex, n) ==
  IF n \in DOMAIN ex /\ HintValid(ex, n) THEN ex[n] ELSE BestFit(n)

\* The lookup under the lock, and the removal or split of the entry.
TakeHole(t) ==
  LET n  == want[t]
      ex == IF n \in DOMAIN exact /\ ~HintValid(exact, n)
            THEN RefreshExact(entries, exact, n) ELSE exact
      i  == Chosen(ex, n)
      e  == entries[i]
      last == Len(entries)
      rest == [off |-> e.off + n, n |-> e.n - n]
      split == [entries EXCEPT ![i] = rest]
      moved == SubSeq([entries EXCEPT ![i] = entries[last]], 1, last - 1)
  IN
  /\ pc[t] = "take"
  /\ IF i = 0
     THEN exact' = ex /\ Goto(t, "load") /\ UNCHANGED <<entries, bytes, claim>>
     ELSE /\ bytes' = bytes - n
          /\ IF e.n > n
             THEN /\ entries' = split
                  /\ exact' = LET r == RefreshExact(split, ex, e.n) IN
                              IF rest.n \in DOMAIN r THEN [r EXCEPT ![rest.n] = i] ELSE r
             ELSE /\ entries' = moved
                  /\ exact' = RefreshExact(moved, ex, e.n)
          /\ Claim(t, {[off |-> e.off, n |-> n]})
          /\ Goto(t, "commitHole")
  /\ UNCHANGED <<initVars, bump, abandoned, want, off, fresh, held, userVars>>

\* hole_count, read without the lock.
ReadCount(t) ==
  /\ pc[t] = "count"
  /\ Goto(t, IF Len(entries) = 0 THEN "load" ELSE "take")
  /\ UNCHANGED <<initVars, bump, holeVars, localVars, userVars>>

\* holes_give: park, or abandon when the store is full.
HolesGive(s) ==
  IF Len(entries) < HoleSlots /\ bytes + s.n <= HoleCap
  THEN /\ entries' = Append(entries, s)
       /\ bytes' = bytes + s.n
       /\ exact' = IF s.n \in DOMAIN exact THEN [exact EXCEPT ![s.n] = Len(entries) + 1] ELSE exact
       /\ UNCHANGED abandoned
  ELSE abandoned' = abandoned \cup {s} /\ UNCHANGED <<entries, bytes, exact>>

Give(t) ==
  /\ pc[t] = "give"
  /\ \E s \in claim[t] : HolesGive(s)
  /\ live' = live \cup held[t]
  /\ Return(t)
  /\ UNCHANGED <<initVars, bump, data, table>>

-----------------------------------------------------------------------------
(* commit. *)

\* commit_range of a hole or of a fresh slice.
CommitRange(t) ==
  /\ pc[t] \in {"commitHole", "commitBump"}
  /\ \/ /\ data' = data \ PagesOf(claim[t])
        /\ fresh' = [fresh EXCEPT ![t] = pc[t] = "commitBump"]
        /\ Goto(t, "carve")
     \/ Goto(t, "give") /\ UNCHANGED <<data, fresh>>
  /\ UNCHANGED <<initVars, bump, holeVars, want, off, claim, held, live, table>>

\* Load the bump offset; an exhausted arena answers null.
LoadBump(t) ==
  /\ pc[t] = "load"
  /\ IF bump + want[t] <= Size
     THEN /\ off' = [off EXCEPT ![t] = bump] /\ Goto(t, "cas")
          /\ UNCHANGED <<want, fresh, claim, held>>
     ELSE Return(t)
  /\ UNCHANGED <<initVars, bump, holeVars, userVars>>

\* Mutant of CasBump: a store instead of the compare-and-swap.
CasBumpStores(t) ==
  /\ pc[t] = "cas"
  /\ bump' = off[t] + want[t]
  /\ Claim(t, {[off |-> off[t], n |-> want[t]]})
  /\ Goto(t, "commitBump")
  /\ UNCHANGED <<initVars, holeVars, want, off, fresh, held, userVars>>

CasBump(t) ==
  /\ pc[t] = "cas"
  /\ IF bump = off[t]
     THEN /\ bump' = off[t] + want[t]
          /\ Claim(t, {[off |-> off[t], n |-> want[t]]})
          /\ Goto(t, "commitBump")
     ELSE Goto(t, "load") /\ UNCHANGED <<bump, claim>>
  /\ UNCHANGED <<initVars, holeVars, want, off, fresh, held, userVars>>

\* The heap that asked writes its master into the slice, points the side table
\* at it, and uses the slice.
Carve(t) ==
  /\ pc[t] = "carve"
  /\ \E s \in claim[t] :
       /\ live' = live \cup {s}
       /\ data' = data \cup Pages(s)
       /\ table' = [i \in PageIdx |-> IF i \in Pages(s) THEN s.off ELSE table[i]]
  /\ Return(t)
  /\ UNCHANGED <<initVars, bump, holeVars>>

-----------------------------------------------------------------------------
(* grow_frontier, from try_grow_large_frontier. *)

\* The slice ends at the frontier, as far as the load can tell.
BeginGrow(t, s, n) ==
  /\ pc[t] = "idle"
  /\ s \in live /\ n > s.n
  /\ s.off + n <= Size
  /\ bump = s.off + s.n
  /\ live' = live \ {s}
  /\ held' = [held EXCEPT ![t] = {s}]
  /\ want' = [want EXCEPT ![t] = n]
  /\ Goto(t, "growCas")
  /\ UNCHANGED <<initVars, bump, holeVars, off, fresh, claim, data, table>>

GrowCas(t) ==
  /\ pc[t] = "growCas"
  /\ \E s \in held[t] :
       LET added == [off |-> s.off + s.n, n |-> want[t] - s.n] IN
       IF bump = added.off
       THEN /\ bump' = s.off + want[t] /\ Claim(t, {added})
            /\ Goto(t, "growCommit")
            /\ UNCHANGED <<want, off, fresh, held, live>>
       ELSE /\ live' = live \cup {s} /\ Return(t)
            /\ UNCHANGED bump
  /\ UNCHANGED <<initVars, holeVars, data, table>>

\* Mutant of GrowCommit: a refused range is forgotten.
GrowCommitForgets(t) ==
  /\ pc[t] = "growCommit"
  /\ \/ data' = data \ PagesOf(claim[t]) /\ Goto(t, "extend") /\ UNCHANGED <<localVars, live>>
     \/ live' = live \cup held[t] /\ Return(t) /\ UNCHANGED data
  /\ UNCHANGED <<initVars, bump, holeVars, table>>

\* commit_range of the added range; refused, it becomes a hole.
GrowCommit(t) ==
  /\ pc[t] = "growCommit"
  /\ \/ data' = data \ PagesOf(claim[t]) /\ Goto(t, "extend")
     \/ Goto(t, "give") /\ UNCHANGED data
  /\ UNCHANGED <<initVars, bump, holeVars, localVars, live, table>>

\* The caller writes the new length to the header and extends the side table.
Extend(t) ==
  /\ pc[t] = "extend"
  /\ \E s \in held[t], added \in claim[t] :
       /\ live' = live \cup {[off |-> s.off, n |-> want[t]]}
       /\ data' = data \cup Pages(added)
       /\ table' = [i \in PageIdx |-> IF i \in Pages(added) THEN s.off ELSE table[i]]
  /\ Return(t)
  /\ UNCHANGED <<initVars, bump, holeVars>>

-----------------------------------------------------------------------------
(* release. *)

\* Mutants of BeginRelease: the side table is left alone; the slice is parked
\* before it is discarded.
BeginReleaseKeepsTable(t, s) ==
  /\ pc[t] = "idle" /\ s \in live
  /\ live' = live \ {s}
  /\ Claim(t, {s})
  /\ Goto(t, "discard")
  /\ UNCHANGED <<initVars, bump, holeVars, want, off, fresh, held, data, table>>
BeginReleaseParks(t, s) ==
  /\ pc[t] = "idle" /\ s \in live
  /\ live' = live \ {s}
  /\ HolesGive(s)
  /\ table' = [i \in PageIdx |-> IF i \in Pages(s) THEN NoMaster ELSE table[i]]
  /\ Claim(t, {s})
  /\ Goto(t, "discard")
  /\ UNCHANGED <<initVars, bump, want, off, fresh, held, data>>

\* The heap gives up the slice: the side table is cleared first.
BeginRelease(t, s) ==
  /\ pc[t] = "idle" /\ s \in live
  /\ live' = live \ {s}
  /\ table' = [i \in PageIdx |-> IF i \in Pages(s) THEN NoMaster ELSE table[i]]
  /\ Claim(t, {s})
  /\ Goto(t, "discard")
  /\ UNCHANGED <<initVars, bump, holeVars, want, off, fresh, held, data>>

\* discard, before the slice is parked; it may fail to drop anything.
Discard(t) ==
  /\ pc[t] = "discard"
  /\ \/ data' = data \ PagesOf(claim[t])
     \/ UNCHANGED data
  /\ Goto(t, "give")
  /\ UNCHANGED <<initVars, bump, holeVars, localVars, live, table>>

-----------------------------------------------------------------------------
\* A call into the arena.
Call(t) ==
  \/ \E n \in 1 .. MaxRequest : Commit(t, n)
  \/ \E s \in live : BeginRelease(t, s) \/ \E n \in 1 .. Size : BeginGrow(t, s, n)

\* A step of a call.
Step(t) ==
  \/ Check(t) \/ EnterGuard(t) \/ Reserve(t) \/ Publish(t) \/ LeaveGuard(t)
  \/ ReadCount(t) \/ TakeHole(t) \/ CommitRange(t) \/ Give(t)
  \/ LoadBump(t) \/ CasBump(t) \/ Carve(t)
  \/ GrowCas(t) \/ GrowCommit(t) \/ Extend(t)
  \/ Discard(t)

Next == \E t \in Thread : Call(t) \/ Step(t)

Spec == Init /\ [][Next]_vars

\* A thread inside the arena keeps running.
FairSpec == Spec /\ \A t \in Thread : WF_vars(Step(t))

-----------------------------------------------------------------------------
TypeOK ==
  /\ state \in {"uninit", "ready", "disabled"}
  /\ guard \in Thread \cup {NoThread}
  /\ bump \in 0 .. Size
  /\ entries \in Seq(Slice) /\ bytes \in Nat
  /\ exact \in [1 .. ExactMax -> Nat]
  /\ abandoned \in SUBSET Slice
  /\ pc \in [Thread -> PcLabels]
  /\ want \in [Thread -> Nat] /\ off \in [Thread -> Nat]
  /\ fresh \in [Thread -> BOOLEAN]
  /\ claim \in [Thread -> SUBSET Slice] /\ held \in [Thread -> SUBSET Slice]
  /\ live \in SUBSET Slice
  /\ data \in SUBSET PageIdx
  /\ table \in [PageIdx -> PageIdx \cup {NoMaster}]

InUse == live \cup UNION {held[t] : t \in Thread}
HolePages == PagesOf(ToSet(entries))
ClaimPages == UNION {PagesOf(claim[t]) : t \in Thread}
Apart(s, r) == Pages(s) \cap Pages(r) = {}

\* A page of the reservation has one owner: no two slices in use, holes, claims
\* under way or abandoned slices overlap.  (The bump compare-and-swap and the
\* removal of a hole under the lock are what entitles commit_range to MAP_FIXED.)
Exclusive ==
  /\ \A s, r \in InUse : s # r => Apart(s, r)
  /\ \A t \in Thread : held[t] \cap live = {}
  /\ \A i, j \in DOMAIN entries : i # j => Apart(entries[i], entries[j])
  /\ \A s, r \in abandoned : s # r => Apart(s, r)
  /\ \A t, u \in Thread : t # u => PagesOf(claim[t]) \cap PagesOf(claim[u]) = {}
  /\ HolePages \cap (PagesOf(InUse) \cup ClaimPages \cup PagesOf(abandoned)) = {}
  /\ ClaimPages \cap (PagesOf(InUse) \cup PagesOf(abandoned)) = {}
  /\ PagesOf(InUse) \cap PagesOf(abandoned) = {}

\* No address space is lost below the frontier, whatever fails, except what the
\* full hole store abandoned; nothing is handed out above it.  HoleStore.bytes,
\* against which the cap is tested, is the number of pages the holes cover.
Accounted ==
  /\ PagesOf(InUse) \cup HolePages \cup ClaimPages \cup PagesOf(abandoned) = 0 .. bump - 1
  /\ bytes = Cardinality(HolePages)

\* Memory in use is never replaced or discarded under its user.
InUseIntact == PagesOf(InUse) \subseteq data

\* The side table leads from every page in use to its own master, and from no
\* other page to anything: holes and pages being released are clean.
TableExact ==
  /\ \A s \in InUse : \A i \in Pages(s) : table[i] = s.off
  /\ \A i \in PageIdx \ PagesOf(InUse) : table[i] = NoMaster

\* holes_take, with its hints, is best fit: it takes a least sufficient hole,
\* and gives up only when no hole is long enough.
TakesBestFit ==
  [][\A t \in Thread : pc[t] = "take" /\ pc'[t] # "take" =>
       LET fits == {e \in ToSet(entries) : e.n >= want[t]} IN
       IF fits = {} THEN claim'[t] = {}
       ELSE \E e \in fits : /\ \A f \in fits : e.n <= f.n
                            /\ claim'[t] = {[off |-> e.off, n |-> want[t]]}]_vars

\* Every call into the arena returns: the guard's spin and the bump's
\* compare-and-swap loop end, whatever the other threads do.
CallReturns == \A t \in Thread : pc[t] # "idle" ~> pc[t] = "idle"

-----------------------------------------------------------------------------
(* The inductive invariant. *)

\* Places a call reaches without a reservation, and those where it has nothing
\* in hand.
Unready == {"idle", "check", "spin", "reserve", "publish", "unguard"}
EmptyHanded == Unready \cup {"count", "take", "load", "cas"}

\* The guard admits one thread, the reservation is published once, and no offset
\* is handed out before.
GuardInv ==
  /\ \A t \in Thread : pc[t] \in {"reserve", "publish", "unguard"} <=> guard = t
  /\ \A t \in Thread : pc[t] = "publish" => state = "uninit"
  /\ state # "ready" => bump = 0

\* The range grow_frontier adds to a slice that is to have n pages.
Added(s, n) == [off |-> s.off + s.n, n |-> n - s.n]

\* What a call has in hand at each place.
Hands(t) ==
  /\ pc[t] \notin Unready => state = "ready"
  /\ pc[t] \in EmptyHanded => claim[t] = {} /\ held[t] = {}
  /\ pc[t] \in EmptyHanded \ {"idle"} => want[t] >= 1
  /\ pc[t] = "cas" => off[t] + want[t] <= Size
  /\ pc[t] \in {"commitHole", "commitBump", "carve", "discard", "give"} =>
       \E s \in Slice : claim[t] = {s}
  /\ pc[t] \in {"commitHole", "commitBump", "carve", "discard"} => held[t] = {}
  /\ pc[t] \in {"growCas", "growCommit", "extend"} =>
       \E s \in Slice : /\ held[t] = {s} /\ want[t] > s.n /\ s.off + want[t] <= Size
                        /\ claim[t] = IF pc[t] = "growCas" THEN {} ELSE {Added(s, want[t])}

\* A slice is grown by one call at a time.
HeldApart == \A t, u \in Thread : t # u => held[t] \cap held[u] = {}

ArenaInv ==
  /\ TypeOK /\ GuardInv /\ \A t \in Thread : Hands(t)
  /\ HeldApart /\ Exclusive /\ Accounted /\ InUseIntact /\ TableExact

=============================================================================
