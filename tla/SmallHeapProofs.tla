--------------------------- MODULE SmallHeapProofs ---------------------------
(***************************************************************************)
(* SafetyInv is an invariant of SmallHeap, for any number of threads,      *)
(* pages and blocks, any batch sizes and caps, and any backend; with it    *)
(* Exclusive, UsedExact, FreeListExact, Pinned and NoPageLost.  A size     *)
(* class then implements AllocContract.                                    *)
(***************************************************************************)
EXTENDS SmallHeap, FiniteSetTheorems, TLAPS

-----------------------------------------------------------------------------
(* Sequences of blocks. *)

\* The first k elements of a sequence.
LEMMA PrefixFacts ==
  ASSUME NEW S, NEW s \in Seq(S), NEW k \in 0 .. Len(s)
  PROVE  /\ SubSeq(s, 1, k) \in Seq(S)
         /\ Len(SubSeq(s, 1, k)) = k
         /\ \A i \in 1 .. k : SubSeq(s, 1, k)[i] = s[i]
  OBVIOUS

\* A sequence with one element put on top.
LEMMA AppendFacts ==
  ASSUME NEW S, NEW s \in Seq(S), NEW x \in S
  PROVE  /\ Append(s, x) \in Seq(S)
         /\ Len(Append(s, x)) = Len(s) + 1
         /\ \A i \in 1 .. Len(s) : Append(s, x)[i] = s[i]
         /\ Append(s, x)[Len(s) + 1] = x
  OBVIOUS

\* push_block adds the one block.
LEMMA PushBlock ==
  ASSUME NEW s \in Seq(Block), NEW b \in Block
  PROVE  /\ Append(s, b) \in Seq(Block)
         /\ SeqBlocks(Append(s, b)) = SeqBlocks(s) \cup {b}
         /\ Distinct(s) /\ b \notin SeqBlocks(s) => Distinct(Append(s, b))
  <1>1. Append(s, b) \in Seq(Block) /\ Len(Append(s, b)) = Len(s) + 1
    BY AppendFacts
  <1>2. Len(s) \in Nat
    OBVIOUS
  <1>3. SeqBlocks(Append(s, b)) = SeqBlocks(s) \cup {b}
    BY <1>1, <1>2, AppendFacts DEF SeqBlocks
  <1>4. Distinct(s) /\ b \notin SeqBlocks(s) => Distinct(Append(s, b))
    BY <1>1, <1>2, AppendFacts DEF SeqBlocks, Distinct
  <1> QED
    BY <1>1, <1>3, <1>4

\* Popping down to length k splits the blocks in two disjoint parts.
LEMMA PopBlocks ==
  ASSUME NEW s \in Seq(Block), Distinct(s), NEW k \in 0 .. Len(s)
  PROVE  LET r == SubSeq(s, 1, k)
             g == {s[i] : i \in k + 1 .. Len(s)}
         IN  /\ r \in Seq(Block) /\ Len(r) = k
             /\ Distinct(r)
             /\ g \subseteq Block
             /\ SeqBlocks(r) \cup g = SeqBlocks(s)
             /\ SeqBlocks(r) \cap g = {}
  <1> DEFINE r == SubSeq(s, 1, k)
             g == {s[i] : i \in k + 1 .. Len(s)}
  <1>1. r \in Seq(Block) /\ Len(r) = k /\ \A i \in 1 .. k : r[i] = s[i]
    BY PrefixFacts
  <1>2. Len(s) \in Nat /\ \A i \in 1 .. Len(s) : s[i] \in Block
    OBVIOUS
  <1> HIDE DEF r
  <1>3. Distinct(r)
    BY <1>1, <1>2 DEF Distinct
  <1>4. SeqBlocks(r) \cup g = SeqBlocks(s)
    BY <1>1, <1>2 DEF SeqBlocks
  <1>5. SeqBlocks(r) \cap g = {}
    BY <1>1, <1>2 DEF SeqBlocks, Distinct
  <1>6. g \subseteq Block
    BY <1>2
  <1> QED
    BY <1>1, <1>3, <1>4, <1>5, <1>6 DEF r

\* pop_block removes the one block on top.
LEMMA PopBlock ==
  ASSUME NEW s \in Seq(Block), Distinct(s), s # <<>>
  PROVE  /\ Top(s) \in Block
         /\ Below(s) \in Seq(Block) /\ Len(Below(s)) = Len(s) - 1
         /\ Distinct(Below(s))
         /\ SeqBlocks(Below(s)) \cup {Top(s)} = SeqBlocks(s)
         /\ Top(s) \notin SeqBlocks(Below(s))
  <1>1. Len(s) \in Nat /\ Len(s) > 0 /\ s[Len(s)] \in Block
    OBVIOUS
  <1>2. Len(s) - 1 \in 0 .. Len(s)
    BY <1>1
  <1>3. {s[i] : i \in (Len(s) - 1) + 1 .. Len(s)} = {s[Len(s)]}
    <2>1. (Len(s) - 1) + 1 .. Len(s) = {Len(s)}
      BY <1>1
    <2> QED
      BY <2>1
  <1> QED
    BY <1>1, <1>2, <1>3, PopBlocks DEF Top, Below

\* The empty sequence holds no block.
LEMMA EmptyBlocks == SeqBlocks(<<>>) = {} /\ Distinct(<<>>) /\ <<>> \in Seq(Block)
  BY DEF SeqBlocks, Distinct

\* The blocks of a sequence of blocks are blocks.
LEMMA SeqBlocksType == ASSUME NEW s \in Seq(Block) PROVE SeqBlocks(s) \subseteq Block
  BY DEF SeqBlocks

-----------------------------------------------------------------------------
(* Cardinalities of sets of indices. *)

\* Sets of block indices are finite.
LEMMA IndexFinite ==
  ASSUME NEW S \in SUBSET Index
  PROVE  IsFiniteSet(S) /\ Cardinality(S) \in Nat /\ Cardinality(S) <= Capacity
  <1>1. IsFiniteSet(Index) /\ Cardinality(Index) = Capacity
    BY FS_Interval, SmallHeapAssumption DEF Index
  <1> QED
    BY <1>1, FS_Subset, FS_CardinalityType

\* Moving one index in.
LEMMA AddIndex ==
  ASSUME NEW S \in SUBSET Index, NEW i \in Index, i \notin S
  PROVE  Cardinality(S \cup {i}) = Cardinality(S) + 1
  BY IndexFinite, FS_AddElement

\* Splitting a set of indices.
LEMMA SplitIndex ==
  ASSUME NEW S \in SUBSET Index, NEW R \in SUBSET S
  PROVE  /\ Cardinality(S \ R) = Cardinality(S) - Cardinality(R)
         /\ Cardinality(R) <= Cardinality(S)
         /\ Cardinality(R) = Cardinality(S) => R = S
  <1>1. IsFiniteSet(S) /\ R \in SUBSET Index
    BY IndexFinite
  <1>2. S \cap R = R
    OBVIOUS
  <1> QED
    BY <1>1, <1>2, FS_Difference, FS_Subset

\* A set of indices has no element exactly when its cardinality is zero.
LEMMA NoIndex ==
  ASSUME NEW S \in SUBSET Index
  PROVE  Cardinality(S) = 0 <=> S = {}
  BY IndexFinite, FS_EmptySet

-----------------------------------------------------------------------------
(* Frame lemmas. *)

\* Blocks held by threads and the program stay where they are.
LEMMA BlocksStay ==
  ASSUME Exclusive, UNCHANGED <<bin, chain, rel, live>>
  PROVE  Exclusive' /\ Outside' = Outside
  BY DEF Exclusive, ThreadExclusive, CachedBy, Outside

\* Blocks move between a thread and the program, or within a thread.
LEMMA BlocksMove ==
  ASSUME Exclusive, NEW t \in Thread,
         \A u \in Thread : u # t => bin'[u] = bin[u] /\ chain'[u] = chain[u] /\ rel'[u] = rel[u],
         ThreadExclusive(t)',
         CachedBy(t)' \cap live' = {},
         CachedBy(t)' \cup live' = CachedBy(t) \cup live,
         live' \subseteq live \cup CachedBy(t),
         CachedBy(t)' \subseteq live \cup CachedBy(t)
  PROVE  Exclusive' /\ Outside' = Outside
  <1>1. \A u \in Thread : u # t => CachedBy(u)' = CachedBy(u) /\ (ThreadExclusive(u)' <=> ThreadExclusive(u))
    BY DEF CachedBy, ThreadExclusive
  <1>2. Outside' = Outside
    BY <1>1 DEF Outside
  <1>3. Exclusive'
    BY <1>1 DEF Exclusive
  <1> QED
    BY <1>2, <1>3

\* The part of the invariant that is about pages.
PageInv == ListsInv /\ InUseInv /\ UsedExact /\ FreeListExact

\* Pages stay where they are.
LEMMA PagesStay ==
  ASSUME PageInv, UNCHANGED <<partial, empty, cold, used, free, mem, leaked, own>>,
         Outside' = Outside
  PROVE  PageInv'
  <1>1. ColdPages' = ColdPages /\ OwnPages' = OwnPages
    BY DEF ColdPages, OwnPages
  <1>2. Parked' = Parked
    BY <1>1 DEF Parked
  <1>3. ListsInv'
    BY <1>1, <1>2 DEF PageInv, ListsInv
  <1>4. InUseInv'
    BY <1>2 DEF PageInv, InUseInv
  <1>5. \A p \in Page : Out(p)' = Out(p)
    BY DEF Out
  <1>6. UsedExact'
    BY <1>5 DEF PageInv, UsedExact
  <1>7. FreeListExact'
    BY <1>5 DEF PageInv, FreeListExact, Carved
  <1> QED
    BY <1>3, <1>4, <1>6, <1>7 DEF PageInv

\* Out is a set of indices.
LEMMA OutType == \A p \in Page : Out(p) \in SUBSET Index
  BY DEF Out

-----------------------------------------------------------------------------
(* One step keeps the invariant, part by part. *)

\* What a thread does to its locals leaves those of the others alone.
Others(t) ==
  \A u \in Thread : u # t =>
    /\ pc'[u] = pc[u] /\ mode'[u] = mode[u]
    /\ bin'[u] = bin[u] /\ chain'[u] = chain[u] /\ rel'[u] = rel[u] /\ own'[u] = own[u]

\* Every step of a thread is local to it.
LEMMA OthersStep ==
  ASSUME TypeOK, NEW t \in Thread, Call(t) \/ Continue(t)
  PROVE  Others(t)
  <1>0. /\ pc \in [Thread -> PcLabels] /\ mode \in [Thread -> {"cache", "direct", "exit"}]
        /\ bin \in [Thread -> Seq(Block)] /\ chain \in [Thread -> Seq(Block)]
        /\ rel \in [Thread -> SUBSET Block] /\ own \in [Thread -> SUBSET Page]
    BY DEF TypeOK
  <1> USE <1>0 DEF Others, Goto, SetMode, Return, binVars, takeVars, relVars
  <1>1. CASE AllocHit(t)
    BY <1>1 DEF AllocHit
  <1>2. CASE BeginTake(t)
    BY <1>2 DEF BeginTake, Acquire
  <1>3. CASE FlushAll(t)
    BY <1>3 DEF FlushAll
  <1>4. CASE FillBlock(t)
    BY <1>4 DEF FillBlock, Filling
  <1>5. CASE TakeEmpty(t)
    BY <1>5 DEF TakeEmpty, InitPage
  <1>6. CASE TakeCold(t)
    BY <1>6 DEF TakeCold, InitPage
  <1>7. CASE FillDone(t)
    BY <1>7 DEF FillDone, Filling, Finish, Release
  <1>8. CASE FillEmpty(t)
    BY <1>8 DEF FillEmpty, Release
  <1>9. CASE MapPage(t)
    BY <1>9 DEF MapPage, InitPage
  <1>10. CASE MapFails(t)
    BY <1>10 DEF MapFails
  <1>11. CASE Relock(t)
    BY <1>11 DEF Relock, Acquire
  <1>12. CASE GiveBack(t)
    BY <1>12 DEF GiveBack
  <1>13. CASE Trim(t)
    BY <1>13 DEF Trim
  <1>14. CASE FlushChunkStep(t)
    BY <1>14 DEF FlushChunkStep
  <1>15. CASE ReleaseLock(t)
    BY <1>15 DEF ReleaseLock, Acquire
  <1>16. CASE ReleaseGroup(t)
    BY <1>16 DEF ReleaseGroup, RetirePage, ReleaseInner, Park
  <1>17. CASE ReleaseUnlock(t)
    BY <1>17 DEF ReleaseUnlock, Release
  <1>18. CASE UnmapPage(t)
    BY <1>18 DEF UnmapPage
  <1>19. CASE FatesDone(t)
    BY <1>19 DEF FatesDone
  <1>20. ASSUME NEW b \in Block, Free(t, b) PROVE Others(t)
    BY <1>20 DEF Free
  <1>21. ASSUME NEW b \in Block, FreeDirect(t, b) PROVE Others(t)
    BY <1>21 DEF FreeDirect
  <1>22. CASE Pressure(t)
    BY <1>22 DEF Pressure
  <1> QED
    BY <1>1, <1>2, <1>3, <1>4, <1>5, <1>6, <1>7, <1>8, <1>9, <1>10, <1>11, <1>12, <1>13, <1>14, <1>15, <1>16, <1>17, <1>18, <1>19, <1>20, <1>21, <1>22 DEF Call, Continue

\* The lock is held exactly by a thread inside a critical section.
LEMMA LockStep ==
  ASSUME TypeOK, LockInv, NEW t \in Thread, Call(t) \/ Continue(t)
  PROVE  LockInv'
  <1>0. pc \in [Thread -> PcLabels] /\ NoThread \notin Thread
    BY SmallHeapAssumption DEF TypeOK
  <1> USE <1>0 DEF LockInv, Goto, Return
  <1>1. CASE AllocHit(t)
    BY <1>1 DEF AllocHit
  <1>2. CASE BeginTake(t)
    BY <1>2 DEF BeginTake, Acquire
  <1>3. CASE FlushAll(t)
    BY <1>3 DEF FlushAll
  <1>4. CASE FillBlock(t)
    BY <1>4 DEF FillBlock, Filling
  <1>5. CASE TakeEmpty(t)
    BY <1>5 DEF TakeEmpty, InitPage
  <1>6. CASE TakeCold(t)
    BY <1>6 DEF TakeCold, InitPage
  <1>7. CASE FillDone(t)
    BY <1>7 DEF FillDone, Filling, Finish, Release
  <1>8. CASE FillEmpty(t)
    BY <1>8 DEF FillEmpty, Release
  <1>9. CASE MapPage(t)
    BY <1>9 DEF MapPage, InitPage
  <1>10. CASE MapFails(t)
    BY <1>10 DEF MapFails
  <1>11. CASE Relock(t)
    BY <1>11 DEF Relock, Acquire
  <1>12. CASE GiveBack(t)
    BY <1>12 DEF GiveBack
  <1>13. CASE Trim(t)
    BY <1>13 DEF Trim
  <1>14. CASE FlushChunkStep(t)
    BY <1>14 DEF FlushChunkStep
  <1>15. CASE ReleaseLock(t)
    BY <1>15 DEF ReleaseLock, Acquire
  <1>16. CASE ReleaseGroup(t)
    BY <1>16 DEF ReleaseGroup, RetirePage, ReleaseInner, Park
  <1>17. CASE ReleaseUnlock(t)
    BY <1>17 DEF ReleaseUnlock, Release
  <1>18. CASE UnmapPage(t)
    BY <1>18 DEF UnmapPage
  <1>19. CASE FatesDone(t)
    BY <1>19 DEF FatesDone
  <1>20. ASSUME NEW b \in Block, Free(t, b) PROVE LockInv'
    BY <1>20 DEF Free
  <1>21. ASSUME NEW b \in Block, FreeDirect(t, b) PROVE LockInv'
    BY <1>21 DEF FreeDirect
  <1>22. CASE Pressure(t)
    BY <1>22 DEF Pressure
  <1> QED
    BY <1>1, <1>2, <1>3, <1>4, <1>5, <1>6, <1>7, <1>8, <1>9, <1>10, <1>11, <1>12, <1>13, <1>14, <1>15, <1>16, <1>17, <1>18, <1>19, <1>20, <1>21, <1>22 DEF Call, Continue

\* A thread's locals are in use only where its program counter says so.
LEMMA LocalsStep ==
  ASSUME TypeOK, LockInv, LocalsInv, NEW t \in Thread, Call(t) \/ Continue(t)
  PROVE  LocalsInv'
  <1>0. /\ pc \in [Thread -> PcLabels] /\ mode \in [Thread -> {"cache", "direct", "exit"}]
        /\ bin \in [Thread -> Seq(Block)] /\ chain \in [Thread -> Seq(Block)]
        /\ rel \in [Thread -> SUBSET Block] /\ own \in [Thread -> SUBSET Page]
    BY DEF TypeOK
  <1>a. LocalsOf(t) /\ (lock = t => pc[t] \in {"fill", "refill", "splice"})
    BY DEF LocalsInv, LockInv
  <1>b. SUFFICES LocalsOf(t)'
    BY OthersStep DEF LocalsInv, LocalsOf, Others
  <1> USE <1>0, <1>a DEF LocalsOf, Goto, SetMode, Return, binVars, takeVars, relVars
  <1>1. CASE AllocHit(t)
    BY <1>1 DEF AllocHit
  <1>2. CASE BeginTake(t)
    BY <1>2 DEF BeginTake, Acquire
  <1>3. CASE FlushAll(t)
    BY <1>3 DEF FlushAll
  <1>4. CASE FillBlock(t)
    BY <1>4 DEF FillBlock, Filling
  <1>5. CASE TakeEmpty(t)
    BY <1>5 DEF TakeEmpty, InitPage
  <1>6. CASE TakeCold(t)
    BY <1>6 DEF TakeCold, InitPage
  <1>7. CASE FillDone(t)
    BY <1>7 DEF FillDone, Filling, Finish, Release
  <1>8. CASE FillEmpty(t)
    BY <1>8 DEF FillEmpty, Release
  <1>9. CASE MapPage(t)
    BY <1>9 DEF MapPage, InitPage
  <1>10. CASE MapFails(t)
    BY <1>10 DEF MapFails
  <1>11. CASE Relock(t)
    BY <1>11 DEF Relock, Acquire
  <1>12. CASE GiveBack(t)
    BY <1>12 DEF GiveBack
  <1>13. CASE Trim(t)
    BY <1>13 DEF Trim
  <1>14. CASE FlushChunkStep(t)
    BY <1>14 DEF FlushChunkStep
  <1>15. CASE ReleaseLock(t)
    BY <1>15 DEF ReleaseLock, Acquire
  <1>16. CASE ReleaseGroup(t)
    BY <1>16 DEF ReleaseGroup, RetirePage, ReleaseInner, Park
  <1>17. CASE ReleaseUnlock(t)
    BY <1>17 DEF ReleaseUnlock, Release
  <1>18. CASE UnmapPage(t)
    BY <1>18 DEF UnmapPage
  <1>19. CASE FatesDone(t)
    BY <1>19 DEF FatesDone
  <1>20. ASSUME NEW b \in Block, Free(t, b) PROVE LocalsOf(t)'
    BY <1>20 DEF Free
  <1>21. ASSUME NEW b \in Block, FreeDirect(t, b) PROVE LocalsOf(t)'
    BY <1>21 DEF FreeDirect
  <1>22. CASE Pressure(t)
    BY <1>22 DEF Pressure
  <1> QED
    BY <1>1, <1>2, <1>3, <1>4, <1>5, <1>6, <1>7, <1>8, <1>9, <1>10, <1>11, <1>12, <1>13, <1>14, <1>15, <1>16, <1>17, <1>18, <1>19, <1>20, <1>21, <1>22 DEF Call, Continue

\* The list head a thread works on stays on the list.
LEMMA HeadStep ==
  ASSUME TypeOK, LockInv, LocalsInv, HeadInv, NEW t \in Thread, Call(t) \/ Continue(t)
  PROVE  HeadInv'
  <1>0. pc \in [Thread -> PcLabels] /\ NoThread \notin Thread /\ NoPage \notin Page
    BY SmallHeapAssumption DEF TypeOK
  <1> USE <1>0 DEF HeadInv, LockInv, Goto, Return, listVars, takeVars
  <1>1. CASE AllocHit(t)
    BY <1>1 DEF AllocHit
  <1>2. CASE BeginTake(t)
    BY <1>2 DEF BeginTake, Acquire
  <1>3. CASE FlushAll(t)
    BY <1>3 DEF FlushAll
  <1>4. CASE FillBlock(t)
    BY <1>4 DEF FillBlock, Filling, HeadPages
  <1>5. CASE TakeEmpty(t)
    BY <1>5 DEF TakeEmpty, InitPage
  <1>6. CASE TakeCold(t)
    BY <1>6 DEF TakeCold, InitPage
  <1>7. CASE FillDone(t)
    BY <1>7 DEF FillDone, Filling, Finish, Release
  <1>8. CASE FillEmpty(t)
    BY <1>8 DEF FillEmpty, Release
  <1>9. CASE MapPage(t)
    BY <1>9 DEF MapPage, InitPage
  <1>10. CASE MapFails(t)
    BY <1>10 DEF MapFails
  <1>11. CASE Relock(t)
    BY <1>11 DEF Relock, Acquire
  <1>12. CASE GiveBack(t)
    BY <1>12 DEF GiveBack
  <1>13. CASE Trim(t)
    BY <1>13 DEF Trim
  <1>14. CASE FlushChunkStep(t)
    BY <1>14 DEF FlushChunkStep
  <1>15. CASE ReleaseLock(t)
    BY <1>15 DEF ReleaseLock, Acquire
  <1>16. CASE ReleaseGroup(t)
    BY <1>16 DEF ReleaseGroup, RetirePage, ReleaseInner, Park
  <1>17. CASE ReleaseUnlock(t)
    BY <1>17 DEF ReleaseUnlock, Release
  <1>18. CASE UnmapPage(t)
    BY <1>18 DEF UnmapPage
  <1>19. CASE FatesDone(t)
    BY <1>19 DEF FatesDone
  <1>20. ASSUME NEW b \in Block, Free(t, b) PROVE HeadInv'
    BY <1>20 DEF Free
  <1>21. ASSUME NEW b \in Block, FreeDirect(t, b) PROVE HeadInv'
    BY <1>21 DEF FreeDirect
  <1>22. CASE Pressure(t)
    BY <1>22 DEF Pressure
  <1> QED
    BY <1>1, <1>2, <1>3, <1>4, <1>5, <1>6, <1>7, <1>8, <1>9, <1>10, <1>11, <1>12, <1>13, <1>14, <1>15, <1>16, <1>17, <1>18, <1>19, <1>20, <1>21, <1>22 DEF Call, Continue

\* TypeOK for the variables that are functions into simple sets.
LEMMA TypedVars ==
  ASSUME TypeOK
  PROVE  /\ used \in [Page -> Nat] /\ free \in [Page -> SUBSET Index] /\ flags \in [Page -> SUBSET PageFlags]
         /\ floor \in [Thread -> Nat] /\ watermark \in [Thread -> Nat] /\ own \in [Thread -> SUBSET Page]
         /\ bin \in [Thread -> Seq(Block)] /\ chain \in [Thread -> Seq(Block)]
         /\ empty \subseteq Page
  BY DEF TypeOK

\* The control variables stay in their range.
LEMMA ControlType ==
  ASSUME TypeOK, NEW t \in Thread, NEW l \in PcLabels, NEW m \in {"cache", "direct", "exit"}
  PROVE  /\ [pc EXCEPT ![t] = l] \in [Thread -> PcLabels]
         /\ [mode EXCEPT ![t] = m] \in [Thread -> {"cache", "direct", "exit"}]
         /\ pc \in [Thread -> PcLabels] /\ mode \in [Thread -> {"cache", "direct", "exit"}]
  <1>1. pc \in [Thread -> PcLabels] /\ mode \in [Thread -> {"cache", "direct", "exit"}]
    BY DEF TypeOK
  <1> QED
    BY <1>1

\* The program's sets stay sets of blocks.
LEMMA ServeType ==
  ASSUME TypeOK, NEW b \in Block, NEW claim \in BOOLEAN, Serve(b, claim)
  PROVE  live' \in SUBSET Block /\ dirty' \in SUBSET Block /\ zeroed' \in SUBSET Block
  BY DEF TypeOK, Serve

\* FillBlock, with the page and the block it takes named.
Listed(t, p) == IF free[p] # {} THEN free[p] ELSE Provision(p, RefillBatch - Len(chain[t]))
FillTake(t, p, i) ==
  /\ chain' = [chain EXCEPT ![t] = Append(@, <<p, i>>)]
  /\ virgin' = [virgin EXCEPT ![t] = @ /\ "VIRGIN" \in flags[p]]
  /\ free' = [free EXCEPT ![p] = Listed(t, p) \ {i}]
  /\ used' = [used EXCEPT ![p] = @ + 1]
  /\ IF Listed(t, p) = {i} /\ used[p] + 1 >= Capacity
     THEN partial' = partial \ {p} /\ page' = NoPage
     ELSE UNCHANGED partial /\ page' = p
FillAt(t, p) == \E i \in Listed(t, p) : FillTake(t, p, i)

\* FillBlock takes a block of the page at the head.
LEMMA FillBlockAt ==
  ASSUME NEW t \in Thread, FillBlock(t)
  PROVE  \E p \in HeadPages : FillAt(t, p)
  BY DEF FillBlock, FillAt, FillTake, Listed

\* The head is a page of the partial list.
LEMMA HeadInPage ==
  ASSUME TypeOK, HeadInv
  PROVE  HeadPages \subseteq partial /\ partial \subseteq Page
  BY DEF TypeOK, HeadPages, HeadInv

\* provision stays inside the page.
LEMMA ListedType ==
  ASSUME TypeOK, NEW t \in Thread, NEW p \in Page, Len(chain[t]) < RefillBatch
  PROVE  Listed(t, p) \in SUBSET Index
  <1>1. used[p] \in Nat /\ free[p] \in SUBSET Index /\ Cardinality(free[p]) \in Nat
    BY IndexFinite DEF TypeOK
  <1>2. Len(chain[t]) \in Nat
    BY DEF TypeOK
  <1> QED
    BY SMTT(30), <1>1, <1>2, SmallHeapAssumption DEF Listed, Provision, Min2, Index

\* FlushChunkStep on a bin above its floor pops it down to some length.
FlushTo(t, keep) ==
  /\ rel' = [rel EXCEPT ![t] = {bin[t][i] : i \in keep + 1 .. Len(bin[t])}]
  /\ bin' = [bin EXCEPT ![t] = SubSeq(@, 1, keep)]
  /\ watermark' = [watermark EXCEPT ![t] = Min2(@, keep)]
  /\ Goto(t, "release")

\* That length is within the bin.
LEMMA FlushAt ==
  ASSUME TypeOK, NEW t \in Thread, FlushChunkStep(t), ~(Len(bin[t]) <= floor[t])
  PROVE  \E keep \in 0 .. Len(bin[t]) : FlushTo(t, keep)
  <1> DEFINE len == Len(bin[t])
             k == IF len <= floor[t] + FlushChunk THEN floor[t] ELSE len - FlushChunk
  <1>1. len \in Nat /\ floor[t] \in Nat
    BY DEF TypeOK
  <1>2. k \in 0 .. len
    BY <1>1, SmallHeapAssumption
  <1>3. FlushTo(t, k)
    BY DEF FlushChunkStep, FlushTo
  <1> QED
    BY <1>2, <1>3

\* The blocks a thread is about to release are out of their page.
LEMMA GroupOut ==
  ASSUME TypeOK, UsedExact, NEW t \in Thread, NEW p \in Page
  PROVE  /\ Group(t, p) \in SUBSET Out(p) /\ Group(t, p) \in SUBSET Index
         /\ Cardinality(Group(t, p)) \in Nat
         /\ used[p] - Cardinality(Group(t, p)) \in Nat
         /\ used[p] = Cardinality(Group(t, p)) => Group(t, p) = Out(p)
  <1>1. Group(t, p) \in SUBSET Out(p) /\ Out(p) \in SUBSET Index
    BY DEF Group, Out, Outside, CachedBy
  <1>2. used[p] = Cardinality(Out(p))
    BY DEF UsedExact
  <1>3. Cardinality(Group(t, p)) \in Nat /\ Cardinality(Out(p)) \in Nat
    BY <1>1, IndexFinite
  <1>4. /\ Cardinality(Group(t, p)) <= Cardinality(Out(p))
        /\ Cardinality(Group(t, p)) = Cardinality(Out(p)) => Group(t, p) = Out(p)
    BY <1>1, SplitIndex
  <1> QED
    BY <1>1, <1>2, <1>3, <1>4

\* init leaves a well-formed header.
LEMMA InitPageType ==
  ASSUME TypeOK, NEW p \in Page, NEW extra \in SUBSET PageFlags,
         InitPage(p, extra) \/ UNCHANGED hdrVars
  PROVE  used' \in [Page -> Nat] /\ free' \in [Page -> SUBSET Index] /\ flags' \in [Page -> SUBSET PageFlags]
  <1>1. used' \in [Page -> Nat]
    BY TypedVars DEF InitPage, hdrVars
  <1>2. free' \in [Page -> SUBSET Index]
    BY TypedVars DEF InitPage, hdrVars
  <1>3. flags' \in [Page -> SUBSET PageFlags]
    BY TypedVars DEF InitPage, hdrVars
  <1> QED
    BY <1>1, <1>2, <1>3

\* Parking a page moves it between sets of pages.
LEMMA ParkType ==
  ASSUME TypeOK, NEW t \in Thread, NEW p \in Page,
         Park(t, p) \/ (partial' = partial \cup {p} /\ UNCHANGED <<empty, cold, own, mem, dirty>>)
  PROVE  /\ partial' \in SUBSET Page /\ empty' \in SUBSET Page /\ cold' \in SUBSET ColdEntry
         /\ own' \in [Thread -> SUBSET Page] /\ dirty' \in SUBSET Block
         /\ mem' \in [Page -> {"unmapped", "committed", "dropped"}]
  <1>1. \A d \in DiscardOutcomes : d.physical \in BOOLEAN /\ d.zeroed \in BOOLEAN
    BY SmallHeapAssumption
  <1>2. BlocksOf(p) \subseteq Block
    BY DEF BlocksOf, Block
  <1>3. partial' \in SUBSET Page /\ empty' \in SUBSET Page
    BY DEF TypeOK, Park
  <1>4. own' \in [Thread -> SUBSET Page]
    BY TypedVars DEF Park
  <1>5. dirty' \in SUBSET Block
    BY <1>2 DEF TypeOK, Park
  <1>6. mem' \in [Page -> {"unmapped", "committed", "dropped"}]
    BY DEF TypeOK, Park
  <1>7. \A d \in DiscardOutcomes : [page |-> p, decommitted |-> d.physical, zeroed |-> d.zeroed] \in ColdEntry
    BY <1>1 DEF ColdEntry
  <1>8. cold' \in SUBSET ColdEntry
    BY <1>7 DEF TypeOK, Park
  <1> QED
    BY <1>3, <1>4, <1>5, <1>6, <1>8

\* Every step keeps the types.
LEMMA TypeStep ==
  ASSUME TypeOK, HeadInv, Exclusive, UsedExact, NEW t \in Thread, Call(t) \/ Continue(t)
  PROVE  TypeOK'
  <1>0. t \in Thread \cup {NoThread} /\ NoThread \in Thread \cup {NoThread}
    OBVIOUS
  <1> USE <1>0, SmallHeapAssumption DEF listVars, hdrVars, osVars, binVars, takeVars, relVars, progVars,
          Goto, SetMode, Return, Acquire, Release, PcLabels, PageFlags
  <1>1. CASE AllocHit(t)
    <2>1. Distinct(bin[t]) /\ bin[t] \in Seq(Block) /\ bin[t] # <<>>
      BY <1>1 DEF AllocHit, Exclusive, ThreadExclusive, TypeOK
    <2>2. Top(bin[t]) \in Block /\ Below(bin[t]) \in Seq(Block) /\ Len(bin[t]) - 1 \in Nat
      BY <2>1, PopBlock DEF TypeOK
    <2>3. live' \in SUBSET Block /\ dirty' \in SUBSET Block /\ zeroed' \in SUBSET Block
      <3>1. (Len(bin[t]) - 1 < watermark[t]) \in BOOLEAN
        BY DEF TypeOK
      <3>2. Serve(Top(bin[t]), Len(bin[t]) - 1 < watermark[t])
        BY <1>1 DEF AllocHit
      <3> QED
        BY <2>2, <3>1, <3>2, ServeType
    <2>4. Min2(watermark[t], Len(bin[t]) - 1) \in Nat
      BY <2>2 DEF Min2, TypeOK
    <2>5. bin' \in [Thread -> Seq(Block)] /\ watermark' \in [Thread -> Nat]
      BY <1>1, <2>2, <2>4 DEF AllocHit, TypeOK
    <2> QED
      BY <1>1, <2>3, <2>5 DEF AllocHit, TypeOK
  <1>2. CASE BeginTake(t)
    BY <1>2 DEF BeginTake, Acquire, TypeOK
  <1>3. CASE FlushAll(t)
    BY <1>3 DEF FlushAll, TypeOK
  <1>4. CASE FillBlock(t)
    <2>1. PICK p \in HeadPages : FillAt(t, p)
      BY <1>4, FillBlockAt DEF TypeOK
    <2>2. p \in Page
      BY <1>4, <2>1, HeadInPage DEF FillBlock, TypeOK
    <2>3. PICK i \in Listed(t, p) : FillTake(t, p, i)
      BY <2>1 DEF FillAt, TypeOK
    <2>4. Listed(t, p) \in SUBSET Index
      BY <1>4, <2>2, ListedType DEF FillBlock, TypeOK
    <2>5. <<p, i>> \in Block
      BY <2>2, <2>3, <2>4 DEF Block, TypeOK
    <2>6. chain' \in [Thread -> Seq(Block)]
      <3>1. Append(chain[t], <<p, i>>) \in Seq(Block)
        BY <2>5, PushBlock DEF TypeOK
      <3> QED
        BY <2>3, <3>1 DEF FillTake, TypeOK
    <2>7. free' \in [Page -> SUBSET Index] /\ used' \in [Page -> Nat]
      <3>1. Listed(t, p) \ {i} \in SUBSET Index
        BY <2>4 DEF TypeOK
      <3>2. free' = [free EXCEPT ![p] = Listed(t, p) \ {i}] /\ used' = [used EXCEPT ![p] = @ + 1]
        BY <2>3 DEF FillTake, TypeOK
      <3>3. free' \in [Page -> SUBSET Index]
        BY <3>1, <3>2 DEF TypeOK
      <3>4. used' \in [Page -> Nat]
        BY <2>2, <3>2, TypedVars
      <3> QED
        BY <3>3, <3>4 DEF TypeOK
    <2>8. virgin' \in [Thread -> BOOLEAN]
      BY <2>3 DEF FillTake, TypeOK
    <2>9. partial' \in SUBSET Page /\ page' \in Page \cup {NoPage}
      BY <2>2, <2>3 DEF FillTake, TypeOK
    <2> QED
      BY <1>4, <2>6, <2>7, <2>8, <2>9 DEF FillBlock, TypeOK
  <1>5. CASE TakeEmpty(t)
    <2>1. PICK p \in empty :
            /\ empty' = empty \ {p} /\ partial' = partial \cup {p}
            /\ InitPage(p, {}) \/ UNCHANGED hdrVars
            /\ \E v \in BOOLEAN : virgin' = [virgin EXCEPT ![t] = v]
      BY <1>5 DEF TakeEmpty, TypeOK
    <2>2. used' \in [Page -> Nat] /\ free' \in [Page -> SUBSET Index] /\ flags' \in [Page -> SUBSET PageFlags]
      <3>1. p \in Page
        BY <2>1, TypedVars
      <3>2. {} \in SUBSET PageFlags
        OBVIOUS
      <3> QED
        BY <2>1, <3>1, <3>2, InitPageType
    <2> QED
      BY <1>5, <2>1, <2>2 DEF TakeEmpty, TypeOK
  <1>6. CASE TakeCold(t)
    <2>1. PICK e \in cold :
            /\ cold' = cold \ {e} /\ partial' = partial \cup {e.page}
            /\ mem' = IF e.decommitted THEN [mem EXCEPT ![e.page] = "committed"] ELSE mem
            /\ InitPage(e.page, IF e.zeroed THEN {"VIRGIN"} ELSE {})
            /\ virgin' = [virgin EXCEPT ![t] = e.zeroed]
      BY <1>6 DEF TakeCold, TypeOK
    <2>2. e.page \in Page /\ e.zeroed \in BOOLEAN
      BY <2>1 DEF ColdEntry, TypeOK
    <2>3. used' \in [Page -> Nat] /\ free' \in [Page -> SUBSET Index] /\ flags' \in [Page -> SUBSET PageFlags]
      <3>1. (IF e.zeroed THEN {"VIRGIN"} ELSE {}) \in SUBSET PageFlags
        OBVIOUS
      <3>2. InitPage(e.page, IF e.zeroed THEN {"VIRGIN"} ELSE {})
        BY <2>1
      <3> HIDE <1>0 DEF PageFlags, hdrVars
      <3> QED
        BY <2>2, <3>1, <3>2, InitPageType
    <2>4. mem' \in [Page -> {"unmapped", "committed", "dropped"}] /\ virgin' \in [Thread -> BOOLEAN]
      BY <2>1, <2>2 DEF TypeOK
    <2> QED
      BY SMTT(30), <1>6, <2>1, <2>2, <2>3, <2>4 DEF TakeCold, TypeOK
  <1>7. CASE FillDone(t)
    <2>1. Distinct(chain[t]) /\ chain[t] \in Seq(Block) /\ chain[t] # <<>>
      BY <1>7 DEF FillDone, Exclusive, ThreadExclusive, TypeOK
    <2>2. Top(chain[t]) \in Block /\ Below(chain[t]) \in Seq(Block) /\ Len(chain[t]) - 1 \in Nat
      BY <2>1, PopBlock DEF TypeOK
    <2>3. live' \in SUBSET Block /\ dirty' \in SUBSET Block /\ zeroed' \in SUBSET Block
      BY SMTT(30), <1>7, <2>2, ServeType DEF FillDone, Finish, TypeOK
    <2>4. /\ bin' \in [Thread -> Seq(Block)] /\ watermark' \in [Thread -> Nat]
          /\ chain' \in [Thread -> Seq(Block)]
          /\ mode' \in [Thread -> {"cache", "direct", "exit"}]
          /\ pc' \in [Thread -> PcLabels]
      <3>1. bin' \in [Thread -> Seq(Block)]
        BY <1>7, <2>2, TypedVars DEF FillDone, Finish
      <3>2. chain' \in [Thread -> Seq(Block)]
        BY <1>7, <2>2, EmptyBlocks, TypedVars DEF FillDone, Finish
      <3>3. watermark' \in [Thread -> Nat]
        <4>1. \/ watermark' = watermark
              \/ watermark' = [watermark EXCEPT ![t] = Len(chain[t]) - 1]
              \/ watermark' = [watermark EXCEPT ![t] = 0]
          BY <1>7 DEF FillDone, Finish
        <4>2. watermark' = watermark \/ \E n \in Nat : watermark' = [watermark EXCEPT ![t] = n]
          BY <2>2, <4>1
        <4> QED
          BY <4>2, TypedVars
      <3>4. mode' \in [Thread -> {"cache", "direct", "exit"}] /\ pc' \in [Thread -> PcLabels]
        <4>1. \/ pc' = [pc EXCEPT ![t] = "idle"] /\ mode' = [mode EXCEPT ![t] = "cache"]
              \/ pc' = [pc EXCEPT ![t] = "giveback"] /\ mode' = mode
          BY <1>7 DEF FillDone, Finish
        <4>2. "idle" \in PcLabels /\ "giveback" \in PcLabels
          OBVIOUS
        <4> QED
          BY <4>1, <4>2, ControlType
      <3> QED
        BY <3>1, <3>2, <3>3, <3>4 DEF TypeOK
    <2>5. lock' \in Thread \cup {NoThread} /\ page' \in Page \cup {NoPage} /\ virgin' \in [Thread -> BOOLEAN]
      BY <1>7 DEF FillDone, TypeOK
    <2> QED
      BY <1>7, <2>3, <2>4, <2>5 DEF FillDone, TypeOK
  <1>8. CASE FillEmpty(t)
    BY <1>8 DEF FillEmpty, Release, TypeOK
  <1>9. CASE MapPage(t)
    BY SMTT(30), <1>9 DEF MapPage, InitPage, TypeOK
  <1>10. CASE MapFails(t)
    BY <1>10 DEF MapFails, TypeOK
  <1>11. CASE Relock(t)
    BY <1>11 DEF Relock, Acquire, TypeOK
  <1>12. CASE GiveBack(t)
    <2>1. CASE chain[t] = <<>>
      <3>1. pc' = [pc EXCEPT ![t] = "idle"] /\ mode' = [mode EXCEPT ![t] = "cache"]
        BY <1>12, <2>1 DEF GiveBack
      <3>2. pc' \in [Thread -> PcLabels] /\ mode' \in [Thread -> {"cache", "direct", "exit"}]
        BY <3>1, ControlType
      <3> QED
        BY <1>12, <2>1, <3>2 DEF GiveBack, TypeOK
    <2>2. CASE chain[t] # <<>>
      <3>1. Top(chain[t]) \in Block /\ Below(chain[t]) \in Seq(Block)
        BY <2>2, PopBlock DEF Exclusive, ThreadExclusive, TypeOK
      <3>2. chain' \in [Thread -> Seq(Block)] /\ rel' \in [Thread -> SUBSET Block] /\ pc' \in [Thread -> PcLabels]
        <4>1. /\ rel' = [rel EXCEPT ![t] = {Top(chain[t])}]
              /\ chain' = [chain EXCEPT ![t] = Below(@)]
              /\ Goto(t, "release")
          BY <1>12, <2>2 DEF GiveBack, TypeOK
        <4>2. chain' \in [Thread -> Seq(Block)]
          BY <3>1, <4>1 DEF TypeOK
        <4>3. rel' \in [Thread -> SUBSET Block]
          BY <3>1, <4>1 DEF TypeOK
        <4> QED
          BY <4>1, <4>2, <4>3 DEF TypeOK
      <3> QED
        BY <1>12, <2>2, <3>2 DEF GiveBack, TypeOK
    <2> QED
      BY <2>1, <2>2 DEF TypeOK
  <1>13. CASE Trim(t)
    <2>1. Len(bin[t]) \in Nat
      BY DEF TypeOK
    <2>2. Len(bin[t]) \div 2 \in Nat
      BY <2>1 DEF TypeOK
    <2>3. floor' = [floor EXCEPT ![t] = Len(bin[t]) \div 2] \/ floor' = [floor EXCEPT ![t] = 0]
      BY <1>13 DEF Trim, TypeOK
    <2>4. floor' \in [Thread -> Nat]
      BY <2>2, <2>3, TypedVars
    <2>5. \/ pc' = [pc EXCEPT ![t] = "flush"] /\ mode' = mode
          \/ pc' = [pc EXCEPT ![t] = "idle"] /\ mode' = [mode EXCEPT ![t] = "cache"]
      BY <1>13 DEF Trim
    <2>6. pc' \in [Thread -> PcLabels] /\ mode' \in [Thread -> {"cache", "direct", "exit"}]
      <3>1. "flush" \in PcLabels /\ "idle" \in PcLabels
        OBVIOUS
      <3> QED
        BY <2>5, <3>1, ControlType
    <2> QED
      BY <1>13, <2>4, <2>6 DEF Trim, TypeOK
  <1>14. CASE FlushChunkStep(t)
    <2>1. CASE Len(bin[t]) <= floor[t]
      <3>1. pc' = [pc EXCEPT ![t] = "trim"] /\ UNCHANGED <<binVars, rel>>
        BY <1>14, <2>1 DEF FlushChunkStep
      <3>2. pc' \in [Thread -> PcLabels]
        BY <3>1, ControlType
      <3> QED
        BY <1>14, <3>1, <3>2 DEF FlushChunkStep, TypeOK
    <2>2. CASE ~(Len(bin[t]) <= floor[t])
      <3>1. PICK keep \in 0 .. Len(bin[t]) : FlushTo(t, keep)
        BY <1>14, <2>2, FlushAt DEF TypeOK
      <3>2. SubSeq(bin[t], 1, keep) \in Seq(Block) /\ {bin[t][i] : i \in keep + 1 .. Len(bin[t])} \subseteq Block
        BY SMTT(30), PopBlocks DEF Exclusive, ThreadExclusive, TypeOK
      <3>3. keep \in Nat /\ Min2(watermark[t], keep) \in Nat
        BY DEF Min2, TypeOK
      <3>4. /\ bin' \in [Thread -> Seq(Block)] /\ rel' \in [Thread -> SUBSET Block]
            /\ watermark' \in [Thread -> Nat] /\ pc' \in [Thread -> PcLabels]
        BY <3>1, <3>2, <3>3 DEF FlushTo, TypeOK
      <3> QED
        BY <1>14, <2>2, <3>4 DEF FlushChunkStep, TypeOK
    <2> QED
      BY <2>1, <2>2 DEF TypeOK
  <1>15. CASE ReleaseLock(t)
    BY <1>15 DEF ReleaseLock, Acquire, TypeOK
  <1>16. CASE ReleaseGroup(t)
    <2>1. PICK p \in Page :
            /\ Group(t, p) # {}
            /\ rel' = [rel EXCEPT ![t] = @ \ BlocksOf(p)]
            /\ RetirePage(t, p) \/ ReleaseInner(t, p, Group(t, p))
      BY <1>16 DEF ReleaseGroup, TypeOK
    <2>2. Group(t, p) \in SUBSET Index /\ used[p] - Cardinality(Group(t, p)) \in Nat
      BY GroupOut DEF TypeOK
    <2>3. used' \in [Page -> Nat] /\ free' \in [Page -> SUBSET Index] /\ flags' \in [Page -> SUBSET PageFlags]
      <3>1. used' \in [Page -> Nat]
        <4>1. \/ used' = [used EXCEPT ![p] = used[p] - Cardinality(Group(t, p))]
              \/ used' = [used EXCEPT ![p] = 0]
          BY <2>1 DEF RetirePage, ReleaseInner
        <4>2. \E n \in Nat : used' = [used EXCEPT ![p] = n]
          BY <2>2, <4>1
        <4> QED
          BY <4>2, TypedVars
      <3>2. free' \in [Page -> SUBSET Index]
        <4>1. \/ free' = [free EXCEPT ![p] = free[p] \cup Group(t, p)]
              \/ free' = [free EXCEPT ![p] = {}]
          BY <2>1 DEF RetirePage, ReleaseInner
        <4>2. free[p] \cup Group(t, p) \in SUBSET Index
          BY <2>2, TypedVars
        <4> QED
          BY <4>1, <4>2, TypedVars
      <3>3. flags' \in [Page -> SUBSET PageFlags]
        <4>1. \/ flags' = [flags EXCEPT ![p] = flags[p] \ {"VIRGIN"}]
              \/ flags' = [flags EXCEPT ![p] = (flags[p] \ {"VIRGIN"}) \cup {"NEEDS_REINIT"}]
          BY <2>1 DEF RetirePage, ReleaseInner
        <4>2. \E f \in SUBSET PageFlags : flags' = [flags EXCEPT ![p] = f]
          <5>1. flags[p] \in SUBSET PageFlags
            BY TypedVars
          <5> QED
            BY <4>1, <5>1
        <4> QED
          BY <4>2, TypedVars
      <3> QED
        BY <3>1, <3>2, <3>3 DEF TypeOK
    <2>4. /\ partial' \in SUBSET Page /\ empty' \in SUBSET Page /\ cold' \in SUBSET ColdEntry
          /\ own' \in [Thread -> SUBSET Page] /\ dirty' \in SUBSET Block
          /\ mem' \in [Page -> {"unmapped", "committed", "dropped"}]
      BY <2>1, ParkType DEF RetirePage, ReleaseInner, TypeOK
    <2>5. rel' \in [Thread -> SUBSET Block]
      BY <2>1 DEF TypeOK
    <2>6. groups' \in [Thread -> 0 .. GroupBatch]
      <3>1. Min2(groups[t] + 1, GroupBatch) \in 0 .. GroupBatch
        BY DEF Min2, TypeOK
      <3> QED
        BY <1>16, <3>1 DEF ReleaseGroup, TypeOK
    <2> QED
      BY <1>16, <2>3, <2>4, <2>5, <2>6 DEF ReleaseGroup, TypeOK
  <1>17. CASE ReleaseUnlock(t)
    BY <1>17 DEF ReleaseUnlock, Release, TypeOK
  <1>18. CASE UnmapPage(t)
    <2>1. own' \in [Thread -> SUBSET Page]
      BY <1>18, TypedVars DEF UnmapPage
    <2>2. mem' \in [Page -> {"unmapped", "committed", "dropped"}] /\ leaked' \in SUBSET Page
      <3>1. PICK p \in Page :
              \/ mem' = [mem EXCEPT ![p] = "unmapped"] /\ leaked' = leaked
              \/ mem' = mem /\ leaked' = leaked \cup {p}
        BY <1>18, TypedVars DEF UnmapPage
      <3>2. mem \in [Page -> {"unmapped", "committed", "dropped"}] /\ leaked \in SUBSET Page
        BY DEF TypeOK
      <3> QED
        BY <3>1, <3>2
    <2> QED
      BY <1>18, <2>1, <2>2 DEF UnmapPage, TypeOK
  <1>19. CASE FatesDone(t)
    BY <1>19 DEF FatesDone, TypeOK
  <1>20. ASSUME NEW b \in Block, Free(t, b) PROVE TypeOK'
    <2>1. live' \in SUBSET Block /\ dirty' \in SUBSET Block /\ zeroed' \in SUBSET Block
      BY <1>20 DEF Free, Drop, TypeOK
    <2>2. Append(bin[t], b) \in Seq(Block)
      BY PushBlock DEF TypeOK
    <2>3. bin' \in [Thread -> Seq(Block)] /\ pc' \in [Thread -> PcLabels]
      BY <1>20, <2>2 DEF Free, TypeOK
    <2> QED
      BY <1>20, <2>1, <2>3 DEF Free, TypeOK
  <1>21. ASSUME NEW b \in Block, FreeDirect(t, b) PROVE TypeOK'
    <2>1. live' \in SUBSET Block /\ dirty' \in SUBSET Block /\ zeroed' \in SUBSET Block
      BY <1>21 DEF FreeDirect, Drop, TypeOK
    <2>2. rel' \in [Thread -> SUBSET Block]
      BY <1>21 DEF FreeDirect, TypeOK
    <2> QED
      BY <1>21, <2>1, <2>2 DEF FreeDirect, TypeOK
  <1>22. CASE Pressure(t)
    BY <1>22 DEF Pressure, TypeOK
  <1> QED
    BY <1>1, <1>2, <1>3, <1>4, <1>5, <1>6, <1>7, <1>8, <1>9, <1>10, <1>11, <1>12, <1>13, <1>14, <1>15, <1>16, <1>17, <1>18, <1>19, <1>20, <1>21, <1>22 DEF Call, Continue

\* A page at the head has blocks out and blocks listed, and together they are
\* a prefix of the page.
LEMMA ListedFresh ==
  ASSUME TypeOK, HeadInv, ListsInv, FreeListExact, NEW t \in Thread, NEW p \in HeadPages,
         Len(chain[t]) < RefillBatch
  PROVE  /\ p \in Page /\ mem[p] = "committed"
         /\ Listed(t, p) \in SUBSET Index /\ Listed(t, p) \cap Out(p) = {}
         /\ Listed(t, p) \cup Out(p) = 0 .. used[p] + Cardinality(Listed(t, p)) - 1
  <1>1. p \in partial /\ p \in Page
    BY HeadInPage
  <1>2. mem[p] = "committed"
    BY <1>1 DEF ListsInv
  <1>3. Carved(p)
    BY <1>1, <1>2 DEF FreeListExact
  <1>4. used[p] \in Nat /\ free[p] \in SUBSET Index /\ Cardinality(free[p]) \in Nat /\ Len(chain[t]) \in Nat
    BY <1>1, IndexFinite DEF TypeOK
  <1>5. Listed(t, p) \in SUBSET Index
    BY <1>1, ListedType
  <1>6. CASE free[p] # {}
    BY <1>1, <1>2, <1>3, <1>5, <1>6 DEF Listed, Carved
  <1>7. CASE free[p] = {}
    <2> DEFINE n == Min2(Capacity - used[p], RefillBatch - Len(chain[t]))
    <2>1. Cardinality(free[p]) = 0
      BY <1>7, FS_EmptySet
    <2>2. Out(p) = 0 .. used[p] - 1
      BY <1>3, <1>4, <1>7, <2>1 DEF Carved
    <2>3. Listed(t, p) = used[p] .. used[p] + n - 1
      BY <1>4, <1>7, <2>1, SmallHeapAssumption DEF Listed, Provision, Min2
    <2>4. n \in Int
      BY <1>4, SmallHeapAssumption DEF Min2
    <2> HIDE DEF n
    <2>5. CASE n > 0
      <3>1. Cardinality(Listed(t, p)) = n
        <4>1. used[p] \in Int /\ used[p] + n - 1 \in Int /\ ~(used[p] > used[p] + n - 1)
          BY <1>4, <2>4, <2>5
        <4>2. Cardinality(used[p] .. used[p] + n - 1) = (used[p] + n - 1) - used[p] + 1
          BY <4>1, FS_Interval
        <4> QED
          BY <1>4, <2>3, <2>4, <4>2
      <3> QED
        BY <1>1, <1>2, <1>4, <1>5, <2>2, <2>3, <2>4, <2>5, <3>1
    <2>6. CASE n <= 0
      <3>1. Listed(t, p) = {}
        BY <1>4, <2>3, <2>4, <2>6
      <3>2. Cardinality(Listed(t, p)) = 0
        BY <3>1, FS_EmptySet
      <3> QED
        BY <1>1, <1>2, <1>4, <1>5, <2>2, <3>1, <3>2
    <2> QED
      BY <2>4, <2>5, <2>6
  <1> QED
    BY <1>6, <1>7

\* A block nobody holds joins a thread's chain.
LEMMA BlockAdded ==
  ASSUME TypeOK, Exclusive, NEW t \in Thread, NEW b \in Block, b \notin Outside,
         chain' = [chain EXCEPT ![t] = Append(@, b)], UNCHANGED <<bin, rel, live>>
  PROVE  Exclusive' /\ Outside' = Outside \cup {b}
  <1>1. chain \in [Thread -> Seq(Block)] /\ chain[t] \in Seq(Block)
    BY DEF TypeOK
  <1>2. \A u \in Thread : chain'[u] = IF u = t THEN Append(chain[t], b) ELSE chain[u]
    BY <1>1
  <1>3. b \notin SeqBlocks(chain[t]) /\ b \notin SeqBlocks(bin[t]) /\ b \notin rel[t] /\ b \notin live
    BY DEF Outside, CachedBy
  <1>4. /\ SeqBlocks(Append(chain[t], b)) = SeqBlocks(chain[t]) \cup {b}
        /\ Distinct(Append(chain[t], b))
    BY <1>1, <1>3, PushBlock DEF Exclusive, ThreadExclusive
  <1>5. CachedBy(t)' = CachedBy(t) \cup {b}
    BY <1>2, <1>4 DEF CachedBy
  <1>6. \A u \in Thread : u # t => CachedBy(u)' = CachedBy(u) /\ (ThreadExclusive(u) => ThreadExclusive(u)')
    BY <1>2 DEF CachedBy, ThreadExclusive
  <1>7. ThreadExclusive(t)'
    BY <1>2, <1>3, <1>4 DEF Exclusive, ThreadExclusive
  <1>8. Outside' = Outside \cup {b}
    BY <1>5, <1>6 DEF Outside
  <1>9. \A u \in Thread : b \notin CachedBy(u)
    BY DEF Outside
  <1>10. Exclusive'
    BY <1>3, <1>5, <1>6, <1>7, <1>9 DEF Exclusive
  <1> QED
    BY <1>8, <1>10

\* A thread gives some blocks up.
LEMMA BlocksRemoved ==
  ASSUME TypeOK, Exclusive, NEW t \in Thread, NEW B,
         rel' = [rel EXCEPT ![t] = @ \ B], UNCHANGED <<bin, chain, live>>
  PROVE  Exclusive' /\ Outside' = Outside \ (rel[t] \cap B)
  <1>1. \A u \in Thread : rel'[u] = IF u = t THEN rel[t] \ B ELSE rel[u]
    BY DEF TypeOK
  <1>2. CachedBy(t)' = CachedBy(t) \ (rel[t] \cap B)
    BY <1>1 DEF CachedBy, Exclusive, ThreadExclusive
  <1>3. \A u \in Thread : u # t => CachedBy(u)' = CachedBy(u)
    BY <1>1 DEF CachedBy
  <1>4. \A u \in Thread : ThreadExclusive(u)'
    BY <1>1 DEF Exclusive, ThreadExclusive
  <1>5. \A u \in Thread : CachedBy(u)' \subseteq CachedBy(u)
    BY <1>2, <1>3
  <1>6. Exclusive'
    BY <1>4, <1>5 DEF Exclusive
  <1>7. rel[t] \cap B \subseteq CachedBy(t)
    BY DEF CachedBy
  <1>8. \A u \in Thread : u # t => CachedBy(u) \cap (rel[t] \cap B) = {}
    BY <1>7 DEF Exclusive
  <1>9. live \cap (rel[t] \cap B) = {}
    BY <1>7 DEF Exclusive
  <1>10. Outside' = Outside \ (rel[t] \cap B)
    BY <1>2, <1>3, <1>8, <1>9 DEF Outside
  <1> QED
    BY <1>6, <1>10

\* No block leaves or enters a page, and each is still in one place.
BlocksKept == Exclusive' /\ Outside' = Outside

\* Only FillBlock and ReleaseGroup move blocks out of and into pages.
LEMMA BlockStep ==
  ASSUME TypeOK, LocalsInv, Exclusive, NEW t \in Thread,
         Call(t) \/ Continue(t), ~FillBlock(t), ~ReleaseGroup(t)
  PROVE  BlocksKept
  <1>o. Others(t)
    BY OthersStep
  <1>e. Exclusive /\ ThreadExclusive(t) /\ CachedBy(t) \cap live = {}
    BY DEF Exclusive
  <1> USE DEF BlocksKept
  <1>1. CASE AllocHit(t)
    <2>1. bin[t] \in Seq(Block) /\ Distinct(bin[t]) /\ bin[t] # <<>> /\ bin \in [Thread -> Seq(Block)]
      BY <1>1 DEF AllocHit, TypeOK, Exclusive, ThreadExclusive
    <2>2. /\ bin'[t] = Below(bin[t]) /\ live' = live \cup {Top(bin[t])}
          /\ UNCHANGED <<chain, rel>>
      BY <1>1, <2>1 DEF AllocHit, Serve, takeVars, relVars
    <2>3. /\ Distinct(Below(bin[t])) /\ SeqBlocks(Below(bin[t])) \cup {Top(bin[t])} = SeqBlocks(bin[t])
          /\ Top(bin[t]) \notin SeqBlocks(Below(bin[t]))
      BY <2>1, PopBlock
    <2> QED
      BY <1>o, <1>e, <2>2, <2>3, BlocksMove DEF CachedBy, ThreadExclusive, Others
  <1>2. CASE BeginTake(t)
    BY <1>2, BlocksStay DEF BeginTake, binVars, takeVars, relVars, progVars
  <1>3. CASE FlushAll(t)
    BY <1>3, BlocksStay DEF FlushAll, binVars, takeVars, relVars, progVars
  <1>4. CASE TakeEmpty(t)
    BY <1>4, BlocksStay DEF TakeEmpty, binVars, takeVars, relVars, progVars
  <1>5. CASE TakeCold(t)
    BY <1>5, BlocksStay DEF TakeCold, binVars, takeVars, relVars, progVars
  <1>6. CASE FillDone(t)
    <2>1. /\ chain[t] \in Seq(Block) /\ Distinct(chain[t]) /\ chain[t] # <<>>
          /\ chain \in [Thread -> Seq(Block)] /\ bin \in [Thread -> Seq(Block)]
      BY <1>6 DEF FillDone, TypeOK, Exclusive, ThreadExclusive
    <2>2. /\ Distinct(Below(chain[t])) /\ SeqBlocks(Below(chain[t])) \cup {Top(chain[t])} = SeqBlocks(chain[t])
          /\ Top(chain[t]) \notin SeqBlocks(Below(chain[t]))
      BY <2>1, PopBlock
    <2>3. live' = live \cup {Top(chain[t])} /\ UNCHANGED rel
      BY <1>6 DEF FillDone, Finish, Serve, relVars
    <2>4. CASE mode[t] = "cache"
      <3>1. bin[t] = <<>>
        BY <1>6, <2>4 DEF LocalsInv, LocalsOf, FillDone, Filling
      <3>2. bin'[t] = Below(chain[t]) /\ chain'[t] = <<>>
        BY <1>6, <2>1, <2>4 DEF FillDone, Finish
      <3> QED
        BY <1>o, <1>e, <2>2, <2>3, <3>1, <3>2, EmptyBlocks, BlocksMove DEF CachedBy, ThreadExclusive, Others
    <2>5. CASE mode[t] # "cache"
      <3>1. bin' = bin /\ chain'[t] = Below(chain[t])
        BY <1>6, <2>1, <2>5 DEF FillDone, Finish, binVars
      <3> QED
        BY <1>o, <1>e, <2>2, <2>3, <3>1, BlocksMove DEF CachedBy, ThreadExclusive, Others
    <2> QED
      BY <2>4, <2>5
  <1>7. CASE FillEmpty(t)
    BY <1>7, BlocksStay DEF FillEmpty, binVars, takeVars, relVars, progVars
  <1>8. CASE MapPage(t)
    BY <1>8, BlocksStay DEF MapPage, binVars, takeVars, relVars, progVars
  <1>9. CASE MapFails(t)
    BY <1>9, BlocksStay DEF MapFails, binVars, takeVars, relVars, progVars
  <1>10. CASE Relock(t)
    BY <1>10, BlocksStay DEF Relock, binVars, takeVars, relVars, progVars
  <1>11. CASE GiveBack(t)
    <2>1. CASE chain[t] = <<>>
      BY <1>11, <2>1, BlocksStay DEF GiveBack, binVars, progVars
    <2>2. CASE chain[t] # <<>>
      <3>1. chain[t] \in Seq(Block) /\ Distinct(chain[t]) /\ chain \in [Thread -> Seq(Block)] /\ rel \in [Thread -> SUBSET Block]
        BY DEF TypeOK, Exclusive, ThreadExclusive
      <3>2. /\ Distinct(Below(chain[t])) /\ SeqBlocks(Below(chain[t])) \cup {Top(chain[t])} = SeqBlocks(chain[t])
            /\ Top(chain[t]) \notin SeqBlocks(Below(chain[t]))
        BY <2>2, <3>1, PopBlock
      <3>3. rel[t] = {}
        BY <1>11 DEF GiveBack, LocalsInv, LocalsOf
      <3>4. chain'[t] = Below(chain[t]) /\ rel'[t] = {Top(chain[t])} /\ UNCHANGED <<bin, live>>
        BY <1>11, <2>2, <3>1 DEF GiveBack, binVars, progVars
      <3> QED
        BY <1>o, <1>e, <3>2, <3>3, <3>4, BlocksMove DEF CachedBy, ThreadExclusive, Others
    <2> QED
      BY <2>1, <2>2
  <1>12. CASE Trim(t)
    BY <1>12, BlocksStay DEF Trim, binVars, takeVars, relVars, progVars
  <1>13. CASE FlushChunkStep(t)
    <2>1. CASE Len(bin[t]) <= floor[t]
      BY <1>13, <2>1, BlocksStay DEF FlushChunkStep, binVars, takeVars, progVars
    <2>2. CASE ~(Len(bin[t]) <= floor[t])
      <3>1. PICK keep \in 0 .. Len(bin[t]) : FlushTo(t, keep)
        BY <1>13, <2>2, FlushAt
      <3> DEFINE r == SubSeq(bin[t], 1, keep)
                 g == {bin[t][i] : i \in keep + 1 .. Len(bin[t])}
      <3>2. bin[t] \in Seq(Block) /\ Distinct(bin[t]) /\ bin \in [Thread -> Seq(Block)] /\ rel \in [Thread -> SUBSET Block]
        BY DEF TypeOK, Exclusive, ThreadExclusive
      <3>3. Distinct(r) /\ SeqBlocks(r) \cup g = SeqBlocks(bin[t]) /\ SeqBlocks(r) \cap g = {}
        BY <3>2, PopBlocks
      <3>4. rel[t] = {}
        BY <1>13 DEF FlushChunkStep, LocalsInv, LocalsOf
      <3>5. bin'[t] = r /\ rel'[t] = g /\ UNCHANGED <<chain, live>>
        BY <1>13, <3>1, <3>2 DEF FlushTo, FlushChunkStep, takeVars, progVars
      <3> HIDE DEF r, g
      <3> QED
        BY <1>o, <1>e, <3>3, <3>4, <3>5, BlocksMove DEF CachedBy, ThreadExclusive, Others
    <2> QED
      BY <2>1, <2>2
  <1>14. CASE ReleaseLock(t)
    BY <1>14, BlocksStay DEF ReleaseLock, binVars, takeVars, relVars, progVars
  <1>15. CASE ReleaseUnlock(t)
    BY <1>15, BlocksStay DEF ReleaseUnlock, binVars, takeVars, relVars, progVars
  <1>16. CASE UnmapPage(t)
    BY <1>16, BlocksStay DEF UnmapPage, binVars, takeVars, relVars, progVars
  <1>17. CASE FatesDone(t)
    BY <1>17, BlocksStay DEF FatesDone, binVars, takeVars, relVars, progVars
  <1>18. ASSUME NEW b \in Block, Free(t, b) PROVE BlocksKept
    <2>1. b \in live /\ live' = live \ {b} /\ UNCHANGED <<chain, rel>>
      BY <1>18 DEF Free, Drop, takeVars, relVars
    <2>2. bin[t] \in Seq(Block) /\ bin'[t] = Append(bin[t], b)
      BY <1>18 DEF Free, TypeOK
    <2>3. b \notin CachedBy(t)
      BY <2>1 DEF Exclusive
    <2>4. SeqBlocks(bin'[t]) = SeqBlocks(bin[t]) \cup {b} /\ Distinct(bin'[t])
      BY <2>2, <2>3, PushBlock DEF Exclusive, ThreadExclusive, CachedBy
    <2>5. ThreadExclusive(t)'
      BY <1>e, <2>1, <2>3, <2>4 DEF ThreadExclusive, CachedBy
    <2>6. CachedBy(t)' = CachedBy(t) \cup {b}
      BY <2>1, <2>4 DEF CachedBy
    <2> QED
      BY <1>o, <1>e, <2>1, <2>5, <2>6, BlocksMove DEF Others
  <1>19. ASSUME NEW b \in Block, FreeDirect(t, b) PROVE BlocksKept
    <2>1. b \in live /\ live' = live \ {b} /\ UNCHANGED <<bin, chain>>
      BY <1>19 DEF FreeDirect, Drop, takeVars, binVars
    <2>2. rel'[t] = {b}
      BY <1>19 DEF FreeDirect, TypeOK
    <2>3. rel[t] = {}
      BY <1>19 DEF FreeDirect, LocalsInv, LocalsOf
    <2>4. b \notin CachedBy(t)
      BY <2>1 DEF Exclusive
    <2>5. ThreadExclusive(t)'
      BY <1>e, <2>1, <2>2, <2>4 DEF ThreadExclusive, CachedBy
    <2>6. CachedBy(t)' = CachedBy(t) \cup {b}
      BY <2>1, <2>2, <2>3 DEF CachedBy
    <2> QED
      BY <1>o, <1>e, <2>1, <2>5, <2>6, BlocksMove DEF Others
  <1>20. CASE Pressure(t)
    BY <1>20, BlocksStay DEF Pressure, binVars, takeVars, relVars, progVars
  <1> QED
    BY <1>1, <1>2, <1>3, <1>4, <1>5, <1>6, <1>7, <1>8, <1>9, <1>10, <1>11, <1>12, <1>13, <1>14, <1>15, <1>16, <1>17, <1>18, <1>19, <1>20 DEF Call, Continue

-----------------------------------------------------------------------------
(* Steps that move pages between lists. *)

\* What TypeOK says of the variables about pages.
LEMMA PageTypes ==
  ASSUME TypeOK
  PROVE  /\ partial \subseteq Page /\ empty \subseteq Page /\ cold \subseteq ColdEntry /\ leaked \subseteq Page
         /\ used \in [Page -> Nat] /\ free \in [Page -> SUBSET Index]
         /\ mem \in [Page -> {"unmapped", "committed", "dropped"}]
         /\ own \in [Thread -> SUBSET Page]
         /\ ColdPages \subseteq Page /\ OwnPages \subseteq Page
  <1>1. \A e \in ColdEntry : e.page \in Page
    BY DEF ColdEntry
  <1> QED
    BY <1>1 DEF TypeOK, ColdPages, OwnPages

\* A page off the partial list or on a parking list has no block out.
LEMMA ParkedUnused ==
  ASSUME TypeOK, PageInv, NEW p \in Page, p \in Parked \/ mem[p] # "committed"
  PROVE  used[p] = 0 /\ Out(p) = {}
  <1>1. used[p] = 0
    BY PageTypes DEF PageInv, InUseInv
  <1>2. Cardinality(Out(p)) = 0 /\ Out(p) \in SUBSET Index
    BY <1>1, OutType DEF PageInv, UsedExact
  <1> QED
    BY <1>1, <1>2, NoIndex

\* Initialising the header of a page with no block out.
LEMMA HeadersReset ==
  ASSUME TypeOK, PageInv, NEW p \in Page, used[p] = 0, Out(p) = {},
         used' = [used EXCEPT ![p] = 0], free' = [free EXCEPT ![p] = {}],
         Outside' = Outside, \A q \in Page : q # p => mem'[q] = mem[q]
  PROVE  used' = used /\ UsedExact' /\ FreeListExact'
  <1>1. \A q \in Page : Out(q)' = Out(q)
    BY DEF Out
  <1>2. used' = used
    BY PageTypes
  <1>3. UsedExact'
    BY <1>1, <1>2 DEF PageInv, UsedExact
  <1>4. free'[p] = {} /\ used'[p] = 0 /\ \A q \in Page : q # p => free'[q] = free[q]
    BY <1>2, PageTypes
  <1>5. Cardinality(free'[p]) = 0
    BY <1>4, FS_EmptySet
  <1>6. Carved(p)'
    BY <1>1, <1>4, <1>5 DEF Carved
  <1>7. \A q \in Page : q # p => (Carved(q)' <=> Carved(q))
    BY <1>1, <1>2, <1>4 DEF Carved
  <1>8. FreeListExact'
    BY <1>6, <1>7 DEF PageInv, FreeListExact
  <1> QED
    BY <1>2, <1>3, <1>8

\* The headers do not change.
LEMMA HeadersStay ==
  ASSUME TypeOK, PageInv, UNCHANGED <<used, free>>, Outside' = Outside,
         \A q \in Page : mem'[q] = "committed" => mem[q] = "committed"
  PROVE  UsedExact' /\ FreeListExact'
  <1>1. \A q \in Page : Out(q)' = Out(q)
    BY DEF Out
  <1>2. \A q \in Page : Carved(q)' <=> Carved(q)
    BY <1>1 DEF Carved
  <1> QED
    BY <1>1, <1>2 DEF PageInv, UsedExact, FreeListExact

\* An empty page goes back to the partial list.
LEMMA TakeEmptyPage ==
  ASSUME TypeOK, PageInv, NEW t \in Thread, TakeEmpty(t), Outside' = Outside
  PROVE  PageInv'
  <1>1. PICK p \in empty :
          /\ empty' = empty \ {p} /\ partial' = partial \cup {p}
          /\ InitPage(p, {}) \/ UNCHANGED hdrVars
    BY DEF TakeEmpty
  <1>2. UNCHANGED <<cold, mem, leaked, own>>
    BY DEF TakeEmpty, osVars
  <1>3. p \in Page /\ p \in Parked /\ used[p] = 0 /\ Out(p) = {}
    BY <1>1, ParkedUnused, PageTypes DEF Parked
  <1>4. used' = used /\ UsedExact' /\ FreeListExact'
    BY <1>1, <1>2, <1>3, HeadersReset, HeadersStay DEF InitPage, hdrVars
  <1>5. ColdPages' = ColdPages /\ OwnPages' = OwnPages
    BY <1>2 DEF ColdPages, OwnPages
  <1>6. Parked' = Parked \ {p}
    BY <1>1, <1>2, <1>5 DEF Parked, PageInv, ListsInv
  <1>7. ListsInv'
    BY <1>1, <1>2, <1>5, <1>6 DEF PageInv, ListsInv, Parked
  <1>8. InUseInv'
    BY <1>1, <1>2, <1>3, <1>4, <1>6, SmallHeapAssumption DEF PageInv, InUseInv
  <1> QED
    BY <1>4, <1>7, <1>8 DEF PageInv

\* A cold page, committed again, goes back to the partial list.
LEMMA TakeColdPage ==
  ASSUME TypeOK, PageInv, NEW t \in Thread, TakeCold(t), Outside' = Outside
  PROVE  PageInv'
  <1>1. PICK e \in cold :
          /\ cold' = cold \ {e} /\ partial' = partial \cup {e.page}
          /\ mem' = IF e.decommitted THEN [mem EXCEPT ![e.page] = "committed"] ELSE mem
          /\ used' = [used EXCEPT ![e.page] = 0] /\ free' = [free EXCEPT ![e.page] = {}]
    BY DEF TakeCold, InitPage
  <1> DEFINE p == e.page
  <1>2. UNCHANGED <<empty, leaked, own>>
    BY DEF TakeCold
  <1>3. p \in ColdPages /\ p \in Page
    BY <1>1, PageTypes DEF ColdPages
  <1>4. p \in Parked /\ used[p] = 0 /\ Out(p) = {}
    BY <1>3, ParkedUnused DEF Parked
  <1>5. mem'[p] = "committed" /\ \A q \in Page : q # p => mem'[q] = mem[q]
    BY <1>1, <1>3, PageTypes DEF PageInv, ListsInv
  <1> HIDE DEF p
  <1>6. used' = used /\ UsedExact' /\ FreeListExact'
    BY <1>1, <1>3, <1>4, <1>5, HeadersReset DEF p
  <1>7. ColdPages' = ColdPages \ {p} /\ OwnPages' = OwnPages
    BY <1>1, <1>2 DEF ColdPages, OwnPages, PageInv, ListsInv, p
  <1>8. Parked' = Parked \ {p}
    BY <1>2, <1>3, <1>7 DEF Parked, PageInv, ListsInv
  <1>9. \A f \in cold' : f \in cold /\ f.page # p
    BY <1>1 DEF PageInv, ListsInv, p
  <1>10. partial' = partial \cup {p}
    BY <1>1 DEF p
  <1>11. ListsInv'
    <2>1. \A q \in partial' \cup empty' \cup OwnPages' \cup leaked' : q \in Page /\ mem'[q] = "committed"
      BY <1>2, <1>3, <1>5, <1>7, <1>10, PageTypes DEF PageInv, ListsInv
    <2>2. \A f \in cold' : mem'[f.page] = IF f.decommitted THEN "dropped" ELSE "committed"
      <3>1. \A f \in cold : f.page \in Page
        BY PageTypes DEF ColdPages
      <3> QED
        BY <1>5, <1>9, <3>1 DEF PageInv, ListsInv
    <2>3. \A q \in Page : mem'[q] = "dropped" => q \in ColdPages'
      BY <1>5, <1>7 DEF PageInv, ListsInv
    <2>4. \A f, g \in cold' : f.page = g.page => f = g
      BY <1>9 DEF PageInv, ListsInv
    <2>5. /\ partial' \cap Parked' = {}
          /\ empty' \cap (ColdPages' \cup OwnPages' \cup leaked') = {}
          /\ ColdPages' \cap (OwnPages' \cup leaked') = {}
          /\ OwnPages' \cap leaked' = {}
          /\ \A u, v \in Thread : u # v => own'[u] \cap own'[v] = {}
      BY <1>2, <1>7, <1>8, <1>10 DEF PageInv, ListsInv
    <2> QED
      BY <2>1, <2>2, <2>3, <2>4, <2>5 DEF ListsInv
  <1>12. InUseInv'
    BY <1>3, <1>4, <1>5, <1>6, <1>8, <1>10, SmallHeapAssumption DEF PageInv, InUseInv
  <1> QED
    BY <1>6, <1>11, <1>12 DEF PageInv

\* A page from the operating system is known to its thread only.
LEMMA MapPagePage ==
  ASSUME TypeOK, LocalsInv, PageInv, NEW t \in Thread, MapPage(t), Outside' = Outside
  PROVE  PageInv'
  <1>1. PICK p \in Page :
          /\ mem[p] = "unmapped" /\ mem' = [mem EXCEPT ![p] = "committed"]
          /\ used' = [used EXCEPT ![p] = 0] /\ free' = [free EXCEPT ![p] = {}]
          /\ own' = [own EXCEPT ![t] = {p}]
    BY DEF MapPage, InitPage
  <1>2. UNCHANGED <<partial, empty, cold, leaked>>
    BY DEF MapPage, listVars
  <1>3. own[t] = {}
    BY DEF MapPage, LocalsInv, LocalsOf
  <1>4. used[p] = 0 /\ Out(p) = {}
    BY <1>1, ParkedUnused
  <1>5. mem'[p] = "committed" /\ \A q \in Page : q # p => mem'[q] = mem[q]
    BY <1>1, PageTypes
  <1>6. used' = used /\ UsedExact' /\ FreeListExact'
    BY <1>1, <1>4, <1>5, HeadersReset
  <1>7. own'[t] = {p} /\ \A u \in Thread : u # t => own'[u] = own[u]
    BY <1>1, PageTypes
  <1>8. ColdPages' = ColdPages /\ OwnPages' = OwnPages \cup {p}
    BY <1>2, <1>3, <1>7 DEF ColdPages, OwnPages
  <1>9. p \notin partial /\ p \notin empty /\ p \notin OwnPages /\ p \notin leaked /\ p \notin ColdPages
    BY <1>1 DEF PageInv, ListsInv, ColdPages
  <1>10. Parked' = Parked \cup {p}
    BY <1>2, <1>8 DEF Parked
  <1>11. ListsInv'
    <2>1. \A q \in partial' \cup empty' \cup OwnPages' \cup leaked' : q \in Page /\ mem'[q] = "committed"
      BY <1>2, <1>5, <1>8, PageTypes DEF PageInv, ListsInv
    <2>2. \A f \in cold' : mem'[f.page] = IF f.decommitted THEN "dropped" ELSE "committed"
      <3>1. \A f \in cold : f.page \in Page /\ f.page # p
        BY <1>9, PageTypes DEF ColdPages
      <3> QED
        BY <1>2, <1>5, <3>1 DEF PageInv, ListsInv
    <2>3. \A q \in Page : mem'[q] = "dropped" => q \in ColdPages'
      BY <1>5, <1>8 DEF PageInv, ListsInv
    <2>4. \A u, v \in Thread : u # v => own'[u] \cap own'[v] = {}
      BY <1>7, <1>9 DEF PageInv, ListsInv, OwnPages
    <2>5. /\ partial' \cap Parked' = {}
          /\ empty' \cap (ColdPages' \cup OwnPages' \cup leaked') = {}
          /\ ColdPages' \cap (OwnPages' \cup leaked') = {}
          /\ OwnPages' \cap leaked' = {}
          /\ \A f, g \in cold' : f.page = g.page => f = g
      BY <1>2, <1>8, <1>9, <1>10 DEF PageInv, ListsInv
    <2> QED
      BY <2>1, <2>2, <2>3, <2>4, <2>5 DEF ListsInv
  <1>12. InUseInv'
    BY <1>2, <1>4, <1>5, <1>6, <1>10 DEF PageInv, InUseInv
  <1> QED
    BY <1>6, <1>11, <1>12 DEF PageInv

\* The new page is linked.
LEMMA RelockPage ==
  ASSUME TypeOK, LocalsInv, PageInv, NEW t \in Thread, Relock(t), Outside' = Outside
  PROVE  PageInv'
  <1>1. PICK p \in own[t] : partial' = partial \cup {p}
    BY DEF Relock
  <1>2. own[t] = {p} /\ p \in Page /\ p \in OwnPages
    BY <1>1, PageTypes DEF Relock, LocalsInv, LocalsOf, OwnPages
  <1>3. UNCHANGED <<empty, cold, used, free, mem, leaked>>
    BY DEF Relock, hdrVars, osVars
  <1>4. own'[t] = {} /\ \A u \in Thread : u # t => own'[u] = own[u]
    BY PageTypes DEF Relock
  <1>5. \A u \in Thread : u # t => p \notin own[u]
    BY <1>2 DEF PageInv, ListsInv
  <1>6. ColdPages' = ColdPages /\ OwnPages' = OwnPages \ {p}
    BY <1>2, <1>3, <1>4, <1>5 DEF ColdPages, OwnPages
  <1>7. Parked' = Parked \ {p}
    BY <1>2, <1>3, <1>6 DEF Parked, PageInv, ListsInv
  <1>8. used[p] = 0
    BY <1>2, ParkedUnused DEF Parked
  <1>9. UsedExact' /\ FreeListExact'
    BY <1>3, HeadersStay
  <1>10. ListsInv'
    <2>1. \A u, v \in Thread : u # v => own'[u] \cap own'[v] = {}
      BY <1>4 DEF PageInv, ListsInv
    <2> QED
      BY <1>1, <1>2, <1>3, <1>6, <1>7, <2>1 DEF PageInv, ListsInv
  <1>11. InUseInv'
    BY <1>1, <1>2, <1>3, <1>7, <1>8, SmallHeapAssumption DEF PageInv, InUseInv
  <1> QED
    BY <1>9, <1>10, <1>11 DEF PageInv

\* A page on no list is unmapped, or stays mapped for good.
LEMMA UnmapPagePage ==
  ASSUME TypeOK, PageInv, NEW t \in Thread, UnmapPage(t), Outside' = Outside
  PROVE  PageInv'
  <1>1. PICK p \in own[t] :
          /\ own' = [own EXCEPT ![t] = @ \ {p}]
          /\ \/ mem' = [mem EXCEPT ![p] = "unmapped"] /\ UNCHANGED leaked
             \/ leaked' = leaked \cup {p} /\ UNCHANGED mem
    BY DEF UnmapPage
  <1>2. UNCHANGED <<partial, empty, cold, used, free>>
    BY DEF UnmapPage, listVars, hdrVars
  <1>3. p \in Page /\ p \in OwnPages /\ p \in Parked
    BY <1>1, PageTypes DEF OwnPages, Parked
  <1>4. used[p] = 0
    BY <1>3, ParkedUnused
  <1>5. own'[t] = own[t] \ {p} /\ \A u \in Thread : u # t => own'[u] = own[u]
    BY <1>1, PageTypes
  <1>6. \A u \in Thread : u # t => p \notin own[u]
    BY <1>1 DEF PageInv, ListsInv
  <1>7. ColdPages' = ColdPages /\ OwnPages' = OwnPages \ {p}
    BY <1>2, <1>5, <1>6 DEF ColdPages, OwnPages
  <1>8. \A u, v \in Thread : u # v => own'[u] \cap own'[v] = {}
    BY <1>5 DEF PageInv, ListsInv
  <1>9. p \notin partial /\ p \notin empty /\ p \notin ColdPages /\ p \notin leaked
    BY <1>3 DEF PageInv, ListsInv
  <1>10. \A f \in cold : f.page \in Page /\ f.page # p
    BY <1>9, PageTypes DEF ColdPages
  <1>11. CASE mem' = [mem EXCEPT ![p] = "unmapped"] /\ UNCHANGED leaked
    <2>1. mem'[p] = "unmapped" /\ \A q \in Page : q # p => mem'[q] = mem[q]
      BY <1>3, <1>11, PageTypes
    <2>2. Parked' = Parked \ {p}
      BY <1>2, <1>3, <1>7, <1>9, <1>11 DEF Parked
    <2>3. UsedExact' /\ FreeListExact'
      BY <1>2, <2>1, HeadersStay
    <2>4. \A q \in partial' \cup empty' \cup OwnPages' \cup leaked' : q \in Page /\ mem'[q] = "committed"
      BY <1>2, <1>7, <1>9, <1>11, <2>1, PageTypes DEF PageInv, ListsInv
    <2>5. \A f \in cold' : mem'[f.page] = IF f.decommitted THEN "dropped" ELSE "committed"
      BY <1>2, <1>10, <2>1 DEF PageInv, ListsInv
    <2>6. ListsInv'
      BY <1>2, <1>7, <1>8, <1>11, <2>1, <2>2, <2>4, <2>5 DEF PageInv, ListsInv
    <2>7. InUseInv'
      BY <1>2, <1>4, <2>1, <2>2 DEF PageInv, InUseInv
    <2> QED
      BY <2>3, <2>6, <2>7 DEF PageInv
  <1>12. CASE leaked' = leaked \cup {p} /\ UNCHANGED mem
    <2>1. Parked' = Parked
      BY <1>2, <1>3, <1>7, <1>12 DEF Parked
    <2>2. UsedExact' /\ FreeListExact'
      BY <1>2, <1>12, HeadersStay
    <2>3. ListsInv'
      BY <1>2, <1>3, <1>7, <1>8, <1>9, <1>12, <2>1 DEF PageInv, ListsInv
    <2>4. InUseInv'
      BY <1>2, <1>12, <2>1 DEF PageInv, InUseInv
    <2> QED
      BY <2>2, <2>3, <2>4 DEF PageInv
  <1> QED
    BY <1>1, <1>11, <1>12

\* A block is taken out of the page at the head.
LEMMA FillBlockPage ==
  ASSUME TypeOK, HeadInv, Exclusive, PageInv, NEW t \in Thread, FillBlock(t)
  PROVE  Exclusive' /\ PageInv'
  <1>1. PICK p \in HeadPages : FillAt(t, p)
    BY FillBlockAt
  <1>2. PICK i \in Listed(t, p) : FillTake(t, p, i)
    BY <1>1 DEF FillAt
  <1> DEFINE L == Listed(t, p)
             n == Cardinality(L)
  <1>3. Len(chain[t]) < RefillBatch
    BY DEF FillBlock
  <1>4. /\ p \in Page /\ mem[p] = "committed"
        /\ L \in SUBSET Index /\ L \cap Out(p) = {} /\ L \cup Out(p) = 0 .. used[p] + n - 1
    BY <1>3, ListedFresh DEF PageInv
  <1>5. p \in partial
    BY HeadInPage
  <1>6. i \in Index /\ i \notin Out(p) /\ <<p, i>> \in Block
    BY <1>2, <1>4 DEF Block
  <1>7. <<p, i>> \notin Outside
    BY <1>6 DEF Out
  <1>8. UNCHANGED <<bin, rel, live, empty, cold, mem, leaked, own>>
    BY DEF FillBlock, binVars, relVars, progVars, osVars
  <1>9. Exclusive' /\ Outside' = Outside \cup {<<p, i>>}
    BY <1>2, <1>6, <1>7, <1>8, BlockAdded DEF FillTake
  <1>10. Out(p)' = Out(p) \cup {i} /\ \A q \in Page : q # p => Out(q)' = Out(q)
    BY <1>6, <1>9 DEF Out
  <1>11. /\ free'[p] = L \ {i} /\ \A q \in Page : q # p => free'[q] = free[q]
         /\ used'[p] = used[p] + 1 /\ \A q \in Page : q # p => used'[q] = used[q]
    BY <1>2, <1>4, PageTypes DEF FillTake
  <1>12. used[p] \in Nat /\ used[p] = Cardinality(Out(p)) /\ Out(p) \in SUBSET Index
    BY <1>4, PageTypes, OutType DEF PageInv, UsedExact
  <1>13. n \in Nat /\ Cardinality(L \ {i}) = n - 1 /\ Cardinality(Out(p) \cup {i}) = used[p] + 1
    <2>1. IsFiniteSet(L)
      BY <1>4, IndexFinite
    <2>2. n \in Nat
      BY <1>4, IndexFinite
    <2>3. Cardinality(L \ {i}) = n - 1
      BY <1>2, <2>1, FS_RemoveElement
    <2>4. Cardinality(Out(p) \cup {i}) = used[p] + 1
      BY <1>4, <1>6, <1>12, AddIndex
    <2> QED
      BY <2>2, <2>3, <2>4
  <1>14. used[p] + n <= Capacity
    <2>1. n # 0
      BY <1>2, <1>4, NoIndex
    <2>2. used[p] + n - 1 \in 0 .. used[p] + n - 1
      BY <1>12, <1>13, <2>1
    <2>3. used[p] + n - 1 \in Index
      BY <1>4, <1>12, <2>2
    <2> QED
      BY <1>12, <1>13, <2>3, SmallHeapAssumption DEF Index
  <1>15. UsedExact'
    BY <1>10, <1>11, <1>13 DEF PageInv, UsedExact
  <1>16. FreeListExact'
    <2>1. Carved(p)'
      BY <1>2, <1>4, <1>10, <1>11, <1>12, <1>13 DEF Carved
    <2>2. \A q \in Page : q # p => (Carved(q)' <=> Carved(q))
      BY <1>10, <1>11 DEF Carved
    <2> QED
      BY <1>8, <2>1, <2>2 DEF PageInv, FreeListExact
  <1>17. \/ partial' = partial \ {p} /\ used[p] + 1 = Capacity
         \/ partial' = partial /\ used[p] + 1 < Capacity
    <2>1. CASE L = {i} /\ used[p] + 1 >= Capacity
      <3>1. n = 1
        BY <2>1, FS_Singleton
      <3> QED
        BY <1>2, <1>12, <1>14, <2>1, <3>1, SmallHeapAssumption DEF FillTake
    <2>2. CASE ~(L = {i} /\ used[p] + 1 >= Capacity)
      <3>1. L # {i} => n > 1
        <4>1. L # {i} => L \ {i} # {}
          BY <1>2
        <4>2. L \ {i} \in SUBSET Index
          BY <1>4
        <4> QED
          BY <1>13, <4>1, <4>2, NoIndex, IndexFinite
      <3>2. partial' = partial
        BY <1>2, <2>2 DEF FillTake
      <3> QED
        BY <1>12, <1>13, <1>14, <2>2, <3>1, <3>2, SmallHeapAssumption
    <2> QED
      BY <2>1, <2>2
  <1>18. ColdPages' = ColdPages /\ OwnPages' = OwnPages
    BY <1>8 DEF ColdPages, OwnPages
  <1>19. Parked' = Parked
    BY <1>8, <1>18 DEF Parked
  <1>20. ListsInv'
    BY <1>8, <1>17, <1>18, <1>19 DEF PageInv, ListsInv
  <1>21. p \notin Parked
    BY <1>5 DEF PageInv, ListsInv
  <1>22. InUseInv'
    BY <1>4, <1>5, <1>8, <1>11, <1>12, <1>17, <1>19, <1>21, PageTypes DEF PageInv, InUseInv
  <1> QED
    BY <1>9, <1>15, <1>16, <1>20, <1>22 DEF PageInv

\* Parking a page that is in use moves it to exactly one parking place.
LEMMA ParkLists ==
  ASSUME TypeOK, ListsInv, NEW t \in Thread, NEW p \in Page, mem[p] = "committed", p \notin Parked,
         Park(t, p), UNCHANGED leaked
  PROVE  /\ ListsInv' /\ Parked' = Parked \cup {p} /\ partial' = partial \ {p}
         /\ \A q \in Page : q # p => mem'[q] = mem[q]
         /\ mem'[p] # "unmapped"
  <1>1. p \notin empty /\ p \notin ColdPages /\ p \notin OwnPages /\ p \notin leaked
    BY DEF Parked
  <1>2. partial' = partial \ {p}
    BY DEF Park
  <1>3. \A f \in cold : f.page \in Page /\ f.page # p
    BY <1>1, PageTypes DEF ColdPages
  <1>4. CASE empty' = empty \cup {p} /\ UNCHANGED <<cold, own, mem>>
    <2>1. ColdPages' = ColdPages /\ OwnPages' = OwnPages
      BY <1>4 DEF ColdPages, OwnPages
    <2>2. Parked' = Parked \cup {p}
      BY <1>4, <2>1 DEF Parked
    <2>3. ListsInv'
      BY <1>1, <1>2, <1>4, <2>1, <2>2 DEF ListsInv
    <2> QED
      BY <1>2, <1>4, <2>2, <2>3
  <1>5. CASE UNCHANGED <<empty, own>> /\ \E d \in DiscardOutcomes :
               /\ cold' = cold \cup {[page |-> p, decommitted |-> d.physical, zeroed |-> d.zeroed]}
               /\ mem' = IF d.physical THEN [mem EXCEPT ![p] = "dropped"] ELSE mem
    <2>1. PICK d \in DiscardOutcomes :
               /\ cold' = cold \cup {[page |-> p, decommitted |-> d.physical, zeroed |-> d.zeroed]}
               /\ mem' = IF d.physical THEN [mem EXCEPT ![p] = "dropped"] ELSE mem
      BY <1>5
    <2> DEFINE e == [page |-> p, decommitted |-> d.physical, zeroed |-> d.zeroed]
    <2>2. e.page = p /\ e.decommitted = d.physical /\ cold' = cold \cup {e}
      BY <2>1
    <2>3. mem'[p] = (IF d.physical THEN "dropped" ELSE "committed") /\ \A q \in Page : q # p => mem'[q] = mem[q]
      BY <2>1, PageTypes
    <2> HIDE DEF e
    <2>4. ColdPages' = ColdPages \cup {p} /\ OwnPages' = OwnPages
      BY <1>5, <2>2 DEF ColdPages, OwnPages
    <2>5. Parked' = Parked \cup {p}
      BY <1>5, <2>4 DEF Parked
    <2>6. \A f \in cold' : mem'[f.page] = IF f.decommitted THEN "dropped" ELSE "committed"
      BY <1>3, <2>2, <2>3 DEF ListsInv
    <2>7. \A q \in partial' \cup empty' \cup OwnPages' \cup leaked' : q \in Page /\ q # p
      BY <1>1, <1>2, <1>5, <2>4, PageTypes
    <2>8. \A q \in partial' \cup empty' \cup OwnPages' \cup leaked' : mem'[q] = "committed"
      BY <1>2, <1>5, <2>3, <2>4, <2>7 DEF ListsInv
    <2>9. \A f, g \in cold' : f.page = g.page => f = g
      BY <1>3, <2>2 DEF ListsInv
    <2>10. \A q \in Page : mem'[q] = "dropped" => q \in ColdPages'
      BY <2>3, <2>4 DEF ListsInv
    <2>11. /\ partial' \cap Parked' = {}
           /\ empty' \cap (ColdPages' \cup OwnPages' \cup leaked') = {}
           /\ ColdPages' \cap (OwnPages' \cup leaked') = {}
           /\ OwnPages' \cap leaked' = {}
           /\ \A u, v \in Thread : u # v => own'[u] \cap own'[v] = {}
      BY <1>1, <1>2, <1>5, <2>4, <2>5 DEF ListsInv
    <2>12. ListsInv'
      BY <2>6, <2>8, <2>9, <2>10, <2>11 DEF ListsInv
    <2> QED
      BY <1>2, <2>3, <2>5, <2>12
  <1>6. CASE own' = [own EXCEPT ![t] = @ \cup {p}] /\ UNCHANGED <<empty, cold, mem>>
    <2>1. own'[t] = own[t] \cup {p} /\ \A u \in Thread : u # t => own'[u] = own[u]
      BY <1>6, PageTypes
    <2>2. ColdPages' = ColdPages /\ OwnPages' = OwnPages \cup {p}
      BY <1>6, <2>1 DEF ColdPages, OwnPages
    <2>3. Parked' = Parked \cup {p}
      BY <1>6, <2>2 DEF Parked
    <2>4. \A u, v \in Thread : u # v => own'[u] \cap own'[v] = {}
      BY <1>1, <2>1 DEF ListsInv, OwnPages
    <2>5. ListsInv'
      BY <1>1, <1>2, <1>6, <2>2, <2>3, <2>4 DEF ListsInv
    <2> QED
      BY <1>2, <1>6, <2>3, <2>5
  <1> QED
    BY <1>4, <1>5, <1>6 DEF Park

\* A group of blocks goes back to its page.
LEMMA ReleaseGroupPage ==
  ASSUME TypeOK, Exclusive, PageInv, NEW t \in Thread, ReleaseGroup(t)
  PROVE  Exclusive' /\ PageInv'
  <1>1. PICK p \in Page :
          /\ Group(t, p) # {}
          /\ rel' = [rel EXCEPT ![t] = @ \ BlocksOf(p)]
          /\ IF Retires(t, p) THEN RetirePage(t, p) ELSE ReleaseInner(t, p, Group(t, p))
    BY DEF ReleaseGroup
  <1> DEFINE G == Group(t, p)
  <1>2. UNCHANGED <<bin, chain, live, leaked>>
    BY DEF ReleaseGroup, binVars, takeVars
  <1>3. Exclusive' /\ Outside' = Outside \ (rel[t] \cap BlocksOf(p))
    BY <1>1, <1>2, BlocksRemoved
  <1>4. Out(p)' = Out(p) \ G /\ \A q \in Page : q # p => Out(q)' = Out(q)
    BY <1>3 DEF Out, Group, BlocksOf
  <1>5. /\ G \in SUBSET Out(p) /\ G \in SUBSET Index /\ Cardinality(G) \in Nat
        /\ used[p] - Cardinality(G) \in Nat
        /\ used[p] = Cardinality(G) => G = Out(p)
    BY GroupOut DEF PageInv
  <1>6. used[p] \in Nat /\ used[p] = Cardinality(Out(p)) /\ Out(p) \in SUBSET Index
    BY PageTypes, OutType DEF PageInv, UsedExact
  <1>7. Cardinality(G) > 0 /\ used[p] > 0
    BY <1>1, <1>5, <1>6, NoIndex
  <1>8. mem[p] = "committed" /\ p \notin Parked /\ used[p] <= Capacity
    <2>1. mem[p] = "committed" /\ p \notin Parked
      BY <1>7 DEF PageInv, InUseInv
    <2> QED
      BY <1>6, <2>1, IndexFinite
  <1> HIDE DEF G
  <1>9. used'[p] = used[p] - Cardinality(G) /\ \A q \in Page : q # p => used'[q] = used[q]
    <2>1. CASE Retires(t, p)
      BY <1>1, <1>6, <2>1, PageTypes DEF RetirePage, Retires, G
    <2>2. CASE ~Retires(t, p)
      BY <1>1, <2>2, PageTypes DEF ReleaseInner, G
    <2> QED
      BY <2>1, <2>2
  <1>10. Cardinality(Out(p) \ G) = used[p] - Cardinality(G)
    BY <1>5, <1>6, SplitIndex
  <1>11. UsedExact'
    BY <1>4, <1>9, <1>10 DEF PageInv, UsedExact
  <1>12. \A q \in Page : q # p => free'[q] = free[q]
    BY <1>1, PageTypes DEF RetirePage, ReleaseInner
  <1>13. Carved(p)'
    <2>1. CASE Retires(t, p)
      <3>1. free'[p] = {} /\ used[p] = Cardinality(G)
        BY <1>1, <1>6, <2>1, PageTypes DEF RetirePage, Retires, G
      <3>2. Cardinality(free'[p]) = 0
        BY <3>1, FS_EmptySet
      <3> QED
        BY <1>4, <1>5, <1>6, <1>9, <3>1, <3>2 DEF Carved
    <2>2. CASE ~Retires(t, p)
      <3>1. free'[p] = free[p] \cup G
        BY <1>1, <2>2, PageTypes DEF ReleaseInner, G
      <3>2. Carved(p) /\ free[p] \in SUBSET Index
        BY <1>8, PageTypes DEF PageInv, FreeListExact
      <3>3. free[p] \cap G = {}
        BY <1>5, <3>2 DEF Carved
      <3>4. Cardinality(free[p] \cup G) = Cardinality(free[p]) + Cardinality(G)
        <4>1. free[p] \cup G \in SUBSET Index /\ free[p] \in SUBSET (free[p] \cup G)
          BY <1>5, <3>2
        <4>2. (free[p] \cup G) \ free[p] = G
          BY <3>3
        <4>3. /\ Cardinality(G) = Cardinality(free[p] \cup G) - Cardinality(free[p])
              /\ Cardinality(free[p] \cup G) \in Nat /\ Cardinality(free[p]) \in Nat
          BY <3>2, <4>1, <4>2, SplitIndex, IndexFinite
        <4> QED
          BY <1>5, <4>3
      <3>5. Cardinality(free[p]) \in Nat
        BY <3>2, IndexFinite
      <3> QED
        BY <1>4, <1>5, <1>6, <1>9, <3>1, <3>2, <3>3, <3>4, <3>5 DEF Carved
    <2> QED
      BY <2>1, <2>2
  <1>14. \A q \in Page : q # p => (Carved(q)' <=> Carved(q))
    BY <1>4, <1>9, <1>12 DEF Carved
  <1>15. CASE Park(t, p) /\ used[p] = Cardinality(G)
    <2>1. /\ ListsInv' /\ Parked' = Parked \cup {p} /\ partial' = partial \ {p}
          /\ \A q \in Page : q # p => mem'[q] = mem[q]
      BY <1>2, <1>8, <1>15, ParkLists DEF PageInv
    <2>2. FreeListExact'
      BY <1>13, <1>14, <2>1 DEF PageInv, FreeListExact
    <2>3. used'[p] = 0
      BY <1>6, <1>9, <1>15
    <2>4. InUseInv'
      BY <1>9, <2>1, <2>3, PageTypes DEF PageInv, InUseInv
    <2> QED
      BY <1>3, <1>11, <2>1, <2>2, <2>4 DEF PageInv
  <1>16. CASE partial' = partial \cup {p} /\ UNCHANGED <<empty, cold, own, mem>> /\ used[p] # Cardinality(G)
    <2>1. ColdPages' = ColdPages /\ OwnPages' = OwnPages
      BY <1>16 DEF ColdPages, OwnPages
    <2>2. Parked' = Parked
      BY <1>2, <1>16, <2>1 DEF Parked
    <2>3. ListsInv'
      BY <1>2, <1>8, <1>16, <2>1, <2>2 DEF PageInv, ListsInv
    <2>4. FreeListExact'
      BY <1>13, <1>14, <1>16 DEF PageInv, FreeListExact
    <2>5. used'[p] < Capacity /\ used'[p] > 0
      <3> DEFINE g == Cardinality(G)
                 n == used[p]
      <3>1. g \in Nat /\ n \in Nat /\ n - g \in Nat /\ g > 0 /\ n <= Capacity /\ n # g
        BY <1>5, <1>6, <1>7, <1>8, <1>16
      <3>2. Capacity \in Nat
        BY SmallHeapAssumption
      <3> HIDE DEF g, n
      <3>3. n - g < Capacity /\ n - g > 0
        BY <3>1, <3>2
      <3> QED
        BY <1>9, <3>3 DEF g, n
    <2>6. InUseInv'
      BY <1>8, <1>9, <1>16, <2>2, <2>5, PageTypes DEF PageInv, InUseInv
    <2> QED
      BY <1>3, <1>11, <2>3, <2>4, <2>6 DEF PageInv
  <1> QED
    BY <1>1, <1>15, <1>16 DEF RetirePage, ReleaseInner, Retires, G

\* Every step keeps the invariant about pages and blocks.
LEMMA PageStep ==
  ASSUME TypeOK, LocalsInv, HeadInv, Exclusive, PageInv, NEW t \in Thread, Call(t) \/ Continue(t)
  PROVE  Exclusive' /\ PageInv'
  <1>1. CASE FillBlock(t)
    BY <1>1, FillBlockPage
  <1>2. CASE ReleaseGroup(t)
    BY <1>2, ReleaseGroupPage
  <1>3. CASE ~FillBlock(t) /\ ~ReleaseGroup(t)
    <2>1. Exclusive' /\ Outside' = Outside
      BY <1>3, BlockStep DEF BlocksKept
    <2>2. CASE TakeEmpty(t)
      BY <2>1, <2>2, TakeEmptyPage
    <2>3. CASE TakeCold(t)
      BY <2>1, <2>3, TakeColdPage
    <2>4. CASE MapPage(t)
      BY <2>1, <2>4, MapPagePage
    <2>5. CASE Relock(t)
      BY <2>1, <2>5, RelockPage
    <2>6. CASE UnmapPage(t)
      BY <2>1, <2>6, UnmapPagePage
    <2>7. CASE ~(TakeEmpty(t) \/ TakeCold(t) \/ MapPage(t) \/ Relock(t) \/ UnmapPage(t))
      <3>1. UNCHANGED <<listVars, hdrVars, osVars, own>>
        BY <1>3, <2>7
           DEF Call, Continue, AllocHit, BeginTake, FlushAll, Pressure, Free, FreeDirect, FillDone, FillEmpty,
               MapFails, GiveBack, Trim, FlushChunkStep, ReleaseLock, ReleaseUnlock, FatesDone
      <3> QED
        BY <2>1, <3>1, PagesStay DEF listVars, hdrVars, osVars
    <2> QED
      BY <2>1, <2>2, <2>3, <2>4, <2>5, <2>6, <2>7
  <1> QED
    BY <1>1, <1>2, <1>3

\* Adopting a retired cache moves a bin, and nothing else.
LEMMA AdoptStep ==
  ASSUME SafetyInv, NEW t \in Thread, NEW u \in Thread, Adopt(t, u)
  PROVE  SafetyInv'
  <1>1. t # u /\ pc[t] = "idle" /\ pc[u] = "idle" /\ bin[t] = <<>>
    BY DEF Adopt
  <1>2. UNCHANGED <<lock, listVars, hdrVars, osVars, pc, mode, takeVars, own, relVars, progVars>>
    BY DEF Adopt
  <1>3. bin \in [Thread -> Seq(Block)] /\ watermark \in [Thread -> Nat]
    BY DEF SafetyInv, TypeOK
  <1>4. /\ bin'[t] = bin[u] /\ bin'[u] = <<>>
        /\ \A v \in Thread : v # t /\ v # u => bin'[v] = bin[v]
        /\ bin' \in [Thread -> Seq(Block)] /\ watermark' \in [Thread -> Nat]
    BY <1>1, <1>3, EmptyBlocks DEF Adopt
  <1>5. TypeOK'
    BY <1>2, <1>4 DEF SafetyInv, TypeOK, listVars, hdrVars, osVars, takeVars, relVars, progVars
  <1>6. LockInv' /\ HeadInv'
    BY <1>2 DEF SafetyInv, LockInv, HeadInv, listVars, takeVars
  <1>7. LocalsInv'
    BY <1>1, <1>2, <1>4 DEF SafetyInv, LocalsInv, LocalsOf, takeVars, relVars
  <1>8. rel[t] = {} /\ rel[u] = {} /\ chain[t] = <<>> /\ chain[u] = <<>>
    BY <1>1 DEF SafetyInv, LocalsInv, LocalsOf
  <1>9. UNCHANGED <<chain, rel, live>>
    BY <1>2 DEF takeVars, relVars, progVars
  <1>10. CachedBy(t)' = CachedBy(u) /\ CachedBy(u)' = {} /\ CachedBy(t) = {}
    BY <1>1, <1>4, <1>8, <1>9, EmptyBlocks DEF CachedBy
  <1>11. \A v \in Thread : v # t /\ v # u => CachedBy(v)' = CachedBy(v)
    BY <1>4, <1>9 DEF CachedBy
  <1>12. Outside' = Outside
    BY <1>9, <1>10, <1>11 DEF Outside
  <1>13. \A v \in Thread : ThreadExclusive(v)'
    <2>1. ThreadExclusive(t)' /\ ThreadExclusive(u)'
      BY <1>4, <1>8, <1>9, EmptyBlocks DEF SafetyInv, Exclusive, ThreadExclusive
    <2>2. \A v \in Thread : v # t /\ v # u => ThreadExclusive(v)'
      BY <1>4, <1>9 DEF SafetyInv, Exclusive, ThreadExclusive
    <2> QED
      BY <2>1, <2>2
  <1>14. Exclusive'
    BY <1>9, <1>10, <1>11, <1>13 DEF SafetyInv, Exclusive
  <1>15. PageInv'
    BY <1>2, <1>12, PagesStay DEF SafetyInv, PageInv, listVars, hdrVars, osVars
  <1> QED
    BY <1>5, <1>6, <1>7, <1>14, <1>15 DEF SafetyInv, PageInv

-----------------------------------------------------------------------------
(* The invariant. *)

\* It holds before the first call.
LEMMA InitSafe == Init => SafetyInv
  <1> SUFFICES ASSUME Init PROVE SafetyInv
    OBVIOUS
  <1> USE DEF Init
  <1>1. TypeOK
    BY SmallHeapAssumption DEF TypeOK, PcLabels
  <1>2. LockInv /\ LocalsInv /\ HeadInv
    BY SmallHeapAssumption DEF LockInv, LocalsInv, LocalsOf, HeadInv
  <1>3. ColdPages = {} /\ OwnPages = {}
    BY DEF ColdPages, OwnPages
  <1>4. ListsInv /\ InUseInv
    BY <1>3, SmallHeapAssumption DEF ListsInv, InUseInv, Parked
  <1>5. \A t \in Thread : CachedBy(t) = {}
    BY EmptyBlocks DEF CachedBy
  <1>6. Exclusive
    BY <1>5, EmptyBlocks DEF Exclusive, ThreadExclusive
  <1>7. \A p \in Page : Out(p) = {}
    BY <1>5 DEF Out, Outside
  <1>8. UsedExact
    BY <1>7, FS_EmptySet DEF UsedExact
  <1>9. FreeListExact
    BY DEF FreeListExact
  <1> QED
    BY <1>1, <1>2, <1>4, <1>6, <1>8, <1>9 DEF SafetyInv

\* A step, of any thread, keeps it.
LEMMA StepSafe == SafetyInv /\ [Next]_vars => SafetyInv'
  <1> SUFFICES ASSUME SafetyInv, [Next]_vars PROVE SafetyInv'
    OBVIOUS
  <1>1. ASSUME NEW t \in Thread, Call(t) \/ Continue(t) PROVE SafetyInv'
    <2>1. Call(t) \/ Continue(t)
      BY <1>1
    <2>2. TypeOK /\ LockInv /\ LocalsInv /\ HeadInv /\ Exclusive /\ PageInv /\ UsedExact
      BY DEF SafetyInv, PageInv
    <2>3. TypeOK'
      BY <2>1, <2>2, TypeStep
    <2>4. LockInv'
      BY <2>1, <2>2, LockStep
    <2>5. LocalsInv'
      BY <2>1, <2>2, LocalsStep
    <2>6. HeadInv'
      BY <2>1, <2>2, HeadStep
    <2>7. Exclusive' /\ PageInv'
      BY <2>1, <2>2, PageStep
    <2> QED
      BY <2>3, <2>4, <2>5, <2>6, <2>7 DEF SafetyInv, PageInv
  <1>2. ASSUME NEW t \in Thread, NEW u \in Thread, Adopt(t, u) PROVE SafetyInv'
    BY <1>2, AdoptStep
  <1>3. CASE UNCHANGED vars
    <2> USE <1>3 DEF vars, listVars, hdrVars, osVars, binVars, takeVars, relVars, progVars
    <2>1. TypeOK' /\ LockInv' /\ LocalsInv' /\ HeadInv'
      BY DEF SafetyInv, TypeOK, LockInv, LocalsInv, LocalsOf, HeadInv
    <2>2. Exclusive' /\ Outside' = Outside
      BY BlocksStay DEF SafetyInv
    <2>3. PageInv'
      BY <2>2, PagesStay DEF SafetyInv, PageInv
    <2> QED
      BY <2>1, <2>2, <2>3 DEF SafetyInv, PageInv
  <1> QED
    BY <1>1, <1>2, <1>3 DEF Next

\* The lists, the page headers, the bins and the chains of take_blocks and
\* release_many stay consistent, whatever the interleaving.
THEOREM Safety == Spec => []SafetyInv
  BY InitSafe, StepSafe, PTL DEF Spec

\* Type correctness.
THEOREM TypeCorrect == Spec => []TypeOK
  <1>1. SafetyInv => TypeOK
    BY DEF SafetyInv
  <1> QED
    BY <1>1, Safety, PTL

\* A block is never in two hands: not in two bins, not in a bin and with the
\* program, not twice in one chain.
THEOREM NoDoubleHandOut == Spec => []Exclusive
  <1>1. SafetyInv => Exclusive
    BY DEF SafetyInv
  <1> QED
    BY <1>1, Safety, PTL

\* PageHeader.used is exact, so a page is parked exactly when it has no block out.
THEOREM UsedCountsOut == Spec => []UsedExact
  <1>1. SafetyInv => UsedExact
    BY DEF SafetyInv
  <1> QED
    BY <1>1, Safety, PTL

\* The free list and the blocks out are disjoint and form a prefix of the page:
\* provision never carves a block that is in use.
THEOREM FreeListsExact == Spec => []FreeListExact
  <1>1. SafetyInv => FreeListExact
    BY DEF SafetyInv
  <1> QED
    BY <1>1, Safety, PTL

\* A page with a block out is never parked, purged or unmapped.
THEOREM PagesPinned == Spec => []Pinned
  <1>1. SafetyInv => Pinned
    <2> SUFFICES ASSUME SafetyInv, NEW p \in Page, Out(p) # {}
                 PROVE  mem[p] = "committed" /\ p \notin Parked
      BY DEF Pinned
    <2>1. Out(p) \in SUBSET Index /\ used[p] = Cardinality(Out(p))
      BY OutType DEF SafetyInv, UsedExact
    <2>2. used[p] > 0
      BY <2>1, NoIndex, IndexFinite
    <2> QED
      BY <2>2 DEF SafetyInv, InUseInv
  <1> QED
    BY <1>1, Safety, PTL

\* A mapped page is on the partial list, full, or parked.
THEOREM PagesNotLost == Spec => []NoPageLost
  <1>1. SafetyInv => NoPageLost
    <2> SUFFICES ASSUME SafetyInv, NEW p \in Page, mem[p] # "unmapped"
                 PROVE  \/ p \in partial /\ used[p] < Capacity
                        \/ p \notin partial /\ used[p] = Capacity
                        \/ p \in Parked
      BY DEF NoPageLost
    <2>1. used[p] \in Nat /\ used[p] <= Capacity
      BY OutType, IndexFinite DEF SafetyInv, UsedExact
    <2> QED
      BY <2>1, SmallHeapAssumption DEF SafetyInv, InUseInv
  <1> QED
    BY <1>1, Safety, PTL

-----------------------------------------------------------------------------
(***************************************************************************)
(* A small size class implements AllocContract: what the program holds is  *)
(* its own, keeps its bytes, and reads as zero when it came from calloc.   *)
(* ZeroInv is inductive relative to SafetyInv.                             *)
(***************************************************************************)

(* Frame lemmas.  A step of t writes to the blocks D. *)

\* What a step of t leaves of the claims of the other threads.
OthersZero(t) == \A u \in Thread : u # t => virgin'[u] = virgin[u] /\ watermark'[u] = watermark[u]

\* Every step of a thread leaves them all.
LEMMA OthersZeroStep ==
  ASSUME TypeOK, NEW t \in Thread, Call(t) \/ Continue(t)
  PROVE  OthersZero(t)
  <1>1. virgin \in [Thread -> BOOLEAN] /\ watermark \in [Thread -> Nat]
    BY DEF TypeOK
  <1> USE <1>1 DEF OthersZero, binVars, takeVars
  <1>2. Call(t) => OthersZero(t)
    BY DEF Call, AllocHit, BeginTake, FlushAll, Pressure, Free, FreeDirect
  <1>3. FillBlock(t) \/ TakeEmpty(t) \/ TakeCold(t) => OthersZero(t)
    BY DEF FillBlock, TakeEmpty, TakeCold
  <1>4. FillDone(t) \/ FillEmpty(t) \/ MapPage(t) \/ MapFails(t) \/ Relock(t) => OthersZero(t)
    BY DEF FillDone, Finish, FillEmpty, MapPage, MapFails, Relock
  <1>5. GiveBack(t) \/ Trim(t) \/ FlushChunkStep(t) => OthersZero(t)
    BY DEF GiveBack, Trim, FlushChunkStep
  <1>6. ReleaseLock(t) \/ ReleaseGroup(t) \/ ReleaseUnlock(t) \/ UnmapPage(t) \/ FatesDone(t) => OthersZero(t)
    BY DEF ReleaseLock, ReleaseGroup, ReleaseUnlock, UnmapPage, FatesDone
  <1> QED
    BY <1>2, <1>3, <1>4, <1>5, <1>6 DEF Continue

\* What is in a bin below its watermark is cached.
LEMMA BinCached ==
  ASSUME TypeOK, NEW u \in Thread, CleanBin(u)
  PROVE  \A i \in 1 .. watermark[u] : bin[u][i] \in SeqBlocks(bin[u])
  <1>1. bin[u] \in Seq(Block) /\ watermark[u] \in Nat
    BY DEF TypeOK
  <1>2. 1 .. watermark[u] \subseteq 1 .. Len(bin[u])
    BY <1>1 DEF CleanBin
  <1> QED
    BY <1>2 DEF SeqBlocks

\* The other threads' claims hold when nothing they have is written to.
LEMMA OthersClean ==
  ASSUME TypeOK, ZeroInv, NEW t \in Thread, Others(t), OthersZero(t), NEW D,
         dirty' \subseteq dirty \cup D, \A u \in Thread : u # t => CachedBy(u) \cap D = {}
  PROVE  \A u \in Thread : u # t => CleanBin(u)' /\ CleanChain(u)'
  <1> SUFFICES ASSUME NEW u \in Thread, u # t PROVE CleanBin(u)' /\ CleanChain(u)'
    OBVIOUS
  <1>1. /\ bin'[u] = bin[u] /\ chain'[u] = chain[u]
        /\ virgin'[u] = virgin[u] /\ watermark'[u] = watermark[u]
    BY DEF Others, OthersZero
  <1>2. CleanBin(u) /\ CleanChain(u)
    BY DEF ZeroInv
  <1>3. SeqBlocks(bin[u]) \cap D = {} /\ SeqBlocks(chain[u]) \cap D = {}
    BY DEF CachedBy
  <1>4. \A i \in 1 .. watermark[u] : bin[u][i] \notin dirty'
    BY <1>2, <1>3, BinCached DEF CleanBin
  <1>5. CleanBin(u)'
    BY <1>1, <1>2, <1>4 DEF CleanBin
  <1>6. SeqBlocks(chain[u])' = SeqBlocks(chain[u])
    BY <1>1 DEF SeqBlocks
  <1>7. CleanChain(u)'
    BY <1>1, <1>2, <1>3, <1>6 DEF CleanChain
  <1> QED
    BY <1>5, <1>7

\* A cold page has no block outside.
LEMMA ColdUnused ==
  ASSUME SafetyInv, NEW e \in cold
  PROVE  e.page \in Page /\ BlocksOf(e.page) \cap Outside = {}
  <1>1. e.page \in Page /\ e.page \in Parked
    <2>1. e \in ColdEntry
      BY PageTypes DEF SafetyInv
    <2> QED
      BY <2>1 DEF ColdEntry, Parked, ColdPages
  <1>2. Out(e.page) = {}
    BY <1>1, ParkedUnused DEF SafetyInv, PageInv
  <1> QED
    BY <1>1, <1>2 DEF Out, BlocksOf

\* Pages and cold pages stay clean when only blocks outside are written to.
LEMMA PagesClean ==
  ASSUME SafetyInv, ZeroInv, NEW D \in SUBSET Outside, dirty' \subseteq dirty \cup D,
         Outside' = Outside, flags' = flags, cold' = cold
  PROVE  (\A p \in Page : CleanPage(p)') /\ CleanCold'
  <1>1. \A p \in Page : Out(p)' = Out(p)
    BY DEF Out
  <1>2. \A p \in Page : \A i \in Index \ Out(p) : <<p, i>> \notin D
    BY DEF Out
  <1>3. \A p \in Page : CleanPage(p)'
    BY <1>1, <1>2 DEF ZeroInv, CleanPage
  <1>4. \A e \in cold : BlocksOf(e.page) \cap D = {}
    BY ColdUnused
  <1>5. CleanCold'
    BY <1>4 DEF ZeroInv, CleanCold, BlocksOf
  <1> QED
    BY <1>3, <1>5

-----------------------------------------------------------------------------
(* The thread's own claims. *)

\* A bin that shrinks to a prefix, with its watermark lowered accordingly.
LEMMA BinShrinks ==
  ASSUME TypeOK, NEW t \in Thread, CleanBin(t), NEW n \in 0 .. Len(bin[t]),
         bin'[t] = SubSeq(bin[t], 1, n), watermark'[t] = Min2(watermark[t], n),
         NEW D, dirty' \subseteq dirty \cup D, SeqBlocks(SubSeq(bin[t], 1, n)) \cap D = {}
  PROVE  CleanBin(t)'
  <1>1. bin[t] \in Seq(Block) /\ watermark[t] \in Nat /\ Len(bin[t]) \in Nat
    BY DEF TypeOK
  <1>2. Len(SubSeq(bin[t], 1, n)) = n /\ \A i \in 1 .. n : SubSeq(bin[t], 1, n)[i] = bin[t][i]
    BY <1>1
  <1>3. watermark'[t] \in Nat /\ watermark'[t] <= n /\ watermark'[t] <= watermark[t]
    BY <1>1 DEF Min2
  <1>4. watermark'[t] <= Len(bin'[t])
    BY <1>2, <1>3
  <1>5. ASSUME NEW i \in 1 .. watermark'[t] PROVE bin'[t][i] \notin dirty'
    <2>1. i \in 1 .. n /\ i \in 1 .. watermark[t]
      BY <1>1, <1>3
    <2>2. bin'[t][i] = bin[t][i] /\ bin[t][i] \notin dirty
      BY <1>2, <2>1 DEF CleanBin
    <2>3. bin'[t][i] \in SeqBlocks(SubSeq(bin[t], 1, n))
      BY <1>2, <2>1 DEF SeqBlocks
    <2> QED
      BY <2>2, <2>3
  <1> QED
    BY <1>4, <1>5 DEF CleanBin

\* A step that leaves the bin alone and writes to nothing in it.
LEMMA BinStays ==
  ASSUME TypeOK, NEW t \in Thread, CleanBin(t), bin'[t] = bin[t], watermark'[t] = watermark[t],
         NEW D, dirty' \subseteq dirty \cup D, SeqBlocks(bin[t]) \cap D = {}
  PROVE  CleanBin(t)'
  BY BinCached DEF CleanBin

\* A chain that keeps some of its blocks, none of them written to.
LEMMA ChainShrinks ==
  ASSUME NEW t \in Thread, CleanChain(t), virgin'[t] => virgin[t],
         SeqBlocks(chain'[t]) \subseteq SeqBlocks(chain[t]),
         NEW D, dirty' \subseteq dirty \cup D, SeqBlocks(chain'[t]) \cap D = {}
  PROVE  CleanChain(t)'
  <1>1. SeqBlocks(chain[t])' = SeqBlocks(chain'[t])
    BY DEF SeqBlocks
  <1> QED
    BY <1>1 DEF CleanChain

\* An empty chain claims nothing.
LEMMA ChainEmpty ==
  ASSUME NEW t \in Thread, chain'[t] = <<>> \/ virgin'[t] = FALSE
  PROVE  CleanChain(t)'
  <1>1. SeqBlocks(chain[t])' = SeqBlocks(chain'[t])
    BY DEF SeqBlocks
  <1> QED
    BY <1>1, EmptyBlocks DEF CleanChain

-----------------------------------------------------------------------------
(* The four ways a step can touch what the contract is about.  Each keeps  *)
(* ZeroInv and is a step of the contract.                                  *)

Implements == [Contract!CNext]_(Contract!cvars)
Progress == ZeroInv' /\ Implements

\* What all steps of a thread have in common.
StepOf(t) == SafetyInv /\ ZeroInv /\ (Call(t) \/ Continue(t))

\* Nothing the program sees, and no page: only the thread's own claims change.
LEMMA QuietProgress ==
  ASSUME NEW t \in Thread, StepOf(t), UNCHANGED progVars, flags' = flags, cold' = cold, Outside' = Outside,
         CleanBin(t)', CleanChain(t)'
  PROVE  Progress
  <1>1. \A u \in Thread : u # t => CleanBin(u)' /\ CleanChain(u)'
    <2>1. TypeOK /\ ZeroInv /\ Others(t) /\ OthersZero(t)
      BY OthersStep, OthersZeroStep DEF StepOf, SafetyInv
    <2>2. dirty' \subseteq dirty \cup {} /\ \A u \in Thread : u # t => CachedBy(u) \cap {} = {}
      BY DEF progVars
    <2> QED
      BY <2>1, <2>2, OthersClean
  <1>2. (\A p \in Page : CleanPage(p)') /\ CleanCold'
    <2>1. {} \in SUBSET Outside /\ dirty' \subseteq dirty \cup {}
      BY DEF progVars
    <2> QED
      BY <2>1, PagesClean DEF StepOf
  <1>3. ZeroInv'
    BY <1>1, <1>2 DEF StepOf, ZeroInv, CallocReadsZero, progVars
  <1> QED
    BY <1>3 DEF Progress, Implements, Contract!cvars, progVars

\* A block outside that the other threads do not have is written to.
LEMMA WriteProgress ==
  ASSUME NEW t \in Thread, StepOf(t), NEW b \in Outside, dirty' \subseteq dirty \cup {b},
         flags' = flags, cold' = cold, Outside' = Outside, CleanBin(t)', CleanChain(t)',
         b \in CachedBy(t) \cup live, zeroed' \subseteq live' /\ zeroed' \cap dirty' = {}
  PROVE  ZeroInv'
  <1>1. \A u \in Thread : u # t => CleanBin(u)' /\ CleanChain(u)'
    <2>1. TypeOK /\ ZeroInv /\ Others(t) /\ OthersZero(t)
      BY OthersStep, OthersZeroStep DEF StepOf, SafetyInv
    <2>2. \A u \in Thread : u # t => CachedBy(u) \cap {b} = {}
      BY DEF StepOf, SafetyInv, Exclusive
    <2> QED
      BY <2>1, <2>2, OthersClean
  <1>2. (\A p \in Page : CleanPage(p)') /\ CleanCold'
    <2>1. {b} \in SUBSET Outside
      OBVIOUS
    <2> QED
      BY <2>1, PagesClean DEF StepOf
  <1> QED
    BY <1>1, <1>2 DEF ZeroInv, CallocReadsZero

\* malloc and calloc.
LEMMA ServeProgress ==
  ASSUME NEW t \in Thread, StepOf(t), NEW b \in CachedBy(t), NEW claim \in BOOLEAN, Serve(b, claim),
         claim => b \notin dirty, flags' = flags, cold' = cold, Outside' = Outside,
         CleanBin(t)', CleanChain(t)'
  PROVE  Progress
  <1>1. b \in Outside /\ b \in Block /\ b \notin live
    <2>1. b \in Outside /\ b \notin live
      BY DEF Outside, StepOf, SafetyInv, Exclusive
    <2>2. bin[t] \in Seq(Block) /\ chain[t] \in Seq(Block) /\ rel[t] \in SUBSET Block
      BY DEF StepOf, SafetyInv, TypeOK
    <2>3. b \in Block
      BY <2>2, SeqBlocksType DEF CachedBy
    <2> QED
      BY <2>1, <2>3
  <1>2. zeroed \subseteq live /\ zeroed \cap dirty = {}
    BY DEF StepOf, ZeroInv, CallocReadsZero
  <1>3. zeroed' \subseteq live' /\ zeroed' \cap dirty' = {} /\ dirty' \subseteq dirty \cup {b}
    BY <1>1, <1>2 DEF Serve
  <1>4. ZeroInv'
    BY <1>1, <1>3, WriteProgress
  <1>5. Contract!CMalloc(b) \/ Contract!CCalloc(b)
    BY <1>1 DEF Serve, Contract!CMalloc, Contract!CCalloc
  <1>6. Implements
    BY <1>1, <1>5 DEF Implements, Contract!CNext
  <1> QED
    BY <1>4, <1>6 DEF Progress

\* free.
LEMMA DropProgress ==
  ASSUME NEW t \in Thread, StepOf(t), NEW b \in Block, Drop(b),
         flags' = flags, cold' = cold, Outside' = Outside, CleanBin(t)', CleanChain(t)'
  PROVE  Progress
  <1>1. b \in Outside /\ b \in live
    BY DEF Outside, Drop
  <1>2. zeroed \subseteq live /\ zeroed \cap dirty = {}
    BY DEF StepOf, ZeroInv, CallocReadsZero
  <1>3. zeroed' \subseteq live' /\ zeroed' \cap dirty' = {} /\ dirty' \subseteq dirty \cup {b}
    BY <1>1, <1>2 DEF Drop
  <1>4. ZeroInv'
    BY <1>1, <1>3, WriteProgress
  <1>5. Contract!CFree(b)
    BY <1>1 DEF Drop, Contract!CFree
  <1> QED
    BY <1>4, <1>5 DEF Progress, Implements, Contract!CNext

\* Mapping, purging and parking a page: nobody has a block of it afterwards.
LEMMA ReclaimProgress ==
  ASSUME NEW t \in Thread, StepOf(t), NEW p \in Page, UNCHANGED <<bin, watermark, chain, virgin, live, zeroed>>,
         dirty' \subseteq dirty \cup BlocksOf(p), dirty \subseteq dirty' \cup BlocksOf(p),
         dirty' # dirty => BlocksOf(p) \cap Outside' = {}, dirty' \in SUBSET Block,
         \A u \in Thread : SeqBlocks(bin[u]) \cup SeqBlocks(chain[u]) \subseteq Outside',
         live \subseteq Outside', \A q \in Page : CleanPage(q)', CleanCold'
  PROVE  Progress
  <1>1. dirty' \cap Outside' = dirty \cap Outside'
    <2>1. CASE dirty' = dirty
      BY <2>1
    <2>2. CASE BlocksOf(p) \cap Outside' = {}
      BY <2>2
    <2> QED
      BY <2>1, <2>2
  <1>2. \A u \in Thread : CleanBin(u)' /\ CleanChain(u)'
    <2> SUFFICES ASSUME NEW u \in Thread PROVE CleanBin(u)' /\ CleanChain(u)'
      OBVIOUS
    <2>1. CleanBin(u) /\ CleanChain(u) /\ TypeOK
      BY DEF StepOf, SafetyInv, ZeroInv
    <2>2. \A i \in 1 .. watermark[u] : bin[u][i] \in Outside'
      BY <2>1, BinCached
    <2>3. CleanBin(u)'
      BY <1>1, <2>1, <2>2 DEF CleanBin
    <2>4. SeqBlocks(chain[u])' = SeqBlocks(chain[u])
      BY DEF SeqBlocks
    <2>5. CleanChain(u)'
      BY <1>1, <2>1, <2>4 DEF CleanChain
    <2> QED
      BY <2>3, <2>5
  <1>3. zeroed \subseteq live /\ zeroed \cap dirty = {}
    BY DEF StepOf, ZeroInv, CallocReadsZero
  <1>4. dirty' \cap live = dirty \cap live
    BY <1>1
  <1>5. ZeroInv'
    BY <1>2, <1>3, <1>4 DEF ZeroInv, CallocReadsZero
  <1>6. Contract!CReclaim
    BY <1>4 DEF Contract!CReclaim
  <1> QED
    BY <1>5, <1>6 DEF Progress, Implements, Contract!CNext

-----------------------------------------------------------------------------
(* The actions. *)

\* fill_from_list takes a block nobody has had since its page was virgin.
LEMMA FillBlockProgress ==
  ASSUME NEW t \in Thread, StepOf(t), FillBlock(t)
  PROVE  Progress
  <1>s. TypeOK /\ HeadInv /\ ListsInv /\ FreeListExact /\ Exclusive
    BY DEF StepOf, SafetyInv
  <1>1. PICK p \in HeadPages : FillAt(t, p)
    BY FillBlockAt
  <1>2. PICK i \in Listed(t, p) : FillTake(t, p, i)
    BY <1>1 DEF FillAt
  <1>3. p \in Page /\ i \in Index /\ i \notin Out(p)
    BY <1>s, ListedFresh DEF FillBlock
  <1>4. <<p, i>> \in Block /\ <<p, i>> \notin Outside
    BY <1>3 DEF Block, Out
  <1>5. /\ chain' = [chain EXCEPT ![t] = Append(@, <<p, i>>)]
        /\ UNCHANGED <<bin, watermark, rel, live, dirty, zeroed, flags, cold>>
        /\ virgin' = [virgin EXCEPT ![t] = @ /\ "VIRGIN" \in flags[p]]
    BY <1>2 DEF FillTake, FillBlock, binVars, relVars, progVars
  <1>6. Outside' = Outside \cup {<<p, i>>}
    BY <1>s, <1>4, <1>5, BlockAdded
  <1>7. CleanBin(t) /\ CleanChain(t) /\ CleanPage(p)
    BY <1>3 DEF StepOf, ZeroInv
  <1>8. CleanBin(t)'
    BY <1>5, <1>7 DEF CleanBin
  <1>9. CleanChain(t)'
    <2>1. chain[t] \in Seq(Block) /\ <<p, i>> \notin SeqBlocks(chain[t]) /\ Distinct(chain[t])
      <3>1. chain[t] \in Seq(Block) /\ Distinct(chain[t])
        BY <1>s DEF TypeOK, Exclusive, ThreadExclusive
      <3>2. SeqBlocks(chain[t]) \subseteq Outside
        BY DEF Outside, CachedBy
      <3> QED
        BY <1>4, <3>1, <3>2
    <2>2. chain'[t] = Append(chain[t], <<p, i>>) /\ virgin'[t] = (virgin[t] /\ "VIRGIN" \in flags[p])
      BY <1>s, <1>5 DEF TypeOK
    <2>3. SeqBlocks(chain[t])' = SeqBlocks(chain[t]) \cup {<<p, i>>}
      BY <1>4, <2>1, <2>2, PushBlock DEF SeqBlocks
    <2>4. "VIRGIN" \in flags[p] => <<p, i>> \notin dirty
      BY <1>3, <1>7 DEF CleanPage
    <2> QED
      BY <1>5, <1>7, <2>2, <2>3, <2>4 DEF CleanChain
  <1>10. \A u \in Thread : u # t => CleanBin(u)' /\ CleanChain(u)'
    <2>1. ZeroInv /\ Others(t) /\ OthersZero(t)
      BY <1>s, OthersStep, OthersZeroStep DEF StepOf
    <2>2. dirty' \subseteq dirty \cup {} /\ \A u \in Thread : u # t => CachedBy(u) \cap {} = {}
      BY <1>5
    <2> QED
      BY <1>s, <2>1, <2>2, OthersClean
  <1>11. \A q \in Page : Out(q) \subseteq Out(q)'
    BY <1>6 DEF Out
  <1>12. \A q \in Page : CleanPage(q)'
    BY <1>5, <1>11 DEF StepOf, ZeroInv, CleanPage
  <1>13. CleanCold'
    BY <1>5 DEF StepOf, ZeroInv, CleanCold
  <1>14. ZeroInv'
    BY <1>5, <1>8, <1>9, <1>10, <1>12, <1>13 DEF StepOf, ZeroInv, CallocReadsZero
  <1> QED
    BY <1>5, <1>14 DEF Progress, Implements, Contract!cvars

\* A group goes back to its page, which is no longer virgin and may be purged.
LEMMA ReleaseGroupProgress ==
  ASSUME NEW t \in Thread, StepOf(t), ReleaseGroup(t)
  PROVE  Progress
  <1>s. TypeOK /\ Exclusive /\ UsedExact
    BY DEF StepOf, SafetyInv
  <1>1. PICK p \in Page :
          /\ Group(t, p) # {}
          /\ rel' = [rel EXCEPT ![t] = @ \ BlocksOf(p)]
          /\ IF Retires(t, p) THEN RetirePage(t, p) ELSE ReleaseInner(t, p, Group(t, p))
    BY DEF ReleaseGroup
  <1>2. UNCHANGED <<bin, watermark, chain, virgin, live, zeroed>>
    BY DEF ReleaseGroup, binVars, takeVars
  <1>3. Outside' = Outside \ (rel[t] \cap BlocksOf(p))
    BY <1>s, <1>1, <1>2, BlocksRemoved
  <1>4. Out(p)' = Out(p) \ Group(t, p) /\ \A q \in Page : q # p => Out(q)' = Out(q)
    BY <1>3 DEF Out, Group, BlocksOf
  <1>5. used[p] = Cardinality(Group(t, p)) => Out(p)' = {}
    BY <1>s, <1>4, GroupOut
  <1>6. used[p] = Cardinality(Group(t, p)) => BlocksOf(p) \cap Outside' = {}
    BY <1>5 DEF Out, BlocksOf
  <1>7. flags'[p] = flags'[p] \ {"VIRGIN"} /\ \A q \in Page : q # p => flags'[q] = flags[q]
    BY <1>s, <1>1, TypedVars DEF RetirePage, ReleaseInner
  <1>8. \/ dirty' = dirty /\ cold' = cold
        \/ /\ used[p] = Cardinality(Group(t, p))
           /\ \E d \in DiscardOutcomes :
                /\ cold' = cold \cup {[page |-> p, decommitted |-> d.physical, zeroed |-> d.zeroed]}
                /\ dirty' = IF d.zeroed THEN dirty \ BlocksOf(p)
                            ELSE IF d.physical THEN dirty \cup BlocksOf(p) ELSE dirty
    BY <1>1 DEF RetirePage, ReleaseInner, Retires, Park
  <1>9. dirty' \subseteq dirty \cup BlocksOf(p) /\ dirty \subseteq dirty' \cup BlocksOf(p)
    BY <1>8
  <1>10. dirty' # dirty => BlocksOf(p) \cap Outside' = {}
    BY <1>6, <1>8
  <1>11. dirty' \in SUBSET Block
    BY <1>s, <1>9 DEF TypeOK, BlocksOf, Block
  <1>12. /\ \A u \in Thread : SeqBlocks(bin[u]) \cup SeqBlocks(chain[u]) \subseteq Outside'
         /\ live \subseteq Outside'
    <2>1. SeqBlocks(bin[t]) \cap rel[t] = {} /\ SeqBlocks(chain[t]) \cap rel[t] = {} /\ live \cap rel[t] = {}
      BY <1>s DEF Exclusive, ThreadExclusive, CachedBy
    <2>2. \A u \in Thread : u # t => (SeqBlocks(bin[u]) \cup SeqBlocks(chain[u])) \cap rel[t] = {}
      BY <1>s DEF Exclusive, CachedBy
    <2>3. \A u \in Thread : SeqBlocks(bin[u]) \cup SeqBlocks(chain[u]) \subseteq Outside
      BY DEF Outside, CachedBy
    <2> QED
      BY <1>3, <2>1, <2>2, <2>3 DEF Outside
  <1>13. \A q \in Page : CleanPage(q)'
    <2> SUFFICES ASSUME NEW q \in Page, "VIRGIN" \in flags'[q], NEW i \in Index \ Out(q)'
                 PROVE  <<q, i>> \notin dirty'
      BY DEF CleanPage
    <2>1. q # p
      BY <1>7
    <2>2. <<q, i>> \notin BlocksOf(p)
      BY <2>1 DEF BlocksOf
    <2>3. "VIRGIN" \in flags[q] /\ i \in Index \ Out(q)
      BY <1>4, <1>7, <2>1
    <2>4. <<q, i>> \notin dirty
      BY <2>3 DEF StepOf, ZeroInv, CleanPage
    <2> QED
      BY <1>9, <2>2, <2>4
  <1>c. p \notin Parked
    <2>1. Out(p) # {}
      BY <1>s, <1>1, GroupOut
    <2> QED
      BY <1>s, <2>1, ParkedUnused DEF StepOf, SafetyInv, PageInv
  <1>14. CleanCold'
    <2>1. CASE dirty' = dirty /\ cold' = cold
      BY <2>1 DEF StepOf, ZeroInv, CleanCold
    <2>2. CASE \E d \in DiscardOutcomes :
                /\ cold' = cold \cup {[page |-> p, decommitted |-> d.physical, zeroed |-> d.zeroed]}
                /\ dirty' = IF d.zeroed THEN dirty \ BlocksOf(p)
                            ELSE IF d.physical THEN dirty \cup BlocksOf(p) ELSE dirty
      <3>1. PICK d \in DiscardOutcomes :
                /\ cold' = cold \cup {[page |-> p, decommitted |-> d.physical, zeroed |-> d.zeroed]}
                /\ dirty' = IF d.zeroed THEN dirty \ BlocksOf(p)
                            ELSE IF d.physical THEN dirty \cup BlocksOf(p) ELSE dirty
        BY <2>2
      <3> DEFINE n == [page |-> p, decommitted |-> d.physical, zeroed |-> d.zeroed]
      <3>2. n.page = p /\ n.zeroed = d.zeroed /\ cold' = cold \cup {n}
        BY <3>1
      <3> HIDE DEF n
      <3>3. n.zeroed => BlocksOf(n.page) \cap dirty' = {}
        BY <3>1, <3>2
      <3>4. ASSUME NEW e \in cold, e.zeroed PROVE BlocksOf(e.page) \cap dirty' = {}
        <4>1. BlocksOf(e.page) \cap dirty = {}
          BY <3>4 DEF StepOf, ZeroInv, CleanCold
        <4>2. BlocksOf(e.page) \cap BlocksOf(p) = {}
          BY <1>c DEF BlocksOf, Parked, ColdPages
        <4> QED
          BY <1>9, <4>1, <4>2
      <3> QED
        BY <3>2, <3>3, <3>4 DEF CleanCold, BlocksOf
    <2> QED
      BY <1>8, <2>1, <2>2
  <1> QED
    BY <1>2, <1>9, <1>10, <1>11, <1>12, <1>13, <1>14, ReclaimProgress

\* A new page is virgin and reads as zero.
LEMMA MapPageProgress ==
  ASSUME NEW t \in Thread, StepOf(t), MapPage(t), Outside' = Outside
  PROVE  Progress
  <1>s. TypeOK
    BY DEF StepOf, SafetyInv
  <1>1. PICK p \in Page : mem[p] = "unmapped" /\ dirty' = dirty \ BlocksOf(p) /\ InitPage(p, {"VIRGIN"})
    BY DEF MapPage
  <1>2. UNCHANGED <<bin, watermark, chain, virgin, live, zeroed, cold>>
    BY DEF MapPage, listVars, binVars, takeVars
  <1>3. BlocksOf(p) \cap Outside' = {}
    <2>1. Out(p) = {}
      BY <1>s, <1>1, ParkedUnused DEF StepOf, SafetyInv, PageInv
    <2> QED
      BY <2>1 DEF Out, BlocksOf
  <1>4. /\ dirty' \subseteq dirty \cup BlocksOf(p) /\ dirty \subseteq dirty' \cup BlocksOf(p)
        /\ dirty' \in SUBSET Block
    BY <1>s, <1>1 DEF TypeOK
  <1>5. /\ \A u \in Thread : SeqBlocks(bin[u]) \cup SeqBlocks(chain[u]) \subseteq Outside'
        /\ live \subseteq Outside'
    BY DEF Outside, CachedBy
  <1>6. \A q \in Page : CleanPage(q)'
    <2>1. \A q \in Page : Out(q)' = Out(q)
      BY DEF Out
    <2>2. \A q \in Page : q # p => flags'[q] = flags[q]
      BY <1>s, <1>1, TypedVars DEF InitPage
    <2>3. \A i \in Index : <<p, i>> \notin dirty'
      BY <1>1 DEF BlocksOf
    <2> QED
      BY <1>1, <2>1, <2>2, <2>3 DEF StepOf, ZeroInv, CleanPage
  <1>7. CleanCold'
    BY <1>1, <1>2 DEF StepOf, ZeroInv, CleanCold, BlocksOf
  <1> QED
    BY <1>2, <1>3, <1>4, <1>5, <1>6, <1>7, ReclaimProgress

\* A page from the empty list is virgin only if its header says so, and one from
\* the cold array only if it was purged to zeros.
LEMMA TakePageProgress ==
  ASSUME NEW t \in Thread, StepOf(t), TakeEmpty(t) \/ TakeCold(t), Outside' = Outside
  PROVE  Progress
  <1>s. TypeOK
    BY DEF StepOf, SafetyInv
  <1>1. UNCHANGED <<bin, watermark, chain, live, dirty, zeroed>> /\ chain[t] = <<>>
    BY DEF TakeEmpty, TakeCold, binVars, progVars
  <1>2. \A q \in Page : Out(q)' = Out(q)
    BY DEF Out
  <1>3. (\A q \in Page : CleanPage(q)') /\ CleanCold'
    <2>1. CASE TakeEmpty(t)
      <3>1. PICK p \in empty : IF "NEEDS_REINIT" \in flags[p] THEN InitPage(p, {}) ELSE UNCHANGED hdrVars
        BY <2>1 DEF TakeEmpty
      <3>2. \A q \in Page : flags'[q] = flags[q] \/ "VIRGIN" \notin flags'[q]
        BY <1>s, <3>1, TypedVars DEF InitPage, hdrVars
      <3>3. \A q \in Page : CleanPage(q)'
        BY <1>1, <1>2, <3>2 DEF StepOf, ZeroInv, CleanPage
      <3>4. CleanCold'
        BY <1>1, <2>1 DEF StepOf, ZeroInv, CleanCold, TakeEmpty
      <3> QED
        BY <3>3, <3>4
    <2>2. CASE TakeCold(t)
      <3>1. PICK e \in cold : cold' = cold \ {e} /\ InitPage(e.page, IF e.zeroed THEN {"VIRGIN"} ELSE {})
        BY <2>2 DEF TakeCold
      <3>2. CleanCold'
        BY <1>1, <3>1 DEF StepOf, ZeroInv, CleanCold
      <3>3. e.page \in Page
        BY ColdUnused DEF StepOf
      <3>4. /\ \A q \in Page : q # e.page => flags'[q] = flags[q]
            /\ "VIRGIN" \in flags'[e.page] => e.zeroed
        BY <1>s, <3>1, <3>3, TypedVars DEF InitPage
      <3>5. e.zeroed => \A i \in Index : <<e.page, i>> \notin dirty
        BY DEF StepOf, ZeroInv, CleanCold, BlocksOf
      <3>6. \A q \in Page : CleanPage(q)'
        BY <1>1, <1>2, <3>4, <3>5 DEF StepOf, ZeroInv, CleanPage
      <3> QED
        BY <3>2, <3>6
    <2> QED
      BY <2>1, <2>2
  <1>4. \A u \in Thread : CleanBin(u)'
    BY <1>1 DEF StepOf, ZeroInv, CleanBin
  <1>5. \A u \in Thread : CleanChain(u)'
    <2>1. CleanChain(t)'
      BY <1>1, ChainEmpty
    <2>2. \A u \in Thread : u # t => virgin'[u] = virgin[u]
      BY <1>s, OthersZeroStep DEF StepOf, OthersZero
    <2>3. \A u \in Thread : u # t => CleanChain(u)'
      BY <1>1, <2>2 DEF StepOf, ZeroInv, CleanChain, SeqBlocks
    <2> QED
      BY <2>1, <2>3
  <1>6. ZeroInv'
    BY <1>1, <1>3, <1>4, <1>5 DEF StepOf, ZeroInv, CallocReadsZero
  <1> QED
    BY <1>1, <1>6 DEF Progress, Implements, Contract!cvars

\* A hit: the block on top of the bin, below the watermark or not.
LEMMA AllocHitProgress ==
  ASSUME NEW t \in Thread, StepOf(t), AllocHit(t), Outside' = Outside
  PROVE  Progress
  <1>s. TypeOK /\ Exclusive /\ ThreadExclusive(t) /\ CleanBin(t) /\ CleanChain(t)
    BY DEF StepOf, SafetyInv, Exclusive, ZeroInv
  <1> DEFINE b == Top(bin[t])
             claim == Len(bin[t]) - 1 < watermark[t]
             n == Len(bin[t]) - 1
  <1>1. /\ bin[t] \in Seq(Block) /\ bin[t] # <<>> /\ Distinct(bin[t]) /\ watermark[t] \in Nat
        /\ bin \in [Thread -> Seq(Block)] /\ watermark \in [Thread -> Nat]
    BY <1>s DEF AllocHit, TypeOK, ThreadExclusive
  <1>2. Len(bin[t]) \in Nat /\ Len(bin[t]) > 0 /\ n \in 0 .. Len(bin[t])
    BY <1>1
  <1>3. /\ bin'[t] = SubSeq(bin[t], 1, n) /\ watermark'[t] = Min2(watermark[t], n)
        /\ UNCHANGED <<flags, cold, chain, virgin>> /\ Serve(b, claim)
    BY <1>1 DEF AllocHit, Below, hdrVars, listVars, takeVars
  <1>4. /\ SeqBlocks(SubSeq(bin[t], 1, n)) \cup {b} = SeqBlocks(bin[t])
        /\ b \notin SeqBlocks(SubSeq(bin[t], 1, n))
    BY <1>1, PopBlock DEF Below
  <1>5. b \in CachedBy(t) /\ b \notin SeqBlocks(chain[t])
    BY <1>s, <1>4 DEF CachedBy, ThreadExclusive
  <1>6. claim => b \notin dirty
    <2>1. claim => Len(bin[t]) \in 1 .. watermark[t]
      BY <1>1, <1>2
    <2> QED
      BY <1>s, <2>1 DEF CleanBin, Top
  <1>7. dirty' \subseteq dirty \cup {b}
    BY <1>3 DEF Serve
  <1> HIDE DEF b, n
  <1>8. CleanBin(t)'
    <2>1. SeqBlocks(SubSeq(bin[t], 1, n)) \cap {b} = {}
      BY <1>4
    <2> QED
      BY <1>s, <1>2, <1>3, <1>7, <2>1, BinShrinks
  <1>9. CleanChain(t)'
    <2>1. SeqBlocks(chain'[t]) = SeqBlocks(chain[t]) /\ SeqBlocks(chain'[t]) \cap {b} = {} /\ (virgin'[t] => virgin[t])
      BY <1>3, <1>5
    <2> QED
      BY <1>s, <1>7, <2>1, ChainShrinks
  <1>10. claim \in BOOLEAN
    OBVIOUS
  <1> HIDE DEF claim
  <1> QED
    BY <1>3, <1>5, <1>6, <1>8, <1>9, <1>10, ServeProgress

\* take_blocks returns: the block on top of the chain, clean if every page was.
LEMMA FillDoneProgress ==
  ASSUME NEW t \in Thread, StepOf(t), FillDone(t), Outside' = Outside
  PROVE  Progress
  <1>s. TypeOK /\ Exclusive /\ ThreadExclusive(t) /\ CleanBin(t) /\ CleanChain(t) /\ LocalsOf(t)
    BY DEF StepOf, SafetyInv, Exclusive, ZeroInv, LocalsInv
  <1> DEFINE c == chain[t]
             b == Top(c)
  <1>1. /\ c \in Seq(Block) /\ c # <<>> /\ Distinct(c) /\ virgin[t] \in BOOLEAN
        /\ chain \in [Thread -> Seq(Block)] /\ bin \in [Thread -> Seq(Block)]
        /\ virgin \in [Thread -> BOOLEAN] /\ watermark \in [Thread -> Nat]
    BY <1>s DEF FillDone, TypeOK, ThreadExclusive
  <1>2. UNCHANGED <<flags, cold>> /\ Serve(b, virgin[t]) /\ virgin'[t] = FALSE
    BY <1>1 DEF FillDone, Finish, hdrVars, listVars
  <1>3. SeqBlocks(Below(c)) \cup {b} = SeqBlocks(c) /\ b \notin SeqBlocks(Below(c))
    BY <1>1, PopBlock
  <1>4. b \in CachedBy(t) /\ (virgin[t] => b \notin dirty) /\ b \notin SeqBlocks(bin[t])
    BY <1>s, <1>3 DEF CachedBy, CleanChain, ThreadExclusive
  <1>5. dirty' \subseteq dirty \cup {b}
    BY <1>2 DEF Serve
  <1>6. CleanChain(t)'
    BY <1>2, ChainEmpty
  <1>7. CleanBin(t)'
    <2>1. CASE mode[t] = "cache"
      <3>1. bin'[t] = Below(c) /\ watermark'[t] = IF virgin[t] THEN Len(c) - 1 ELSE 0
        BY <1>1, <2>1 DEF FillDone, Finish
      <3>2. Len(c) \in Nat /\ Len(c) > 0 /\ Len(Below(c)) = Len(c) - 1
        <4>1. Len(c) \in Nat /\ Len(c) > 0
          BY <1>1
        <4>2. Len(c) - 1 \in 0 .. Len(c)
          BY <4>1
        <4> HIDE DEF c
        <4> QED
          BY <1>1, <4>1, <4>2, PrefixFacts DEF Below
      <3>3. watermark'[t] \in 0 .. Len(Below(c))
        BY <3>1, <3>2
      <3>4. ASSUME NEW i \in 1 .. watermark'[t] PROVE Below(c)[i] \notin dirty'
        <4>1. virgin[t]
          BY <3>1
        <4>2. Below(c)[i] \in SeqBlocks(Below(c))
          BY <3>2, <3>3 DEF SeqBlocks
        <4>3. SeqBlocks(c) \cap dirty = {}
          BY <1>s, <4>1 DEF CleanChain
        <4> QED
          BY <1>3, <1>5, <4>2, <4>3
      <3> QED
        BY <3>1, <3>2, <3>3, <3>4 DEF CleanBin
    <2>2. CASE mode[t] # "cache"
      <3>1. bin'[t] = bin[t] /\ watermark'[t] = watermark[t] /\ SeqBlocks(bin[t]) \cap {b} = {}
        BY <1>4, <2>2 DEF FillDone, Finish, binVars
      <3> QED
        BY <1>s, <1>5, <3>1, BinStays
    <2> QED
      BY <2>1, <2>2
  <1> HIDE DEF b, c
  <1> QED
    BY <1>1, <1>2, <1>4, <1>6, <1>7, ServeProgress

\* A freed block goes on top of the bin, above the watermark.
LEMMA FreeProgress ==
  ASSUME NEW t \in Thread, StepOf(t), NEW b \in Block, Free(t, b) \/ FreeDirect(t, b), Outside' = Outside
  PROVE  Progress
  <1>s. /\ TypeOK /\ Exclusive /\ ThreadExclusive(t) /\ CleanBin(t) /\ CleanChain(t)
        /\ CachedBy(t) \cap live = {}
    BY DEF StepOf, SafetyInv, Exclusive, ZeroInv
  <1>1. /\ Drop(b) /\ UNCHANGED <<flags, cold, chain, virgin, watermark>> /\ b \in live
        /\ bin[t] \in Seq(Block) /\ watermark[t] \in Nat /\ dirty' = dirty \cup {b}
    BY <1>s DEF Free, FreeDirect, Drop, hdrVars, listVars, takeVars, binVars, TypeOK
  <1>2. b \notin SeqBlocks(bin[t]) /\ b \notin SeqBlocks(chain[t])
    BY <1>s, <1>1 DEF CachedBy
  <1>3. CleanChain(t)'
    <2>1. /\ SeqBlocks(chain'[t]) \subseteq SeqBlocks(chain[t]) /\ SeqBlocks(chain'[t]) \cap {b} = {}
          /\ (virgin'[t] => virgin[t]) /\ dirty' \subseteq dirty \cup {b}
      BY <1>1, <1>2
    <2> QED
      BY <1>s, <2>1, ChainShrinks
  <1>4. CleanBin(t)'
    <2>1. CASE bin'[t] = bin[t]
      <3>1. dirty' \subseteq dirty \cup {b} /\ SeqBlocks(bin[t]) \cap {b} = {} /\ watermark'[t] = watermark[t]
        BY <1>1, <1>2
      <3> QED
        BY <1>s, <2>1, <3>1, BinStays
    <2>2. CASE bin'[t] = Append(bin[t], b)
      <3>1. /\ Len(Append(bin[t], b)) = Len(bin[t]) + 1 /\ Len(bin[t]) \in Nat
            /\ \A i \in 1 .. Len(bin[t]) : Append(bin[t], b)[i] = bin[t][i]
        BY <1>1
      <3>2. watermark[t] <= Len(bin[t])
        BY <1>s DEF CleanBin
      <3>3. ASSUME NEW i \in 1 .. watermark[t] PROVE Append(bin[t], b)[i] \notin dirty'
        <4>1. i \in 1 .. Len(bin[t])
          BY <1>1, <3>1, <3>2
        <4>2. bin[t][i] \in SeqBlocks(bin[t]) /\ bin[t][i] \notin dirty
          BY <1>s, <4>1 DEF SeqBlocks, CleanBin
        <4> QED
          BY <1>1, <1>2, <3>1, <4>1, <4>2
      <3> QED
        BY <1>1, <2>2, <3>1, <3>2, <3>3 DEF CleanBin
    <2> QED
      BY <1>s, <2>1, <2>2 DEF Free, FreeDirect, binVars, TypeOK
  <1> QED
    BY <1>1, <1>3, <1>4, DropProgress

\* The steps that only move blocks within a thread, or touch none.
LEMMA LocalProgress ==
  ASSUME NEW t \in Thread, StepOf(t), Outside' = Outside,
         \/ BeginTake(t) \/ FlushAll(t) \/ Pressure(t) \/ FillEmpty(t) \/ MapFails(t) \/ Relock(t)
         \/ GiveBack(t) \/ Trim(t) \/ FlushChunkStep(t) \/ ReleaseLock(t) \/ ReleaseUnlock(t)
         \/ UnmapPage(t) \/ FatesDone(t)
  PROVE  Progress
  <1>s. TypeOK /\ CleanBin(t) /\ CleanChain(t) /\ LocalsOf(t) /\ chain[t] \in Seq(Block)
    BY DEF StepOf, SafetyInv, ZeroInv, LocalsInv, TypeOK
  <1>1. UNCHANGED progVars /\ flags' = flags /\ cold' = cold
    BY DEF BeginTake, FlushAll, Pressure, FillEmpty, MapFails, Relock, GiveBack, Trim, FlushChunkStep,
           ReleaseLock, ReleaseUnlock, UnmapPage, FatesDone, listVars, hdrVars
  <1>2. dirty' \subseteq dirty \cup {}
    BY <1>1 DEF progVars
  <1>3. CleanBin(t)'
    <2>1. CASE UNCHANGED binVars
      <3>1. bin'[t] = bin[t] /\ watermark'[t] = watermark[t] /\ SeqBlocks(bin[t]) \cap {} = {}
        BY <2>1 DEF binVars
      <3> QED
        BY <1>s, <1>2, <3>1, BinStays
    <2>2. CASE FlushChunkStep(t) /\ ~(Len(bin[t]) <= floor[t])
      <3>1. PICK keep \in 0 .. Len(bin[t]) : FlushTo(t, keep)
        BY <1>s, <2>2, FlushAt
      <3>2. bin'[t] = SubSeq(bin[t], 1, keep) /\ watermark'[t] = Min2(watermark[t], keep)
        BY <1>s, <3>1, TypedVars DEF FlushTo
      <3>3. SeqBlocks(SubSeq(bin[t], 1, keep)) \cap {} = {}
        OBVIOUS
      <3> QED
        BY <1>s, <1>2, <3>2, <3>3, BinShrinks
    <2> QED
      BY <2>1, <2>2
         DEF BeginTake, FlushAll, Pressure, FillEmpty, MapFails, Relock, GiveBack, Trim, FlushChunkStep,
             ReleaseLock, ReleaseUnlock, UnmapPage, FatesDone
  <1>4. CleanChain(t)'
    <2>1. CASE BeginTake(t)
      <3>1. chain[t] = <<>> /\ chain' = chain
        BY <1>s, <2>1 DEF BeginTake, LocalsOf
      <3> QED
        BY <3>1, ChainEmpty
    <2>2. CASE MapFails(t)
      <3>1. virgin'[t] = FALSE
        BY <1>s, <2>2 DEF MapFails, TypeOK
      <3> QED
        BY <3>1, ChainEmpty
    <2>3. CASE GiveBack(t) /\ chain[t] # <<>>
      <3>1. SeqBlocks(Below(chain[t])) \subseteq SeqBlocks(chain[t])
        BY <1>s, <2>3, PopBlock DEF StepOf, SafetyInv, Exclusive, ThreadExclusive
      <3>2. chain'[t] = Below(chain[t]) /\ virgin' = virgin
        BY <1>s, <2>3, TypedVars DEF GiveBack
      <3>3. SeqBlocks(chain'[t]) \subseteq SeqBlocks(chain[t]) /\ SeqBlocks(chain'[t]) \cap {} = {}
        BY <3>1, <3>2
      <3> QED
        BY <1>s, <1>2, <3>2, <3>3, ChainShrinks
    <2>4. CASE chain' = chain /\ virgin' = virgin
      <3>1. SeqBlocks(chain'[t]) \subseteq SeqBlocks(chain[t]) /\ SeqBlocks(chain'[t]) \cap {} = {}
        BY <2>4
      <3> QED
        BY <1>s, <1>2, <2>4, <3>1, ChainShrinks
    <2> QED
      BY <2>1, <2>2, <2>3, <2>4
         DEF FlushAll, Pressure, FillEmpty, Relock, GiveBack, Trim, FlushChunkStep,
             ReleaseLock, ReleaseUnlock, UnmapPage, FatesDone, takeVars
  <1> QED
    BY <1>1, <1>3, <1>4, QuietProgress

\* Every step of a thread.
LEMMA ThreadProgress ==
  ASSUME NEW t \in Thread, StepOf(t)
  PROVE  Progress
  <1>1. CASE FillBlock(t)
    BY <1>1, FillBlockProgress
  <1>2. CASE ReleaseGroup(t)
    BY <1>2, ReleaseGroupProgress
  <1>3. CASE ~FillBlock(t) /\ ~ReleaseGroup(t)
    <2>1. Outside' = Outside
      BY <1>3, BlockStep DEF StepOf, SafetyInv, BlocksKept
    <2>2. CASE MapPage(t)
      BY <2>1, <2>2, MapPageProgress
    <2>3. CASE TakeEmpty(t) \/ TakeCold(t)
      BY <2>1, <2>3, TakePageProgress
    <2>4. CASE AllocHit(t)
      BY <2>1, <2>4, AllocHitProgress
    <2>5. CASE FillDone(t)
      BY <2>1, <2>5, FillDoneProgress
    <2>6. ASSUME NEW b \in Block, Free(t, b) \/ FreeDirect(t, b) PROVE Progress
      BY <2>1, <2>6, FreeProgress
    <2>7. CASE \/ BeginTake(t) \/ FlushAll(t) \/ Pressure(t) \/ FillEmpty(t) \/ MapFails(t) \/ Relock(t)
               \/ GiveBack(t) \/ Trim(t) \/ FlushChunkStep(t) \/ ReleaseLock(t) \/ ReleaseUnlock(t)
               \/ UnmapPage(t) \/ FatesDone(t)
      BY <2>1, <2>7, LocalProgress
    <2> QED
      BY <1>3, <2>2, <2>3, <2>4, <2>5, <2>6, <2>7 DEF StepOf, Call, Continue
  <1> QED
    BY <1>1, <1>2, <1>3

\* An adopted bin comes with its watermark.
LEMMA AdoptProgress ==
  ASSUME SafetyInv, ZeroInv, NEW t \in Thread, NEW u \in Thread, Adopt(t, u), SafetyInv'
  PROVE  Progress
  <1>s. TypeOK
    BY DEF SafetyInv
  <1>1. /\ t # u /\ bin' = [bin EXCEPT ![t] = bin[u], ![u] = <<>>]
        /\ watermark' = [watermark EXCEPT ![t] = watermark[u], ![u] = 0]
        /\ UNCHANGED <<flags, cold, chain, virgin, rel, live, dirty, zeroed>>
    BY DEF Adopt, listVars, hdrVars, takeVars, relVars, progVars
  <1>2. bin \in [Thread -> Seq(Block)] /\ watermark \in [Thread -> Nat]
    BY <1>s DEF TypeOK
  <1>3. /\ bin'[t] = bin[u] /\ watermark'[t] = watermark[u] /\ bin'[u] = <<>> /\ watermark'[u] = 0
        /\ \A v \in Thread : v # t /\ v # u => bin'[v] = bin[v] /\ watermark'[v] = watermark[v]
    BY <1>1, <1>2
  <1>4. \A v \in Thread : CleanBin(v)'
    <2>1. (\A v \in Thread : CleanBin(v)) /\ dirty' = dirty
      BY <1>1 DEF ZeroInv
    <2>2. CleanBin(t)'
      BY <1>3, <2>1 DEF CleanBin
    <2>3. CleanBin(u)'
      BY <1>3 DEF CleanBin
    <2>4. \A v \in Thread : v # t /\ v # u => CleanBin(v)'
      BY <1>3, <2>1 DEF CleanBin
    <2> QED
      BY <2>2, <2>3, <2>4
  <1>5. \A v \in Thread : CleanChain(v)'
    BY <1>1 DEF ZeroInv, CleanChain, SeqBlocks
  <1>6. Outside \subseteq Outside'
    <2>1. \A v \in Thread : CachedBy(v) \subseteq Outside'
      <3>1. \A v \in Thread : v # t /\ v # u => CachedBy(v)' = CachedBy(v)
        BY <1>1, <1>3 DEF CachedBy
      <3>2. bin[t] = <<>>
        BY DEF Adopt
      <3>3. CachedBy(t) \subseteq CachedBy(t)' \cup CachedBy(u)'
        BY <1>1, <3>2, EmptyBlocks DEF CachedBy
      <3>4. CachedBy(u) \subseteq CachedBy(t)' \cup CachedBy(u)'
        BY <1>1, <1>3 DEF CachedBy
      <3> QED
        BY <3>1, <3>3, <3>4 DEF Outside
    <2> QED
      BY <1>1, <2>1 DEF Outside
  <1>7. \A p \in Page : CleanPage(p)'
    <2>1. \A p \in Page : Out(p) \subseteq Out(p)'
      BY <1>6 DEF Out
    <2> QED
      BY <1>1, <2>1 DEF ZeroInv, CleanPage
  <1>8. CleanCold'
    BY <1>1 DEF ZeroInv, CleanCold
  <1>9. ZeroInv'
    BY <1>1, <1>4, <1>5, <1>7, <1>8 DEF ZeroInv, CallocReadsZero
  <1> QED
    BY <1>1, <1>9 DEF Progress, Implements, Contract!cvars

\* Every step of the class.
LEMMA StepProgress ==
  ASSUME SafetyInv, ZeroInv, [Next]_vars
  PROVE  Progress
  <1>1. ASSUME NEW t \in Thread, Call(t) \/ Continue(t) PROVE Progress
    BY <1>1, ThreadProgress DEF StepOf
  <1>2. ASSUME NEW t \in Thread, NEW u \in Thread, Adopt(t, u) PROVE Progress
    <2>1. SafetyInv'
      BY <1>2, AdoptStep
    <2> QED
      BY <1>2, <2>1, AdoptProgress
  <1>3. CASE UNCHANGED vars
    <2> USE <1>3 DEF vars, listVars, hdrVars, osVars, binVars, takeVars, relVars, progVars
    <2>1. \A t \in Thread : CleanBin(t)' /\ CleanChain(t)'
      BY DEF ZeroInv, CleanBin, CleanChain, SeqBlocks
    <2>2. Outside' = Outside
      BY BlocksStay DEF SafetyInv
    <2>3. (\A p \in Page : CleanPage(p)') /\ CleanCold'
      BY <2>2, PagesClean
    <2>4. ZeroInv'
      BY <2>1, <2>3 DEF ZeroInv, CallocReadsZero
    <2> QED
      BY <2>4 DEF Progress, Implements, Contract!cvars
  <1> QED
    BY <1>1, <1>2, <1>3 DEF Next

-----------------------------------------------------------------------------
(* The theorems. *)

\* No block is dirty before the first call.
LEMMA InitClean == Init => ZeroInv /\ Contract!CInit
  <1> SUFFICES ASSUME Init PROVE ZeroInv /\ Contract!CInit
    OBVIOUS
  <1>1. \A t \in Thread : CleanBin(t) /\ CleanChain(t)
    BY DEF Init, CleanBin, CleanChain
  <1> QED
    BY <1>1 DEF Init, ZeroInv, CleanPage, CleanCold, CallocReadsZero, Contract!CInit

\* The virgin flag of a page, the virginity of a chain, the watermark of a bin
\* and a cold page's `zeroed` claim zeros only where there are zeros.
THEOREM ZeroClaims == Spec => []ZeroInv
  <1>1. SafetyInv /\ ZeroInv /\ [Next]_vars => ZeroInv'
    BY StepProgress DEF Progress
  <1> QED
    BY <1>1, InitClean, Safety, PTL DEF Spec

\* A block from alloc_zeroed reads as zero until the program writes to it.
THEOREM CallocZero == Spec => []CallocReadsZero
  <1>1. ZeroInv => CallocReadsZero
    BY DEF ZeroInv
  <1> QED
    BY <1>1, ZeroClaims, PTL

\* Through refills, flushes, purges, unmaps and adoptions by any number of
\* threads, a size class does to the program only what the contract allows.
THEOREM ContractHolds == Spec => ImplementsContract
  <1>1. SafetyInv /\ ZeroInv /\ [Next]_vars => [Contract!CNext]_(Contract!cvars)
    BY StepProgress DEF Progress, Implements
  <1> QED
    BY <1>1, InitClean, Safety, ZeroClaims, PTL DEF Spec, ImplementsContract, Contract!CSpec

=============================================================================
