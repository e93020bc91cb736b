------------------------ MODULE RetiredCachesProofs ------------------------
(***************************************************************************)
(* RetiredInv is an invariant of RetiredCaches, for any finite set of      *)
(* threads, any blocks, any number of slots and any width of the count     *)
(* that exceeds it; with it InOnePlace and CountSettles.                   *)
(***************************************************************************)
EXTENDS RetiredCaches, FiniteSetTheorems, TLAPS

-----------------------------------------------------------------------------
(* The count. *)

\* A remainder is determined by the quotient it belongs to.
LEMMA RemainderUnique ==
  ASSUME NEW u \in Nat \ {0}, NEW q \in Int, NEW p \in Int,
         NEW r \in 0 .. u - 1, NEW s \in 0 .. u - 1, u * q + r = u * p + s
  PROVE  r = s
  <1>1. u * (q - p) = s - r
    OBVIOUS
  <1>2. CASE q - p >= 1
    <2>1. u * (q - p) >= u
      BY <1>2
    <2> QED
      BY <1>1, <2>1
  <1>3. CASE q - p <= -1
    <2>1. u * (q - p) <= -u
      BY <1>3
    <2> QED
      BY <1>1, <2>1
  <1>4. CASE q - p = 0
    BY <1>1, <1>4
  <1> QED
    BY <1>2, <1>3, <1>4

\* The remainder of a number.
LEMMA DivMod ==
  ASSUME NEW u \in Nat \ {0}, NEW x \in Int
  PROVE  /\ x % u \in 0 .. u - 1
         /\ \E q \in Int : x = u * q + (x % u)
  <1>1. x % u \in 0 .. u - 1
    OBVIOUS
  <1>2. x \div u \in Int
    OBVIOUS
  <1>3. x = u * (x \div u) + (x % u)
    OBVIOUS
  <1> QED
    BY <1>1, <1>2, <1>3

\* fetch_add and fetch_sub on a counter that may have wrapped.
LEMMA CountShift ==
  ASSUME NEW u \in Nat \ {0}, NEW x \in Int, NEW d \in Int
  PROVE  ((x % u) + d) % u = (x + d) % u
  <1>1. PICK q \in Int : x = u * q + (x % u)
    BY DivMod
  <1>2. x % u \in 0 .. u - 1
    BY DivMod
  <1> DEFINE y == (x % u) + d
             z == x + d
  <1>3. y \in Int /\ z \in Int /\ z = u * q + y
    <2>1. y \in Int /\ z \in Int
      BY <1>2
    <2>2. u * q \in Int
      OBVIOUS
    <2> QED
      BY <1>1, <1>2, <2>1, <2>2
  <1> HIDE DEF y, z
  <1>4. PICK p \in Int : y = u * p + (y % u)
    BY <1>3, DivMod
  <1>5. PICK o \in Int : z = u * o + (z % u)
    BY <1>3, DivMod
  <1>6. y % u \in 0 .. u - 1 /\ z % u \in 0 .. u - 1
    BY <1>3, DivMod
  <1>7. u * (q + p) = u * q + u * p
    BY <1>4
  <1>8. u * (q + p) + (y % u) = u * o + (z % u) /\ q + p \in Int
    BY <1>3, <1>4, <1>5, <1>6, <1>7
  <1>9. y % u = z % u
    <2> DEFINE n == q + p
               r == y % u
               k == z % u
    <2>1. n \in Int /\ r \in 0 .. u - 1 /\ k \in 0 .. u - 1 /\ u * n + r = u * o + k
      BY <1>6, <1>8
    <2> HIDE DEF n, r, k
    <2>2. r = k
      BY <2>1, RemainderUnique
    <2> QED
      BY <2>2 DEF r, k
  <1> QED
    BY <1>9 DEF y, z

-----------------------------------------------------------------------------
(* Types and control. *)

\* A step of t leaves what belongs to the other threads alone.
OthersAlone(t) ==
  \A u \in Thread \ {t} :
    /\ pc'[u] = pc[u] /\ at'[u] = at[u] /\ call'[u] = call[u] /\ want'[u] = want[u]
    /\ hand'[u] = hand[u] /\ tls'[u] = tls[u] /\ cache'[u] = cache[u]

\* A step of t touches no other thread's locals, TLS state or cache.
LEMMA OthersStep ==
  ASSUME TypeOK, NEW t \in Thread, Call(t) \/ Continue(t)
  PROVE  OthersAlone(t)
  <1> USE DEF TypeOK, OthersAlone, Goto, Done, NotTaken, Taken, memVars, slotVars, ctlVars
  <1>1. CASE Alloc(t)
    BY <1>1 DEF Alloc
  <1>2. CASE Free(t)
    BY <1>2 DEF Free
  <1>3. CASE Direct(t)
    BY <1>3 DEF Direct
  <1>4. CASE BeginRefill(t)
    BY <1>4 DEF BeginRefill
  <1>5. CASE BeginFlush(t)
    BY <1>5 DEF BeginFlush
  <1>6. CASE Exit(t)
    BY <1>6 DEF Exit
  <1>7. CASE Start(t)
    BY <1>7 DEF Start
  <1>8. CASE Serve(t)
    BY <1>8 DEF Serve
  <1>9. CASE FlushOwn(t)
    BY <1>9 DEF FlushOwn
  <1>10. CASE LoadCount(t)
    BY <1>10 DEF LoadCount
  <1>11. CASE ScanSlot(t)
    BY <1>11 DEF ScanSlot
  <1>12. CASE ReadSlot(t)
    BY <1>12 DEF ReadSlot
  <1>13. CASE EmptySlot(t)
    BY <1>13 DEF EmptySlot
  <1>14. CASE Uncount(t)
    BY <1>14 DEF Uncount
  <1>15. CASE ClaimSlot(t)
    BY <1>15 DEF ClaimSlot
  <1>16. CASE WriteSlot(t)
    BY <1>16 DEF WriteSlot
  <1>17. CASE PublishSlot(t)
    BY <1>17 DEF PublishSlot
  <1>18. CASE Count(t)
    BY <1>18 DEF Count
  <1> QED
    BY <1>1, <1>2, <1>3, <1>4, <1>5, <1>6, <1>7, <1>8, <1>9, <1>10, <1>11, <1>12, <1>13, <1>14, <1>15, <1>16, <1>17, <1>18 DEF Call, Continue

\* What NotTaken leaves.
LEMMA NotTakenFacts ==
  ASSUME TypeOK, NEW t \in Thread, NotTaken(t)
  PROVE  /\ pc' \in [Thread -> PcLabels] /\ at' \in [Thread -> Slot]
         /\ call' = call /\ want' \in [Thread -> {"adopt", "steal", "drain"}]
         /\ pc'[t] \in {"load", "flush_own", "serve"}
         /\ pc'[t] = "flush_own" => call[t] = "flush"
         /\ pc'[t] = "serve" => call[t] # "flush"
         /\ want[t] = "drain" => want'[t] = "drain"
  <1>1. 1 \in Slot
    BY RetiredCachesAssumption DEF Slot
  <1>2. at' \in [Thread -> Slot] /\ call' = call
    BY <1>1 DEF TypeOK, NotTaken
  <1>3. /\ pc' \in [Thread -> PcLabels] /\ pc'[t] \in {"load", "flush_own", "serve"}
        /\ pc'[t] = "flush_own" => call[t] = "flush"
        /\ pc'[t] = "serve" => call[t] # "flush"
    BY DEF TypeOK, NotTaken, Goto, PcLabels
  <1>4. want' \in [Thread -> {"adopt", "steal", "drain"}] /\ (want[t] = "drain" => want'[t] = "drain")
    BY DEF TypeOK, NotTaken
  <1> QED
    BY <1>2, <1>3, <1>4

\* What Done leaves the locals at.
LEMMA DoneFacts ==
  ASSUME TypeOK, NEW t \in Thread, Done(t)
  PROVE  /\ pc' \in [Thread -> PcLabels] /\ at' \in [Thread -> Slot]
         /\ call' \in [Thread -> {"none", "refill", "flush", "exit"}]
         /\ want' \in [Thread -> {"adopt", "steal", "drain"}]
         /\ pc'[t] = "idle" /\ call'[t] = "none"
  <1>1. 1 \in Slot
    BY RetiredCachesAssumption DEF Slot
  <1> QED
    BY <1>1 DEF TypeOK, Done, PcLabels

\* What Goto does to pc.
LEMMA GotoFacts ==
  ASSUME TypeOK, NEW t \in Thread, NEW label \in PcLabels, Goto(t, label)
  PROVE  pc' \in [Thread -> PcLabels] /\ pc'[t] = label
  BY DEF TypeOK, Goto

\* The count stays a usize.
LEMMA CountType ==
  ASSUME NEW x \in Int
  PROVE  x % Usize \in 0 .. Usize - 1
  <1>1. Usize \in Nat \ {0}
    BY RetiredCachesAssumption
  <1> QED
    BY <1>1, DivMod

\* TypeOK, step by step.
LEMMA TypeStep ==
  ASSUME TypeOK, Next
  PROVE  TypeOK'
  <1>t. PICK t \in Thread : Call(t) \/ Continue(t)
    BY DEF Next
  <1>l. {"idle", "serve", "flush_own", "load", "scan", "read", "empty", "uncount",
         "claim", "write", "publish", "count"} \subseteq PcLabels
    BY DEF PcLabels
  <1>s. 1 \in Slot /\ at[t] \in Slot /\ (at[t] < SlotCount => at[t] + 1 \in Slot)
    BY RetiredCachesAssumption DEF Slot, TypeOK
  <1>u. (ready + 1) % Usize \in 0 .. Usize - 1 /\ (ready - 1) % Usize \in 0 .. Usize - 1
    <2>1. ready + 1 \in Int /\ ready - 1 \in Int
      BY RetiredCachesAssumption DEF TypeOK
    <2> QED
      BY <2>1, CountType
  <1> USE DEF memVars, slotVars, ctlVars
  <1>1. CASE Alloc(t)
    BY <1>1 DEF Alloc, TypeOK
  <1>2. CASE Free(t)
    <2> PICK b \in live : \E shed \in SUBSET (cache[t] \cup {b}) :
           /\ live' = live \ {b}
           /\ cache' = [cache EXCEPT ![t] = (cache[t] \cup {b}) \ shed]
           /\ heap' = heap \cup shed
      BY <1>2 DEF Free
    <2> PICK shed \in SUBSET (cache[t] \cup {b}) :
           /\ live' = live \ {b}
           /\ cache' = [cache EXCEPT ![t] = (cache[t] \cup {b}) \ shed]
           /\ heap' = heap \cup shed
      OBVIOUS
    <2>1. b \in Block /\ cache[t] \in SUBSET Block
      BY DEF TypeOK
    <2>2. heap' \in SUBSET Block /\ live' \in SUBSET Block /\ cache' \in [Thread -> SUBSET Block]
      BY <2>1 DEF TypeOK
    <2> QED
      BY <1>2, <2>2 DEF Free, TypeOK
  <1>3. CASE Direct(t)
    BY <1>3 DEF Direct, TypeOK
  <1>4. CASE BeginRefill(t)
    <2>1. pc' \in [Thread -> PcLabels]
      BY <1>4, <1>l, GotoFacts DEF BeginRefill
    <2> QED
      BY <1>4, <2>1 DEF BeginRefill, TypeOK
  <1>5. CASE BeginFlush(t)
    <2>1. pc' \in [Thread -> PcLabels]
      BY <1>5, <1>l, GotoFacts DEF BeginFlush
    <2> QED
      BY <1>5, <2>1 DEF BeginFlush, TypeOK
  <1>6. CASE Exit(t)
    <2>1. CASE cache[t] = {} \/ Cardinality(cache[t]) > SlotBytes
      BY <1>6, <2>1 DEF Exit, TypeOK
    <2>2. CASE ~(cache[t] = {} \/ Cardinality(cache[t]) > SlotBytes)
      <3>1. pc' \in [Thread -> PcLabels]
        BY <1>6, <1>l, <2>2, GotoFacts DEF Exit
      <3> QED
        BY <1>6, <2>2, <3>1 DEF Exit, TypeOK
    <2> QED
      BY <2>1, <2>2
  <1>7. CASE Start(t)
    BY <1>7 DEF Start, TypeOK
  <1>8. CASE Serve(t)
    <2>1. /\ heap' \in SUBSET Block /\ live' \in SUBSET Block /\ cache' \in [Thread -> SUBSET Block]
          /\ tls' \in [Thread -> {"free", "active", "retired"}]
      BY <1>8 DEF Serve, TypeOK
    <2> QED
      BY <1>8, <2>1, DoneFacts DEF Serve, TypeOK
  <1>9. CASE FlushOwn(t)
    <2>1. /\ heap' \in SUBSET Block /\ cache' \in [Thread -> SUBSET Block]
          /\ reclaimed' \in [Thread -> BOOLEAN]
      BY <1>9 DEF FlushOwn, TypeOK
    <2> QED
      BY <1>9, <2>1, DoneFacts DEF FlushOwn, TypeOK
  <1>10. CASE LoadCount(t)
    <2>1. CASE NotTaken(t)
      BY <1>10, <2>1, NotTakenFacts DEF LoadCount, TypeOK
    <2>2. CASE Goto(t, "scan") /\ UNCHANGED <<at, call, want>>
      BY <1>10, <1>l, <2>2, GotoFacts DEF LoadCount, TypeOK
    <2> QED
      BY <1>10, <2>1, <2>2 DEF LoadCount
  <1>11. CASE ScanSlot(t)
    <2>1. slot' \in [Slot -> {"empty", "writing", "ready", "taking"}]
      BY <1>11, <1>s DEF ScanSlot, TypeOK
    <2>2. CASE NotTaken(t)
      BY <1>11, <2>1, <2>2, NotTakenFacts DEF ScanSlot, TypeOK
    <2>3. CASE Goto(t, "read") /\ UNCHANGED <<at, call, want>>
      BY <1>11, <1>l, <2>1, <2>3, GotoFacts DEF ScanSlot, TypeOK
    <2>4. CASE at[t] < SlotCount /\ at' = [at EXCEPT ![t] = @ + 1] /\ UNCHANGED <<pc, call, want>>
      BY <1>11, <1>s, <2>1, <2>4 DEF ScanSlot, TypeOK
    <2> QED
      BY <1>11, <2>2, <2>3, <2>4 DEF ScanSlot
  <1>12. CASE ReadSlot(t)
    <2>1. pc' \in [Thread -> PcLabels] /\ hand' \in [Thread -> SUBSET Block]
      BY <1>12, <1>l, <1>s, GotoFacts DEF ReadSlot, TypeOK
    <2> QED
      BY <1>12, <2>1 DEF ReadSlot, TypeOK
  <1>13. CASE EmptySlot(t)
    <2>1. pc' \in [Thread -> PcLabels]
      BY <1>13, <1>l, GotoFacts DEF EmptySlot
    <2> QED
      BY <1>13, <1>s, <2>1 DEF EmptySlot, TypeOK
  <1>14. CASE Uncount(t)
    <2>1. pc' \in [Thread -> PcLabels]
      BY <1>14, <1>l, GotoFacts DEF Uncount, Taken
    <2>2. PICK stolen \in SUBSET hand[t] :
            /\ cache' = [cache EXCEPT ![t] = cache[t] \cup stolen]
            /\ heap' = heap \cup (hand[t] \ stolen)
      BY <1>14 DEF Uncount, Taken
    <2>3. hand[t] \in SUBSET Block /\ cache[t] \in SUBSET Block
      BY DEF TypeOK
    <2>4. cache' \in [Thread -> SUBSET Block] /\ heap' \in SUBSET Block
      BY <2>2, <2>3 DEF TypeOK
    <2>5. hand' \in [Thread -> SUBSET Block] /\ at' \in [Thread -> Slot] /\ reclaimed' \in [Thread -> BOOLEAN]
      BY <1>14, <1>s DEF Uncount, Taken, TypeOK
    <2>6. ready' \in 0 .. Usize - 1
      BY <1>14, <1>u DEF Uncount
    <2> QED
      BY <1>14, <2>1, <2>4, <2>5, <2>6 DEF Uncount, TypeOK
  <1>15. CASE ClaimSlot(t)
    <2>1. CASE /\ slot' = [slot EXCEPT ![at[t]] = "writing"]
               /\ Goto(t, "write") /\ UNCHANGED <<heap, hand, at, call, want>>
      BY <1>15, <1>l, <1>s, <2>1, GotoFacts DEF ClaimSlot, TypeOK
    <2>2. CASE /\ at[t] < SlotCount /\ at' = [at EXCEPT ![t] = @ + 1]
               /\ UNCHANGED <<heap, hand, slot, pc, call, want>>
      BY <1>15, <1>s, <2>2 DEF ClaimSlot, TypeOK
    <2>3. CASE /\ heap' = heap \cup hand[t] /\ hand' = [hand EXCEPT ![t] = {}]
               /\ Done(t) /\ UNCHANGED slot
      BY <1>15, <2>3, DoneFacts DEF ClaimSlot, TypeOK
    <2> QED
      BY <1>15, <2>1, <2>2, <2>3 DEF ClaimSlot
  <1>16. CASE WriteSlot(t)
    <2>1. pc' \in [Thread -> PcLabels]
      BY <1>16, <1>l, GotoFacts DEF WriteSlot
    <2> QED
      BY <1>16, <1>s, <2>1 DEF WriteSlot, TypeOK
  <1>17. CASE PublishSlot(t)
    <2>1. pc' \in [Thread -> PcLabels]
      BY <1>17, <1>l, GotoFacts DEF PublishSlot
    <2> QED
      BY <1>17, <1>s, <2>1 DEF PublishSlot, TypeOK
  <1>18. CASE Count(t)
    <2>1. ready' \in 0 .. Usize - 1
      BY <1>18, <1>u DEF Count
    <2> QED
      BY <1>18, <2>1, DoneFacts DEF Count, TypeOK
  <1> QED
    BY <1>t, <1>1, <1>2, <1>3, <1>4, <1>5, <1>6, <1>7, <1>8, <1>9, <1>10, <1>11, <1>12, <1>13, <1>14, <1>15, <1>16, <1>17, <1>18 DEF Call, Continue

-----------------------------------------------------------------------------
(* The slots. *)

OwnerPcs == {"read", "empty", "write", "publish"}

\* A step that touches no slot and leaves its thread at none.
LEMMA SlotQuiet ==
  ASSUME TypeOK, SlotInv, NEW t \in Thread, OthersAlone(t),
         slot' = slot, stored' = stored, pc'[t] \notin OwnerPcs
  PROVE  SlotInv'
  <1>1. \A u \in Thread : pc'[u] \in OwnerPcs =>
          u # t /\ pc'[u] = pc[u] /\ at'[u] = at[u] /\ hand'[u] = hand[u]
    BY DEF OthersAlone
  <1>2. \A s \in Slot : \A u \in Owners(s)' : u \in Owners(s)
    BY <1>1 DEF Owners, OwnerPcs
  <1>3. \A u \in Thread : pc'[u] \in {"read", "empty"} => slot'[at'[u]] = "taking"
    BY <1>1 DEF SlotInv, OwnerPcs
  <1>4. \A u \in Thread : pc'[u] \in {"write", "publish"} => slot'[at'[u]] = "writing"
    BY <1>1 DEF SlotInv, OwnerPcs
  <1>5. \A u \in Thread : pc'[u] = "publish" => stored'[at'[u]] = hand'[u]
    BY <1>1 DEF SlotInv, OwnerPcs
  <1>6. \A s \in Slot : \A u, v \in Owners(s)' : u = v
    BY <1>2 DEF SlotInv
  <1> QED
    BY <1>3, <1>4, <1>5, <1>6 DEF SlotInv

\* A step of the only thread there can be at slot s.
LEMMA SlotMove ==
  ASSUME TypeOK, SlotInv, NEW t \in Thread, OthersAlone(t), NEW s \in Slot,
         \A r \in Slot \ {s} : slot'[r] = slot[r] /\ stored'[r] = stored[r],
         \A u \in Owners(s) : u = t,
         pc'[t] \in OwnerPcs => at'[t] = s,
         pc'[t] \in {"read", "empty"} => slot'[s] = "taking",
         pc'[t] \in {"write", "publish"} => slot'[s] = "writing",
         pc'[t] = "publish" => stored'[s] = hand'[t]
  PROVE  SlotInv'
  <1>1. \A u \in Thread \ {t} : pc'[u] \in OwnerPcs =>
          /\ pc'[u] = pc[u] /\ at'[u] = at[u] /\ hand'[u] = hand[u]
          /\ u \in Owners(at[u]) /\ at[u] \in Slot \ {s}
          /\ slot'[at[u]] = slot[at[u]] /\ stored'[at[u]] = stored[at[u]]
    <2> SUFFICES ASSUME NEW u \in Thread \ {t}, pc'[u] \in OwnerPcs
                 PROVE  /\ pc'[u] = pc[u] /\ at'[u] = at[u] /\ hand'[u] = hand[u]
                        /\ u \in Owners(at[u]) /\ at[u] \in Slot \ {s}
                        /\ slot'[at[u]] = slot[at[u]] /\ stored'[at[u]] = stored[at[u]]
      OBVIOUS
    <2>1. pc'[u] = pc[u] /\ at'[u] = at[u] /\ hand'[u] = hand[u]
      BY DEF OthersAlone
    <2>2. u \in Owners(at[u])
      BY <2>1 DEF Owners, OwnerPcs
    <2>3. at[u] \in Slot \ {s}
      BY <2>2 DEF TypeOK
    <2> QED
      BY <2>1, <2>2, <2>3
  <1>2. \A u \in Thread : pc'[u] \in {"read", "empty"} => slot'[at'[u]] = "taking"
    BY <1>1 DEF SlotInv, OwnerPcs
  <1>3. \A u \in Thread : pc'[u] \in {"write", "publish"} => slot'[at'[u]] = "writing"
    BY <1>1 DEF SlotInv, OwnerPcs
  <1>4. \A u \in Thread : pc'[u] = "publish" => stored'[at'[u]] = hand'[u]
    BY <1>1 DEF SlotInv, OwnerPcs
  <1>5. \A r \in Slot : \A u, v \in Owners(r)' : u = v
    <2> SUFFICES ASSUME NEW r \in Slot, NEW u \in Owners(r)', NEW v \in Owners(r)'
                 PROVE  u = v
      OBVIOUS
    <2>1. /\ u \in Thread /\ pc'[u] \in OwnerPcs /\ at'[u] = r
          /\ v \in Thread /\ pc'[v] \in OwnerPcs /\ at'[v] = r
      BY DEF Owners, OwnerPcs
    <2>2. CASE r = s
      BY <1>1, <2>1, <2>2
    <2>3. CASE r # s
      <3>1. u # t /\ v # t
        BY <2>1, <2>3
      <3>2. u \in Owners(r) /\ v \in Owners(r)
        BY <1>1, <2>1, <3>1
      <3> QED
        BY <3>2 DEF SlotInv
    <2> QED
      BY <2>2, <2>3
  <1> QED
    BY <1>2, <1>3, <1>4, <1>5 DEF SlotInv

\* Who can be at a slot: nobody at one that is empty or ready, its owner alone
\* at one it has claimed.
LEMMA OwnerFacts ==
  ASSUME TypeOK, SlotInv, NEW t \in Thread
  PROVE  /\ at[t] \in Slot
         /\ slot[at[t]] \in {"empty", "ready"} => \A u \in Owners(at[t]) : u = t
         /\ pc[t] \in OwnerPcs => \A u \in Owners(at[t]) : u = t
  <1>1. at[t] \in Slot
    BY DEF TypeOK
  <1>2. \A u \in Owners(at[t]) : slot[at[t]] \in {"taking", "writing"}
    BY DEF Owners, SlotInv
  <1>3. ASSUME pc[t] \in OwnerPcs
        PROVE  \A u \in Owners(at[t]) : u = t
    <2>1. t \in Owners(at[t])
      BY <1>3 DEF Owners, OwnerPcs
    <2> QED
      BY <1>1, <2>1 DEF SlotInv
  <1> QED
    BY <1>1, <1>2, <1>3

\* SlotInv, step by step.
LEMMA SlotStep ==
  ASSUME TypeOK, SlotInv, Next
  PROVE  SlotInv'
  <1>t. PICK t \in Thread : Call(t) \/ Continue(t)
    BY DEF Next
  <1>o. OthersAlone(t)
    BY <1>t, OthersStep
  <1>a. /\ at[t] \in Slot
        /\ slot[at[t]] \in {"empty", "ready"} => \A u \in Owners(at[t]) : u = t
        /\ pc[t] \in OwnerPcs => \A u \in Owners(at[t]) : u = t
    BY OwnerFacts
  <1>y. slot \in [Slot -> {"empty", "writing", "ready", "taking"}] /\ pc \in [Thread -> PcLabels]
        /\ stored \in [Slot -> SUBSET Block] /\ hand \in [Thread -> SUBSET Block]
    BY DEF TypeOK
  <1> USE DEF memVars, slotVars, ctlVars
  <1>1. CASE Alloc(t)
    <2>1. slot' = slot /\ stored' = stored /\ pc'[t] \notin OwnerPcs
      BY <1>1, <1>y DEF Alloc, OwnerPcs
    <2> QED
      BY <1>o, <2>1, SlotQuiet
  <1>2. CASE Free(t)
    <2>1. slot' = slot /\ stored' = stored /\ pc'[t] \notin OwnerPcs
      BY <1>2, <1>y DEF Free, OwnerPcs
    <2> QED
      BY <1>o, <2>1, SlotQuiet
  <1>3. CASE Direct(t)
    <2>1. slot' = slot /\ stored' = stored /\ pc'[t] \notin OwnerPcs
      BY <1>3, <1>y DEF Direct, OwnerPcs
    <2> QED
      BY <1>o, <2>1, SlotQuiet
  <1>4. CASE BeginRefill(t)
    <2>1. slot' = slot /\ stored' = stored /\ pc'[t] \notin OwnerPcs
      BY <1>4, <1>y DEF BeginRefill, OwnerPcs, Goto
    <2> QED
      BY <1>o, <2>1, SlotQuiet
  <1>5. CASE BeginFlush(t)
    <2>1. slot' = slot /\ stored' = stored /\ pc'[t] \notin OwnerPcs
      BY <1>5, <1>y DEF BeginFlush, OwnerPcs, Goto
    <2> QED
      BY <1>o, <2>1, SlotQuiet
  <1>6. CASE Exit(t)
    <2>1. slot' = slot /\ stored' = stored /\ pc'[t] \notin OwnerPcs
      BY <1>6, <1>y DEF Exit, OwnerPcs, Goto
    <2> QED
      BY <1>o, <2>1, SlotQuiet
  <1>7. CASE Start(t)
    <2>1. slot' = slot /\ stored' = stored /\ pc'[t] \notin OwnerPcs
      BY <1>7, <1>y DEF Start, OwnerPcs
    <2> QED
      BY <1>o, <2>1, SlotQuiet
  <1>8. CASE Serve(t)
    <2>1. slot' = slot /\ stored' = stored /\ pc'[t] \notin OwnerPcs
      BY <1>8, <1>y DEF Serve, OwnerPcs, Done
    <2> QED
      BY <1>o, <2>1, SlotQuiet
  <1>9. CASE FlushOwn(t)
    <2>1. slot' = slot /\ stored' = stored /\ pc'[t] \notin OwnerPcs
      BY <1>9, <1>y DEF FlushOwn, OwnerPcs, Done
    <2> QED
      BY <1>o, <2>1, SlotQuiet
  <1>10. CASE LoadCount(t)
    <2>1. slot' = slot /\ stored' = stored /\ pc'[t] \notin OwnerPcs
      BY <1>10, <1>y DEF LoadCount, OwnerPcs, NotTaken, Goto
    <2> QED
      BY <1>o, <2>1, SlotQuiet
  <1>11. CASE ScanSlot(t)
    <2>1. CASE slot[at[t]] = "ready"
      <3>1. /\ \A r \in Slot \ {at[t]} : slot'[r] = slot[r] /\ stored'[r] = stored[r]
            /\ pc'[t] = "read" /\ at'[t] = at[t] /\ slot'[at[t]] = "taking"
        BY <1>11, <1>a, <1>y, <2>1 DEF ScanSlot, Goto
      <3> QED
        BY <1>o, <1>a, <2>1, <3>1, SlotMove
    <2>2. CASE slot[at[t]] # "ready"
      <3>1. slot' = slot /\ stored' = stored /\ pc'[t] \notin OwnerPcs
        BY <1>11, <1>y, <2>2 DEF ScanSlot, NotTaken, Goto, OwnerPcs
      <3> QED
        BY <1>o, <3>1, SlotQuiet
    <2> QED
      BY <2>1, <2>2
  <1>12. CASE ReadSlot(t)
    <2>1. \A u \in Owners(at[t]) : u = t
      BY <1>12, <1>a DEF ReadSlot, OwnerPcs
    <2>2. /\ \A r \in Slot \ {at[t]} : slot'[r] = slot[r] /\ stored'[r] = stored[r]
          /\ pc'[t] = "empty" /\ at'[t] = at[t] /\ slot'[at[t]] = "taking"
      BY <1>12, <1>a, <1>y DEF ReadSlot, Goto, SlotInv
    <2> QED
      BY <1>o, <1>a, <2>1, <2>2, SlotMove DEF OwnerPcs
  <1>13. CASE EmptySlot(t)
    <2>1. \A u \in Owners(at[t]) : u = t
      BY <1>13, <1>a DEF EmptySlot, OwnerPcs
    <2>2. /\ \A r \in Slot \ {at[t]} : slot'[r] = slot[r] /\ stored'[r] = stored[r]
          /\ pc'[t] = "uncount"
      BY <1>13, <1>a, <1>y DEF EmptySlot, Goto, SlotInv
    <2> QED
      BY <1>o, <1>a, <2>1, <2>2, SlotMove DEF OwnerPcs
  <1>14. CASE Uncount(t)
    <2>1. slot' = slot /\ stored' = stored /\ pc'[t] \notin OwnerPcs
      BY <1>14, <1>y DEF Uncount, OwnerPcs, Taken, Goto
    <2> QED
      BY <1>o, <2>1, SlotQuiet
  <1>15. CASE ClaimSlot(t)
    <2>1. CASE slot[at[t]] = "empty"
      <3>1. /\ \A r \in Slot \ {at[t]} : slot'[r] = slot[r] /\ stored'[r] = stored[r]
            /\ pc'[t] = "write" /\ at'[t] = at[t] /\ slot'[at[t]] = "writing"
        BY <1>15, <1>a, <1>y, <2>1 DEF ClaimSlot, Goto
      <3> QED
        BY <1>o, <1>a, <2>1, <3>1, SlotMove
    <2>2. CASE slot[at[t]] # "empty"
      <3>1. slot' = slot /\ stored' = stored /\ pc'[t] \notin OwnerPcs
        BY <1>15, <1>y, <2>2 DEF ClaimSlot, Done, OwnerPcs
      <3> QED
        BY <1>o, <3>1, SlotQuiet
    <2> QED
      BY <2>1, <2>2
  <1>16. CASE WriteSlot(t)
    <2>1. \A u \in Owners(at[t]) : u = t
      BY <1>16, <1>a DEF WriteSlot, OwnerPcs
    <2>2. /\ \A r \in Slot \ {at[t]} : slot'[r] = slot[r] /\ stored'[r] = stored[r]
          /\ pc'[t] = "publish" /\ at'[t] = at[t] /\ slot'[at[t]] = "writing" /\ stored'[at[t]] = hand'[t]
      BY <1>16, <1>a, <1>y DEF WriteSlot, Goto, SlotInv
    <2> QED
      BY <1>o, <1>a, <2>1, <2>2, SlotMove DEF OwnerPcs
  <1>17. CASE PublishSlot(t)
    <2>1. \A u \in Owners(at[t]) : u = t
      BY <1>17, <1>a DEF PublishSlot, OwnerPcs
    <2>2. /\ \A r \in Slot \ {at[t]} : slot'[r] = slot[r] /\ stored'[r] = stored[r]
          /\ pc'[t] = "count"
      BY <1>17, <1>a, <1>y DEF PublishSlot, Goto, SlotInv
    <2> QED
      BY <1>o, <1>a, <2>1, <2>2, SlotMove DEF OwnerPcs
  <1>18. CASE Count(t)
    <2>1. slot' = slot /\ stored' = stored /\ pc'[t] \notin OwnerPcs
      BY <1>18, <1>y DEF Count, OwnerPcs, Done
    <2> QED
      BY <1>o, <2>1, SlotQuiet
  <1> QED
    BY <1>t, <1>1, <1>2, <1>3, <1>4, <1>5, <1>6, <1>7, <1>8, <1>9, <1>10, <1>11, <1>12, <1>13, <1>14, <1>15, <1>16, <1>17, <1>18 DEF Call, Continue

-----------------------------------------------------------------------------
(* The calls. *)

\* CallInv, step by step.
LEMMA CallStep ==
  ASSUME TypeOK, CallInv, Next
  PROVE  CallInv'
  <1>t. PICK t \in Thread : Call(t) \/ Continue(t)
    BY DEF Next
  <1>o. OthersAlone(t)
    BY <1>t, OthersStep
  <1>c. CallOf(t)
    BY DEF CallInv
  <1> SUFFICES CallOf(t)'
    <2>1. \A u \in Thread \ {t} : CallOf(u)
      BY DEF CallInv
    <2>2. \A u \in Thread \ {t} : CallOf(u)'
      BY <1>o, <2>1 DEF CallOf, OthersAlone
    <2> QED
      BY <2>2 DEF CallInv
  <1>y. /\ pc \in [Thread -> PcLabels] /\ hand \in [Thread -> SUBSET Block]
        /\ tls \in [Thread -> {"free", "active", "retired"}]
        /\ call \in [Thread -> {"none", "refill", "flush", "exit"}]
        /\ want \in [Thread -> {"adopt", "steal", "drain"}]
    BY DEF TypeOK
  <1> USE DEF memVars, slotVars, ctlVars
  <1>1. CASE Alloc(t)
    BY <1>1, <1>c, <1>y DEF Alloc, CallOf
  <1>2. CASE Free(t)
    BY <1>2, <1>c, <1>y DEF Free, CallOf
  <1>3. CASE Direct(t)
    BY <1>3, <1>c, <1>y DEF Direct, CallOf
  <1>4. CASE BeginRefill(t)
    BY <1>4, <1>c, <1>y DEF BeginRefill, CallOf, Goto
  <1>5. CASE BeginFlush(t)
    BY <1>5, <1>c, <1>y DEF BeginFlush, CallOf, Goto
  <1>6. CASE Exit(t)
    BY <1>6, <1>c, <1>y DEF Exit, CallOf, Goto
  <1>7. CASE Start(t)
    BY <1>7, <1>c, <1>y DEF Start, CallOf
  <1>8. CASE Serve(t)
    BY <1>8, <1>c, <1>y DEF Serve, CallOf, Done
  <1>9. CASE FlushOwn(t)
    BY <1>9, <1>c, <1>y DEF FlushOwn, CallOf, Done
  <1>10. CASE LoadCount(t)
    BY <1>10, <1>c, <1>y DEF LoadCount, CallOf, NotTaken, Goto
  <1>11. CASE ScanSlot(t)
    BY <1>11, <1>c, <1>y DEF ScanSlot, CallOf, NotTaken, Goto
  <1>12. CASE ReadSlot(t)
    BY <1>12, <1>c, <1>y DEF ReadSlot, CallOf, Goto
  <1>13. CASE EmptySlot(t)
    BY <1>13, <1>c, <1>y DEF EmptySlot, CallOf, Goto
  <1>14. CASE Uncount(t)
    BY <1>14, <1>c, <1>y DEF Uncount, CallOf, Taken, Goto
  <1>15. CASE ClaimSlot(t)
    BY <1>15, <1>c, <1>y DEF ClaimSlot, CallOf, Done, Goto
  <1>16. CASE WriteSlot(t)
    BY <1>16, <1>c, <1>y DEF WriteSlot, CallOf, Goto
  <1>17. CASE PublishSlot(t)
    BY <1>17, <1>c, <1>y DEF PublishSlot, CallOf, Goto
  <1>18. CASE Count(t)
    BY <1>18, <1>c, <1>y DEF Count, CallOf, Done
  <1> QED
    BY <1>t, <1>1, <1>2, <1>3, <1>4, <1>5, <1>6, <1>7, <1>8, <1>9, <1>10, <1>11, <1>12, <1>13, <1>14, <1>15, <1>16, <1>17, <1>18 DEF Call, Continue

-----------------------------------------------------------------------------
(* Where the blocks are. *)

\* A slot that keeps its state keeps holding, or not, unless its reader moves.
LEMMA HoldsSame ==
  ASSUME NEW t \in Thread, OthersAlone(t), NEW s \in Slot, slot'[s] = slot[s],
         pc[t] = "read" => at[t] # s, pc'[t] = "read" => at'[t] # s
  PROVE  Holds(s)' <=> Holds(s)
  <1>1. \A u \in Thread : pc'[u] = "read" /\ at'[u] = s <=> pc[u] = "read" /\ at[u] = s
    BY DEF OthersAlone
  <1> QED
    BY <1>1 DEF Holds, Owners

\* A slot that is not ready holds nothing unless its owner is reading it.
LEMMA HoldsNot ==
  ASSUME TypeOK, SlotInv, NEW t \in Thread, pc[t] # "read",
         \/ slot[at[t]] \in {"empty", "writing"}
         \/ pc[t] = "empty"
  PROVE  ~ Holds(at[t])
  <1>1. at[t] \in Slot
    BY DEF TypeOK
  <1>2. CASE slot[at[t]] \in {"empty", "writing"}
    BY <1>1, <1>2 DEF Holds, Owners, SlotInv
  <1>3. CASE pc[t] = "empty"
    <2>1. slot[at[t]] = "taking" /\ t \in Owners(at[t])
      BY <1>3 DEF SlotInv, Owners
    <2>2. \A u \in Owners(at[t]) : u = t
      BY <1>1, <2>1 DEF SlotInv
    <2> QED
      BY <1>3, <2>1, <2>2 DEF Holds
  <1> QED
    BY <1>2, <1>3

\* A block that stays, and one that moves from one place to another.
Stays(b) == \A n \in Kinds, m \in Index : IsAt(b, n, m)' <=> IsAt(b, n, m)
Moves(b, k, i, l, j) ==
  /\ IsAt(b, k, i)
  /\ \A n \in Kinds, m \in Index :
       IsAt(b, n, m)' <=> (IsAt(b, n, m) /\ ~ (n = k /\ m = i)) \/ (n = l /\ m = j)
Placed(b) == \E k \in Kinds, i \in Index : \A l \in Kinds, j \in Index : IsAt(b, l, j) <=> l = k /\ j = i

\* Neither loses the block, or puts it at two places.
LEMMA BlockStays ==
  ASSUME NEW b, Placed(b), Stays(b)
  PROVE  Placed(b)'
  BY DEF Placed, Stays

\* A move from one place to another keeps a block at one place.
LEMMA BlockMoves ==
  ASSUME NEW b, Placed(b), NEW k \in Kinds, NEW i \in Index, NEW l \in Kinds, NEW j \in Index,
         Moves(b, k, i, l, j)
  PROVE  Placed(b)'
  <1>1. PICK q \in Kinds, p \in Index : \A n \in Kinds, m \in Index : IsAt(b, n, m) <=> n = q /\ m = p
    BY DEF Placed
  <1>2. q = k /\ p = i
    BY <1>1 DEF Moves
  <1>3. \A n \in Kinds, m \in Index : IsAt(b, n, m)' <=> n = l /\ m = j
    BY <1>1, <1>2 DEF Moves
  <1> QED
    BY <1>3 DEF Placed

\* The places.
LEMMA PlaceFacts ==
  /\ "heap" \in Kinds /\ "live" \in Kinds /\ "cache" \in Kinds /\ "hand" \in Kinds /\ "slot" \in Kinds
  /\ 0 \in Index /\ Thread \subseteq Index /\ Slot \subseteq Index
  BY DEF Kinds, Index

\* Whereabouts, step by step.
LEMMA WhereStep ==
  ASSUME TypeOK, SlotInv, CallInv, Whereabouts, Next
  PROVE  Whereabouts'
  <1>t. PICK t \in Thread : Call(t) \/ Continue(t)
    BY DEF Next
  <1>o. OthersAlone(t)
    BY <1>t, OthersStep
  <1>c. CallOf(t)
    BY DEF CallInv
  <1>a. at[t] \in Slot
    BY DEF TypeOK
  <1> SUFFICES ASSUME NEW b \in Block, Placed(b)
               PROVE  Placed(b)'
    BY DEF Whereabouts, Placed
  <1>y. /\ heap \in SUBSET Block /\ live \in SUBSET Block
        /\ cache \in [Thread -> SUBSET Block] /\ hand \in [Thread -> SUBSET Block]
        /\ pc \in [Thread -> PcLabels] /\ tls \in [Thread -> {"free", "active", "retired"}]
        /\ slot \in [Slot -> {"empty", "writing", "ready", "taking"}] /\ stored \in [Slot -> SUBSET Block]
        /\ at \in [Thread -> Slot]
    BY DEF TypeOK
  <1> USE PlaceFacts DEF memVars, slotVars, ctlVars
  <1>1. CASE Alloc(t)
    <2>1. slot' = slot /\ stored' = stored /\ pc[t] # "read" /\ pc'[t] # "read"
      BY <1>1, <1>y DEF Alloc
    <2>2. \A s \in Slot : Holds(s)' <=> Holds(s)
      BY <1>o, <2>1, HoldsSame
    <2>3. PICK x \in cache[t] : live' = live \cup {x} /\ cache' = [cache EXCEPT ![t] = cache[t] \ {x}]
      BY <1>1 DEF Alloc
    <2>4. CASE b = x
      <3>1. Moves(b, "cache", t, "live", 0)
        BY <1>1, <1>y, <2>1, <2>2, <2>3, <2>4 DEF Alloc, Moves, IsAt
      <3> QED
        BY <3>1, BlockMoves
    <2>5. CASE b # x
      <3>1. Stays(b)
        BY <1>1, <1>y, <2>1, <2>2, <2>3, <2>5 DEF Alloc, Stays, IsAt
      <3> QED
        BY <3>1, BlockStays
    <2> QED
      BY <2>4, <2>5
  <1>2. CASE Free(t)
    <2>1. slot' = slot /\ stored' = stored /\ pc[t] # "read" /\ pc'[t] # "read"
      BY <1>2, <1>y DEF Free
    <2>2. \A s \in Slot : Holds(s)' <=> Holds(s)
      BY <1>o, <2>1, HoldsSame
    <2>3. PICK x \in live : \E s \in SUBSET (cache[t] \cup {x}) :
            live' = live \ {x} /\ cache' = [cache EXCEPT ![t] = (cache[t] \cup {x}) \ s] /\ heap' = heap \cup s
      BY <1>2 DEF Free
    <2>4. PICK shed \in SUBSET (cache[t] \cup {x}) :
            live' = live \ {x} /\ cache' = [cache EXCEPT ![t] = (cache[t] \cup {x}) \ shed] /\ heap' = heap \cup shed
      BY <2>3
    <2>5. CASE b = x /\ b \notin shed
      <3>1. Moves(b, "live", 0, "cache", t)
        BY <1>2, <1>y, <2>1, <2>2, <2>4, <2>5 DEF Free, Moves, IsAt
      <3> QED
        BY <3>1, BlockMoves
    <2>6. CASE b = x /\ b \in shed
      <3>1. b \notin cache[t]
        <4>1. IsAt(b, "live", 0)
          BY <2>6 DEF IsAt
        <4>2. ~ IsAt(b, "cache", t)
          BY <4>1 DEF Placed
        <4> QED
          BY <1>2, <1>y, <4>2 DEF IsAt, Free
      <3>2. Moves(b, "live", 0, "heap", 0)
        BY <1>2, <1>y, <2>1, <2>2, <2>4, <2>6, <3>1 DEF Free, Moves, IsAt
      <3> QED
        BY <3>2, BlockMoves
    <2>7. CASE b # x /\ b \in shed
      <3>1. Moves(b, "cache", t, "heap", 0)
        BY <1>2, <1>y, <2>1, <2>2, <2>4, <2>7 DEF Free, Moves, IsAt
      <3> QED
        BY <3>1, BlockMoves
    <2>8. CASE b # x /\ b \notin shed
      <3>1. Stays(b)
        BY <1>2, <1>y, <2>1, <2>2, <2>4, <2>8 DEF Free, Stays, IsAt
      <3> QED
        BY <3>1, BlockStays
    <2> QED
      BY <2>5, <2>6, <2>7, <2>8
  <1>3. CASE Direct(t)
    <2>1. slot' = slot /\ stored' = stored /\ pc[t] # "read" /\ pc'[t] # "read"
      BY <1>3, <1>y DEF Direct
    <2>2. \A s \in Slot : Holds(s)' <=> Holds(s)
      BY <1>o, <2>1, HoldsSame
    <2>3. PICK x \in Block :
            \/ x \in heap /\ heap' = heap \ {x} /\ live' = live \cup {x}
            \/ x \in live /\ heap' = heap \cup {x} /\ live' = live \ {x}
      BY <1>3, <1>y DEF Direct
    <2>4. CASE b # x
      <3>1. Stays(b)
        BY <1>3, <1>y, <2>1, <2>2, <2>3, <2>4 DEF Direct, Stays, IsAt
      <3> QED
        BY <3>1, BlockStays
    <2>5. CASE b = x /\ b \in heap /\ heap' = heap \ {x} /\ live' = live \cup {x}
      <3>1. Moves(b, "heap", 0, "live", 0)
        BY <1>3, <1>y, <2>1, <2>2, <2>5 DEF Direct, Moves, IsAt
      <3> QED
        BY <3>1, BlockMoves
    <2>6. CASE b = x /\ b \in live /\ heap' = heap \cup {x} /\ live' = live \ {x}
      <3>1. Moves(b, "live", 0, "heap", 0)
        BY <1>3, <1>y, <2>1, <2>2, <2>6 DEF Direct, Moves, IsAt
      <3> QED
        BY <3>1, BlockMoves
    <2> QED
      BY <2>3, <2>4, <2>5, <2>6
  <1>4. CASE BeginRefill(t)
    <2>1. slot' = slot /\ stored' = stored /\ pc[t] # "read" /\ pc'[t] # "read"
      BY <1>4, <1>y DEF BeginRefill, Goto
    <2>2. \A s \in Slot : Holds(s)' <=> Holds(s)
      BY <1>o, <2>1, HoldsSame
    <2>3. Stays(b)
      BY <1>4, <1>y, <2>1, <2>2 DEF BeginRefill, Stays, IsAt
    <2> QED
      BY <2>3, BlockStays
  <1>5. CASE BeginFlush(t)
    <2>1. slot' = slot /\ stored' = stored /\ pc[t] # "read" /\ pc'[t] # "read"
      BY <1>5, <1>y DEF BeginFlush, Goto
    <2>2. \A s \in Slot : Holds(s)' <=> Holds(s)
      BY <1>o, <2>1, HoldsSame
    <2>3. Stays(b)
      BY <1>5, <1>y, <2>1, <2>2 DEF BeginFlush, Stays, IsAt
    <2> QED
      BY <2>3, BlockStays
  <1>6. CASE Exit(t)
    <2>1. slot' = slot /\ stored' = stored /\ pc[t] # "read" /\ pc'[t] # "read"
      BY <1>6, <1>y DEF Exit, Goto
    <2>2. \A s \in Slot : Holds(s)' <=> Holds(s)
      BY <1>o, <2>1, HoldsSame
    <2>3. CASE b \notin cache[t]
      <3>1. Stays(b)
        BY <1>6, <1>y, <1>c, <2>1, <2>2, <2>3 DEF Exit, CallOf, Stays, IsAt
      <3> QED
        BY <3>1, BlockStays
    <2>4. CASE b \in cache[t] /\ Cardinality(cache[t]) > SlotBytes
      <3>1. Moves(b, "cache", t, "heap", 0)
        BY <1>6, <1>y, <2>1, <2>2, <2>4 DEF Exit, Moves, IsAt
      <3> QED
        BY <3>1, BlockMoves
    <2>5. CASE b \in cache[t] /\ ~ (Cardinality(cache[t]) > SlotBytes)
      <3>1. Moves(b, "cache", t, "hand", t)
        BY <1>6, <1>y, <1>c, <2>1, <2>2, <2>5 DEF Exit, CallOf, Moves, IsAt
      <3> QED
        BY <3>1, BlockMoves
    <2> QED
      BY <2>3, <2>4, <2>5
  <1>7. CASE Start(t)
    <2>1. slot' = slot /\ stored' = stored /\ pc[t] # "read" /\ pc'[t] # "read"
      BY <1>7, <1>y DEF Start
    <2>2. \A s \in Slot : Holds(s)' <=> Holds(s)
      BY <1>o, <2>1, HoldsSame
    <2>3. Stays(b)
      BY <1>7, <1>y, <2>1, <2>2 DEF Start, Stays, IsAt
    <2> QED
      BY <2>3, BlockStays
  <1>8. CASE Serve(t)
    <2>1. slot' = slot /\ stored' = stored /\ pc[t] # "read" /\ pc'[t] # "read"
      BY <1>8, <1>y DEF Serve, Done
    <2>2. \A s \in Slot : Holds(s)' <=> Holds(s)
      BY <1>o, <2>1, HoldsSame
    <2>3. tls[t] = "active"
      BY <1>8, <1>c DEF Serve, CallOf
    <2>4. tls' = [tls EXCEPT ![t] = "free"] /\ hand' = hand
      BY <1>8 DEF Serve
    <2>5. CASE \E x \in cache[t] :
                 /\ live' = live \cup {x} /\ cache' = [cache EXCEPT ![t] = cache[t] \ {x}]
                 /\ UNCHANGED heap
      <3>1. PICK x \in cache[t] :
                 /\ live' = live \cup {x} /\ cache' = [cache EXCEPT ![t] = cache[t] \ {x}]
                 /\ UNCHANGED heap
        BY <2>5
      <3>2. CASE b = x
        <4>1. Moves(b, "cache", t, "live", 0)
          BY <1>y, <2>1, <2>2, <2>3, <2>4, <3>1, <3>2 DEF Moves, IsAt
        <4> QED
          BY <4>1, BlockMoves
      <3>3. CASE b # x
        <4>1. Stays(b)
          BY <1>y, <2>1, <2>2, <2>3, <2>4, <3>1, <3>3 DEF Stays, IsAt
        <4> QED
          BY <4>1, BlockStays
      <3> QED
        BY <3>2, <3>3
    <2>6. CASE \E batch \in SUBSET heap : \E x \in batch :
                 /\ heap' = heap \ batch /\ live' = live \cup {x}
                 /\ cache' = [cache EXCEPT ![t] = cache[t] \cup (batch \ {x})]
      <3>1. PICK batch \in SUBSET heap : \E x \in batch :
                 /\ heap' = heap \ batch /\ live' = live \cup {x}
                 /\ cache' = [cache EXCEPT ![t] = cache[t] \cup (batch \ {x})]
        BY <2>6
      <3>2. PICK x \in batch :
                 /\ heap' = heap \ batch /\ live' = live \cup {x}
                 /\ cache' = [cache EXCEPT ![t] = cache[t] \cup (batch \ {x})]
        BY <3>1
      <3>3. CASE b \notin batch
        <4>1. Stays(b)
          BY <1>y, <2>1, <2>2, <2>3, <2>4, <3>2, <3>3 DEF Stays, IsAt
        <4> QED
          BY <4>1, BlockStays
      <3>4. CASE b = x
        <4>1. Moves(b, "heap", 0, "live", 0)
          BY <1>y, <2>1, <2>2, <2>3, <2>4, <3>2, <3>4 DEF Moves, IsAt
        <4> QED
          BY <4>1, BlockMoves
      <3>5. CASE b \in batch /\ b # x
        <4>1. Moves(b, "heap", 0, "cache", t)
          BY <1>y, <2>1, <2>2, <2>3, <2>4, <3>2, <3>5 DEF Moves, IsAt
        <4> QED
          BY <4>1, BlockMoves
      <3> QED
        BY <3>3, <3>4, <3>5
    <2>7. CASE UNCHANGED <<heap, live, cache>>
      <3>1. Stays(b)
        BY <1>y, <2>1, <2>2, <2>3, <2>4, <2>7 DEF Stays, IsAt
      <3> QED
        BY <3>1, BlockStays
    <2> QED
      BY <1>8, <2>5, <2>6, <2>7 DEF Serve
  <1>9. CASE FlushOwn(t)
    <2>1. slot' = slot /\ stored' = stored /\ pc[t] # "read" /\ pc'[t] # "read"
      BY <1>9, <1>y DEF FlushOwn, Done
    <2>2. \A s \in Slot : Holds(s)' <=> Holds(s)
      BY <1>o, <2>1, HoldsSame
    <2>3. CASE tls[t] = "free" /\ b \in cache[t]
      <3>1. Moves(b, "cache", t, "heap", 0)
        BY <1>9, <1>y, <2>1, <2>2, <2>3 DEF FlushOwn, Moves, IsAt
      <3> QED
        BY <3>1, BlockMoves
    <2>4. CASE ~ (tls[t] = "free" /\ b \in cache[t])
      <3>1. Stays(b)
        BY <1>9, <1>y, <2>1, <2>2, <2>4 DEF FlushOwn, Stays, IsAt
      <3> QED
        BY <3>1, BlockStays
    <2> QED
      BY <2>3, <2>4
  <1>10. CASE LoadCount(t)
    <2>1. slot' = slot /\ stored' = stored /\ pc[t] # "read" /\ pc'[t] # "read"
      BY <1>10, <1>y DEF LoadCount, NotTaken, Goto
    <2>2. \A s \in Slot : Holds(s)' <=> Holds(s)
      BY <1>o, <2>1, HoldsSame
    <2>3. Stays(b)
      BY <1>10, <1>y, <2>1, <2>2 DEF LoadCount, Stays, IsAt
    <2> QED
      BY <2>3, BlockStays
  <1>11. CASE ScanSlot(t)
    <2>1. stored' = stored /\ pc[t] = "scan"
      BY <1>11 DEF ScanSlot
    <2>2. \A s \in Slot : Holds(s)' <=> Holds(s)
      <3>1. CASE slot[at[t]] = "ready"
        <4>1. \A s \in Slot \ {at[t]} : slot'[s] = slot[s]
          BY <1>11, <1>a, <1>y, <3>1 DEF ScanSlot
        <4>2. pc'[t] = "read" /\ at'[t] = at[t]
          BY <1>11, <1>y, <3>1 DEF ScanSlot, Goto
        <4>3. Holds(at[t]) /\ Holds(at[t])'
          BY <3>1, <4>2 DEF Holds, Owners
        <4> QED
          BY <1>o, <2>1, <4>1, <4>2, <4>3, HoldsSame
      <3>2. CASE slot[at[t]] # "ready"
        <4>1. slot' = slot /\ pc'[t] # "read"
          BY <1>11, <1>y, <3>2 DEF ScanSlot, NotTaken, Goto
        <4> QED
          BY <1>o, <2>1, <4>1, HoldsSame
      <3> QED
        BY <3>1, <3>2
    <2>3. Stays(b)
      BY <1>11, <1>y, <2>1, <2>2 DEF ScanSlot, Stays, IsAt
    <2> QED
      BY <2>3, BlockStays
  <1>12. CASE ReadSlot(t)
    <2>1. stored' = stored /\ slot' = slot /\ pc[t] = "read" /\ pc'[t] = "empty" /\ at'[t] = at[t]
      BY <1>12, <1>y DEF ReadSlot, Goto
    <2>2. \A s \in Slot \ {at[t]} : Holds(s)' <=> Holds(s)
      BY <1>o, <2>1, HoldsSame
    <2>3. Holds(at[t]) /\ slot[at[t]] = "taking"
      BY <2>1 DEF Holds, Owners, SlotInv
    <2>4. ~ Holds(at[t])'
      <3>1. SlotInv' /\ TypeOK'
        BY <1>t, SlotStep, TypeStep DEF Next
      <3>2. (pc[t] # "read" /\ pc[t] = "empty")'
        BY <2>1
      <3>3. ASSUME TypeOK', SlotInv' PROVE ((pc[t] # "read" /\ pc[t] = "empty") => ~ Holds(at[t]))'
        BY <3>3, HoldsNot, PTL
      <3>4. at'[t] = at[t]
        BY <2>1
      <3>5. (~ Holds(at[t]))'
        BY <3>1, <3>2, <3>3
      <3> QED
        BY <3>4, <3>5
    <2>5. hand[t] = {}
      BY <1>c, <2>1 DEF CallOf
    <2>6. CASE b \in stored[at[t]]
      <3>1. Moves(b, "slot", at[t], "hand", t)
        BY <1>12, <1>a, <1>y, <2>1, <2>2, <2>3, <2>4, <2>5, <2>6 DEF ReadSlot, Moves, IsAt
      <3> QED
        BY <1>a, <3>1, BlockMoves
    <2>7. CASE b \notin stored[at[t]]
      <3>1. Stays(b)
        BY <1>12, <1>a, <1>y, <2>1, <2>2, <2>3, <2>4, <2>5, <2>7 DEF ReadSlot, Stays, IsAt
      <3> QED
        BY <3>1, BlockStays
    <2> QED
      BY <2>6, <2>7
  <1>13. CASE EmptySlot(t)
    <2>1. stored' = stored /\ pc[t] = "empty" /\ pc'[t] = "uncount" /\ slot'[at[t]] = "empty"
      BY <1>13, <1>a, <1>y DEF EmptySlot, Goto
    <2>2. \A s \in Slot : Holds(s)' <=> Holds(s)
      <3>1. \A s \in Slot \ {at[t]} : slot'[s] = slot[s]
        BY <1>13, <1>a, <1>y DEF EmptySlot
      <3>2. ~ Holds(at[t])
        BY <2>1, HoldsNot
      <3>3. \A u \in Thread : pc'[u] = "read" => pc[u] = "read" /\ at'[u] = at[u]
        BY <1>o, <2>1 DEF OthersAlone
      <3>4. ~ Holds(at[t])'
        BY <1>13, <2>1, <3>2, <3>3 DEF EmptySlot, Holds, Owners
      <3>5. \A s \in Slot \ {at[t]} : Holds(s)' <=> Holds(s)
        BY <1>o, <2>1, <3>1, HoldsSame
      <3>6. at' = at
        BY <1>13 DEF EmptySlot
      <3> QED
        BY <3>2, <3>4, <3>5, <3>6
    <2>3. Stays(b)
      BY <1>13, <1>y, <2>1, <2>2 DEF EmptySlot, Stays, IsAt
    <2> QED
      BY <2>3, BlockStays
  <1>14. CASE Uncount(t)
    <2>1. slot' = slot /\ stored' = stored /\ pc[t] # "read" /\ pc'[t] # "read"
      BY <1>14, <1>y DEF Uncount, Taken, Goto
    <2>2. \A s \in Slot : Holds(s)' <=> Holds(s)
      BY <1>o, <2>1, HoldsSame
    <2>3. PICK stolen \in SUBSET hand[t] :
            /\ want[t] = "drain" => stolen = {}
            /\ cache' = [cache EXCEPT ![t] = cache[t] \cup stolen]
            /\ heap' = heap \cup (hand[t] \ stolen)
      BY <1>14 DEF Uncount, Taken
    <2>4. stolen # {} => tls[t] = "active"
      BY <1>14, <1>c, <2>3 DEF Uncount, CallOf
    <2>5. hand' = [hand EXCEPT ![t] = {}] /\ live' = live /\ tls' = tls
      BY <1>14 DEF Uncount, Taken
    <2>6. CASE b \in stolen
      <3>1. Moves(b, "hand", t, "cache", t)
        BY <1>y, <2>1, <2>2, <2>3, <2>4, <2>5, <2>6 DEF Moves, IsAt
      <3> QED
        BY <3>1, BlockMoves
    <2>7. CASE b \in hand[t] \ stolen
      <3>1. Moves(b, "hand", t, "heap", 0)
        BY <1>y, <2>1, <2>2, <2>3, <2>4, <2>5, <2>7 DEF Moves, IsAt
      <3> QED
        BY <3>1, BlockMoves
    <2>8. CASE b \notin hand[t]
      <3>1. Stays(b)
        BY <1>y, <2>1, <2>2, <2>3, <2>4, <2>5, <2>8 DEF Stays, IsAt
      <3> QED
        BY <3>1, BlockStays
    <2> QED
      BY <2>6, <2>7, <2>8
  <1>15. CASE ClaimSlot(t)
    <2>1. stored' = stored /\ pc[t] = "claim" /\ pc'[t] # "read"
      BY <1>15, <1>y DEF ClaimSlot, Goto, Done
    <2>2. \A s \in Slot : Holds(s)' <=> Holds(s)
      <3>1. CASE slot[at[t]] = "empty"
        <4>1. \A s \in Slot \ {at[t]} : slot'[s] = slot[s]
          BY <1>15, <1>a, <1>y, <3>1 DEF ClaimSlot
        <4>2. slot'[at[t]] = "writing"
          BY <1>15, <1>a, <1>y, <3>1 DEF ClaimSlot
        <4>3. ~ Holds(at[t])
          BY <2>1, <3>1, HoldsNot
        <4>4. \A u \in Thread : pc'[u] = "read" => pc[u] = "read" /\ at'[u] = at[u]
          BY <1>o, <2>1 DEF OthersAlone
        <4>5. at' = at
          BY <1>15, <3>1 DEF ClaimSlot
        <4>6. ~ Holds(at[t])'
          BY <4>2, <4>3, <4>4, <4>5 DEF Holds, Owners
        <4>7. \A s \in Slot \ {at[t]} : Holds(s)' <=> Holds(s)
          BY <1>o, <2>1, <4>1, HoldsSame
        <4> QED
          BY <4>3, <4>5, <4>6, <4>7
      <3>2. CASE slot[at[t]] # "empty"
        <4>1. slot' = slot
          BY <1>15, <3>2 DEF ClaimSlot
        <4> QED
          BY <1>o, <2>1, <4>1, HoldsSame
      <3> QED
        BY <3>1, <3>2
    <2>3. CASE heap' = heap /\ hand' = hand
      <3>1. Stays(b)
        BY <1>15, <1>y, <2>1, <2>2, <2>3 DEF ClaimSlot, Stays, IsAt
      <3> QED
        BY <3>1, BlockStays
    <2>4. CASE b \in hand[t] /\ heap' = heap \cup hand[t] /\ hand' = [hand EXCEPT ![t] = {}]
      <3>1. Moves(b, "hand", t, "heap", 0)
        BY <1>15, <1>y, <2>1, <2>2, <2>4 DEF ClaimSlot, Moves, IsAt
      <3> QED
        BY <3>1, BlockMoves
    <2>5. CASE b \notin hand[t] /\ heap' = heap \cup hand[t] /\ hand' = [hand EXCEPT ![t] = {}]
      <3>1. Stays(b)
        BY <1>15, <1>y, <2>1, <2>2, <2>5 DEF ClaimSlot, Stays, IsAt
      <3> QED
        BY <3>1, BlockStays
    <2> QED
      BY <1>15, <2>3, <2>4, <2>5 DEF ClaimSlot
  <1>16. CASE WriteSlot(t)
    <2>1. slot' = slot /\ pc[t] = "write" /\ pc'[t] # "read"
      BY <1>16, <1>y DEF WriteSlot, Goto
    <2>2. \A s \in Slot : Holds(s)' <=> Holds(s)
      BY <1>o, <2>1, HoldsSame
    <2>4. slot[at[t]] = "writing"
      BY <2>1 DEF SlotInv
    <2>5. ~ Holds(at[t])
      BY <2>1, <2>4, HoldsNot
    <2>6. \A s \in Slot \ {at[t]} : stored'[s] = stored[s]
      BY <1>16, <1>a, <1>y DEF WriteSlot
    <2>3. Stays(b)
      BY <1>16, <1>y, <2>1, <2>2, <1>a, <2>5, <2>6 DEF WriteSlot, Stays, IsAt
    <2> QED
      BY <2>3, BlockStays
  <1>17. CASE PublishSlot(t)
    <2>1. /\ stored' = stored /\ pc[t] = "publish" /\ pc'[t] # "read" /\ slot'[at[t]] = "ready"
          /\ \A s \in Slot \ {at[t]} : slot'[s] = slot[s]
      BY <1>17, <1>a, <1>y DEF PublishSlot, Goto
    <2>2. \A s \in Slot \ {at[t]} : Holds(s)' <=> Holds(s)
      BY <1>o, <2>1, HoldsSame
    <2>3. slot[at[t]] = "writing" /\ stored[at[t]] = hand[t]
      BY <2>1 DEF SlotInv
    <2>4. ~ Holds(at[t])
      BY <2>1, <2>3, HoldsNot
    <2>5. Holds(at[t])'
      BY <1>17, <2>1 DEF PublishSlot, Holds
    <2>6. CASE b \in hand[t]
      <3>1. Moves(b, "hand", t, "slot", at[t])
        BY <1>17, <1>a, <1>y, <2>1, <2>2, <2>3, <2>4, <2>5, <2>6 DEF PublishSlot, Moves, IsAt
      <3> QED
        BY <1>a, <3>1, BlockMoves
    <2>7. CASE b \notin hand[t]
      <3>1. Stays(b)
        BY <1>17, <1>a, <1>y, <2>1, <2>2, <2>3, <2>4, <2>5, <2>7 DEF PublishSlot, Stays, IsAt
      <3> QED
        BY <3>1, BlockStays
    <2> QED
      BY <2>6, <2>7
  <1>18. CASE Count(t)
    <2>1. slot' = slot /\ stored' = stored /\ pc[t] # "read" /\ pc'[t] # "read"
      BY <1>18, <1>y DEF Count, Done
    <2>2. \A s \in Slot : Holds(s)' <=> Holds(s)
      BY <1>o, <2>1, HoldsSame
    <2>3. Stays(b)
      BY <1>18, <1>y, <2>1, <2>2 DEF Count, Stays, IsAt
    <2> QED
      BY <2>3, BlockStays
  <1> QED
    BY <1>t, <1>1, <1>2, <1>3, <1>4, <1>5, <1>6, <1>7, <1>8, <1>9, <1>10, <1>11, <1>12, <1>13, <1>14, <1>15, <1>16, <1>17, <1>18 DEF Call, Continue

-----------------------------------------------------------------------------
(* The ready count. *)

Adding == {u \in Thread : pc[u] = "count"}
Taking == {u \in Thread : pc[u] \in {"read", "empty", "uncount"}}
Parked == {s \in Slot : slot[s] = "ready"}

\* The terms of CountSettles are numbers.
LEMMA CountTerms ==
  /\ IsFiniteSet(Adding) /\ IsFiniteSet(Taking) /\ IsFiniteSet(Parked)
  /\ Cardinality(Adding) \in Nat /\ Cardinality(Taking) \in Nat /\ Cardinality(Parked) \in Nat
  <1>1. IsFiniteSet(Thread) /\ SlotCount \in Int /\ 1 \in Int
    BY RetiredCachesAssumption
  <1>2. IsFiniteSet(Slot)
    BY <1>1, FS_Interval DEF Slot
  <1>3. Adding \subseteq Thread /\ Taking \subseteq Thread /\ Parked \subseteq Slot
    BY DEF Adding, Taking, Parked
  <1>4. IsFiniteSet(Adding) /\ IsFiniteSet(Taking) /\ IsFiniteSet(Parked)
    BY <1>1, <1>2, <1>3, FS_Subset
  <1> QED
    BY <1>4, FS_CardinalityType

\* CountSettles in these terms.
LEMMA CountIs ==
  CountSettles <=> ready = (Cardinality(Parked) + Cardinality(Taking) - Cardinality(Adding)) % Usize
  BY DEF CountSettles, Adding, Taking, Parked

\* A step after which the count should have moved by d, and has.
LEMMA CountMoves ==
  ASSUME CountSettles, NEW d \in Int, ready' = (ready + d) % Usize,
         Cardinality(Parked)' + Cardinality(Taking)' - Cardinality(Adding)'
           = Cardinality(Parked) + Cardinality(Taking) - Cardinality(Adding) + d
  PROVE  CountSettles'
  <1> DEFINE x == Cardinality(Parked) + Cardinality(Taking) - Cardinality(Adding)
             y == Cardinality(Parked)' + Cardinality(Taking)' - Cardinality(Adding)'
  <1>1. x \in Int /\ y = x + d /\ ready = x % Usize
    BY CountTerms, CountIs
  <1>2. CountSettles' <=> ready' = y % Usize
    BY DEF CountSettles, Adding, Taking, Parked
  <1> HIDE DEF x, y
  <1>3. Usize \in Nat \ {0}
    BY RetiredCachesAssumption
  <1>4. ((x % Usize) + d) % Usize = (x + d) % Usize
    BY <1>1, <1>3, CountShift
  <1> QED
    BY <1>1, <1>2, <1>4

\* A step that moves no slot into or out of READY and no thread into or out of
\* counting.
LEMMA CountQuiet ==
  ASSUME CountSettles, ready' = ready, Parked' = Parked, Taking' = Taking, Adding' = Adding
  PROVE  CountSettles'
  <1>1. CountSettles' <=> ready' = (Cardinality(Parked') + Cardinality(Taking') - Cardinality(Adding')) % Usize
    BY DEF CountSettles, Adding, Taking, Parked
  <1> QED
    BY <1>1, CountIs

\* A thread enters or leaves one of the sets, or is in it before and after.
LEMMA Members ==
  ASSUME NEW t \in Thread, OthersAlone(t)
  PROVE  /\ pc'[t] # "count" /\ pc[t] # "count" => Adding' = Adding
         /\ pc'[t] = "count" /\ pc[t] # "count" => Adding' = Adding \cup {t} /\ t \notin Adding
         /\ pc'[t] # "count" /\ pc[t] = "count" => Adding' = Adding \ {t} /\ t \in Adding
         /\ (pc'[t] \in {"read", "empty", "uncount"} <=> pc[t] \in {"read", "empty", "uncount"})
              => Taking' = Taking
         /\ pc'[t] \in {"read", "empty", "uncount"} /\ pc[t] \notin {"read", "empty", "uncount"}
              => Taking' = Taking \cup {t} /\ t \notin Taking
         /\ pc'[t] \notin {"read", "empty", "uncount"} /\ pc[t] \in {"read", "empty", "uncount"}
              => Taking' = Taking \ {t} /\ t \in Taking
  <1>1. \A u \in Thread \ {t} : pc'[u] = pc[u]
    BY DEF OthersAlone
  <1> QED
    BY <1>1 DEF Adding, Taking

\* CountSettles, step by step.
LEMMA CountStep ==
  ASSUME TypeOK, SlotInv, CountSettles, Next
  PROVE  CountSettles'
  <1>t. PICK t \in Thread : Call(t) \/ Continue(t)
    BY DEF Next
  <1>o. OthersAlone(t)
    BY <1>t, OthersStep
  <1>a. at[t] \in Slot
    BY DEF TypeOK
  <1>y. /\ slot \in [Slot -> {"empty", "writing", "ready", "taking"}] /\ pc \in [Thread -> PcLabels]
        /\ ready \in Int
    BY RetiredCachesAssumption DEF TypeOK
  <1> USE DEF memVars, slotVars, ctlVars
  <1>1. CASE Alloc(t)
    <2>1. ready' = ready /\ pc[t] # "count" /\ pc'[t] # "count"
      BY <1>1, <1>y DEF Alloc
    <2>2. pc[t] \notin {"read", "empty", "uncount"} /\ pc'[t] \notin {"read", "empty", "uncount"}
      BY <1>1, <1>y DEF Alloc
    <2>3. Parked' = Parked
      BY <1>1, <1>y DEF Alloc, Parked
    <2> QED
      BY <1>o, <2>1, <2>2, <2>3, Members, CountQuiet
  <1>2. CASE Free(t)
    <2>1. ready' = ready /\ pc[t] # "count" /\ pc'[t] # "count"
      BY <1>2, <1>y DEF Free
    <2>2. pc[t] \notin {"read", "empty", "uncount"} /\ pc'[t] \notin {"read", "empty", "uncount"}
      BY <1>2, <1>y DEF Free
    <2>3. Parked' = Parked
      BY <1>2, <1>y DEF Free, Parked
    <2> QED
      BY <1>o, <2>1, <2>2, <2>3, Members, CountQuiet
  <1>3. CASE Direct(t)
    <2>1. ready' = ready /\ pc[t] # "count" /\ pc'[t] # "count"
      BY <1>3, <1>y DEF Direct
    <2>2. pc[t] \notin {"read", "empty", "uncount"} /\ pc'[t] \notin {"read", "empty", "uncount"}
      BY <1>3, <1>y DEF Direct
    <2>3. Parked' = Parked
      BY <1>3, <1>y DEF Direct, Parked
    <2> QED
      BY <1>o, <2>1, <2>2, <2>3, Members, CountQuiet
  <1>4. CASE BeginRefill(t)
    <2>1. ready' = ready /\ pc[t] # "count" /\ pc'[t] # "count"
      BY <1>4, <1>y DEF BeginRefill, Goto
    <2>2. pc[t] \notin {"read", "empty", "uncount"} /\ pc'[t] \notin {"read", "empty", "uncount"}
      BY <1>4, <1>y DEF BeginRefill, Goto
    <2>3. Parked' = Parked
      BY <1>4, <1>y DEF BeginRefill, Parked
    <2> QED
      BY <1>o, <2>1, <2>2, <2>3, Members, CountQuiet
  <1>5. CASE BeginFlush(t)
    <2>1. ready' = ready /\ pc[t] # "count" /\ pc'[t] # "count"
      BY <1>5, <1>y DEF BeginFlush, Goto
    <2>2. pc[t] \notin {"read", "empty", "uncount"} /\ pc'[t] \notin {"read", "empty", "uncount"}
      BY <1>5, <1>y DEF BeginFlush, Goto
    <2>3. Parked' = Parked
      BY <1>5, <1>y DEF BeginFlush, Parked
    <2> QED
      BY <1>o, <2>1, <2>2, <2>3, Members, CountQuiet
  <1>6. CASE Exit(t)
    <2>1. ready' = ready /\ pc[t] # "count" /\ pc'[t] # "count"
      BY <1>6, <1>y DEF Exit, Goto
    <2>2. pc[t] \notin {"read", "empty", "uncount"} /\ pc'[t] \notin {"read", "empty", "uncount"}
      BY <1>6, <1>y DEF Exit, Goto
    <2>3. Parked' = Parked
      BY <1>6, <1>y DEF Exit, Parked
    <2> QED
      BY <1>o, <2>1, <2>2, <2>3, Members, CountQuiet
  <1>7. CASE Start(t)
    <2>1. ready' = ready /\ pc[t] # "count" /\ pc'[t] # "count"
      BY <1>7, <1>y DEF Start
    <2>2. pc[t] \notin {"read", "empty", "uncount"} /\ pc'[t] \notin {"read", "empty", "uncount"}
      BY <1>7, <1>y DEF Start
    <2>3. Parked' = Parked
      BY <1>7, <1>y DEF Start, Parked
    <2> QED
      BY <1>o, <2>1, <2>2, <2>3, Members, CountQuiet
  <1>8. CASE Serve(t)
    <2>1. ready' = ready /\ pc[t] # "count" /\ pc'[t] # "count"
      BY <1>8, <1>y DEF Serve, Done
    <2>2. pc[t] \notin {"read", "empty", "uncount"} /\ pc'[t] \notin {"read", "empty", "uncount"}
      BY <1>8, <1>y DEF Serve, Done
    <2>3. Parked' = Parked
      BY <1>8, <1>y DEF Serve, Parked
    <2> QED
      BY <1>o, <2>1, <2>2, <2>3, Members, CountQuiet
  <1>9. CASE FlushOwn(t)
    <2>1. ready' = ready /\ pc[t] # "count" /\ pc'[t] # "count"
      BY <1>9, <1>y DEF FlushOwn, Done
    <2>2. pc[t] \notin {"read", "empty", "uncount"} /\ pc'[t] \notin {"read", "empty", "uncount"}
      BY <1>9, <1>y DEF FlushOwn, Done
    <2>3. Parked' = Parked
      BY <1>9, <1>y DEF FlushOwn, Parked
    <2> QED
      BY <1>o, <2>1, <2>2, <2>3, Members, CountQuiet
  <1>10. CASE LoadCount(t)
    <2>1. ready' = ready /\ pc[t] # "count" /\ pc'[t] # "count"
      BY <1>10, <1>y DEF LoadCount, NotTaken, Goto
    <2>2. pc[t] \notin {"read", "empty", "uncount"} /\ pc'[t] \notin {"read", "empty", "uncount"}
      BY <1>10, <1>y DEF LoadCount, NotTaken, Goto
    <2>3. Parked' = Parked
      BY <1>10, <1>y DEF LoadCount, Parked
    <2> QED
      BY <1>o, <2>1, <2>2, <2>3, Members, CountQuiet
  <1>11. CASE ScanSlot(t)
    <2>1. CASE slot[at[t]] = "ready"
      <3>1. pc[t] = "scan" /\ pc'[t] = "read" /\ ready' = ready
        BY <1>11, <1>y, <2>1 DEF ScanSlot, Goto
      <3>2. Adding' = Adding /\ Taking' = Taking \cup {t} /\ t \notin Taking
        BY <1>o, <3>1, Members
      <3>3. Parked' = Parked \ {at[t]} /\ at[t] \in Parked
        BY <1>11, <1>a, <1>y, <2>1 DEF ScanSlot, Parked
      <3>4. Cardinality(Taking') = Cardinality(Taking) + 1
        BY <3>2, CountTerms, FS_AddElement
      <3>5. Cardinality(Parked') = Cardinality(Parked) - 1
        BY <3>3, CountTerms, FS_RemoveElement
      <3>6. /\ ready' = (Cardinality(Parked') + Cardinality(Taking') - Cardinality(Adding')) % Usize
              <=> CountSettles'
            /\ ready = (Cardinality(Parked) + Cardinality(Taking) - Cardinality(Adding)) % Usize
        BY CountIs DEF CountSettles, Adding, Taking, Parked
      <3>7. Cardinality(Parked') + Cardinality(Taking') - Cardinality(Adding')
              = Cardinality(Parked) + Cardinality(Taking) - Cardinality(Adding)
        BY <3>2, <3>4, <3>5, CountTerms
      <3> QED
        BY <3>1, <3>6, <3>7
    <2>2. CASE slot[at[t]] # "ready"
      <3>1. /\ pc[t] = "scan" /\ pc'[t] \notin {"read", "empty", "uncount"} /\ pc'[t] # "count"
            /\ ready' = ready /\ slot' = slot
        BY <1>11, <1>y, <2>2 DEF ScanSlot, NotTaken, Goto
      <3>2. Parked' = Parked
        BY <3>1 DEF Parked
      <3> QED
        BY <1>o, <3>1, <3>2, Members, CountQuiet
    <2> QED
      BY <2>1, <2>2
  <1>12. CASE ReadSlot(t)
    <2>1. ready' = ready /\ pc[t] # "count" /\ pc'[t] # "count"
      BY <1>12, <1>y DEF ReadSlot, Goto
    <2>2. pc[t] \in {"read", "empty", "uncount"} /\ pc'[t] \in {"read", "empty", "uncount"}
      BY <1>12, <1>y DEF ReadSlot, Goto
    <2>3. Parked' = Parked
      BY <1>12, <1>y DEF ReadSlot, Parked
    <2> QED
      BY <1>o, <2>1, <2>2, <2>3, Members, CountQuiet
  <1>13. CASE EmptySlot(t)
    <2>1. ready' = ready /\ pc[t] # "count" /\ pc'[t] # "count"
      BY <1>13, <1>y DEF EmptySlot, Goto
    <2>2. pc[t] \in {"read", "empty", "uncount"} /\ pc'[t] \in {"read", "empty", "uncount"}
      BY <1>13, <1>y DEF EmptySlot, Goto
    <2>3. Parked' = Parked
      BY <1>13, <1>y, <1>a DEF EmptySlot, Parked, SlotInv
    <2> QED
      BY <1>o, <2>1, <2>2, <2>3, Members, CountQuiet
  <1>14. CASE Uncount(t)
    <2>1. /\ pc[t] = "uncount" /\ pc'[t] \notin {"read", "empty", "uncount"} /\ pc'[t] # "count"
          /\ ready' = (ready + (-1)) % Usize /\ slot' = slot
      BY <1>14, <1>y DEF Uncount, Taken, Goto
    <2>2. Adding' = Adding /\ Taking' = Taking \ {t} /\ t \in Taking
      BY <1>o, <2>1, Members
    <2>3. Parked' = Parked
      BY <2>1 DEF Parked
    <2>4. Cardinality(Taking)' = Cardinality(Taking) - 1
      BY <2>2, CountTerms, FS_RemoveElement
    <2>5. Cardinality(Parked)' + Cardinality(Taking)' - Cardinality(Adding)'
            = Cardinality(Parked) + Cardinality(Taking) - Cardinality(Adding) + (-1)
      BY <2>2, <2>3, <2>4, CountTerms
    <2> QED
      BY <2>1, <2>5, CountMoves
  <1>15. CASE ClaimSlot(t)
    <2>1. ready' = ready /\ pc[t] # "count" /\ pc'[t] # "count"
      BY <1>15, <1>y DEF ClaimSlot, Done, Goto
    <2>2. pc[t] \notin {"read", "empty", "uncount"} /\ pc'[t] \notin {"read", "empty", "uncount"}
      BY <1>15, <1>y DEF ClaimSlot, Done, Goto
    <2>3. Parked' = Parked
      BY <1>15, <1>y, <1>a DEF ClaimSlot, Parked
    <2> QED
      BY <1>o, <2>1, <2>2, <2>3, Members, CountQuiet
  <1>16. CASE WriteSlot(t)
    <2>1. ready' = ready /\ pc[t] # "count" /\ pc'[t] # "count"
      BY <1>16, <1>y DEF WriteSlot, Goto
    <2>2. pc[t] \notin {"read", "empty", "uncount"} /\ pc'[t] \notin {"read", "empty", "uncount"}
      BY <1>16, <1>y DEF WriteSlot, Goto
    <2>3. Parked' = Parked
      BY <1>16, <1>y DEF WriteSlot, Parked
    <2> QED
      BY <1>o, <2>1, <2>2, <2>3, Members, CountQuiet
  <1>17. CASE PublishSlot(t)
    <2>1. pc[t] = "publish" /\ pc'[t] = "count" /\ ready' = ready
      BY <1>17, <1>y DEF PublishSlot, Goto
    <2>2. Adding' = Adding \cup {t} /\ t \notin Adding /\ Taking' = Taking
      BY <1>o, <2>1, Members
    <2>3. slot[at[t]] = "writing"
      BY <2>1 DEF SlotInv
    <2>4. Parked' = Parked \cup {at[t]} /\ at[t] \notin Parked
      BY <1>17, <1>a, <1>y, <2>3 DEF PublishSlot, Parked
    <2>5. Cardinality(Adding') = Cardinality(Adding) + 1
      BY <2>2, CountTerms, FS_AddElement
    <2>6. Cardinality(Parked') = Cardinality(Parked) + 1
      BY <2>4, CountTerms, FS_AddElement
    <2>7. /\ ready' = (Cardinality(Parked') + Cardinality(Taking') - Cardinality(Adding')) % Usize
            <=> CountSettles'
          /\ ready = (Cardinality(Parked) + Cardinality(Taking) - Cardinality(Adding)) % Usize
      BY CountIs DEF CountSettles, Adding, Taking, Parked
    <2>8. Cardinality(Parked') + Cardinality(Taking') - Cardinality(Adding')
            = Cardinality(Parked) + Cardinality(Taking) - Cardinality(Adding)
      BY <2>2, <2>5, <2>6, CountTerms
    <2> QED
      BY <2>1, <2>7, <2>8
  <1>18. CASE Count(t)
    <2>1. /\ pc[t] = "count" /\ pc'[t] = "idle"
          /\ ready' = (ready + 1) % Usize /\ slot' = slot
      BY <1>18, <1>y DEF Count, Done
    <2>2. Adding' = Adding \ {t} /\ t \in Adding /\ Taking' = Taking
      BY <1>o, <2>1, Members
    <2>3. Parked' = Parked
      BY <2>1 DEF Parked
    <2>4. Cardinality(Adding)' = Cardinality(Adding) - 1
      BY <2>2, CountTerms, FS_RemoveElement
    <2>5. Cardinality(Parked)' + Cardinality(Taking)' - Cardinality(Adding)'
            = Cardinality(Parked) + Cardinality(Taking) - Cardinality(Adding) + 1
      BY <2>2, <2>3, <2>4, CountTerms
    <2> QED
      BY <2>1, <2>5, CountMoves
  <1> QED
    BY <1>t, <1>1, <1>2, <1>3, <1>4, <1>5, <1>6, <1>7, <1>8, <1>9, <1>10, <1>11, <1>12, <1>13, <1>14, <1>15, <1>16, <1>17, <1>18 DEF Call, Continue

-----------------------------------------------------------------------------
(* The theorems. *)

\* The invariant holds at the start: every block is in the heap.
LEMMA InitSafe ==
  ASSUME Init
  PROVE  RetiredInv
  <1>1. 1 \in Slot /\ 0 \in 0 .. Usize - 1 /\ Usize \in Nat \ {0}
    BY RetiredCachesAssumption DEF Slot
  <1>2. TypeOK
    BY <1>1 DEF Init, TypeOK, PcLabels
  <1>3. SlotInv
    BY DEF Init, SlotInv, Owners
  <1>4. CallInv
    BY DEF Init, CallInv, CallOf
  <1>5. Whereabouts
    <2>1. \A s \in Slot : ~ Holds(s)
      BY DEF Init, Holds, Owners
    <2> SUFFICES ASSUME NEW b \in Block
                 PROVE  \A l \in Kinds, j \in Index : IsAt(b, l, j) <=> l = "heap" /\ j = 0
      BY PlaceFacts DEF Whereabouts
    <2> QED
      BY <2>1 DEF Init, IsAt
  <1>6. CountSettles
    <2>1. Parked = {} /\ Taking = {} /\ Adding = {}
      BY DEF Init, Parked, Taking, Adding
    <2>2. 0 % Usize = 0
      BY <1>1
    <2>3. Cardinality(Parked) + Cardinality(Taking) - Cardinality(Adding) = 0
      BY <2>1, FS_EmptySet
    <2> QED
      BY <2>2, <2>3, CountIs DEF Init
  <1> QED
    BY <1>2, <1>3, <1>4, <1>5, <1>6 DEF RetiredInv

\* Every step keeps it.
LEMMA StepSafe ==
  ASSUME RetiredInv, [Next]_vars
  PROVE  RetiredInv'
  <1>1. CASE Next
    BY <1>1, TypeStep, SlotStep, CallStep, WhereStep, CountStep DEF RetiredInv
  <1>2. CASE UNCHANGED vars
    <2> USE DEF vars, memVars, slotVars, ctlVars
    <2>1. TypeOK'
      BY <1>2 DEF RetiredInv, TypeOK
    <2>2. SlotInv'
      BY <1>2 DEF RetiredInv, SlotInv, Owners
    <2>3. CallInv'
      BY <1>2 DEF RetiredInv, CallInv, CallOf
    <2>4. Whereabouts'
      <3>1. \A s \in Slot : Holds(s)' <=> Holds(s)
        BY <1>2 DEF Holds, Owners
      <3>2. \A b \in Block : Stays(b)
        BY <1>2, <3>1 DEF Stays, IsAt
      <3>3. \A b \in Block : Placed(b)
        BY DEF RetiredInv, Whereabouts, Placed
      <3>4. \A b \in Block : Placed(b)'
        BY <3>2, <3>3, BlockStays
      <3> QED
        BY <3>4 DEF Whereabouts, Placed
    <2>5. CountSettles'
      BY <1>2 DEF RetiredInv, CountSettles
    <2> QED
      BY <2>1, <2>2, <2>3, <2>4, <2>5 DEF RetiredInv
  <1> QED
    BY <1>1, <1>2

\* A slot being written or taken has one thread at it, a call is where its
\* operation can be, every block is at one place and the count settles: the
\* inductive invariant of retire, take_one and the operations around them.
THEOREM Safety == Spec => []RetiredInv
  <1>1. Init => RetiredInv
    BY InitSafe
  <1>2. RetiredInv /\ [Next]_vars => RetiredInv'
    BY StepSafe
  <1> QED
    BY <1>1, <1>2, PTL DEF Spec

\* Being at one place, counted.
LEMMA PlacedOnce ==
  ASSUME Whereabouts
  PROVE  InOnePlace
  <1> SUFFICES ASSUME NEW b \in Block
               PROVE  Cardinality({u \in Thread : tls[u] # "retired" /\ b \in cache[u]})
                        + Cardinality({u \in Thread : b \in hand[u]})
                        + Cardinality({s \in Slot : Holds(s) /\ b \in stored[s]})
                        + (IF b \in heap THEN 1 ELSE 0) + (IF b \in live THEN 1 ELSE 0) = 1
    BY DEF InOnePlace
  <1> DEFINE C == {u \in Thread : tls[u] # "retired" /\ b \in cache[u]}
             H == {u \in Thread : b \in hand[u]}
             S == {s \in Slot : Holds(s) /\ b \in stored[s]}
  <1>1. PICK k \in Kinds, i \in Index : \A l \in Kinds, j \in Index : IsAt(b, l, j) <=> l = k /\ j = i
    BY DEF Whereabouts
  <1>2. IsAt(b, k, i)
    BY <1>1
  <1>3. C = IF k = "cache" THEN {i} ELSE {}
    BY <1>1, <1>2, PlaceFacts DEF IsAt
  <1>4. H = IF k = "hand" THEN {i} ELSE {}
    BY <1>1, <1>2, PlaceFacts DEF IsAt
  <1>5. S = IF k = "slot" THEN {i} ELSE {}
    BY <1>1, <1>2, PlaceFacts DEF IsAt
  <1>6. (b \in heap <=> k = "heap") /\ (b \in live <=> k = "live")
    BY <1>1, <1>2, PlaceFacts DEF IsAt
  <1>7. Cardinality({}) = 0 /\ Cardinality({i}) = 1
    BY FS_EmptySet, FS_Singleton
  <1> HIDE DEF C, H, S
  <1>8. /\ Cardinality(C) = IF k = "cache" THEN 1 ELSE 0
        /\ Cardinality(H) = IF k = "hand" THEN 1 ELSE 0
        /\ Cardinality(S) = IF k = "slot" THEN 1 ELSE 0
    BY <1>3, <1>4, <1>5, <1>7
  <1>9. k \in {"heap", "live", "cache", "hand", "slot"}
    BY DEF Kinds
  <1>10. Cardinality(C) + Cardinality(H) + Cardinality(S)
          + (IF b \in heap THEN 1 ELSE 0) + (IF b \in live THEN 1 ELSE 0) = 1
    BY <1>6, <1>8, <1>9
  <1> QED
    BY <1>10 DEF C, H, S

\* Retiring, adopting, stealing from and draining a cache move each of its
\* blocks once: none is lost or owned twice, for any threads and slots.
THEOREM MovedOnce == Spec => []InOnePlace
  <1>1. RetiredInv => InOnePlace
    BY PlacedOnce DEF RetiredInv
  <1> QED
    BY <1>1, Safety, PTL

\* RETIRED_READY_COUNT, though it may wrap below zero, is the number of ready
\* slots up to what the threads inside retire and take_one still owe it.
THEOREM CountComesBack == Spec => []CountSettles
  <1>1. RetiredInv => CountSettles
    BY DEF RetiredInv
  <1> QED
    BY <1>1, Safety, PTL

=============================================================================
