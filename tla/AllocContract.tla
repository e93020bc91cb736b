---------------------------- MODULE AllocContract ----------------------------
(***************************************************************************)
(* What a block allocator promises the program, with no pages, caches,     *)
(* locks or threads in sight.  A block the program holds is nobody else's  *)
(* and keeps the bytes the program wrote to it until it is freed; a block  *)
(* obtained from calloc reads as zero until the program writes to it.      *)
(* The program is taken at its worst: it fills a block from malloc at once *)
(* and a block from calloc just before it frees it.                        *)
(* The tiers of the allocator are shown to implement this module.          *)
(***************************************************************************)
CONSTANT Block

VARIABLES
  live,     \* blocks the program holds
  dirty,    \* blocks with a non-zero byte
  zeroed    \* live blocks that came from calloc

cvars == <<live, dirty, zeroed>>

CInit == live = {} /\ dirty = {} /\ zeroed = {}

\* malloc: any block nobody holds.
CMalloc(b) ==
  /\ b \notin live
  /\ live' = live \cup {b}
  /\ dirty' = dirty \cup {b}
  /\ UNCHANGED zeroed

\* calloc: the block reads as zero when the call returns.
CCalloc(b) ==
  /\ b \notin live
  /\ live' = live \cup {b}
  /\ zeroed' = zeroed \cup {b}
  /\ dirty' = dirty \ {b}

CFree(b) ==
  /\ b \in live
  /\ live' = live \ {b}
  /\ zeroed' = zeroed \ {b}
  /\ dirty' = dirty \cup {b}

\* Purging, unmapping and mapping memory: only bytes nobody holds may change.
CReclaim ==
  /\ dirty' \in SUBSET Block
  /\ dirty' \cap live = dirty \cap live
  /\ UNCHANGED <<live, zeroed>>

CNext ==
  \/ \E b \in Block : CMalloc(b) \/ CCalloc(b) \/ CFree(b)
  \/ CReclaim

CSpec == CInit /\ [][CNext]_cvars

=============================================================================
