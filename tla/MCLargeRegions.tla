---------------------------- MODULE MCLargeRegions ----------------------------
(* Instances of LargeRegions for TLC. *)
EXTENDS LargeRegions, TLC

CONSTANTS One, Two, Three   \* regions of one, two and three pages

MCRegion == One \cup Two \cup Three
MCPagesOf == [r \in MCRegion |-> IF r \in One THEN 1 ELSE IF r \in Two THEN 2 ELSE 3]

\* sys::discard: unix with and without success, Windows.
MCDiscardOutcomes ==
  {[physical |-> TRUE,  zeroed |-> TRUE],
   [physical |-> FALSE, zeroed |-> FALSE],
   [physical |-> TRUE,  zeroed |-> FALSE]}

\* Threads are interchangeable.
ThreadSymmetry == Permutations(Thread)

=============================================================================
