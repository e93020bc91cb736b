----------------------------- MODULE MCSmallHeap -----------------------------
(* Instances of SmallHeap for TLC. *)
EXTENDS SmallHeap, TLC

\* Threads and pages are interchangeable.
Symmetry == Permutations(Thread) \cup Permutations(Page)

\* What sys::discard can report.  On Windows a purge decommits the page and
\* promises no zeros; on unix it leaves zeros, or does nothing.
WindowsDiscard == {[physical |-> TRUE, zeroed |-> FALSE]}
UnixDiscard    == {[physical |-> TRUE, zeroed |-> TRUE], [physical |-> FALSE, zeroed |-> FALSE]}
AnyDiscard     == WindowsDiscard \cup UnixDiscard

=============================================================================
