----------------------------- MODULE MCSpanHeap -----------------------------
(* Instances of SpanHeap for TLC. *)
EXTENDS SpanHeap, TLC

\* Threads are interchangeable.
Symmetry == Permutations(Thread)

=============================================================================
