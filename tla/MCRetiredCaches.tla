-------------------------- MODULE MCRetiredCaches --------------------------
(* Instances of RetiredCaches for TLC. *)
EXTENDS RetiredCaches, TLC

\* Threads are interchangeable, and so are blocks.
Symmetry == Permutations(Thread) \cup Permutations(Block)

=============================================================================
