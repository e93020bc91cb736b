------------------------------- MODULE MCArena -------------------------------
(* Instances of Arena for TLC. *)
EXTENDS Arena, TLC

\* Threads are interchangeable.
Symmetry == Permutations(Thread)

=============================================================================
