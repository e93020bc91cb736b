----------------------------- MODULE MCExitHook -----------------------------
(* Instances of ExitHook for TLC. *)
EXTENDS ExitHook, TLC

\* Threads are interchangeable.
Symmetry == Permutations(Thread)

=============================================================================
