-------------------------- MODULE MCThreadBlocking --------------------------
(* ThreadBlocking for TLC.                                                 *)
EXTENDS ThreadBlocking, TLC

\* With several processors one signal is pending for a thread at a time.
OneIfSmp == [smp_build \in BOOLEAN |-> IF smp_build THEN 1 ELSE 3]

Symmetry == Permutations(Thread)
=============================================================================
