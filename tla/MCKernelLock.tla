---------------------------- MODULE MCKernelLock ----------------------------
(* KernelLock for TLC: symmetry of the threads job control treats alike.   *)
EXTENDS KernelLock, TLC

Symmetry == Permutations(Thread \ Stoppable)
=============================================================================
