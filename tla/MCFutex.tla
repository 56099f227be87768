------------------------------ MODULE MCFutex ------------------------------
(***************************************************************************)
(* Instances of Futex for TLC.  Waiting threads are interchangeable, and   *)
(* so are futexes.  There is a queue for each waiting thread and for each  *)
(* futex: a thread refers to one, as does the map for each futex, so that  *)
(* one can always be allocated.                                            *)
(***************************************************************************)
EXTENDS Futex, TLC

\* Bitsets are used with private futexes, by one thread at a time.
OnePrivate == [private \in BOOLEAN |-> IF private THEN 1 ELSE 0]

Symmetry == Permutations(Waits) \union Permutations(Futex)
=============================================================================
