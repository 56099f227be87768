---------------------------- MODULE MCScheduler ----------------------------
(* Scheduler for TLC.                                                      *)
EXTENDS Scheduler

CONSTANTS t1, t2, t3, p1, p2

\* Every thread may run anywhere; or t3 only on p1.
Anywhere == [t \in Thread |-> Processor]
Pinned == [t \in Thread |-> IF t = t3 THEN {p1} ELSE Processor]
=============================================================================
