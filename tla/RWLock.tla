------------------------------- MODULE RWLock -------------------------------
(***************************************************************************)
(* What Kernel/Lock.h promises its callers, without saying how: a          *)
(* recursive reader/writer lock that a thread can be made to give up as a  *)
(* whole and get back as a whole.  grants counts, per thread and requested *)
(* mode, the lock() calls that have returned and are not yet unlocked;     *)
(* parked is what a force-unlocked thread will get back.                   *)
(***************************************************************************)
EXTENDS Integers

CONSTANT Thread

VARIABLES grants, parked

vars == <<grants, parked>>

None == [Shared |-> 0, Exclusive |-> 0]
Inside(t) == grants[t] # None

Init ==
    /\ grants = [t \in Thread |-> None]
    /\ parked = [t \in Thread |-> None]

\* lock(m) returns: a writer alone, a reader with no other writer inside.
Grant(t, m) ==
    /\ \A u \in Thread \ {t} :
          /\ m = "Exclusive" => ~Inside(u)
          /\ grants[u].Exclusive = 0
    /\ grants' = [grants EXCEPT ![t][m] = @ + 1]
    /\ UNCHANGED parked

\* unlock()
Release(t, m) ==
    /\ grants[t][m] > 0
    /\ grants' = [grants EXCEPT ![t][m] = @ - 1]
    /\ UNCHANGED parked

\* force_unlock_if_locked(), to be restored later
Suspend(t) ==
    /\ parked[t] = None
    /\ parked' = [parked EXCEPT ![t] = grants[t]]
    /\ grants' = [grants EXCEPT ![t] = None]

\* force_unlock_if_locked() of a dying thread
Forget(t) ==
    /\ grants' = [grants EXCEPT ![t] = None]
    /\ UNCHANGED parked

\* restore_lock(): everything comes back, under the same exclusion
Resume(t) ==
    /\ ~Inside(t)
    /\ \A u \in Thread \ {t} :
          /\ parked[t].Exclusive > 0 => ~Inside(u)
          /\ grants[u].Exclusive = 0
    /\ grants' = [grants EXCEPT ![t] = parked[t]]
    /\ parked' = [parked EXCEPT ![t] = None]

Next ==
    \E t \in Thread :
        \/ \E m \in {"Shared", "Exclusive"} : Grant(t, m) \/ Release(t, m)
        \/ Suspend(t) \/ Forget(t) \/ Resume(t)

Spec == Init /\ [][Next]_vars
=============================================================================
