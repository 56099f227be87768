---------------------------- MODULE OneShotTimer ----------------------------
(***************************************************************************)
(* What Kernel/TimeQueue.h promises the users of a timer, without queues,  *)
(* reference counts, interrupts or deferred calls: a timer that was added  *)
(* runs its handler once, not before its deadline, and not at all if       *)
(* cancel_timer returns true; when cancel_timer returns false the handler  *)
(* has come to its end.                                                    *)
(***************************************************************************)
EXTENDS Integers

CONSTANTS Timer, Clock, Time

VARIABLES
    now,        \* the clocks
    clock,      \* the clock of each timer
    deadline,   \* when each timer is to run
    phase,      \* what has become of each timer
    user        \* what its user knows of it

timer == <<clock, deadline, phase, user>>
vars == <<now, timer>>

Idle == "monotonic"
Unused(t) == user[t] = "none" /\ phase[t] = "idle"

Init ==
    /\ now = [c \in Clock |-> 0]
    /\ clock = [t \in Timer |-> Idle]
    /\ deadline = [t \in Timer |-> 0]
    /\ phase = [t \in Timer |-> "idle"]
    /\ user = [t \in Timer |-> "none"]

\* The clocks go on, and may be set.
Pass ==
    /\ now' \in [Clock -> Time]
    /\ UNCHANGED timer

Create(t, c, d) ==
    /\ Unused(t)
    /\ d > now[c]
    /\ clock' = [clock EXCEPT ![t] = c]
    /\ deadline' = [deadline EXCEPT ![t] = d]
    /\ user' = [user EXCEPT ![t] = "adding"]
    /\ UNCHANGED <<now, phase>>

Add(t) ==
    /\ user[t] = "adding" /\ phase[t] = "idle"
    /\ phase' = [phase EXCEPT ![t] = "armed"]
    /\ user' = [user EXCEPT ![t] = "holding"]
    /\ UNCHANGED <<now, clock, deadline>>

\* The deadline has passed: it is too late to cancel the timer.
Expire(t) ==
    /\ phase[t] = "armed"
    /\ now[clock[t]] > deadline[t]
    /\ phase' = [phase EXCEPT ![t] = "expired"]
    /\ UNCHANGED <<now, clock, deadline, user>>

\* The handler runs: its user still has the timer.
Run(t) ==
    /\ phase[t] = "expired" /\ user[t] = "holding"
    /\ phase' = [phase EXCEPT ![t] = "ran"]
    /\ UNCHANGED <<now, clock, deadline, user>>

\* cancel_timer returns true,
Cancel(t) ==
    /\ user[t] = "holding" /\ phase[t] = "armed"
    /\ phase' = [phase EXCEPT ![t] = "idle"]
    /\ user' = [user EXCEPT ![t] = "cancelled"]
    /\ UNCHANGED <<now, clock, deadline>>

\* or false.
Miss(t) ==
    /\ user[t] = "holding" /\ phase[t] = "done"
    /\ user' = [user EXCEPT ![t] = "missed"]
    /\ UNCHANGED <<now, clock, deadline, phase>>

\* The user is through with the timer, or the timer with its handler.  Nothing
\* is left of a timer when both are.
Release(t, p, u) ==
    /\ user' = [user EXCEPT ![t] = u]
    /\ UNCHANGED now
    /\ IF p = "done" /\ u = "none"
       THEN /\ phase' = [phase EXCEPT ![t] = "idle"]
            /\ clock' = [clock EXCEPT ![t] = Idle]
            /\ deadline' = [deadline EXCEPT ![t] = 0]
       ELSE /\ phase' = [phase EXCEPT ![t] = p]
            /\ UNCHANGED <<clock, deadline>>

Finish(t) ==
    /\ phase[t] = "ran"
    /\ Release(t, "done", user[t])

Drop(t) ==
    \/ user[t] = "cancelled" /\ phase[t] = "idle" /\ Release(t, "done", "none")
    \/ user[t] = "missed" /\ phase[t] = "done" /\ Release(t, "done", "none")
    \/ user[t] = "holding" /\ phase[t] \in {"ran", "done"} /\ Release(t, phase[t], "none")

Next ==
    \/ Pass
    \/ \E t \in Timer :
        \/ \E c \in Clock, d \in Time : Create(t, c, d)
        \/ Add(t) \/ Expire(t) \/ Run(t) \/ Cancel(t) \/ Miss(t)
        \/ Finish(t) \/ Drop(t)

Spec == Init /\ [][Next]_vars
=============================================================================
