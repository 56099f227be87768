------------------------ MODULE ThreadBlockingProofs ------------------------
(***************************************************************************)
(* The safety properties of ThreadBlocking, for any set of threads.        *)
(***************************************************************************)
EXTENDS ThreadBlocking, SequenceFacts

-----------------------------------------------------------------------------
(* The inductive invariants                                                *)

\* The queue has each blocker once, and only blockers of threads in block().
Registered ==
    Distinct(queue) /\ \A t \in Range(queue) : pc[t] \in InBlock

\* The timer exists from begin_blocking on, and is gone once timeout_unblocked
\* says that its handler won.
Timed(t) ==
    /\ timer[t] # "none" => pc[t] \in {"blocked", "woken", "ended"}
    /\ pc[t] = "registered" => ~timeout[t].unblocked
    /\ pc[t] = "blocked" /\ timeout[t].unblocked => timer[t] = "none"
    /\ pc[t] \in {"woken", "ended"} => timeout[t].unblocked
    /\ pc[t] \in {"woken", "ended"} /\ timeout[t].did => timer[t] = "none"

\* What else refers to the frame of block().
Framed(t) == Timed(t) /\ (inflight[t] = "direct" => pc[t] \in InBlock)

\* The thread is asleep, or stopped in its sleep.
Asleep(t) == state[t] = "Blocked" \/ stop_state[t] = "Blocked"

\* Somebody had a reason to end the wait, which block() will find.
Reason(t, timed_out) ==
    blocker[t].did_unblock \/ blocker[t].by_signal \/ blocker[t].by_death \/ timed_out

\* A sleeper can be unblocked, and leaves its sleep for a reason only.
Justified(t) ==
    /\ Asleep(t) => m_blocker[t] /\ pc[t] = "blocked" /\ t \notin cpu
    /\ blocker[t].by_death => should_die[t]
    /\ ~smp /\ inflight[t] # "no" => blocker[t].did_unblock
    /\ ~smp /\ pc[t] = "blocked" => Reason(t, timeout[t].unblocked) \/ Asleep(t)
    /\ ~smp /\ pc[t] = "woken" => Reason(t, timeout[t].did)

IInv ==
    /\ TypeOK /\ Registered
    /\ \A t \in Thread : Framed(t) /\ Justified(t)

\* Where no thread is stopped, on one processor, a blocked thread has been
\* given no wake-up yet, or it is under way.
Unwoken(t) ==
    /\ state[t] # "Stopped"
    /\ pc[t] \in Critical => t \in cpu
    /\ pc[t] = "registered" => t \in Range(queue)
    /\ state[t] = "Blocked" =>
        /\ pc[t] = "blocked" /\ m_blocker[t] /\ ~timeout[t].unblocked
        /\ blocker[t].timed => timer[t] # "none"
        /\ inflight[t] = "no" =>
            blocker[t].is_blocking /\ t \in Range(queue)

UInv ==
    /\ IInv
    /\ ~is_stopped
    /\ \A t \in Thread : Unwoken(t)

-----------------------------------------------------------------------------
(* Thread::set_state                                                       *)

\* The part of TypeOK that set_state has to keep.
StateOK ==
    /\ state \in [Thread -> States]
    /\ stop_state \in [Thread -> {"Invalid", "Runnable", "Blocked", "Dying"}]
    /\ \A t \in Thread : (stop_state[t] # "Invalid") <=> (state[t] = "Stopped")
    /\ is_stopped \in BOOLEAN
    /\ \A t \in Thread : state[t] = "Stopped" => is_stopped

\* A sleeper has its m_blocker, so being stopped and resumed is nothing to it.
SleepersOK == \A t \in Thread : Asleep(t) => m_blocker[t]

\* Leaving Stopped, for the thread and for the peers it resumes.
LEMMA LeaveStoppedFacts ==
    ASSUME StateOK, SleepersOK,
           NEW t \in Thread, NEW new \in States \ {"Stopped"}, LeaveStopped(t, new)
    PROVE  /\ StateOK'
           /\ state'[t] = new /\ stop_state'[t] = "Invalid"
           /\ \A u \in Thread \ {t} : Asleep(u)' <=> Asleep(u)
<1> DEFINE peers == IF is_stopped THEN {u \in Thread \ {t} : state[u] = "Stopped"} ELSE {}
<1>1. /\ state' = [u \in Thread |-> IF u = t THEN new
                                    ELSE IF u \in peers THEN ResumeState(u) ELSE state[u]]
      /\ stop_state' = [u \in Thread |-> IF u \in peers \union {t} THEN "Invalid"
                                         ELSE stop_state[u]]
      /\ is_stopped' = FALSE
  BY Zenon DEF LeaveStopped
<1>2. /\ \A u \in peers : u \in Thread /\ u # t /\ state[u] = "Stopped"
      /\ \A u \in Thread \ {t} : u \notin peers => state[u] # "Stopped"
  BY Zenon DEF StateOK
<1> HIDE DEF peers
<1>3. \A u \in peers : /\ ResumeState(u) \in States \ {"Stopped"}
                       /\ ResumeState(u) = "Blocked" => stop_state[u] = "Blocked"
                       /\ stop_state[u] = "Blocked" => ResumeState(u) = "Blocked"
  BY Zenon, <1>2 DEF StateOK, SleepersOK, Asleep, ResumeState, States
<1>4. /\ state'[t] = new /\ stop_state'[t] = "Invalid"
      /\ \A u \in peers : state'[u] = ResumeState(u) /\ stop_state'[u] = "Invalid"
      /\ \A u \in Thread \ {t} : u \notin peers =>
            state'[u] = state[u] /\ stop_state'[u] = stop_state[u]
  BY Zenon, <1>1, <1>2
<1>5. StateOK'
  <2>1. \A u \in Thread : /\ state'[u] \in States
                          /\ stop_state'[u] \in {"Invalid", "Runnable", "Blocked", "Dying"}
                          /\ (stop_state'[u] # "Invalid") <=> (state'[u] = "Stopped")
                          /\ state'[u] # "Stopped"
    BY <1>2, <1>3, <1>4 DEF StateOK
  <2>2. state' \in [Thread -> States]
    BY Zenon, <1>1, <2>1
  <2>3. stop_state' \in [Thread -> {"Invalid", "Runnable", "Blocked", "Dying"}]
    BY Zenon, <1>1, <2>1
  <2> QED
    BY Zenon, <1>1, <2>1, <2>2, <2>3 DEF StateOK
<1>6. \A u \in Thread \ {t} : Asleep(u)' <=> Asleep(u)
  BY Zenon, <1>2, <1>3, <1>4 DEF StateOK, Asleep
<1> QED
  BY Zenon, <1>4, <1>5, <1>6

\* Stopping, for the thread and for the peers it stops.
LEMMA EnterStoppedFacts ==
    ASSUME StateOK, NEW t \in Thread, EnterStopped(t)
    PROVE  StateOK' /\ \A u \in Thread : Asleep(u)' <=> Asleep(u)
<1> DEFINE stopping == {u \in Thread : (u = t \/ ~is_stopped) /\ state[u] # "Stopped"}
<1>1. /\ state' = [u \in Thread |-> IF u \in stopping THEN "Stopped" ELSE state[u]]
      /\ stop_state' = [u \in Thread |-> IF u \notin stopping THEN stop_state[u]
                                         ELSE IF state[u] = "Running" THEN "Runnable"
                                         ELSE state[u]]
      /\ is_stopped' = TRUE
  BY Zenon DEF EnterStopped
<1>2. \A u \in stopping : u \in Thread /\ state[u] # "Stopped"
  BY Zenon
<1> HIDE DEF stopping
<1>3. \A u \in Thread :
        IF u \in stopping
        THEN /\ state'[u] = "Stopped"
             /\ stop_state'[u] = IF state[u] = "Running" THEN "Runnable" ELSE state[u]
        ELSE state'[u] = state[u] /\ stop_state'[u] = stop_state[u]
  BY Zenon, <1>1
<1>4. \A u \in Thread : /\ state'[u] \in States
                        /\ stop_state'[u] \in {"Invalid", "Runnable", "Blocked", "Dying"}
                        /\ (stop_state'[u] # "Invalid") <=> (state'[u] = "Stopped")
  BY Zenon, <1>2, <1>3 DEF StateOK, States
<1>5. state' \in [Thread -> States]
  BY Zenon, <1>1, <1>4
<1>6. stop_state' \in [Thread -> {"Invalid", "Runnable", "Blocked", "Dying"}]
  BY Zenon, <1>1, <1>4
<1>7. \A u \in Thread : Asleep(u)' <=> Asleep(u)
  BY Zenon, <1>2, <1>3 DEF StateOK, Asleep
<1> QED
  BY Zenon, <1>1, <1>4, <1>5, <1>6, <1>7 DEF StateOK

\* Thread::set_state
LEMMA SetStateFacts ==
    ASSUME StateOK, SleepersOK, NEW t \in Thread, NEW new \in States, SetState(t, new)
    PROVE  /\ StateOK'
           /\ \A u \in Thread \ {t} : Asleep(u)' <=> Asleep(u)
           /\ Asleep(t)' <=> IF new = "Stopped" THEN Asleep(t) ELSE new = "Blocked"
<1>1. CASE new = state[t]
  <2>1. UNCHANGED stateVars
    BY Zenon, <1>1 DEF SetState
  <2>2. UNCHANGED <<state, stop_state, is_stopped>>
    BY Zenon, <2>1 DEF stateVars
  <2> QED
    BY Zenon, <1>1, <2>2 DEF StateOK, Asleep
<1>2. CASE new # state[t] /\ new = "Stopped"
  <2>1. EnterStopped(t)
    BY Zenon, <1>2 DEF SetState
  <2> QED
    BY Zenon, <1>2, <2>1, EnterStoppedFacts
<1>3. CASE new # state[t] /\ new # "Stopped" /\ state[t] = "Stopped"
  <2>1. LeaveStopped(t, new)
    BY Zenon, <1>3 DEF SetState
  <2> QED
    BY Zenon, <1>3, <2>1, LeaveStoppedFacts DEF Asleep
<1>4. CASE new # state[t] /\ new # "Stopped" /\ state[t] # "Stopped"
  <2>1. state' = [state EXCEPT ![t] = new] /\ UNCHANGED <<stop_state, is_stopped>>
    BY Zenon, <1>4 DEF SetState
  <2> QED
    BY Zenon, <1>4, <2>1 DEF StateOK, Asleep
<1> QED
  BY Zenon, <1>1, <1>2, <1>3, <1>4

\* Thread::set_state where nobody is stopped.
LEMMA SetStateUnstopped ==
    ASSUME StateOK, \A u \in Thread : state[u] # "Stopped",
           NEW t \in Thread, NEW new \in States \ {"Stopped"}, SetState(t, new)
    PROVE  state' = [state EXCEPT ![t] = new] /\ UNCHANGED <<stop_state, is_stopped>>
<1>1. CASE new = state[t]
  BY Zenon, <1>1 DEF SetState, stateVars, StateOK
<1>2. CASE new # state[t]
  BY Zenon, <1>2 DEF SetState
<1> QED
  BY Zenon, <1>1, <1>2

\* Thread::dispatch_one_pending_signal sets a state, Stopped only for SIGSTOP.
LEMMA DispatchFacts ==
    ASSUME TypeOK, NEW t \in Thread, NEW new \in States, DispatchOne(t, new)
    PROVE  /\ pending' \in [Thread -> SUBSET Signals]
           /\ \E n \in {new, "Stopped"} :
                SetState(t, n) /\ ("STOP" \notin Signals => n = new)
<1>1. pending \in [Thread -> SUBSET Signals]
  BY Zenon DEF TypeOK
<1>2. CASE Deliverable(t) = {}
  BY Zenon, <1>1, <1>2 DEF DispatchOne
<1>3. CASE Deliverable(t) # {}
  <2> DEFINE signal == FirstSignal(Deliverable(t))
             n == IF signal = "STOP" THEN "Stopped" ELSE new
  <2>1. /\ pending' = [pending EXCEPT ![t] = @ \ {signal}]
        /\ SetState(t, n)
    BY Zenon, <1>3 DEF DispatchOne
  <2>2. Deliverable(t) \subseteq Signals
    BY Zenon, <1>1 DEF Deliverable
  <2>3. signal = "STOP" => "STOP" \in Signals
    BY Zenon, <1>3, <2>2, BlockingAssumption DEF FirstSignal
  <2> HIDE DEF signal
  <2>4. n \in {new, "Stopped"} /\ ("STOP" \notin Signals => n = new)
    BY Zenon, <2>3
  <2> HIDE DEF n
  <2> QED
    BY Zenon, <1>1, <2>1, <2>4
<1> QED
  BY Zenon, <1>2, <1>3

-----------------------------------------------------------------------------
(* What a step leaves alone                                                *)

\* The thread is not concerned by a step.
Unmoved(t) ==
    /\ pc'[t] = pc[t] /\ m_blocker'[t] = m_blocker[t] /\ blocker'[t] = blocker[t]
    /\ timer'[t] = timer[t] /\ timeout'[t] = timeout[t] /\ inflight'[t] = inflight[t]
    /\ should_die'[t] = should_die[t] /\ (t \in cpu' <=> t \in cpu)
    /\ Asleep(t)' <=> Asleep(t)

\* What the invariant says of a thread depends on nothing else.
LEMMA SameThread ==
    ASSUME NEW t \in Thread, Framed(t), Justified(t), Unmoved(t), smp' = smp
    PROVE  Framed(t)' /\ Justified(t)'
<1>1. Framed(t)'
  BY Zenon DEF Framed, Timed, Unmoved
<1>2. Justified(t)'
  BY Zenon DEF Justified, Reason, Unmoved
<1> QED
  BY Zenon, <1>1, <1>2

\* A step that concerns one thread.
LEMMA OneThread ==
    ASSUME IInv, NEW t \in Thread, TypeOK', Registered', smp' = smp,
           \A u \in Thread \ {t} : Unmoved(u), Framed(t)', Justified(t)'
    PROVE  IInv'
<1>1. \A u \in Thread \ {t} : Framed(u)' /\ Justified(u)'
  BY Zenon, SameThread DEF IInv
<1> QED
  BY Zenon, <1>1 DEF IInv

\* The three ways in which a field of a thread's blocker is set: begin_blocking and
\* end_blocking, set_interrupted_by_signal, set_interrupted_by_death.
BlockerType == [is_blocking : BOOLEAN, did_unblock : BOOLEAN,
                by_signal : BOOLEAN, by_death : BOOLEAN, timed : BOOLEAN]
SetBlocking(b, t, v) == [b EXCEPT ![t].is_blocking = v]
SetBySignal(b, t) == [b EXCEPT ![t].by_signal = TRUE]
SetByDeath(b, t) == [b EXCEPT ![t].by_death = TRUE]

\* begin_blocking and end_blocking change is_blocking only.
LEMMA BlockingSet ==
    ASSUME NEW b \in [Thread -> BlockerType], NEW t \in Thread, NEW v \in BOOLEAN
    PROVE  LET c == SetBlocking(b, t, v)
           IN  /\ c \in [Thread -> BlockerType]
               /\ \A u \in Thread \ {t} : c[u] = b[u]
               /\ c[t].is_blocking = v /\ c[t].did_unblock = b[t].did_unblock
               /\ c[t].by_signal = b[t].by_signal /\ c[t].by_death = b[t].by_death
               /\ c[t].timed = b[t].timed
BY Zenon DEF BlockerType, SetBlocking

\* set_interrupted_by_signal changes by_signal only.
LEMMA SignalSet ==
    ASSUME NEW b \in [Thread -> BlockerType], NEW t \in Thread
    PROVE  LET c == SetBySignal(b, t)
           IN  /\ c \in [Thread -> BlockerType]
               /\ \A u \in Thread \ {t} : c[u] = b[u]
               /\ c[t].by_signal /\ c[t].is_blocking = b[t].is_blocking
               /\ c[t].did_unblock = b[t].did_unblock /\ c[t].by_death = b[t].by_death
               /\ c[t].timed = b[t].timed
BY Zenon DEF BlockerType, SetBySignal

\* set_interrupted_by_death changes by_death only.
LEMMA DeathSet ==
    ASSUME NEW b \in [Thread -> BlockerType], NEW t \in Thread
    PROVE  LET c == SetByDeath(b, t)
           IN  /\ c \in [Thread -> BlockerType]
               /\ \A u \in Thread \ {t} : c[u] = b[u]
               /\ c[t].by_death /\ c[t].is_blocking = b[t].is_blocking
               /\ c[t].did_unblock = b[t].did_unblock /\ c[t].by_signal = b[t].by_signal
               /\ c[t].timed = b[t].timed
BY Zenon DEF BlockerType, SetByDeath

\* The types of everything set_state does not touch.
RestOK ==
    /\ cpu \subseteq Thread
    /\ pc \in [Thread -> {"user", "kernel", "leaving", "exiting"} \union InBlock]
    /\ m_blocker \in [Thread -> BOOLEAN]
    /\ blocker \in [Thread -> BlockerType]
    /\ timer \in [Thread -> {"none", "queued", "firing"}]
    /\ timeout \in [Thread -> [unblocked : BOOLEAN, did : BOOLEAN]]
    /\ queue \in Seq(Thread)
    /\ wake_requested \in BOOLEAN
    /\ inflight \in [Thread -> {"no", "direct", "deferred"}]
    /\ pending \in [Thread -> SUBSET Signals]
    /\ should_die \in [Thread -> BOOLEAN]
    /\ smp \in Builds

\* TypeOK, split into what set_state changes and the rest.
LEMMA Types == TypeOK <=> StateOK /\ RestOK
BY Zenon DEF TypeOK, StateOK, RestOK, BlockerType

\* What the lemmas on set_state ask for.
LEMMA StateFacts == IInv => StateOK /\ RestOK /\ SleepersOK
BY Zenon, Types DEF IInv, Justified, SleepersOK

-----------------------------------------------------------------------------
(* Steps outside block()                                                   *)

\* A thread moves between labels outside block(), is scheduled or preempted.
LEMMA OutsideStep ==
    ASSUME IInv, NEW t \in Thread,
           StateOK', pending' \in [Thread -> SUBSET Signals],
           \A u \in Thread \ {t} : Asleep(u)' <=> Asleep(u),
           ~Asleep(t), ~Asleep(t)',
           cpu' \in {cpu, cpu \union {t}, cpu \ {t}},
           \/ UNCHANGED pc
           \/ /\ pc[t] \notin InBlock
              /\ \E l \in {"user", "kernel", "leaving", "exiting"} : pc' = [pc EXCEPT ![t] = l],
           UNCHANGED <<m_blocker, blocker, timer, timeout, queue, inflight, should_die, smp>>,
           wake_requested' \in BOOLEAN
    PROVE  IInv'
<1>1. StateOK /\ RestOK
  BY Zenon, StateFacts
<1>2. /\ pc' \in [Thread -> {"user", "kernel", "leaving", "exiting"} \union InBlock]
      /\ \A u \in Thread \ {t} : pc'[u] = pc[u]
      /\ pc'[t] = pc[t] \/ (pc[t] \notin InBlock /\ pc'[t] \notin InBlock)
  <2>1. pc \in [Thread -> {"user", "kernel", "leaving", "exiting"} \union InBlock]
    BY Zenon, <1>1 DEF RestOK
  <2>2. CASE UNCHANGED pc
    BY Zenon, <2>1, <2>2
  <2>3. CASE /\ pc[t] \notin InBlock
             /\ \E l \in {"user", "kernel", "leaving", "exiting"} : pc' = [pc EXCEPT ![t] = l]
    <3>1. PICK l \in {"user", "kernel", "leaving", "exiting"} : pc' = [pc EXCEPT ![t] = l]
      BY Zenon, <2>3
    <3> QED
      BY Zenon, <2>1, <2>3, <3>1 DEF InBlock, Critical
  <2> QED
    BY Zenon, <2>2, <2>3
<1>3. TypeOK'
  <2>1. RestOK'
    BY Zenon, <1>1, <1>2 DEF RestOK
  <2> QED
    BY <2>1, Types, PTL
<1>4. Registered'
  <2>1. Range(queue) \subseteq Thread
    BY <1>1 DEF RestOK, Range
  <2> QED
    BY Zenon, <1>2, <2>1 DEF IInv, Registered
<1>5. \A u \in Thread \ {t} : Unmoved(u)
  BY Zenon, <1>2 DEF Unmoved
<1>6. Framed(t) /\ Justified(t)
  BY Zenon DEF IInv
<1>7. Framed(t)'
  BY Zenon, <1>2, <1>6 DEF Framed, Timed, InBlock, Critical
<1>8. Justified(t)'
  BY Zenon, <1>2, <1>6 DEF Justified, Reason, InBlock, Critical
<1> QED
  BY Zenon, <1>3, <1>4, <1>5, <1>7, <1>8, OneThread

\* A thread that is awake stays awake through set_state and through the dispatch
\* of a signal.
LEMMA StaysAwake ==
    ASSUME IInv, NEW t \in Thread, ~Asleep(t), NEW new \in States \ {"Blocked"},
           \/ SetState(t, new) /\ UNCHANGED pending
           \/ DispatchOne(t, new)
    PROVE  /\ StateOK' /\ pending' \in [Thread -> SUBSET Signals]
           /\ \A u \in Thread \ {t} : Asleep(u)' <=> Asleep(u)
           /\ ~Asleep(t)'
<1>1. StateOK /\ RestOK /\ SleepersOK /\ TypeOK
  BY Zenon, StateFacts DEF IInv
<1>2. CASE SetState(t, new) /\ UNCHANGED pending
  <2>1. pending' \in [Thread -> SUBSET Signals]
    BY Zenon, <1>1, <1>2 DEF RestOK
  <2> QED
    BY Zenon, <1>1, <1>2, <2>1, SetStateFacts
<1>3. CASE DispatchOne(t, new)
  <2>1. pending' \in [Thread -> SUBSET Signals]
    BY Zenon, <1>1, <1>3, DispatchFacts
  <2>2. PICK n \in {new, "Stopped"} : SetState(t, n)
    BY <1>1, <1>3, DispatchFacts
  <2>3. n \in States /\ n # "Blocked"
    BY Zenon, <2>2 DEF States
  <2> QED
    BY Zenon, <1>1, <2>1, <2>2, <2>3, SetStateFacts
<1> QED
  BY Zenon, <1>2, <1>3

\* A thread that executes, or is ready to, is awake.
LEMMA Awake ==
    ASSUME IInv, NEW t \in Thread,
           t \in cpu \/ state[t] \in {"Running", "Runnable"}
    PROVE  ~Asleep(t)
<1>1. StateOK /\ (Asleep(t) => t \notin cpu)
  BY Zenon, StateFacts DEF IInv, Justified
<1> QED
  BY Zenon, <1>1 DEF StateOK, Asleep

\* A context switch to a thread.
LEMMA ScheduleKeeps ==
    ASSUME IInv, NEW t \in Thread, Schedule(t)
    PROVE  IInv'
<1>1. /\ state[t] = "Runnable" /\ cpu' = cpu \union {t}
      /\ \/ SetState(t, "Running") /\ UNCHANGED pending
         \/ DispatchOne(t, "Running")
      /\ UNCHANGED <<pc, m_blocker, blocker, timer, timeout, queue, inflight, should_die, smp>>
      /\ UNCHANGED wake_requested
  BY Zenon DEF Schedule, blockVars, queueVars
<1>2. ~Asleep(t) /\ "Running" \in States \ {"Blocked"} /\ wake_requested \in BOOLEAN
  BY Zenon, <1>1, Awake, StateFacts DEF States, RestOK
<1>3. /\ StateOK' /\ pending' \in [Thread -> SUBSET Signals]
      /\ \A u \in Thread \ {t} : Asleep(u)' <=> Asleep(u)
      /\ ~Asleep(t)'
  BY Zenon, <1>1, <1>2, StaysAwake
<1> QED
  BY Zenon, <1>1, <1>2, <1>3, OutsideStep

\* A context switch from a thread, which may have to die.
LEMMA PreemptKeeps ==
    ASSUME IInv, NEW t \in Thread, Preempt(t)
    PROVE  IInv'
<1> DEFINE new == IF state[t] # "Running" THEN state[t]
                  ELSE IF should_die[t] THEN "Dying" ELSE "Runnable"
<1>1. /\ t \in cpu /\ cpu' = cpu \ {t} /\ UNCHANGED pending
      /\ UNCHANGED <<pc, m_blocker, blocker, timer, timeout, queue, inflight, should_die, smp>>
      /\ UNCHANGED wake_requested
  BY Zenon DEF Preempt, blockVars, queueVars
<1>2. SetState(t, new)
  BY Zenon DEF Preempt, SetState
<1>3. ~Asleep(t) /\ wake_requested \in BOOLEAN /\ StateOK
  BY Zenon, <1>1, Awake, StateFacts DEF RestOK
<1>4. new \in States \ {"Blocked"}
  BY Zenon, <1>3 DEF States, StateOK, Asleep
<1> HIDE DEF new
<1>5. /\ StateOK' /\ pending' \in [Thread -> SUBSET Signals]
      /\ \A u \in Thread \ {t} : Asleep(u)' <=> Asleep(u)
      /\ ~Asleep(t)'
  BY Zenon, <1>1, <1>2, <1>3, <1>4, StaysAwake
<1> QED
  BY Zenon, <1>1, <1>3, <1>5, OutsideStep

\* The way into the kernel and out of it, and a wait that should_add_blocker refuses.
LEMMA KernelKeeps ==
    ASSUME IInv, NEW t \in Thread,
           EnterKernel(t) \/ LeaveKernel(t) \/ ReturnToUser(t) \/ BlockRefused(t)
    PROVE  IInv'
<1>1. /\ t \in cpu /\ cpu' \in {cpu, cpu \ {t}}
      /\ pc[t] \in {"user", "kernel", "leaving"}
      /\ UNCHANGED pc \/ \E l \in {"user", "kernel", "leaving", "exiting"} :
                            pc' = [pc EXCEPT ![t] = l]
      /\ UNCHANGED <<m_blocker, blocker, timer, timeout, queue, inflight, should_die, smp>>
      /\ wake_requested' \in {wake_requested, FALSE}
  BY Zenon DEF EnterKernel, LeaveKernel, ReturnToUser, BlockRefused, Runs, Goto, blockVars, queueVars
<1>2. /\ ~Asleep(t) /\ wake_requested' \in BOOLEAN /\ pc[t] \notin InBlock
      /\ StateOK /\ state[t] \in States \ {"Blocked"}
  BY Zenon, <1>1, Awake, StateFacts DEF RestOK, StateOK, Asleep, InBlock, Critical
<1>3. \/ SetState(t, state[t]) /\ UNCHANGED pending
      \/ DispatchOne(t, state[t])
  <2>1. CASE LeaveKernel(t)
    BY Zenon, <2>1 DEF LeaveKernel
  <2>2. CASE EnterKernel(t) \/ ReturnToUser(t) \/ BlockRefused(t)
    BY Zenon, <2>2 DEF EnterKernel, ReturnToUser, BlockRefused, SetState
  <2> QED
    BY Zenon, <2>1, <2>2
<1>4. /\ StateOK' /\ pending' \in [Thread -> SUBSET Signals]
      /\ \A u \in Thread \ {t} : Asleep(u)' <=> Asleep(u)
      /\ ~Asleep(t)'
  BY Zenon, <1>2, <1>3, StaysAwake
<1> QED
  BY Zenon, <1>1, <1>2, <1>4, OutsideStep

-----------------------------------------------------------------------------
(* Steps of block()                                                        *)

\* ~Blocker leaves the blockers of the others, in their order.
LEMMA RemoveFacts ==
    ASSUME queue \in Seq(Thread), Distinct(queue), NEW t \in Thread, RemoveBlocker(t)
    PROVE  /\ queue' \in Seq(Thread) /\ Distinct(queue')
           /\ Range(queue') = Range(queue) \ {t}
<1>1. CASE t \notin Range(queue)
  BY Zenon, <1>1 DEF RemoveBlocker
<1>2. CASE t \in Range(queue)
  <2>1. PICK i \in DOMAIN queue :
            /\ queue[i] = t
            /\ queue' = SubSeq(queue, 1, i - 1) \o SubSeq(queue, i + 1, Len(queue))
    BY Zenon, <1>2 DEF RemoveBlocker
  <2>2. queue' \in Seq(Thread) /\ OneLess(queue', queue, i)
    BY Zenon, <2>1, WithoutPosition DEF OneLess
  <2>3. Distinct(queue') /\ Range(queue') = Range(queue) \ {queue[i]}
    BY Zenon, <2>2, Taken
  <2> QED
    BY Zenon, <2>1, <2>2, <2>3
<1> QED
  BY Zenon, <1>1, <1>2

\* On one processor nothing is under way while a thread executes in block().
LEMMA Quiet ==
    ASSUME NEW t, May(<<"thread", t>>), ~smp
    PROVE  \A u \in Thread : inflight[u] = "no" /\ timer[u] # "firing"
<1>1. Sections \subseteq {<<"thread", t>>}
  BY Zenon DEF May
<1>2. ASSUME NEW u \in Thread, inflight[u] # "no" PROVE FALSE
  <2>1. <<"wake">> \in Sections
    BY Zenon, <1>2 DEF Sections
  <2> QED
    BY Zenon, <1>1, <2>1
<1>3. ASSUME NEW u \in Thread, timer[u] = "firing" PROVE FALSE
  <2>1. <<"timer", u>> \in Sections
    BY Zenon, <1>3 DEF Sections
  <2> QED
    BY Zenon, <1>1, <2>1
<1> QED
  BY Zenon, <1>2, <1>3

\* The blocker is constructed and registered.
LEMMA BlockRegisterKeeps ==
    ASSUME IInv, NEW t \in Thread, NEW timed \in Timeouts, BlockRegister(t, timed)
    PROVE  IInv'
<1>1. /\ t \in cpu /\ pc[t] = "kernel" /\ May(<<"thread", t>>) /\ QueueUnlocked
      /\ queue' = Append(queue, t)
      /\ blocker' = [blocker EXCEPT ![t] = [NoBlocker EXCEPT !.timed = timed]]
      /\ timeout' = [timeout EXCEPT ![t] = NoTimeout]
      /\ pc' = [pc EXCEPT ![t] = "registered"]
      /\ UNCHANGED <<state, stop_state, is_stopped, m_blocker, timer, wake_requested,
                     inflight, cpu, pending, should_die, smp>>
  BY Zenon DEF BlockRegister, Runs, Goto, stateVars
<1>2. StateOK /\ RestOK /\ Registered /\ Framed(t) /\ Justified(t) /\ ~Asleep(t)
  BY Zenon, <1>1, StateFacts, Awake DEF IInv
<1>3. \A u \in Thread : Asleep(u)' <=> Asleep(u)
  BY Zenon, <1>1 DEF Asleep
<1>4. /\ pc' \in [Thread -> {"user", "kernel", "leaving", "exiting"} \union InBlock]
      /\ pc'[t] = "registered" /\ \A u \in Thread \ {t} : pc'[u] = pc[u]
  BY Zenon, <1>1, <1>2 DEF RestOK, InBlock, Critical
<1>5. /\ blocker' \in [Thread -> BlockerType]
      /\ ~blocker'[t].by_death
      /\ \A u \in Thread \ {t} : blocker'[u] = blocker[u]
  BY Zenon, <1>1, <1>2, BlockingAssumption DEF RestOK, NoBlocker, BlockerType
<1>6. /\ timeout' \in [Thread -> [unblocked : BOOLEAN, did : BOOLEAN]]
      /\ ~timeout'[t].unblocked
      /\ \A u \in Thread \ {t} : timeout'[u] = timeout[u]
  BY Zenon, <1>1, <1>2 DEF RestOK, NoTimeout
<1>7. /\ queue' \in Seq(Thread) /\ Range(queue') = Range(queue) \union {t}
      /\ Distinct(queue') /\ Range(queue) \subseteq Thread
  <2>1. queue \in Seq(Thread) /\ Distinct(queue) /\ t \notin Range(queue)
    BY Zenon, <1>1, <1>2 DEF RestOK, Registered, InBlock, Critical
  <2>2. Range(queue) \subseteq Thread
    BY <2>1 DEF Range
  <2>3. /\ Append(queue, t) \in Seq(Thread) /\ Distinct(Append(queue, t))
        /\ Range(Append(queue, t)) = Range(queue) \union {t}
    BY <2>1, Appended
  <2> QED
    BY Zenon, <1>1, <2>2, <2>3
<1>8. TypeOK'
  <2>1. StateOK'
    BY Zenon, <1>1, <1>2 DEF StateOK
  <2>2. RestOK'
    BY Zenon, <1>1, <1>2, <1>4, <1>5, <1>6, <1>7 DEF RestOK
  <2> QED
    BY <2>1, <2>2, Types, PTL
<1>9. Registered'
  BY Zenon, <1>2, <1>4, <1>7 DEF Registered, InBlock, Critical
<1>10. \A u \in Thread \ {t} : Unmoved(u)
  BY Zenon, <1>1, <1>3, <1>4, <1>5, <1>6 DEF Unmoved
<1>11. timer[t] = "none" /\ inflight[t] # "direct" /\ (~smp => inflight[t] = "no")
  BY Zenon, <1>1, <1>2, Quiet DEF Framed, Timed, QueueUnlocked
<1>12. Framed(t)'
  BY Zenon, <1>1, <1>4, <1>6, <1>11 DEF Framed, Timed
<1>13. Justified(t)'
  BY Zenon, <1>1, <1>2, <1>3, <1>4, <1>5, <1>11 DEF Justified
<1> QED
  BY Zenon, <1>1, <1>8, <1>9, <1>10, <1>12, <1>13, OneThread

\* The blocker is destroyed: the deadline was in the past, or block() returns.
LEMMA BlockLeaveKeeps ==
    ASSUME IInv, NEW t \in Thread, BlockExpired(t) \/ BlockReturn(t)
    PROVE  IInv'
<1>1. /\ t \in cpu /\ May(<<"thread", t>>) /\ QueueUnlocked
      /\ RemoveBlocker(t)
      /\ blocker' = [blocker EXCEPT ![t] = NoBlocker]
      /\ pc' = [pc EXCEPT ![t] = "kernel"]
      /\ UNCHANGED <<state, stop_state, is_stopped, m_blocker, wake_requested,
                     inflight, cpu, pending, should_die, smp>>
  BY Zenon DEF BlockExpired, BlockReturn, Runs, Goto, stateVars
<1>2. StateOK /\ RestOK /\ Registered /\ Framed(t) /\ Justified(t) /\ ~Asleep(t)
  BY Zenon, <1>1, StateFacts, Awake DEF IInv
<1>3. \A u \in Thread : Asleep(u)' <=> Asleep(u)
  BY Zenon, <1>1 DEF Asleep
<1>4. /\ pc' \in [Thread -> {"user", "kernel", "leaving", "exiting"} \union InBlock]
      /\ pc'[t] = "kernel" /\ \A u \in Thread \ {t} : pc'[u] = pc[u]
  BY Zenon, <1>1, <1>2 DEF RestOK
<1>5. /\ blocker' \in [Thread -> BlockerType]
      /\ ~blocker'[t].by_death
      /\ \A u \in Thread \ {t} : blocker'[u] = blocker[u]
  BY Zenon, <1>1, <1>2 DEF RestOK, NoBlocker, BlockerType
<1>6. /\ timeout' \in [Thread -> [unblocked : BOOLEAN, did : BOOLEAN]]
      /\ timer' \in [Thread -> {"none", "queued", "firing"}]
      /\ timer'[t] = "none"
      /\ \A u \in Thread \ {t} : timeout'[u] = timeout[u] /\ timer'[u] = timer[u]
  <2>1. CASE BlockExpired(t)
    BY Zenon, <1>2, <2>1 DEF BlockExpired, Runs, RestOK, Framed, Timed
  <2>2. CASE BlockReturn(t)
    BY Zenon, <1>2, <2>2 DEF BlockReturn, Runs, RestOK, Framed, Timed, NoTimeout
  <2> QED
    BY Zenon, <2>1, <2>2
<1>7. /\ queue' \in Seq(Thread) /\ Range(queue') = Range(queue) \ {t}
      /\ Distinct(queue') /\ Range(queue) \subseteq Thread
  <2>1. queue \in Seq(Thread) /\ Distinct(queue)
    BY Zenon, <1>1, <1>2 DEF RestOK, Registered
  <2>2. Range(queue) \subseteq Thread
    BY <2>1 DEF Range
  <2> QED
    BY Zenon, <1>1, <2>1, <2>2, RemoveFacts
<1>8. TypeOK'
  <2>1. StateOK'
    BY Zenon, <1>1, <1>2 DEF StateOK
  <2>2. RestOK'
    BY Zenon, <1>1, <1>2, <1>4, <1>5, <1>6, <1>7 DEF RestOK
  <2> QED
    BY <2>1, <2>2, Types, PTL
<1>9. Registered'
  BY Zenon, <1>2, <1>4, <1>7 DEF Registered
<1>10. \A u \in Thread \ {t} : Unmoved(u)
  BY Zenon, <1>1, <1>3, <1>4, <1>5, <1>6 DEF Unmoved
<1>11. inflight[t] # "direct" /\ (~smp => inflight[t] = "no")
  BY Zenon, <1>1, <1>2, Quiet DEF QueueUnlocked
<1>12. Framed(t)'
  BY Zenon, <1>1, <1>4, <1>6, <1>11 DEF Framed, Timed
<1>13. Justified(t)'
  BY Zenon, <1>1, <1>2, <1>3, <1>4, <1>5, <1>11 DEF Justified
<1> QED
  BY Zenon, <1>1, <1>8, <1>9, <1>10, <1>12, <1>13, OneThread

\* A step of or against a thread in block() that leaves the queue alone.
LEMMA BlockStep ==
    ASSUME IInv, NEW t \in Thread, StateOK', RestOK', UNCHANGED <<queue, smp>>,
           \A u \in Thread \ {t} : Unmoved(u),
           pc[t] \in InBlock => pc'[t] \in InBlock, Framed(t)', Justified(t)'
    PROVE  IInv'
<1>1. TypeOK'
  BY Types, PTL
<1>2. Range(queue) \subseteq Thread /\ Registered
  <2>1. queue \in Seq(Thread)
    BY Zenon, StateFacts DEF RestOK
  <2> QED
    BY <2>1 DEF Range, IInv
<1>3. \A u \in Thread : pc[u] \in InBlock => pc'[u] \in InBlock
  BY Zenon DEF Unmoved
<1>4. Registered'
  BY Zenon, <1>2, <1>3 DEF Registered
<1> QED
  BY Zenon, <1>1, <1>4, OneThread

\* begin_blocking and set_state(Blocked).
LEMMA BlockBeginKeeps ==
    ASSUME IInv, NEW t \in Thread, BlockBegin(t)
    PROVE  IInv'
<1>1. /\ t \in cpu /\ pc[t] = "registered" /\ SetState(t, "Blocked")
      /\ m_blocker' = [m_blocker EXCEPT ![t] = TRUE]
      /\ timer' = IF blocker[t].timed THEN [timer EXCEPT ![t] = "queued"] ELSE timer
      /\ blocker' = [blocker EXCEPT ![t].is_blocking = TRUE]
      /\ cpu' = cpu \ {t} /\ pc' = [pc EXCEPT ![t] = "blocked"]
      /\ UNCHANGED <<timeout, queue, wake_requested, inflight, pending, should_die, smp>>
  BY Zenon DEF BlockBegin, Runs, Goto, queueVars
<1>2. StateOK /\ SleepersOK /\ RestOK /\ Framed(t) /\ Justified(t) /\ "Blocked" \in States
  BY Zenon, StateFacts DEF IInv, States
<1>3. StateOK' /\ Asleep(t)' /\ \A u \in Thread \ {t} : Asleep(u)' <=> Asleep(u)
  BY Zenon, <1>1, <1>2, SetStateFacts
<1>4. /\ pc' \in [Thread -> {"user", "kernel", "leaving", "exiting"} \union InBlock]
      /\ pc'[t] = "blocked" /\ \A u \in Thread \ {t} : pc'[u] = pc[u]
  BY Zenon, <1>1, <1>2 DEF RestOK, InBlock
<1>5. /\ blocker' \in [Thread -> BlockerType]
      /\ blocker'[t].by_death = blocker[t].by_death
      /\ blocker'[t].did_unblock = blocker[t].did_unblock
      /\ \A u \in Thread \ {t} : blocker'[u] = blocker[u]
  <2>1. blocker \in [Thread -> BlockerType]
    BY Zenon, <1>2 DEF RestOK
  <2>2. blocker' = SetBlocking(blocker, t, TRUE) /\ TRUE \in BOOLEAN
    BY Zenon, <1>1 DEF SetBlocking
  <2> DEFINE c == SetBlocking(blocker, t, TRUE)
  <2>3. /\ c \in [Thread -> BlockerType]
        /\ c[t].by_death = blocker[t].by_death
        /\ c[t].did_unblock = blocker[t].did_unblock
        /\ \A u \in Thread \ {t} : c[u] = blocker[u]
    BY Zenon, <2>1, BlockingSet
  <2> QED
    BY Zenon, <2>2, <2>3
<1>6. /\ m_blocker' \in [Thread -> BOOLEAN] /\ m_blocker'[t]
      /\ timer' \in [Thread -> {"none", "queued", "firing"}]
      /\ \A u \in Thread \ {t} : m_blocker'[u] = m_blocker[u] /\ timer'[u] = timer[u]
  BY Zenon, <1>1, <1>2 DEF RestOK
<1>7. RestOK'
  <2>1. cpu' \subseteq Thread
    BY Zenon, <1>1, <1>2 DEF RestOK
  <2> QED
    BY Zenon, <1>1, <1>2, <1>4, <1>5, <1>6, <2>1 DEF RestOK
<1>8. \A u \in Thread \ {t} : Unmoved(u)
  <2>1. \A u \in Thread \ {t} : u \in cpu' <=> u \in cpu
    BY Zenon, <1>1
  <2> QED
    BY Zenon, <1>1, <1>3, <1>4, <1>5, <1>6, <2>1 DEF Unmoved
<1>9. Framed(t)'
  BY Zenon, <1>1, <1>2, <1>4 DEF Framed, Timed, InBlock
<1>10. Justified(t)'
  <2>1. t \notin cpu'
    BY Zenon, <1>1
  <2> QED
    BY Zenon, <1>1, <1>2, <1>3, <1>4, <1>5, <1>6, <2>1 DEF Justified
<1> QED
  BY Zenon, <1>1, <1>3, <1>4, <1>7, <1>8, <1>9, <1>10, BlockStep DEF InBlock

\* The loop of block() ends.
LEMMA BlockResumeKeeps ==
    ASSUME IInv, NEW t \in Thread, BlockResume(t)
    PROVE  IInv'
<1>1. /\ t \in cpu /\ pc[t] = "blocked"
      /\ timeout' = [timeout EXCEPT ![t] = [unblocked |-> TRUE, did |-> @.unblocked]]
      /\ m_blocker' = [m_blocker EXCEPT ![t] = FALSE]
      /\ pc' = [pc EXCEPT ![t] = "woken"]
      /\ UNCHANGED <<state, stop_state, is_stopped, blocker, timer, queue, wake_requested,
                     inflight, cpu, pending, should_die, smp>>
  BY Zenon DEF BlockResume, Runs, Goto, stateVars, queueVars
<1>2. StateOK /\ RestOK /\ Framed(t) /\ Justified(t) /\ ~Asleep(t)
  BY Zenon, <1>1, StateFacts, Awake DEF IInv
<1>3. StateOK' /\ \A u \in Thread : Asleep(u)' <=> Asleep(u)
  BY Zenon, <1>1, <1>2 DEF Asleep, StateOK
<1>4. /\ pc' \in [Thread -> {"user", "kernel", "leaving", "exiting"} \union InBlock]
      /\ pc'[t] = "woken" /\ \A u \in Thread \ {t} : pc'[u] = pc[u]
  BY Zenon, <1>1, <1>2 DEF RestOK, InBlock, Critical
<1>5. /\ timeout' \in [Thread -> [unblocked : BOOLEAN, did : BOOLEAN]]
      /\ timeout'[t].unblocked /\ timeout'[t].did = timeout[t].unblocked
      /\ \A u \in Thread \ {t} : timeout'[u] = timeout[u]
  BY Zenon, <1>1, <1>2 DEF RestOK
<1>6. /\ m_blocker' \in [Thread -> BOOLEAN]
      /\ \A u \in Thread \ {t} : m_blocker'[u] = m_blocker[u]
  BY Zenon, <1>1, <1>2 DEF RestOK
<1>7. RestOK'
  BY Zenon, <1>1, <1>2, <1>4, <1>5, <1>6 DEF RestOK
<1>8. \A u \in Thread \ {t} : Unmoved(u)
  BY Zenon, <1>1, <1>3, <1>4, <1>5, <1>6 DEF Unmoved
<1>9. Framed(t)'
  BY Zenon, <1>1, <1>2, <1>4, <1>5 DEF Framed, Timed, InBlock, Critical
<1>10. Justified(t)'
  BY Zenon, <1>1, <1>2, <1>3, <1>4, <1>5 DEF Justified, Reason
<1>11. pc'[t] \in InBlock
  BY Zenon, <1>4 DEF InBlock, Critical
<1> QED
  BY Zenon, <1>1, <1>3, <1>7, <1>8, <1>9, <1>10, <1>11, BlockStep

\* A signal is dispatched, and end_blocking.
LEMMA BlockEndKeeps ==
    ASSUME IInv, NEW t \in Thread, BlockEnd(t)
    PROVE  IInv'
<1>1. /\ t \in cpu /\ pc[t] = "woken"
      /\ blocker' = [blocker EXCEPT ![t].is_blocking = FALSE]
      /\ pc' = [pc EXCEPT ![t] = "ended"]
      /\ UNCHANGED <<m_blocker, timer, timeout, queue, wake_requested, inflight, cpu,
                     should_die, smp>>
  BY Zenon DEF BlockEnd, Runs, Goto, queueVars
<1>2. /\ \/ SetState(t, state[t]) /\ UNCHANGED pending
         \/ DispatchOne(t, state[t])
  BY Zenon DEF BlockEnd, SetState
<1>3. /\ StateOK /\ RestOK /\ Framed(t) /\ Justified(t) /\ ~Asleep(t)
      /\ state[t] \in States \ {"Blocked"}
  BY Zenon, <1>1, StateFacts, Awake DEF IInv, StateOK, Asleep
<1>4. /\ StateOK' /\ pending' \in [Thread -> SUBSET Signals]
      /\ \A u \in Thread \ {t} : Asleep(u)' <=> Asleep(u)
      /\ ~Asleep(t)'
  BY Zenon, <1>2, <1>3, StaysAwake
<1>5. /\ pc' \in [Thread -> {"user", "kernel", "leaving", "exiting"} \union InBlock]
      /\ pc'[t] = "ended" /\ \A u \in Thread \ {t} : pc'[u] = pc[u]
  BY Zenon, <1>1, <1>3 DEF RestOK, InBlock, Critical
<1>6. /\ blocker' \in [Thread -> BlockerType]
      /\ blocker'[t].by_death = blocker[t].by_death
      /\ blocker'[t].did_unblock = blocker[t].did_unblock
      /\ \A u \in Thread \ {t} : blocker'[u] = blocker[u]
  <2>1. blocker \in [Thread -> BlockerType]
    BY Zenon, <1>3 DEF RestOK
  <2>2. blocker' = SetBlocking(blocker, t, FALSE) /\ FALSE \in BOOLEAN
    BY Zenon, <1>1 DEF SetBlocking
  <2> DEFINE c == SetBlocking(blocker, t, FALSE)
  <2>3. /\ c \in [Thread -> BlockerType]
        /\ c[t].by_death = blocker[t].by_death
        /\ c[t].did_unblock = blocker[t].did_unblock
        /\ \A u \in Thread \ {t} : c[u] = blocker[u]
    BY Zenon, <2>1, BlockingSet
  <2> QED
    BY Zenon, <2>2, <2>3
<1>7. RestOK'
  BY Zenon, <1>1, <1>3, <1>4, <1>5, <1>6 DEF RestOK
<1>8. \A u \in Thread \ {t} : Unmoved(u)
  BY Zenon, <1>1, <1>4, <1>5, <1>6 DEF Unmoved
<1>9. Framed(t)'
  BY Zenon, <1>1, <1>3, <1>5 DEF Framed, Timed, InBlock, Critical
<1>10. Justified(t)'
  BY Zenon, <1>1, <1>3, <1>4, <1>5, <1>6 DEF Justified
<1>11. pc'[t] \in InBlock
  BY Zenon, <1>5 DEF InBlock, Critical
<1> QED
  BY Zenon, <1>1, <1>4, <1>7, <1>8, <1>9, <1>10, <1>11, BlockStep

\* cancel_timer: no timer refers to the frame any more.
LEMMA BlockCancelKeeps ==
    ASSUME IInv, NEW t \in Thread, BlockCancel(t)
    PROVE  IInv'
<1>1. /\ t \in cpu /\ pc[t] = "ended"
      /\ timer' = IF timeout[t].did THEN timer ELSE [timer EXCEPT ![t] = "none"]
      /\ pc' = [pc EXCEPT ![t] = "relocking"]
      /\ UNCHANGED <<state, stop_state, is_stopped, m_blocker, blocker, timeout, queue,
                     wake_requested, inflight, cpu, pending, should_die, smp>>
  BY Zenon DEF BlockCancel, Runs, Goto, stateVars, queueVars
<1>2. StateOK /\ RestOK /\ Framed(t) /\ Justified(t) /\ ~Asleep(t)
  BY Zenon, <1>1, StateFacts, Awake DEF IInv
<1>3. \A u \in Thread : Asleep(u)' <=> Asleep(u)
  BY Zenon, <1>1 DEF Asleep
<1>4. /\ pc' \in [Thread -> {"user", "kernel", "leaving", "exiting"} \union InBlock]
      /\ pc'[t] = "relocking" /\ \A u \in Thread \ {t} : pc'[u] = pc[u]
  BY Zenon, <1>1, <1>2 DEF RestOK, InBlock
<1>5. /\ timer' \in [Thread -> {"none", "queued", "firing"}]
      /\ timer'[t] = "none"
      /\ \A u \in Thread \ {t} : timer'[u] = timer[u]
  BY Zenon, <1>1, <1>2 DEF RestOK, Framed, Timed
<1>6. StateOK'
  BY Zenon, <1>1, <1>2 DEF StateOK
<1>7. RestOK'
  BY Zenon, <1>1, <1>2, <1>4, <1>5 DEF RestOK
<1>8. \A u \in Thread \ {t} : Unmoved(u)
  BY Zenon, <1>1, <1>3, <1>4, <1>5 DEF Unmoved
<1>9. pc'[t] \in InBlock
  BY Zenon, <1>4 DEF InBlock
<1>10. Framed(t)'
  BY Zenon, <1>1, <1>4, <1>5, <1>9 DEF Framed, Timed
<1>11. Justified(t)'
  BY Zenon, <1>1, <1>2, <1>3, <1>4 DEF Justified
<1> QED
  BY Zenon, <1>1, <1>6, <1>7, <1>8, <1>9, <1>10, <1>11, BlockStep

-----------------------------------------------------------------------------
(* What ends the wait                                                      *)

\* Thread::unblock, or nothing.
LEMMA UnblockFacts ==
    ASSUME IInv, NEW t \in Thread, Unblock(t) \/ UNCHANGED <<stateVars, m_blocker>>
    PROVE  /\ StateOK' /\ m_blocker' \in [Thread -> BOOLEAN]
           /\ \A u \in Thread \ {t} : m_blocker'[u] = m_blocker[u] /\ (Asleep(u)' <=> Asleep(u))
           /\ Asleep(t)' => Asleep(t) /\ m_blocker'[t]
           /\ Unblock(t) \/ (Asleep(t)' <=> Asleep(t))
<1>1. StateOK /\ SleepersOK /\ m_blocker \in [Thread -> BOOLEAN]
  BY Zenon, StateFacts DEF RestOK
<1>2. CASE Unblock(t)
  <2>1. SetState(t, "Runnable") /\ m_blocker' = [m_blocker EXCEPT ![t] = FALSE]
    BY Zenon, <1>2 DEF Unblock
  <2>2. "Runnable" \in States
    BY Zenon DEF States
  <2>3. StateOK' /\ ~Asleep(t)' /\ \A u \in Thread \ {t} : Asleep(u)' <=> Asleep(u)
    BY Zenon, <1>1, <2>1, <2>2, SetStateFacts
  <2> QED
    BY Zenon, <1>1, <1>2, <2>1, <2>3
<1>3. CASE UNCHANGED <<stateVars, m_blocker>>
  <2>1. UNCHANGED <<state, stop_state, is_stopped, m_blocker>>
    BY Zenon, <1>3 DEF stateVars
  <2>2. StateOK' /\ \A u \in Thread : Asleep(u)' <=> Asleep(u)
    BY Zenon, <1>1, <2>1 DEF StateOK, Asleep
  <2>3. Asleep(t) => m_blocker[t]
    BY Zenon, <1>1 DEF SleepersOK
  <2> QED
    BY Zenon, <1>1, <2>1, <2>2, <2>3
<1> QED
  BY Zenon, <1>2, <1>3

\* Thread::unblock_from_blocker
LEMMA UnblockFromBlockerKeeps ==
    ASSUME IInv, NEW t \in Thread, UnblockFromBlocker(t)
    PROVE  IInv'
<1>1. /\ inflight[t] # "no" /\ inflight' = [inflight EXCEPT ![t] = "no"]
      /\ Unblock(t) \/ UNCHANGED <<stateVars, m_blocker>>
      /\ UNCHANGED <<blocker, timer, timeout, queue, wake_requested, cpu,
                     pc, pending, should_die, smp>>
  BY Zenon DEF UnblockFromBlocker
<1>2. RestOK /\ Framed(t) /\ Justified(t)
  BY Zenon, StateFacts DEF IInv
<1>3. /\ StateOK' /\ m_blocker' \in [Thread -> BOOLEAN]
      /\ \A u \in Thread \ {t} : m_blocker'[u] = m_blocker[u] /\ (Asleep(u)' <=> Asleep(u))
      /\ Asleep(t)' => Asleep(t) /\ m_blocker'[t]
  BY Zenon, <1>1, UnblockFacts
<1>4. /\ inflight' \in [Thread -> {"no", "direct", "deferred"}] /\ inflight'[t] = "no"
      /\ \A u \in Thread \ {t} : inflight'[u] = inflight[u]
  BY Zenon, <1>1, <1>2 DEF RestOK
<1>5. RestOK'
  BY Zenon, <1>1, <1>2, <1>3, <1>4 DEF RestOK
<1>6. \A u \in Thread \ {t} : Unmoved(u)
  BY Zenon, <1>1, <1>3, <1>4 DEF Unmoved
<1>7. Framed(t)'
  BY Zenon, <1>1, <1>2, <1>4 DEF Framed, Timed
<1>8. Justified(t)'
  BY Zenon, <1>1, <1>2, <1>3, <1>4 DEF Justified, Reason
<1> QED
  BY Zenon, <1>1, <1>3, <1>5, <1>6, <1>7, <1>8, BlockStep

\* TimerQueue::fire
LEMMA TimerFireKeeps ==
    ASSUME IInv, NEW t \in Thread, TimerFire(t)
    PROVE  IInv'
<1>1. /\ timer[t] = "queued" /\ timer' = [timer EXCEPT ![t] = "firing"]
      /\ UNCHANGED <<stateVars, m_blocker>>
      /\ UNCHANGED <<blocker, timeout, queue, wake_requested, inflight, cpu,
                     pc, pending, should_die, smp>>
  BY Zenon DEF TimerFire, queueVars
<1>2. RestOK /\ Framed(t) /\ Justified(t)
  BY Zenon, StateFacts DEF IInv
<1>3. /\ StateOK' /\ m_blocker' \in [Thread -> BOOLEAN]
      /\ \A u \in Thread \ {t} : m_blocker'[u] = m_blocker[u] /\ (Asleep(u)' <=> Asleep(u))
      /\ Asleep(t)' <=> Asleep(t)
  BY Zenon, <1>1, <1>2, StateFacts DEF RestOK, stateVars, StateOK, Asleep
<1>4. /\ timer' \in [Thread -> {"none", "queued", "firing"}] /\ timer'[t] = "firing"
      /\ \A u \in Thread \ {t} : timer'[u] = timer[u]
  BY Zenon, <1>1, <1>2 DEF RestOK
<1>5. RestOK'
  BY Zenon, <1>1, <1>2, <1>3, <1>4 DEF RestOK
<1>6. \A u \in Thread \ {t} : Unmoved(u)
  BY Zenon, <1>1, <1>3, <1>4 DEF Unmoved
<1>7. Framed(t)'
  BY Zenon, <1>1, <1>2, <1>4 DEF Framed, Timed
<1>8. Justified(t)'
  BY Zenon, <1>1, <1>2, <1>3 DEF Justified, Reason
<1> QED
  BY Zenon, <1>1, <1>3, <1>5, <1>6, <1>7, <1>8, BlockStep

\* The lambda block() gave to add_timer_without_id.
LEMMA TimerCallbackKeeps ==
    ASSUME IInv, NEW t \in Thread, TimerCallback(t)
    PROVE  IInv'
<1>1. /\ timer[t] = "firing" /\ timer' = [timer EXCEPT ![t] = "none"]
      /\ \/ /\ ~timeout[t].unblocked /\ timeout' = [timeout EXCEPT ![t].unblocked = TRUE]
            /\ Unblock(t) \/ UNCHANGED <<stateVars, m_blocker>>
         \/ UNCHANGED <<stateVars, m_blocker, timeout>>
      /\ UNCHANGED <<blocker, queue, wake_requested, inflight, cpu,
                     pc, pending, should_die, smp>>
  BY Zenon DEF TimerCallback, queueVars
<1>2. RestOK /\ Framed(t) /\ Justified(t)
  BY Zenon, StateFacts DEF IInv
<1>3. /\ StateOK' /\ m_blocker' \in [Thread -> BOOLEAN]
      /\ \A u \in Thread \ {t} : m_blocker'[u] = m_blocker[u] /\ (Asleep(u)' <=> Asleep(u))
      /\ Asleep(t)' => Asleep(t) /\ m_blocker'[t]
      /\ Unblock(t) \/ (Asleep(t)' <=> Asleep(t))
  BY Zenon, <1>1, UnblockFacts
<1>4. /\ timer' \in [Thread -> {"none", "queued", "firing"}] /\ timer'[t] = "none"
      /\ \A u \in Thread \ {t} : timer'[u] = timer[u]
  BY Zenon, <1>1, <1>2 DEF RestOK
<1>5. /\ timeout' \in [Thread -> [unblocked : BOOLEAN, did : BOOLEAN]]
      /\ timeout'[t].did = timeout[t].did
      /\ timeout[t].unblocked => timeout'[t].unblocked
      /\ \A u \in Thread \ {t} : timeout'[u] = timeout[u]
  <2>1. timeout \in [Thread -> [unblocked : BOOLEAN, did : BOOLEAN]]
    BY Zenon, <1>2 DEF RestOK
  <2>2. timeout' \in {timeout, [timeout EXCEPT ![t].unblocked = TRUE]}
    BY Zenon, <1>1
  <2> QED
    BY ONLY Zenon, <2>1, <2>2, t \in Thread
<1>6. Asleep(t) => Asleep(t)' \/ timeout'[t].unblocked
  <2>1. timeout \in [Thread -> [unblocked : BOOLEAN, did : BOOLEAN]]
    BY Zenon, <1>2 DEF RestOK
  <2>2. CASE timeout' = [timeout EXCEPT ![t].unblocked = TRUE]
    BY ONLY <2>1, <2>2, t \in Thread
  <2>3. CASE UNCHANGED <<stateVars, m_blocker, timeout>>
    BY Zenon, <2>3 DEF stateVars, Asleep
  <2> QED
    BY Zenon, <1>1, <2>2, <2>3
<1>7. RestOK'
  BY Zenon, <1>1, <1>2, <1>3, <1>4, <1>5 DEF RestOK
<1>8. \A u \in Thread \ {t} : Unmoved(u)
  BY Zenon, <1>1, <1>3, <1>4, <1>5 DEF Unmoved
<1>9. pc[t] \in {"blocked", "woken", "ended"}
  BY Zenon, <1>1, <1>2 DEF Framed, Timed
<1>10. Framed(t)'
  BY Zenon, <1>1, <1>2, <1>4, <1>5, <1>9 DEF Framed, Timed
<1>11. Justified(t)'
  BY Zenon, <1>1, <1>2, <1>3, <1>5, <1>6 DEF Justified, Reason
<1> QED
  BY Zenon, <1>1, <1>3, <1>7, <1>8, <1>10, <1>11, BlockStep
\* A stopped thread that is resumed is asleep if it was when it was stopped.
LEMMA ResumeFacts ==
    ASSUME IInv, NEW t \in Thread, state[t] = "Stopped", LeaveStopped(t, ResumeState(t))
    PROVE  StateOK' /\ \A u \in Thread : Asleep(u)' <=> Asleep(u)
<1>1. StateOK /\ SleepersOK
  BY Zenon, StateFacts
<1>2. /\ ResumeState(t) \in States \ {"Stopped"}
      /\ ResumeState(t) = "Blocked" <=> Asleep(t)
  BY Zenon, <1>1 DEF StateOK, SleepersOK, Asleep, ResumeState, States
<1>3. /\ StateOK' /\ state'[t] = ResumeState(t) /\ stop_state'[t] = "Invalid"
      /\ \A u \in Thread \ {t} : Asleep(u)' <=> Asleep(u)
  BY Zenon, <1>1, <1>2, LeaveStoppedFacts
<1>4. Asleep(t)' <=> Asleep(t)
  BY Zenon, <1>2, <1>3 DEF Asleep
<1> QED
  BY Zenon, <1>3, <1>4

\* The blocker is told of a signal or of the thread's death, and the thread is
\* unblocked; or neither happens.
LEMMA Interrupted ==
    ASSUME IInv, NEW t \in Thread, StateOK', m_blocker' \in [Thread -> BOOLEAN],
           \A u \in Thread \ {t} : m_blocker'[u] = m_blocker[u] /\ (Asleep(u)' <=> Asleep(u)),
           Asleep(t)' => Asleep(t) /\ m_blocker'[t],
           \/ blocker' = blocker /\ (Asleep(t)' <=> Asleep(t))
           \/ blocker' = SetBySignal(blocker, t)
           \/ blocker' = SetByDeath(blocker, t) /\ should_die'[t],
           pending' \in [Thread -> SUBSET Signals],
           should_die' \in {should_die, [should_die EXCEPT ![t] = TRUE]},
           UNCHANGED <<timer, timeout, queue, wake_requested, inflight, cpu, pc, smp>>
    PROVE  IInv'
<1>1. RestOK /\ Framed(t) /\ Justified(t) /\ blocker \in [Thread -> BlockerType]
  BY Zenon, StateFacts DEF IInv, RestOK
<1>2. /\ should_die' \in [Thread -> BOOLEAN] /\ (should_die[t] => should_die'[t])
      /\ \A u \in Thread \ {t} : should_die'[u] = should_die[u]
  <2>1. should_die \in [Thread -> BOOLEAN]
    BY Zenon, <1>1 DEF RestOK
  <2> QED
    BY Zenon, <2>1
<1> DEFINE Told(c) ==
        /\ c \in [Thread -> BlockerType]
        /\ \A u \in Thread \ {t} : c[u] = blocker[u]
        /\ c[t].did_unblock = blocker[t].did_unblock
        /\ blocker[t].by_signal => c[t].by_signal
        /\ blocker[t].by_death => c[t].by_death
        /\ c[t].by_death => should_die'[t]
        /\ c[t].by_signal \/ c[t].by_death \/ (Asleep(t)' <=> Asleep(t))
<1>3. Told(blocker')
  <2>1. blocker[t].by_death => should_die'[t]
    BY Zenon, <1>1, <1>2 DEF Justified
  <2>2. CASE blocker' = blocker /\ (Asleep(t)' <=> Asleep(t))
    BY Zenon, <1>1, <2>1, <2>2
  <2>3. CASE blocker' = SetBySignal(blocker, t)
    <3>1. Told(SetBySignal(blocker, t))
      BY Zenon, <1>1, <2>1, SignalSet
    <3> QED
      BY Zenon, <2>3, <3>1
  <2>4. CASE blocker' = SetByDeath(blocker, t) /\ should_die'[t]
    <3>1. Told(SetByDeath(blocker, t))
      BY ZenonT(40), <1>1, <2>4, DeathSet
    <3> QED
      BY Zenon, <2>4, <3>1
  <2> QED
    BY Zenon, <2>2, <2>3, <2>4
<1>4. RestOK'
  BY Zenon, <1>1, <1>2, <1>3 DEF RestOK
<1>5. \A u \in Thread \ {t} : Unmoved(u)
  BY Zenon, <1>2, <1>3 DEF Unmoved
<1>6. Framed(t)'
  BY Zenon, <1>1 DEF Framed, Timed
<1>7. Justified(t)'
  BY Zenon, <1>1, <1>2, <1>3 DEF Justified, Reason
<1> QED
  BY Zenon, <1>4, <1>5, <1>6, <1>7, BlockStep

\* Thread::send_signal
LEMMA SendSignalKeeps ==
    ASSUME IInv, NEW t \in Thread, NEW signal \in Signals, SendSignal(t, signal)
    PROVE  IInv'
<1>1. /\ pending' = [pending EXCEPT ![t] = @ \union {signal}]
      /\ UNCHANGED <<timer, timeout, queue, wake_requested, inflight, cpu, pc,
                     should_die, smp>>
  BY Zenon DEF SendSignal, queueVars
<1>2. pending' \in [Thread -> SUBSET Signals]
  BY Zenon, <1>1, StateFacts DEF RestOK
<1>3. m_blocker \in [Thread -> BOOLEAN] /\ SleepersOK
  BY Zenon, StateFacts DEF RestOK
<1>4. CASE /\ state[t] = "Stopped" /\ LeaveStopped(t, ResumeState(t))
           /\ UNCHANGED <<m_blocker, blocker>>
  <2>1. StateOK' /\ \A u \in Thread : Asleep(u)' <=> Asleep(u)
    BY Zenon, <1>4, ResumeFacts
  <2>2. Asleep(t)' => Asleep(t) /\ m_blocker'[t]
    BY Zenon, <1>3, <1>4, <2>1 DEF SleepersOK
  <2>3. /\ m_blocker' \in [Thread -> BOOLEAN]
        /\ \A u \in Thread \ {t} : m_blocker'[u] = m_blocker[u] /\ (Asleep(u)' <=> Asleep(u))
    BY Zenon, <1>3, <1>4, <2>1
  <2> QED
    BY Zenon, <1>1, <1>2, <1>4, <2>1, <2>2, <2>3, Interrupted
<1>5. CASE blocker' = [blocker EXCEPT ![t].by_signal = TRUE] /\ Unblock(t)
  <2>1. blocker' = SetBySignal(blocker, t)
    BY Zenon, <1>5 DEF SetBySignal
  <2> QED
    BY Zenon, <1>1, <1>2, <1>5, <2>1, UnblockFacts, Interrupted
<1>6. CASE UNCHANGED <<stateVars, m_blocker, blocker>>
  <2>1. UNCHANGED <<stateVars, m_blocker>> /\ (Asleep(t)' <=> Asleep(t))
    BY Zenon, <1>6 DEF stateVars, Asleep
  <2> QED
    BY Zenon, <1>1, <1>2, <1>6, <2>1, UnblockFacts, Interrupted
<1> QED
  BY Zenon, <1>4, <1>5, <1>6 DEF SendSignal

\* Thread::set_should_die
LEMMA SetShouldDieKeeps ==
    ASSUME IInv, NEW k \in Thread, NEW t \in Thread, SetShouldDie(k, t)
    PROVE  IInv'
<1>1. /\ should_die' = [should_die EXCEPT ![t] = TRUE]
      /\ UNCHANGED <<timer, timeout, queue, wake_requested, inflight, cpu, pc, pending, smp>>
  BY Zenon DEF SetShouldDie, queueVars
<1>2. pending' \in [Thread -> SUBSET Signals] /\ should_die'[t]
  BY Zenon, <1>1, StateFacts DEF RestOK
<1>3. CASE blocker' = [blocker EXCEPT ![t].by_death = TRUE] /\ Unblock(t)
  <2>1. blocker' = SetByDeath(blocker, t)
    BY Zenon, <1>3 DEF SetByDeath
  <2> QED
    BY Zenon, <1>1, <1>2, <1>3, <2>1, UnblockFacts, Interrupted
<1>4. CASE UNCHANGED <<stateVars, m_blocker, blocker>>
  <2>1. UNCHANGED <<stateVars, m_blocker>> /\ (Asleep(t)' <=> Asleep(t))
    BY Zenon, <1>4 DEF stateVars, Asleep
  <2> QED
    BY Zenon, <1>1, <1>2, <1>4, <2>1, UnblockFacts, Interrupted
<1> QED
  BY Zenon, <1>3, <1>4 DEF SetShouldDie
\* QueueBlocker::unblock
SetUnblocked(b, set) ==
    [u \in Thread |-> IF u \in set
                      THEN [b[u] EXCEPT !.did_unblock = TRUE, !.is_blocking = FALSE]
                      ELSE b[u]]

\* QueueBlocker::unblock sets did_unblock, resets is_blocking and changes nothing else.
LEMMA UnblockedSet ==
    ASSUME NEW b \in [Thread -> BlockerType], NEW set
    PROVE  LET c == SetUnblocked(b, set)
           IN  /\ c \in [Thread -> BlockerType]
               /\ \A u \in Thread : c[u].by_signal = b[u].by_signal
               /\ \A u \in Thread : c[u].by_death = b[u].by_death
               /\ \A u \in Thread : c[u].timed = b[u].timed
               /\ \A u \in Thread : u \in set => c[u].did_unblock
               /\ \A u \in Thread : u \notin set => c[u] = b[u]
BY Zenon DEF BlockerType, SetUnblocked

\* The wake-ups take blockers from the queue and unblock them.
LEMMA WakeStep ==
    ASSUME IInv, NEW how \in {"direct", "deferred"}, NEW set,
           set \subseteq Range(queue), UnblockBlockers(set, how),
           queue' \in Seq(Thread), Distinct(queue'), Range(queue') \subseteq Range(queue),
           wake_requested' \in BOOLEAN,
           UNCHANGED <<state, stop_state, is_stopped, m_blocker, timer, timeout, cpu, pc,
                       pending, should_die, smp>>
    PROVE  IInv'
<1>1. StateOK /\ RestOK /\ blocker \in [Thread -> BlockerType] /\ Registered
  BY Zenon, StateFacts DEF RestOK, IInv
<1> DEFINE Woken(c) ==
        /\ c \in [Thread -> BlockerType]
        /\ \A u \in Thread : c[u].by_signal = blocker[u].by_signal
        /\ \A u \in Thread : c[u].by_death = blocker[u].by_death
        /\ \A u \in Thread : u \in set => c[u].did_unblock
        /\ \A u \in Thread : u \notin set => c[u] = blocker[u]
<1>2. Woken(blocker')
  <2>1. blocker' = SetUnblocked(blocker, set)
    BY Zenon DEF UnblockBlockers, SetUnblocked
  <2>2. Woken(SetUnblocked(blocker, set))
    BY ZenonT(60), <1>1, UnblockedSet
  <2> QED
    BY Zenon, <2>1, <2>2
<1>3. /\ inflight' \in [Thread -> {"no", "direct", "deferred"}]
      /\ \A u \in Thread : inflight'[u] = inflight[u] \/ u \in set
  <2>1. inflight' = [u \in Thread |-> IF u \in set /\ blocker[u].is_blocking THEN how
                                      ELSE inflight[u]]
    BY Zenon DEF UnblockBlockers
  <2>2. inflight \in [Thread -> {"no", "direct", "deferred"}]
    BY Zenon, <1>1 DEF RestOK
  <2> QED
    BY Zenon, <2>1, <2>2
<1>4. TypeOK'
  <2>1. RestOK'
    BY Zenon, <1>1, <1>2, <1>3 DEF RestOK
  <2>2. StateOK'
    BY Zenon, <1>1 DEF StateOK
  <2> QED
    BY <2>1, <2>2, Types, PTL
<1>5. Registered'
  BY Zenon, <1>1 DEF Registered
<1>6. ASSUME NEW u \in Thread PROVE Framed(u)' /\ Justified(u)'
  <2>1. Framed(u) /\ Justified(u) /\ (u \in set => pc[u] \in InBlock)
    BY Zenon, <1>1 DEF IInv, Registered
  <2>2. /\ blocker'[u].by_signal = blocker[u].by_signal
        /\ blocker'[u].by_death = blocker[u].by_death
        /\ u \in set => blocker'[u].did_unblock
        /\ u \notin set => blocker'[u] = blocker[u]
    BY Zenon, <1>2
  <2>3. Framed(u)'
    BY Zenon, <1>3, <2>1 DEF Framed, Timed
  <2>4. Asleep(u)' <=> Asleep(u)
    BY Zenon DEF Asleep
  <2>5. Justified(u)'
    <3>1. CASE u \in set
      BY Zenon, <1>3, <2>1, <2>2, <2>4, <3>1 DEF Justified, Reason
    <3>2. CASE u \notin set
      BY Zenon, <1>3, <2>1, <2>2, <2>4, <3>2 DEF Justified, Reason
    <3> QED
      BY Zenon, <3>1, <3>2
  <2> QED
    BY Zenon, <2>3, <2>5
<1> QED
  BY Zenon, <1>4, <1>5, <1>6 DEF IInv

\* What wake_one and wake_all do to the queue.
LEMMA WakeQueue ==
    ASSUME IInv
    PROVE  /\ queue # <<>> =>
                /\ Head(queue) \in Range(queue) /\ Tail(queue) \in Seq(Thread)
                /\ Distinct(Tail(queue)) /\ Range(Tail(queue)) = Range(queue) \ {Head(queue)}
           /\ <<>> \in Seq(Thread) /\ Distinct(<<>>) /\ Range(<<>>) = {}
<1>1. queue \in Seq(Thread) /\ Distinct(queue)
  BY Zenon, StateFacts DEF RestOK, IInv, Registered
<1>2. <<>> \in Seq(Thread) /\ Distinct(<<>>) /\ Range(<<>>) = {}
  BY DEF Distinct, Range
<1>3. ASSUME queue # <<>>
      PROVE  /\ Head(queue) \in Range(queue) /\ Tail(queue) \in Seq(Thread)
             /\ Distinct(Tail(queue)) /\ Range(Tail(queue)) = Range(queue) \ {Head(queue)}
  <2>1. /\ 1 \in DOMAIN queue /\ Head(queue) = queue[1]
        /\ Tail(queue) \in Seq(Thread) /\ Len(Tail(queue)) = Len(queue) - 1
        /\ \A k \in DOMAIN Tail(queue) : Tail(queue)[k] = queue[k + 1]
    BY Zenon, <1>1, <1>3, HeadAndTail
  <2> DEFINE r == Tail(queue)
  <2>2. PICK at \in DOMAIN queue :
            Head(queue) = queue[at] /\ r \in Seq(Thread) /\ OneLess(r, queue, at)
    BY <1>1, <2>1 DEF OneLess
  <2> HIDE DEF r
  <2>3. Distinct(r) /\ Range(r) = Range(queue) \ {queue[at]}
    BY Zenon, <1>1, <2>2, Taken
  <2>4. queue[at] \in Range(queue)
    BY Zenon, <2>2 DEF Range
  <2> QED
    BY Zenon, <2>2, <2>3, <2>4 DEF r
<1> QED
  BY Zenon, <1>2, <1>3

\* WaitQueue::wake_one and wake_all
LEMMA WakeKeeps ==
    ASSUME IInv, NEW how \in {"direct", "deferred"}, WakeOne(how) \/ WakeAll(how)
    PROVE  IInv'
<1>1. /\ UNCHANGED <<state, stop_state, is_stopped, m_blocker, timer, timeout, cpu, pc,
                     pending, should_die, smp>>
      /\ wake_requested' \in BOOLEAN
  BY Zenon DEF WakeOne, WakeAll, stateVars
<1>2. CASE WakeOne(how) /\ queue # <<>>
  <2>1. queue' = Tail(queue) /\ UnblockBlockers({Head(queue)}, how)
    BY Zenon, <1>2 DEF WakeOne
  <2>2. /\ Head(queue) \in Range(queue) /\ Tail(queue) \in Seq(Thread)
        /\ Distinct(Tail(queue)) /\ Range(Tail(queue)) \subseteq Range(queue)
    BY Zenon, <1>2, WakeQueue
  <2>3. {Head(queue)} \subseteq Range(queue)
    BY Zenon, <2>2
  <2> QED
    BY Zenon, <1>1, <2>1, <2>2, <2>3, WakeStep
<1>3. CASE WakeOne(how) /\ queue = <<>>
  <2>1. UNCHANGED <<queue, blocker, inflight>>
    BY Zenon, <1>3 DEF WakeOne
  <2>2. StateOK /\ RestOK
    BY Zenon, StateFacts
  <2>3. StateOK' /\ RestOK' /\ \A u \in Thread : Asleep(u)' <=> Asleep(u)
    BY Zenon, <1>1, <2>1, <2>2 DEF StateOK, RestOK, Asleep
  <2>4. TypeOK'
    BY <2>3, Types, PTL
  <2>5. Registered'
    BY Zenon, <1>1, <2>1 DEF IInv, Registered
  <2>6. \A u \in Thread : Framed(u)' /\ Justified(u)'
    BY Zenon, <1>1, <2>1, <2>3, SameThread DEF IInv, Unmoved
  <2> QED
    BY Zenon, <2>4, <2>5, <2>6 DEF IInv
<1>4. CASE WakeAll(how)
  <2>1. queue' = <<>> /\ UnblockBlockers(Range(queue), how)
    BY Zenon, <1>4 DEF WakeAll
  <2>2. queue' \in Seq(Thread) /\ Distinct(queue') /\ Range(queue') \subseteq Range(queue)
    <3>1. <<>> \in Seq(Thread) /\ Distinct(<<>>) /\ Range(<<>>) \subseteq Range(queue)
      BY Zenon, WakeQueue
    <3> QED
      BY Zenon, <2>1, <3>1
  <2> QED
    BY Zenon, <1>1, <2>1, <2>2, WakeStep
<1> QED
  BY Zenon, <1>2, <1>3, <1>4
-----------------------------------------------------------------------------
(* The theorems                                                            *)

\* Nobody is in block() initially.
LEMMA InitInv == Init => IInv
<1> SUFFICES ASSUME Init PROVE IInv
  BY Zenon
<1>1. StateOK
  BY Zenon DEF Init, StateOK, States
<1>2. RestOK
  <2>1. blocker \in [Thread -> BlockerType]
    BY Zenon DEF Init, NoBlocker, BlockerType
  <2>2. timeout \in [Thread -> [unblocked : BOOLEAN, did : BOOLEAN]]
    BY Zenon DEF Init, NoTimeout
  <2>3. queue \in Seq(Thread)
    BY DEF Init
  <2> QED
    BY Zenon, <2>1, <2>2, <2>3 DEF Init, RestOK
<1>3. Registered
  BY DEF Init, Registered, Distinct, Range
<1>4. ASSUME NEW t \in Thread PROVE Framed(t) /\ Justified(t)
  <2>1. /\ state[t] = "Runnable" /\ stop_state[t] = "Invalid" /\ pc[t] = "user"
        /\ timer[t] = "none" /\ inflight[t] = "no" /\ blocker[t].by_death = FALSE
    BY Zenon DEF Init, NoBlocker
  <2> QED
    BY Zenon, <2>1 DEF Framed, Timed, Justified, Asleep
<1> QED
  BY Zenon, <1>1, <1>2, <1>3, <1>4, Types DEF IInv

\* Every step keeps the invariant.
LEMMA NextInv == IInv /\ [Next]_vars => IInv'
<1> SUFFICES ASSUME IInv, [Next]_vars PROVE IInv'
  BY Zenon
<1>1. CASE UNCHANGED vars
  <2>1. UNCHANGED <<state, stop_state, is_stopped, m_blocker, blocker, timer, timeout, queue,
                    wake_requested, inflight, cpu, pc, pending, should_die, smp>>
    BY Zenon, <1>1 DEF vars, stateVars, blockVars, queueVars
  <2>2. StateOK' /\ RestOK' /\ \A u \in Thread : Asleep(u)' <=> Asleep(u)
    BY Zenon, <2>1, StateFacts DEF StateOK, RestOK, Asleep
  <2>3. TypeOK'
    BY <2>2, Types, PTL
  <2>4. Registered'
    BY Zenon, <2>1 DEF IInv, Registered
  <2>5. \A u \in Thread : Framed(u)' /\ Justified(u)'
    BY Zenon, <2>1, <2>2, SameThread DEF IInv, Unmoved
  <2> QED
    BY Zenon, <2>3, <2>4, <2>5 DEF IInv
<1>2. ASSUME NEW t \in Thread, ThreadStep(t) PROVE IInv'
  <2>1. CASE \E timed \in Timeouts : BlockRegister(t, timed)
    BY Zenon, <2>1, BlockRegisterKeeps
  <2>2. CASE \E u \in Thread : SetShouldDie(t, u)
    BY Zenon, <2>2, SetShouldDieKeeps
  <2> QED
    BY Zenon, <1>2, <2>1, <2>2, PreemptKeeps, KernelKeeps, BlockLeaveKeeps,
       BlockBeginKeeps, BlockResumeKeeps, BlockEndKeeps, BlockCancelKeeps DEF ThreadStep
<1>3. ASSUME NEW t \in Thread, \E signal \in Signals : SendSignal(t, signal) PROVE IInv'
  BY Zenon, <1>3, SendSignalKeeps
<1>4. ASSUME NEW how \in {"direct", "deferred"}, WakeOne(how) \/ WakeAll(how) PROVE IInv'
  BY Zenon, <1>4, WakeKeeps
<1> QED
  BY Zenon, <1>1, <1>2, <1>3, <1>4, ScheduleKeeps, UnblockFromBlockerKeeps,
     TimerFireKeeps, TimerCallbackKeeps DEF Next

\* What every reachable state of block() and of what ends it looks like.
THEOREM BlockingInvariant == Spec => []IInv
<1> QED
  BY InitInv, NextInv, PTL DEF Spec

\* Every variable has its type; a stopped thread knows the state to go back to, which
\* is not Running, and its process is stopped.
THEOREM BlockingTypeCorrect == Spec => []TypeOK
<1>1. IInv => TypeOK
  BY Zenon DEF IInv
<1> QED
  BY <1>1, BlockingInvariant, PTL

\* No wait queue, timer or wake-up under the queue's lock refers to a frame of block()
\* that has returned, on one processor and on several.
THEOREM FramesStayAlive == Spec => []FrameAlive
<1>1. IInv => FrameAlive
  BY Zenon DEF IInv, Registered, Framed, Timed, FrameAlive, InBlock, Critical
<1> QED
  BY <1>1, BlockingInvariant, PTL

\* On one processor block() returns the true reason: a waker chose the thread, its timer's
\* callback won, or it has to die.
THEOREM ResultsAreHonest == Spec => []ResultHonest
<1>1. ASSUME IInv PROVE ResultHonest
  <2> SUFFICES ASSUME ~smp, NEW t \in Thread, pc[t] = "woken"
               PROVE  /\ BlockResult(t) = "WokeNormally" => blocker[t].did_unblock
                      /\ BlockResult(t) = "InterruptedByTimeout" => timer[t] = "none"
                      /\ BlockResult(t) = "InterruptedByDeath" => should_die[t]
    BY Zenon DEF ResultHonest
  <2>1. /\ Reason(t, timeout[t].did) /\ (timeout[t].did => timer[t] = "none")
        /\ blocker[t].by_death => should_die[t]
    BY Zenon, <1>1 DEF IInv, Framed, Timed, Justified
  <2> QED
    BY Zenon, <2>1 DEF BlockResult, Reason
<1> QED
  BY <1>1, BlockingInvariant, PTL

\* A thread that is blocked, or was stopped in its sleep, has a blocker and does not execute.
SleepersHaveBlockers == \A t \in Thread : Asleep(t) => m_blocker[t] /\ t \notin cpu

\* Thread::unblock meets the blocker its VERIFY(m_blocker) asks for, whoever calls it for a
\* thread that is blocked or was stopped in its sleep.
THEOREM SleepersCanBeUnblocked == Spec => []SleepersHaveBlockers
<1>1. IInv => SleepersHaveBlockers
  BY Zenon DEF IInv, Justified, SleepersHaveBlockers
<1> QED
  BY <1>1, BlockingInvariant, PTL
-----------------------------------------------------------------------------
(* Wake-ups are not lost, on one processor and without SIGSTOP             *)

NoStopOneProcessor == Builds = {FALSE} /\ "STOP" \notin Signals

\* What a step has to leave a thread it does not concern.
Undisturbed(u) ==
    /\ state'[u] = state[u] /\ pc'[u] = pc[u] /\ m_blocker'[u] = m_blocker[u]
    /\ blocker'[u] = blocker[u] /\ timer'[u] = timer[u] /\ timeout'[u] = timeout[u]
    /\ inflight'[u] = inflight[u]
    /\ u \in cpu => u \in cpu'
    /\ u \in Range(queue) => u \in Range(queue')

\* A step that concerns one thread.
LEMMA OneUnwoken ==
    ASSUME UInv, IInv', NEW t \in Thread, ~is_stopped',
           \A u \in Thread \ {t} : Undisturbed(u), Unwoken(t)'
    PROVE  UInv'
<1>1. ASSUME NEW u \in Thread \ {t} PROVE Unwoken(u)'
  <2>1. Unwoken(u) /\ Undisturbed(u)
    BY Zenon DEF UInv
  <2> QED
    BY Zenon, <2>1 DEF Unwoken, Undisturbed
<1> QED
  BY Zenon, <1>1 DEF UInv

\* A thread that is not blocked, outside block() or executing in it.
LEMMA AwakeUnwoken ==
    ASSUME NEW t \in Thread, state'[t] \notin {"Blocked", "Stopped"},
           pc'[t] \in Critical => t \in cpu', pc'[t] = "registered" => t \in Range(queue')
    PROVE  Unwoken(t)'
BY Zenon DEF Unwoken

\* Nobody is stopped, so set_state changes the state of the thread and nothing else.
LEMMA StateSet ==
    ASSUME NoStopOneProcessor, UInv, NEW t \in Thread, NEW new \in States \ {"Stopped"},
           SetState(t, new) \/ DispatchOne(t, new)
    PROVE  /\ ~is_stopped' /\ state'[t] = new
           /\ \A u \in Thread \ {t} : state'[u] = state[u]
<1>1. StateOK /\ TypeOK /\ ~is_stopped /\ \A u \in Thread : state[u] # "Stopped"
  BY Zenon, StateFacts DEF UInv, IInv, Unwoken
<1>2. SetState(t, new)
  <2>1. CASE DispatchOne(t, new)
    <3>1. PICK n \in {new, "Stopped"} : SetState(t, n) /\ ("STOP" \notin Signals => n = new)
      BY <1>1, <2>1, DispatchFacts
    <3> QED
      BY Zenon, <3>1 DEF NoStopOneProcessor
  <2> QED
    BY Zenon, <2>1
<1>3. state' = [state EXCEPT ![t] = new] /\ UNCHANGED <<stop_state, is_stopped>>
  BY Zenon, <1>1, <1>2, SetStateUnstopped
<1> QED
  BY Zenon, <1>1, <1>3 DEF StateOK

\* What the proofs below use of UInv.
LEMMA UnwokenFacts ==
    ASSUME NoStopOneProcessor, UInv, NEW t \in Thread
    PROVE  /\ IInv /\ RestOK /\ ~is_stopped /\ Unwoken(t) /\ ~smp
           /\ state[t] \in States \ {"Stopped"}
           /\ t \in cpu => state[t] # "Blocked"
<1>1. IInv /\ StateOK /\ RestOK /\ ~is_stopped /\ Unwoken(t)
  BY Zenon, StateFacts DEF UInv
<1>2. ~smp
  BY Zenon, <1>1 DEF RestOK, NoStopOneProcessor
<1>3. t \in cpu => state[t] # "Blocked"
  BY Zenon, <1>1, Awake DEF Asleep
<1> QED
  BY Zenon, <1>1, <1>2, <1>3 DEF StateOK, Unwoken

\* The state of the thread is set, or it moves from label to label.
LEMMA MoveUnwoken ==
    ASSUME NoStopOneProcessor, UInv, IInv', NEW t \in Thread,
           ~is_stopped', \A u \in Thread \ {t} : state'[u] = state[u],
           state'[t] \notin {"Blocked", "Stopped"},
           cpu \ {t} \subseteq cpu', Range(queue) \ {t} \subseteq Range(queue'),
           \/ UNCHANGED pc /\ (t \in cpu => t \in cpu' \/ pc[t] \notin Critical)
                           /\ (t \in Range(queue) => t \in Range(queue'))
           \/ \E l : /\ pc' = [pc EXCEPT ![t] = l]
                     /\ l \in Critical => t \in cpu'
                     /\ l = "registered" => t \in Range(queue'),
           \A u \in Thread \ {t} :
                /\ m_blocker'[u] = m_blocker[u] /\ blocker'[u] = blocker[u]
                /\ timer'[u] = timer[u] /\ timeout'[u] = timeout[u]
                /\ inflight'[u] = inflight[u]
    PROVE  UInv'
<1>1. Unwoken(t) /\ pc \in [Thread -> {"user", "kernel", "leaving", "exiting"} \union InBlock]
  BY Zenon, UnwokenFacts DEF RestOK
<1>2. /\ \A u \in Thread \ {t} : pc'[u] = pc[u]
      /\ pc'[t] \in Critical => t \in cpu'
      /\ pc'[t] = "registered" => t \in Range(queue')
  <2>1. CASE /\ UNCHANGED pc /\ (t \in cpu => t \in cpu' \/ pc[t] \notin Critical)
             /\ (t \in Range(queue) => t \in Range(queue'))
    BY Zenon, <1>1, <2>1 DEF Unwoken
  <2>2. CASE \E l : /\ pc' = [pc EXCEPT ![t] = l]
                    /\ l \in Critical => t \in cpu'
                    /\ l = "registered" => t \in Range(queue')
    <3>1. PICK l : /\ pc' = [pc EXCEPT ![t] = l]
                   /\ l \in Critical => t \in cpu'
                   /\ l = "registered" => t \in Range(queue')
      BY Zenon, <2>2
    <3>2. pc'[t] = l /\ \A u \in Thread \ {t} : pc'[u] = pc[u]
      BY Zenon, <1>1, <3>1
    <3> QED
      BY Zenon, <3>1, <3>2
  <2> QED
    BY Zenon, <2>1, <2>2
<1>3. Unwoken(t)'
  BY Zenon, <1>2, AwakeUnwoken
<1>4. \A u \in Thread \ {t} : Undisturbed(u)
  BY Zenon, <1>2 DEF Undisturbed
<1> QED
  BY Zenon, <1>3, <1>4, OneUnwoken
\* The steps outside block().
LEMMA OutsideUnwoken ==
    ASSUME NoStopOneProcessor, UInv, IInv', NEW t \in Thread,
           \/ Schedule(t) \/ Preempt(t) \/ EnterKernel(t) \/ LeaveKernel(t)
           \/ ReturnToUser(t) \/ BlockRefused(t)
    PROVE  UInv'
<1>1. /\ RestOK /\ ~is_stopped /\ Unwoken(t) /\ state[t] \in States \ {"Stopped"}
      /\ t \in cpu => state[t] # "Blocked"
      /\ {"Running", "Runnable", "Dying"} \subseteq States \ {"Stopped"}
  BY Zenon, UnwokenFacts DEF States
<1>2. UNCHANGED <<m_blocker, blocker, timer, timeout, queue, inflight>>
  BY Zenon DEF Schedule, Preempt, EnterKernel, LeaveKernel, ReturnToUser, BlockRefused,
         blockVars, queueVars
<1>3. CASE Schedule(t)
  <2>1. SetState(t, "Running") \/ DispatchOne(t, "Running")
    BY Zenon, <1>3 DEF Schedule
  <2>2. /\ ~is_stopped' /\ state'[t] = "Running"
        /\ \A u \in Thread \ {t} : state'[u] = state[u]
    BY Zenon, <1>1, <2>1, StateSet
  <2>3. cpu' = cpu \union {t} /\ UNCHANGED pc
    BY Zenon, <1>3 DEF Schedule
  <2>4. cpu \ {t} \subseteq cpu' /\ t \in cpu'
    BY Zenon, <2>3
  <2> QED
    BY Zenon, <1>2, <2>2, <2>3, <2>4, MoveUnwoken
<1>4. CASE Preempt(t)
  <2>1. cpu' = cpu \ {t} /\ UNCHANGED pc /\ t \in cpu /\ pc[t] \notin Critical
    BY Zenon, <1>4 DEF Preempt
  <2>2. /\ ~is_stopped' /\ state'[t] \notin {"Blocked", "Stopped"}
        /\ \A u \in Thread \ {t} : state'[u] = state[u]
    <3>1. CASE state[t] # "Running"
      BY Zenon, <1>1, <1>4, <2>1, <3>1 DEF Preempt, stateVars
    <3>2. CASE state[t] = "Running"
      <4>1. PICK new \in {"Runnable", "Dying"} : SetState(t, new)
        BY Zenon, <1>4, <3>2 DEF Preempt
      <4> QED
        BY Zenon, <1>1, <4>1, StateSet
    <3> QED
      BY Zenon, <3>1, <3>2
  <2> QED
    BY Zenon, <1>2, <2>1, <2>2, MoveUnwoken
<1>5. CASE EnterKernel(t) \/ ReturnToUser(t)
  <2>1. /\ UNCHANGED <<state, is_stopped, cpu>> /\ t \in cpu
        /\ \E l \in {"kernel", "exiting", "user"} : pc' = [pc EXCEPT ![t] = l]
    BY Zenon, <1>5 DEF EnterKernel, ReturnToUser, Runs, Goto, stateVars
  <2>2. PICK l \in {"kernel", "exiting", "user"} : pc' = [pc EXCEPT ![t] = l]
    BY Zenon, <2>1
  <2>3. l \notin Critical /\ l # "registered" /\ cpu \ {t} \subseteq cpu'
    BY Zenon, <2>1, <2>2 DEF Critical
  <2>4. ~is_stopped' /\ state'[t] \notin {"Blocked", "Stopped"}
    BY Zenon, <1>1, <2>1
  <2> QED
    BY Zenon, <1>2, <2>1, <2>2, <2>3, <2>4, MoveUnwoken
<1>6. CASE LeaveKernel(t)
  <2>1. DispatchOne(t, "Running") /\ pc' = [pc EXCEPT ![t] = "leaving"]
    BY Zenon, <1>6 DEF LeaveKernel, Goto
  <2>2. /\ ~is_stopped' /\ state'[t] = "Running"
        /\ \A u \in Thread \ {t} : state'[u] = state[u]
    BY Zenon, <1>1, <2>1, StateSet
  <2>3. /\ cpu \ {t} \subseteq cpu' /\ "leaving" \notin Critical /\ "leaving" # "registered"
        /\ state'[t] \notin {"Blocked", "Stopped"}
    BY Zenon, <1>6, <2>2 DEF LeaveKernel, Critical
  <2> QED
    BY Zenon, <1>2, <2>1, <2>2, <2>3, MoveUnwoken
<1>7. CASE BlockRefused(t)
  <2>1. UNCHANGED <<state, is_stopped, cpu, pc>> /\ t \in cpu
    BY Zenon, <1>7 DEF BlockRefused, Runs, stateVars
  <2>2. ~is_stopped' /\ state'[t] \notin {"Blocked", "Stopped"} /\ cpu \ {t} \subseteq cpu'
    BY Zenon, <1>1, <2>1
  <2> QED
    BY Zenon, <1>2, <2>1, <2>2, MoveUnwoken
<1> QED
  BY Zenon, <1>3, <1>4, <1>5, <1>6, <1>7

\* The steps in block() that leave the thread awake.
LEMMA InsideUnwoken ==
    ASSUME NoStopOneProcessor, UInv, IInv', NEW t \in Thread,
           \/ \E timed \in Timeouts : BlockRegister(t, timed)
           \/ BlockExpired(t) \/ BlockResume(t) \/ BlockEnd(t)
           \/ BlockCancel(t) \/ BlockReturn(t)
    PROVE  UInv'
<1>1. /\ RestOK /\ ~is_stopped /\ Unwoken(t) /\ state[t] \in States \ {"Stopped"}
      /\ t \in cpu /\ state[t] # "Blocked" /\ UNCHANGED <<cpu, inflight>>
      /\ Distinct(queue) /\ queue \in Seq(Thread)
  BY Zenon, UnwokenFacts DEF BlockRegister, BlockExpired, BlockResume, BlockEnd,
         BlockCancel, BlockReturn, Runs, queueVars, IInv, Registered, RestOK
<1>2. /\ ~is_stopped' /\ state'[t] = state[t]
      /\ \A u \in Thread \ {t} : state'[u] = state[u]
  <2>1. CASE BlockEnd(t) /\ DispatchOne(t, state[t])
    BY Zenon, <1>1, <2>1, StateSet
  <2>2. CASE UNCHANGED stateVars
    BY Zenon, <1>1, <2>2 DEF stateVars
  <2> QED
    BY Zenon, <2>1, <2>2 DEF BlockRegister, BlockExpired, BlockResume, BlockEnd,
         BlockCancel, BlockReturn
<1>3. cpu \ {t} \subseteq cpu' /\ t \in cpu' /\ state'[t] \notin {"Blocked", "Stopped"}
  BY Zenon, <1>1, <1>2
<1>4. PICK l : /\ pc' = [pc EXCEPT ![t] = l]
               /\ l = "registered" => \E timed \in Timeouts : BlockRegister(t, timed)
  <2>1. CASE \E timed \in Timeouts : BlockRegister(t, timed)
    <3>1. pc' = [pc EXCEPT ![t] = "registered"]
      BY Zenon, <2>1 DEF BlockRegister, Goto
    <3> QED
      BY Zenon, <2>1, <3>1
  <2>2. CASE BlockExpired(t) \/ BlockResume(t) \/ BlockEnd(t) \/ BlockCancel(t)
             \/ BlockReturn(t)
    <3>1. PICK l \in {"kernel", "woken", "ended", "relocking"} : pc' = [pc EXCEPT ![t] = l]
      BY Zenon, <2>2 DEF BlockExpired, BlockResume, BlockEnd,
         BlockCancel, BlockReturn, Goto
    <3>2. l # "registered"
      BY Zenon
    <3> QED
      BY Zenon, <3>1, <3>2
  <2> QED
    BY Zenon, <2>1, <2>2
<1>5. Range(queue) \ {t} \subseteq Range(queue') /\ (l = "registered" => t \in Range(queue'))
  <2>1. CASE \E timed \in Timeouts : BlockRegister(t, timed)
    <3>1. queue' = Append(queue, t)
      BY Zenon, <2>1 DEF BlockRegister
    <3>2. Range(Append(queue, t)) = Range(queue) \union {t}
      <4>1. queue \in Seq(Thread)
        BY Zenon, <1>1
      <4> QED
        BY <4>1, Appended
    <3> QED
      BY Zenon, <3>1, <3>2
  <2>2. CASE UNCHANGED queue /\ l # "registered"
    BY Zenon, <2>2
  <2>3. CASE RemoveBlocker(t) /\ l # "registered"
    BY Zenon, <1>1, <2>3, RemoveFacts
  <2> QED
    BY Zenon, <1>4, <2>1, <2>2, <2>3 DEF BlockExpired, BlockResume, BlockEnd,
         BlockCancel, BlockReturn, queueVars
<1>6. \A u \in Thread \ {t} :
                /\ m_blocker'[u] = m_blocker[u]
                /\ timer'[u] = timer[u] /\ timeout'[u] = timeout[u]
  BY Zenon, <1>1 DEF RestOK, BlockRegister, BlockExpired, BlockResume, BlockEnd,
         BlockCancel, BlockReturn
<1>7. \A u \in Thread \ {t} : blocker'[u] = blocker[u]
  <2>1. blocker \in [Thread -> BlockerType]
    BY Zenon, <1>1 DEF RestOK
  <2>2. \/ blocker' = blocker \/ (\E r : blocker' = [blocker EXCEPT ![t] = r])
        \/ blocker' = SetBlocking(blocker, t, FALSE)
    BY Zenon DEF BlockRegister, BlockExpired, BlockResume, BlockEnd,
         BlockCancel, BlockReturn, SetBlocking
  <2>3. CASE blocker' = blocker \/ (\E r : blocker' = [blocker EXCEPT ![t] = r])
    BY Zenon, <2>1, <2>3
  <2>4. CASE blocker' = SetBlocking(blocker, t, FALSE)
    <3>1. \A u \in Thread \ {t} : SetBlocking(blocker, t, FALSE)[u] = blocker[u]
      BY Zenon, <2>1, BlockingSet
    <3> QED
      BY Zenon, <2>4, <3>1
  <2> QED
    BY Zenon, <2>2, <2>3, <2>4
<1> QED
  BY Zenon, <1>1, <1>2, <1>3, <1>4, <1>5, <1>6, <1>7, MoveUnwoken

\* begin_blocking and set_state(Blocked): the blocker is in the queue.
LEMMA BlockBeginUnwoken ==
    ASSUME NoStopOneProcessor, UInv, IInv', NEW t \in Thread, BlockBegin(t)
    PROVE  UInv'
<1>1. /\ pc[t] = "registered" /\ SetState(t, "Blocked")
      /\ m_blocker' = [m_blocker EXCEPT ![t] = TRUE]
      /\ timer' = IF blocker[t].timed THEN [timer EXCEPT ![t] = "queued"] ELSE timer
      /\ cpu' = cpu \ {t} /\ pc' = [pc EXCEPT ![t] = "blocked"]
      /\ UNCHANGED <<timeout, queue, inflight>>
  BY Zenon DEF BlockBegin, Runs, Goto, queueVars
<1>2. RestOK /\ Unwoken(t) /\ Framed(t) /\ "Blocked" \in States \ {"Stopped"}
  BY Zenon, UnwokenFacts DEF States, IInv
<1>3. /\ ~is_stopped' /\ state'[t] = "Blocked"
      /\ \A u \in Thread \ {t} : state'[u] = state[u]
  BY Zenon, <1>1, <1>2, StateSet
<1>4. /\ pc'[t] = "blocked" /\ m_blocker'[t] /\ (blocker[t].timed => timer'[t] = "queued")
      /\ \A u \in Thread \ {t} : /\ pc'[u] = pc[u] /\ m_blocker'[u] = m_blocker[u]
                                 /\ timer'[u] = timer[u] /\ (u \in cpu => u \in cpu')
  BY Zenon, <1>1, <1>2 DEF RestOK
<1> DEFINE Begun(c) ==
        /\ c[t].is_blocking /\ c[t].timed = blocker[t].timed
        /\ \A u \in Thread \ {t} : c[u] = blocker[u]
<1>5. Begun(blocker')
  <2>1. blocker \in [Thread -> BlockerType] /\ TRUE \in BOOLEAN
    BY Zenon, <1>2 DEF RestOK
  <2>2. blocker' = SetBlocking(blocker, t, TRUE)
    BY Zenon DEF BlockBegin, SetBlocking
  <2>3. Begun(SetBlocking(blocker, t, TRUE))
    BY Zenon, <2>1, BlockingSet
  <2> QED
    BY Zenon, <2>2, <2>3
<1>6. t \in Range(queue) /\ ~timeout[t].unblocked
  BY Zenon, <1>1, <1>2 DEF Unwoken, Framed, Timed
<1>7. Unwoken(t)'
  BY Zenon, <1>1, <1>3, <1>4, <1>5, <1>6 DEF Unwoken, Critical
<1>8. \A u \in Thread \ {t} : Undisturbed(u)
  BY Zenon, <1>1, <1>3, <1>4, <1>5 DEF Undisturbed
<1> QED
  BY Zenon, <1>3, <1>7, <1>8, OneUnwoken

\* Thread::unblock for a thread that is blocked, or nothing for one that is not.
LEMMA UnblockUnwoken ==
    ASSUME NoStopOneProcessor, UInv, IInv', NEW t \in Thread,
           \/ Unblock(t)
           \/ state[t] # "Blocked" /\ UNCHANGED <<stateVars, m_blocker>>,
           \A u \in Thread \ {t} :
                /\ blocker'[u] = blocker[u] /\ timer'[u] = timer[u]
                /\ timeout'[u] = timeout[u] /\ inflight'[u] = inflight[u],
           UNCHANGED <<cpu, pc, queue>>
    PROVE  UInv'
<1>1. /\ ~is_stopped /\ state[t] \in States \ {"Stopped"} /\ m_blocker \in [Thread -> BOOLEAN]
      /\ "Runnable" \in States \ {"Stopped"}
  BY Zenon, UnwokenFacts DEF States, RestOK
<1>2. /\ ~is_stopped' /\ state'[t] \notin {"Blocked", "Stopped"}
      /\ \A u \in Thread \ {t} : state'[u] = state[u] /\ m_blocker'[u] = m_blocker[u]
  <2>1. CASE Unblock(t)
    <3>1. SetState(t, "Runnable") /\ m_blocker' = [m_blocker EXCEPT ![t] = FALSE]
      BY Zenon, <2>1 DEF Unblock
    <3>2. /\ ~is_stopped' /\ state'[t] = "Runnable"
          /\ \A u \in Thread \ {t} : state'[u] = state[u]
      BY Zenon, <1>1, <3>1, StateSet
    <3> QED
      BY Zenon, <1>1, <3>1, <3>2
  <2>2. CASE state[t] # "Blocked" /\ UNCHANGED <<stateVars, m_blocker>>
    BY Zenon, <1>1, <2>2 DEF stateVars
  <2> QED
    BY Zenon, <2>1, <2>2
<1>3. cpu \ {t} \subseteq cpu' /\ Range(queue) \ {t} \subseteq Range(queue')
  BY Zenon
<1> QED
  BY Zenon, <1>2, <1>3, MoveUnwoken

\* The calls that may unblock a thread.
LEMMA EndsUnwoken ==
    ASSUME NoStopOneProcessor, UInv, IInv', NEW t \in Thread,
           \/ UnblockFromBlocker(t) \/ TimerCallback(t)
           \/ \E signal \in Signals : SendSignal(t, signal)
           \/ \E k \in Thread : SetShouldDie(k, t)
    PROVE  UInv'
<1>1. RestOK /\ ~is_stopped /\ Unwoken(t) /\ blocker \in [Thread -> BlockerType]
  BY Zenon, UnwokenFacts DEF RestOK
<1>2. UNCHANGED <<cpu, pc, queue>>
  BY Zenon DEF UnblockFromBlocker, TimerCallback, SendSignal, SetShouldDie, queueVars
<1>3. \/ Unblock(t)
      \/ state[t] # "Blocked" /\ UNCHANGED <<stateVars, m_blocker>>
  <2>1. /\ state[t] = "Blocked" => m_blocker[t] /\ ~timeout[t].unblocked
        /\ state[t] # "Stopped"
    BY Zenon, <1>1 DEF Unwoken
  <2>2. CASE UnblockFromBlocker(t)
    BY Zenon, <1>1, <2>1, <2>2 DEF UnblockFromBlocker
  <2>3. CASE TimerCallback(t)
    BY Zenon, <2>1, <2>3 DEF TimerCallback
  <2>4. CASE \E signal \in Signals : SendSignal(t, signal)
    BY Zenon, <2>1, <2>4 DEF SendSignal
  <2>5. CASE \E k \in Thread : SetShouldDie(k, t)
    BY Zenon, <2>1, <2>5 DEF SetShouldDie
  <2> QED
    BY Zenon, <2>2, <2>3, <2>4, <2>5
<1>4. \A u \in Thread \ {t} : timer'[u] = timer[u] /\ inflight'[u] = inflight[u]
  <2>1. timer' \in {timer, [timer EXCEPT ![t] = "none"]}
    BY Zenon DEF UnblockFromBlocker, TimerCallback, SendSignal, SetShouldDie
  <2>2. inflight' \in {inflight, [inflight EXCEPT ![t] = "no"]}
    BY Zenon DEF UnblockFromBlocker, TimerCallback, SendSignal, SetShouldDie, queueVars
  <2> QED
    BY Zenon, <1>1, <2>1, <2>2 DEF RestOK
<1>5. \A u \in Thread \ {t} : timeout'[u] = timeout[u]
  <2>1. timeout' \in {timeout, [timeout EXCEPT ![t].unblocked = TRUE]}
    BY Zenon DEF UnblockFromBlocker, TimerCallback, SendSignal, SetShouldDie
  <2>2. timeout \in [Thread -> [unblocked : BOOLEAN, did : BOOLEAN]]
    BY Zenon, <1>1 DEF RestOK
  <2> QED
    BY ONLY <2>1, <2>2, t \in Thread
<1>6. \A u \in Thread \ {t} : blocker'[u] = blocker[u]
  <2>1. \/ blocker' = blocker
        \/ blocker' = SetBySignal(blocker, t) \/ blocker' = SetByDeath(blocker, t)
    BY Zenon DEF UnblockFromBlocker, TimerCallback, SendSignal, SetShouldDie,
                 SetBySignal, SetByDeath
  <2>2. /\ \A u \in Thread \ {t} : SetBySignal(blocker, t)[u] = blocker[u]
        /\ \A u \in Thread \ {t} : SetByDeath(blocker, t)[u] = blocker[u]
    BY Zenon, <1>1, SignalSet, DeathSet
  <2> QED
    BY Zenon, <2>1, <2>2
<1> QED
  BY Zenon, <1>2, <1>3, <1>4, <1>5, <1>6, UnblockUnwoken

\* TimerQueue::fire
LEMMA TimerFireUnwoken ==
    ASSUME NoStopOneProcessor, UInv, IInv', NEW t \in Thread, TimerFire(t)
    PROVE  UInv'
<1>1. /\ timer' = [timer EXCEPT ![t] = "firing"]
      /\ UNCHANGED <<state, is_stopped, m_blocker, blocker, timeout, queue, inflight, cpu, pc>>
  BY Zenon DEF TimerFire, stateVars, queueVars
<1>2. ~is_stopped /\ Unwoken(t) /\ timer \in [Thread -> {"none", "queued", "firing"}]
  BY Zenon, UnwokenFacts DEF RestOK
<1>3. timer'[t] # "none" /\ \A u \in Thread \ {t} : timer'[u] = timer[u]
  BY Zenon, <1>1, <1>2
<1>4. Unwoken(t)'
  BY Zenon, <1>1, <1>2, <1>3 DEF Unwoken
<1>5. \A u \in Thread \ {t} : Undisturbed(u)
  BY Zenon, <1>1, <1>3 DEF Undisturbed
<1> QED
  BY Zenon, <1>1, <1>2, <1>4, <1>5, OneUnwoken
\* WaitQueue::wake_one and wake_all: a blocked thread they take from the queue is blocking, so
\* that the call that unblocks it is made.
LEMMA WakeUnwoken ==
    ASSUME NoStopOneProcessor, UInv, IInv', NEW how \in {"direct", "deferred"},
           WakeOne(how) \/ WakeAll(how)
    PROVE  UInv'
<1>1. /\ UNCHANGED <<state, is_stopped, m_blocker, timer, timeout, cpu, pc>> /\ Interrupt
      /\ ~is_stopped /\ IInv
  BY Zenon DEF WakeOne, WakeAll, stateVars, UInv
<1>2. PICK set : /\ set \subseteq Range(queue) /\ Range(queue) \ set \subseteq Range(queue')
                 /\ UnblockBlockers(set, how) \/ (set = {} /\ UNCHANGED <<blocker, inflight>>)
  <2>1. CASE WakeOne(how) /\ queue # <<>>
    <3>1. queue' = Tail(queue) /\ UnblockBlockers({Head(queue)}, how)
      BY Zenon, <2>1 DEF WakeOne
    <3>2. /\ Head(queue) \in Range(queue)
          /\ Range(Tail(queue)) = Range(queue) \ {Head(queue)}
      BY Zenon, <1>1, <2>1, WakeQueue
    <3>3. {Head(queue)} \subseteq Range(queue)
      BY Zenon, <3>2
    <3>4. Range(queue) \ {Head(queue)} \subseteq Range(queue')
      BY Zenon, <3>1, <3>2
    <3> QED
      BY Zenon, <3>1, <3>3, <3>4
  <2>2. CASE WakeOne(how) /\ queue = <<>>
    <3>1. UNCHANGED <<queue, blocker, inflight>>
      BY Zenon, <2>2 DEF WakeOne
    <3>2. {} \subseteq Range(queue) /\ Range(queue) \ {} \subseteq Range(queue')
      BY Zenon, <3>1
    <3> QED
      BY Zenon, <3>1, <3>2
  <2>3. CASE WakeAll(how)
    <3>1. UnblockBlockers(Range(queue), how)
      BY Zenon, <2>3 DEF WakeAll
    <3> QED
      BY Zenon, <3>1
  <2> QED
    BY Zenon, <2>1, <2>2, <2>3
<1> DEFINE Woken(c) ==
        /\ \A u \in Thread : c[u].timed = blocker[u].timed
        /\ \A u \in Thread : u \notin set => c[u] = blocker[u]
<1>3. Woken(blocker')
  <2>1. CASE UnblockBlockers(set, how)
    <3>1. blocker' = SetUnblocked(blocker, set)
      BY Zenon, <2>1 DEF UnblockBlockers, SetUnblocked
    <3>2. blocker \in [Thread -> BlockerType]
      BY Zenon, <1>1, StateFacts DEF RestOK
    <3>3. Woken(SetUnblocked(blocker, set))
      BY ZenonT(60), <3>2, UnblockedSet
    <3> QED
      BY Zenon, <3>1, <3>3
  <2>2. CASE UNCHANGED blocker
    BY Zenon, <2>2
  <2> QED
    BY Zenon, <1>2, <2>1, <2>2
<1>4. ASSUME NEW u \in Thread
      PROVE  inflight'[u] = IF u \in set /\ blocker[u].is_blocking THEN how ELSE inflight[u]
  BY Zenon, <1>2 DEF UnblockBlockers
<1>5. ASSUME NEW u \in Thread PROVE Unwoken(u)'
  <2>1. Unwoken(u) /\ ~smp
    BY Zenon, UnwokenFacts
  <2>2. inflight[u] = "no" /\ pc[u] # "registered"
    <3>1. Sections = {}
      BY Zenon, <1>1, <2>1 DEF Interrupt
    <3>2. ASSUME inflight[u] # "no" PROVE FALSE
      <4>1. <<"wake">> \in Sections
        BY Zenon, <3>2 DEF Sections
      <4> QED
        BY Zenon, <3>1, <4>1
    <3>3. ASSUME pc[u] = "registered" PROVE FALSE
      <4>1. u \in cpu /\ pc[u] \in Critical
        BY Zenon, <2>1, <3>3 DEF Unwoken, Critical
      <4>2. <<"thread", u>> \in Sections
        BY Zenon, <4>1 DEF Sections
      <4> QED
        BY Zenon, <3>1, <4>2
    <3> QED
      BY Zenon, <3>2, <3>3
  <2>3. blocker'[u].timed = blocker[u].timed /\ (u \notin set => blocker'[u] = blocker[u])
    BY Zenon, <1>3
  <2>4. how # "no"
    BY Zenon
  <2>5. state[u] = "Blocked" /\ inflight'[u] = "no" =>
            blocker'[u].is_blocking /\ u \in Range(queue')
    BY Zenon, <1>2, <1>4, <2>1, <2>2, <2>3, <2>4 DEF Unwoken
  <2> QED
    BY Zenon, <1>1, <2>1, <2>2, <2>3, <2>5 DEF Unwoken
<1> QED
  BY Zenon, <1>1, <1>5 DEF UInv

\* Every step keeps the invariant of one processor without SIGSTOP.
LEMMA NextUnwoken ==
    ASSUME NoStopOneProcessor, UInv, [Next]_vars
    PROVE  UInv'
<1>1. IInv'
  BY Zenon, NextInv DEF UInv
<1>2. CASE UNCHANGED vars
  <2>1. UNCHANGED <<state, is_stopped, m_blocker, blocker, timer, timeout, queue,
                    inflight, cpu, pc>>
    BY Zenon, <1>2 DEF vars, stateVars, blockVars, queueVars
  <2> QED
    BY Zenon, <1>1, <2>1 DEF UInv, Unwoken
<1>3. ASSUME NEW t \in Thread, ThreadStep(t) PROVE UInv'
  <2>1. CASE \E u \in Thread : SetShouldDie(t, u)
    BY Zenon, <1>1, <2>1, EndsUnwoken
  <2> QED
    BY Zenon, <1>1, <1>3, <2>1, OutsideUnwoken, InsideUnwoken, BlockBeginUnwoken
       DEF ThreadStep
<1>4. ASSUME NEW t \in Thread,
             \/ Schedule(t) \/ UnblockFromBlocker(t) \/ TimerFire(t) \/ TimerCallback(t)
             \/ \E signal \in Signals : SendSignal(t, signal)
      PROVE  UInv'
  BY Zenon, <1>1, <1>4, OutsideUnwoken, EndsUnwoken, TimerFireUnwoken
<1>5. ASSUME NEW how \in {"direct", "deferred"}, WakeOne(how) \/ WakeAll(how) PROVE UInv'
  BY Zenon, <1>1, <1>5, WakeUnwoken
<1> QED
  BY Zenon, <1>2, <1>3, <1>4, <1>5 DEF Next

\* On one processor, and when nobody is stopped, a wake-up is not lost between the
\* registration of a blocker and its sleep: a thread that is blocked, and that no wake-up
\* under way is about to unblock, is still in the wait queue and its timer still runs.
THEOREM SleepersAreUnwoken ==
    ASSUME NoStopOneProcessor
    PROVE  Spec => []BlockedUnwoken
<1>1. Init => UInv
  <2> SUFFICES ASSUME Init PROVE UInv
    BY Zenon
  <2>1. ASSUME NEW t \in Thread PROVE Unwoken(t)
    <3>1. state[t] = "Runnable" /\ pc[t] = "user"
      BY Zenon DEF Init
    <3> QED
      BY Zenon, <3>1 DEF Unwoken, Critical
  <2>2. ~is_stopped
    BY Zenon DEF Init
  <2> QED
    BY Zenon, <2>1, <2>2, InitInv DEF UInv
<1>2. UInv /\ [Next]_vars => UInv'
  BY Zenon, NextUnwoken
<1>3. UInv => BlockedUnwoken
  BY Zenon DEF UInv, Unwoken, BlockedUnwoken
<1> QED
  BY <1>1, <1>2, <1>3, PTL DEF Spec
=============================================================================
