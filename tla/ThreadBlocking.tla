--------------------------- MODULE ThreadBlocking ---------------------------
(***************************************************************************)
(* Thread::block and everything that may end it (Kernel/Thread.h,          *)
(* Thread.cpp, ThreadBlockers.cpp): wait queue wake-ups, timeouts,         *)
(* signals, job control and the death of the thread, for the threads of    *)
(* one process that wait on one WaitQueue.                                 *)
(*                                                                         *)
(* Granularity.  A step is one section under g_scheduler_lock, m_block_lock*)
(* or the queue's spin lock.  With one scheduling processor (~smp, the     *)
(* default build) such a section, and every ScopedCritical around          *)
(* several of them, runs with interrupts disabled: nobody else moves until *)
(* it ends, which May() expresses.  Deferred calls run in leave_critical   *)
(* before an interrupt returns, so they too exclude everybody else.        *)
(*                                                                         *)
(* The blockers are QueueBlockers: can_be_interrupted() is true.  Signal   *)
(* masks and tracers are left out, and the process is a user process.      *)
(***************************************************************************)
EXTENDS Integers, Sequences, FiniteSets, Functions

CONSTANTS
    Thread,     \* the threads of the process
    Builds,     \* the values of SCHEDULE_ON_ALL_PROCESSORS considered
    Signals,    \* the signals that are sent, of {"USR1", "CONT", "STOP"}
    Timeouts,   \* the kinds of BlockTimeout callers pass: TRUE is finite
    Killing,    \* bound: the builds in which the process is killed or execs
    MaxPending  \* bound on the signals pending for a thread, for each build

ASSUME BlockingAssumption ==
    /\ Builds \subseteq BOOLEAN
    /\ Signals \subseteq {"USR1", "CONT", "STOP"}
    /\ Timeouts \subseteq BOOLEAN
    /\ Killing \subseteq Builds
    /\ MaxPending \in [BOOLEAN -> Nat]

VARIABLES
    state,          \* m_state
    stop_state,     \* m_stop_state
    is_stopped,     \* Process::m_is_stopped
    cpu,            \* the threads that are executing
    pc,             \* where each thread is
    m_blocker,      \* m_blocker != nullptr
    blocker,        \* the Blocker on the thread's stack while it is in block()
    timer,          \* the Timer that block() added: "none", "queued", "firing"
    timeout,        \* block()'s timeout_unblocked and did_timeout
    queue,          \* WaitQueue::m_blockers
    wake_requested, \* WaitQueue::m_wake_requested
    inflight,       \* Thread::unblock_from_blocker calls under way
    pending,        \* m_pending_signals
    should_die,     \* m_should_die
    smp             \* several processors schedule threads

stateVars == <<state, stop_state, is_stopped>>
blockVars == <<m_blocker, blocker, timer, timeout>>
queueVars == <<queue, wake_requested, inflight>>
vars == <<stateVars, blockVars, queueVars, cpu, pc, pending, should_die, smp>>

NoBlocker == [is_blocking |-> FALSE, did_unblock |-> FALSE,
              by_signal |-> FALSE, by_death |-> FALSE, timed |-> FALSE]
NoTimeout == [unblocked |-> FALSE, did |-> FALSE]

Init ==
    /\ state = [t \in Thread |-> "Runnable"]
    /\ stop_state = [t \in Thread |-> "Invalid"]
    /\ is_stopped = FALSE
    /\ cpu = {}
    /\ pc = [t \in Thread |-> "user"]
    /\ m_blocker = [t \in Thread |-> FALSE]
    /\ blocker = [t \in Thread |-> NoBlocker]
    /\ timer = [t \in Thread |-> "none"]
    /\ timeout = [t \in Thread |-> NoTimeout]
    /\ queue = <<>>
    /\ wake_requested = FALSE
    /\ inflight = [t \in Thread |-> "no"]
    /\ pending = [t \in Thread |-> {}]
    /\ should_die = [t \in Thread |-> FALSE]
    /\ smp \in Builds

\* The parts of block() that run in its critical section, and the program
\* counters during which its stack frame, blocker and lambda are alive.
Critical == {"registered", "woken", "ended"}
InBlock == Critical \union {"blocked", "relocking"}

\* The sections that are under way with interrupts disabled.
Sections ==
    {<<"thread", t>> : t \in {u \in cpu : pc[u] \in Critical}}
    \union {<<"wake">> : t \in {u \in Thread : inflight[u] # "no"}}
    \union {<<"timer", t>> : t \in {u \in Thread : timer[u] = "firing"}}
May(section) == smp \/ Sections \subseteq {section}
Interrupt == smp \/ Sections = {}

\* Executing code of t, outside every critical section.
Runs(t, label) ==
    /\ t \in cpu
    /\ pc[t] = label
    /\ May(<<"thread", t>>)

\* The wait queue's spin lock is free: wake_one holds it across the
\* unblock_from_blocker call it makes, unless that call is deferred.
QueueUnlocked == \A t \in Thread : inflight[t] # "direct"

Goto(t, label) == pc' = [pc EXCEPT ![t] = label]

-----------------------------------------------------------------------------
(* Thread::set_state, job control and the dispatch of signals              *)

\* Thread::resume_from_stopped: the state a stopped thread goes back to.
ResumeState(t) ==
    IF stop_state[t] = "Blocked" /\ ~m_blocker[t] THEN "Runnable"
    ELSE stop_state[t]

\* set_state away from Stopped: the first thread to leave it resumes its peers.
LeaveStopped(t, new) ==
    LET peers == IF is_stopped
                 THEN {u \in Thread \ {t} : state[u] = "Stopped"} ELSE {}
    IN  /\ state' = [u \in Thread |->
                        IF u = t THEN new
                        ELSE IF u \in peers THEN ResumeState(u)
                        ELSE state[u]]
        /\ stop_state' = [u \in Thread |->
                            IF u \in peers \union {t} THEN "Invalid"
                            ELSE stop_state[u]]
        /\ is_stopped' = FALSE

\* (mutated: a running thread is restored to Running)
MUT_EnterStoppedRunning(t) ==
    LET stopping == {u \in Thread : /\ u = t \/ ~is_stopped
                                    /\ state[u] # "Stopped"}
    IN  /\ state' = [u \in Thread |->
                        IF u \in stopping THEN "Stopped" ELSE state[u]]
        /\ stop_state' = [u \in Thread |->
                            IF u \in stopping THEN state[u] ELSE stop_state[u]]
        /\ is_stopped' = TRUE

\* set_state(Stopped): the first thread to stop stops its peers.
EnterStopped(t) ==
    LET stopping == {u \in Thread : /\ u = t \/ ~is_stopped
                                    /\ state[u] # "Stopped"}
    IN  /\ state' = [u \in Thread |->
                        IF u \in stopping THEN "Stopped" ELSE state[u]]
        /\ stop_state' = [u \in Thread |->
                            IF u \notin stopping THEN stop_state[u]
                            ELSE IF state[u] = "Running" THEN "Runnable"
                            ELSE state[u]]
        /\ is_stopped' = TRUE

\* Thread::set_state
SetState(t, new) ==
    \/ new = state[t] /\ UNCHANGED stateVars
    \/ new # state[t] /\ new = "Stopped" /\ EnterStopped(t)
    \/ new # state[t] /\ state[t] = "Stopped" /\ LeaveStopped(t, new)
    \/ /\ new # state[t] /\ "Stopped" \notin {new, state[t]}
       /\ state' = [state EXCEPT ![t] = new]
       /\ UNCHANGED <<stop_state, is_stopped>>

\* Thread::pending_signals_for_state
Deliverable(t) ==
    IF state[t] = "Stopped" THEN pending[t] \intersect {"CONT"} ELSE pending[t]

\* The lowest signal number comes first.
FirstSignal(set) ==
    IF "USR1" \in set THEN "USR1" ELSE IF "CONT" \in set THEN "CONT" ELSE "STOP"

\* Thread::dispatch_one_pending_signal for the executing thread t, whose
\* state would otherwise become new.
DispatchOne(t, new) ==
    IF Deliverable(t) = {}
    THEN SetState(t, new) /\ UNCHANGED pending
    ELSE LET signal == FirstSignal(Deliverable(t))
         IN  /\ pending' = [pending EXCEPT ![t] = @ \ {signal}]
             /\ SetState(t, IF signal = "STOP" THEN "Stopped" ELSE new)

\* Thread::unblock for a blocked thread.
Unblock(t) ==
    /\ m_blocker' = [m_blocker EXCEPT ![t] = FALSE]
    /\ SetState(t, "Runnable")

-----------------------------------------------------------------------------
(* The scheduler, and the way into and out of the kernel                   *)

\* Scheduler::context_switch to t, and enter_current, which dispatches a
\* signal unless t is waiting in block(), the thread switched from is dying or
\* t runs for the first time.
Schedule(t) ==
    /\ state[t] = "Runnable"
    /\ t \notin cpu
    /\ smp \/ (cpu = {} /\ Sections = {})
    /\ cpu' = cpu \union {t}
    /\ \/ pc[t] # "blocked" /\ DispatchOne(t, "Running")
       \/ SetState(t, "Running") /\ UNCHANGED pending
    /\ UNCHANGED <<blockVars, queueVars, pc, should_die, smp>>

\* Scheduler::pick_next on behalf of the executing thread t, from a timer
\* tick or a voluntary yield.
Preempt(t) ==
    /\ t \in cpu
    /\ pc[t] \notin Critical
    /\ Interrupt
    /\ cpu' = cpu \ {t}
    /\ IF state[t] # "Running" THEN UNCHANGED stateVars
       ELSE SetState(t, IF should_die[t] THEN "Dying" ELSE "Runnable")
    /\ UNCHANGED <<blockVars, queueVars, pc, pending, should_die, smp>>

\* syscall_handler up to the system call: yield_if_stopped lets it start only
\* when the thread is not stopped.
EnterKernel(t) ==
    /\ Runs(t, "user")
    /\ state[t] = "Running"
    /\ Goto(t, "kernel")
    /\ UNCHANGED <<stateVars, blockVars, queueVars, cpu, pending, should_die, smp>>

\* The end of syscall_handler: yield_if_stopped holds a stopped thread back,
\* check_dispatch_pending_signal dispatches one signal and yields if it stops
\* the thread.
LeaveKernel(t) ==
    /\ Runs(t, "kernel")
    /\ state[t] = "Running"
    /\ DispatchOne(t, "Running")
    /\ cpu' = IF state'[t] = "Stopped" THEN cpu \ {t} ELSE cpu
    /\ Goto(t, "leaving")
    /\ UNCHANGED <<blockVars, queueVars, should_die, smp>>

\* die_if_needed, which yields for the last time, or back to user mode.
ReturnToUser(t) ==
    /\ Runs(t, "leaving")
    /\ Goto(t, IF should_die[t] THEN "exiting" ELSE "user")
    /\ UNCHANGED <<stateVars, blockVars, queueVars, cpu, pending, should_die, smp>>

-----------------------------------------------------------------------------
(* Thread::block                                                           *)

\* WaitQueue::should_add_blocker refuses the blocker: NotBlocked.
BlockRefused(t) ==
    /\ Runs(t, "kernel")
    /\ state[t] \in {"Running", "Stopped"}
    /\ QueueUnlocked
    /\ wake_requested
    /\ wake_requested' = FALSE
    /\ UNCHANGED <<stateVars, m_blocker, blocker, timer, timeout, queue,
                   inflight, cpu, pc, pending, should_die, smp>>

\* The blocker is constructed and registered with the queue, under
\* m_block_lock.
BlockRegister(t, timed) ==
    /\ Runs(t, "kernel")
    /\ state[t] \in {"Running", "Stopped"}
    /\ QueueUnlocked
    /\ ~wake_requested
    /\ queue' = Append(queue, t)
    /\ blocker' = [blocker EXCEPT ![t] = [NoBlocker EXCEPT !.timed = timed]]
    /\ timeout' = [timeout EXCEPT ![t] = NoTimeout]
    /\ Goto(t, "registered")
    /\ UNCHANGED <<stateVars, m_blocker, timer, wake_requested,
                   inflight, cpu, pending, should_die, smp>>

\* ~Blocker: remove_blocker takes out the first entry of the blocker, if there
\* still is one.
RemoveBlocker(t) ==
    IF t \notin Range(queue) THEN UNCHANGED queue
    ELSE \E i \in DOMAIN queue :
            /\ queue[i] = t
            /\ \A j \in 1 .. i - 1 : queue[j] # t
            /\ queue' = SubSeq(queue, 1, i - 1) \o SubSeq(queue, i + 1, Len(queue))

\* add_timer_without_id finds the deadline in the past.
BlockExpired(t) ==
    /\ Runs(t, "registered")
    /\ blocker[t].timed
    /\ QueueUnlocked
    /\ RemoveBlocker(t)
    /\ blocker' = [blocker EXCEPT ![t] = NoBlocker]
    /\ Goto(t, "kernel")
    /\ UNCHANGED <<stateVars, m_blocker, timer, timeout,
                   wake_requested, inflight, cpu, pending, should_die, smp>>

\* (mutated: begin_blocking is forgotten)
MUT_BlockBeginQuiet(t) ==
    /\ Runs(t, "registered")
    /\ state[t] \in {"Running", "Stopped"}
    /\ m_blocker' = [m_blocker EXCEPT ![t] = TRUE]
    /\ timer' = IF blocker[t].timed THEN [timer EXCEPT ![t] = "queued"] ELSE timer
    /\ SetState(t, "Blocked")
    /\ cpu' = cpu \ {t}
    /\ Goto(t, "blocked")
    /\ UNCHANGED <<blocker, timeout, queueVars, pending, should_die, smp>>

\* Under g_scheduler_lock and m_block_lock: m_blocker, the timer,
\* begin_blocking and set_state(Blocked); then the thread yields.
BlockBegin(t) ==
    /\ Runs(t, "registered")
    /\ state[t] \in {"Running", "Stopped"}
    /\ m_blocker' = [m_blocker EXCEPT ![t] = TRUE]
    /\ timer' = IF blocker[t].timed THEN [timer EXCEPT ![t] = "queued"] ELSE timer
    /\ blocker' = [blocker EXCEPT ![t].is_blocking = TRUE]
    /\ SetState(t, "Blocked")
    /\ cpu' = cpu \ {t}
    /\ Goto(t, "blocked")
    /\ UNCHANGED <<timeout, queueVars, pending, should_die, smp>>

\* The loop ends: from here on the timer no longer unblocks the thread.  One
\* that finds itself stopped calls set_state without g_scheduler_lock, and halts
\* the kernel with VERIFY(g_scheduler_lock.own_lock()).
BlockResume(t) ==
    /\ Runs(t, "blocked")
    /\ ~is_stopped /\ state[t] # "Stopped"
    /\ timeout' = [timeout EXCEPT ![t] = [unblocked |-> TRUE, did |-> @.unblocked]]
    /\ m_blocker' = [m_blocker EXCEPT ![t] = FALSE]
    /\ Goto(t, "woken")
    /\ UNCHANGED <<stateVars, blocker, timer, queueVars, cpu, pending,
                   should_die, smp>>

\* (mutated: a signal is not reported)
MUT_BlockResultNoSignal(t) ==
    IF blocker[t].by_death THEN "InterruptedByDeath"
    ELSE IF timeout[t].did THEN "InterruptedByTimeout"
    ELSE "WokeNormally"

\* Blocker::block_result after was_unblocked.
BlockResult(t) ==
    IF blocker[t].by_death THEN "InterruptedByDeath"
    ELSE IF blocker[t].by_signal THEN "InterruptedBySignal"
    ELSE IF timeout[t].did THEN "InterruptedByTimeout"
    ELSE "WokeNormally"

\* A signal that interrupted the blocker is dispatched; then end_blocking.
BlockEnd(t) ==
    /\ Runs(t, "woken")
    /\ IF blocker[t].by_signal
       THEN DispatchOne(t, state[t])
       ELSE UNCHANGED <<stateVars, pending>>
    /\ blocker' = [blocker EXCEPT ![t].is_blocking = FALSE]
    /\ Goto(t, "ended")
    /\ UNCHANGED <<m_blocker, timer, timeout, queueVars, cpu, should_die, smp>>

\* (mutated: the timer is not cancelled)
MUT_BlockCancelNot(t) ==
    /\ Runs(t, "ended")
    /\ Goto(t, "relocking")
    /\ UNCHANGED <<stateVars, blockVars, queueVars, cpu, pending, should_die, smp>>

\* cancel_timer, which waits for a timer that is firing.
BlockCancel(t) ==
    /\ Runs(t, "ended")
    /\ blocker[t].timed /\ ~timeout[t].did => timer[t] # "firing"
    /\ timer' = IF timeout[t].did THEN timer ELSE [timer EXCEPT ![t] = "none"]
    /\ Goto(t, "relocking")
    /\ UNCHANGED <<stateVars, m_blocker, blocker, timeout, queueVars, cpu,
                   pending, should_die, smp>>

\* relock_process has left the critical section for a while, if t held the big
\* lock (the wait for that lock is KernelLock's); then ~Blocker.
BlockReturn(t) ==
    /\ Runs(t, "relocking")
    /\ QueueUnlocked
    /\ RemoveBlocker(t)
    /\ blocker' = [blocker EXCEPT ![t] = NoBlocker]
    /\ timeout' = [timeout EXCEPT ![t] = NoTimeout]
    /\ Goto(t, "kernel")
    /\ UNCHANGED <<stateVars, m_blocker, timer, wake_requested, inflight, cpu,
                   pending, should_die, smp>>

-----------------------------------------------------------------------------
(* What ends the wait                                                      *)

\* Kernel code of another process or thread is executing, or (smp) may be.
OtherCode(t) ==
    /\ Interrupt
    /\ smp \/ cpu = {} \/ \E k \in cpu \ {t} : pc[k] = "kernel"

\* QueueBlocker::unblock for the threads of set: m_did_unblock, and the call
\* of Thread::unblock_from_blocker for those that are blocking.
UnblockBlockers(set, how) ==
    /\ blocker' = [u \in Thread |->
                    IF u \in set
                    THEN [blocker[u] EXCEPT !.did_unblock = TRUE,
                                            !.is_blocking = FALSE]
                    ELSE blocker[u]]
    /\ inflight' = [u \in Thread |->
                    IF u \in set /\ blocker[u].is_blocking THEN how
                    ELSE inflight[u]]

\* WaitQueue::wake_one and wake_all, from an interrupt ("deferred") or from
\* kernel code ("direct").
WakeOne(how) ==
    /\ Interrupt /\ QueueUnlocked
    /\ how = "direct" => \E t \in Thread : OtherCode(t)
    /\ wake_requested' = (queue = <<>>)
    /\ IF queue = <<>> THEN UNCHANGED <<queue, blocker, inflight>>
       ELSE queue' = Tail(queue) /\ UnblockBlockers({Head(queue)}, how)
    /\ UNCHANGED <<stateVars, m_blocker, timer, timeout, cpu, pc,
                   pending, should_die, smp>>

WakeAll(how) ==
    /\ Interrupt /\ QueueUnlocked
    /\ how = "direct" => \E t \in Thread : OtherCode(t)
    /\ wake_requested' = (queue = <<>>)
    /\ queue' = <<>>
    /\ UnblockBlockers(Range(queue), how)
    /\ UNCHANGED <<stateVars, m_blocker, timer, timeout, cpu, pc,
                   pending, should_die, smp>>

\* Thread::unblock_from_blocker's do_unblock.  The blocker is identified by
\* its address on the stack of t, which a later call of block() may reuse.
UnblockFromBlocker(t) ==
    /\ inflight[t] # "no"
    /\ May(<<"wake">>)
    /\ inflight' = [inflight EXCEPT ![t] = "no"]
    /\ IF m_blocker[t] /\ ~is_stopped /\ state[t] = "Blocked"
       THEN Unblock(t)
       ELSE UNCHANGED <<stateVars, m_blocker>>
    /\ UNCHANGED <<blocker, timer, timeout, queue, wake_requested, cpu,
                   pc, pending, should_die, smp>>

\* TimerQueue::fire
TimerFire(t) ==
    /\ timer[t] = "queued"
    /\ Interrupt
    /\ timer' = [timer EXCEPT ![t] = "firing"]
    /\ UNCHANGED <<stateVars, m_blocker, blocker, timeout, queueVars,
                   cpu, pc, pending, should_die, smp>>

\* (mutated: the callback records the timeout and leaves the thread asleep)
MUT_TimerCallbackQuiet(t) ==
    /\ timer[t] = "firing"
    /\ May(<<"timer", t>>)
    /\ timer' = [timer EXCEPT ![t] = "none"]
    /\ timeout' = [timeout EXCEPT ![t].unblocked = @ \/ m_blocker[t]]
    /\ UNCHANGED <<stateVars, m_blocker, blocker, queueVars, cpu, pc, pending,
                   should_die, smp>>

\* The lambda block() gave to add_timer_without_id.
TimerCallback(t) ==
    /\ timer[t] = "firing"
    /\ May(<<"timer", t>>)
    /\ timer' = [timer EXCEPT ![t] = "none"]
    /\ IF m_blocker[t] /\ ~timeout[t].unblocked
       THEN /\ timeout' = [timeout EXCEPT ![t].unblocked = TRUE]
            /\ IF state[t] = "Blocked" THEN Unblock(t)
               ELSE UNCHANGED <<stateVars, m_blocker>>
       ELSE UNCHANGED <<stateVars, m_blocker, timeout>>
    /\ UNCHANGED <<blocker, queueVars, cpu, pc, pending, should_die, smp>>

\* Thread::send_signal
SendSignal(t, signal) ==
    /\ OtherCode(t)
    /\ Cardinality(pending[t] \union {signal}) <= MaxPending[smp]
    /\ pending' = [pending EXCEPT ![t] = @ \union {signal}]
    /\ \/ /\ state[t] = "Stopped" /\ "CONT" \in pending'[t]
          /\ LeaveStopped(t, ResumeState(t))
          /\ UNCHANGED <<m_blocker, blocker>>
       \/ /\ state[t] = "Blocked"
          /\ blocker' = [blocker EXCEPT ![t].by_signal = TRUE]
          /\ Unblock(t)
       \/ /\ state[t] # "Blocked"
          /\ state[t] = "Stopped" => "CONT" \notin pending'[t]
          /\ UNCHANGED <<stateVars, m_blocker, blocker>>
    /\ UNCHANGED <<timer, timeout, queueVars, cpu, pc, should_die, smp>>

\* Thread::set_should_die halts the kernel when it meets a stopped thread: with
\* VERIFY(!process().is_stopped()), and its process is stopped (TypeOK).
MayDie(t) == state[t] # "Stopped"

\* A thread k of the process kills t: kill_all_threads from Process::die, or
\* kill_threads_except_self from execve.
SetShouldDie(k, t) ==
    /\ k # t
    /\ Runs(k, "kernel")
    /\ ~should_die[t] /\ state[t] # "Dying"
    /\ MayDie(t)
    /\ should_die' = [should_die EXCEPT ![t] = TRUE]
    /\ \/ /\ state[t] = "Blocked" /\ m_blocker[t]
          /\ blocker' = [blocker EXCEPT ![t].by_death = TRUE]
          /\ Unblock(t)
       \/ /\ ~ (state[t] = "Blocked" /\ m_blocker[t])
          /\ UNCHANGED <<stateVars, m_blocker, blocker>>
    /\ UNCHANGED <<timer, timeout, queueVars, cpu, pc, pending, smp>>

-----------------------------------------------------------------------------
ThreadStep(t) ==
    \/ Preempt(t) \/ EnterKernel(t)
    \/ LeaveKernel(t) \/ ReturnToUser(t)
    \/ BlockRefused(t) \/ BlockExpired(t)
    \/ \E timed \in Timeouts : BlockRegister(t, timed)
    \/ BlockBegin(t) \/ BlockResume(t)
    \/ BlockEnd(t) \/ BlockCancel(t) \/ BlockReturn(t)
    \/ smp \in Killing /\ \E u \in Thread : SetShouldDie(t, u)

Next ==
    \/ \E t \in Thread :
        \/ ThreadStep(t) \/ Schedule(t)
        \/ UnblockFromBlocker(t) \/ TimerFire(t) \/ TimerCallback(t)
        \/ \E signal \in Signals : SendSignal(t, signal)
    \/ \E how \in {"direct", "deferred"} : WakeOne(how) \/ WakeAll(how)

Spec == Init /\ [][Next]_vars

\* A step of t inside block() is never abandoned; a runnable thread is
\* scheduled again and again (the ready queues are FIFO and a timer tick
\* ends every time slice) and then runs; interrupts and deferred calls are
\* served.  Nothing says that anybody wakes, signals or leaves the kernel.
Fairness ==
    \A t \in Thread :
        /\ WF_vars(BlockBegin(t) \/ BlockExpired(t))
        /\ WF_vars(BlockEnd(t)) /\ WF_vars(BlockCancel(t))
        /\ WF_vars(UnblockFromBlocker(t))
        /\ SF_vars(TimerFire(t)) /\ WF_vars(TimerCallback(t))
        /\ SF_vars(Preempt(t))
        /\ SF_vars(Schedule(t))
        /\ SF_vars(BlockResume(t))

FairSpec == Spec /\ Fairness

-----------------------------------------------------------------------------
(* Properties                                                              *)

States == {"Running", "Runnable", "Blocked", "Stopped", "Dying"}

\* Every variable has its type; stop_state is set exactly while a thread is
\* stopped, and is never Running ("We don't want to restore to Running"), and
\* the process of a stopped thread is stopped.
TypeOK ==
    /\ state \in [Thread -> States]
    /\ stop_state \in [Thread -> {"Invalid", "Runnable", "Blocked", "Dying"}]
    /\ \A t \in Thread : (stop_state[t] # "Invalid") <=> (state[t] = "Stopped")
    /\ is_stopped \in BOOLEAN
    /\ \A t \in Thread : state[t] = "Stopped" => is_stopped
    /\ cpu \subseteq Thread
    /\ pc \in [Thread -> {"user", "kernel", "leaving", "exiting"} \union InBlock]
    /\ m_blocker \in [Thread -> BOOLEAN]
    /\ blocker \in [Thread -> [is_blocking : BOOLEAN, did_unblock : BOOLEAN,
                              by_signal : BOOLEAN, by_death : BOOLEAN, timed : BOOLEAN]]
    /\ timer \in [Thread -> {"none", "queued", "firing"}]
    /\ timeout \in [Thread -> [unblocked : BOOLEAN, did : BOOLEAN]]
    /\ queue \in Seq(Thread)
    /\ wake_requested \in BOOLEAN
    /\ inflight \in [Thread -> {"no", "direct", "deferred"}]
    /\ pending \in [Thread -> SUBSET Signals]
    /\ should_die \in [Thread -> BOOLEAN]
    /\ smp \in Builds

\* Nothing refers to a stack frame of block() that has returned: not the wait
\* queue (blockers are raw pointers), not a timer whose lambda captured the
\* frame by reference, not a wake-up made under the queue's lock.
FrameAlive ==
    \A t \in Thread :
        t \in Range(queue) \/ timer[t] # "none" \/ inflight[t] = "direct"
        => pc[t] \in InBlock

\* A blocked thread has not been woken or timed out yet: it is still in the
\* wait queue, its timer (if any) has still to fire, and m_blocker is set.
BlockedUnwoken ==
    \A t \in Thread :
        state[t] = "Blocked" /\ inflight[t] = "no"
        => /\ m_blocker[t]
           /\ t \in Range(queue)
           /\ blocker[t].timed => timer[t] # "none"

\* block() says why it returned: WokeNormally only to a thread a waker chose,
\* InterruptedByTimeout only after the timer's callback won.  One processor: a
\* deferred unblock of another one may come late and meet the next blocker.
ResultHonest ==
    ~smp => \A t \in Thread :
        pc[t] = "woken" =>
            /\ BlockResult(t) = "WokeNormally" => blocker[t].did_unblock
            /\ BlockResult(t) = "InterruptedByTimeout" => timer[t] = "none"
            /\ BlockResult(t) = "InterruptedByDeath" => should_die[t]

\* A woken thread returns from block(), and so does one whose timer fired.
WokenReturns ==
    \A t \in Thread :
        /\ (pc[t] = "blocked" /\ blocker[t].did_unblock) ~> (pc[t] = "ended")
        /\ (pc[t] = "blocked" /\ blocker[t].timed) ~> (pc[t] = "ended")
=============================================================================
