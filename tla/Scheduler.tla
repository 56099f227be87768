----------------------------- MODULE Scheduler -----------------------------
(***************************************************************************)
(* Kernel/Scheduler.cpp: the ready queues, pick_next, context switches,    *)
(* donation of time slices and the hand-over of dead threads to the        *)
(* finalizer, for any number of processors.                                *)
(*                                                                         *)
(* Granularity.  pick_next holds g_scheduler_lock from its first test      *)
(* until the thread it switched to has run enter_current, so it is one     *)
(* step; so is every Thread::set_state, which needs that lock.  A thread   *)
(* that set_state(Stopped) stops, or resumes, with its peers is a step of  *)
(* its own.                                                                *)
(***************************************************************************)
EXTENDS Integers, Sequences, FiniteSets

CONSTANTS
    Thread,       \* all threads but the idle threads
    Processor,    \* the processors that schedule
    Idle,         \* the idle thread of whichever processor
    None,         \* no pending beneficiary
    Priorities,   \* the priorities threads may be given
    Affinity,     \* affinity(): the processors each thread may run on
    Donating,     \* the threads that call sys$donate
    Killed,       \* bound: the threads that exit or are killed
    TimeSlice     \* time_slice_for a thread that is not idle

ASSUME SchedulerAssumption ==
    /\ Idle \notin Thread /\ None \notin Thread
    /\ Priorities \subseteq 1..99 /\ Priorities # {}
    /\ Affinity \in [Thread -> SUBSET Processor]
    /\ Donating \subseteq Thread /\ Killed \subseteq Thread
    /\ TimeSlice \in Nat \ {0}

VARIABLES
    state,              \* m_state
    stop_state,         \* m_stop_state
    should_die,         \* m_should_die
    dying,              \* finalize_dying_threads: its dying_threads
    priority,           \* m_priority
    ready,              \* g_ready_queues
    mask,               \* g_ready_queues_mask
    runnable_priority,  \* m_runnable_priority
    active,             \* m_is_active
    ticks_left,         \* m_ticks_left
    current,            \* Processor::current_thread
    async,              \* Processor::m_invoke_scheduler_async
    beneficiary         \* SchedulerPerProcessorData::m_pending_beneficiary

queueVars == <<ready, mask, runnable_priority>>
deathVars == <<should_die, dying>>
procVars == <<current, async, beneficiary>>
vars == <<state, stop_state, deathVars, priority, queueVars, active, ticks_left,
          procVars>>

\* thread_priority_to_priority_index, with g_ready_queue_buckets = 32; the
\* division comes first.
PriorityIndex(p) == ((99 - (p - 1)) \div 99) * 31
Buckets == {PriorityIndex(p) : p \in Priorities}

Init ==
    /\ state = [t \in Thread |-> "Blocked"]
    /\ stop_state = [t \in Thread |-> "Invalid"]
    /\ should_die = [t \in Thread |-> FALSE]
    /\ dying = {}
    /\ priority \in [Thread -> Priorities]
    /\ ready = [b \in Buckets |-> <<>>]
    /\ mask = {}
    /\ runnable_priority = [t \in Thread |-> -1]
    /\ active = [t \in Thread |-> FALSE]
    /\ ticks_left = [t \in Thread |-> 0]
    /\ current = [p \in Processor |-> Idle]
    /\ async = [p \in Processor |-> FALSE]
    /\ beneficiary = [p \in Processor |-> None]

-----------------------------------------------------------------------------
(* The ready queues.  They are values [ready, mask, prio] that the steps    *)
(* below thread through the calls one action makes.                         *)

Queues == [ready |-> ready, mask |-> mask, prio |-> runnable_priority]

\* (mutated: a thread is put in front of its queue)
MUT_EnqueueFront(q, t) ==
    LET b == PriorityIndex(priority[t])
    IN  [ready |-> [q.ready EXCEPT ![b] = <<t>> \o @],
         mask |-> q.mask \union {b},
         prio |-> [q.prio EXCEPT ![t] = b]]

\* Scheduler::queue_runnable_thread
Enqueue(q, t) ==
    LET b == PriorityIndex(priority[t])
    IN  [ready |-> [q.ready EXCEPT ![b] = Append(@, t)],
         mask |-> q.mask \union {b},
         prio |-> [q.prio EXCEPT ![t] = b]]

\* IntrusiveList::remove of a thread that is in the list.
Unlinked(queue, t) ==
    LET i == CHOOSE k \in DOMAIN queue : queue[k] = t
    IN  SubSeq(queue, 1, i - 1) \o SubSeq(queue, i + 1, Len(queue))

\* (mutated: the mask bit is left set)
MUT_DequeueKeepsMask(q, t) ==
    IF q.prio[t] < 0 THEN q
    ELSE [q EXCEPT !.ready[q.prio[t]] = Unlinked(@, t), !.prio[t] = -1]

\* Scheduler::dequeue_runnable_thread
Dequeue(q, t) ==
    IF q.prio[t] < 0 THEN q
    ELSE LET rest == Unlinked(q.ready[q.prio[t]], t)
         IN  [ready |-> [q.ready EXCEPT ![q.prio[t]] = rest],
              mask |-> IF rest = <<>> THEN q.mask \ {q.prio[t]} ELSE q.mask,
              prio |-> [q.prio EXCEPT ![t] = -1]]

SetQueues(q) ==
    /\ ready' = q.ready
    /\ mask' = q.mask
    /\ runnable_priority' = q.prio

\* (mutated: a thread that stops being Runnable stays in its queue)
MUT_LeavesQueued(q, t) == q

\* Thread::set_state, as far as the ready queues are concerned.
Leaves(q, t) == IF state[t] = "Runnable" THEN Dequeue(q, t) ELSE q
Enters(q, t, new) == IF new = "Runnable" THEN Enqueue(q, t) ELSE q
SetState(t, new) ==
    /\ state' = [state EXCEPT ![t] = new]
    /\ SetQueues(Enters(Leaves(Queues, t), t, new))

\* Scheduler::pull_next_runnable_thread: the first thread of the first bucket
\* that is not active elsewhere and may run on p.
Least(S) == CHOOSE i \in S : \A j \in S : i <= j
Pullable(p, t) == ~active[t] /\ p \in Affinity[t]
Candidates(p, b) == {i \in DOMAIN ready[b] : Pullable(p, ready[b][i])}
FirstIn(p, b) == ready[b][Least(Candidates(p, b))]
PullNext(p) ==
    LET bs == {b \in mask : Candidates(p, b) # {}}
    IN  IF bs = {} THEN Idle ELSE FirstIn(p, Least(bs))

\* pick_next, before anything else: the thread it leaves dies if it should.
\* Only a Running thread does: one that was stopped meanwhile is spared.
Dies(p) ==
    /\ current[p] # Idle
    /\ state[current[p]] = "Running" /\ should_die[current[p]]

\* Scheduler::context_switch from the current thread of p to t, with the queues
\* q that t has left.  A switch of a thread to itself changes nothing, not even
\* its state.
ContextSwitch(p, t, q) ==
    LET from == current[p]
        yields == from # t /\ from # Idle /\ state[from] = "Running" /\ ~Dies(p)
    IN  /\ current' = [current EXCEPT ![p] = t]
        /\ state' = [u \in Thread |->
                        IF u = t /\ from # t THEN "Running"
                        ELSE IF u = from /\ Dies(p) THEN "Dying"
                        ELSE IF u = from /\ yields THEN "Runnable"
                        ELSE state[u]]
        /\ SetQueues(IF yields THEN Enqueue(q, from) ELSE q)

-----------------------------------------------------------------------------
(* Scheduler::pick_next                                                    *)

\* The pending donation of p can be honoured.
Donation(p) ==
    LET b == beneficiary[p]
    IN  b # None /\ runnable_priority[b] >= 0 /\ p \in Affinity[b]

\* donate_to_and_switch gives up.  Scheduler::yield flags another switch, but
\* the scheduler lock is released while m_in_scheduler is still set:
\* leave_critical takes the flag away and invoke_async does nothing.  The
\* donor goes on executing, Dying if it should die.
PickDonationFails(p) ==
    /\ async[p] /\ Donation(p)
    /\ \/ state[beneficiary[p]] # "Runnable"
       \/ ticks_left[current[p]] <= 1
    /\ state' = IF Dies(p) THEN [state EXCEPT ![current[p]] = "Dying"] ELSE state
    /\ SetQueues(Dequeue(Queues, beneficiary[p]))
    /\ beneficiary' = [beneficiary EXCEPT ![p] = None]
    /\ async' = [async EXCEPT ![p] = FALSE]
    /\ UNCHANGED <<stop_state, deathVars, priority, active, ticks_left, current>>

\* (mutated: the last tick may be donated)
MUT_PickBeneficiaryAll(p) ==
    LET b == beneficiary[p]
        left == ticks_left[current[p]]
    IN  /\ async[p] /\ Donation(p)
        /\ state[b] = "Runnable"
        /\ ContextSwitch(p, b, Dequeue(Queues, b))
        /\ active' = [active EXCEPT ![current[p]] = FALSE]
        /\ ticks_left' = [ticks_left EXCEPT
                            ![b] = IF left - 1 < TimeSlice THEN left - 1 ELSE TimeSlice]
        /\ beneficiary' = [beneficiary EXCEPT ![p] = None]
        /\ async' = [async EXCEPT ![p] = FALSE]
        /\ UNCHANGED <<stop_state, deathVars, priority>>

PickBeneficiary(p) ==
    LET b == beneficiary[p]
        left == ticks_left[current[p]]
    IN  /\ async[p] /\ Donation(p)
        /\ state[b] = "Runnable" /\ left > 1
        /\ ContextSwitch(p, b, Dequeue(Queues, b))
        /\ active' = [active EXCEPT ![current[p]] = FALSE]
        /\ ticks_left' = [ticks_left EXCEPT
                            ![b] = IF left - 1 < TimeSlice THEN left - 1 ELSE TimeSlice]
        /\ beneficiary' = [beneficiary EXCEPT ![p] = None]
        /\ async' = [async EXCEPT ![p] = FALSE]
        /\ UNCHANGED <<stop_state, deathVars, priority>>

\* (mutated: the thread pulled from the queue is not marked active)
MUT_PickNextInactive(p) ==
    \E t \in {PullNext(p)} :
        /\ async[p] /\ ~Donation(p)
        /\ ContextSwitch(p, t, IF t = Idle THEN Queues ELSE Dequeue(Queues, t))
        /\ active' = [u \in Thread |-> IF u = current[p] THEN FALSE ELSE active[u]]
        /\ ticks_left' = IF t = Idle THEN ticks_left
                         ELSE [ticks_left EXCEPT ![t] = TimeSlice]
        /\ beneficiary' = [beneficiary EXCEPT ![p] = None]
        /\ async' = [async EXCEPT ![p] = FALSE]
        /\ UNCHANGED <<stop_state, deathVars, priority>>

\* (mutated: the time slice is not renewed)
MUT_PickNextNoSlice(p) ==
    \E t \in {PullNext(p)} :
        /\ async[p] /\ ~Donation(p)
        /\ ContextSwitch(p, t, IF t = Idle THEN Queues ELSE Dequeue(Queues, t))
        /\ active' = [u \in Thread |->
                        IF u = t THEN TRUE ELSE IF u = current[p] THEN FALSE
                        ELSE active[u]]
        /\ beneficiary' = [beneficiary EXCEPT ![p] = None]
        /\ async' = [async EXCEPT ![p] = FALSE]
        /\ UNCHANGED <<stop_state, deathVars, priority, ticks_left>>

\* The next ready thread, or the idle thread; enter_current makes the thread
\* switched from inactive.
PickNext(p) ==
    \E t \in {PullNext(p)} :
        /\ async[p] /\ ~Donation(p)
        /\ ContextSwitch(p, t, IF t = Idle THEN Queues ELSE Dequeue(Queues, t))
        /\ active' = [u \in Thread |->
                        IF u = t THEN TRUE ELSE IF u = current[p] THEN FALSE
                        ELSE active[u]]
        /\ ticks_left' = IF t = Idle THEN ticks_left
                         ELSE [ticks_left EXCEPT ![t] = TimeSlice]
        /\ beneficiary' = [beneficiary EXCEPT ![p] = None]
        /\ async' = [async EXCEPT ![p] = FALSE]
        /\ UNCHANGED <<stop_state, deathVars, priority>>

-----------------------------------------------------------------------------
(* What makes the scheduler run, and what threads do meanwhile             *)

Flag(p) == async' = [async EXCEPT ![p] = TRUE]

\* Scheduler::timer_tick.  Interrupts are served outside critical sections
\* only, where no switch is pending.
TimerTick(p) ==
    /\ ~async[p]
    /\ IF current[p] = Idle THEN Flag(p) /\ UNCHANGED ticks_left
       ELSE LET left == ticks_left[current[p]] - 1
            IN  /\ ticks_left' = [ticks_left EXCEPT ![current[p]] = left]
                /\ async' = [async EXCEPT ![p] = (left = 0)]
    /\ UNCHANGED <<state, stop_state, deathVars, priority, queueVars, active,
                   current, beneficiary>>

\* The thread t that executes on p, no switch being pending.
Executes(p, t) == current[p] = t /\ t # Idle /\ ~async[p]

\* Scheduler::yield in a critical section, called among others by
\* die_if_needed, and by a thread in whatever state it was left.
Yield(p) ==
    /\ \E t \in Thread : Executes(p, t)
    /\ Flag(p)
    /\ UNCHANGED <<state, stop_state, deathVars, priority, queueVars, active,
                   ticks_left, current, beneficiary>>

\* Thread::block: set_state(Blocked), which takes a thread that was stopped on
\* the way out of Stopped, and yield.  Any other state halts the kernel.
Block(p) ==
    /\ \E t \in Thread :
        /\ Executes(p, t)
        /\ state[t] \in {"Running", "Stopped"}
        /\ SetState(t, "Blocked")
        /\ stop_state' = [stop_state EXCEPT ![t] = "Invalid"]
    /\ Flag(p)
    /\ UNCHANGED <<deathVars, priority, active, ticks_left, current, beneficiary>>

\* sys$donate: in a critical section, so donate_to only notes the beneficiary.
\* A Dying thread is on its way out of the system call it died in.
Donate(p, t) ==
    /\ \E u \in Donating : Executes(p, u) /\ state[u] # "Dying" /\ u # t
    /\ beneficiary' = [beneficiary EXCEPT ![p] = t]
    /\ Flag(p)
    /\ UNCHANGED <<state, stop_state, deathVars, priority, queueVars, active,
                   ticks_left, current>>

\* Thread::unblock, executed on processor p.
Unblocked(p, t) == IF current[p] = t THEN "Running" ELSE "Runnable"
Unblock(p, t) ==
    /\ state[t] = "Blocked"
    /\ SetState(t, Unblocked(p, t))
    /\ UNCHANGED <<stop_state, deathVars, priority, active, ticks_left, procVars>>

\* Thread::set_should_die, executed on processor p.  It halts the kernel when
\* it meets a stopped thread, whose process is stopped too.
SetShouldDie(p, t) ==
    /\ ~should_die[t] /\ state[t] # "Stopped"
    /\ should_die' = [should_die EXCEPT ![t] = TRUE]
    /\ IF state[t] = "Blocked" THEN SetState(t, Unblocked(p, t))
       ELSE UNCHANGED <<state, queueVars>>
    /\ UNCHANGED <<stop_state, dying, priority, active, ticks_left, procVars>>

\* set_state(Stopped), for the thread and for its peers, Dying and Dead ones
\* (which stay in the list of the process for a while) included.
Stop(t) ==
    /\ state[t] # "Stopped"
    /\ SetState(t, "Stopped")
    /\ stop_state' = [stop_state EXCEPT
                        ![t] = IF state[t] = "Running" THEN "Runnable" ELSE state[t]]
    /\ UNCHANGED <<deathVars, priority, active, ticks_left, procVars>>

\* Thread::resume_from_stopped
Continue(t) ==
    /\ state[t] = "Stopped"
    /\ SetState(t, stop_state[t])
    /\ stop_state' = [stop_state EXCEPT ![t] = "Invalid"]
    /\ UNCHANGED <<deathVars, priority, active, ticks_left, procVars>>

\* finalize_dying_threads collects the threads to finalize, on a processor where
\* another thread, the finalizer, executes ...
Collect(p) ==
    /\ dying = {}
    /\ dying' = {t \in Thread : state[t] = "Dying" /\ ~active[t] /\ current[p] # t}
    /\ UNCHANGED <<state, stop_state, should_die, priority, queueVars, active,
                   ticks_left, procVars>>

\* ... and Thread::finalize ends them one by one, stopped meanwhile or not.
Finalize(t) ==
    /\ t \in dying
    /\ dying' = dying \ {t}
    /\ SetState(t, "Dead")
    /\ stop_state' = [stop_state EXCEPT ![t] = "Invalid"]
    /\ UNCHANGED <<should_die, priority, active, ticks_left, procVars>>

\* sys$sched_setparam
SetPriority(t, v) ==
    /\ priority[t] # v
    /\ priority' = [priority EXCEPT ![t] = v]
    /\ UNCHANGED <<state, stop_state, deathVars, queueVars, active, ticks_left, procVars>>

Next ==
    \/ \E p \in Processor :
        \/ PickDonationFails(p) \/ PickBeneficiary(p) \/ PickNext(p)
        \/ TimerTick(p) \/ Yield(p) \/ Block(p) \/ Collect(p)
        \/ \E t \in Thread : Donate(p, t) \/ Unblock(p, t)
        \/ \E t \in Killed : SetShouldDie(p, t)
    \/ \E t \in Thread :
        \/ Stop(t) \/ Continue(t) \/ Finalize(t)
        \/ \E v \in Priorities : SetPriority(t, v)

Spec == Init /\ [][Next]_vars

\* Timer interrupts keep coming and a flagged switch is made as soon as the
\* processor leaves its critical section.
FairSpec ==
    /\ Spec
    /\ \A p \in Processor :
        /\ WF_vars(TimerTick(p))
        /\ WF_vars(PickNext(p))
        /\ WF_vars(PickBeneficiary(p))
        /\ WF_vars(PickDonationFails(p))

-----------------------------------------------------------------------------
(* Properties                                                              *)

States == {"Running", "Runnable", "Blocked", "Stopped", "Dying", "Dead"}
StopStates == {"Invalid", "Runnable", "Blocked", "Dying", "Dead"}

\* The types of the scheduler's state; m_stop_state is set exactly while a
\* thread is stopped, and never Running; a time slice is never negative
\* (unsigned m_ticks_left) nor longer than time_slice_for allows.
TypeOK ==
    /\ state \in [Thread -> States]
    /\ stop_state \in [Thread -> StopStates]
    /\ \A t \in Thread : (stop_state[t] # "Invalid") <=> (state[t] = "Stopped")
    /\ should_die \in [Thread -> BOOLEAN]
    /\ dying \subseteq Thread
    /\ priority \in [Thread -> Priorities]
    /\ ready \in [Buckets -> Seq(Thread)]
    /\ mask \subseteq Buckets
    /\ runnable_priority \in [Thread -> Buckets \union {-1}]
    /\ active \in [Thread -> BOOLEAN]
    /\ ticks_left \in [Thread -> 0..TimeSlice]
    /\ current \in [Processor -> Thread \union {Idle}]
    /\ async \in [Processor -> BOOLEAN]
    /\ beneficiary \in [Processor -> Thread \union {None}]

\* The VERIFYs of pull_next, dequeue and queue_runnable_thread: a thread is in
\* the bucket its m_runnable_priority names, once, and in no other; the mask
\* has the bits of the buckets that are not empty.
ReadyConsistent ==
    /\ mask = {b \in Buckets : ready[b] # <<>>}
    /\ \A t \in Thread, b \in Buckets :
        Cardinality({i \in DOMAIN ready[b] : ready[b][i] = t})
            = IF runnable_priority[t] = b THEN 1 ELSE 0

\* A thread waits in a ready queue exactly while it is Runnable: pick_next
\* loses nobody and finds nobody who is not ready.
RunnableQueued ==
    \A t \in Thread : state[t] = "Runnable" <=> runnable_priority[t] >= 0

\* No thread executes on two processors, and one that is finalized executes
\* on none (the comments on m_is_active in pull_next and is_finalizable).
OneProcessor ==
    /\ \A p, r \in Processor : current[p] = current[r] /\ current[p] # Idle => p = r
    /\ \A p \in Processor : current[p] # Idle => state[current[p]] # "Dead"

\* The decrement in Thread::tick never wraps m_ticks_left around: a thread
\* that executes outside a critical section has a tick left.
TickLeft ==
    \A p \in Processor : current[p] # Idle /\ ~async[p] => ticks_left[current[p]] > 0

\* A thread in the highest bucket does not wait for ever, whatever the others
\* do and however often they come back.
ReadyRuns ==
    \A t \in Thread :
        (state[t] = "Runnable" /\ runnable_priority[t] = 0) ~> (state[t] # "Runnable")
=============================================================================
