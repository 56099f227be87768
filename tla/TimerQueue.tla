----------------------------- MODULE TimerQueue -----------------------------
(***************************************************************************)
(* Kernel/TimeQueue.cpp: the two sorted queues of timers, their expiry in  *)
(* the timer interrupt, the deferred call of the handlers, and the race    *)
(* between a handler and cancel_timer.  The users of a timer are           *)
(* Thread::block and sys$alarm: they create it, keep a reference and       *)
(* cancel it, or drop the reference once they know that it has fired.      *)
(*                                                                         *)
(* Granularity.  A step is a section under g_timerqueue_lock, or one call  *)
(* of a handler.  A processor that is in fire() or has deferred calls left *)
(* executes no thread, so one processor gives the uniprocessor kernel.     *)
(* The clocks stand still during a section.                                *)
(***************************************************************************)
EXTENDS Integers, Sequences, FiniteSets, Functions

CONSTANTS
    Timer,      \* the addresses at which timers are allocated
    Processor,  \* the processors that take timer interrupts and run threads
    MaxTime     \* bound: the clocks stop here

ASSUME TimerAssumption == MaxTime \in Nat

Clock == {"monotonic", "realtime"}
Time == 0..MaxTime

VARIABLES
    now,        \* TimeManagement::current_time
    list,       \* Queue::list of m_timer_queue_monotonic and _realtime
    due,        \* Queue::next_timer_due; 0 is the empty Time
    executing,  \* m_timers_executing
    clock,      \* Timer::m_clock_id
    expires,    \* Timer::m_expires
    remaining,  \* Timer::m_remaining
    refs,       \* the reference count of each timer; 0 is free memory
    called,     \* m_callback has run
    user,       \* what the user of each timer is doing
    firing,     \* the queue each processor's fire() is at, or "idle"
    deferred    \* the timers whose deferred calls each processor has pending

queueVars == <<list, due, executing>>
timerVars == <<clock, expires, remaining, refs, called, user>>
vars == <<now, queueVars, timerVars, firing, deferred>>

Init ==
    /\ now = [c \in Clock |-> 0]
    /\ list = [c \in Clock |-> <<>>]
    /\ due = [c \in Clock |-> 0]
    /\ executing = {}
    /\ clock = [t \in Timer |-> "monotonic"]
    /\ expires = [t \in Timer |-> 0]
    /\ remaining = [t \in Timer |-> 0]
    /\ refs = [t \in Timer |-> 0]
    /\ called = [t \in Timer |-> FALSE]
    /\ user = [t \in Timer |-> "none"]
    /\ firing = [p \in Processor |-> "idle"]
    /\ deferred = [p \in Processor |-> <<>>]

\* Some processor executes threads.
Threads == \E p \in Processor : firing[p] = "idle" /\ deferred[p] = <<>>

\* update_next_timer_due
HeadDue(timers) == IF timers = <<>> THEN 0 ELSE expires[Head(timers)]

-----------------------------------------------------------------------------
(* Time passes, and sys$clock_settime sets the clock.                      *)

Tick ==
    /\ \A c \in Clock : now[c] < MaxTime
    /\ now' = [c \in Clock |-> now[c] + 1]
    /\ UNCHANGED <<queueVars, timerVars, firing, deferred>>

SetTime(v) ==
    /\ Threads
    /\ now' = [now EXCEPT !["realtime"] = v]
    /\ UNCHANGED <<queueVars, timerVars, firing, deferred>>

-----------------------------------------------------------------------------
(* The users of timers                                                     *)

\* add_timer_without_id up to the lock: a deadline in the past is refused.
Create(t, c, deadline) ==
    /\ Threads
    /\ refs[t] = 0
    /\ deadline > now[c]
    /\ clock' = [clock EXCEPT ![t] = c]
    /\ expires' = [expires EXCEPT ![t] = deadline]
    /\ remaining' = [remaining EXCEPT ![t] = 0]
    /\ refs' = [refs EXCEPT ![t] = 1]
    /\ called' = [called EXCEPT ![t] = FALSE]
    /\ user' = [user EXCEPT ![t] = "adding"]
    /\ UNCHANGED <<now, queueVars, firing, deferred>>

\* The timer that the for_each of add_timer_locked stops at: the first of those
\* that expire later, or the end of the list.
Following(timers, t) ==
    {i \in DOMAIN timers : expires[timers[i]] > expires[t]} \union {Len(timers) + 1}
Position(timers, t) ==
    CHOOSE i \in Following(timers, t) : \A j \in Following(timers, t) : i <= j

\* insert_before the timer at position i, or append.
InsertBefore(timers, i, t) ==
    SubSeq(timers, 1, i - 1) \o <<t>> \o SubSeq(timers, i, Len(timers))

\* (mutated: next_timer_due only follows the first timer of an empty queue)
MUT_AddTimerLocked(t) ==
    LET c == clock[t]
    IN  /\ Threads
        /\ user[t] = "adding"
        /\ list' = [list EXCEPT ![c] = InsertBefore(@, Position(@, t), t)]
        /\ due' = IF list[c] = <<>> THEN [due EXCEPT ![c] = expires[t]] ELSE due
        /\ refs' = [refs EXCEPT ![t] = @ + 1]
        /\ user' = [user EXCEPT ![t] = "holding"]
        /\ UNCHANGED <<now, executing, clock, expires, remaining, called, firing, deferred>>

\* (mutated: a timer is appended wherever it belongs)
MUT_AddTimerAppend(t) ==
    LET c == clock[t]
    IN  /\ Threads
        /\ user[t] = "adding"
        /\ list' = [list EXCEPT ![c] = Append(@, t)]
        /\ due' = [due EXCEPT ![c] = expires[Head(list'[c])]]
        /\ refs' = [refs EXCEPT ![t] = @ + 1]
        /\ user' = [user EXCEPT ![t] = "holding"]
        /\ UNCHANGED <<now, executing, clock, expires, remaining, called, firing, deferred>>

\* add_timer_locked; the queue gets a reference of its own.
AddTimerLocked(t) ==
    LET c == clock[t]
    IN  /\ Threads
        /\ user[t] = "adding"
        /\ list' = [list EXCEPT ![c] = InsertBefore(@, Position(@, t), t)]
        /\ due' = IF Position(list[c], t) = 1
                  THEN [due EXCEPT ![c] = expires[t]] ELSE due
        /\ refs' = [refs EXCEPT ![t] = @ + 1]
        /\ user' = [user EXCEPT ![t] = "holding"]
        /\ UNCHANGED <<now, executing, clock, expires, remaining, called, firing, deferred>>

Queued(t) == t \in Range(list[clock[t]])

\* InlineLinkedList::remove, of a timer that is in the list
Unlinked(timers, t) ==
    LET i == CHOOSE k \in DOMAIN timers : timers[k] = t
    IN  SubSeq(timers, 1, i - 1) \o SubSeq(timers, i + 1, Len(timers))

\* (mutated: the timer stays in the queue)
MUT_RemoveTimerLocked(t) == UNCHANGED <<list, due, remaining>>

\* remove_timer_locked: next_timer_due follows the head, and the timer keeps what
\* was left of its time.
RemoveTimerLocked(t) ==
    LET c == clock[t]
        rest == Unlinked(list[c], t)
    IN  /\ list' = [list EXCEPT ![c] = rest]
        /\ due' = IF Head(list[c]) = t THEN [due EXCEPT ![c] = HeadDue(rest)]
                  ELSE due
        /\ remaining' = IF expires[t] > now[c]
                        THEN [remaining EXCEPT ![t] = expires[t] - now[c]] ELSE remaining

\* cancel_timer finds the timer in its queue, and returns true.
Cancel(t) ==
    /\ Threads
    /\ user[t] = "holding"
    /\ Queued(t)
    /\ RemoveTimerLocked(t)
    /\ refs' = [refs EXCEPT ![t] = @ - 1]
    /\ user' = [user EXCEPT ![t] = "cancelled"]
    /\ UNCHANGED <<now, executing, clock, expires, called, firing, deferred>>

\* (mutated: cancel_timer does not wait for the handler)
MUT_CancelTooLate(t) ==
    /\ Threads
    /\ user[t] = "holding"
    /\ ~Queued(t)
    /\ user' = [user EXCEPT ![t] = "missed"]
    /\ UNCHANGED <<now, queueVars, clock, expires, remaining, refs, called,
                   firing, deferred>>

\* It does not, and returns false once the timer is not executing either;
\* until then it spins, releasing the lock.
CancelTooLate(t) ==
    /\ Threads
    /\ user[t] = "holding"
    /\ ~Queued(t)
    /\ t \notin executing
    /\ user' = [user EXCEPT ![t] = "missed"]
    /\ UNCHANGED <<now, queueVars, clock, expires, remaining, refs, called,
                   firing, deferred>>

\* RefCounted::unref: the last one frees the timer.
Unref(t) ==
    /\ refs' = [refs EXCEPT ![t] = @ - 1]
    /\ IF refs[t] = 1
       THEN /\ clock' = [clock EXCEPT ![t] = "monotonic"]
            /\ expires' = [expires EXCEPT ![t] = 0]
            /\ remaining' = [remaining EXCEPT ![t] = 0]
            /\ called' = [called EXCEPT ![t] = FALSE]
       ELSE UNCHANGED <<clock, expires, remaining, called>>

\* The user drops its reference: after cancel_timer or, in Thread::block, as
\* soon as the handler has told it that it ran (did_timeout).
Drop(t) ==
    /\ Threads
    /\ \/ user[t] \in {"cancelled", "missed"}
       \/ user[t] = "holding" /\ called[t]
    /\ Unref(t)
    /\ user' = [user EXCEPT ![t] = "none"]
    /\ UNCHANGED <<now, queueVars, firing, deferred>>

-----------------------------------------------------------------------------
(* TimerQueue::fire, and the deferred calls it makes                       *)

\* (mutated: a timer is due when its deadline has come)
MUT_Due(c) == list[c] # <<>> /\ now[c] >= expires[Head(list[c])]

Due(c) == list[c] # <<>> /\ now[c] > expires[Head(list[c])]

\* fire() serves the monotonic queue, then the realtime one.
Remaining(p) == IF firing[p] = "realtime" THEN {"realtime"} ELSE Clock
MayFire(p, c) ==
    /\ c \in Remaining(p)
    /\ Due(c)
    /\ c = "realtime" /\ "monotonic" \in Remaining(p) => ~Due("monotonic")
    /\ firing[p] = "idle" => deferred[p] = <<>>

\* (mutated: the timer is not entered in m_timers_executing)
MUT_FireTimer(p, c) ==
    LET t == Head(list[c])
    IN  /\ MayFire(p, c)
        /\ list' = [list EXCEPT ![c] = Tail(@)]
        /\ due' = [due EXCEPT ![c] = HeadDue(Tail(list[c]))]
        /\ deferred' = [deferred EXCEPT ![p] = Append(@, t)]
        /\ firing' = [firing EXCEPT ![p] = c]
        /\ UNCHANGED <<now, executing, timerVars>>

\* One turn of the loop, from lock.lock() to lock.unlock().
FireTimer(p, c) ==
    LET t == Head(list[c])
    IN  /\ MayFire(p, c)
        /\ list' = [list EXCEPT ![c] = Tail(@)]
        /\ due' = [due EXCEPT ![c] = HeadDue(Tail(list[c]))]
        /\ executing' = executing \union {t}
        /\ deferred' = [deferred EXCEPT ![p] = Append(@, t)]
        /\ firing' = [firing EXCEPT ![p] = c]
        /\ UNCHANGED <<now, timerVars>>

FireEnd(p) ==
    /\ firing[p] # "idle"
    /\ \A c \in Remaining(p) : ~Due(c)
    /\ firing' = [firing EXCEPT ![p] = "idle"]
    /\ UNCHANGED <<now, queueVars, timerVars, deferred>>

\* The deferred calls run one after the other when the interrupt is left:
\* first the handler,
RunCallback(p) ==
    LET t == Head(deferred[p])
    IN  /\ firing[p] = "idle"
        /\ deferred[p] # <<>>
        /\ ~called[t]
        /\ called' = [called EXCEPT ![t] = TRUE]
        /\ UNCHANGED <<now, queueVars, clock, expires, remaining, refs, user,
                       firing, deferred>>

\* (mutated: the queue's reference is not dropped)
MUT_FinishTimer(p) ==
    LET t == Head(deferred[p])
    IN  /\ firing[p] = "idle"
        /\ deferred[p] # <<>>
        /\ called[t]
        /\ executing' = executing \ {t}
        /\ deferred' = [deferred EXCEPT ![p] = Tail(@)]
        /\ UNCHANGED <<now, list, due, timerVars, firing>>

\* then, under the lock, the removal from m_timers_executing.
FinishTimer(p) ==
    LET t == Head(deferred[p])
    IN  /\ firing[p] = "idle"
        /\ deferred[p] # <<>>
        /\ called[t]
        /\ executing' = executing \ {t}
        /\ deferred' = [deferred EXCEPT ![p] = Tail(@)]
        /\ Unref(t)
        /\ UNCHANGED <<now, list, due, user, firing>>

-----------------------------------------------------------------------------
ProcessorStep(p) ==
    \/ \E c \in Clock : FireTimer(p, c)
    \/ FireEnd(p)
    \/ RunCallback(p) \/ FinishTimer(p)

Next ==
    \/ Tick
    \/ \E v \in Time : SetTime(v)
    \/ \E t \in Timer :
        \/ \E c \in Clock, deadline \in Time : Create(t, c, deadline)
        \/ AddTimerLocked(t) \/ Cancel(t) \/ CancelTooLate(t) \/ Drop(t)
    \/ \E p \in Processor : ProcessorStep(p)

Spec == Init /\ [][Next]_vars

\* Timer interrupts keep coming on every processor, and an interrupt runs to
\* its end with its deferred calls.
FairSpec == Spec /\ \A p \in Processor : WF_vars(ProcessorStep(p))

-----------------------------------------------------------------------------
(* Properties                                                              *)

\* The types of the queues, the timers and their users; a timer is in one list
\* at most once, of its own clock.
TypeOK ==
    /\ now \in [Clock -> Time]
    /\ list \in [Clock -> Seq(Timer)]
    /\ \A c \in Clock : \A i, j \in DOMAIN list[c] :
        clock[list[c][i]] = c /\ (list[c][i] = list[c][j] => i = j)
    /\ due \in [Clock -> Time]
    /\ executing \subseteq Timer
    /\ clock \in [Timer -> Clock]
    /\ expires \in [Timer -> Time]
    /\ remaining \in [Timer -> Time]
    /\ refs \in [Timer -> 0..2]
    /\ called \in [Timer -> BOOLEAN]
    /\ user \in [Timer -> {"none", "adding", "holding", "cancelled", "missed"}]
    /\ firing \in [Processor -> Clock \union {"idle"}]
    /\ deferred \in [Processor -> Seq(Timer)]

\* VERIFY(queue.next_timer_due == timer->m_expires) in fire(), and what the
\* loop of fire() relies on when it looks at the head only: next_timer_due is
\* the earliest deadline of the queue.
DueExact ==
    \A c \in Clock :
        /\ due[c] = HeadDue(list[c])
        /\ \A t \in Range(list[c]) : due[c] <= expires[t]

\* The comments in cancel_timer: when it has returned, the handler neither
\* runs nor will run ("at this point the handler should have completed"), and
\* its result says whether it ever did.
CancelSettles ==
    \A t \in Timer : user[t] \in {"cancelled", "missed"} =>
        /\ ~Queued(t) /\ t \notin executing
        /\ \A p \in Processor : t \notin Range(deferred[p])
        /\ called[t] <=> user[t] = "missed"

\* A timer has one reference of its user and one of the queue that it is in or
\* of the deferred call that will run it: none is freed while either is left
\* (VERIFY(timer.ref_count() > 1) in cancel_timer), and none is leaked.
RefsExact ==
    \A t \in Timer :
        refs[t] = (IF user[t] = "none" THEN 0 ELSE 1)
                  + (IF Queued(t) THEN 1 ELSE 0)
                  + Cardinality({p \in Processor : t \in Range(deferred[p])})

\* A handler runs only while its user still holds the timer, so what the
\* lambdas of Thread::block and sys$alarm captured is alive.
HandlerHasUser ==
    [][\A t \in Timer : ~called[t] /\ called'[t] => user[t] = "holding"]_vars

\* A timer whose monotonic deadline has passed runs, unless it is cancelled.
ExpiredRuns ==
    \A t \in Timer :
        Queued(t) /\ clock[t] = "monotonic" /\ now["monotonic"] > expires[t]
            ~> called[t] \/ user[t] = "cancelled"

\* What has become of timer t, as far as its user can tell.
Phase(t) ==
    IF Queued(t) THEN "armed"
    ELSE IF t \in executing THEN (IF called[t] THEN "ran" ELSE "expired")
    ELSE IF called[t] THEN "done" ELSE "idle"

Phases == [t \in Timer |-> Phase(t)]

\* What the timers promise, without their representation.
Abstract == INSTANCE OneShotTimer WITH deadline <- expires, phase <- Phases

\* TimerQueue implements one-shot timers: each runs at most once, not before
\* its deadline (the condition of the loop in fire()), and not after
\* cancel_timer returned, whatever interrupts, deferred calls and other users
\* do meanwhile.
ImplementsOneShot == Abstract!Spec
=============================================================================
