----------------------------- MODULE KernelLock -----------------------------
(***************************************************************************)
(* Kernel/Lock.cpp over Kernel/WaitQueue.cpp: the sleeping reader/writer   *)
(* lock that protects most kernel objects and, as the process "big lock",  *)
(* every system call.                                                      *)
(*                                                                         *)
(* Granularity.  The statements between m_lock.exchange(true) and          *)
(* m_lock.store(false) are one step: they run in a critical section and    *)
(* every other thread that meets m_lock = true yields and retries.  The    *)
(* only other shared object such a section touches is the wait queue's     *)
(* m_should_block, written by its last statement.  Everything a function   *)
(* does after m_lock.store(false) is a step of its own, and so is every    *)
(* section under the wait queue's spin lock.                               *)
(*                                                                         *)
(* Registering a blocker and Blocker::begin_blocking are one step: they    *)
(* run with interrupts disabled on the one processor that schedules        *)
(* (module ThreadBlocking has them apart).                                 *)
(***************************************************************************)
EXTENDS Integers, Sequences, FiniteSets, Functions

CONSTANTS
    Thread,     \* the threads that use the lock
    Nil,        \* m_holder == nullptr
    Modes,      \* the modes callers pass to lock()
    MaxNest,    \* bound: lock() calls a thread may have outstanding
    BigLock,    \* TRUE: this lock is the big lock of the threads' process
    Stoppable   \* threads that job control may stop (user threads)

\* sys$ entry takes the big lock with the default mode (Syscall.cpp:154).
ASSUME LockAssumption ==
    /\ Nil \notin Thread
    /\ Modes \subseteq {"Shared", "Exclusive"}
    /\ MaxNest \in Nat
    /\ BigLock \in BOOLEAN
    /\ BigLock => Modes = {"Exclusive"}
    /\ Stoppable \subseteq Thread

VARIABLES
    mode,           \* m_mode
    holder,         \* m_holder
    shared_holders, \* m_shared_holders; 0 stands for "no entry"
    times_locked,   \* m_times_locked
    blockers,       \* m_queue.m_blockers: threads whose QueueBlocker is queued
    wake_requested, \* m_queue.m_wake_requested
    should_block,   \* m_queue.m_should_block
    pc,             \* where each thread is in the lock's code
    want,           \* the mode argument of a thread's pending lock()
    grants,         \* lock() calls that returned, not yet unlocked, by mode
    saved,          \* result of force_unlock_if_locked: mode and count
    parked,         \* the grants a force-unlocked thread expects back
    stopped         \* threads in state Stopped while they sleep here

lockVars  == <<mode, holder, shared_holders, times_locked>>
queueVars == <<blockers, wake_requested, should_block>>
callerVars == <<want, grants, saved, parked>>
vars == <<lockVars, queueVars, callerVars, pc, stopped>>

LockMode == {"Unlocked", "Shared", "Exclusive"}

NoGrants == [Shared |-> 0, Exclusive |-> 0]
NoSaved  == [mode |-> "Unlocked", count |-> 0]
Total(g) == g.Shared + g.Exclusive

Init ==
    /\ mode = "Unlocked"
    /\ holder = Nil
    /\ shared_holders = [t \in Thread |-> 0]
    /\ times_locked = 0
    /\ blockers = <<>>
    /\ wake_requested = FALSE
    /\ should_block = TRUE
    /\ pc = [t \in Thread |-> "out"]
    /\ want = [t \in Thread |-> "Exclusive"]
    /\ grants = [t \in Thread |-> NoGrants]
    /\ saved = [t \in Thread |-> NoSaved]
    /\ parked = [t \in Thread |-> NoGrants]
    /\ stopped = {}

Goto(t, label) == pc' = [pc EXCEPT ![t] = label]

-----------------------------------------------------------------------------
(* WaitQueue                                                               *)

\* A thread removed from m_blockers leaves Thread::block unless it is still
\* on its way into or out of it; a stopped one is left alone by
\* Thread::unblock_from_blocker.
Awaken(pcs, u) ==
    IF pcs[u] = "blocked" /\ u \notin stopped
    THEN [pcs EXCEPT ![u] = "lock"]
    ELSE pcs

\* (mutated: the newest waiter is woken first)
MUT_WakeNewest(t, label) ==
    IF blockers = <<>>
    THEN /\ wake_requested' = TRUE
         /\ Goto(t, label)
         /\ UNCHANGED blockers
    ELSE /\ wake_requested' = FALSE
         /\ blockers' = SubSeq(blockers, 1, Len(blockers) - 1)
         /\ pc' = Awaken([pc EXCEPT ![t] = label], blockers[Len(blockers)])

\* WaitQueue::wake_one, continuing its caller t at label.
WakeOne(t, label) ==
    IF blockers = <<>>
    THEN /\ wake_requested' = TRUE
         /\ Goto(t, label)
         /\ UNCHANGED blockers
    ELSE /\ wake_requested' = FALSE
         /\ blockers' = Tail(blockers)
         /\ pc' = Awaken([pc EXCEPT ![t] = label], Head(blockers))

\* WaitQueue::wake_all, continuing its caller t at label.
WakeAll(t, label) ==
    /\ wake_requested' = (blockers = <<>>)
    /\ blockers' = <<>>
    /\ pc' = [u \in Thread |->
                IF u = t THEN label
                ELSE IF u \in Range(blockers) THEN Awaken(pc, u)[u]
                ELSE pc[u]]

-----------------------------------------------------------------------------
(* Lock::lock                                                              *)

\* A caller enters lock(m).
EnterLock(t, m) ==
    /\ pc[t] = "out"
    /\ Total(grants[t]) < MaxNest
    /\ want' = [want EXCEPT ![t] = m]
    /\ Goto(t, "lock")
    /\ UNCHANGED <<lockVars, queueVars, grants, saved, parked, stopped>>

Granted(t) ==
    /\ grants' = [grants EXCEPT ![t][want[t]] = @ + 1]
    /\ Goto(t, "out")
    /\ UNCHANGED <<blockers, wake_requested, want, saved, parked, stopped>>

\* case Mode::Unlocked
LockUnlocked(t) ==
    /\ pc[t] = "lock"
    /\ mode = "Unlocked"
    /\ mode' = want[t]
    /\ IF want[t] = "Exclusive"
       THEN holder' = t /\ UNCHANGED shared_holders
       ELSE shared_holders' = [shared_holders EXCEPT ![t] = 1] /\ UNCHANGED holder
    /\ times_locked' = times_locked + 1
    /\ should_block' = TRUE
    /\ Granted(t)

\* (mutated: the recursive acquisition is not counted)
MUT_LockRecursiveUncounted(t) ==
    /\ pc[t] = "lock"
    /\ mode = "Exclusive"
    /\ holder = t
    /\ Granted(t)
    /\ UNCHANGED <<lockVars, should_block>>

\* case Mode::Exclusive, m_holder == current_thread: either mode is granted
LockRecursive(t) ==
    /\ pc[t] = "lock"
    /\ mode = "Exclusive"
    /\ holder = t
    /\ times_locked' = times_locked + 1
    /\ Granted(t)
    /\ UNCHANGED <<mode, holder, shared_holders, should_block>>

\* (mutated: a writer is let in among readers)
MUT_LockSharedAny(t) ==
    /\ pc[t] = "lock"
    /\ mode = "Shared"
    /\ times_locked' = times_locked + 1
    /\ shared_holders' = [shared_holders EXCEPT ![t] = @ + 1]
    /\ Granted(t)
    /\ UNCHANGED <<mode, holder, should_block>>

\* case Mode::Shared, mode == Mode::Shared
LockShared(t) ==
    /\ pc[t] = "lock"
    /\ mode = "Shared"
    /\ want[t] = "Shared"
    /\ times_locked' = times_locked + 1
    /\ shared_holders' = [shared_holders EXCEPT ![t] = @ + 1]
    /\ Granted(t)
    /\ UNCHANGED <<mode, holder, should_block>>

\* the two breaks: m_lock is released before the thread queues itself
LockContended(t) ==
    /\ pc[t] = "lock"
    /\ \/ mode = "Exclusive" /\ holder # t
       \/ mode = "Shared" /\ want[t] # "Shared"
    /\ Goto(t, "wait")
    /\ UNCHANGED <<lockVars, queueVars, callerVars, stopped>>

\* m_queue.wait_forever up to the yield: WaitQueue::should_add_blocker
\* decides whether the QueueBlocker is queued; a refused one is NotBlocked.
Wait(t) ==
    /\ pc[t] = "wait"
    /\ IF wake_requested \/ ~should_block
       THEN /\ wake_requested' = FALSE
            /\ Goto(t, "lock")
            /\ UNCHANGED blockers
       ELSE /\ blockers' = Append(blockers, t)
            /\ Goto(t, IF BigLock THEN "drop" ELSE "blocked")
            /\ UNCHANGED wake_requested
    /\ UNCHANGED <<lockVars, should_block, callerVars, stopped>>

\* Thread::block calls unlock_process_if_locked before it yields.  On the
\* very lock it waits for this finds another holder, and returns, or finds
\* the lock free meanwhile, and goes on to wake_one.
DropBigLock(t) ==
    /\ pc[t] = "drop"
    /\ IF mode = "Unlocked"
       THEN Goto(t, "dropwake")
       ELSE Goto(t, IF t \in Range(blockers) THEN "blocked" ELSE "lock")
    /\ UNCHANGED <<lockVars, queueVars, callerVars, stopped>>

DropWake(t) ==
    /\ pc[t] = "dropwake"
    /\ WakeOne(t, IF blockers # <<>> /\ t \in Range(Tail(blockers))
                  THEN "blocked" ELSE "lock")
    /\ UNCHANGED <<lockVars, should_block, callerVars, stopped>>

\* A signal or the death of the thread unblocks it: Thread::unblock clears
\* m_blocker, the QueueBlocker itself stays queued.
Interrupt(t) ==
    /\ pc[t] = "blocked"
    /\ t \notin stopped
    /\ Goto(t, "unwind")
    /\ UNCHANGED <<lockVars, queueVars, callerVars, stopped>>

\* ~Blocker removes it from the queue if a wake has not done so already;
\* lock() ignores the BlockResult and tries again.
Unwind(t) ==
    /\ pc[t] = "unwind"
    /\ \/ t \notin Range(blockers) /\ UNCHANGED blockers
       \/ \E i \in DOMAIN blockers :
            /\ blockers[i] = t
            /\ blockers' = SubSeq(blockers, 1, i - 1)
                               \o SubSeq(blockers, i + 1, Len(blockers))
    /\ Goto(t, "lock")
    /\ UNCHANGED <<lockVars, wake_requested, should_block, callerVars, stopped>>

\* Thread::set_state(Stopped) on a Blocked peer of the process.
Stop(t) ==
    /\ t \in Stoppable \ stopped
    /\ pc[t] = "blocked"
    /\ stopped' = stopped \cup {t}
    /\ UNCHANGED <<lockVars, queueVars, callerVars, pc>>

\* Thread::resume_from_stopped: m_blocker is still set, so the thread is
\* Blocked again whether or not it was woken in between.
Continue(t) ==
    /\ t \in stopped
    /\ stopped' = stopped \ {t}
    /\ UNCHANGED <<lockVars, queueVars, callerVars, pc>>

-----------------------------------------------------------------------------
(* Lock::unlock                                                            *)

\* The section under m_lock.  g is the mode the caller had asked for.
Unlock(t, g) ==
    /\ pc[t] = "out"
    /\ grants[t][g] > 0
    /\ grants' = [grants EXCEPT ![t][g] = @ - 1]
    /\ times_locked' = times_locked - 1
    /\ IF mode = "Exclusive"
       THEN /\ holder' = IF times_locked' = 0 THEN Nil ELSE holder
            /\ UNCHANGED shared_holders
       ELSE /\ shared_holders' = [shared_holders EXCEPT ![t] = @ - 1]
            /\ UNCHANGED holder
    /\ IF times_locked' = 0
       THEN /\ mode' = "Unlocked"
            /\ should_block' = FALSE
            /\ Goto(t, "wake")
       ELSE UNCHANGED <<mode, should_block, pc>>
    /\ UNCHANGED <<blockers, wake_requested, want, saved, parked, stopped>>

\* (mutated: the last unlock wakes nobody)
MUT_UnlockSilently(t) ==
    /\ pc[t] = "wake"
    /\ Goto(t, "out")
    /\ UNCHANGED <<lockVars, queueVars, callerVars, stopped>>

\* if (unlocked_last) m_queue.wake_one()
UnlockWake(t) ==
    /\ pc[t] = "wake"
    /\ WakeOne(t, "out")
    /\ UNCHANGED <<lockVars, should_block, callerVars, stopped>>

-----------------------------------------------------------------------------
(* Lock::force_unlock_if_locked, restore_lock, clear_waiters               *)

\* The section under m_lock.  restores: whether the caller will call
\* restore_lock (Thread::block, yield_without_holding_big_lock) or not
\* (Thread::die_if_needed, sys$execve).
ForceUnlock(t, restores) ==
    /\ pc[t] = "out"
    /\ \/ /\ mode = "Exclusive"
          /\ holder = t
          /\ holder' = Nil
          /\ saved' = [saved EXCEPT ![t] = [mode |-> mode, count |-> times_locked]]
          /\ times_locked' = 0
          /\ mode' = "Unlocked"
          /\ should_block' = FALSE
          /\ UNCHANGED shared_holders
       \/ /\ mode = "Shared"
          /\ shared_holders[t] > 0
          /\ saved' = [saved EXCEPT ![t] = [mode |-> mode, count |-> shared_holders[t]]]
          /\ shared_holders' = [shared_holders EXCEPT ![t] = 0]
          /\ times_locked' = times_locked - shared_holders[t]
          /\ IF times_locked' = 0
             THEN mode' = "Unlocked" /\ should_block' = FALSE
             ELSE UNCHANGED <<mode, should_block>>
          /\ UNCHANGED holder
       \/ /\ mode = "Unlocked"
          /\ saved' = [saved EXCEPT ![t] = NoSaved]
          /\ UNCHANGED <<lockVars, should_block>>
    /\ parked' = [parked EXCEPT ![t] = IF restores THEN grants[t] ELSE NoGrants]
    /\ grants' = [grants EXCEPT ![t] = NoGrants]
    /\ Goto(t, IF restores THEN "forcewake" ELSE "diewake")
    /\ UNCHANGED <<blockers, wake_requested, want, stopped>>

\* the unconditional m_queue.wake_one()
ForceWake(t) ==
    /\ \/ pc[t] = "forcewake"
          /\ WakeOne(t, IF saved[t].mode = "Unlocked" THEN "out" ELSE "away")
          /\ UNCHANGED saved
       \/ pc[t] = "diewake"
          /\ WakeOne(t, "out")
          /\ saved' = [saved EXCEPT ![t] = NoSaved]
    /\ UNCHANGED <<lockVars, should_block, want, grants, parked, stopped>>

\* The modes restore_lock's compare_exchange on m_mode lets through.
MUT_RestorableModes(m) == LockMode
RestorableModes(m) ==
    IF m = "Exclusive" THEN {"Unlocked"} ELSE {"Unlocked", "Shared"}

\* The successful pass of restore_lock's spin loop.
RestoreLock(t) ==
    /\ pc[t] = "away"
    /\ mode \in RestorableModes(saved[t].mode)
    /\ mode' = saved[t].mode
    /\ IF saved[t].mode = "Exclusive"
       THEN /\ times_locked' = saved[t].count
            /\ holder' = t
            /\ UNCHANGED shared_holders
       ELSE /\ times_locked' = times_locked + saved[t].count
            /\ shared_holders' = [shared_holders EXCEPT ![t] = saved[t].count]
            /\ UNCHANGED holder
    /\ should_block' = TRUE
    /\ grants' = [grants EXCEPT ![t] = parked[t]]
    /\ parked' = [parked EXCEPT ![t] = NoGrants]
    /\ saved' = [saved EXCEPT ![t] = NoSaved]
    /\ Goto(t, "out")
    /\ UNCHANGED <<blockers, wake_requested, want, stopped>>

\* Process::kill_threads_except_self, in a system call that holds the lock.
ClearWaiters(t) ==
    /\ BigLock
    /\ pc[t] = "out"
    /\ mode = "Exclusive"
    /\ holder = t
    /\ WakeAll(t, "out")
    /\ UNCHANGED <<lockVars, should_block, callerVars, stopped>>

-----------------------------------------------------------------------------

Next ==
    \E t \in Thread :
        \/ \E m \in Modes : EnterLock(t, m)
        \/ LockUnlocked(t)
        \/ LockRecursive(t)
        \/ LockShared(t)
        \/ LockContended(t)
        \/ Wait(t)
        \/ DropBigLock(t)
        \/ DropWake(t)
        \/ Interrupt(t)
        \/ Unwind(t)
        \/ Stop(t)
        \/ Continue(t)
        \/ \E g \in Modes : Unlock(t, g)
        \/ UnlockWake(t)
        \/ \E restores \in BOOLEAN : ForceUnlock(t, restores)
        \/ ForceWake(t)
        \/ RestoreLock(t)
        \/ ClearWaiters(t)

Spec == Init /\ [][Next]_vars

\* A thread inside the lock's code keeps being scheduled.
KernelStep(t) ==
    \/ LockUnlocked(t) \/ LockRecursive(t) \/ LockShared(t) \/ LockContended(t)
    \/ Wait(t) \/ DropBigLock(t) \/ DropWake(t) \/ Unwind(t)
    \/ UnlockWake(t) \/ ForceWake(t)

\* Locker scopes end, the outermost one included.
UnlockAny(t)  == \E g \in Modes : Unlock(t, g)
UnlockLast(t) == times_locked = 1 /\ UnlockAny(t)

FairSpec ==
    /\ Spec
    /\ \A t \in Thread :
          WF_vars(KernelStep(t)) /\ WF_vars(UnlockAny(t)) /\ SF_vars(UnlockLast(t))

-----------------------------------------------------------------------------
(* Properties                                                              *)

Label == {"out", "lock", "wait", "drop", "dropwake", "blocked", "unwind",
          "wake", "forcewake", "diewake", "away"}

\* Type correctness of the Lock's and the WaitQueue's members.
TypeOK ==
    /\ mode \in LockMode
    /\ holder \in Thread \cup {Nil}
    /\ shared_holders \in [Thread -> Nat]
    /\ times_locked \in Nat
    /\ blockers \in Seq(Thread)
    /\ wake_requested \in BOOLEAN
    /\ should_block \in BOOLEAN
    /\ pc \in [Thread -> Label]
    /\ want \in [Thread -> {"Shared", "Exclusive"}]
    /\ grants \in [Thread -> [Shared : Nat, Exclusive : Nat]]
    /\ saved \in [Thread -> [mode : LockMode, count : Nat]]
    /\ parked \in [Thread -> [Shared : Nat, Exclusive : Nat]]
    /\ stopped \subseteq Stoppable

\* A thread whose lock(Mode::Exclusive) has returned, and that has not given
\* the lock back, is the only thread inside: nobody else is between lock()
\* and unlock(), whatever was force-unlocked and restored in between.
MutualExclusion ==
    \A t, u \in Thread :
        t # u /\ grants[t].Exclusive > 0 => Total(grants[u]) = 0

\* m_times_locked counts exactly the outstanding lock() calls: it is what
\* unlock() relies on when it turns 0 into Mode::Unlocked.
Holds(g) == UNION {{t} \X (1 .. Total(g[t])) : t \in Thread}
CountExact == times_locked = Cardinality(Holds(grants))

\* An unlocked Lock is empty.
UnlockedInv ==
    mode = "Unlocked" =>
        /\ holder = Nil
        /\ times_locked = 0
        /\ \A t \in Thread : shared_holders[t] = 0 /\ grants[t] = NoGrants

\* An exclusive Lock counts the grants of its holder; nobody else has any.
ExclusiveInv ==
    mode = "Exclusive" =>
        /\ holder \in Thread
        /\ times_locked > 0
        /\ times_locked = Total(grants[holder])
        /\ \A t \in Thread : shared_holders[t] = 0
        /\ \A t \in Thread \ {holder} : grants[t] = NoGrants

\* A shared Lock has no writer and counts its readers in m_shared_holders.
SharedInv ==
    mode = "Shared" =>
        /\ holder = Nil
        /\ times_locked > 0
        /\ \A t \in Thread :
              grants[t].Exclusive = 0 /\ shared_holders[t] = grants[t].Shared

\* A force-unlocked thread has no grant left, and what restore_lock will put
\* back is what force_unlock_if_locked took.
Detached == {"forcewake", "diewake", "away"}
DetachedInv(t) ==
    IF pc[t] \in Detached
    THEN /\ grants[t] = NoGrants
         /\ pc[t] # "diewake" => saved[t].count = Total(parked[t])
         /\ pc[t] = "diewake" => parked[t] = NoGrants
         /\ pc[t] = "away" => saved[t].mode # "Unlocked"
         /\ saved[t].mode = "Unlocked" <=> saved[t].count = 0
         /\ saved[t].mode = "Shared" => parked[t].Exclusive = 0
    ELSE parked[t] = NoGrants /\ saved[t] = NoSaved

\* The VERIFYs of Lock.cpp never fire, and what they rest on.
LockInv ==
    /\ UnlockedInv
    /\ ExclusiveInv
    /\ SharedInv
    /\ \A t \in Thread : DetachedInv(t)

\* No wake-up is lost: while the lock is free and a thread sleeps in the
\* queue, some thread is already past its sleep and will try the lock, or
\* still owes the queue a wake_one.
NoLostWakeup ==
    (mode = "Unlocked" /\ \E t \in Thread : pc[t] = "blocked") =>
        \E u \in Thread : pc[u] \in {"lock", "wait", "drop", "dropwake",
                                     "unwind", "wake", "forcewake", "diewake"}

\* A thread that sleeps in m_queue is unblocked again.
SleeperWoken ==
    \A t \in Thread : pc[t] = "blocked" ~> pc[t] # "blocked"

\* Thread.cpp:657-662: a thread that resume_from_stopped puts back to
\* Blocked "hasn't been unblocked yet"; one that "was unblocked while
\* stopped" becomes Runnable.
BlockedMeansQueued ==
    \A t \in Thread :
        pc[t] = "blocked" /\ t \notin stopped => t \in Range(blockers)

\* What the lock promises, without its representation.
Abstract == INSTANCE RWLock WITH grants <- grants, parked <- parked

\* Lock implements the abstract reader/writer lock.
ImplementsRWLock == Abstract!Spec
=============================================================================
