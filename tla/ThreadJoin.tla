----------------------------- MODULE ThreadJoin -----------------------------
(***************************************************************************)
(* The end of a thread: sys$exit_thread, sys$join_thread, sys$detach_thread*)
(* (Syscalls/thread.cpp), the JoinBlocker and its condition, the killing   *)
(* of a process's threads by sys$exit and execve, and the finalizer task   *)
(* that turns Dying threads into Dead ones (Thread.cpp, FinalizerTask.cpp).*)
(*                                                                         *)
(* Granularity.  A system call holds the process big lock: it is one step  *)
(* up to the point where it gives the lock up or can be preempted in a way *)
(* that matters.  A step of the finalizer is one section of its loop.      *)
(***************************************************************************)
EXTENDS Integers, FiniteSets

CONSTANTS
    Thread,     \* the threads of the process
    Nobody      \* the big lock has no holder

ASSUME JoinAssumption == IsFiniteSet(Thread) /\ Nobody \notin Thread

VARIABLES
    pc,             \* where each thread is in its life
    joinable,       \* m_is_joinable
    did_exit,       \* JoinBlockCondition::m_thread_did_exit
    should_die,     \* m_should_die
    blockers,       \* the JoinBlockers registered with each m_join_condition
    joinee,         \* JoinBlocker::m_joinee of a joining thread
    big_lock,       \* the holder of the big lock between two steps
    has_work,       \* g_finalizer_has_work
    wake_requested, \* g_finalizer_wait_queue's m_wake_requested
    finalizer,      \* where FinalizerTask is in its loop
    dying_threads   \* the vector of finalize_dying_threads

joinVars == <<joinable, did_exit, blockers, joinee>>
finalizerVars == <<has_work, wake_requested, finalizer, dying_threads>>
vars == <<pc, should_die, big_lock, joinVars, finalizerVars>>

Alive == {"run", "joining", "unwinding", "killing", "exiting"}

Init ==
    /\ pc = [t \in Thread |-> "run"]
    /\ joinable = [t \in Thread |-> TRUE]
    /\ did_exit = [t \in Thread |-> FALSE]
    /\ should_die = [t \in Thread |-> FALSE]
    /\ blockers = [t \in Thread |-> {}]
    /\ joinee = [t \in Thread |-> t]
    /\ big_lock = Nobody
    /\ has_work = FALSE
    /\ wake_requested = FALSE
    /\ finalizer = "loop"
    /\ dying_threads = {}

Goto(t, label) == pc' = [pc EXCEPT ![t] = label]

\* Thread t starts a system call.
Syscall(t) == pc[t] = "run" /\ big_lock = Nobody

\* Process::thread_count: threads leave it when they are finalized.
ThreadCount == Cardinality({t \in Thread : pc[t] # "Dead"})

-----------------------------------------------------------------------------
(* sys$join_thread and sys$detach_thread                                   *)

\* (mutated: the joinee stays joinable)
MUT_TryJoin(j, t) ==
    /\ Syscall(j)
    /\ j # t
    /\ joinable[t] /\ pc[t] # "Dead"
    /\ UNCHANGED joinable

\* Thread::try_join succeeds.
TryJoin(j, t) ==
    /\ Syscall(j)
    /\ j # t
    /\ joinable[t] /\ pc[t] # "Dead"
    /\ joinable' = [joinable EXCEPT ![t] = FALSE]

\* should_add_blocker finds that t has exited: NotBlocked.
JoinExited(j, t) ==
    /\ TryJoin(j, t)
    /\ did_exit[t]
    /\ UNCHANGED <<pc, should_die, big_lock, did_exit, blockers, joinee, finalizerVars>>

\* The JoinBlocker is registered and block() gives up the big lock.
JoinBlock(j, t) ==
    /\ TryJoin(j, t)
    /\ ~did_exit[t]
    /\ blockers' = [blockers EXCEPT ![t] = @ \union {j}]
    /\ joinee' = [joinee EXCEPT ![j] = t]
    /\ Goto(j, "joining")
    /\ UNCHANGED <<should_die, big_lock, did_exit, finalizerVars>>

\* block() has the big lock back and returns: ~Blocker.
JoinReturn(j) ==
    /\ pc[j] = "unwinding"
    /\ big_lock = Nobody
    /\ blockers' = [blockers EXCEPT ![joinee[j]] = @ \ {j}]
    /\ Goto(j, "run")
    /\ UNCHANGED <<should_die, big_lock, joinable, did_exit, joinee, finalizerVars>>

Detach(d, t) ==
    /\ Syscall(d)
    /\ joinable[t]
    /\ joinable' = [joinable EXCEPT ![t] = FALSE]
    /\ UNCHANGED <<pc, should_die, big_lock, did_exit, blockers, joinee, finalizerVars>>

-----------------------------------------------------------------------------
(* Threads exit, are killed and die                                        *)

\* (mutated: the joiner is not unblocked)
MUT_ExitThread(t) ==
    /\ Syscall(t)
    /\ ThreadCount > 1
    /\ did_exit' = [did_exit EXCEPT ![t] = TRUE]
    /\ should_die' = [should_die EXCEPT ![t] = TRUE]
    /\ Goto(t, "exiting")
    /\ UNCHANGED <<big_lock, joinable, blockers, joinee, finalizerVars>>

\* (mutated: m_thread_did_exit is not set)
MUT_ExitThreadUnset(t) ==
    /\ Syscall(t)
    /\ ThreadCount > 1
    /\ should_die' = [should_die EXCEPT ![t] = TRUE]
    /\ pc' = [u \in Thread |-> IF u = t THEN "exiting"
                               ELSE IF u \in blockers[t] /\ pc[u] = "joining"
                               THEN "unwinding" ELSE pc[u]]
    /\ blockers' = [blockers EXCEPT ![t] = {}]
    /\ UNCHANGED <<big_lock, joinable, did_exit, joinee, finalizerVars>>

\* sys$exit_thread of a thread that is not the last one: thread_did_exit
\* unblocks the joiner, then Thread::exit.
ExitThread(t) ==
    /\ Syscall(t)
    /\ ThreadCount > 1
    /\ did_exit' = [did_exit EXCEPT ![t] = TRUE]
    /\ should_die' = [should_die EXCEPT ![t] = TRUE]
    /\ pc' = [u \in Thread |-> IF u = t THEN "exiting"
                               ELSE IF u \in blockers[t] /\ pc[u] = "joining"
                               THEN "unwinding" ELSE pc[u]]
    /\ blockers' = [blockers EXCEPT ![t] = {}]
    /\ UNCHANGED <<big_lock, joinable, joinee, finalizerVars>>

\* detach and set_should_die for the threads of set, by k, which keeps the big
\* lock: a joining thread is unblocked, its blocker stays registered.
KillThreads(k, set) ==
    /\ joinable' = [t \in Thread |-> joinable[t] /\ t \notin set]
    /\ should_die' = [t \in Thread |-> should_die[t] \/ t \in set]
    /\ pc' = [t \in Thread |-> IF t = k THEN "killing"
                               ELSE IF t \in set /\ pc[t] = "joining" THEN "unwinding"
                               ELSE pc[t]]
    /\ big_lock' = k
    /\ UNCHANGED <<did_exit, blockers, joinee, finalizerVars>>

\* sys$exit, also on behalf of the last thread: kill_all_threads.
ExitProcess(k) ==
    /\ Syscall(k)
    /\ KillThreads(k, Thread)

\* execve: kill_threads_except_self spares the threads that die already.
Exec(k) ==
    /\ Syscall(k)
    /\ KillThreads(k, {t \in Thread : t # k /\ pc[t] \notin {"Dying", "Dead"}})

\* The system call of k ends and gives the big lock back.
KillDone(k) ==
    /\ pc[k] = "killing"
    /\ big_lock' = Nobody
    /\ Goto(k, IF should_die[k] THEN "exiting" ELSE "run")
    /\ UNCHANGED <<should_die, joinVars, finalizerVars>>

\* (mutated: a waiting finalizer is woken only when it has work already)
MUT_NotifyFinalizer ==
    /\ has_work' = TRUE
    /\ IF ~has_work THEN UNCHANGED <<wake_requested, finalizer>>
       ELSE /\ wake_requested' = (finalizer # "waiting")
            /\ finalizer' = IF finalizer = "waiting" THEN "woken" ELSE finalizer

\* Scheduler::notify_finalizer, with WaitQueue::wake_all.
NotifyFinalizer ==
    /\ has_work' = TRUE
    /\ IF has_work THEN UNCHANGED <<wake_requested, finalizer>>
       ELSE /\ wake_requested' = (finalizer # "waiting")
            /\ finalizer' = IF finalizer = "waiting" THEN "woken" ELSE finalizer

\* pick_next makes a thread that should die Dying wherever it executes, and
\* the thread switched to notifies the finalizer.
Die(t) ==
    /\ should_die[t]
    /\ pc[t] \in Alive \ {"joining"}
    /\ Goto(t, "Dying")
    /\ NotifyFinalizer
    /\ UNCHANGED <<should_die, big_lock, joinVars, dying_threads>>

-----------------------------------------------------------------------------
(* FinalizerTask                                                           *)

\* g_finalizer_wait_queue->wait_forever
FinalizerWait ==
    /\ finalizer = "loop"
    /\ finalizer' = IF wake_requested THEN "woken" ELSE "waiting"
    /\ wake_requested' = FALSE
    /\ UNCHANGED <<pc, should_die, big_lock, joinVars, has_work, dying_threads>>

\* g_finalizer_has_work.exchange(false)
FinalizerWoken ==
    /\ finalizer = "woken"
    /\ finalizer' = IF has_work THEN "collect" ELSE "loop"
    /\ has_work' = FALSE
    /\ UNCHANGED <<pc, should_die, big_lock, joinVars, wake_requested, dying_threads>>

\* (mutated: threads that may still be joined are collected)
MUT_Finalizable(t) == pc[t] = "Dying"

\* Thread::is_finalizable of a Dying thread.
Finalizable(t) == pc[t] = "Dying" /\ ~joinable[t]

FinalizerCollect ==
    /\ finalizer = "collect"
    /\ dying_threads' = {t \in Thread : Finalizable(t)}
    /\ finalizer' = "finalize"
    /\ UNCHANGED <<pc, should_die, big_lock, joinVars, has_work, wake_requested>>

\* VERIFY(m_thread_did_exit) in exit_value(), which thread_finalizing evaluates
\* for every registered blocker.
MayFinalize(t) == blockers[t] # {} => did_exit[t]

\* Thread::finalize
Finalize(t) ==
    /\ finalizer = "finalize"
    /\ t \in dying_threads
    /\ MayFinalize(t)
    /\ Goto(t, "Dead")
    /\ dying_threads' = dying_threads \ {t}
    /\ UNCHANGED <<should_die, big_lock, joinVars, has_work, wake_requested, finalizer>>

FinalizerDone ==
    /\ finalizer = "finalize"
    /\ dying_threads = {}
    /\ finalizer' = "loop"
    /\ UNCHANGED <<pc, should_die, big_lock, joinVars, has_work, wake_requested,
                   dying_threads>>

-----------------------------------------------------------------------------
FinalizerStep ==
    \/ FinalizerWait \/ FinalizerWoken \/ FinalizerCollect \/ FinalizerDone
    \/ \E t \in Thread : Finalize(t)

Next ==
    \/ \E t \in Thread :
        \/ \E u \in Thread : JoinExited(t, u) \/ JoinBlock(t, u)
        \/ JoinReturn(t)
        \/ \E u \in Thread : Detach(t, u)
        \/ ExitThread(t) \/ ExitProcess(t) \/ Exec(t) \/ KillDone(t) \/ Die(t)
    \/ FinalizerStep

Spec == Init /\ [][Next]_vars

\* The finalizer is scheduled, system calls end, the big lock is handed on and
\* a thread that should die is preempted at last.  No thread has to exit.
FairSpec ==
    /\ Spec
    /\ WF_vars(FinalizerStep)
    /\ \A t \in Thread :
        WF_vars(KillDone(t)) /\ SF_vars(JoinReturn(t)) /\ WF_vars(Die(t))

-----------------------------------------------------------------------------
(* Properties                                                              *)

\* The types of the threads' and the finalizer's state; the finalizer works
\* on threads that nobody can join any more.
TypeOK ==
    /\ pc \in [Thread -> Alive \union {"Dying", "Dead"}]
    /\ joinable \in [Thread -> BOOLEAN]
    /\ did_exit \in [Thread -> BOOLEAN]
    /\ should_die \in [Thread -> BOOLEAN]
    /\ blockers \in [Thread -> SUBSET Thread]
    /\ joinee \in [Thread -> Thread]
    /\ big_lock \in Thread \union {Nobody}
    /\ has_work \in BOOLEAN /\ wake_requested \in BOOLEAN
    /\ finalizer \in {"loop", "waiting", "woken", "collect", "finalize"}
    /\ dying_threads \subseteq {t \in Thread : pc[t] = "Dying" /\ ~joinable[t]}

\* The finalizer does not sleep while it has work: notify_finalizer races with
\* its exchange of g_finalizer_has_work and its way to sleep.
WorkIsSeen == has_work => finalizer # "waiting"

\* A join condition refers only to blockers on the stack of a thread that is
\* still in block(), or was in it when it was made Dying, and to one at most
\* (try_join: "no longer joinable by anyone else").
BlockersAlive ==
    \A t \in Thread :
        /\ \A j \in blockers[t] :
            /\ joinee[j] = t
            /\ pc[j] \in {"joining", "unwinding"} \/ should_die[j]
        /\ Cardinality(blockers[t]) <= 1

\* A thread's exit is not lost on its joiner: join returns to a thread that is
\* not being killed only after the joinee exited, and then it does return.
JoinHonest ==
    \A j \in Thread :
        pc[j] = "unwinding" => should_die[j] \/ did_exit[joinee[j]]
JoinReturns ==
    \A j \in Thread :
        (pc[j] \in {"joining", "unwinding"} /\ did_exit[joinee[j]])
            ~> pc[j] \in {"run", "Dying"}

\* The finalizer gets past VERIFY(m_thread_did_exit) in
\* JoinBlockCondition::exit_value, which it would halt the kernel with.
FinalizerGoesOn == \A t \in dying_threads : MayFinalize(t)

\* The comment in Thread's constructor, "The finalizer is responsible for
\* dropping this reference once this thread is ready to be cleaned up", for a
\* thread on its way out that nobody can join any more.
Reaped ==
    []FinalizerGoesOn =>
        \A t \in Thread :
            (pc[t] = "exiting" /\ ~joinable[t]) ~> pc[t] = "Dead"
=============================================================================
