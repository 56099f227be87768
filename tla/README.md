# TLA+ verification of the pranaOS kernel's thread core

pranaOS is a small Unix-like operating system in C++: a preemptive kernel
(`src/Kernel`), a container library shared by kernel and user land (`src/AK`),
and user-land programs and libraries (`src/UserLand`). This project specifies,
model-checks and proves the part of the kernel on which everything else stands
and which tests reach least: how threads lock, sleep, are woken, time out, are
stopped, are scheduled, are joined and die.

## The system and its parts

| Part | Source | Here |
|---|---|---|
| Reader/writer sleeping lock, process big lock | `Kernel/Lock.*` | `KernelLock`, `RWLock`, proofs |
| Wait queue | `Kernel/WaitQueue.*` | in `KernelLock`, `ThreadBlocking`, `ThreadJoin` |
| `Thread::block`, blockers, timeouts | `Kernel/Thread.h`, `ThreadBlockers.cpp` | `ThreadBlocking` |
| Thread states, signals, job control, killing | `Kernel/Thread.cpp` | `ThreadBlocking` |
| Ready queues, context switches, donation | `Kernel/Scheduler.*`, `Syscalls/sched.cpp` | `Scheduler` |
| Timers | `Kernel/TimeQueue.*`, `Syscalls/alarm.cpp` | `TimerQueue`, `OneShotTimer`, proofs |
| Exit, join, detach, finalizer | `Syscalls/thread.cpp`, `Tasks/FinalizerTask.cpp` | `ThreadJoin` |
| Futexes | `Syscalls/futex.cpp`, `FutexQueue.*` | `Futex`, proofs |
| System call entry, process killing | `Syscall.cpp`, `Process.cpp` | the parts the modules above need |
| Wait/disown, work queue, pipes, device requests, clock counters | see the plan | planned |
| Network, file systems, block cache, virtual memory, terminals | `Kernel/Net`, `FileSystem`, `Storage`, `VM`, `TTY` | planned in part |
| Drivers, interrupts, processor code | `Kernel/Devices`, `PCI`, `VirtIO`, `ACPI`, `Arch`, `Interrupts` | not modelled: hardware I/O |
| AK containers and formats | `AK` | candidates for checks against reference definitions |
| User land, tools, build system | `UserLand`, `Meta`, `Base`, `Ports`, `Toolchain` | not modelled |

How they interact. A system call takes the process big lock (a `Lock`) and
gives it up only in `Thread::block`. A thread blocks by constructing a blocker
on its own stack and registering it with a block condition (a wait queue, a
futex queue, a join condition); a waker finds the blocker there and calls
`unblock_from_blocker`, directly or as a deferred call after an interrupt. A
timeout is a timer whose handler captures the frame of `block()`. Stopping,
continuing and killing go around the blocker through `set_state` and
`unblock`. A Runnable thread waits in a ready queue; one that must die becomes
Dying when the scheduler switches away from it, and the finalizer makes it Dead.

Interrupt handlers, critical sections and spin locks are not modelled as
code: they decide what one step is. Each module says at its top which sections
are atomic and why. The default build schedules threads on one processor
(`SCHEDULE_ON_ALL_PROCESSORS` is 0, `Scheduler.cpp`), where a section with
interrupts disabled excludes everybody else; the modules also have an SMP
setting, and results that need it say so.

## Modules

**KernelLock.** State: `m_mode`, `m_holder`, `m_shared_holders`,
`m_times_locked`, the wait queue's `m_blockers`, `m_wake_requested` and
`m_should_block`, and for each thread its place in the code. A statement
sequence between `m_lock.exchange(true)` and `m_lock.store(false)` is one
action; what follows the store (going to sleep, `wake_one`) is another. `grants` (what the callers hold) and `parked` (what a
force-unlocked caller expects back) are ghost variables that link the lock to
its users. With `BigLock`, going to sleep includes `unlock_process_if_locked`.

**RWLock.** The abstract specification: who may be granted what, and that a
thread gives the lock up and gets it back as a whole. `KernelLock` implements
it; the two ghost variables are the refinement mapping (`Abstract`).

**ThreadBlocking.** `Thread::block` split at its lock sections, wake-ups
(direct and deferred), the timer's handler, `send_signal`, `set_state` with
its effect on the other threads of the process, the dispatch of signals, and
`set_should_die`. One wait queue, `QueueBlocker`s. `smp`, chosen in the initial
state, is the value of `SCHEDULE_ON_ALL_PROCESSORS`. Two `VERIFY`s that halt the
kernel are guards, so that nothing follows them: `set_should_die` meets a stopped
thread (`MayDie`), and `block()`'s loop finds that the thread woke up stopped and
calls `set_state` without `g_scheduler_lock` (`BlockResume`). The end of `block()`
is three actions: `BlockEnd` (the loop's end and `end_blocking`), `BlockCancel`
(`cancel_timer`) and, since `relock_process` leaves the critical section in between,
`BlockReturn` (`~Blocker`). `enter_current` dispatches a signal to any thread that
is switched to and does not wait in `block()`, also after a yield in a system call;
it does not when the thread switched from is dying or the thread runs for the first
time, so `Schedule` has both outcomes.

**Scheduler.** Ready queues, bitmask, `m_runnable_priority`, `m_is_active`,
`m_ticks_left`, per-processor current thread, async flag and pending
beneficiary. `pick_next` is one action per outcome, because it holds
`g_scheduler_lock` to its end; that it makes a thread Dying which should die (`Dies`)
is part of each. A donation that fails is not followed by a switch:
`donate_to_and_switch` calls `yield()`, which only sets the async flag; the flag is
cleared when the scheduler lock is released, and `invoke_async` does nothing because
`m_in_scheduler` is still set. The donor executes on. `Stop` takes any thread that is
not stopped, as `set_state` does with the peers of a stopped thread, Dying and Dead
ones included; `m_stop_state` is therefore one of those too. `SetShouldDie`, `Collect` and
`Finalize` bring a thread to its end; `finalize_dying_threads` drops the lock between
the last two, so that a collected thread can be stopped before it is finalized.

**TimerQueue.** Both queues, `next_timer_due`, `m_timers_executing`,
`m_remaining`, reference counts, `fire()` one timer at a time (it drops the lock
for each), each processor's deferred calls in the order they were queued, the
handler and its epilogue, `cancel_timer`. A freed timer has its initial values
(`Unref`), so memory that is allocated again brings no new states.

**OneShotTimer.** What the users of a timer may rely on, without lists, due times,
reference counts, processors or deferred calls: a timer is armed, expires after
its deadline, runs once while its user holds it, and is through; `cancel_timer`
returns true only for an armed timer and false only for one that is through.
`TimerQueue` implements it. The mapping computes the phase of each timer
(`Phase`) from the list of its clock, `m_timers_executing` and whether the
handler has run; `m_expires` is the deadline.

**ThreadJoin.** Exit, join, detach, killing by `exit` and `execve`, Dying
threads, `notify_finalizer` and the finalizer's loop in its separate sections.

**Futex.** The map from futexes to queues, `do_wait` in its three sections,
`do_wake`, wake-op, requeue with the exact effect of `do_take_blockers` and
`do_append_blockers`, and the clearing of the map by exec. The user's word is
left out: a mismatch returns EAGAIN and changes nothing. `is_private`, chosen
in the initial state, says whether the big lock keeps the calls apart. Registering
the blocker and blocking are one action (`WaitBlock`), which is exact with one
scheduling processor; `ThreadBlocking` has the two apart.

`MC*` modules only add symmetry sets and constant values. Runs
of liveness use no symmetry, for which it would not be sound.

## Runs

Passing runs (the number of distinct states is in parentheses):

| Run | Bounds | Shows |
|---|---|---|
| `lock_safety` (202 401) | 3 threads, nesting 2, both modes, one stoppable | `MutualExclusion`, `CountExact`, `LockInv`, `ImplementsRWLock`, types |
| `lock_biglock` (14 422) | 3 threads, nesting 2, exclusive, big lock | `NoLostWakeup`, `SleeperWoken` |
| `block_frame` (1 157 497) | 2 threads, job control, finite timeouts; one processor with killing, and SMP without | `FrameAlive`, `ResultHonest` (one processor), types |
| `block_wait` (17 082) | 2 threads, one processor, one signal, timeouts | `BlockedUnwoken`, `WokenReturns` |
| `sched_smp` (41 676) | 3 threads, one of them pinned, one that may die, 2 processors, slice 1 | `RunnableQueued`, `OneProcessor`, `ReadyRuns` |
| `sched_donate` (1 004 352) | 3 threads, one donor, one that may die, 1 processor, 2 buckets, slice 2 | `ReadyConsistent`, `TickLeft`, types |
| `timer_race` (250 275) | 3 timers, 2 clocks, 2 processors, time 0..2 | `DueExact`, `CancelSettles`, `RefsExact`, `HandlerHasUser`, `ExpiredRuns`, `ImplementsOneShot`, types |
| `join_ends` (141 598) | 3 threads, exit, execve, join, detach | `WorkIsSeen`, `BlockersAlive`, `JoinHonest`, `JoinReturns`, `Reaped`, types |
| `futex_waits` (546 354) | 3 waiters and a caller, 2 futexes, 1 bit, private and shared | `EntriesAlive`, `StaysRegistered`, `WakesInOrder`, types |

Runs that end in a violation show that the code does not do what one of its own
comments says; `PROJECT.json` quotes the line for each:

| Run | The code's statement | What happens |
|---|---|---|
| `lock_stopped` (`BlockedMeansQueued`) | "Hasn't been unblocked yet" | a wake-up of a stopped sleeper is used up and lost |
| `sched_donate_lost` (`RunnableQueued`) | the beneficiary can be donated to | it is left Runnable in no queue |
| `futex_dropped` (`BlockedRegistered`) | blockers are appended and complete the move | some are dropped |

**Where properties stop.** Several properties are stated for less than one
would wish, because the models do reach the other cases. `PROJECT.json` has a
note on each at its line:

- `BlockedUnwoken` and `ResultHonest` hold with one scheduling processor. With
  several, a wake between a blocker's registration and `begin_blocking` is lost,
  and a late deferred unblock may meet the thread's next blocker.
  `BlockedUnwoken` also needs that nobody is stopped, because
  `unblock_from_blocker` does nothing for a stopped thread.
- `RunnableQueued` and `OneProcessor` are claimed without donation: a donation
  may leave its beneficiary in no queue, and does not mark it active.
- A stopped process need not stay stopped: a thread that goes on in the kernel
  into `block()` resumes it. A thread marked to die may block again, or be made
  Dying in the middle of kernel code.
- `Reaped` speaks of a thread that nobody can join when it exits, and assumes
  that the finalizer gets past `VERIFY(m_thread_did_exit)`. A join or detach
  after a thread became Dying notifies nobody, and a killed joinee fails the
  VERIFY.
- `StaysRegistered` excludes the requeue that `futex_dropped` is about, and
  says that waiters stay on their queue, not that the map still leads to it.

**Bounds.** Two threads suffice for a race of a sleeper and a waker in the same
process, three for a lock with a holder, a sleeper and a newcomer, or a joiner,
its joinee and one that kills both. A requeue that wakes one waiter, takes
another and leaves a third needs three waiters and a caller. There are as many
futex queues as waiters and futexes together, so that one can always be
allocated. Wakes and requeues
are of one waiter; FUTEX_WAKE_OP with the same futex twice is two wakes of one, and
larger counts are left to the proof of `WakesInOrder`. One
waiter at a time uses a bitset (`MaxBitsets`), with private futexes. A nesting of
2 distinguishes the last unlock from the others; a slice of 2 ticks
distinguishes the last tick; `sched_smp` uses slices of 1, as it is about who
runs and not how long; time 0..2 gives deadlines before, between and after each
other. Counters in the code that have no bound in the model's reach (`MaxNest`,
`MaxTime`) are named constants in guards. `Killing` limits killing to the
one-processor build, where SMP with killing is beyond a run of minutes; for the same
reason `MaxPending` lets one signal be pending for a thread at a time in the SMP
build, and any number with one processor. `Killed` limits the deaths in the
scheduler's runs to one thread, which is enough for one to die while another is
switched to, donated to, stopped or finalized. The proofs are about any value of
these bounds.

**Deadlock** is checked except in `join_ends`, where a process legitimately
comes to its end, and in the futex runs, where a failed VERIFY halts the
kernel: the VERIFYs are guards there (`MayCleanUp`, `MayTake`, `MayWake`,
`MayFinalize`).

**Fairness.** Threads inside kernel code keep being scheduled (weak): ready
queues are FIFO and every tick that ends a slice causes a switch, which
`ReadyRuns` checks for the highest bucket. Strong fairness is used where a
thread competes again and again for a processor or the big lock
(`Schedule`, `Preempt`, `BlockResume`, `TimerFire`, `JoinReturn`): FIFO ready
queues and timer interrupts give each its turn. `UnlockLast` (strong) says that
`Locker` scopes end. No fairness is assumed of user programs: nobody has to
unlock a futex, exit, join or send a signal.

## Proofs

TLAPS proves the following for every value of the constants: any set of threads,
timers and processors, any nesting, any number of buckets and ticks.

| Module | Theorem | States |
|---|---|---|
| `KernelLockProofs` | `TypeCorrect`, `VerifiesHold`, `CountIsExact`, `Exclusion` | `TypeOK`, `LockInv`, `CountExact`, `MutualExclusion` |
| | `Refinement` | `Spec => ImplementsRWLock` |
| `KernelLockWakeProofs` | `WakeupsKept` | `NoLostWakeup`, where nobody can be stopped |
| `SchedulerProofs` | `SchedulerTypeCorrect`, `QueuesAgree`, `OneProcessorEach`, `TicksNeverWrap` | `TypeOK`, `ReadyConsistent`, `OneProcessor`, `TickLeft`, on one processor or without donation |
| | `NobodyLost` | `RunnableQueued`, without donation |
| `TimerQueueProofs` | `TimerTypeCorrect`, `DueIsExact`, `CancelIsSettled`, `RefsAreExact` | `TypeOK`, `DueExact`, `CancelSettles`, `RefsExact` |
| | `HandlersHaveUsers` | the action property `HandlerHasUser` |
| | `TimersAreOneShot` | `Spec => ImplementsOneShot` |
| `ThreadBlockingProofs` | `BlockingTypeCorrect`, `FramesStayAlive`, `ResultsAreHonest` | `TypeOK`, `FrameAlive`, `ResultHonest` |
| | `SleepersCanBeUnblocked` | `VERIFY(m_blocker)` of `Thread::unblock` holds for every sleeper |
| | `SleepersAreUnwoken` | `BlockedUnwoken`, on one processor without SIGSTOP |
| `ThreadJoinProofs` | `JoinTypeCorrect`, `FinalizerSeesWork`, `JoinBlockersLive`, `JoinIsHonest` | `TypeOK`, `WorkIsSeen`, `BlockersAlive`, `JoinHonest` |
| `FutexProofs` | `FutexTypeCorrect`, `FutexEntriesAlive` | `TypeOK`, `EntriesAlive` |
| | `WaitersStayRegistered`, `WaitersWakeInOrder` | the action properties `StaysRegistered`, `WakesInOrder` |

Each rests on an inductive invariant (`Invariant`, `SchedulerInvariant`,
`TimerInvariant`, `BlockingInvariant`, `JoinInvariant`, `FutexInvariant`) that TLC had checked on the
instance of the module's run. A lemma per action shows that the step keeps it, conjunct by
conjunct. `SequenceFacts` holds what the proofs need about sequences; facts about
counting are at the beginning of `KernelLockProofs` and of `FutexProofs`.

**The lock.** Mutual exclusion speaks of the callers' grants, on which the lock's
code has no grip. `LockInv` says for each mode how `m_holder`,
`m_shared_holders` and `m_times_locked` account for the grants, and that what a
force-unlocked thread will restore is what was taken from it. `CountExact` adds
the sum over all threads. Induction over data is out of the provers' reach, so
the sum is the cardinality of the set of holds (thread, index); the lemmas say how
that set changes when one thread's grants do. The only assumption is
`LockAssumption` (the big lock is taken exclusively, `Nil` is no thread). The
refinement maps every action to one of RWLock or a stutter, with the invariant
supplying the exclusion guards.

**Its wake-ups.** `NoLostWakeup` says that while a thread sleeps at a free lock,
somebody is on the way to take it or to wake the next. It becomes inductive with
`QueueInv` (each sleeper is in `m_blockers` once, and nobody outside `block()` is)
and `FreeInv` (`m_should_block`, which the last unlock clears under `m_lock`, keeps
a thread that met the lock taken from sleeping on a free one). The assumption
`Stoppable = {}` is the limit that `lock_stopped` shows: a stopped thread swallows
the wake-up.

**The scheduler.** To `OneProcessor` and `TickLeft` the invariant adds that mask,
buckets and `m_runnable_priority` agree, that only Runnable threads are queued,
that a thread has a state to resume in exactly while it is stopped, that a
beneficiary is pending only until the switch `donate_to` asked for, whose donor has a
tick left (a failed donation lets it execute on), that the threads collected by the
finalizer are Dying, or stopped while they were, and execute nowhere, and
that without donation an executing thread is active and every Runnable thread
queued. Lemmas say what enqueuing and
dequeuing do to the queues, and what `set_state` and a context switch do to the
rest. `Solo`, assumed by all but one theorem, says that there is one processor or
that nobody donates. `NobodyLost` needs that nobody donates: `sched_donate_lost` is
the counterexample otherwise.

**The timers.** `UserKnows` ties the state of a timer's user to the queue, to
`m_timers_executing` and to the handler; `Counted` ties the reference count to both;
`Sorted` and `Deferred` describe the lists. `CancelIsSettled` follows because a
timer leaves its list and enters `m_timers_executing` in one section, and leaves
that only after its handler. That an insertion keeps a list sorted rests on
`LeastExists` (`Position` is the least of the positions that follow) and on
lemmas about taking out and putting in one position.

`TimersAreOneShot` maps each action to one action of OneShotTimer, or to a stutter
(`FireEnd`). The lemma of an action says which timers it queues or dequeues, from
which the phases of all others are seen to stay; `UserKnows` gives the guard on the
user and the phase, `Counted` whether a dropped reference was the last. One fact is
added, which TLC had checked too: unused memory is as if its handler had not run
(`Fresh`).

**Blocking.** `Registered` and `Framed` say who may still refer to the frame of
`block()`: the timer from `begin_blocking` on, until the handler is done or was
cancelled; a wake-up under the queue's lock; the queue, with each blocker once.
`Justified` says that a sleeper (`Asleep`: blocked, or stopped in its sleep) has
its `m_blocker` and does not execute, and that on one processor a thread leaves its
sleep with a reason that `block_result` will find. Being stopped and resumed
changes nothing about either, which the lemmas on `set_state` establish, including
its effect on the other threads of the process. `SleepersAreUnwoken` needs more
(`UInv`): a thread in a critical section of `block()` executes, a registered thread
is in the queue, and a blocked one that is in no wake-up under way is there with
`is_blocking` set. It assumes `NoStopOneProcessor`: with several processors or with
a stopped thread a wake-up is lost, as described above.

**Joining.** `WorkNoted` says that a notification which finds the finalizer
anywhere but asleep leaves `m_wake_requested` behind. `Registered` says that a
condition holds one blocker at most, of a thread that joins its owner and has not
left `block()`, unless it was made Dying inside.

**Futexes.** `TypeOK` and `EntriesAlive` are inductive together, with one more fact:
threads outside `Waits` are never in `do_wait`. They make a free queue exist
whenever `find_futex_queue` creates one, by counting: a waiter refers to one queue
at most, the map to one per futex, and `FutexAssumption` has as many queues as both.
`do_unblock` is a walk over a sequence that takes out what it wakes; lemmas say that
what is left keeps its order (`WithoutFacts`), what a wake of n chooses
(`UnblockedFacts`) and that a second wake composes with a first (`WakesCompose`, for
FUTEX_WAKE_OP). `StepOK` states for one step that the invariant is kept, no waiter is
lost but by a requeue, and nobody is overtaken; one lemma per action shows it. The
VERIFYs of requeue and clean-up are guards, as in the runs.

**Only model-checked.** Liveness (`SleeperWoken`, `WokenReturns`, `ReadyRuns`,
`ExpiredRuns`, `JoinReturns`, `Reaped`) needs fairness and `ENABLED`, which the
prover does not handle. Every other property of a passing run has a theorem.

## What is not modelled, and why

Signal masks, tracing, default actions that terminate, page faults and
non-interruptible blockers in `ThreadBlocking`; SMP together with killing;
the user's futex word and address translation; VMObject deletion; timers with
ids (no caller); thread creation (it is the initial state). Drivers and
processor code depend on hardware; user land depends on libraries that are not
in the repository.

## Plan

1. Wait and disown (`WaitBlockCondition`): terminated, stopped, continued and
   disowned children against `waitid`, each event seen once.
2. `WorkQueue`, `DoubleBuffer` refining a bounded byte queue, `FIFO` open and
   close, composed with the wait queue.
3. `AsyncDeviceRequest` trees; the clock's `m_update1`/`m_update2` counters.
4. TCP state machine and accept queue; block cache; purgeable and
   copy-on-write memory; `RangeAllocator`; AK algorithms against reference
   definitions.

Order: 1 to 3 reuse the wait queue and blocker models; 4 is independent; a
module is proved once its runs and mutants are stable.
