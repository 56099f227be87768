------------------------------- MODULE Futex -------------------------------
(***************************************************************************)
(* sys$futex (Syscalls/futex.cpp) over FutexQueue and BlockCondition: the  *)
(* map from futexes to queues, waiting, waking, waking with a bitset,      *)
(* requeueing and the removal of empty queues.                             *)
(*                                                                         *)
(* Granularity.  A step is a section under the lock of the map, in which   *)
(* the queues' locks are nested.  A private futex is used under the big    *)
(* lock of its process, which only Thread::block gives up; a shared one by *)
(* threads of several processes, whose steps interleave.  Registration and *)
(* begin_blocking are one step (WaitBlock): block() runs from one to the   *)
(* other without leaving its critical section, so this is exact with one   *)
(* scheduling processor, the default build.  With several, a wake between  *)
(* the two is not modelled here; ThreadBlocking has it.                    *)
(***************************************************************************)
EXTENDS Integers, Sequences, FiniteSets, Functions

CONSTANTS
    Thread,     \* the threads that use the futexes
    Waits,      \* those of them that wait; the others wake, requeue and exec
    Futex,      \* the user addresses, or offsets in a VMObject
    Queue,      \* the memory FutexQueues are allocated in
    None,       \* no queue, no futex
    Privacies,  \* the values of FUTEX_PRIVATE_FLAG considered
    Bits,       \* the bits of FUTEX_WAIT_BITSET and FUTEX_WAKE_BITSET
    MaxBitsets, \* bound on the threads that wait with a bitset at a time,
                \* for each privacy
    WakeCounts, \* val of FUTEX_WAKE, FUTEX_WAKE_OP and FUTEX_REQUEUE
    Counts2     \* val2 of FUTEX_WAKE_OP and FUTEX_REQUEUE

ASSUME FutexAssumption ==
    /\ None \notin Queue \union Futex
    /\ Waits \subseteq Thread
    /\ IsFiniteSet(Waits) /\ IsFiniteSet(Futex) /\ IsFiniteSet(Queue)
    \* one for each thread that waits and for each entry of the map, so that
    \* one can always be allocated
    /\ Cardinality(Queue) >= Cardinality(Waits) + Cardinality(Futex)
    /\ Privacies \subseteq BOOLEAN
    /\ MaxBitsets \in [BOOLEAN -> Nat]
    /\ WakeCounts \subseteq Nat
    /\ Counts2 \subseteq Nat

VARIABLES
    queues,     \* m_futex_queues or g_global_futex_queues
    blockers,   \* BlockCondition::m_blockers of each FutexQueue
    pc,         \* where each thread is in sys$futex
    futex,      \* the futex it waits for
    bits,       \* FutexBlocker::m_bitset
    ref,        \* do_wait's reference to the FutexQueue
    condition,  \* Blocker::m_block_condition
    is_private  \* the map is that of a process, not the global one

waitVars == <<futex, bits, ref>>
vars == <<queues, blockers, pc, waitVars, condition, is_private>>

Init ==
    /\ queues = [f \in Futex |-> None]
    /\ blockers = [q \in Queue |-> <<>>]
    /\ pc = [t \in Thread |-> "user"]
    /\ futex = [t \in Thread |-> None]
    /\ bits = [t \in Thread |-> {}]
    /\ ref = [t \in Thread |-> None]
    /\ condition = [t \in Thread |-> None]
    /\ is_private \in Privacies

\* The big lock of a process that uses private futexes is free.
BigLockFree == is_private => \A t \in Thread : pc[t] \notin {"found", "returned"}

\* Thread t is in user mode and enters sys$futex, with the big lock.
Calls(t) == pc[t] = "user" /\ BigLockFree

Goto(t, label) == pc' = [pc EXCEPT ![t] = label]

\* The references of map and of the threads in set to q.
Referenced(q, map, set) == q \in Range(map) \/ \E t \in set : ref[t] = q
Free(q) == ~Referenced(q, queues, Thread)

\* find_futex_queue with create_if_not_found: the queue found, or a new one
\* (where it is allocated does not matter; memory is used again).
FindQueue(f) ==
    IF queues[f] # None THEN queues[f] ELSE CHOOSE q \in Queue : Free(q)

-----------------------------------------------------------------------------
(* FUTEX_WAIT and FUTEX_WAIT_BITSET                                        *)

\* do_wait up to lock.unlock(), where the user's word has the value expected
\* (another is EAGAIN): the queue is found or created.
WaitFind(t, f, mask) ==
    /\ Calls(t)
    /\ queues' = [queues EXCEPT ![f] = FindQueue(f)]
    /\ ref' = [ref EXCEPT ![t] = FindQueue(f)]
    /\ futex' = [futex EXCEPT ![t] = f]
    /\ bits' = [bits EXCEPT ![t] = mask]
    /\ Goto(t, "found")
    /\ UNCHANGED <<blockers, condition, is_private>>

\* wait_on: the FutexBlocker is registered and the thread blocks (see above for
\* several processors).
WaitBlock(t) ==
    /\ pc[t] = "found"
    /\ blockers' = [blockers EXCEPT ![ref[t]] = Append(@, t)]
    /\ condition' = [condition EXCEPT ![t] = ref[t]]
    /\ Goto(t, "blocked")
    /\ UNCHANGED <<queues, waitVars, is_private>>

\* A timeout, a signal or the death of the thread: the blocker stays queued.
Interrupt(t) ==
    /\ pc[t] = "blocked"
    /\ Goto(t, "woken")
    /\ UNCHANGED <<queues, blockers, waitVars, condition, is_private>>

\* remove_blocker: the first entry of t is taken out of s, if it has one.
RemoveBlocker(s, t) ==
    LET first == CHOOSE i \in DOMAIN s :
                    s[i] = t /\ \A j \in DOMAIN s : s[j] = t => i <= j
    IN  IF t \notin Range(s) THEN s
        ELSE SubSeq(s, 1, first - 1) \o SubSeq(s, first + 1, Len(s))

\* (mutated: the blocker is removed from the queue it was first added to)
MUT_WaitReturn(t) ==
    /\ pc[t] = "woken"
    /\ BigLockFree
    /\ blockers' = [blockers EXCEPT ![ref[t]] = RemoveBlocker(@, t)]
    /\ condition' = [condition EXCEPT ![t] = None]
    /\ Goto(t, "returned")
    /\ UNCHANGED <<queues, waitVars, is_private>>

\* block() has the big lock back and returns: ~Blocker.
WaitReturn(t) ==
    /\ pc[t] = "woken"
    /\ BigLockFree
    /\ blockers' = [blockers EXCEPT ![condition[t]] = RemoveBlocker(@, t)]
    /\ condition' = [condition EXCEPT ![t] = None]
    /\ Goto(t, "returned")
    /\ UNCHANGED <<queues, waitVars, is_private>>

\* remove_futex_queue: whatever queue the map has for f.
Remove(map, f) == [map EXCEPT ![f] = None]

\* The map at the end of t's do_wait: the queue waited on is empty, so the
\* futex is removed.
CleanedUp(t) == IF blockers[ref[t]] = <<>> THEN Remove(queues, futex[t]) ELSE queues

\* VERIFY(m_blockers.is_empty()) in ~BlockCondition of a queue whose last
\* reference goes with t's.
MayCleanUp(t) ==
    \A q \in Queue :
        blockers[q] # <<>> => Referenced(q, CleanedUp(t), Thread \ {t})

\* (mutated: the reference is leaked)
MUT_WaitCleanup(t) ==
    /\ pc[t] = "returned"
    /\ MayCleanUp(t)
    /\ queues' = CleanedUp(t)
    /\ Goto(t, "user")
    /\ futex' = [futex EXCEPT ![t] = None]
    /\ bits' = [bits EXCEPT ![t] = {}]
    /\ UNCHANGED <<blockers, ref, condition, is_private>>

WaitCleanup(t) ==
    /\ pc[t] = "returned"
    /\ MayCleanUp(t)
    /\ queues' = CleanedUp(t)
    /\ ref' = [ref EXCEPT ![t] = None]
    /\ Goto(t, "user")
    /\ futex' = [futex EXCEPT ![t] = None]
    /\ bits' = [bits EXCEPT ![t] = {}]
    /\ UNCHANGED <<blockers, condition, is_private>>

-----------------------------------------------------------------------------
(* FUTEX_WAKE, FUTEX_WAKE_BITSET and FUTEX_WAKE_OP                         *)

\* FutexBlocker::unblock and unblock_bitset; mask {} is any.
Matches(t, mask) == mask = {} \/ bits[t] \intersect mask # {}

\* (mutated: the newest blockers are unblocked)
MUT_Unblocked(s, count, mask) ==
    {s[i] : i \in {j \in DOMAIN s :
        /\ Matches(s[j], mask)
        /\ Cardinality({k \in j..Len(s) : Matches(s[k], mask)}) <= count}}

\* do_unblock: those of the blockers s that are unblocked, at most count.
Unblocked(s, count, mask) ==
    {s[i] : i \in {j \in DOMAIN s :
        /\ Matches(s[j], mask)
        /\ Cardinality({k \in 1..j : Matches(s[k], mask)}) <= count}}

\* The blockers of s that are not in set; kept[n] are those of the first n.
Without(s, set) ==
    LET kept[n \in 0..Len(s)] ==
            IF n = 0 THEN <<>>
            ELSE IF s[n] \in set THEN kept[n - 1] ELSE Append(kept[n - 1], s[n])
    IN  kept[Len(s)]

\* do_wake over st, a record of the map, the queues' blockers and the threads
\* woken so far.
Waking == [queues |-> queues, blockers |-> blockers, woken |-> {}]
DoWake(st, f, count, mask) ==
    LET q == st.queues[f]
        woken == Unblocked(st.blockers[q], count, mask)
        rest == Without(st.blockers[q], woken)
    IN  IF count = 0 \/ q = None THEN st
        ELSE [queues |-> IF rest = <<>> THEN Remove(st.queues, f) ELSE st.queues,
              blockers |-> [st.blockers EXCEPT ![q] = rest],
              woken |-> st.woken \union woken]

\* (mutated: a thread that has bits set is taken off the queue unwoken)
MUT_Awake(set) ==
    [t \in Thread |-> IF t \in set /\ pc[t] = "blocked" /\ bits[t] = {}
                      THEN "woken" ELSE pc[t]]

\* Where the threads are after those of set have been unblocked: one that a
\* timeout or a signal has woken before is only taken off the queue.
Awake(set) ==
    [t \in Thread |-> IF t \in set /\ pc[t] = "blocked" THEN "woken" ELSE pc[t]]

Wake(t, f, count, mask) ==
    LET st == DoWake(Waking, f, count, mask)
    IN  /\ Calls(t)
        /\ queues' = st.queues
        /\ blockers' = st.blockers
        /\ pc' = Awake(st.woken)
        /\ UNCHANGED <<waitVars, condition, is_private>>

\* FUTEX_WAKE_OP, once the second word has been changed: a wake on the first
\* futex and, if the comparison with the word's old value holds (count2 is 0
\* otherwise), one on the second.
WakeOp(t, f, f2, count, count2) ==
    LET st == DoWake(DoWake(Waking, f, count, {}), f2, count2, {})
    IN  /\ Calls(t)
        /\ queues' = st.queues
        /\ blockers' = st.blockers
        /\ pc' = Awake(st.woken)
        /\ UNCHANGED <<waitVars, condition, is_private>>

-----------------------------------------------------------------------------
(* FUTEX_REQUEUE and FUTEX_CMP_REQUEUE                                     *)

\* take(i) for i = 0, 1, ...: each take moves the elements behind it forward.
EveryOther(s, count) == [i \in 1..count |-> s[2 * i - 1]]

\* BlockCondition::do_take_blockers: it takes count blockers, then removes as
\* many of those that are left.
DoTake(s, count) == IF Len(s) <= count THEN s ELSE EveryOther(s, count)
Left(s, count) == IF Len(s) <= count THEN <<>> ELSE SubSeq(s, 2 * count + 1, Len(s))
\* The VERIFYs of Vector::take and Vector::remove.
MayTake(s, count) == Len(s) <= count \/ 2 * count <= Len(s)

\* BlockCondition::do_append_blockers
DoAppend(s, new) ==
    IF s = <<>> THEN new ELSE s \o EveryOther(new, (Len(new) + 1) \div 2)

\* VERIFY(did_wake < wake_count) in wake_n_requeue.
MayWake(q, count) == blockers[q] # <<>> => count > 0

\* do_requeue with wake_n_requeue: is_empty is computed before the blockers
\* are taken, so a queue they were all taken from stays in the map.
Requeue(t, f, target, count, more) ==
    LET q == queues[f]
        woken == Unblocked(blockers[q], count, {})
        rest == Without(blockers[q], woken)
        taken == DoTake(rest, more)
        q2 == FindQueue(target)
    IN  /\ Calls(t)
        /\ q # None
        /\ MayWake(q, count) /\ MayTake(rest, more)
        /\ pc' = Awake(woken)
        /\ IF taken = <<>>
           THEN /\ blockers' = [blockers EXCEPT ![q] = rest]
                /\ queues' = IF rest = <<>> THEN Remove(queues, f) ELSE queues
                /\ UNCHANGED condition
           ELSE /\ queues' = [queues EXCEPT ![target] = q2]
                /\ blockers' = [[blockers EXCEPT ![q] = Left(rest, more)]
                                    EXCEPT ![q2] = DoAppend(@, taken)]
                /\ condition' = [u \in Thread |->
                                    IF u \in Range(taken) THEN q2 ELSE condition[u]]
        /\ UNCHANGED <<waitVars, is_private>>

-----------------------------------------------------------------------------
\* clear_futex_queues_on_exec, once the other threads have been told to die:
\* they finish do_wait, and threads of the new program take their places.
Clear(t) ==
    /\ Calls(t)
    /\ is_private
    /\ pc' = Awake(UNION {Range(blockers[q]) : q \in Range(queues) \ {None}})
    /\ blockers' = [q \in Queue |->
                        IF q \in Range(queues) THEN <<>> ELSE blockers[q]]
    /\ queues' = [f \in Futex |-> None]
    /\ UNCHANGED <<waitVars, condition, is_private>>

-----------------------------------------------------------------------------
\* The bitsets to wait with; {} is FUTEX_WAIT.
Masks ==
    IF Cardinality({t \in Thread : bits[t] # {}}) < MaxBitsets[is_private]
    THEN SUBSET Bits ELSE {{}}

\* A wake, requeue or exec does not change the state of its caller, so that
\* one made by a thread of Waits between two waits is no other step.
Next ==
    \/ \E t \in Waits :
        \/ \E f \in Futex, mask \in Masks : WaitFind(t, f, mask)
        \/ WaitBlock(t) \/ Interrupt(t) \/ WaitReturn(t) \/ WaitCleanup(t)
    \/ \E t \in Thread \ Waits :
        \/ \E f \in Futex, count \in WakeCounts, mask \in SUBSET Bits :
            Wake(t, f, count, mask)
        \/ \E f, f2 \in Futex, count \in WakeCounts, count2 \in Counts2 :
            WakeOp(t, f, f2, count, count2)
        \/ \E f, target \in Futex, count \in WakeCounts, more \in Counts2 :
            Requeue(t, f, target, count, more)
        \/ Clear(t)

Spec == Init /\ [][Next]_vars

-----------------------------------------------------------------------------
\* The variables have their types: a thread has a queue from do_wait's look-up
\* to its end, and its blocker a condition while it is in Thread::block.
TypeOK ==
    /\ queues \in [Futex -> Queue \union {None}]
    /\ blockers \in [Queue -> Seq(Thread)]
    /\ pc \in [Thread -> {"user", "found", "blocked", "woken", "returned"}]
    /\ futex \in [Thread -> Futex \union {None}]
    /\ bits \in [Thread -> SUBSET Bits]
    /\ ref \in [Thread -> Queue \union {None}]
    /\ condition \in [Thread -> Queue \union {None}]
    /\ is_private \in Privacies
    /\ \A t \in Thread :
        /\ ref[t] = None <=> pc[t] = "user"
        /\ condition[t] = None <=> pc[t] \notin {"blocked", "woken"}

\* m_blockers holds pointers to FutexBlockers on the stacks of threads: every
\* entry is that of a thread still in Thread::block, the queue is the one its
\* destructor will look in, and no thread is in a queue twice.
EntriesAlive ==
    \A q \in Queue :
        /\ \A i \in DOMAIN blockers[q] :
            /\ pc[blockers[q][i]] \in {"blocked", "woken"}
            /\ condition[blockers[q][i]] = q
        /\ IsInjective(blockers[q])

\* Thread t is on the queue where its blocker says it is.
Registered(t) == condition[t] # None /\ t \in Range(blockers[condition[t]])

\* A thread that blocks is on a queue, where a wake can find it: the move of
\* do_requeue ("append the blockers and notify them that they completed the
\* move") loses none of those it takes or leaves.
BlockedRegistered == \A t \in Thread : pc[t] = "blocked" => Registered(t)

\* A step of do_requeue that may take blockers.
Moves ==
    \E t \in Thread, f, target \in Futex, count \in WakeCounts, more \in Counts2 :
        more > 0 /\ Requeue(t, f, target, count, more)

\* No other step of sys$futex loses a waiter: a thread that goes on blocking
\* stays registered through the look-ups, wakes, timeouts, clean-ups and queue
\* removals of all others, and one that starts to block is registered.
StaysRegistered ==
    [][\A t \in Thread :
        /\ pc'[t] = "blocked"
        /\ pc[t] = "blocked" => Registered(t)
        => Registered(t)' \/ Moves]_vars

\* Waiters are woken in the order they blocked in: one stays behind only if
\* the bitset of the wake passed it over.
WakesInOrder ==
    [][\A q \in Queue : \A j \in DOMAIN blockers[q] : \A i \in 1..(j - 1) :
        LET u == blockers[q][i]
            v == blockers[q][j]
        IN  /\ pc[u] = "blocked" /\ pc[v] = "blocked"
            /\ u \in Range(blockers'[q])
            /\ v \notin Range(blockers'[q]) /\ pc'[v] = "woken"
            => bits[v] \ bits[u] # {}]_vars
=============================================================================
