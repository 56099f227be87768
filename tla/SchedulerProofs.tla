-------------------------- MODULE SchedulerProofs --------------------------
(***************************************************************************)
(* The safety properties of Scheduler, for any threads, priorities,        *)
(* affinities and time slices.                                             *)
(***************************************************************************)
EXTENDS Scheduler, SequenceFacts

\* The kernels in which a thread that was donated a time slice, and runs
\* without m_is_active, cannot be picked by another processor.
Solo == Donating = {} \/ \A p, r \in Processor : p = r

-----------------------------------------------------------------------------
(* Operators                                                               *)

\* The first of the buckets, or positions, there are.
LEMMA LeastIn ==
    ASSUME NEW S \in SUBSET Nat, S # {}
    PROVE  Least(S) \in S
BY LeastExists, Zenon DEF Least

\* thread_priority_to_priority_index yields a bucket, and buckets are natural
\* numbers, which m_runnable_priority = -1 is not.
LEMMA BucketType ==
    /\ Buckets \subseteq Nat
    /\ -1 \notin Buckets
    /\ \A v \in Priorities : PriorityIndex(v) \in Buckets
<1>1. ASSUME NEW v \in 1 .. 99 PROVE ((99 - (v - 1)) \div 99) \in Nat
  OBVIOUS
<1>2. \A v \in Priorities : PriorityIndex(v) \in Nat
  BY <1>1, SchedulerAssumption DEF PriorityIndex
<1> QED
  BY <1>2 DEF Buckets

-----------------------------------------------------------------------------
(* The ready queues                                                        *)

\* ReadyConsistent, of a value [ready, mask, prio] and by positions: a thread
\* that is in the bucket it names is there once.
QueuesOK(q) ==
    /\ q.ready \in [Buckets -> Seq(Thread)]
    /\ q.prio \in [Thread -> Buckets \union {-1}]
    /\ q.mask = {b \in Buckets : q.ready[b] # <<>>}
    /\ \A b \in Buckets : \A i, j \in DOMAIN q.ready[b] :
          q.ready[b][i] = q.ready[b][j] => i = j
    /\ \A t \in Thread, b \in Buckets :
          q.prio[t] = b <=> \E i \in DOMAIN q.ready[b] : q.ready[b][i] = t

\* queue_runnable_thread keeps the queues in order when the thread is in none,
\* which is its VERIFY.
LEMMA EnqueueOK ==
    ASSUME NEW q, QueuesOK(q), NEW t \in Thread, q.prio[t] = -1,
           priority \in [Thread -> Priorities]
    PROVE  /\ QueuesOK(Enqueue(q, t))
           /\ Enqueue(q, t).prio = [q.prio EXCEPT ![t] = PriorityIndex(priority[t])]
<1> DEFINE b == PriorityIndex(priority[t])
           e == Enqueue(q, t)
           old == q.ready[b]
<1>1. b \in Buckets /\ b # -1
  BY Zenon, BucketType
<1>2. /\ e.ready = [q.ready EXCEPT ![b] = Append(old, t)]
      /\ e.mask = q.mask \union {b}
      /\ e.prio = [q.prio EXCEPT ![t] = b]
  BY Zenon DEF Enqueue
<1>3. /\ q.ready \in [Buckets -> Seq(Thread)]
      /\ q.prio \in [Thread -> Buckets \union {-1}]
      /\ q.mask = {c \in Buckets : q.ready[c] # <<>>}
      /\ \A c \in Buckets : \A i, j \in DOMAIN q.ready[c] :
            q.ready[c][i] = q.ready[c][j] => i = j
      /\ \A u \in Thread, c \in Buckets :
            q.prio[u] = c <=> \E i \in DOMAIN q.ready[c] : q.ready[c][i] = u
  BY Zenon DEF QueuesOK
<1> HIDE DEF b, e
<1>4. old \in Seq(Thread) /\ Len(old) \in Nat /\ DOMAIN old = 1 .. Len(old)
  BY <1>1, <1>3
<1>5. /\ Append(old, t) \in Seq(Thread)
      /\ Append(old, t) # <<>>
      /\ DOMAIN Append(old, t) = 1 .. Len(old) + 1
      /\ \A i \in 1 .. Len(old) : Append(old, t)[i] = old[i]
      /\ Append(old, t)[Len(old) + 1] = t
  BY <1>4
<1>6. /\ e.ready[b] = Append(old, t)
      /\ \A c \in Buckets \ {b} : e.ready[c] = q.ready[c]
  BY <1>1, <1>2, <1>3
<1>7. \A i \in 1 .. Len(old) : old[i] # t
  BY <1>1, <1>3, <1>4
<1> HIDE DEF old
<1>8. e.ready \in [Buckets -> Seq(Thread)] /\ e.prio \in [Thread -> Buckets \union {-1}]
  BY <1>1, <1>2, <1>3, <1>5
<1>9. e.mask = {c \in Buckets : e.ready[c] # <<>>}
  BY <1>1, <1>2, <1>3, <1>5, <1>6
<1>10. \A c \in Buckets : \A i, j \in DOMAIN e.ready[c] :
          e.ready[c][i] = e.ready[c][j] => i = j
  <2>1. \A i, j \in 1 .. Len(old) : old[i] = old[j] => i = j
    BY <1>1, <1>3, <1>4 DEF old
  <2>2. \A i, j \in 1 .. Len(old) + 1 : Append(old, t)[i] = Append(old, t)[j] => i = j
    <3> TAKE i, j \in 1 .. Len(old) + 1
    <3>1. /\ i \in 1 .. Len(old) \/ i = Len(old) + 1
          /\ j \in 1 .. Len(old) \/ j = Len(old) + 1
      BY <1>4
    <3> QED
      BY Zenon, <1>5, <1>7, <2>1, <3>1
  <2> TAKE c \in Buckets
  <2>3. CASE c = b
    <3>1. e.ready[c] = Append(old, t) /\ DOMAIN e.ready[c] = 1 .. Len(old) + 1
      BY Zenon, <1>5, <1>6, <2>3
    <3> QED
      BY Zenon, <2>2, <3>1
  <2>4. CASE c # b
    BY <1>3, <1>6, <2>4
  <2> QED
    BY Zenon, <2>3, <2>4
<1>11. \A u \in Thread, c \in Buckets :
          e.prio[u] = c <=> \E i \in DOMAIN e.ready[c] : e.ready[c][i] = u
  <2> TAKE u \in Thread, c \in Buckets
  <2>1. CASE c # b
    BY <1>1, <1>2, <1>3, <1>6, <2>1, BucketType
  <2>2. CASE c = b /\ u = t
    <3>1. Len(old) + 1 \in 1 .. Len(old) + 1
      BY <1>4
    <3> QED
      BY <1>2, <1>3, <1>5, <1>6, <2>2, <3>1
  <2>3. CASE c = b /\ u # t
    <3>1. e.prio[u] = q.prio[u]
      BY <1>2, <1>3, <2>3
    <3>2. (q.prio[u] = b) <=> \E i \in 1 .. Len(old) : old[i] = u
      BY <1>1, <1>3, <1>4 DEF old
    <3>3. (\E i \in 1 .. Len(old) + 1 : Append(old, t)[i] = u)
          <=> \E i \in 1 .. Len(old) : old[i] = u
      <4>1. \A i \in 1 .. Len(old) + 1 : i \in 1 .. Len(old) \/ i = Len(old) + 1
        BY <1>4
      <4>2. \A i \in 1 .. Len(old) : i \in 1 .. Len(old) + 1
        BY <1>4
      <4> QED
        BY <1>5, <2>3, <4>1, <4>2
    <3> QED
      <4>1. e.ready[c] = Append(old, t) /\ DOMAIN e.ready[c] = 1 .. Len(old) + 1
        BY Zenon, <1>5, <1>6, <2>3
      <4> QED
        BY Zenon, <2>3, <3>1, <3>2, <3>3, <4>1
  <2> QED
    BY Zenon, <2>1, <2>2, <2>3
<1> QED
  BY Zenon, <1>2, <1>8, <1>9, <1>10, <1>11 DEF QueuesOK, b, e

\* dequeue_runnable_thread keeps the queues in order and leaves the thread in
\* none.
LEMMA DequeueOK ==
    ASSUME NEW q, QueuesOK(q), NEW t \in Thread
    PROVE  /\ QueuesOK(Dequeue(q, t))
           /\ Dequeue(q, t).prio = [q.prio EXCEPT ![t] = -1]
<1> DEFINE b == q.prio[t]
           d == Dequeue(q, t)
           old == q.ready[b]
           at == CHOOSE i \in DOMAIN old : old[i] = t
           rest == SubSeq(old, 1, at - 1) \o SubSeq(old, at + 1, Len(old))
<1>1. /\ q.ready \in [Buckets -> Seq(Thread)]
      /\ q.prio \in [Thread -> Buckets \union {-1}]
      /\ q.mask = {c \in Buckets : q.ready[c] # <<>>}
      /\ \A c \in Buckets : \A i, j \in DOMAIN q.ready[c] :
            q.ready[c][i] = q.ready[c][j] => i = j
      /\ \A u \in Thread, c \in Buckets :
            q.prio[u] = c <=> \E i \in DOMAIN q.ready[c] : q.ready[c][i] = u
  BY Zenon DEF QueuesOK
<1>2. CASE b < 0
  <2>1. b = -1
    <3>1. b \in Buckets \union {-1}
      BY <1>1
    <3> HIDE DEF b
    <3>2. b \in Buckets => ~ (b < 0)
      BY BucketType
    <3> QED
      BY Zenon, <1>2, <3>1, <3>2
  <2>2. d = q
    BY Zenon, <1>2 DEF Dequeue
  <2>3. q.prio = [q.prio EXCEPT ![t] = -1]
    BY <1>1, <2>1
  <2> QED
    BY Zenon, <2>2, <2>3
<1>3. CASE ~ (b < 0)
  <2>1. b \in Buckets /\ b # -1
    BY <1>1, <1>3
  <2>2. /\ d.ready = [q.ready EXCEPT ![b] = rest]
        /\ d.mask = IF rest = <<>> THEN q.mask \ {b} ELSE q.mask
        /\ d.prio = [q.prio EXCEPT ![t] = -1]
    BY Zenon, <1>3 DEF Dequeue, Unlinked
  <2>3. at \in DOMAIN old /\ old[at] = t
    BY <1>1, <2>1
  <2>4. old \in Seq(Thread) /\ Len(old) \in Nat /\ DOMAIN old = 1 .. Len(old)
    BY <1>1, <2>1
  <2>5. \A i, j \in DOMAIN old : old[i] = old[j] => i = j
    BY Zenon, <1>1, <2>1
  <2>6. \A u \in Thread : q.prio[u] = b <=> \E i \in DOMAIN old : old[i] = u
    BY <1>1, <2>1
  <2> HIDE DEF d, at, old, b
  <2>7. /\ rest \in Seq(Thread)
        /\ Len(rest) = Len(old) - 1
        /\ \A k \in DOMAIN rest : rest[k] = IF k < at THEN old[k] ELSE old[k + 1]
    BY Zenon, <2>3, <2>4, WithoutPosition
  <2> HIDE DEF rest
  <2>8. DOMAIN rest = 1 .. Len(old) - 1 /\ at \in 1 .. Len(old)
    BY <2>3, <2>4, <2>7
  <2>9. /\ d.ready[b] = rest
        /\ \A c \in Buckets \ {b} : d.ready[c] = q.ready[c]
    BY <1>1, <2>1, <2>2
  <2>10. d.ready \in [Buckets -> Seq(Thread)] /\ d.prio \in [Thread -> Buckets \union {-1}]
    BY <1>1, <2>1, <2>2, <2>7
  <2>11. d.mask = {c \in Buckets : d.ready[c] # <<>>}
    <3>1. b \in q.mask
      <4>1. old # <<>>
        BY <2>3, <2>4
      <4> QED
        BY Zenon, <1>1, <2>1, <4>1 DEF old
    <3> QED
      BY <1>1, <2>1, <2>2, <2>9, <3>1
  <2>12. \A i, j \in DOMAIN rest : rest[i] = rest[j] => i = j
    <3> TAKE i, j \in DOMAIN rest
    <3>1. /\ i \in DOMAIN old /\ i + 1 \in DOMAIN old
          /\ j \in DOMAIN old /\ j + 1 \in DOMAIN old
          /\ i \in Int /\ j \in Int
      BY <2>4, <2>8
    <3> QED
      BY <2>5, <2>7, <2>8, <3>1
  <2>13. \A u \in Thread :
            (\E k \in DOMAIN rest : rest[k] = u) <=> u # t /\ q.prio[u] = b
    <3> TAKE u \in Thread
    <3>1. ASSUME NEW k \in DOMAIN rest, rest[k] = u
          PROVE  u # t /\ q.prio[u] = b
      <4>1. k \in Int /\ k \in DOMAIN old /\ k + 1 \in DOMAIN old
        BY <2>4, <2>8
      <4>2. CASE k < at
        BY <2>3, <2>5, <2>6, <2>7, <2>8, <3>1, <4>1, <4>2
      <4>3. CASE ~ (k < at)
        BY <2>3, <2>5, <2>6, <2>7, <2>8, <3>1, <4>1, <4>3
      <4> QED
        BY <4>2, <4>3
    <3>2. ASSUME u # t, q.prio[u] = b
          PROVE  \E k \in DOMAIN rest : rest[k] = u
      <4>1. PICK i \in DOMAIN old : old[i] = u
        BY <2>6, <3>2
      <4>2. i # at /\ i \in 1 .. Len(old)
        BY <2>3, <2>4, <3>2, <4>1
      <4>3. CASE i < at
        <5>1. i \in DOMAIN rest
          BY <2>4, <2>8, <4>2, <4>3
        <5> QED
          BY <2>7, <4>1, <4>3, <5>1
      <4>4. CASE i > at
        <5>1. i - 1 \in DOMAIN rest /\ ~ (i - 1 < at) /\ (i - 1) + 1 = i
          BY <2>4, <2>8, <4>2, <4>4
        <5> QED
          BY <2>7, <4>1, <5>1
      <4> QED
        BY <2>8, <4>2, <4>3, <4>4
    <3> QED
      BY Zenon, <3>1, <3>2
  <2>14. \A c \in Buckets : \A i, j \in DOMAIN d.ready[c] :
            d.ready[c][i] = d.ready[c][j] => i = j
    <3> TAKE c \in Buckets
    <3>1. CASE c = b
      BY <2>9, <2>12, <3>1
    <3>2. CASE c # b
      BY <1>1, <2>9, <3>2
    <3> QED
      BY <3>1, <3>2
  <2>15. \A u \in Thread, c \in Buckets :
            d.prio[u] = c <=> \E i \in DOMAIN d.ready[c] : d.ready[c][i] = u
    <3> TAKE u \in Thread, c \in Buckets
    <3>1. d.prio[u] = IF u = t THEN -1 ELSE q.prio[u]
      BY <1>1, <2>2
    <3>2. c # -1
      BY Zenon, BucketType
    <3>3. CASE c = b
      BY <2>9, <2>13, <3>1, <3>2, <3>3
    <3>4. CASE c # b
      <4>1. d.ready[c] = q.ready[c]
        BY Zenon, <2>9, <3>4
      <4>2. q.prio[u] = c <=> \E i \in DOMAIN d.ready[c] : d.ready[c][i] = u
        BY <1>1, <4>1
      <4> QED
        BY <3>1, <3>2, <3>4, <4>2 DEF b
    <3> QED
      BY Zenon, <3>3, <3>4
  <2> QED
    BY Zenon, <2>2, <2>10, <2>11, <2>14, <2>15 DEF QueuesOK, d
<1> QED
  BY Zenon, <1>2, <1>3

-----------------------------------------------------------------------------
(* The inductive invariant                                                 *)

\* Only Runnable threads are queued, the VERIFY of queue_runnable_thread.
QueuedRunnable ==
    \A t \in Thread : runnable_priority[t] # -1 => state[t] = "Runnable"

\* Stopped threads, and no others, have the state they will resume in.
StopStateKept ==
    \A t \in Thread : (stop_state[t] # "Invalid") <=> (state[t] = "Stopped")

\* A beneficiary is pending only until the switch that donate_to flagged, and
\* it was a thread with a tick left that donated.
DonationPending ==
    \A p \in Processor :
        beneficiary[p] # None => /\ async[p] /\ current[p] # Idle /\ Donating # {}
                                 /\ ticks_left[current[p]] > 0

\* A thread that finalize_dying_threads has collected stays as it is, but for
\* being stopped, until it is finalized.
Collected ==
    \A t \in dying :
        \/ state[t] = "Dying"
        \/ state[t] = "Stopped" /\ stop_state[t] = "Dying"

\* No processor executes a thread that is collected, or was finalized and
\* stopped.
Ended ==
    \A p \in Processor :
        current[p] # Idle => current[p] \notin dying /\ stop_state[current[p]] # "Dead"

\* Where no time slice is donated the thread that executes is active, and
\* every Runnable thread is queued.
WithoutDonation ==
    Donating = {} =>
        /\ \A p \in Processor : current[p] # Idle => active[current[p]]
        /\ \A t \in Thread : state[t] = "Runnable" => runnable_priority[t] # -1

IInv ==
    /\ TypeOK
    /\ QueuesOK(Queues)
    /\ QueuedRunnable
    /\ StopStateKept
    /\ DonationPending
    /\ Collected
    /\ Ended
    /\ OneProcessor
    /\ TickLeft
    /\ WithoutDonation

\* The thread pull_next_runnable_thread finds is queued, may run on p and is
\* active nowhere.
LEMMA PullNextFacts ==
    ASSUME IInv, NEW p \in Processor, PullNext(p) # Idle
    PROVE  /\ PullNext(p) \in Thread
           /\ runnable_priority[PullNext(p)] # -1
           /\ ~ active[PullNext(p)]
<1> DEFINE bs == {b \in mask : Candidates(p, b) # {}}
           b == Least(bs)
           i == Least(Candidates(p, b))
<1>1. bs # {} /\ PullNext(p) = ready[b][i]
  BY Zenon DEF PullNext, FirstIn
<1>2. bs \subseteq Buckets /\ bs \in SUBSET Nat
  BY Zenon, BucketType DEF IInv, TypeOK
<1>3. b \in bs
  BY Zenon, <1>1, <1>2, LeastIn
<1> HIDE DEF b
<1>4. b \in Buckets /\ Candidates(p, b) # {}
  BY Zenon, <1>2, <1>3
<1>5. ready[b] \in Seq(Thread)
  BY Zenon, <1>4 DEF IInv, TypeOK
<1>6. Candidates(p, b) \in SUBSET Nat
  BY <1>5 DEF Candidates
<1>7. i \in Candidates(p, b)
  BY Zenon, <1>4, <1>6, LeastIn
<1> HIDE DEF i
<1>8. i \in DOMAIN ready[b] /\ ready[b][i] \in Thread /\ ~ active[ready[b][i]]
  BY <1>5, <1>7 DEF Candidates, Pullable
<1>9. runnable_priority[ready[b][i]] = b
  <2>1. QueuesOK(Queues)
    BY Zenon DEF IInv
  <2> QED
    BY <1>4, <1>8, <2>1 DEF QueuesOK, Queues
<1>10. b # -1
  BY Zenon, <1>4, BucketType
<1> QED
  BY Zenon, <1>1, <1>8, <1>9, <1>10

\* Thread::set_state: the queues stay in order, and the thread is queued by its
\* priority exactly when its new state is Runnable.
LEMMA SetStateFacts ==
    ASSUME IInv, NEW t \in Thread, NEW new, SetState(t, new)
    PROVE  /\ QueuesOK(Queues)'
           /\ state' = [state EXCEPT ![t] = new]
           /\ runnable_priority' =
                [runnable_priority EXCEPT
                    ![t] = IF new = "Runnable" THEN PriorityIndex(priority[t]) ELSE -1]
<1> DEFINE q == Leaves(Queues, t)
           e == Enters(q, t, new)
<1>1. /\ QueuesOK(Queues) /\ Queues.prio = runnable_priority
      /\ runnable_priority \in [Thread -> Buckets \union {-1}]
      /\ priority \in [Thread -> Priorities]
  BY Zenon DEF IInv, TypeOK, Queues
<1>2. QueuesOK(q) /\ q.prio = [runnable_priority EXCEPT ![t] = -1]
  <2>1. CASE state[t] = "Runnable"
    BY Zenon, <1>1, <2>1, DequeueOK DEF Leaves
  <2>2. CASE state[t] # "Runnable"
    <3>1. q = Queues
      BY Zenon, <2>2 DEF Leaves
    <3>2. runnable_priority[t] = -1
      BY Zenon, <2>2 DEF IInv, QueuedRunnable
    <3> QED
      BY Zenon, <1>1, <3>1, <3>2
  <2> QED
    BY Zenon, <2>1, <2>2
<1> HIDE DEF q
<1>3. /\ QueuesOK(e)
      /\ e.prio = [runnable_priority EXCEPT
                      ![t] = IF new = "Runnable" THEN PriorityIndex(priority[t]) ELSE -1]
  <2>1. CASE new = "Runnable"
    <3>1. q.prio[t] = -1
      BY Zenon, <1>1, <1>2
    <3>2. QueuesOK(Enqueue(q, t))
          /\ Enqueue(q, t).prio = [q.prio EXCEPT ![t] = PriorityIndex(priority[t])]
      BY Zenon, <1>1, <1>2, <3>1, EnqueueOK
    <3> QED
      BY Zenon, <1>1, <1>2, <2>1, <3>2 DEF Enters
  <2>2. CASE new # "Runnable"
    BY Zenon, <1>2, <2>2 DEF Enters
  <2> QED
    BY Zenon, <2>1, <2>2
<1> HIDE DEF e
<1>4. state' = [state EXCEPT ![t] = new] /\ SetQueues(e)
  BY Zenon DEF SetState, e, q
<1>5. ready' = e.ready /\ mask' = e.mask /\ runnable_priority' = e.prio
  BY Zenon, <1>4 DEF SetQueues
<1>6. QueuesOK(Queues)'
  BY <1>3, <1>5 DEF QueuesOK, Queues
<1> QED
  BY Zenon, <1>3, <1>4, <1>5, <1>6

\* A step that sets one thread's state, may flag switches and leaves running
\* threads where they are keeps the invariant, unless it makes one of those
\* Dead or revives a thread that was collected.
LEMMA SetStateStep ==
    ASSUME IInv, NEW t \in Thread, NEW new \in States, SetState(t, new),
           UNCHANGED <<priority, active, ticks_left, current, beneficiary>>,
           async' \in [Processor -> BOOLEAN],
           \A p \in Processor : async[p] => async'[p],
           should_die' \in [Thread -> BOOLEAN],
           dying' \subseteq dying,
           stop_state' \in [Thread -> StopStates],
           \A u \in Thread \ {t} : stop_state'[u] = stop_state[u],
           (stop_state'[t] # "Invalid") <=> (new = "Stopped"),
           new = "Dead" \/ stop_state'[t] = "Dead" => \A p \in Processor : current[p] # t,
           t \in dying' => new = "Dying" \/ (new = "Stopped" /\ stop_state'[t] = "Dying")
    PROVE  IInv'
<1>1. /\ QueuesOK(Queues)'
      /\ state' = [state EXCEPT ![t] = new]
      /\ runnable_priority' =
            [runnable_priority EXCEPT
                ![t] = IF new = "Runnable" THEN PriorityIndex(priority[t]) ELSE -1]
  BY Zenon, SetStateFacts
<1>2. PriorityIndex(priority[t]) \in Buckets /\ PriorityIndex(priority[t]) # -1
  BY Zenon, BucketType DEF IInv, TypeOK
<1>3. /\ state \in [Thread -> States] /\ dying \subseteq Thread
      /\ current \in [Processor -> Thread \union {Idle}]
      /\ runnable_priority \in [Thread -> Buckets \union {-1}]
  BY Zenon DEF IInv, TypeOK
<1>4. state'[t] = new /\ \A u \in Thread \ {t} : state'[u] = state[u]
  BY Zenon, <1>1, <1>3
<1>5. StopStateKept'
  BY Zenon, <1>4 DEF IInv, StopStateKept
<1>6. TypeOK'
  <2>1. /\ ready' \in [Buckets -> Seq(Thread)] /\ mask' \subseteq Buckets
        /\ runnable_priority' \in [Thread -> Buckets \union {-1}]
    BY <1>1 DEF QueuesOK, Queues
  <2>2. state' \in [Thread -> States]
    BY Zenon, <1>1, <1>3
  <2>3. dying' \subseteq Thread
    BY Zenon, <1>3
  <2> QED
    BY Zenon, <1>5, <2>1, <2>2, <2>3 DEF IInv, TypeOK, StopStateKept
<1>7. QueuedRunnable'
  BY Zenon, <1>1, <1>2, <1>3 DEF IInv, QueuedRunnable
<1>8. DonationPending'
  BY Zenon DEF IInv, TypeOK, DonationPending
<1>9. Collected'
  BY Zenon, <1>3, <1>4 DEF IInv, Collected
<1>10. Ended'
  <2> SUFFICES ASSUME NEW p \in Processor, current[p] # Idle
               PROVE  current[p] \notin dying' /\ stop_state'[current[p]] # "Dead"
    BY Zenon DEF Ended
  <2>1. current[p] \in Thread /\ current[p] \notin dying /\ stop_state[current[p]] # "Dead"
    BY Zenon, <1>3 DEF IInv, Ended
  <2> QED
    BY Zenon, <2>1
<1>11. OneProcessor'
  <2> SUFFICES ASSUME NEW p \in Processor, current[p] # Idle
               PROVE  state'[current[p]] # "Dead"
    BY Zenon DEF IInv, OneProcessor
  <2>1. current[p] \in Thread /\ state[current[p]] # "Dead"
    BY Zenon, <1>3 DEF IInv, OneProcessor
  <2> QED
    BY Zenon, <1>4, <2>1
<1>12. TickLeft'
  BY Zenon DEF IInv, TypeOK, TickLeft
<1>13. WithoutDonation'
  <2>1. \A u \in Thread \ {t} : runnable_priority'[u] = runnable_priority[u]
    BY Zenon, <1>1, <1>3
  <2>2. new = "Runnable" => runnable_priority'[t] # -1
    BY Zenon, <1>1, <1>2, <1>3
  <2> QED
    BY Zenon, <1>4, <2>1, <2>2 DEF IInv, WithoutDonation
<1> QED
  BY Zenon, <1>1, <1>5, <1>6, <1>7, <1>8, <1>9, <1>10, <1>11, <1>12, <1>13 DEF IInv

\* Likewise a step that leaves states and queues alone.
LEMMA SameStatesStep ==
    ASSUME IInv, UNCHANGED <<state, stop_state, ready, mask, runnable_priority>>
    PROVE  QueuesOK(Queues)' /\ QueuedRunnable' /\ StopStateKept'
<1>1. QueuesOK(Queues)
  BY Zenon DEF IInv
<1>2. QueuesOK(Queues)'
  BY <1>1 DEF QueuesOK, Queues
<1> QED
  BY Zenon, <1>2 DEF IInv, QueuedRunnable, StopStateKept

\* What a switch of p to t does to a thread u: the thread switched from dies if
\* it should and is queued by its priority otherwise, if it was Running.
Yields(p, t, u) ==
    u = current[p] /\ u # t /\ state[u] = "Running" /\ ~should_die[u]
SwitchedPriority(p, t, u) ==
    IF u = t THEN -1
    ELSE IF Yields(p, t, u) THEN PriorityIndex(priority[u])
    ELSE runnable_priority[u]
SwitchedState(p, t, u) ==
    IF u = t /\ current[p] # t THEN "Running"
    ELSE IF u = current[p] /\ state[u] = "Running" /\ should_die[u] THEN "Dying"
    ELSE IF Yields(p, t, u) THEN "Runnable"
    ELSE state[u]

\* Scheduler::context_switch to a thread that has left the queues q, or to the
\* idle thread: the queues stay in order; the thread switched from is queued
\* by its priority if it was Running and another one runs now, unless it dies.
LEMMA ContextSwitchFacts ==
    ASSUME IInv, NEW p \in Processor, NEW t \in Thread \union {Idle}, NEW q,
           ContextSwitch(p, t, q),
           QueuesOK(q),
           t # Idle => state[t] = "Runnable",
           t = Idle => q.prio = runnable_priority,
           t # Idle => q.prio = [runnable_priority EXCEPT ![t] = -1]
    PROVE  /\ QueuesOK(Queues)'
           /\ current' = [current EXCEPT ![p] = t]
           /\ \A u \in Thread : runnable_priority'[u] = SwitchedPriority(p, t, u)
           /\ \A u \in Thread : state'[u] = SwitchedState(p, t, u)
           /\ state' \in [Thread -> States]
<1> DEFINE from == current[p]
           yields == from # t /\ from # Idle /\ state[from] = "Running" /\ ~Dies(p)
           e == IF yields THEN Enqueue(q, from) ELSE q
<1>1. /\ current' = [current EXCEPT ![p] = t]
      /\ state' = [u \in Thread |->
                      IF u = t /\ from # t THEN "Running"
                      ELSE IF u = from /\ Dies(p) THEN "Dying"
                      ELSE IF u = from /\ yields THEN "Runnable"
                      ELSE state[u]]
      /\ ready' = e.ready /\ mask' = e.mask /\ runnable_priority' = e.prio
  BY Zenon DEF ContextSwitch, SetQueues
<1>2. /\ runnable_priority \in [Thread -> Buckets \union {-1}]
      /\ priority \in [Thread -> Priorities]
      /\ from \in Thread \union {Idle}
      /\ state \in [Thread -> States]
      /\ Idle \notin Thread
  BY Zenon, SchedulerAssumption DEF IInv, TypeOK
<1>3. /\ q.prio \in [Thread -> Buckets \union {-1}]
      /\ \A u \in Thread : q.prio[u] = IF u = t THEN -1 ELSE runnable_priority[u]
  BY Zenon, <1>2
<1>4. QueuesOK(e)
      /\ \A u \in Thread : e.prio[u] =
            IF u = from /\ yields THEN PriorityIndex(priority[u]) ELSE q.prio[u]
  <2>1. CASE yields
    <3>1. from \in Thread /\ q.prio[from] = -1
      <4>1. from \in Thread /\ from # t /\ state[from] = "Running"
        BY Zenon, <1>2, <2>1
      <4>2. runnable_priority[from] = -1
        BY Zenon, <4>1 DEF IInv, QueuedRunnable
      <4> QED
        BY Zenon, <1>3, <4>1, <4>2
    <3>2. /\ QueuesOK(Enqueue(q, from))
          /\ Enqueue(q, from).prio = [q.prio EXCEPT ![from] = PriorityIndex(priority[from])]
      BY Zenon, <1>2, <3>1, EnqueueOK
    <3>3. e = Enqueue(q, from)
      BY Zenon, <2>1
    <3> QED
      BY Zenon, <1>3, <2>1, <3>1, <3>2, <3>3
  <2>2. CASE ~ yields
    BY Zenon, <2>2
  <2> QED
    BY Zenon, <2>1, <2>2
<1>5. QueuesOK(Queues)'
  <2> HIDE DEF e
  <2> QED
    BY <1>1, <1>4 DEF QueuesOK, Queues
<1>6. \A u \in Thread : /\ (u = from /\ yields) <=> Yields(p, t, u)
                        /\ (u = from /\ Dies(p)) <=> (u = from /\ state[u] = "Running" /\ should_die[u])
  BY Zenon, <1>2 DEF Yields, Dies
<1>7. \A u \in Thread : runnable_priority'[u] = SwitchedPriority(p, t, u)
  BY Zenon, <1>1, <1>3, <1>4, <1>6 DEF SwitchedPriority
<1>8. \A u \in Thread : state'[u] = SwitchedState(p, t, u)
  BY Zenon, <1>1, <1>6 DEF SwitchedState
<1>9. state' \in [Thread -> States]
  BY Zenon, <1>1, <1>2 DEF States
<1> QED
  BY Zenon, <1>1, <1>5, <1>7, <1>8, <1>9

-----------------------------------------------------------------------------
(* One lemma per action                                                    *)

\* The initial state: no thread is ready, every processor idles.
LEMMA InitInv == Init => IInv
<1> SUFFICES ASSUME Init PROVE IInv
  BY Zenon
<1> USE DEF Init
<1>1. TypeOK
  BY SchedulerAssumption DEF TypeOK, States, StopStates
<1>2. QueuesOK(Queues)
  <2>1. \A b \in Buckets : Queues.ready[b] = <<>> /\ DOMAIN Queues.ready[b] = {}
    BY DEF Queues
  <2>2. /\ Queues.ready \in [Buckets -> Seq(Thread)]
        /\ Queues.prio \in [Thread -> Buckets \union {-1}]
        /\ Queues.mask = {}
        /\ \A t \in Thread : Queues.prio[t] = -1
    BY DEF Queues
  <2> QED
    BY <2>1, <2>2, BucketType, Zenon DEF QueuesOK
<1>3. /\ QueuedRunnable /\ StopStateKept /\ DonationPending /\ Collected /\ Ended
      /\ OneProcessor /\ TickLeft /\ WithoutDonation
  BY Zenon DEF QueuedRunnable, StopStateKept, DonationPending, Collected, Ended,
               OneProcessor, TickLeft, WithoutDonation
<1> QED
  BY Zenon, <1>1, <1>2, <1>3 DEF IInv

\* donate_to_and_switch that gives up takes the beneficiary out of its queue,
\* and the donor, which goes on, had a tick left when it called donate; this
\* happens only where time slices are donated.
LEMMA PickDonationFailsStep ==
    ASSUME IInv, NEW p \in Processor, PickDonationFails(p)
    PROVE  IInv'
<1> DEFINE b == beneficiary[p]
           c == current[p]
           q == Dequeue(Queues, b)
<1>1. /\ b \in Thread /\ async[p]
      /\ UNCHANGED <<stop_state, should_die, dying, priority, active, ticks_left, current>>
      /\ beneficiary' = [beneficiary EXCEPT ![p] = None]
      /\ async' = [async EXCEPT ![p] = FALSE]
      /\ ready' = q.ready /\ mask' = q.mask /\ runnable_priority' = q.prio
  BY Zenon DEF PickDonationFails, Donation, SetQueues, deathVars, IInv, TypeOK
<1>2. Donating # {} /\ c \in Thread /\ ticks_left[c] > 0
  BY Zenon, <1>1, SchedulerAssumption DEF IInv, TypeOK, DonationPending
<1>3. QueuesOK(q) /\ q.prio = [runnable_priority EXCEPT ![b] = -1]
  <2>1. QueuesOK(Queues) /\ Queues.prio = runnable_priority
    BY Zenon DEF IInv, Queues
  <2> QED
    BY Zenon, <1>1, <2>1, DequeueOK
<1>4. /\ state' \in [Thread -> States]
      /\ \A u \in Thread : state'[u] = state[u]
            \/ (u = c /\ state[u] = "Running" /\ state'[u] = "Dying")
  <2>1. state' = IF Dies(p) THEN [state EXCEPT ![c] = "Dying"] ELSE state
    BY Zenon DEF PickDonationFails
  <2>2. state \in [Thread -> States] /\ "Dying" \in States
    BY Zenon DEF IInv, TypeOK, States
  <2>3. CASE Dies(p)
    BY Zenon, <1>2, <2>1, <2>2, <2>3 DEF Dies
  <2>4. CASE ~ Dies(p)
    BY Zenon, <2>1, <2>2, <2>4
  <2> QED
    BY Zenon, <2>3, <2>4
<1> HIDE DEF q, b, c
<1>5. QueuesOK(Queues)'
  BY <1>1, <1>3 DEF QueuesOK, Queues
<1>6. StopStateKept'
  BY Zenon, <1>1, <1>4 DEF IInv, StopStateKept
<1>7. TypeOK'
  <2>1. /\ ready' \in [Buckets -> Seq(Thread)] /\ mask' \subseteq Buckets
        /\ runnable_priority' \in [Thread -> Buckets \union {-1}]
    BY <1>5 DEF QueuesOK, Queues
  <2>2. async' \in [Processor -> BOOLEAN] /\ beneficiary' \in [Processor -> Thread \union {None}]
    BY Zenon, <1>1 DEF IInv, TypeOK
  <2> QED
    BY Zenon, <1>1, <1>4, <1>6, <2>1, <2>2 DEF IInv, TypeOK, StopStateKept
<1>8. QueuedRunnable'
  <2> SUFFICES ASSUME NEW u \in Thread, runnable_priority'[u] # -1
               PROVE  state'[u] = "Runnable"
    BY Zenon DEF QueuedRunnable
  <2>1. runnable_priority[u] # -1
    BY Zenon, <1>1, <1>3 DEF IInv, TypeOK
  <2> QED
    BY Zenon, <1>4, <2>1 DEF IInv, QueuedRunnable
<1>9. Collected' /\ Ended'
  <2>1. Collected'
    BY Zenon, <1>1, <1>4 DEF IInv, TypeOK, Collected
  <2>2. Ended'
    BY Zenon, <1>1 DEF IInv, Ended
  <2> QED
    BY Zenon, <2>1, <2>2
<1>10. OneProcessor'
  <2> SUFFICES ASSUME NEW r \in Processor, current[r] # Idle
               PROVE  state'[current[r]] # "Dead"
    BY Zenon, <1>1 DEF IInv, OneProcessor
  <2>1. current[r] \in Thread /\ state[current[r]] # "Dead"
    BY Zenon DEF IInv, TypeOK, OneProcessor
  <2> QED
    BY Zenon, <1>4, <2>1
<1>11. DonationPending'
  BY Zenon, <1>1 DEF IInv, TypeOK, DonationPending
<1>12. TickLeft'
  BY Zenon, <1>1, <1>2 DEF IInv, TypeOK, TickLeft, c
<1>13. WithoutDonation'
  BY Zenon, <1>2 DEF WithoutDonation
<1> QED
  BY Zenon, <1>5, <1>6, <1>7, <1>8, <1>9, <1>10, <1>11, <1>12, <1>13 DEF IInv

\* A donation that is honoured: the beneficiary gets at least one tick.
LEMMA PickBeneficiaryStep ==
    ASSUME IInv, Solo, NEW p \in Processor, PickBeneficiary(p)
    PROVE  IInv'
<1> DEFINE b == beneficiary[p]
           q == Dequeue(Queues, b)
           left == ticks_left[current[p]]
           given == IF left - 1 < TimeSlice THEN left - 1 ELSE TimeSlice
<1>1. /\ b \in Thread /\ Donating # {} /\ current[p] \in Thread
      /\ state[b] = "Runnable" /\ left > 1
      /\ ContextSwitch(p, b, q)
      /\ active' = [active EXCEPT ![current[p]] = FALSE]
      /\ ticks_left' = [ticks_left EXCEPT ![b] = given]
      /\ beneficiary' = [beneficiary EXCEPT ![p] = None]
      /\ async' = [async EXCEPT ![p] = FALSE]
      /\ UNCHANGED <<stop_state, should_die, dying, priority>>
  BY Zenon, SchedulerAssumption
     DEF PickBeneficiary, Donation, deathVars, IInv, TypeOK, DonationPending
<1>2. QueuesOK(q) /\ q.prio = [runnable_priority EXCEPT ![b] = -1]
  <2>1. QueuesOK(Queues) /\ Queues.prio = runnable_priority
    BY Zenon DEF IInv, Queues
  <2> QED
    BY Zenon, <1>1, <2>1, DequeueOK
<1>3. given \in 0 .. TimeSlice /\ given > 0
  <2>1. left \in 0 .. TimeSlice /\ TimeSlice \in Nat \ {0}
    BY Zenon, <1>1, SchedulerAssumption DEF IInv, TypeOK
  <2> HIDE DEF left
  <2> QED
    BY <1>1, <2>1
<1>4. \A r \in Processor : r = p
  BY Zenon, <1>1 DEF Solo
<1> HIDE DEF b, q, given
<1>5. /\ QueuesOK(Queues)'
      /\ current' = [current EXCEPT ![p] = b]
      /\ \A u \in Thread : runnable_priority'[u] = SwitchedPriority(p, b, u)
      /\ \A u \in Thread : state'[u] = SwitchedState(p, b, u)
      /\ state' \in [Thread -> States]
  <2>1. b # Idle
    BY Zenon, <1>1, SchedulerAssumption
  <2> QED
    BY Zenon, <1>1, <1>2, <2>1, ContextSwitchFacts
<1>6. /\ state'[b] = "Running" \/ (state'[b] = "Runnable" /\ current[p] = b)
      /\ \A u \in Thread \ {b} :
            \/ state'[u] = state[u] /\ runnable_priority'[u] = runnable_priority[u]
            \/ /\ u = current[p] /\ state[u] = "Running" /\ state'[u] \in {"Runnable", "Dying"}
               /\ state'[u] = "Dying" => runnable_priority'[u] = runnable_priority[u]
      /\ runnable_priority'[b] = -1
  BY Zenon, <1>1, <1>5 DEF SwitchedState, SwitchedPriority, Yields
<1>7. StopStateKept'
  BY Zenon, <1>1, <1>6 DEF IInv, StopStateKept
<1>8. TypeOK'
  <2>1. /\ ready' \in [Buckets -> Seq(Thread)] /\ mask' \subseteq Buckets
        /\ runnable_priority' \in [Thread -> Buckets \union {-1}]
    BY <1>5 DEF QueuesOK, Queues
  <2>2. /\ active' \in [Thread -> BOOLEAN] /\ ticks_left' \in [Thread -> 0 .. TimeSlice]
        /\ current' \in [Processor -> Thread \union {Idle}]
        /\ async' \in [Processor -> BOOLEAN]
        /\ beneficiary' \in [Processor -> Thread \union {None}]
    BY Zenon, <1>1, <1>3, <1>5 DEF IInv, TypeOK
  <2> QED
    BY Zenon, <1>1, <1>5, <1>7, <2>1, <2>2 DEF IInv, TypeOK, StopStateKept
<1>9. QueuedRunnable'
  BY Zenon, <1>6 DEF IInv, QueuedRunnable
<1>10. DonationPending'
  BY Zenon, <1>1, <1>4 DEF IInv, TypeOK, DonationPending
<1>11. current'[p] = b
  BY Zenon, <1>5 DEF IInv, TypeOK
<1>12. b \notin dying /\ stop_state[b] = "Invalid"
  BY Zenon, <1>1 DEF IInv, Collected, StopStateKept
<1>13. Collected'
  <2> SUFFICES ASSUME NEW u \in dying
               PROVE  state'[u] = "Dying" \/ (state'[u] = "Stopped" /\ stop_state[u] = "Dying")
    BY Zenon, <1>1 DEF Collected
  <2>1. /\ u \in Thread \ {b}
        /\ state[u] = "Dying" \/ (state[u] = "Stopped" /\ stop_state[u] = "Dying")
    BY Zenon, <1>12 DEF IInv, TypeOK, Collected
  <2> QED
    BY Zenon, <1>6, <2>1
<1>14. Ended' /\ OneProcessor'
  BY Zenon, <1>1, <1>4, <1>6, <1>11, <1>12 DEF Ended, OneProcessor
<1>15. TickLeft'
  <2>1. ticks_left'[b] = given
    BY Zenon, <1>1 DEF IInv, TypeOK
  <2> QED
    BY Zenon, <1>3, <1>4, <1>11, <2>1 DEF TickLeft
<1>16. WithoutDonation'
  BY Zenon, <1>1 DEF WithoutDonation
<1> QED
  BY Zenon, <1>5, <1>7, <1>8, <1>9, <1>10, <1>13, <1>14, <1>15, <1>16 DEF IInv

\* pick_next without a donation: the thread it finds is active nowhere, so it
\* is the current thread of no other processor.
LEMMA PickNextStep ==
    ASSUME IInv, Solo, NEW p \in Processor, PickNext(p)
    PROVE  IInv'
<1> DEFINE t == PullNext(p)
           q == IF t = Idle THEN Queues ELSE Dequeue(Queues, t)
<1>1. /\ ContextSwitch(p, t, q)
      /\ active' = [u \in Thread |->
                      IF u = t THEN TRUE ELSE IF u = current[p] THEN FALSE
                      ELSE active[u]]
      /\ ticks_left' = IF t = Idle THEN ticks_left
                       ELSE [ticks_left EXCEPT ![t] = TimeSlice]
      /\ beneficiary' = [beneficiary EXCEPT ![p] = None]
      /\ async' = [async EXCEPT ![p] = FALSE]
      /\ UNCHANGED <<stop_state, should_die, dying, priority>>
  BY Zenon DEF PickNext, deathVars
<1>2. t # Idle => t \in Thread /\ runnable_priority[t] # -1 /\ ~ active[t]
  BY Zenon, PullNextFacts
<1> HIDE DEF t
<1>3. t # Idle => state[t] = "Runnable"
  BY Zenon, <1>2 DEF IInv, QueuedRunnable
<1>4. /\ QueuesOK(q)
      /\ t = Idle => q.prio = runnable_priority
      /\ t # Idle => q.prio = [runnable_priority EXCEPT ![t] = -1]
  <2>1. QueuesOK(Queues) /\ Queues.prio = runnable_priority
    BY Zenon DEF IInv, Queues
  <2>2. CASE t = Idle
    BY Zenon, <2>1, <2>2
  <2>3. CASE t # Idle
    BY Zenon, <1>2, <2>1, <2>3, DequeueOK
  <2> QED
    BY Zenon, <2>2, <2>3
<1>5. t \in Thread \union {Idle} /\ Idle \notin Thread /\ TimeSlice \in Nat \ {0}
  BY Zenon, <1>2, SchedulerAssumption
<1> HIDE DEF q
<1>6. /\ QueuesOK(Queues)'
      /\ current' = [current EXCEPT ![p] = t]
      /\ \A u \in Thread : runnable_priority'[u] = SwitchedPriority(p, t, u)
      /\ \A u \in Thread : state'[u] = SwitchedState(p, t, u)
      /\ state' \in [Thread -> States]
  BY Zenon, <1>1, <1>3, <1>4, <1>5, ContextSwitchFacts
<1>7. /\ t # Idle => /\ state'[t] = "Running" \/ (state'[t] = "Runnable" /\ current[p] = t)
                     /\ runnable_priority'[t] = -1
      /\ \A u \in Thread \ {t} :
            \/ state'[u] = state[u] /\ runnable_priority'[u] = runnable_priority[u]
            \/ /\ u = current[p] /\ state[u] = "Running"
               /\ state'[u] = "Runnable"
               /\ runnable_priority'[u] = PriorityIndex(priority[u])
            \/ /\ u = current[p] /\ state[u] = "Running"
               /\ state'[u] = "Dying"
               /\ runnable_priority'[u] = runnable_priority[u]
  <2>1. t # Idle => t \in Thread /\ state[t] # "Running"
    BY Zenon, <1>2, <1>3
  <2>2. t # Idle => /\ state'[t] = "Running" \/ (state'[t] = "Runnable" /\ current[p] = t)
                    /\ runnable_priority'[t] = -1
    BY Zenon, <1>3, <1>6, <2>1 DEF SwitchedState, SwitchedPriority, Yields
  <2>3. ASSUME NEW u \in Thread \ {t}
        PROVE  \/ state'[u] = state[u] /\ runnable_priority'[u] = runnable_priority[u]
               \/ /\ u = current[p] /\ state[u] = "Running"
                  /\ state'[u] = "Runnable"
                  /\ runnable_priority'[u] = PriorityIndex(priority[u])
               \/ /\ u = current[p] /\ state[u] = "Running"
                  /\ state'[u] = "Dying"
                  /\ runnable_priority'[u] = runnable_priority[u]
    BY Zenon, <1>6 DEF SwitchedState, SwitchedPriority, Yields
  <2> QED
    BY Zenon, <2>2, <2>3
<1>8. StopStateKept' /\ QueuedRunnable'
  <2>1. StopStateKept'
    BY Zenon, <1>1, <1>2, <1>3, <1>5, <1>7 DEF IInv, StopStateKept
  <2>2. QueuedRunnable'
    <3> SUFFICES ASSUME NEW u \in Thread, runnable_priority'[u] # -1
                 PROVE  state'[u] = "Runnable"
      BY Zenon DEF QueuedRunnable
    <3>1. u # t
      BY Zenon, <1>5, <1>7
    <3>2. runnable_priority[u] # -1 => state[u] = "Runnable"
      BY Zenon DEF IInv, QueuedRunnable
    <3> QED
      BY Zenon, <1>7, <3>1, <3>2
  <2> QED
    BY Zenon, <2>1, <2>2
<1>9. TypeOK'
  <2>1. /\ ready' \in [Buckets -> Seq(Thread)] /\ mask' \subseteq Buckets
        /\ runnable_priority' \in [Thread -> Buckets \union {-1}]
    BY <1>6 DEF QueuesOK, Queues
  <2>2. active' \in [Thread -> BOOLEAN]
    BY Zenon, <1>1 DEF IInv, TypeOK
  <2>3. ticks_left' \in [Thread -> 0 .. TimeSlice]
    BY <1>1, <1>5 DEF IInv, TypeOK
  <2>4. /\ current' \in [Processor -> Thread \union {Idle}]
        /\ async' \in [Processor -> BOOLEAN]
        /\ beneficiary' \in [Processor -> Thread \union {None}]
    BY Zenon, <1>1, <1>5, <1>6 DEF IInv, TypeOK
  <2> QED
    BY Zenon, <1>1, <1>6, <1>8, <2>1, <2>2, <2>3, <2>4 DEF IInv, TypeOK, StopStateKept
<1>10. t # Idle => \A r \in Processor \ {p} : current[r] # t
  BY Zenon, <1>2 DEF IInv, Solo, WithoutDonation
<1>11. /\ current'[p] = t
       /\ \A r \in Processor \ {p} : current'[r] = current[r] /\ async'[r] = async[r]
       /\ current \in [Processor -> Thread \union {Idle}]
  BY Zenon, <1>1, <1>6 DEF IInv, TypeOK
<1>12. DonationPending'
  <2> SUFFICES ASSUME NEW r \in Processor, beneficiary'[r] # None
               PROVE  /\ async'[r] /\ current'[r] # Idle /\ Donating # {}
                      /\ ticks_left'[current'[r]] > 0
    BY Zenon DEF DonationPending
  <2>1. r # p /\ beneficiary'[r] = beneficiary[r]
    BY Zenon, <1>1 DEF IInv, TypeOK
  <2>2. /\ async[r] /\ current[r] # Idle /\ Donating # {}
        /\ ticks_left[current[r]] > 0 /\ current[r] \in Thread
    BY Zenon, <1>11, <2>1 DEF IInv, DonationPending
  <2>3. r = p
    BY Zenon, <2>2 DEF Solo
  <2> QED
    BY Zenon, <2>1, <2>3
<1>13. Collected'
  <2> SUFFICES ASSUME NEW u \in dying
               PROVE  state'[u] = "Dying" \/ (state'[u] = "Stopped" /\ stop_state[u] = "Dying")
    BY Zenon, <1>1 DEF Collected
  <2>1. /\ u \in Thread
        /\ state[u] = "Dying" \/ (state[u] = "Stopped" /\ stop_state[u] = "Dying")
    BY Zenon DEF IInv, TypeOK, Collected
  <2>2. u # t
    BY Zenon, <1>3, <1>5, <2>1
  <2> QED
    BY Zenon, <1>7, <2>1, <2>2
<1>14. ASSUME NEW r \in Processor, current'[r] # Idle
       PROVE  /\ state'[current'[r]] # "Dead"
              /\ current'[r] \notin dying /\ stop_state[current'[r]] # "Dead"
  <2>1. CASE r = p
    <3>1. t # Idle /\ t \in Thread /\ state[t] = "Runnable"
      BY Zenon, <1>2, <1>3, <1>11, <1>14, <2>1
    <3>2. t \notin dying /\ stop_state[t] = "Invalid"
      BY Zenon, <3>1 DEF IInv, Collected, StopStateKept
    <3> QED
      BY Zenon, <1>7, <1>11, <2>1, <3>1, <3>2
  <2>2. CASE r # p
    <3>1. /\ current'[r] = current[r] /\ current[r] \in Thread /\ current[r] # t
          /\ state[current[r]] # "Dead"
          /\ current[r] \notin dying /\ stop_state[current[r]] # "Dead"
      <4>1. current'[r] = current[r] /\ current[r] \in Thread /\ current[r] # Idle
        BY Zenon, <1>5, <1>11, <1>14, <2>2
      <4>2. current[r] # t
        BY Zenon, <1>5, <1>10, <2>2, <4>1
      <4>3. state[current[r]] # "Dead"
        BY Zenon, <4>1 DEF IInv, OneProcessor
      <4>4. current[r] \notin dying /\ stop_state[current[r]] # "Dead"
        BY Zenon, <4>1 DEF IInv, Ended
      <4> QED
        BY Zenon, <4>1, <4>2, <4>3, <4>4
    <3> QED
      BY Zenon, <1>7, <3>1
  <2> QED
    BY Zenon, <2>1, <2>2
<1>15. OneProcessor' /\ Ended'
  <2>1. \A r, u \in Processor : current'[r] = current'[u] /\ current'[r] # Idle => r = u
    <3> TAKE r, u \in Processor
    <3>1. CASE r = p \/ u = p
      BY Zenon, <1>10, <1>11, <3>1
    <3>2. CASE r # p /\ u # p
      <4>1. current'[r] = current[r] /\ current'[u] = current[u]
        BY Zenon, <1>11, <3>2
      <4>2. current[r] = current[u] /\ current[r] # Idle => r = u
        BY Zenon DEF IInv, OneProcessor
      <4> QED
        BY Zenon, <4>1, <4>2
    <3> QED
      BY Zenon, <3>1, <3>2
  <2> QED
    BY Zenon, <1>1, <1>14, <2>1 DEF OneProcessor, Ended
<1>16. TickLeft'
  <2> SUFFICES ASSUME NEW r \in Processor, current'[r] # Idle, ~ async'[r]
               PROVE  ticks_left'[current'[r]] > 0
    BY Zenon DEF TickLeft
  <2>1. CASE r = p
    <3>1. t # Idle /\ t \in Thread /\ TimeSlice > 0
      BY <1>2, <1>5, <1>11, <2>1
    <3>2. ticks_left'[t] = TimeSlice
      BY Zenon, <1>1, <3>1 DEF IInv, TypeOK
    <3> QED
      BY Zenon, <1>11, <2>1, <3>1, <3>2
  <2>2. CASE r # p
    <3>1. current'[r] = current[r] /\ current[r] \in Thread /\ ticks_left[current[r]] > 0
      BY Zenon, <1>11, <2>2 DEF IInv, TickLeft
    <3>2. CASE t = Idle
      BY Zenon, <1>1, <3>1, <3>2
    <3>3. CASE t # Idle
      BY Zenon, <1>1, <1>10, <2>2, <3>1, <3>3 DEF IInv, TypeOK
    <3> QED
      BY Zenon, <3>2, <3>3
  <2> QED
    BY Zenon, <2>1, <2>2
<1>17. WithoutDonation'
  <2> SUFFICES ASSUME Donating = {}
               PROVE  /\ \A r \in Processor : current'[r] # Idle => active'[current'[r]]
                      /\ \A u \in Thread : state'[u] = "Runnable" => runnable_priority'[u] # -1
    BY Zenon DEF WithoutDonation
  <2>1. ASSUME NEW r \in Processor, current'[r] # Idle PROVE active'[current'[r]]
    <3>1. CASE r = p
      BY Zenon, <1>1, <1>2, <1>11, <2>1, <3>1
    <3>2. CASE r # p
      <4>1. current'[r] = current[r] /\ current[r] \in Thread /\ active[current[r]]
        BY Zenon, <1>11, <2>1, <3>2 DEF IInv, WithoutDonation
      <4>2. current[r] # current[p]
        BY Zenon, <1>5, <3>2, <4>1 DEF IInv, OneProcessor
      <4> QED
        BY Zenon, <1>1, <4>1, <4>2
    <3> QED
      BY Zenon, <3>1, <3>2
  <2>2. current[p] = t /\ t # Idle => FALSE
    BY Zenon, <1>2 DEF IInv, WithoutDonation
  <2>3. \A u \in Thread : PriorityIndex(priority[u]) # -1
    BY Zenon, BucketType DEF IInv, TypeOK
  <2>4. \A u \in Thread : state[u] = "Runnable" => runnable_priority[u] # -1
    BY Zenon DEF IInv, WithoutDonation
  <2>5. ASSUME NEW u \in Thread, state'[u] = "Runnable" PROVE runnable_priority'[u] # -1
    <3>1. u # t
      BY Zenon, <1>5, <1>7, <2>2, <2>5
    <3>2. CASE state'[u] = state[u] /\ runnable_priority'[u] = runnable_priority[u]
      BY Zenon, <2>4, <2>5, <3>2
    <3>3. CASE runnable_priority'[u] = PriorityIndex(priority[u])
      BY Zenon, <2>3, <3>3
    <3> QED
      BY Zenon, <1>7, <2>5, <3>1, <3>2, <3>3
  <2> QED
    BY Zenon, <2>1, <2>5
<1> QED
  BY Zenon, <1>6, <1>8, <1>9, <1>12, <1>13, <1>15, <1>16, <1>17 DEF IInv

\* timer_tick takes a tick from the one processor whose thread it is, and flags
\* a switch when it was the last.
LEMMA TimerTickStep ==
    ASSUME IInv, NEW p \in Processor, TimerTick(p)
    PROVE  IInv'
<1>1. /\ ~ async[p]
      /\ UNCHANGED <<state, stop_state, should_die, dying, priority, ready, mask,
                     runnable_priority, active, current, beneficiary>>
  BY Zenon DEF TimerTick, queueVars, deathVars
<1>2. QueuesOK(Queues)' /\ QueuedRunnable' /\ StopStateKept'
  BY Zenon, <1>1, SameStatesStep
<1>3. Collected' /\ Ended' /\ OneProcessor' /\ WithoutDonation'
  BY Zenon, <1>1 DEF IInv, Collected, Ended, OneProcessor, WithoutDonation
<1>4. beneficiary[p] = None
  BY Zenon, <1>1 DEF IInv, DonationPending
<1>5. CASE current[p] = Idle
  <2>1. async' = [async EXCEPT ![p] = TRUE] /\ ticks_left' = ticks_left
    BY Zenon, <1>5 DEF TimerTick, Flag
  <2>2. TypeOK' /\ DonationPending' /\ TickLeft'
    BY Zenon, <1>1, <2>1 DEF IInv, TypeOK, DonationPending, TickLeft
  <2> QED
    BY Zenon, <1>2, <1>3, <2>2 DEF IInv
<1>6. CASE current[p] # Idle
  <2> DEFINE c == current[p]
             left == ticks_left[c] - 1
  <2>1. /\ ticks_left' = [ticks_left EXCEPT ![c] = left]
        /\ async' = [async EXCEPT ![p] = (left = 0)]
    BY Zenon, <1>6 DEF TimerTick
  <2>2. c \in Thread /\ ticks_left[c] \in 0 .. TimeSlice /\ ticks_left[c] > 0
        /\ TimeSlice \in Nat
    BY Zenon, <1>1, <1>6, SchedulerAssumption DEF IInv, TypeOK, TickLeft
  <2>3. left \in 0 .. TimeSlice
    BY <2>2
  <2>4. \A r \in Processor \ {p} : current[r] # c
    BY Zenon, <1>6 DEF IInv, OneProcessor
  <2> HIDE DEF left, c
  <2>5. TypeOK'
    BY Zenon, <1>1, <2>1, <2>3 DEF IInv, TypeOK
  <2>6. DonationPending'
    <3> SUFFICES ASSUME NEW r \in Processor, beneficiary[r] # None
                 PROVE  async'[r] /\ ticks_left'[current[r]] > 0
      BY Zenon, <1>1 DEF IInv, DonationPending
    <3>1. r # p /\ async[r] /\ current[r] \in Thread /\ ticks_left[current[r]] > 0
      BY Zenon, <1>4 DEF IInv, TypeOK, DonationPending
    <3>2. async'[r] = async[r] /\ ticks_left'[current[r]] = ticks_left[current[r]]
      BY Zenon, <2>1, <2>4, <3>1 DEF IInv, TypeOK
    <3> QED
      BY Zenon, <3>1, <3>2
  <2>7. TickLeft'
    <3> SUFFICES ASSUME NEW r \in Processor, current[r] # Idle, ~ async'[r]
                 PROVE  ticks_left'[current[r]] > 0
      BY Zenon, <1>1 DEF TickLeft
    <3>1. CASE r = p
      <4>1. async'[p] = (left = 0)
        BY <2>1, Zenon DEF IInv, TypeOK
      <4>2. left # 0
        BY <3>1, <4>1, Zenon
      <4>3. ticks_left'[c] = left
        BY Zenon, <2>1, <2>2 DEF IInv, TypeOK
      <4> QED
        BY <2>3, <3>1, <4>2, <4>3, SchedulerAssumption DEF c
    <3>2. CASE r # p
      <4>1. ~ async[r] /\ current[r] \in Thread /\ current[r] # c
        BY Zenon, <2>1, <2>4, <3>2 DEF IInv, TypeOK
      <4> QED
        BY Zenon, <2>1, <4>1 DEF IInv, TypeOK, TickLeft
    <3> QED
      BY Zenon, <3>1, <3>2
  <2> QED
    BY Zenon, <1>2, <1>3, <2>5, <2>6, <2>7 DEF IInv
<1> QED
  BY Zenon, <1>5, <1>6

\* Scheduler::yield only flags a switch.
LEMMA YieldStep ==
    ASSUME IInv, NEW p \in Processor, Yield(p)
    PROVE  IInv'
<1>1. /\ async' = [async EXCEPT ![p] = TRUE]
      /\ UNCHANGED <<state, stop_state, should_die, dying, priority, ready, mask,
                     runnable_priority, active, ticks_left, current, beneficiary>>
  BY Zenon DEF Yield, Flag, queueVars, deathVars
<1>2. QueuesOK(Queues)' /\ QueuedRunnable' /\ StopStateKept'
  BY Zenon, <1>1, SameStatesStep
<1>3. Collected' /\ Ended' /\ OneProcessor' /\ WithoutDonation'
  BY Zenon, <1>1 DEF IInv, Collected, Ended, OneProcessor, WithoutDonation
<1>4. TypeOK' /\ DonationPending' /\ TickLeft'
  BY Zenon, <1>1 DEF IInv, TypeOK, DonationPending, TickLeft
<1> QED
  BY Zenon, <1>2, <1>3, <1>4 DEF IInv

\* sys$donate notes the beneficiary and flags the switch that takes it up.  The
\* donor has a tick left, because no switch is pending yet.
LEMMA DonateStep ==
    ASSUME IInv, NEW p \in Processor, NEW t \in Thread, Donate(p, t)
    PROVE  IInv'
<1>1. /\ async' = [async EXCEPT ![p] = TRUE]
      /\ beneficiary' = [beneficiary EXCEPT ![p] = t]
      /\ Donating # {} /\ current[p] # Idle /\ ~ async[p]
      /\ UNCHANGED <<state, stop_state, should_die, dying, priority, ready, mask,
                     runnable_priority, active, ticks_left, current>>
  BY Zenon DEF Donate, Flag, queueVars, deathVars, Executes
<1>2. QueuesOK(Queues)' /\ QueuedRunnable' /\ StopStateKept'
  BY Zenon, <1>1, SameStatesStep
<1>3. Collected' /\ Ended' /\ OneProcessor' /\ WithoutDonation'
  BY Zenon, <1>1 DEF IInv, Collected, Ended, OneProcessor, WithoutDonation
<1>4. TypeOK' /\ DonationPending' /\ TickLeft'
  BY Zenon, <1>1 DEF IInv, TypeOK, DonationPending, TickLeft
<1> QED
  BY Zenon, <1>2, <1>3, <1>4 DEF IInv

\* sys$sched_setparam leaves a queued thread in the bucket of its old priority.
LEMMA SetPriorityStep ==
    ASSUME IInv, NEW t \in Thread, NEW v \in Priorities, SetPriority(t, v)
    PROVE  IInv'
<1>1. /\ priority' = [priority EXCEPT ![t] = v]
      /\ UNCHANGED <<state, stop_state, should_die, dying, ready, mask,
                     runnable_priority, active, ticks_left, current, async, beneficiary>>
  BY Zenon DEF SetPriority, queueVars, deathVars, procVars
<1>2. QueuesOK(Queues)' /\ QueuedRunnable' /\ StopStateKept'
  BY Zenon, <1>1, SameStatesStep
<1>3. Collected' /\ Ended' /\ OneProcessor' /\ WithoutDonation'
  BY Zenon, <1>1 DEF IInv, Collected, Ended, OneProcessor, WithoutDonation
<1>4. TypeOK' /\ DonationPending' /\ TickLeft'
  BY Zenon, <1>1 DEF IInv, TypeOK, DonationPending, TickLeft
<1> QED
  BY Zenon, <1>2, <1>3, <1>4 DEF IInv

\* What finalize_dying_threads collects is executing nowhere.
LEMMA CollectStep ==
    ASSUME IInv, Solo, NEW p \in Processor, Collect(p)
    PROVE  IInv'
<1>1. /\ dying' = {t \in Thread : state[t] = "Dying" /\ ~active[t] /\ current[p] # t}
      /\ UNCHANGED <<state, stop_state, should_die, priority, ready, mask,
                     runnable_priority, active, ticks_left, current, async, beneficiary>>
  BY Zenon DEF Collect, queueVars, procVars
<1>2. QueuesOK(Queues)' /\ QueuedRunnable' /\ StopStateKept'
  BY Zenon, <1>1, SameStatesStep
<1>3. OneProcessor' /\ WithoutDonation' /\ DonationPending' /\ TickLeft'
  BY Zenon, <1>1 DEF IInv, OneProcessor, WithoutDonation, DonationPending, TickLeft
<1>4. TypeOK' /\ Collected'
  BY Zenon, <1>1 DEF IInv, TypeOK, Collected
<1>5. \A r \in Processor : current[r] # Idle => current[r] \notin dying'
  BY Zenon, <1>1 DEF IInv, Solo, WithoutDonation
<1>6. Ended'
  BY Zenon, <1>1, <1>5 DEF IInv, Ended
<1> QED
  BY Zenon, <1>2, <1>3, <1>4, <1>6 DEF IInv

\* Thread::block, by the thread that executes on p: it is not collected.
LEMMA BlockStep ==
    ASSUME IInv, NEW p \in Processor, Block(p)
    PROVE  IInv'
<1>1. PICK t \in Thread : /\ current[p] = t /\ t # Idle
                         /\ SetState(t, "Blocked")
                         /\ stop_state' = [stop_state EXCEPT ![t] = "Invalid"]
  BY Zenon DEF Block, Executes
<1>2. /\ async' = [async EXCEPT ![p] = TRUE]
      /\ UNCHANGED <<should_die, dying, priority, active, ticks_left, current, beneficiary>>
  BY Zenon DEF Block, Flag, deathVars
<1>3. /\ async' \in [Processor -> BOOLEAN]
      /\ \A r \in Processor : async[r] => async'[r]
      /\ should_die' \in [Thread -> BOOLEAN] /\ dying' \subseteq dying
      /\ stop_state' \in [Thread -> StopStates]
      /\ stop_state'[t] = "Invalid"
      /\ \A u \in Thread \ {t} : stop_state'[u] = stop_state[u]
  BY Zenon, <1>1, <1>2 DEF IInv, TypeOK, StopStates
<1>4. t \notin dying' /\ "Blocked" \in States
  BY Zenon, <1>1, <1>2 DEF IInv, Ended, States
<1> QED
  BY Zenon, <1>1, <1>2, <1>3, <1>4, SetStateStep

\* A Blocked thread is made Runnable, or Running on its own processor, by
\* Thread::unblock.
LEMMA UnblockedStep ==
    ASSUME IInv, NEW p \in Processor, NEW t \in Thread,
           state[t] = "Blocked", SetState(t, Unblocked(p, t)),
           UNCHANGED <<stop_state, dying, priority, active, ticks_left, current,
                       async, beneficiary>>,
           should_die' \in [Thread -> BOOLEAN]
    PROVE  IInv'
<1>1. /\ async' \in [Processor -> BOOLEAN] /\ dying' \subseteq dying
      /\ stop_state' \in [Thread -> StopStates]
  BY Zenon DEF IInv, TypeOK
<1>2. t \notin dying' /\ stop_state'[t] = "Invalid"
  BY Zenon DEF IInv, Collected, StopStateKept
<1>3. /\ Unblocked(p, t) \in States
      /\ Unblocked(p, t) # "Stopped" /\ Unblocked(p, t) # "Dead"
  BY Zenon DEF Unblocked, States
<1> QED
  BY Zenon, <1>1, <1>2, <1>3, SetStateStep

\* set_should_die only wakes a thread that is blocked.
LEMMA SetShouldDieStep ==
    ASSUME IInv, NEW p \in Processor, NEW t \in Thread, SetShouldDie(p, t)
    PROVE  IInv'
<1>1. /\ should_die' = [should_die EXCEPT ![t] = TRUE]
      /\ UNCHANGED <<stop_state, dying, priority, active, ticks_left, current,
                     async, beneficiary>>
  BY Zenon DEF SetShouldDie, procVars
<1>2. should_die' \in [Thread -> BOOLEAN]
  BY Zenon, <1>1 DEF IInv, TypeOK
<1>3. CASE state[t] = "Blocked"
  <2>1. SetState(t, Unblocked(p, t))
    BY Zenon, <1>3 DEF SetShouldDie
  <2> QED
    BY Zenon, <1>1, <1>2, <1>3, <2>1, UnblockedStep
<1>4. CASE state[t] # "Blocked"
  <2>1. UNCHANGED <<state, ready, mask, runnable_priority>>
    BY Zenon, <1>4 DEF SetShouldDie, queueVars
  <2>2. QueuesOK(Queues)' /\ QueuedRunnable' /\ StopStateKept'
    BY Zenon, <1>1, <2>1, SameStatesStep
  <2>3. Collected' /\ Ended' /\ OneProcessor' /\ WithoutDonation'
    BY Zenon, <1>1, <2>1 DEF IInv, Collected, Ended, OneProcessor, WithoutDonation
  <2>4. TypeOK' /\ DonationPending' /\ TickLeft'
    BY Zenon, <1>1, <1>2, <2>1 DEF IInv, TypeOK, DonationPending, TickLeft
  <2> QED
    BY Zenon, <2>2, <2>3, <2>4 DEF IInv
<1> QED
  BY Zenon, <1>3, <1>4

\* The other steps that are a Thread::set_state: unblocking, stopping,
\* continuing, and finalizing a thread that no processor runs.
LEMMA SetStateSteps ==
    ASSUME IInv, NEW t \in Thread,
           \/ \E p \in Processor : Unblock(p, t)
           \/ Stop(t) \/ Continue(t) \/ Finalize(t)
    PROVE  IInv'
<1>1. ASSUME NEW p \in Processor, Unblock(p, t)
      PROVE  IInv'
  <2>1. /\ state[t] = "Blocked" /\ SetState(t, Unblocked(p, t))
        /\ UNCHANGED <<stop_state, should_die, dying, priority, active, ticks_left,
                       current, async, beneficiary>>
    BY Zenon, <1>1 DEF Unblock, deathVars, procVars
  <2>2. should_die' \in [Thread -> BOOLEAN]
    BY Zenon, <2>1 DEF IInv, TypeOK
  <2> QED
    BY Zenon, <2>1, <2>2, UnblockedStep
<1>2. ASSUME UNCHANGED <<priority, active, ticks_left, current, async, beneficiary, should_die>>,
             dying' \subseteq dying,
             NEW new \in States, SetState(t, new),
             NEW s \in StopStates, stop_state' = [stop_state EXCEPT ![t] = s],
             (s # "Invalid") <=> (new = "Stopped"),
             new = "Dead" \/ s = "Dead" => \A r \in Processor : current[r] # t,
             t \in dying' => new = "Dying" \/ (new = "Stopped" /\ s = "Dying")
      PROVE  IInv'
  <2>1. /\ async' \in [Processor -> BOOLEAN]
        /\ should_die' \in [Thread -> BOOLEAN]
        /\ stop_state' \in [Thread -> StopStates]
        /\ stop_state'[t] = s
        /\ \A u \in Thread \ {t} : stop_state'[u] = stop_state[u]
    BY Zenon, <1>2 DEF IInv, TypeOK
  <2> QED
    BY Zenon, <1>2, <2>1, SetStateStep
<1>3. t \in Thread /\ t # Idle /\ state[t] \in States /\ stop_state[t] \in StopStates
  BY Zenon, SchedulerAssumption DEF IInv, TypeOK
<1>4. CASE Stop(t)
  <2> DEFINE s == IF state[t] = "Running" THEN "Runnable" ELSE state[t]
  <2>1. /\ state[t] # "Stopped" /\ SetState(t, "Stopped")
        /\ stop_state' = [stop_state EXCEPT ![t] = s]
        /\ UNCHANGED <<priority, active, ticks_left, current, async, beneficiary,
                       should_die, dying>>
    BY Zenon, <1>4 DEF Stop, procVars, deathVars
  <2>2. s \in StopStates /\ s # "Invalid" /\ "Stopped" \in States
    BY Zenon, <1>3, <2>1 DEF States, StopStates
  <2>3. s = "Dead" => \A r \in Processor : current[r] # t
    BY Zenon, <1>3 DEF IInv, OneProcessor
  <2>4. t \in dying' => s = "Dying"
    BY Zenon, <2>1 DEF IInv, Collected
  <2> HIDE DEF s
  <2> QED
    BY Zenon, <1>2, <2>1, <2>2, <2>3, <2>4
<1>5. CASE Continue(t)
  <2> DEFINE new == stop_state[t]
  <2>1. /\ state[t] = "Stopped" /\ SetState(t, new)
        /\ stop_state' = [stop_state EXCEPT ![t] = "Invalid"]
        /\ UNCHANGED <<priority, active, ticks_left, current, async, beneficiary,
                       should_die, dying>>
    BY Zenon, <1>5 DEF Continue, procVars, deathVars
  <2>2. new \in States /\ new # "Stopped" /\ "Invalid" \in StopStates
    BY Zenon, <1>3, <2>1 DEF IInv, StopStateKept, States, StopStates
  <2>3. new = "Dead" => \A r \in Processor : current[r] # t
    BY Zenon, <1>3 DEF IInv, Ended
  <2>4. t \in dying' => new = "Dying"
    BY Zenon, <2>1 DEF IInv, Collected
  <2> HIDE DEF new
  <2> QED
    BY Zenon, <1>2, <2>1, <2>2, <2>3, <2>4
<1>6. CASE Finalize(t)
  <2>1. /\ t \in dying /\ dying' = dying \ {t} /\ SetState(t, "Dead")
        /\ stop_state' = [stop_state EXCEPT ![t] = "Invalid"]
        /\ UNCHANGED <<priority, active, ticks_left, current, async, beneficiary, should_die>>
    BY Zenon, <1>6 DEF Finalize, procVars
  <2>2. /\ "Dead" \in States /\ "Invalid" \in StopStates
        /\ dying' \subseteq dying /\ t \notin dying'
    BY Zenon, <2>1 DEF States, StopStates
  <2>3. \A r \in Processor : current[r] # t
    BY Zenon, <1>3, <2>1 DEF IInv, Ended
  <2> QED
    BY Zenon, <1>2, <2>1, <2>2, <2>3
<1> QED
  BY Zenon, <1>1, <1>4, <1>5, <1>6

\* Every step keeps the invariant.
LEMMA NextInv ==
    ASSUME IInv, Solo, [Next]_vars
    PROVE  IInv'
<1>1. CASE UNCHANGED vars
  <2>1. UNCHANGED <<state, stop_state, should_die, dying, priority, ready, mask,
                    runnable_priority, active, ticks_left, current, async, beneficiary>>
    BY Zenon, <1>1 DEF vars, queueVars, deathVars, procVars
  <2>2. QueuesOK(Queues)' /\ QueuedRunnable' /\ StopStateKept'
    BY Zenon, <2>1, SameStatesStep
  <2>3. Collected' /\ Ended' /\ OneProcessor' /\ WithoutDonation'
    BY Zenon, <2>1 DEF IInv, Collected, Ended, OneProcessor, WithoutDonation
  <2>4. TypeOK' /\ DonationPending' /\ TickLeft'
    BY Zenon, <2>1 DEF IInv, TypeOK, DonationPending, TickLeft
  <2> QED
    BY Zenon, <2>2, <2>3, <2>4 DEF IInv
<1>2. CASE Next
  <2>1. Killed \subseteq Thread
    BY Zenon, SchedulerAssumption
  <2> QED
    BY <1>2, <2>1, PickDonationFailsStep, PickBeneficiaryStep, PickNextStep, TimerTickStep,
       YieldStep, BlockStep, CollectStep, DonateStep, SetShouldDieStep, SetPriorityStep,
       SetStateSteps, Zenon DEF Next
<1> QED
  BY Zenon, <1>1, <1>2

-----------------------------------------------------------------------------
(* Theorems                                                                *)

\* The invariant holds on one processor, and on any number of them where no
\* thread donates its time slice.
THEOREM SchedulerInvariant ==
    ASSUME Solo
    PROVE  Spec => []IInv
<1>1. Init => IInv
  BY Zenon, InitInv
<1>2. IInv /\ [Next]_vars => IInv'
  BY Zenon, NextInv
<1> QED
  BY <1>1, <1>2, PTL DEF Spec

\* The scheduler's state keeps its types; in particular m_ticks_left, which is
\* unsigned, never goes below zero.
THEOREM SchedulerTypeCorrect ==
    ASSUME Solo
    PROVE  Spec => []TypeOK
<1>1. IInv => TypeOK
  BY Zenon DEF IInv
<1> QED
  BY <1>1, SchedulerInvariant, PTL

INSTANCE FiniteSetTheorems

\* Positions in order give ReadyConsistent, which counts occurrences.
LEMMA QueuesConsistent == IInv => ReadyConsistent
<1> SUFFICES ASSUME IInv PROVE ReadyConsistent
  BY Zenon
<1>1. /\ mask = {b \in Buckets : ready[b] # <<>>}
      /\ \A b \in Buckets : \A i, j \in DOMAIN ready[b] : ready[b][i] = ready[b][j] => i = j
      /\ \A t \in Thread, b \in Buckets :
            runnable_priority[t] = b <=> \E i \in DOMAIN ready[b] : ready[b][i] = t
  <2>1. QueuesOK(Queues)
    BY Zenon DEF IInv
  <2> QED
    BY <2>1 DEF QueuesOK, Queues
<1>2. ASSUME NEW t \in Thread, NEW b \in Buckets
      PROVE  Cardinality({i \in DOMAIN ready[b] : ready[b][i] = t})
                = IF runnable_priority[t] = b THEN 1 ELSE 0
  <2> DEFINE places == {i \in DOMAIN ready[b] : ready[b][i] = t}
  <2>1. CASE runnable_priority[t] = b
    <3>1. PICK i \in DOMAIN ready[b] : ready[b][i] = t
      BY Zenon, <1>1, <2>1
    <3>2. places = {i}
      BY <1>1, <3>1
    <3> QED
      BY Zenon, <2>1, <3>2, FS_Singleton
  <2>2. CASE runnable_priority[t] # b
    <3>1. places = {}
      BY <1>1, <2>2
    <3> QED
      BY Zenon, <2>2, <3>1, FS_EmptySet
  <2> QED
    BY Zenon, <2>1, <2>2
<1> QED
  BY Zenon, <1>1, <1>2 DEF ReadyConsistent

\* The ready queues, their mask and every m_runnable_priority agree, so none of
\* the VERIFYs of the queue operations can fail.
THEOREM QueuesAgree ==
    ASSUME Solo
    PROVE  Spec => []ReadyConsistent
BY QueuesConsistent, SchedulerInvariant, PTL

\* No thread executes on two processors, nor after it was finalized.
THEOREM OneProcessorEach ==
    ASSUME Solo
    PROVE  Spec => []OneProcessor
<1>1. IInv => OneProcessor
  BY Zenon DEF IInv
<1> QED
  BY <1>1, SchedulerInvariant, PTL

\* Thread::tick never decrements a time slice that is used up.
THEOREM TicksNeverWrap ==
    ASSUME Solo
    PROVE  Spec => []TickLeft
<1>1. IInv => TickLeft
  BY Zenon DEF IInv
<1> QED
  BY <1>1, SchedulerInvariant, PTL

\* Where no thread donates, whatever the number of processors, exactly the
\* Runnable threads wait in the ready queues.
THEOREM NobodyLost ==
    ASSUME Donating = {}
    PROVE  Spec => []RunnableQueued
<1>1. IInv => RunnableQueued
  <2> SUFFICES ASSUME IInv, NEW t \in Thread
               PROVE  state[t] = "Runnable" <=> runnable_priority[t] >= 0
    BY Zenon DEF RunnableQueued
  <2>1. runnable_priority[t] \in Buckets \union {-1}
    BY Zenon DEF IInv, TypeOK
  <2>2. runnable_priority[t] >= 0 <=> runnable_priority[t] # -1
    <3>1. CASE runnable_priority[t] \in Buckets
      <4>1. runnable_priority[t] \in Nat
        BY Zenon, <3>1, BucketType
      <4> QED
        BY <4>1
    <3>2. CASE runnable_priority[t] = -1
      BY <3>2
    <3> QED
      BY Zenon, <2>1, <3>1, <3>2
  <2> QED
    BY Zenon, <2>2 DEF IInv, QueuedRunnable, WithoutDonation
<1>2. Solo
  BY Zenon DEF Solo
<1> QED
  BY <1>1, <1>2, SchedulerInvariant, PTL
=============================================================================
