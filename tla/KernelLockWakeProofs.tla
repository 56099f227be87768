------------------------ MODULE KernelLockWakeProofs ------------------------
(***************************************************************************)
(* No wake-up of a Lock is lost, for any threads, modes and nesting, when  *)
(* job control stops nobody.                                               *)
(*                                                                         *)
(* NoLostWakeup becomes inductive with two facts.  The queue holds each    *)
(* thread that sleeps, once, and nobody who is outside Thread::block; and  *)
(* m_should_block, which the last unlock clears under m_lock, keeps a      *)
(* thread that met the lock taken from sleeping on a free one.             *)
(***************************************************************************)
EXTENDS KernelLockProofs, SequenceFacts

\* The labels of a thread whose QueueBlocker exists.
InBlock == {"drop", "dropwake", "blocked", "unwind"}

\* A thread at one of these labels will try the lock or wake another one.
Awakes == {"lock", "wait", "drop", "dropwake", "unwind", "wake", "forcewake", "diewake"}

QueueInv ==
    /\ \A t \in Thread : pc[t] = "blocked" => \E i \in DOMAIN blockers : blockers[i] = t
    /\ \A i \in DOMAIN blockers : pc[blockers[i]] \in InBlock
    /\ \A i, j \in DOMAIN blockers : blockers[i] = blockers[j] => i = j

FreeInv ==
    mode = "Unlocked" /\ should_block =>
        \A t \in Thread : pc[t] \notin InBlock \union {"wait"}

WInv == QueueInv /\ FreeInv /\ NoLostWakeup

-----------------------------------------------------------------------------
(* Wake-ups                                                                *)

\* WaitQueue::wake_one: the queue stays exact, and if somebody sleeps after it
\* then somebody is awake, the head of the queue or the caller.
LEMMA WakeOneKeeps ==
    ASSUME IInv, QueueInv, stopped = {}, NEW t \in Thread, NEW label \in Label,
           WakeOne(t, label), pc[t] # "blocked",
           label = "blocked" => \E i \in DOMAIN blockers : i > 1 /\ blockers[i] = t,
           label \notin InBlock => \A i \in DOMAIN blockers : i > 1 => blockers[i] # t,
           label \in Awakes \union {"blocked"} \/ pc[t] \notin InBlock
    PROVE  /\ QueueInv'
           /\ (\E u \in Thread : pc'[u] = "blocked") => \E u \in Thread : pc'[u] \in Awakes
           /\ \A u \in Thread \ {t} : pc'[u] \in InBlock \union {"wait"} =>
                                      pc[u] \in InBlock \union {"wait"}
<1>1. blockers \in Seq(Thread) /\ pc \in [Thread -> Label]
  BY Zenon DEF IInv, TypeOK
<1>2. Len(blockers) \in Nat /\ DOMAIN blockers = 1 .. Len(blockers)
  BY <1>1
<1>3. CASE blockers = <<>>
  <2>1. blockers' = blockers /\ pc' = [pc EXCEPT ![t] = label] /\ DOMAIN blockers = {}
    BY <1>3 DEF WakeOne, Goto
  <2>2. \A u \in Thread : pc[u] # "blocked"
    BY Zenon, <2>1 DEF QueueInv
  <2>3. label # "blocked"
    BY Zenon, <2>1
  <2> QED
    BY Zenon, <1>1, <2>1, <2>2, <2>3 DEF QueueInv
<1>4. CASE blockers # <<>>
  <2> DEFINE h == Head(blockers)
  <2>1. /\ blockers' = Tail(blockers)
        /\ pc' = Awaken([pc EXCEPT ![t] = label], h)
    BY Zenon, <1>4 DEF WakeOne
  <2>2. h \in Thread /\ h = blockers[1] /\ 1 \in DOMAIN blockers
    BY <1>1, <1>2, <1>4
  <2>3. /\ DOMAIN Tail(blockers) = 1 .. Len(blockers) - 1
        /\ \A i \in 1 .. Len(blockers) - 1 : Tail(blockers)[i] = blockers[i + 1]
    BY <1>1, <1>2, <1>4
  <2> HIDE DEF h
  <2>4. label = "blocked" => h # t
    BY <2>2 DEF QueueInv
  <2>5. \A u \in Thread :
            pc'[u] = IF u = t THEN label
                     ELSE IF u = h /\ pc[h] = "blocked" THEN "lock"
                     ELSE pc[u]
    <3>1. CASE h = t
      <4>1. pc' = [pc EXCEPT ![t] = label]
        BY Zenon, <1>1, <2>1, <2>2, <2>4, <3>1 DEF Awaken
      <4> QED
        BY Zenon, <1>1, <3>1, <4>1
    <3>2. CASE h # t
      BY Zenon, <1>1, <2>1, <2>2, <3>2 DEF Awaken
    <3> QED
      BY Zenon, <3>1, <3>2
  <2>6. \A i \in 2 .. Len(blockers) : blockers[i] # h /\ blockers[i] \in Thread
    BY SMTT(30), <1>1, <1>2, <2>2 DEF QueueInv
  <2>7. \A u \in Thread : pc'[u] = "blocked" => \E i \in DOMAIN blockers' : blockers'[i] = u
    <3> SUFFICES ASSUME NEW u \in Thread, pc'[u] = "blocked"
                 PROVE  \E i \in 1 .. Len(blockers) - 1 : Tail(blockers)[i] = u
      BY Zenon, <2>1, <2>3
    <3>1. PICK j \in DOMAIN blockers : j > 1 /\ blockers[j] = u
      <4>1. CASE u = t
        BY Zenon, <2>5, <4>1
      <4>2. CASE u # t
        <5>1. pc[u] = "blocked" /\ u # h
          BY Zenon, <2>5, <4>2
        <5>2. PICK j \in DOMAIN blockers : blockers[j] = u
          BY Zenon, <5>1 DEF QueueInv
        <5>3. j > 1
          BY <1>2, <2>2, <5>1, <5>2
        <5> QED
          BY Zenon, <5>2, <5>3
      <4> QED
        BY Zenon, <4>1, <4>2
    <3>2. j - 1 \in 1 .. Len(blockers) - 1 /\ (j - 1) + 1 = j
      BY <1>2, <3>1
    <3> QED
      BY Zenon, <2>3, <3>1, <3>2
  <2>8. \A i \in DOMAIN blockers' : pc'[blockers'[i]] \in InBlock
    <3> SUFFICES ASSUME NEW i \in 1 .. Len(blockers) - 1
                 PROVE  pc'[blockers[i + 1]] \in InBlock
      BY Zenon, <2>1, <2>3
    <3>1. i + 1 \in DOMAIN blockers /\ i + 1 \in 2 .. Len(blockers) /\ i + 1 > 1
      BY <1>2
    <3>2. blockers[i + 1] # h /\ blockers[i + 1] \in Thread /\ pc[blockers[i + 1]] \in InBlock
      BY Zenon, <2>6, <3>1 DEF QueueInv
    <3> QED
      BY Zenon, <2>5, <3>1, <3>2
  <2>9. \A i, j \in DOMAIN blockers' : blockers'[i] = blockers'[j] => i = j
    <3> TAKE i, j \in DOMAIN blockers'
    <3>1. /\ i \in Int /\ i + 1 \in DOMAIN blockers /\ blockers'[i] = blockers[i + 1]
          /\ j \in Int /\ j + 1 \in DOMAIN blockers /\ blockers'[j] = blockers[j + 1]
      BY <1>2, <2>1, <2>3
    <3>2. blockers'[i] = blockers'[j] => i + 1 = j + 1
      BY <3>1, Zenon DEF QueueInv
    <3>3. i + 1 = j + 1 => i = j
      BY <3>1
    <3> QED
      BY Zenon, <3>2, <3>3
  <2>10. \E u \in Thread : pc'[u] \in Awakes
    <3>1. pc[h] \in InBlock
      BY Zenon, <2>2 DEF QueueInv
    <3>2. CASE h # t
      BY Zenon, <2>2, <2>5, <3>1, <3>2 DEF InBlock, Awakes
    <3>3. CASE h = t
      BY Zenon, <2>4, <2>5, <3>1, <3>3
    <3> QED
      BY Zenon, <3>2, <3>3
  <2> QED
    BY Zenon, <2>5, <2>7, <2>8, <2>9, <2>10 DEF QueueInv, InBlock
<1> QED
  BY Zenon, <1>3, <1>4

-----------------------------------------------------------------------------
(* The steps                                                               *)

\* A step that moves one thread, at a label outside Thread::block, to another
\* such label and leaves the queue alone keeps the queue exact.
LEMMA QueueUntouched ==
    ASSUME IInv, QueueInv, NEW t \in Thread, NEW label \in Label \ InBlock,
           blockers' = blockers, pc' = [pc EXCEPT ![t] = label],
           \A i \in DOMAIN blockers : blockers[i] # t
    PROVE  QueueInv'
<1>1. blockers \in Seq(Thread) /\ pc \in [Thread -> Label]
  BY Zenon DEF IInv, TypeOK
<1>2. \A i \in DOMAIN blockers : blockers[i] \in Thread
  BY <1>1
<1> QED
  BY Zenon, <1>1, <1>2 DEF QueueInv, InBlock

\* A thread that is not in Thread::block has no blocker in the queue.
LEMMA OutsideUnqueued ==
    ASSUME QueueInv, NEW t \in Thread, pc[t] \notin InBlock
    PROVE  \A i \in DOMAIN blockers : blockers[i] # t
BY Zenon DEF QueueInv

\* The steps that get the lock: nobody needs a wake-up while it is taken.
LEMMA GrantKeeps ==
    ASSUME IInv, WInv, NEW t \in Thread,
           LockUnlocked(t) \/ LockRecursive(t) \/ LockShared(t) \/ RestoreLock(t)
    PROVE  WInv'
<1>1. /\ pc[t] \in {"lock", "away"} /\ mode' # "Unlocked"
      /\ blockers' = blockers /\ pc' = [pc EXCEPT ![t] = "out"]
  <2>1. /\ want[t] # "Unlocked"
        /\ pc[t] = "away" => saved[t].mode # "Unlocked"
    BY Zenon DEF IInv, TypeOK, LockInv, DetachedInv, Detached
  <2>2. CASE LockUnlocked(t)
    BY Zenon, <2>1, <2>2 DEF LockUnlocked, Granted, Goto
  <2>3. CASE LockRecursive(t)
    BY Zenon, <2>3 DEF LockRecursive, Granted, Goto
  <2>4. CASE LockShared(t)
    BY Zenon, <2>4 DEF LockShared, Granted, Goto
  <2>5. CASE RestoreLock(t)
    BY Zenon, <2>1, <2>5 DEF RestoreLock, Goto
  <2> QED
    BY Zenon, <2>2, <2>3, <2>4, <2>5
<1>2. QueueInv'
  BY Zenon, <1>1, OutsideUnqueued, QueueUntouched DEF WInv, InBlock, Label
<1> QED
  BY Zenon, <1>1, <1>2 DEF WInv, FreeInv, NoLostWakeup

\* The steps of a thread that only moves on, outside Thread::block.
LEMMA MoveKeeps ==
    ASSUME IInv, WInv, NEW t \in Thread,
           (\E m \in Modes : EnterLock(t, m)) \/ LockContended(t)
    PROVE  WInv'
<1>1. CASE \E m \in Modes : EnterLock(t, m)
  <2>1. /\ pc[t] = "out" /\ pc' = [pc EXCEPT ![t] = "lock"]
        /\ UNCHANGED <<mode, should_block, blockers>>
    BY Zenon, <1>1 DEF EnterLock, Goto, lockVars, queueVars
  <2>2. QueueInv'
    BY Zenon, <2>1, OutsideUnqueued, QueueUntouched DEF WInv, InBlock, Label
  <2>3. pc \in [Thread -> Label]
    BY Zenon DEF IInv, TypeOK
  <2> QED
    BY Zenon, <2>1, <2>2, <2>3 DEF WInv, FreeInv, NoLostWakeup, InBlock
<1>2. CASE LockContended(t)
  <2>1. /\ pc[t] = "lock" /\ mode # "Unlocked" /\ pc' = [pc EXCEPT ![t] = "wait"]
        /\ UNCHANGED <<mode, should_block, blockers>>
    BY Zenon, <1>2 DEF LockContended, Goto, lockVars, queueVars
  <2>2. QueueInv'
    BY Zenon, <2>1, OutsideUnqueued, QueueUntouched DEF WInv, InBlock, Label
  <2> QED
    BY Zenon, <2>1, <2>2 DEF WInv, FreeInv, NoLostWakeup
<1> QED
  BY Zenon, <1>1, <1>2

\* WaitQueue::should_add_blocker: a thread is refused when a wake-up came first
\* or the lock became free; it is queued only when m_should_block is set, and
\* then the lock is taken.
LEMMA WaitKeeps ==
    ASSUME IInv, WInv, NEW t \in Thread, Wait(t)
    PROVE  WInv'
<1>1. /\ pc[t] = "wait" /\ mode' = mode /\ should_block' = should_block
      /\ blockers \in Seq(Thread) /\ pc \in [Thread -> Label]
  BY Zenon DEF Wait, lockVars, IInv, TypeOK
<1>2. \A i \in DOMAIN blockers : blockers[i] # t /\ blockers[i] \in Thread
  BY <1>1, OutsideUnqueued DEF WInv, InBlock
<1>3. CASE wake_requested \/ ~ should_block
  <2>1. blockers' = blockers /\ pc' = [pc EXCEPT ![t] = "lock"]
    BY Zenon, <1>3 DEF Wait, Goto
  <2>2. QueueInv'
    BY Zenon, <1>2, <2>1, QueueUntouched DEF WInv, InBlock, Label
  <2> QED
    BY Zenon, <1>1, <2>1, <2>2 DEF WInv, FreeInv, NoLostWakeup, InBlock
<1>4. CASE ~ wake_requested /\ should_block
  <2>1. PICK label \in {"drop", "blocked"} : pc' = [pc EXCEPT ![t] = label]
    BY Zenon, <1>4 DEF Wait, Goto
  <2>2. blockers' = Append(blockers, t)
    BY Zenon, <1>4 DEF Wait
  <2>3. mode # "Unlocked"
    BY Zenon, <1>1, <1>4 DEF WInv, FreeInv
  <2>4. /\ Len(blockers) \in Nat
        /\ DOMAIN blockers = 1 .. Len(blockers)
        /\ DOMAIN blockers' = 1 .. Len(blockers) + 1
        /\ \A i \in DOMAIN blockers : i \in DOMAIN blockers' /\ blockers'[i] = blockers[i]
        /\ Len(blockers) + 1 \in DOMAIN blockers'
        /\ blockers'[Len(blockers) + 1] = t
        /\ \A i \in DOMAIN blockers' : i \in DOMAIN blockers \/ i = Len(blockers) + 1
    BY <1>1, <2>2
  <2>5. \A u \in Thread : pc'[u] = "blocked" => \E i \in DOMAIN blockers' : blockers'[i] = u
    <3> SUFFICES ASSUME NEW u \in Thread, pc'[u] = "blocked"
                 PROVE  \E i \in DOMAIN blockers' : blockers'[i] = u
      BY Zenon
    <3>1. CASE u = t
      BY Zenon, <2>4, <3>1
    <3>2. CASE u # t
      <4>1. pc[u] = "blocked"
        BY Zenon, <1>1, <2>1, <3>2
      <4>2. PICK i \in DOMAIN blockers : blockers[i] = u
        BY Zenon, <4>1 DEF WInv, QueueInv
      <4> QED
        BY Zenon, <2>4, <4>2
    <3> QED
      BY Zenon, <3>1, <3>2
  <2>6. \A i \in DOMAIN blockers' : pc'[blockers'[i]] \in InBlock
    BY Zenon, <1>1, <1>2, <2>1, <2>4 DEF WInv, QueueInv, InBlock
  <2>7. \A i, j \in DOMAIN blockers' : blockers'[i] = blockers'[j] => i = j
    <3> TAKE i, j \in DOMAIN blockers'
    <3> QED
      BY Zenon, <1>2, <2>4 DEF WInv, QueueInv
  <2> QED
    BY Zenon, <1>1, <2>3, <2>5, <2>6, <2>7 DEF WInv, QueueInv, FreeInv, NoLostWakeup
<1> QED
  BY Zenon, <1>3, <1>4

\* Thread::block's way to its sleep with the big lock, the lock being the very
\* one it waits for.
LEMMA DropKeeps ==
    ASSUME IInv, WInv, stopped = {}, NEW t \in Thread, DropBigLock(t) \/ DropWake(t)
    PROVE  WInv'
<1>1. blockers \in Seq(Thread) /\ pc \in [Thread -> Label]
  BY Zenon DEF IInv, TypeOK
<1>2. \A i \in DOMAIN blockers : blockers[i] \in Thread
  BY <1>1
<1>3. t \in Range(blockers) <=> \E i \in DOMAIN blockers : blockers[i] = t
  BY Zenon DEF Range
<1>4. CASE DropBigLock(t)
  <2> DEFINE label == IF mode = "Unlocked" THEN "dropwake"
                      ELSE IF t \in Range(blockers) THEN "blocked" ELSE "lock"
  <2>1. /\ pc[t] = "drop" /\ pc' = [pc EXCEPT ![t] = label]
        /\ UNCHANGED <<mode, should_block, blockers>>
    BY Zenon, <1>4 DEF DropBigLock, Goto, lockVars, queueVars
  <2>2. QueueInv'
    BY Zenon, <1>1, <1>2, <1>3, <2>1 DEF WInv, QueueInv, InBlock
  <2>3. FreeInv'
    BY Zenon, <1>1, <2>1 DEF WInv, FreeInv, InBlock
  <2>4. NoLostWakeup'
    BY Zenon, <1>1, <2>1 DEF NoLostWakeup
  <2> QED
    BY Zenon, <2>2, <2>3, <2>4 DEF WInv
<1>5. CASE DropWake(t)
  <2> DEFINE label == IF blockers # <<>> /\ t \in Range(Tail(blockers))
                      THEN "blocked" ELSE "lock"
  <2>1. /\ pc[t] = "dropwake" /\ WakeOne(t, label)
        /\ UNCHANGED <<mode, should_block>>
    BY Zenon, <1>5 DEF DropWake, lockVars
  <2>2. blockers # <<>> =>
            (t \in Range(Tail(blockers)) <=> \E i \in DOMAIN blockers : i > 1 /\ blockers[i] = t)
    <3> SUFFICES ASSUME blockers # <<>>
                 PROVE  t \in Range(Tail(blockers))
                            <=> \E i \in DOMAIN blockers : i > 1 /\ blockers[i] = t
      BY Zenon
    <3>1. /\ Len(blockers) \in Nat
          /\ DOMAIN blockers = 1 .. Len(blockers)
          /\ DOMAIN Tail(blockers) = 1 .. Len(blockers) - 1
          /\ \A i \in 1 .. Len(blockers) - 1 : Tail(blockers)[i] = blockers[i + 1]
      BY <1>1
    <3>2. t \in Range(Tail(blockers)) <=> \E i \in 1 .. Len(blockers) - 1 : blockers[i + 1] = t
      BY Zenon, <3>1 DEF Range
    <3>3. (\E i \in 1 .. Len(blockers) - 1 : blockers[i + 1] = t)
            => \E i \in DOMAIN blockers : i > 1 /\ blockers[i] = t
      BY <3>1
    <3>4. ASSUME NEW i \in DOMAIN blockers, i > 1, blockers[i] = t
          PROVE  \E j \in 1 .. Len(blockers) - 1 : blockers[j + 1] = t
      <4>1. i - 1 \in 1 .. Len(blockers) - 1 /\ (i - 1) + 1 = i
        BY <3>1, <3>4
      <4> QED
        BY Zenon, <3>4, <4>1
    <3> QED
      BY Zenon, <3>2, <3>3, <3>4
  <2>3. /\ label \in Label
        /\ label = "blocked" => \E i \in DOMAIN blockers : i > 1 /\ blockers[i] = t
        /\ label \notin InBlock => \A i \in DOMAIN blockers : i > 1 => blockers[i] # t
        /\ label \in Awakes \union {"blocked"}
    <3>1. blockers = <<>> => DOMAIN blockers = {}
      OBVIOUS
    <3> QED
      BY Zenon, <2>2, <3>1 DEF Label, InBlock, Awakes
  <2> HIDE DEF label
  <2>4. /\ QueueInv'
        /\ (\E u \in Thread : pc'[u] = "blocked") => \E u \in Thread : pc'[u] \in Awakes
        /\ \A u \in Thread \ {t} : pc'[u] \in InBlock \union {"wait"} =>
                                   pc[u] \in InBlock \union {"wait"}
    BY Zenon, <2>1, <2>3, WakeOneKeeps DEF WInv
  <2>5. FreeInv'
    BY Zenon, <2>1, <2>4 DEF WInv, FreeInv, InBlock
  <2>6. NoLostWakeup'
    BY Zenon, <2>4 DEF NoLostWakeup, Awakes
  <2> QED
    BY Zenon, <2>4, <2>5, <2>6 DEF WInv
<1> QED
  BY Zenon, <1>4, <1>5

\* A signal or the thread's death ends the sleep; the destructor of the blocker
\* takes it out of the queue if nobody has.
LEMMA InterruptKeeps ==
    ASSUME IInv, WInv, NEW t \in Thread, Interrupt(t) \/ Unwind(t)
    PROVE  WInv'
<1>1. blockers \in Seq(Thread) /\ pc \in [Thread -> Label]
  BY Zenon DEF IInv, TypeOK
<1>2. \A i \in DOMAIN blockers : blockers[i] \in Thread
  BY <1>1
<1>3. CASE Interrupt(t)
  <2>1. /\ pc[t] = "blocked" /\ pc' = [pc EXCEPT ![t] = "unwind"]
        /\ UNCHANGED <<mode, should_block, blockers>>
    BY Zenon, <1>3 DEF Interrupt, Goto, lockVars, queueVars
  <2> QED
    BY Zenon, <1>1, <1>2, <2>1 DEF WInv, QueueInv, FreeInv, NoLostWakeup, InBlock
<1>4. CASE Unwind(t)
  <2>1. /\ pc[t] = "unwind" /\ pc' = [pc EXCEPT ![t] = "lock"]
        /\ UNCHANGED <<mode, should_block>>
    BY Zenon, <1>4 DEF Unwind, Goto, lockVars
  <2>2. QueueInv'
    <3>1. CASE t \notin Range(blockers) /\ UNCHANGED blockers
      <4>1. \A i \in DOMAIN blockers : blockers[i] # t
        BY Zenon, <3>1 DEF Range
      <4> QED
        BY Zenon, <2>1, <3>1, <4>1, QueueUntouched DEF WInv, InBlock, Label
    <3>2. ASSUME NEW at \in DOMAIN blockers, blockers[at] = t,
                 blockers' = SubSeq(blockers, 1, at - 1)
                                \o SubSeq(blockers, at + 1, Len(blockers))
          PROVE  QueueInv'
      <4> DEFINE n == Len(blockers)
                 from == [k \in 1 .. n - 1 |-> IF k < at THEN k ELSE k + 1]
      <4>1. n \in Nat /\ DOMAIN blockers = 1 .. n /\ at \in 1 .. n
        BY <1>1
      <4>2. /\ DOMAIN blockers' = 1 .. n - 1
            /\ \A k \in 1 .. n - 1 : blockers'[k] = blockers[from[k]]
        <5>1. /\ blockers' \in Seq(Thread)
              /\ Len(blockers') = Len(blockers) - 1
              /\ \A k \in DOMAIN blockers' :
                    blockers'[k] = IF k < at THEN blockers[k] ELSE blockers[k + 1]
          BY <1>1, <3>2, WithoutPosition, Zenon
        <5>2. DOMAIN blockers' = 1 .. n - 1
          BY <5>1
        <5> QED
          BY Zenon, <4>1, <5>1, <5>2
      <4>3. /\ \A k \in 1 .. n - 1 : from[k] \in DOMAIN blockers /\ from[k] # at
            /\ \A k, m \in 1 .. n - 1 : from[k] = from[m] => k = m
            /\ \A i \in DOMAIN blockers \ {at} : \E k \in 1 .. n - 1 : from[k] = i
        <5>1. \A k \in 1 .. n - 1 : from[k] \in DOMAIN blockers /\ from[k] # at
          BY <4>1
        <5>2. \A k, m \in 1 .. n - 1 : from[k] = from[m] => k = m
          BY <4>1
        <5>3. ASSUME NEW i \in DOMAIN blockers, i # at
              PROVE  \E k \in 1 .. n - 1 : from[k] = i
          <6>1. CASE i < at
            <7>1. i \in 1 .. n - 1 /\ from[i] = i
              BY <4>1, <6>1
            <7> QED
              BY Zenon, <7>1
          <6>2. CASE i > at
            <7>1. i - 1 \in 1 .. n - 1 /\ from[i - 1] = i
              BY <4>1, <6>2
            <7> QED
              BY Zenon, <7>1
          <6> QED
            BY SMTT(30), <4>1, <5>3, <6>1, <6>2
        <5> QED
          BY Zenon, <5>1, <5>2, <5>3
      <4> HIDE DEF n, from
      <4>4. \A i \in DOMAIN blockers : blockers[i] = t => i = at
        BY Zenon, <3>2 DEF WInv, QueueInv
      <4>5. \A u \in Thread : pc'[u] = "blocked" => \E k \in DOMAIN blockers' : blockers'[k] = u
        <5> SUFFICES ASSUME NEW u \in Thread, pc'[u] = "blocked"
                     PROVE  \E k \in DOMAIN blockers' : blockers'[k] = u
          BY Zenon
        <5>1. u # t /\ pc[u] = "blocked"
          BY Zenon, <1>1, <2>1
        <5>2. PICK i \in DOMAIN blockers : blockers[i] = u
          BY Zenon, <5>1 DEF WInv, QueueInv
        <5>3. PICK k \in 1 .. n - 1 : from[k] = i
          BY Zenon, <3>2, <4>3, <5>1, <5>2
        <5> QED
          BY Zenon, <4>2, <5>2, <5>3
      <4>6. \A k \in DOMAIN blockers' : pc'[blockers'[k]] \in InBlock
        <5> TAKE k \in DOMAIN blockers'
        <5>1. /\ from[k] \in DOMAIN blockers /\ blockers'[k] = blockers[from[k]]
              /\ blockers[from[k]] # t /\ blockers[from[k]] \in Thread
          BY Zenon, <1>2, <4>2, <4>3, <4>4
        <5> QED
          BY SMTT(30), <1>1, <2>1, <5>1 DEF WInv, QueueInv
      <4>7. \A k, m \in DOMAIN blockers' : blockers'[k] = blockers'[m] => k = m
        <5> TAKE k, m \in DOMAIN blockers'
        <5>1. /\ k \in 1 .. n - 1 /\ from[k] \in DOMAIN blockers /\ blockers'[k] = blockers[from[k]]
              /\ m \in 1 .. n - 1 /\ from[m] \in DOMAIN blockers /\ blockers'[m] = blockers[from[m]]
          BY <4>2, <4>3, Zenon
        <5>2. \A i, j \in DOMAIN blockers : blockers[i] = blockers[j] => i = j
          BY Zenon DEF WInv, QueueInv
        <5>3. blockers'[k] = blockers'[m] => blockers[from[k]] = blockers[from[m]]
          BY <5>1, Zenon
        <5>4. blockers'[k] = blockers'[m] => from[k] = from[m]
          BY <5>1, <5>2, <5>3, Zenon
        <5> QED
          BY <4>3, <5>1, <5>4, Zenon
      <4> QED
        BY Zenon, <4>5, <4>6, <4>7 DEF QueueInv
    <3> QED
      BY Zenon, <1>4, <3>1, <3>2 DEF Unwind
  <2>3. FreeInv'
    BY Zenon, <1>1, <2>1 DEF WInv, FreeInv, InBlock
  <2>4. NoLostWakeup'
    BY Zenon, <1>1, <2>1 DEF NoLostWakeup
  <2> QED
    BY Zenon, <2>2, <2>3, <2>4 DEF WInv
<1> QED
  BY Zenon, <1>3, <1>4

\* The last unlock leaves the lock free with m_should_block cleared, and owes
\* the queue a wake-up.
LEMMA UnlockKeeps ==
    ASSUME IInv, WInv, NEW t \in Thread,
           \/ \E g \in Modes : Unlock(t, g)
           \/ \E restores \in BOOLEAN : ForceUnlock(t, restores)
    PROVE  WInv'
<1>1. blockers \in Seq(Thread) /\ pc \in [Thread -> Label]
  BY Zenon DEF IInv, TypeOK
<1>2. pc[t] = "out" /\ blockers' = blockers
  BY Zenon DEF Unlock, ForceUnlock
<1>3. \A i \in DOMAIN blockers : blockers[i] # t
  BY Zenon, <1>2, OutsideUnqueued DEF WInv, InBlock
<1>4. CASE \E g \in Modes : Unlock(t, g)
  <2>1. CASE times_locked' = 0
    <3>1. pc' = [pc EXCEPT ![t] = "wake"] /\ should_block' = FALSE
      BY Zenon, <1>4, <2>1 DEF Unlock, Goto
    <3>2. QueueInv'
      BY ZenonT(60), <1>2, <1>3, <3>1, QueueUntouched DEF WInv, InBlock, Label
    <3> QED
      BY Zenon, <1>1, <3>1, <3>2 DEF WInv, FreeInv, NoLostWakeup
  <2>2. CASE times_locked' # 0
    <3>1. UNCHANGED <<mode, should_block, pc>>
      BY Zenon, <1>4, <2>2 DEF Unlock
    <3> QED
      BY Zenon, <1>2, <3>1 DEF WInv, QueueInv, FreeInv, NoLostWakeup
  <2> QED
    BY Zenon, <2>1, <2>2
<1>5. CASE \E restores \in BOOLEAN : ForceUnlock(t, restores)
  <2>1. PICK label \in {"forcewake", "diewake"} : pc' = [pc EXCEPT ![t] = label]
    BY Zenon, <1>5 DEF ForceUnlock, Goto
  <2>2. mode' = "Unlocked" /\ should_block' => mode = "Unlocked" /\ should_block
    BY Zenon, <1>5 DEF ForceUnlock, lockVars
  <2>3. QueueInv'
    BY Zenon, <1>2, <1>3, <2>1, QueueUntouched DEF WInv, InBlock, Label
  <2>4. FreeInv'
    BY Zenon, <1>1, <2>1, <2>2 DEF WInv, FreeInv, InBlock
  <2>5. NoLostWakeup'
    BY Zenon, <1>1, <2>1 DEF NoLostWakeup
  <2> QED
    BY Zenon, <2>3, <2>4, <2>5 DEF WInv
<1> QED
  BY Zenon, <1>4, <1>5

\* The wake-ups that unlock() and force_unlock_if_locked() owed.
LEMMA WakeKeeps ==
    ASSUME IInv, WInv, stopped = {}, NEW t \in Thread, UnlockWake(t) \/ ForceWake(t)
    PROVE  WInv'
<1>1. PICK label \in {"out", "away"} : WakeOne(t, label)
  BY Zenon DEF UnlockWake, ForceWake
<1>2. /\ pc[t] \in {"wake", "forcewake", "diewake"}
      /\ UNCHANGED <<mode, should_block>>
  BY Zenon DEF UnlockWake, ForceWake, lockVars
<1>3. \A i \in DOMAIN blockers : blockers[i] # t
  BY Zenon, <1>2, OutsideUnqueued DEF WInv, InBlock
<1>4. label \in Label \ (InBlock \union {"wait"}) /\ pc[t] # "blocked" /\ pc[t] \notin InBlock
      /\ label # "blocked"
  BY Zenon, <1>2 DEF Label, InBlock
<1>5. /\ QueueInv'
      /\ (\E u \in Thread : pc'[u] = "blocked") => \E u \in Thread : pc'[u] \in Awakes
      /\ \A u \in Thread \ {t} : pc'[u] \in InBlock \union {"wait"} =>
                                 pc[u] \in InBlock \union {"wait"}
  BY Zenon, <1>1, <1>3, <1>4, WakeOneKeeps DEF WInv
<1>6. pc'[t] = label
  <2>1. pc \in [Thread -> Label] /\ blockers \in Seq(Thread)
    BY Zenon DEF IInv, TypeOK
  <2>2. CASE blockers = <<>>
    BY Zenon, <1>1, <2>1, <2>2 DEF WakeOne, Goto
  <2>3. CASE blockers # <<>>
    <3>1. Head(blockers) = blockers[1] /\ 1 \in DOMAIN blockers
      BY <2>1, <2>3
    <3>2. Head(blockers) # t
      BY Zenon, <1>3, <3>1
    <3> QED
      BY Zenon, <1>1, <2>1, <2>3, <3>2 DEF WakeOne, Awaken
  <2> QED
    BY Zenon, <2>2, <2>3
<1>7. FreeInv'
  BY Zenon, <1>2, <1>4, <1>5, <1>6 DEF WInv, FreeInv
<1>8. NoLostWakeup'
  BY Zenon, <1>5 DEF NoLostWakeup, Awakes
<1> QED
  BY Zenon, <1>5, <1>7, <1>8 DEF WInv

\* clear_waiters wakes everybody who sleeps, and keeps the lock.
LEMMA ClearKeeps ==
    ASSUME IInv, WInv, stopped = {}, NEW t \in Thread, ClearWaiters(t)
    PROVE  WInv'
<1>1. pc[t] = "out" /\ mode = "Exclusive" /\ UNCHANGED <<mode, should_block>>
  BY Zenon DEF ClearWaiters, lockVars
<1>2. blockers' = <<>> /\ DOMAIN blockers' = {}
  BY DEF ClearWaiters, WakeAll
<1>3. \A u \in Thread : pc'[u] # "blocked"
  <2> SUFFICES ASSUME NEW u \in Thread, u # t PROVE pc'[u] # "blocked"
    BY Zenon DEF ClearWaiters, WakeAll
  <2>1. pc'[u] = IF u \in Range(blockers) THEN Awaken(pc, u)[u] ELSE pc[u]
    BY Zenon DEF ClearWaiters, WakeAll
  <2>2. pc[u] = "blocked" => u \in Range(blockers)
    BY Zenon DEF WInv, QueueInv, Range
  <2>3. Awaken(pc, u)[u] # "blocked"
    BY Zenon DEF Awaken, IInv, TypeOK
  <2> QED
    BY Zenon, <2>1, <2>2, <2>3
<1> QED
  BY <1>1, <1>2, <1>3, Zenon DEF WInv, QueueInv, FreeInv, NoLostWakeup

\* Every step keeps the invariant when nobody can be stopped.
LEMMA NextWInv ==
    ASSUME Stoppable = {}, IInv, WInv, [Next]_vars
    PROVE  WInv'
<1>1. stopped = {}
  BY Zenon DEF IInv, TypeOK
<1>2. CASE UNCHANGED vars
  BY Zenon, <1>2 DEF vars, lockVars, queueVars, WInv, QueueInv, FreeInv, NoLostWakeup
<1>3. ASSUME NEW t \in Thread, Stop(t) \/ Continue(t) PROVE FALSE
  BY Zenon, <1>1, <1>3 DEF Stop, Continue
<1>4. CASE Next
  BY <1>1, <1>3, <1>4, GrantKeeps, MoveKeeps, WaitKeeps, DropKeeps, InterruptKeeps,
     UnlockKeeps, WakeKeeps, ClearKeeps, Zenon DEF Next
<1> QED
  BY Zenon, <1>2, <1>4

\* While the lock is free and a thread sleeps in its queue, another thread is
\* past its sleep or owes the queue a wake-up: whatever the threads, the modes,
\* the nesting and the force-unlocking, and with or without the big lock.
THEOREM WakeupsKept ==
    ASSUME Stoppable = {}
    PROVE  Spec => []NoLostWakeup
<1>1. Init => WInv
  <2> SUFFICES ASSUME Init PROVE WInv
    BY Zenon
  <2>1. DOMAIN blockers = {} /\ \A t \in Thread : pc[t] = "out"
    BY DEF Init
  <2> QED
    BY <2>1, Zenon DEF WInv, QueueInv, FreeInv, NoLostWakeup, InBlock
<1>2. IInv /\ WInv /\ [Next]_vars => WInv'
  BY Zenon, NextWInv
<1>3. WInv => NoLostWakeup
  BY Zenon DEF WInv
<1> QED
  BY <1>1, <1>2, <1>3, Invariant, PTL DEF Spec
=============================================================================
