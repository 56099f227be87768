-------------------------- MODULE KernelLockProofs --------------------------
(***************************************************************************)
(* Kernel/Lock.cpp is correct for any set of threads and any nesting depth *)
(* (see KernelLock): type correctness, the VERIFYs, mutual exclusion, the  *)
(* exactness of m_times_locked, and that Lock implements RWLock.           *)
(*                                                                         *)
(* The inductive invariant is IInv.  LockInv alone is not inductive: when  *)
(* unlock() or force_unlock_if_locked() brings m_times_locked to 0 in      *)
(* Mode::Shared, that no other reader is left follows only from            *)
(* m_times_locked being the number of all outstanding grants (CountExact). *)
(***************************************************************************)
EXTENDS KernelLock, SequenceFacts, FiniteSetTheorems

Grants == [Shared : Nat, Exclusive : Nat]

-----------------------------------------------------------------------------
(* Counting grants                                                         *)

\* The total of a grants record is a natural number, 0 only without grants.
LEMMA TotalType ==
    ASSUME NEW g \in Grants
    PROVE  /\ Total(g) \in Nat
           /\ Total(g) = 0 <=> g = NoGrants
BY DEF Grants, Total, NoGrants

\* Membership in Holds: thread t has at least i outstanding grants.
LEMMA HoldsMember ==
    ASSUME NEW g \in [Thread -> Grants]
    PROVE  \A p : p \in Holds(g) <=>
                \E t \in Thread : \E i \in 1 .. Total(g[t]) : p = <<t, i>>
BY DEF Holds

\* Changing the grants of one thread changes the count by the difference.
LEMMA HoldsChange ==
    ASSUME NEW g \in [Thread -> Grants], NEW t \in Thread, NEW x \in Grants,
           IsFiniteSet(Holds(g))
    PROVE  LET h == [g EXCEPT ![t] = x] IN
           /\ IsFiniteSet(Holds(h))
           /\ Cardinality(Holds(h)) =
                 Cardinality(Holds(g)) - Total(g[t]) + Total(x)
<1> DEFINE h == [g EXCEPT ![t] = x]
           z == [g EXCEPT ![t] = NoGrants]
           Own(y) == {t} \X (1 .. Total(y))
<1>t. NoGrants \in Grants /\ h \in [Thread -> Grants] /\ z \in [Thread -> Grants]
  BY Zenon DEF NoGrants, Grants
<1>0. \A y \in Grants : IsFiniteSet(Own(y)) /\ Cardinality(Own(y)) = Total(y)
  <2> TAKE y \in Grants
  <2>1. Total(y) \in Nat
    BY Zenon, TotalType
  <2>2. IsFiniteSet(1 .. Total(y)) /\ Cardinality(1 .. Total(y)) = Total(y)
    BY <2>1, FS_Interval
  <2>3. IsFiniteSet({t}) /\ Cardinality({t}) = 1
    BY Zenon, FS_Singleton
  <2>4. /\ IsFiniteSet(Own(y))
        /\ Cardinality(Own(y)) = Cardinality({t}) * Cardinality(1 .. Total(y))
    BY Zenon, <2>2, <2>3, FS_Product
  <2> QED
    BY <2>1, <2>2, <2>3, <2>4
<1>1. Holds(z) \subseteq Holds(g)
  <2> SUFFICES ASSUME NEW p \in Holds(z) PROVE p \in Holds(g)
    BY Zenon
  <2>1. PICK u \in Thread : \E i \in 1 .. Total(z[u]) : p = <<u, i>>
    BY Zenon, <1>t, HoldsMember
  <2>2. u # t
    BY <2>1 DEF Total, NoGrants
  <2> QED
    BY Zenon, <2>1, <2>2, HoldsMember
<1>2. IsFiniteSet(Holds(z))
  BY Zenon, <1>1, FS_Subset
<1>3. ASSUME NEW y \in Grants, NEW k \in [Thread -> Grants],
             k = [g EXCEPT ![t] = y]
      PROVE  /\ Holds(k) = Holds(z) \cup Own(y)
             /\ Holds(z) \cap Own(y) = {}
  <2>1. \A p : p \in Holds(z) => p[1] # t
    <3> SUFFICES ASSUME NEW p \in Holds(z) PROVE p[1] # t
      BY Zenon
    <3>1. PICK u \in Thread : \E i \in 1 .. Total(z[u]) : p = <<u, i>>
      BY Zenon, <1>t, HoldsMember
    <3> QED
      BY <3>1 DEF Total, NoGrants
  <2>2. ASSUME NEW p \in Holds(k) PROVE p \in Holds(z) \cup Own(y)
    <3>1. PICK u \in Thread : \E i \in 1 .. Total(k[u]) : p = <<u, i>>
      BY HoldsMember
    <3>2. CASE u = t
      BY <3>1, <3>2, <1>3
    <3>3. CASE u # t
      <4>1. k[u] = z[u]
        BY Zenon, <3>3, <1>3
      <4> QED
        BY Zenon, <3>1, <4>1, <1>t, HoldsMember
    <3> QED
      BY Zenon, <3>2, <3>3
  <2>3. ASSUME NEW p \in Holds(z) PROVE p \in Holds(k)
    <3>1. PICK u \in Thread : \E i \in 1 .. Total(z[u]) : p = <<u, i>>
      BY Zenon, <1>t, HoldsMember
    <3>2. u # t
      BY <3>1 DEF Total, NoGrants
    <3> QED
      BY Zenon, <3>1, <3>2, <1>3, HoldsMember
  <2>4. ASSUME NEW p \in Own(y) PROVE p \in Holds(k)
    <3>1. PICK i \in 1 .. Total(y) : p = <<t, i>>
      OBVIOUS
    <3>2. k[t] = y
      BY Zenon, <1>3
    <3> QED
      BY Zenon, <3>1, <3>2, HoldsMember
  <2> QED
    BY Zenon, <2>1, <2>2, <2>3, <2>4
<1>4. ASSUME NEW y \in Grants, NEW k \in [Thread -> Grants],
             k = [g EXCEPT ![t] = y]
      PROVE  /\ IsFiniteSet(Holds(k))
             /\ Cardinality(Holds(k)) = Cardinality(Holds(z)) + Total(y)
  <2>1. Cardinality(Holds(z)) \in Nat /\ Total(y) \in Nat
    BY Zenon, <1>2, FS_CardinalityType, TotalType
  <2>2. Cardinality(Holds(z) \cap Own(y)) = 0
    BY Zenon, <1>3, <1>4, FS_EmptySet
  <2> HIDE DEF Own, z
  <2>3. /\ IsFiniteSet(Holds(z) \cup Own(y))
        /\ Cardinality(Holds(z) \cup Own(y)) =
             Cardinality(Holds(z)) + Cardinality(Own(y)) - Cardinality(Holds(z) \cap Own(y))
    BY Zenon, <1>0, <1>2, FS_Union
  <2>4. IsFiniteSet(Own(y)) /\ Cardinality(Own(y)) = Total(y)
    BY Zenon, <1>0
  <2>5. Holds(k) = Holds(z) \cup Own(y)
    BY Zenon, <1>3, <1>4
  <2> QED
    BY <2>1, <2>2, <2>3, <2>4, <2>5
<1>5. g[t] \in Grants /\ g = [g EXCEPT ![t] = g[t]]
  BY Zenon
<1>6. Cardinality(Holds(g)) = Cardinality(Holds(z)) + Total(g[t])
  BY Zenon, <1>4, <1>5
<1>7. IsFiniteSet(Holds(h)) /\ Cardinality(Holds(h)) = Cardinality(Holds(z)) + Total(x)
  BY Zenon, <1>4, <1>t
<1>8. Cardinality(Holds(z)) \in Nat /\ Total(x) \in Nat /\ Total(g[t]) \in Nat
  BY Zenon, <1>2, <1>5, FS_CardinalityType, TotalType
<1> QED
  BY <1>6, <1>7, <1>8

\* Without outstanding grants nobody has one.
LEMMA NoHolds ==
    ASSUME NEW g \in [Thread -> Grants], IsFiniteSet(Holds(g)),
           Cardinality(Holds(g)) = 0
    PROVE  \A u \in Thread : g[u] = NoGrants
<1>1. Holds(g) = {}
  BY Zenon, FS_EmptySet
<1> SUFFICES ASSUME NEW u \in Thread, Total(g[u]) # 0 PROVE FALSE
  BY Zenon, TotalType
<1>2. 1 \in 1 .. Total(g[u])
  BY TotalType
<1>3. <<u, 1>> \in Holds(g)
  BY Zenon, <1>2, HoldsMember
<1> QED
  BY Zenon, <1>1, <1>3

\* The number of outstanding grants is a natural number.
LEMMA HoldsNat ==
    ASSUME NEW g, IsFiniteSet(Holds(g))
    PROVE  Cardinality(Holds(g)) \in Nat
BY Zenon, FS_CardinalityType

\* Nobody has a grant at first.
LEMMA HoldsInit ==
    LET g == [t \in Thread |-> NoGrants] IN
    IsFiniteSet(Holds(g)) /\ Cardinality(Holds(g)) = 0
<1>1. Holds([t \in Thread |-> NoGrants]) = {}
  BY DEF Holds, Total, NoGrants
<1> QED
  BY Zenon, <1>1, FS_EmptySet

\* Adding to and taking from one field of a grants record.
LEMMA GrantType ==
    ASSUME NEW g \in Grants, NEW m \in {"Shared", "Exclusive"}
    PROVE  /\ g[m] \in Nat
           /\ [g EXCEPT ![m] = @ + 1] \in Grants
           /\ Total([g EXCEPT ![m] = @ + 1]) = Total(g) + 1
           /\ g[m] > 0 => /\ [g EXCEPT ![m] = @ - 1] \in Grants
                          /\ Total([g EXCEPT ![m] = @ - 1]) = Total(g) - 1
BY DEF Grants, Total

-----------------------------------------------------------------------------
(* The wait queue                                                          *)

\* The empty queue, its tail, and a queue with one more blocker.
LEMMA QueueType ==
    /\ <<>> \in Seq(Thread)
    /\ \A s \in Seq(Thread) :
          /\ s # <<>> => Head(s) \in Thread /\ Tail(s) \in Seq(Thread)
          /\ \A t \in Thread : Append(s, t) \in Seq(Thread)
OBVIOUS

\* ~Blocker takes one entry out of m_blockers.
LEMMA RemoveAtType ==
    ASSUME NEW s \in Seq(Thread), NEW i \in DOMAIN s
    PROVE  SubSeq(s, 1, i - 1) \o SubSeq(s, i + 1, Len(s)) \in Seq(Thread)
BY Zenon, WithoutPosition

-----------------------------------------------------------------------------
(* Type correctness                                                        *)

\* What WaitQueue::wake_one and wake_all do to the program counters: their
\* caller continues, and no other thread moves but from "blocked" to "lock".
OthersAwaken(t) ==
    \A u \in Thread \ {t} :
        pc'[u] = pc[u] \/ (pc[u] = "blocked" /\ pc'[u] = "lock")

\* wake_one keeps the types of the queue, and wakes one sleeper at most.
LEMMA WakeOneEffect ==
    ASSUME TypeOK, NEW t \in Thread, NEW label \in Label, WakeOne(t, label)
    PROVE  /\ blockers' \in Seq(Thread)
           /\ wake_requested' \in BOOLEAN
           /\ pc' \in [Thread -> Label]
           /\ label # "blocked" => pc'[t] = label
           /\ pc'[t] \in {label, "lock"}
           /\ OthersAwaken(t)
<1>1. CASE blockers = <<>>
  BY Zenon, <1>1 DEF TypeOK, WakeOne, Goto, OthersAwaken
<1>2. CASE blockers # <<>>
  <2>1. Head(blockers) \in Thread /\ Tail(blockers) \in Seq(Thread)
    BY Zenon, <1>2, QueueType DEF TypeOK
  <2>2. pc' = Awaken([pc EXCEPT ![t] = label], Head(blockers))
    BY Zenon, <1>2 DEF WakeOne
  <2> QED
    BY Zenon, <1>2, <2>1, <2>2 DEF TypeOK, WakeOne, Awaken, OthersAwaken, Label
<1> QED
  BY Zenon, <1>1, <1>2

LEMMA WakeAllEffect ==
    ASSUME TypeOK, NEW t \in Thread, NEW label \in Label, WakeAll(t, label)
    PROVE  /\ blockers' \in Seq(Thread)
           /\ wake_requested' \in BOOLEAN
           /\ pc' \in [Thread -> Label]
           /\ pc'[t] = label
           /\ OthersAwaken(t)
<1>1. \A u \in Thread : Awaken(pc, u)[u] \in {pc[u], "lock"}
                        /\ (Awaken(pc, u)[u] # pc[u] => pc[u] = "blocked")
  BY Zenon DEF Awaken, TypeOK
<1>2. \A u \in Thread : pc'[u] = IF u = t THEN label
                                 ELSE IF u \in Range(blockers) THEN Awaken(pc, u)[u]
                                 ELSE pc[u]
  BY Zenon DEF WakeAll
<1>3. \A u \in Thread : pc'[u] \in Label
  BY Zenon, <1>1, <1>2 DEF TypeOK, Label
<1>4. pc' = [u \in Thread |-> pc'[u]]
  BY Zenon DEF WakeAll
<1>5. pc' \in [Thread -> Label]
  BY Zenon, <1>3, <1>4
<1>6. blockers' \in Seq(Thread) /\ wake_requested' \in BOOLEAN
  BY Zenon, QueueType DEF WakeAll
<1> QED
  BY Zenon, <1>1, <1>2, <1>5, <1>6 DEF OthersAwaken

-----------------------------------------------------------------------------
(* The inductive invariant                                                 *)

IInv ==
    /\ TypeOK
    /\ LockInv
    /\ CountExact
    /\ IsFiniteSet(Holds(grants))

\* In each mode, LockInv is the part that is about that mode.
LEMMA UnlockedLockInv ==
    ASSUME mode' = "Unlocked", UnlockedInv', \A u \in Thread : DetachedInv(u)'
    PROVE  LockInv'
BY Zenon DEF LockInv, ExclusiveInv, SharedInv

LEMMA ExclusiveLockInv ==
    ASSUME mode' = "Exclusive", ExclusiveInv', \A u \in Thread : DetachedInv(u)'
    PROVE  LockInv'
BY Zenon DEF LockInv, UnlockedInv, SharedInv

LEMMA SharedLockInv ==
    ASSUME mode' = "Shared", SharedInv', \A u \in Thread : DetachedInv(u)'
    PROVE  LockInv'
BY Zenon DEF LockInv, UnlockedInv, ExclusiveInv

\* A step that leaves the Lock's members and the grants alone.
LEMMA SameLockInv ==
    ASSUME LockInv, UNCHANGED <<mode, holder, shared_holders, times_locked, grants>>,
           \A u \in Thread : DetachedInv(u)'
    PROVE  LockInv'
<1>1. UnlockedInv'
  BY Zenon DEF LockInv, UnlockedInv
<1>2. ExclusiveInv'
  BY Zenon DEF LockInv, ExclusiveInv
<1>3. SharedInv'
  BY Zenon DEF LockInv, SharedInv
<1> QED
  BY Zenon, <1>1, <1>2, <1>3 DEF LockInv

LEMMA InitIInv == Init => IInv
<1> SUFFICES ASSUME Init PROVE IInv
  BY Zenon
<1>0. /\ NoGrants \in [Shared : Nat, Exclusive : Nat]
      /\ NoSaved \in [mode : LockMode, count : Nat]
      /\ <<>> \in Seq(Thread)
  BY Zenon, QueueType DEF NoGrants, NoSaved, LockMode
<1>1. TypeOK
  BY Zenon, <1>0 DEF Init, TypeOK, LockMode, Label
<1>2. LockInv
  BY Zenon DEF Init, LockInv, UnlockedInv, ExclusiveInv, SharedInv, DetachedInv, Detached
<1> QED
  BY Zenon, <1>1, <1>2, HoldsInit DEF IInv, CountExact, Init

\* A step that moves threads about the wait queue only.
LEMMA QuietStep ==
    ASSUME IInv,
           UNCHANGED <<lockVars, grants, saved, parked>>,
           blockers' \in Seq(Thread),
           wake_requested' \in BOOLEAN,
           should_block' \in BOOLEAN,
           want' \in [Thread -> {"Shared", "Exclusive"}],
           stopped' \subseteq Stoppable,
           pc' \in [Thread -> Label],
           \A u \in Thread :
              pc'[u] = pc[u] \/ (pc[u] \notin Detached /\ pc'[u] \notin Detached)
    PROVE  IInv'
<1>1. TypeOK'
  BY Zenon DEF IInv, TypeOK, lockVars
<1>2. LockInv'
  <2>1. \A u \in Thread : DetachedInv(u)'
    BY Zenon DEF IInv, LockInv, DetachedInv
  <2> QED
    BY Zenon, <2>1, SameLockInv DEF IInv, lockVars
<1> QED
  BY Zenon, <1>1, <1>2 DEF IInv, CountExact, Holds, lockVars

\* The actions that leave the Lock's members and the grants alone.
LEMMA QuietActions ==
    ASSUME IInv, NEW t \in Thread,
           \/ \E m \in Modes : EnterLock(t, m)
           \/ LockContended(t) \/ Wait(t) \/ DropBigLock(t) \/ DropWake(t)
           \/ Interrupt(t) \/ Unwind(t) \/ Stop(t) \/ Continue(t)
           \/ UnlockWake(t) \/ ClearWaiters(t)
    PROVE  IInv'
<1> USE DEF lockVars, queueVars, callerVars
<1>0. TypeOK /\ pc \in [Thread -> Label]
  BY Zenon DEF IInv, TypeOK
<1>1. CASE \E m \in Modes : EnterLock(t, m)
  BY <1>0, <1>1, LockAssumption, QuietStep DEF EnterLock, Goto, TypeOK, Label, Detached
<1>2. CASE LockContended(t)
  BY Zenon, <1>0, <1>2, QuietStep DEF LockContended, Goto, TypeOK, Label, Detached
<1>3. CASE Wait(t)
  <2>1. Append(blockers, t) \in Seq(Thread)
    BY Zenon, <1>0, QueueType DEF TypeOK
  <2> QED
    BY Zenon, <1>0, <1>3, <2>1, QuietStep DEF Wait, Goto, TypeOK, Label, Detached
<1>4. CASE DropBigLock(t)
  BY Zenon, <1>0, <1>4, QuietStep DEF DropBigLock, Goto, TypeOK, Label, Detached
<1>5. CASE DropWake(t)
  <2>1. PICK label \in {"blocked", "lock"} : WakeOne(t, label)
    BY Zenon, <1>5 DEF DropWake
  <2>2. /\ blockers' \in Seq(Thread) /\ wake_requested' \in BOOLEAN
        /\ pc' \in [Thread -> Label] /\ pc'[t] \in {"blocked", "lock"}
        /\ OthersAwaken(t)
    BY Zenon, <1>0, <2>1, WakeOneEffect DEF Label
  <2> QED
    BY Zenon, <1>0, <1>5, <2>2, QuietStep DEF DropWake, OthersAwaken, TypeOK, Detached
<1>6. CASE Interrupt(t)
  BY Zenon, <1>0, <1>6, QuietStep DEF Interrupt, Goto, TypeOK, Label, Detached
<1>7. CASE Unwind(t)
  <2>1. blockers' \in Seq(Thread)
    <3>1. blockers \in Seq(Thread)
      BY Zenon, <1>0 DEF TypeOK
    <3>2. CASE blockers' = blockers
      BY Zenon, <3>1, <3>2
    <3>3. ASSUME NEW i \in DOMAIN blockers,
                 blockers' = SubSeq(blockers, 1, i - 1)
                               \o SubSeq(blockers, i + 1, Len(blockers))
          PROVE  blockers' \in Seq(Thread)
      BY Zenon, <3>1, <3>3, RemoveAtType
    <3> QED
      BY Zenon, <1>7, <3>2, <3>3 DEF Unwind
  <2> QED
    BY <1>0, <1>7, <2>1, QuietStep DEF Unwind, Goto, TypeOK, Label, Detached
<1>8. CASE Stop(t)
  BY Zenon, <1>0, <1>8, QuietStep DEF Stop, TypeOK
<1>9. CASE Continue(t)
  BY Zenon, <1>0, <1>9, QuietStep DEF Continue, TypeOK
<1>10. CASE UnlockWake(t)
  <2>1. /\ blockers' \in Seq(Thread) /\ wake_requested' \in BOOLEAN
        /\ pc' \in [Thread -> Label] /\ pc'[t] = "out"
        /\ OthersAwaken(t)
    BY Zenon, <1>0, <1>10, WakeOneEffect DEF UnlockWake, Label
  <2> QED
    BY Zenon, <1>0, <1>10, <2>1, QuietStep DEF UnlockWake, OthersAwaken, TypeOK, Detached
<1>11. CASE ClearWaiters(t)
  <2>1. /\ blockers' \in Seq(Thread) /\ wake_requested' \in BOOLEAN
        /\ pc' \in [Thread -> Label] /\ pc'[t] = "out"
        /\ OthersAwaken(t)
    BY Zenon, <1>0, <1>11, WakeAllEffect DEF ClearWaiters, Label
  <2> QED
    BY Zenon, <1>0, <1>11, <2>1, QuietStep DEF ClearWaiters, OthersAwaken, TypeOK, Detached
<1> QED
  BY Zenon, <1>1, <1>2, <1>3, <1>4, <1>5, <1>6, <1>7, <1>8, <1>9, <1>10, <1>11

\* grants after Granted(t): one more for t, in the mode it asked for.
LEMMA GrantedCount ==
    ASSUME IInv, NEW t \in Thread, Granted(t)
    PROVE  /\ grants' \in [Thread -> Grants]
           /\ Total(grants'[t]) = Total(grants[t]) + 1
           /\ Total(grants[t]) \in Nat
           /\ grants'[t] = [grants[t] EXCEPT ![want[t]] = @ + 1]
           /\ \A u \in Thread \ {t} : grants'[u] = grants[u]
           /\ IsFiniteSet(Holds(grants'))
           /\ Cardinality(Holds(grants')) = times_locked + 1
<1> DEFINE x == [grants[t] EXCEPT ![want[t]] = @ + 1]
<1>1. grants \in [Thread -> Grants] /\ want[t] \in {"Shared", "Exclusive"}
      /\ times_locked \in Nat /\ IsFiniteSet(Holds(grants))
      /\ times_locked = Cardinality(Holds(grants))
  BY Zenon DEF IInv, TypeOK, Grants, CountExact
<1>2. x \in Grants /\ Total(x) = Total(grants[t]) + 1 /\ Total(grants[t]) \in Nat
  BY Zenon, <1>1, GrantType, TotalType
<1>3. grants' = [grants EXCEPT ![t] = x]
  BY Zenon DEF Granted
<1>4. /\ IsFiniteSet(Holds(grants'))
      /\ Cardinality(Holds(grants')) =
           Cardinality(Holds(grants)) - Total(grants[t]) + Total(x)
  BY Zenon, <1>1, <1>2, <1>3, HoldsChange
<1> QED
  BY <1>1, <1>2, <1>3, <1>4

\* lock() returning keeps the invariant.
LEMMA LockActions ==
    ASSUME IInv, NEW t \in Thread,
           LockUnlocked(t) \/ LockRecursive(t) \/ LockShared(t)
    PROVE  IInv'
<1>0. Granted(t) /\ pc[t] = "lock" /\ TypeOK /\ LockInv
  BY Zenon DEF LockUnlocked, LockRecursive, LockShared, IInv
<1>1. /\ grants' \in [Thread -> Grants]
      /\ Total(grants'[t]) = Total(grants[t]) + 1
      /\ Total(grants[t]) \in Nat
      /\ grants'[t] = [grants[t] EXCEPT ![want[t]] = @ + 1]
      /\ \A u \in Thread \ {t} : grants'[u] = grants[u]
      /\ IsFiniteSet(Holds(grants'))
      /\ Cardinality(Holds(grants')) = times_locked + 1
  BY Zenon, <1>0, GrantedCount
<1>2. /\ saved' = saved /\ parked' = parked /\ want' = want
      /\ blockers' = blockers /\ stopped' = stopped
      /\ wake_requested' = wake_requested
      /\ pc' = [pc EXCEPT ![t] = "out"]
  BY Zenon, <1>0 DEF Granted, Goto
<1>3. times_locked' = times_locked + 1 /\ should_block' \in BOOLEAN
  BY Zenon, <1>0 DEF LockUnlocked, LockRecursive, LockShared, TypeOK
<1>4. \A u \in Thread : DetachedInv(u)'
  BY Zenon, <1>0, <1>1, <1>2 DEF LockInv, DetachedInv, Detached, TypeOK
<1>t. pc' \in [Thread -> Label] /\ times_locked' \in Nat
  BY <1>0, <1>2, <1>3 DEF TypeOK, Label
<1>5. CASE LockUnlocked(t)
  <2>1. \A u \in Thread : shared_holders[u] = 0 /\ grants[u] = NoGrants
    BY Zenon, <1>0, <1>5 DEF LockUnlocked, LockInv, UnlockedInv
  <2>2. times_locked = 0 /\ holder = Nil /\ shared_holders \in [Thread -> Nat]
    BY Zenon, <1>0, <1>5 DEF LockUnlocked, LockInv, UnlockedInv, TypeOK
  <2>3. CASE want[t] = "Exclusive"
    <3>1. mode' = "Exclusive" /\ holder' = t /\ shared_holders' = shared_holders
      BY Zenon, <1>5, <2>3 DEF LockUnlocked
    <3>2. Total(grants'[t]) = 1
      BY <1>1, <2>1 DEF Total, NoGrants
    <3>3. LockInv'
      <4>1. times_locked' > 0 /\ times_locked' = Total(grants'[holder'])
        BY <1>3, <2>2, <3>1, <3>2
      <4>2. ExclusiveInv'
        BY Zenon, <1>1, <2>1, <3>1, <4>1 DEF ExclusiveInv
      <4> QED
        BY Zenon, <1>4, <3>1, <4>2, ExclusiveLockInv
    <3>4. TypeOK'
      BY Zenon, <1>0, <1>1, <1>2, <1>3, <1>t, <3>1 DEF TypeOK, Grants, LockMode
    <3> QED
      BY Zenon, <1>1, <1>3, <3>3, <3>4 DEF IInv, CountExact
  <2>4. CASE want[t] = "Shared"
    <3>1. mode' = "Shared" /\ holder' = Nil
          /\ shared_holders' = [shared_holders EXCEPT ![t] = 1]
      BY Zenon, <1>5, <2>2, <2>4 DEF LockUnlocked
    <3>2. grants'[t].Shared = 1 /\ grants'[t].Exclusive = 0
      BY <1>1, <2>1, <2>4 DEF NoGrants
    <3>3. \A u \in Thread \ {t} : grants'[u].Shared = 0 /\ grants'[u].Exclusive = 0
      BY <1>1, <2>1 DEF NoGrants
    <3>4. LockInv'
      <4>1. times_locked' > 0
        BY <1>3, <2>2
      <4>2. \A u \in Thread : /\ grants'[u].Exclusive = 0
                             /\ shared_holders'[u] = grants'[u].Shared
        BY Zenon, <2>1, <2>2, <3>1, <3>2, <3>3
      <4>3. SharedInv'
        BY Zenon, <3>1, <4>1, <4>2 DEF SharedInv
      <4> QED
        BY Zenon, <1>4, <3>1, <4>3, SharedLockInv
    <3>5. TypeOK'
      <4>1. shared_holders' \in [Thread -> Nat]
        BY <2>2, <3>1
      <4> QED
        BY Zenon, <1>0, <1>1, <1>2, <1>3, <1>t, <3>1, <4>1 DEF TypeOK, Grants, LockMode
    <3> QED
      BY Zenon, <1>1, <1>3, <3>4, <3>5 DEF IInv, CountExact
  <2> QED
    BY Zenon, <1>0, <2>3, <2>4 DEF TypeOK
<1>6. CASE LockRecursive(t)
  <2>1. mode = "Exclusive" /\ holder = t
        /\ UNCHANGED <<mode, holder, shared_holders>>
    BY Zenon, <1>6 DEF LockRecursive
  <2>2. times_locked = Total(grants[t]) /\ times_locked > 0
        /\ (\A u \in Thread : shared_holders[u] = 0)
        /\ (\A u \in Thread \ {t} : grants[u] = NoGrants)
    BY Zenon, <1>0, <2>1 DEF LockInv, ExclusiveInv
  <2>3. LockInv'
    <3>1. times_locked' > 0 /\ times_locked' = Total(grants'[holder'])
      BY <1>1, <1>3, <2>1, <2>2
    <3>2. ExclusiveInv'
      BY Zenon, <1>1, <2>1, <2>2, <3>1 DEF ExclusiveInv
    <3> QED
      BY Zenon, <1>4, <2>1, <3>2, ExclusiveLockInv
  <2>4. TypeOK'
    BY Zenon, <1>0, <1>1, <1>2, <1>3, <1>t, <2>1 DEF TypeOK, Grants
  <2> QED
    BY Zenon, <1>1, <1>3, <2>3, <2>4 DEF IInv, CountExact
<1>7. CASE LockShared(t)
  <2>1. mode = "Shared" /\ want[t] = "Shared" /\ UNCHANGED <<mode, holder>>
        /\ shared_holders' = [shared_holders EXCEPT ![t] = @ + 1]
    BY Zenon, <1>7 DEF LockShared
  <2>2. holder = Nil /\ times_locked > 0 /\ shared_holders \in [Thread -> Nat]
        /\ times_locked \in Nat
        /\ \A u \in Thread : /\ grants[u].Exclusive = 0
                             /\ shared_holders[u] = grants[u].Shared
    BY <1>0, <2>1 DEF LockInv, SharedInv, TypeOK
  <2>3. /\ grants'[t].Shared = grants[t].Shared + 1
        /\ grants'[t].Exclusive = 0
    BY <1>0, <1>1, <2>1, <2>2 DEF TypeOK
  <2>a. ASSUME NEW u \in Thread
        PROVE  /\ grants'[u].Exclusive = 0
               /\ shared_holders'[u] = grants'[u].Shared
    BY Zenon, <1>1, <2>1, <2>2, <2>3
  <2>4. LockInv'
    <3>1. times_locked' > 0
      BY <1>3, <2>2
    <3>2. SharedInv'
      BY Zenon, <2>1, <2>2, <2>a, <3>1 DEF SharedInv
    <3> QED
      BY Zenon, <1>4, <2>1, <3>2, SharedLockInv
  <2>5. TypeOK'
    <3>1. shared_holders' \in [Thread -> Nat]
      BY <2>1, <2>2
    <3> QED
      BY Zenon, <1>0, <1>1, <1>2, <1>3, <1>t, <2>1, <3>1 DEF TypeOK, Grants
  <2> QED
    BY Zenon, <1>1, <1>3, <2>4, <2>5 DEF IInv, CountExact
<1> QED
  BY Zenon, <1>5, <1>6, <1>7

\* unlock() keeps the invariant: m_times_locked reaches 0 with the last grant.
LEMMA UnlockAction ==
    ASSUME IInv, NEW t \in Thread, NEW g \in Modes, Unlock(t, g)
    PROVE  IInv'
<1> DEFINE x == [grants[t] EXCEPT ![g] = @ - 1]
<1>0. /\ TypeOK /\ LockInv /\ CountExact /\ IsFiniteSet(Holds(grants))
      /\ g \in {"Shared", "Exclusive"}
      /\ grants \in [Thread -> Grants]
  BY Zenon, LockAssumption DEF IInv, TypeOK, Grants
<1>1. /\ x \in Grants
      /\ Total(x) = Total(grants[t]) - 1
      /\ Total(x) \in Nat /\ Total(grants[t]) \in Nat
  BY Zenon, <1>0, GrantType, TotalType DEF Unlock
<1>2. grants' = [grants EXCEPT ![t] = x] /\ grants' \in [Thread -> Grants]
  BY <1>0, <1>1 DEF Unlock
<1>3. /\ IsFiniteSet(Holds(grants'))
      /\ Cardinality(Holds(grants')) = times_locked - 1
  <2>1. Cardinality(Holds(grants')) =
          Cardinality(Holds(grants)) - Total(grants[t]) + Total(x)
        /\ IsFiniteSet(Holds(grants'))
    BY ZenonT(60), <1>0, <1>1, <1>2, HoldsChange
  <2> QED
    BY <1>0, <1>1, <2>1 DEF CountExact, TypeOK
<1>4. times_locked' = times_locked - 1 /\ times_locked' \in Nat
  BY Zenon, <1>3, HoldsNat DEF Unlock
<1>5. times_locked' = 0 => \A u \in Thread : grants'[u] = NoGrants
  BY Zenon, <1>2, <1>3, <1>4, NoHolds
<1>6. /\ UNCHANGED <<blockers, wake_requested, want, saved, parked, stopped>>
      /\ pc' \in [Thread -> Label] /\ should_block' \in BOOLEAN
      /\ pc[t] \notin Detached /\ pc'[t] \notin Detached
      /\ \A u \in Thread \ {t} : pc'[u] = pc[u]
  BY Zenon, <1>0 DEF Unlock, Goto, TypeOK, Label, Detached
<1>7. \A u \in Thread : DetachedInv(u)'
  BY Zenon, <1>0, <1>2, <1>6 DEF LockInv, DetachedInv
<1>8. mode # "Unlocked"
  BY <1>0, <1>1, TotalType DEF LockInv, UnlockedInv, Total, NoGrants
<1>9. CASE mode = "Exclusive"
  <2>1. /\ holder = t /\ times_locked = Total(grants[t])
        /\ \A u \in Thread : shared_holders[u] = 0
        /\ \A u \in Thread \ {t} : grants[u] = NoGrants
    BY <1>0, <1>1, <1>9 DEF LockInv, ExclusiveInv, Total, NoGrants
  <2>2. /\ UNCHANGED shared_holders
        /\ holder' = IF times_locked' = 0 THEN Nil ELSE t
        /\ mode' = IF times_locked' = 0 THEN "Unlocked" ELSE "Exclusive"
    BY Zenon, <1>9, <2>1 DEF Unlock
  <2>3. LockInv'
    <3>1. CASE times_locked' = 0
      <4>1. mode' = "Unlocked" /\ UnlockedInv'
        BY Zenon, <1>5, <2>1, <2>2, <3>1 DEF UnlockedInv
      <4> QED
        BY Zenon, <1>7, <4>1, UnlockedLockInv
    <3>2. CASE times_locked' # 0
      <4>1. mode' = "Exclusive" /\ holder' = t
        BY Zenon, <2>2, <3>2
      <4>2. times_locked' > 0 /\ times_locked' = Total(grants'[t])
        BY <1>0, <1>1, <1>2, <1>4, <2>1, <3>2
      <4>3. \A u \in Thread \ {t} : grants'[u] = NoGrants
        BY Zenon, <1>0, <1>2, <2>1
      <4>4. ExclusiveInv'
        BY Zenon, <2>1, <2>2, <4>1, <4>2, <4>3 DEF ExclusiveInv
      <4> QED
        BY Zenon, <1>7, <4>1, <4>4, ExclusiveLockInv
    <3> QED
      BY Zenon, <3>1, <3>2
  <2>4. TypeOK'
    BY Zenon, <1>0, <1>2, <1>4, <1>6, <2>2 DEF TypeOK, LockMode, Grants
  <2> QED
    BY Zenon, <1>3, <1>4, <2>3, <2>4 DEF IInv, CountExact
<1>10. CASE mode = "Shared"
  <2>1. /\ holder = Nil
        /\ \A u \in Thread : grants[u].Exclusive = 0 /\ shared_holders[u] = grants[u].Shared
    BY <1>0, <1>10 DEF LockInv, SharedInv
  <2>2. /\ UNCHANGED holder
        /\ shared_holders' = [shared_holders EXCEPT ![t] = @ - 1]
        /\ mode' = IF times_locked' = 0 THEN "Unlocked" ELSE "Shared"
    BY <1>10 DEF Unlock
  <2>3. g = "Shared" /\ x.Exclusive = 0 /\ x.Shared = grants[t].Shared - 1
    BY <1>0, <2>1 DEF Unlock, Grants
  <2>4. ASSUME NEW u \in Thread
        PROVE  /\ grants'[u].Exclusive = 0
               /\ shared_holders'[u] = grants'[u].Shared
    BY Zenon, <1>0, <1>2, <2>1, <2>2, <2>3 DEF TypeOK
  <2>b. \A u \in Thread : shared_holders'[u] \in Nat
    BY <1>2, <2>4 DEF Grants
  <2>5. shared_holders' \in [Thread -> Nat]
    BY <1>0, <2>2, <2>b DEF TypeOK
  <2>c. ASSUME times_locked' = 0 PROVE LockInv'
    <3>1. \A u \in Thread : grants'[u] = NoGrants /\ shared_holders'[u] = 0
      BY <1>5, <2>4, <2>c DEF NoGrants
    <3> QED
      BY Zenon, <1>7, <2>1, <2>2, <2>c, <3>1, UnlockedLockInv DEF UnlockedInv
  <2>d. ASSUME times_locked' # 0 PROVE LockInv'
    <3>a. times_locked' \in Nat /\ times_locked' # 0
      BY <1>4, <2>d
    <3>b. mode' = "Shared" /\ holder' = Nil
      BY <2>1, <2>2, <2>d
    <3>1. mode' = "Shared" /\ holder' = Nil /\ times_locked' > 0
      BY <3>a, <3>b
    <3>2. SharedInv'
      BY <2>4, <3>1 DEF SharedInv
    <3> QED
      BY Zenon, <1>7, <3>1, <3>2, SharedLockInv
  <2>6. LockInv'
    BY <2>c, <2>d
  <2>7. TypeOK'
    BY Zenon, <1>0, <1>2, <1>4, <1>6, <2>2, <2>5 DEF TypeOK, LockMode, Grants
  <2> QED
    BY Zenon, <1>3, <1>4, <2>6, <2>7 DEF IInv, CountExact
<1> QED
  BY <1>0, <1>8, <1>9, <1>10 DEF TypeOK, LockMode

\* force_unlock_if_locked() keeps the invariant: it takes exactly the grants
\* of its caller off m_times_locked.
LEMMA ForceUnlockAction ==
    ASSUME IInv, NEW t \in Thread, NEW restores \in BOOLEAN,
           ForceUnlock(t, restores)
    PROVE  IInv'
<1>0. /\ TypeOK /\ LockInv /\ CountExact /\ IsFiniteSet(Holds(grants))
      /\ grants \in [Thread -> Grants] /\ NoGrants \in Grants
      /\ Total(NoGrants) = 0 /\ Total(grants[t]) \in Nat
  BY Zenon, TotalType DEF IInv, TypeOK, Grants, NoGrants, Total
<1>1. /\ grants' = [grants EXCEPT ![t] = NoGrants]
      /\ parked' = [parked EXCEPT ![t] = IF restores THEN grants[t] ELSE NoGrants]
      /\ pc' = [pc EXCEPT ![t] = IF restores THEN "forcewake" ELSE "diewake"]
      /\ UNCHANGED <<blockers, wake_requested, want, stopped>>
      /\ pc[t] = "out"
  BY Zenon DEF ForceUnlock, Goto
<1>2. /\ IsFiniteSet(Holds(grants'))
      /\ Cardinality(Holds(grants')) = times_locked - Total(grants[t])
      /\ Cardinality(Holds(grants')) \in Nat
  <2>1. /\ IsFiniteSet(Holds(grants'))
        /\ Cardinality(Holds(grants')) =
             Cardinality(Holds(grants)) - Total(grants[t]) + Total(NoGrants)
    BY Zenon, <1>0, <1>1, HoldsChange
  <2> QED
    BY <1>0, <2>1, HoldsNat DEF CountExact, TypeOK
<1>3. /\ grants' \in [Thread -> Grants] /\ parked' \in [Thread -> Grants]
      /\ pc' \in [Thread -> Label]
  <2>1. /\ parked \in [Thread -> Grants] /\ pc \in [Thread -> Label]
        /\ "forcewake" \in Label /\ "diewake" \in Label
    BY Zenon, <1>0 DEF TypeOK, Grants, Label
  <2> QED
    BY Zenon, <1>0, <1>1, <2>1
<1>4. \A u \in Thread \ {t} : saved' = [saved EXCEPT ![t] = saved'[t]]
                              => DetachedInv(u)'
  BY Zenon, <1>0, <1>1 DEF LockInv, DetachedInv, TypeOK
<1>5. CASE mode = "Exclusive"
  <2>1. /\ times_locked = Total(grants[t]) /\ times_locked > 0
        /\ \A u \in Thread : shared_holders[u] = 0
        /\ \A u \in Thread \ {t} : grants[u] = NoGrants
    BY <1>0, <1>5 DEF ForceUnlock, LockInv, ExclusiveInv
  <2>2. /\ mode' = "Unlocked" /\ holder' = Nil /\ times_locked' = 0
        /\ UNCHANGED shared_holders /\ should_block' = FALSE
        /\ saved' = [saved EXCEPT ![t] = [mode |-> "Exclusive", count |-> times_locked]]
    BY Zenon, <1>5 DEF ForceUnlock
  <2>3. saved' \in [Thread -> [mode : LockMode, count : Nat]]
    BY <1>0, <2>2 DEF TypeOK, LockMode
  <2>4. DetachedInv(t)'
    BY <1>0, <1>1, <2>1, <2>2 DEF DetachedInv, Detached, TypeOK
  <2>5. \A u \in Thread : grants'[u] = NoGrants
    BY Zenon, <1>0, <1>1, <2>1
  <2>6. saved' = [saved EXCEPT ![t] = saved'[t]]
    BY <1>0, <2>2 DEF TypeOK
  <2>7. LockInv'
    <3>1. UnlockedInv'
      BY Zenon, <2>1, <2>2, <2>5 DEF UnlockedInv
    <3>2. \A u \in Thread : DetachedInv(u)'
      BY Zenon, <1>4, <2>4, <2>6
    <3> QED
      BY Zenon, <2>2, <3>1, <3>2, UnlockedLockInv
  <2>8. TypeOK'
    BY Zenon, <1>0, <1>1, <1>3, <2>2, <2>3 DEF TypeOK, LockMode, Grants
  <2> QED
    BY <1>0, <1>2, <2>1, <2>2, <2>7, <2>8 DEF IInv, CountExact
<1>6. CASE mode = "Shared"
  <2>1. /\ holder = Nil /\ shared_holders[t] > 0
        /\ \A u \in Thread : /\ grants[u].Exclusive = 0
                             /\ shared_holders[u] = grants[u].Shared
    BY <1>0, <1>6 DEF ForceUnlock, LockInv, SharedInv
  <2>2. /\ saved' = [saved EXCEPT ![t] = [mode |-> "Shared", count |-> shared_holders[t]]]
        /\ shared_holders' = [shared_holders EXCEPT ![t] = 0]
        /\ times_locked' = times_locked - shared_holders[t]
        /\ mode' = IF times_locked' = 0 THEN "Unlocked" ELSE "Shared"
        /\ should_block' \in BOOLEAN
        /\ UNCHANGED holder
    BY Zenon, <1>0, <1>6 DEF ForceUnlock, TypeOK
  <2>3. shared_holders[t] = Total(grants[t]) /\ shared_holders[t] \in Nat
    BY <1>0, <2>1 DEF Total, Grants, TypeOK
  <2>4. times_locked' = Cardinality(Holds(grants')) /\ times_locked' \in Nat
    BY Zenon, <1>2, <2>2, <2>3
  <2>5. /\ saved' \in [Thread -> [mode : LockMode, count : Nat]]
        /\ shared_holders' \in [Thread -> Nat]
    BY Zenon, <1>0, <2>2, <2>3 DEF TypeOK, LockMode
  <2>6. DetachedInv(t)'
    BY <1>0, <1>1, <2>1, <2>2, <2>3 DEF DetachedInv, Detached, TypeOK, NoGrants
  <2>7. saved' = [saved EXCEPT ![t] = saved'[t]]
    BY Zenon, <1>0, <2>2 DEF TypeOK
  <2>8. ASSUME NEW u \in Thread
        PROVE  grants'[u].Exclusive = 0 /\ shared_holders'[u] = grants'[u].Shared
    BY Zenon, <1>0, <1>1, <2>1, <2>2 DEF TypeOK, NoGrants
  <2>9. ASSUME times_locked' = 0 PROVE LockInv'
    <3>1. \A u \in Thread : grants'[u] = NoGrants
      BY <1>2, <1>3, <2>4, <2>9, NoHolds
    <3>2. \A u \in Thread : shared_holders'[u] = 0
      BY <2>8, <3>1 DEF NoGrants
    <3>3. mode' = "Unlocked" /\ UnlockedInv'
      BY Zenon, <2>1, <2>2, <2>9, <3>1, <3>2 DEF UnlockedInv
    <3>4. \A u \in Thread : DetachedInv(u)'
      BY Zenon, <1>4, <2>6, <2>7
    <3> QED
      BY Zenon, <3>3, <3>4, UnlockedLockInv
  <2>10. ASSUME times_locked' # 0 PROVE LockInv'
    <3>1. times_locked' > 0
      BY <2>4, <2>10
    <3>2. mode' = "Shared" /\ holder' = Nil
      BY <2>1, <2>2, <2>10
    <3>3. SharedInv'
      BY <2>8, <3>1, <3>2 DEF SharedInv
    <3>4. \A u \in Thread : DetachedInv(u)'
      BY Zenon, <1>4, <2>6, <2>7
    <3> QED
      BY Zenon, <3>2, <3>3, <3>4, SharedLockInv
  <2>11. TypeOK'
    BY Zenon, <1>0, <1>1, <1>3, <2>2, <2>4, <2>5 DEF TypeOK, LockMode, Grants
  <2> QED
    BY Zenon, <1>2, <2>4, <2>9, <2>10, <2>11 DEF IInv, CountExact
<1>7. CASE mode = "Unlocked"
  <2>1. /\ holder = Nil /\ times_locked = 0
        /\ \A u \in Thread : shared_holders[u] = 0 /\ grants[u] = NoGrants
    BY <1>0, <1>7 DEF LockInv, UnlockedInv
  <2>2. /\ UNCHANGED <<mode, holder, shared_holders, times_locked, should_block>>
        /\ saved' = [saved EXCEPT ![t] = NoSaved]
    BY Zenon, <1>7 DEF ForceUnlock, lockVars
  <2>3. saved' \in [Thread -> [mode : LockMode, count : Nat]]
    BY <1>0, <2>2 DEF TypeOK, LockMode, NoSaved
  <2>4. DetachedInv(t)'
    BY <1>0, <1>1, <2>1, <2>2 DEF DetachedInv, Detached, TypeOK, NoSaved
  <2>5. \A u \in Thread : grants'[u] = NoGrants
    BY <1>0, <1>1, <2>1
  <2>6. saved' = [saved EXCEPT ![t] = saved'[t]]
    BY Zenon, <1>0, <2>2 DEF TypeOK
  <2>7. LockInv'
    <3>1. mode' = "Unlocked" /\ UnlockedInv'
      BY Zenon, <1>7, <2>1, <2>2, <2>5 DEF UnlockedInv
    <3>2. \A u \in Thread : DetachedInv(u)'
      BY Zenon, <1>4, <2>4, <2>6
    <3> QED
      BY Zenon, <3>1, <3>2, UnlockedLockInv
  <2>8. TypeOK'
    BY Zenon, <1>0, <1>1, <1>3, <2>2, <2>3 DEF TypeOK, Grants
  <2>9. Cardinality(Holds(grants')) = 0
    BY <1>0, <1>2, <2>1
  <2> QED
    BY <1>2, <2>1, <2>2, <2>7, <2>8, <2>9 DEF IInv, CountExact
<1> QED
  BY <1>0, <1>5, <1>6, <1>7 DEF TypeOK, LockMode

\* The wake_one that ends force_unlock_if_locked().
LEMMA ForceWakeAction ==
    ASSUME IInv, NEW t \in Thread, ForceWake(t)
    PROVE  IInv'
<1>0. TypeOK /\ LockInv /\ \A u \in Thread : DetachedInv(u)
  BY Zenon DEF IInv, LockInv
<1>1. UNCHANGED <<mode, holder, shared_holders, times_locked, should_block,
                  want, grants, parked, stopped>>
  BY Zenon DEF ForceWake, lockVars
<1>2. PICK label \in {"out", "away"} :
         /\ WakeOne(t, label)
         /\ \/ /\ pc[t] = "forcewake" /\ saved' = saved
               /\ label = IF saved[t].mode = "Unlocked" THEN "out" ELSE "away"
            \/ /\ pc[t] = "diewake" /\ label = "out"
               /\ saved' = [saved EXCEPT ![t] = NoSaved]
  BY Zenon DEF ForceWake
<1>3. /\ blockers' \in Seq(Thread) /\ wake_requested' \in BOOLEAN
      /\ pc' \in [Thread -> Label] /\ pc'[t] = label
      /\ OthersAwaken(t)
  BY <1>0, <1>2, WakeOneEffect DEF Label
<1>4. saved' \in [Thread -> [mode : LockMode, count : Nat]]
  <2>1. NoSaved \in [mode : LockMode, count : Nat]
    BY Zenon DEF NoSaved, LockMode
  <2> QED
    BY Zenon, <1>0, <1>2, <2>1 DEF TypeOK
<1>5. TypeOK'
  BY Zenon, <1>0, <1>1, <1>3, <1>4 DEF TypeOK
<1>6. ASSUME NEW u \in Thread \ {t} PROVE DetachedInv(u)'
  BY ZenonT(60), <1>0, <1>1, <1>2, <1>3 DEF DetachedInv, Detached, OthersAwaken, TypeOK
<1>7. DetachedInv(t)'
  <2>1. CASE pc[t] = "forcewake" /\ saved[t].mode # "Unlocked"
    BY Zenon, <1>0, <1>1, <1>2, <1>3, <2>1 DEF DetachedInv, Detached
  <2>2. CASE pc[t] = "forcewake" /\ saved[t].mode = "Unlocked"
    <3>1. saved[t].count = 0 /\ saved[t].count = Total(parked[t])
      BY Zenon, <1>0, <2>2 DEF DetachedInv, Detached
    <3>2. saved[t] = NoSaved
      BY <1>0, <2>2, <3>1 DEF TypeOK, NoSaved
    <3>3. parked[t] = NoGrants
      BY <1>0, <3>1, TotalType DEF TypeOK, Grants
    <3> QED
      BY Zenon, <1>1, <1>2, <1>3, <2>2, <3>2, <3>3 DEF DetachedInv, Detached
  <2>3. CASE pc[t] = "diewake"
    <3>1. parked[t] = NoGrants
      BY Zenon, <1>0, <2>3 DEF DetachedInv, Detached
    <3>2. label = "out" /\ saved'[t] = NoSaved
      BY Zenon, <1>0, <1>2, <2>3 DEF TypeOK
    <3> QED
      BY Zenon, <1>1, <1>3, <3>1, <3>2 DEF DetachedInv, Detached
  <2> QED
    BY Zenon, <1>2, <2>1, <2>2, <2>3
<1>8. LockInv'
  <2>1. \A u \in Thread : DetachedInv(u)'
    BY Zenon, <1>6, <1>7
  <2> QED
    BY Zenon, <1>0, <1>1, <2>1, SameLockInv
<1> QED
  BY Zenon, <1>1, <1>5, <1>8 DEF IInv, CountExact, Holds

\* restore_lock() keeps the invariant: what comes back is what was taken.
LEMMA RestoreLockAction ==
    ASSUME IInv, NEW t \in Thread, RestoreLock(t)
    PROVE  IInv'
<1>0. /\ TypeOK /\ LockInv /\ CountExact /\ IsFiniteSet(Holds(grants))
      /\ grants \in [Thread -> Grants] /\ parked \in [Thread -> Grants]
      /\ NoGrants \in Grants
  BY Zenon DEF IInv, TypeOK, Grants, NoGrants
<1>1. /\ pc[t] = "away"
      /\ grants[t] = NoGrants
      /\ saved[t].count = Total(parked[t])
      /\ saved[t].mode \in {"Shared", "Exclusive"}
      /\ saved[t].mode = "Shared" => parked[t].Exclusive = 0
      /\ saved[t].count # 0 /\ saved[t].count \in Nat
  BY Zenon, <1>0 DEF RestoreLock, LockInv, DetachedInv, Detached, TypeOK, LockMode
<1>2. /\ mode' = saved[t].mode
      /\ grants' = [grants EXCEPT ![t] = parked[t]]
      /\ parked' = [parked EXCEPT ![t] = NoGrants]
      /\ saved' = [saved EXCEPT ![t] = NoSaved]
      /\ pc' = [pc EXCEPT ![t] = "out"]
      /\ should_block' = TRUE
      /\ UNCHANGED <<blockers, wake_requested, want, stopped>>
  BY Zenon DEF RestoreLock, Goto
<1>3. /\ IsFiniteSet(Holds(grants'))
      /\ Cardinality(Holds(grants')) = times_locked + saved[t].count
  <2>1. /\ IsFiniteSet(Holds(grants'))
        /\ Cardinality(Holds(grants')) =
             Cardinality(Holds(grants)) - Total(grants[t]) + Total(parked[t])
    BY Zenon, <1>0, <1>2, HoldsChange
  <2>2. Total(grants[t]) = 0
    BY <1>1 DEF Total, NoGrants
  <2> QED
    BY <1>0, <1>1, <2>1, <2>2 DEF CountExact, TypeOK
<1>4. /\ grants' \in [Thread -> Grants] /\ parked' \in [Thread -> Grants]
      /\ pc' \in [Thread -> Label]
      /\ saved' \in [Thread -> [mode : LockMode, count : Nat]]
      /\ grants'[t] = parked[t]
      /\ \A u \in Thread \ {t} : grants'[u] = grants[u]
  BY Zenon, <1>0, <1>2 DEF TypeOK, Label, NoSaved, LockMode
<1>5. \A u \in Thread : DetachedInv(u)'
  BY Zenon, <1>0, <1>2 DEF LockInv, DetachedInv, Detached, TypeOK
<1>6. CASE saved[t].mode = "Exclusive"
  <2>1. mode = "Unlocked"
    BY Zenon, <1>6 DEF RestoreLock, RestorableModes
  <2>2. /\ times_locked = 0
        /\ \A u \in Thread : shared_holders[u] = 0 /\ grants[u] = NoGrants
    BY <1>0, <2>1 DEF LockInv, UnlockedInv
  <2>3. times_locked' = saved[t].count /\ holder' = t /\ UNCHANGED shared_holders
    BY Zenon, <1>6 DEF RestoreLock
  <2>4. times_locked' > 0 /\ times_locked' \in Nat
    BY <1>1, <2>3
  <2>5. LockInv'
    <3>1. mode' = "Exclusive" /\ times_locked' = Total(grants'[t])
      BY Zenon, <1>1, <1>2, <1>4, <1>6, <2>3
    <3>2. ExclusiveInv'
      BY Zenon, <1>4, <2>2, <2>3, <2>4, <3>1 DEF ExclusiveInv
    <3> QED
      BY Zenon, <1>5, <3>1, <3>2, ExclusiveLockInv
  <2>6. TypeOK'
    BY Zenon, <1>0, <1>2, <1>4, <1>6, <2>3, <2>4 DEF TypeOK, LockMode, Grants
  <2>7. times_locked' = Cardinality(Holds(grants'))
    BY <1>1, <1>3, <2>2, <2>3
  <2> QED
    BY Zenon, <1>3, <2>5, <2>6, <2>7 DEF IInv, CountExact
<1>7. CASE saved[t].mode = "Shared"
  <2>1. mode \in {"Unlocked", "Shared"}
    BY Zenon, <1>7 DEF RestoreLock, RestorableModes
  <2>2. /\ holder = Nil
        /\ \A u \in Thread : /\ grants[u].Exclusive = 0
                             /\ shared_holders[u] = grants[u].Shared
    BY <1>0, <2>1 DEF LockInv, UnlockedInv, SharedInv, NoGrants
  <2>3. /\ times_locked' = times_locked + saved[t].count
        /\ shared_holders' = [shared_holders EXCEPT ![t] = saved[t].count]
        /\ UNCHANGED holder
    BY Zenon, <1>7 DEF RestoreLock
  <2>4. times_locked' > 0 /\ times_locked' \in Nat
    <3>1. times_locked \in Nat
      BY Zenon, <1>0 DEF TypeOK
    <3>2. saved[t].count \in Nat /\ saved[t].count # 0
      BY Zenon, <1>1
    <3> QED
      BY <2>3, <3>1, <3>2
  <2>5. parked[t].Exclusive = 0 /\ parked[t].Shared = saved[t].count
    BY <1>0, <1>1, <1>7 DEF Total, Grants
  <2>6. ASSUME NEW u \in Thread
        PROVE  grants'[u].Exclusive = 0 /\ shared_holders'[u] = grants'[u].Shared
    BY Zenon, <1>0, <1>4, <2>2, <2>3, <2>5 DEF TypeOK
  <2>7. shared_holders' \in [Thread -> Nat]
    BY Zenon, <1>0, <1>1, <2>3 DEF TypeOK
  <2>8. SharedInv'
    BY <2>2, <2>3, <2>4, <2>6 DEF SharedInv
  <2>9. LockInv'
    BY Zenon, <1>2, <1>5, <1>7, <2>8, SharedLockInv
  <2>10. TypeOK'
    BY Zenon, <1>0, <1>2, <1>4, <1>7, <2>3, <2>4, <2>7 DEF TypeOK, LockMode, Grants
  <2> QED
    BY <1>3, <2>3, <2>9, <2>10 DEF IInv, CountExact
<1> QED
  BY <1>1, <1>6, <1>7

LEMMA NextIInv == IInv /\ [Next]_vars => IInv'
<1> SUFFICES ASSUME IInv, [Next]_vars PROVE IInv'
  BY Zenon
<1>1. CASE UNCHANGED vars
  BY Zenon, <1>1, QuietStep DEF IInv, TypeOK, vars, lockVars, queueVars, callerVars
<1>2. ASSUME NEW t \in Thread, NEW g \in Modes, Unlock(t, g) PROVE IInv'
  BY Zenon, <1>2, UnlockAction
<1>3. ASSUME NEW t \in Thread, NEW restores \in BOOLEAN, ForceUnlock(t, restores)
      PROVE  IInv'
  BY Zenon, <1>3, ForceUnlockAction
<1>4. CASE Next
  BY Zenon, <1>2, <1>3, <1>4, QuietActions, LockActions, ForceWakeAction, RestoreLockAction
     DEF Next
<1> QED
  BY Zenon, <1>1, <1>4

\* Every reachable state of the Lock satisfies the inductive invariant.
THEOREM Invariant == Spec => []IInv
BY InitIInv, NextIInv, PTL DEF Spec

\* Type correctness of the Lock and its wait queue.
THEOREM TypeCorrect == Spec => []TypeOK
<1>1. IInv => TypeOK
  BY DEF IInv
<1> QED
  BY <1>1, Invariant, PTL

\* None of Lock.cpp's VERIFYs fires.
THEOREM VerifiesHold == Spec => []LockInv
<1>1. IInv => LockInv
  BY DEF IInv
<1> QED
  BY <1>1, Invariant, PTL

\* m_times_locked counts the outstanding lock() calls.
THEOREM CountIsExact == Spec => []CountExact
<1>1. IInv => CountExact
  BY DEF IInv
<1> QED
  BY <1>1, Invariant, PTL

\* A writer is alone inside the lock.
THEOREM Exclusion == Spec => []MutualExclusion
<1>1. IInv => MutualExclusion
  <2> SUFFICES ASSUME IInv, NEW t \in Thread, NEW u \in Thread, t # u,
                      grants[t].Exclusive > 0
               PROVE  Total(grants[u]) = 0
    BY Zenon DEF MutualExclusion
  <2>1. TypeOK /\ UnlockedInv /\ ExclusiveInv /\ SharedInv
    BY Zenon DEF IInv, LockInv
  <2>2. mode = "Exclusive" /\ holder = t
    BY <2>1 DEF TypeOK, LockMode, UnlockedInv, ExclusiveInv, SharedInv, NoGrants
  <2> QED
    BY <2>1, <2>2 DEF ExclusiveInv, Total, NoGrants
<1> QED
  BY <1>1, Invariant, PTL

-----------------------------------------------------------------------------
(* Refinement                                                              *)

\* lock() returns: a Grant of the abstract lock.
LEMMA GrantStep ==
    ASSUME IInv, NEW t \in Thread,
           LockUnlocked(t) \/ LockRecursive(t) \/ LockShared(t)
    PROVE  Abstract!Grant(t, want[t])
<1>1. TypeOK /\ UnlockedInv /\ ExclusiveInv /\ SharedInv
  BY Zenon DEF IInv, LockInv
<1>2. /\ grants' = [grants EXCEPT ![t][want[t]] = @ + 1]
      /\ UNCHANGED parked
  BY Zenon DEF LockUnlocked, LockRecursive, LockShared, Granted
<1>3. ASSUME NEW u \in Thread \ {t}
      PROVE  /\ want[t] = "Exclusive" => grants[u] = NoGrants
             /\ grants[u].Exclusive = 0
  <2>1. CASE LockUnlocked(t)
    <3>1. mode = "Unlocked"
      BY Zenon, <2>1 DEF LockUnlocked
    <3>2. grants[u] = NoGrants
      BY Zenon, <1>1, <3>1 DEF UnlockedInv
    <3> QED
      BY <3>2 DEF NoGrants
  <2>2. CASE LockRecursive(t)
    <3>1. mode = "Exclusive" /\ holder = t
      BY Zenon, <2>2 DEF LockRecursive
    <3>2. grants[u] = NoGrants
      BY Zenon, <1>1, <3>1 DEF ExclusiveInv
    <3> QED
      BY <3>2 DEF NoGrants
  <2>3. CASE LockShared(t)
    <3>1. mode = "Shared" /\ want[t] = "Shared"
      BY Zenon, <2>3 DEF LockShared
    <3>2. grants[u].Exclusive = 0
      BY Zenon, <1>1, <3>1 DEF SharedInv
    <3> QED
      BY <3>1, <3>2
  <2> QED
    BY Zenon, <2>1, <2>2, <2>3
<1> QED
  BY Zenon, <1>2, <1>3 DEF Abstract!Grant, Abstract!Inside, Abstract!None, NoGrants

\* Every step of Lock.cpp is a step of the abstract lock or leaves it alone.
LEMMA StepRefines ==
    ASSUME IInv, [Next]_vars
    PROVE  [Abstract!Next]_(Abstract!vars)
<1> USE DEF Abstract!vars, lockVars, callerVars
<1>0. TypeOK /\ UnlockedInv /\ ExclusiveInv /\ SharedInv
      /\ \A t \in Thread : DetachedInv(t)
  BY Zenon DEF IInv, LockInv
<1>1. CASE UNCHANGED vars
  BY Zenon, <1>1 DEF vars
<1>2. ASSUME NEW t \in Thread,
             \/ \E m \in Modes : EnterLock(t, m)
             \/ LockContended(t) \/ Wait(t) \/ DropBigLock(t) \/ DropWake(t)
             \/ Interrupt(t) \/ Unwind(t) \/ Stop(t) \/ Continue(t)
             \/ UnlockWake(t) \/ ForceWake(t) \/ ClearWaiters(t)
      PROVE  UNCHANGED <<grants, parked>>
  BY Zenon, <1>2 DEF EnterLock, LockContended, Wait, DropBigLock, DropWake, Interrupt,
              Unwind, Stop, Continue, UnlockWake, ForceWake, ClearWaiters
<1>3. ASSUME NEW t \in Thread,
             LockUnlocked(t) \/ LockRecursive(t) \/ LockShared(t)
      PROVE  Abstract!Next
  <2>1. want[t] \in {"Shared", "Exclusive"}
    BY Zenon, <1>0 DEF TypeOK
  <2> QED
    BY <1>3, <2>1, GrantStep DEF Abstract!Next
<1>4. ASSUME NEW t \in Thread, NEW g \in Modes, Unlock(t, g) PROVE Abstract!Next
  <2>1. Abstract!Release(t, g)
    BY Zenon, <1>4 DEF Unlock, Abstract!Release
  <2> QED
    BY <2>1, LockAssumption DEF Abstract!Next
<1>5. ASSUME NEW t \in Thread, NEW restores \in BOOLEAN, ForceUnlock(t, restores)
      PROVE  Abstract!Next
  <2>1. /\ pc[t] = "out" /\ parked[t] = NoGrants
        /\ grants' = [grants EXCEPT ![t] = NoGrants]
        /\ parked' = [parked EXCEPT ![t] = IF restores THEN grants[t] ELSE NoGrants]
    BY Zenon, <1>0, <1>5 DEF ForceUnlock, DetachedInv, Detached
  <2>2. CASE restores
    BY Zenon, <2>1, <2>2 DEF Abstract!Next, Abstract!Suspend, Abstract!None, NoGrants
  <2>3. CASE ~restores
    <3>1. parked' = parked
      BY <1>0, <2>1, <2>3 DEF TypeOK
    <3> QED
      BY Zenon, <2>1, <3>1 DEF Abstract!Next, Abstract!Forget, Abstract!None, NoGrants
  <2> QED
    BY <2>2, <2>3
<1>6. ASSUME NEW t \in Thread, RestoreLock(t) PROVE Abstract!Next
  <2>1. /\ grants[t] = NoGrants
        /\ saved[t].mode \in {"Shared", "Exclusive"}
        /\ saved[t].mode = "Shared" => parked[t].Exclusive = 0
        /\ grants' = [grants EXCEPT ![t] = parked[t]]
        /\ parked' = [parked EXCEPT ![t] = NoGrants]
    BY <1>0, <1>6 DEF RestoreLock, DetachedInv, Detached, TypeOK, LockMode
  <2>2. ASSUME NEW u \in Thread \ {t}
        PROVE  /\ parked[t].Exclusive > 0 => grants[u] = NoGrants
               /\ grants[u].Exclusive = 0
    <3>1. CASE saved[t].mode = "Exclusive"
      <4>1. mode = "Unlocked"
        BY Zenon, <1>6, <3>1 DEF RestoreLock, RestorableModes
      <4>2. grants[u] = NoGrants
        BY Zenon, <1>0, <4>1 DEF UnlockedInv
      <4> QED
        BY <4>2 DEF NoGrants
    <3>2. CASE saved[t].mode = "Shared"
      <4>1. mode \in {"Unlocked", "Shared"}
        BY Zenon, <1>6, <3>2 DEF RestoreLock, RestorableModes
      <4>2. grants[u] = NoGrants \/ grants[u].Exclusive = 0
        BY Zenon, <1>0, <4>1 DEF UnlockedInv, SharedInv
      <4>3. grants[u].Exclusive = 0
        BY <4>2 DEF NoGrants
      <4> QED
        BY <2>1, <3>2, <4>3
    <3> QED
      BY <2>1, <3>1, <3>2
  <2>3. Abstract!Resume(t)
    BY Zenon, <2>1, <2>2 DEF Abstract!Resume, Abstract!Inside, Abstract!None, NoGrants
  <2> QED
    BY Zenon, <2>3 DEF Abstract!Next
<1>7. CASE Next
  BY Zenon, <1>2, <1>3, <1>4, <1>5, <1>6, <1>7 DEF Next
<1> QED
  BY <1>1, <1>7

\* Kernel/Lock.cpp implements the abstract recursive reader/writer lock.
THEOREM Refinement == Spec => ImplementsRWLock
<1>1. Init => Abstract!Init
  BY Zenon DEF Init, Abstract!Init, Abstract!None, NoGrants
<1>2. IInv /\ [Next]_vars => [Abstract!Next]_(Abstract!vars)
  BY Zenon, StepRefines
<1> QED
  BY <1>1, <1>2, Invariant, PTL DEF Spec, Abstract!Spec, ImplementsRWLock
=============================================================================
