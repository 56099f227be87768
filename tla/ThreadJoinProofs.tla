-------------------------- MODULE ThreadJoinProofs --------------------------
(***************************************************************************)
(* The safety properties of ThreadJoin, for any finite set of threads.     *)
(*                                                                         *)
(* Two facts make them inductive.  A notification that finds the finalizer *)
(* anywhere but asleep leaves m_wake_requested behind until the finalizer  *)
(* waits again (WorkNoted).  A blocker leaves its condition before its     *)
(* thread leaves block(), unless the thread is made Dying in between, and  *)
(* a condition gets a blocker only by losing m_is_joinable (Registered).   *)
(***************************************************************************)
EXTENDS ThreadJoin, TLAPS, FiniteSetTheorems

WorkNoted ==
    has_work => /\ finalizer # "waiting"
                /\ finalizer = "woken" \/ wake_requested

Registered ==
    \A t \in Thread :
        /\ \A j \in blockers[t] :
            joinee[j] = t /\ pc[j] \in {"joining", "unwinding", "Dying", "Dead"}
        /\ \A i, j \in blockers[t] : i = j
        /\ joinable[t] => blockers[t] = {}
        /\ pc[t] \in {"Dying", "Dead"} => should_die[t]

IInv == TypeOK /\ WorkNoted /\ Registered /\ JoinHonest

-----------------------------------------------------------------------------
(* The steps of the threads                                                *)

USE DEF Alive

\* sys$join_thread that finds its thread gone already, and sys$detach_thread.
LEMMA JoinExitedStep ==
    ASSUME IInv, NEW j \in Thread, NEW t \in Thread,
           JoinExited(j, t) \/ Detach(j, t)
    PROVE  IInv'
<1>1. UNCHANGED <<pc, should_die, big_lock, did_exit, blockers, joinee, finalizerVars>>
  BY Zenon DEF JoinExited, Detach
<1>2. joinable' = [joinable EXCEPT ![t] = FALSE]
  BY Zenon DEF JoinExited, Detach, TryJoin
<1>3. TypeOK'
  BY Zenon, <1>1, <1>2 DEF IInv, TypeOK, finalizerVars
<1>4. WorkNoted'
  BY Zenon, <1>1 DEF IInv, WorkNoted, finalizerVars
<1>5. Registered'
  BY <1>1, <1>2 DEF IInv, TypeOK, Registered
<1>6. JoinHonest'
  BY Zenon, <1>1 DEF IInv, JoinHonest
<1> QED
  BY Zenon, <1>3, <1>4, <1>5, <1>6 DEF IInv

\* sys$join_thread blocks: the joinee's condition was empty.
LEMMA JoinBlockStep ==
    ASSUME IInv, NEW j \in Thread, NEW t \in Thread, JoinBlock(j, t)
    PROVE  IInv'
<1> USE DEF JoinBlock, TryJoin, Syscall, Goto
<1>1. TypeOK'
  BY Zenon DEF IInv, TypeOK, finalizerVars
<1>2. WorkNoted'
  BY Zenon DEF IInv, WorkNoted, finalizerVars
<1>3. \A u \in Thread : j \notin blockers[u]
  BY Zenon DEF IInv, Registered
<1>4. blockers[t] = {}
  BY Zenon DEF IInv, Registered
<1>5. Registered'
  BY <1>3, <1>4 DEF IInv, TypeOK, Registered
<1>6. JoinHonest'
  BY Zenon DEF IInv, TypeOK, JoinHonest
<1> QED
  BY Zenon, <1>1, <1>2, <1>5, <1>6 DEF IInv

\* block() returns and ~Blocker unregisters.
LEMMA JoinReturnStep ==
    ASSUME IInv, NEW j \in Thread, JoinReturn(j)
    PROVE  IInv'
<1> USE DEF JoinReturn, Goto
<1>1. TypeOK'
  BY Zenon DEF IInv, TypeOK, finalizerVars
<1>2. WorkNoted'
  BY Zenon DEF IInv, WorkNoted, finalizerVars
<1>3. \A u \in Thread : blockers'[u] \subseteq blockers[u] /\ j \notin blockers'[u]
  BY DEF IInv, TypeOK, Registered
<1>4. Registered'
  BY <1>3 DEF IInv, TypeOK, Registered
<1>5. JoinHonest'
  BY Zenon DEF IInv, TypeOK, JoinHonest
<1> QED
  BY Zenon, <1>1, <1>2, <1>4, <1>5 DEF IInv

\* sys$exit_thread: the joiner that is unblocked joined this very thread.
LEMMA ExitThreadStep ==
    ASSUME IInv, NEW t \in Thread, ExitThread(t)
    PROVE  IInv'
<1> USE DEF ExitThread, Syscall
<1>1. TypeOK'
  BY Zenon DEF IInv, TypeOK, finalizerVars
<1>2. WorkNoted'
  BY Zenon DEF IInv, WorkNoted, finalizerVars
<1>3. \A u \in Thread : t \notin blockers[u]
  BY Zenon DEF IInv, Registered
<1>4. Registered'
  BY <1>3 DEF IInv, TypeOK, Registered
<1>5. JoinHonest'
  BY DEF IInv, TypeOK, Registered, JoinHonest
<1> QED
  BY Zenon, <1>1, <1>2, <1>4, <1>5 DEF IInv

\* sys$exit and execve: whoever is unblocked without its joinee's exit is
\* marked to die.
LEMMA KillThreadsStep ==
    ASSUME IInv, NEW k \in Thread, NEW set \in SUBSET Thread,
           Syscall(k), KillThreads(k, set)
    PROVE  IInv'
<1> USE DEF KillThreads, Syscall
<1>1. TypeOK'
  BY Zenon DEF IInv, TypeOK, finalizerVars
<1>2. WorkNoted'
  BY Zenon DEF IInv, WorkNoted, finalizerVars
<1>3. \A u \in Thread : k \notin blockers[u]
  BY Zenon DEF IInv, Registered
<1>4. Registered'
  BY <1>3 DEF IInv, TypeOK, Registered
<1>5. JoinHonest'
  BY Zenon DEF IInv, TypeOK, JoinHonest
<1> QED
  BY Zenon, <1>1, <1>2, <1>4, <1>5 DEF IInv

\* The killing system call ends.
LEMMA KillDoneStep ==
    ASSUME IInv, NEW k \in Thread, KillDone(k)
    PROVE  IInv'
<1> USE DEF KillDone, Goto, joinVars
<1>1. TypeOK'
  BY Zenon DEF IInv, TypeOK, finalizerVars
<1>2. WorkNoted'
  BY Zenon DEF IInv, WorkNoted, finalizerVars
<1>3. Registered'
  BY DEF IInv, TypeOK, Registered
<1>4. JoinHonest'
  BY Zenon DEF IInv, TypeOK, JoinHonest
<1> QED
  BY Zenon, <1>1, <1>2, <1>3, <1>4 DEF IInv

\* A thread becomes Dying, with its blocker still registered if it has one,
\* and the finalizer is notified: woken if it sleeps, asked to wake if not.
LEMMA DieStep ==
    ASSUME IInv, NEW t \in Thread, Die(t)
    PROVE  IInv'
<1> USE DEF Die, Goto, NotifyFinalizer, joinVars
<1>1. TypeOK'
  BY Zenon DEF IInv, TypeOK
<1>2. WorkNoted'
  BY Zenon DEF IInv, TypeOK, WorkNoted
<1>3. Registered'
  BY DEF IInv, TypeOK, Registered
<1>4. JoinHonest'
  BY Zenon DEF IInv, TypeOK, JoinHonest
<1> QED
  BY Zenon, <1>1, <1>2, <1>3, <1>4 DEF IInv

-----------------------------------------------------------------------------
(* The finalizer                                                           *)

\* Waiting: with work pending m_wake_requested is set, so it does not sleep.
LEMMA FinalizerLoopStep ==
    ASSUME IInv, FinalizerWait \/ FinalizerWoken \/ FinalizerCollect \/ FinalizerDone
    PROVE  IInv'
<1> USE DEF joinVars, FinalizerWait, FinalizerWoken, FinalizerCollect, FinalizerDone
<1>1. TypeOK'
  BY Zenon DEF IInv, TypeOK, Finalizable
<1>2. WorkNoted'
  BY Zenon DEF IInv, TypeOK, WorkNoted
<1>3. Registered'
  BY DEF IInv, Registered
<1>4. JoinHonest'
  BY Zenon DEF IInv, JoinHonest
<1> QED
  BY Zenon, <1>1, <1>2, <1>3, <1>4 DEF IInv

\* The finalizer drops a dying thread that nobody can join.
LEMMA FinalizeStep ==
    ASSUME IInv, NEW t \in Thread, Finalize(t)
    PROVE  IInv'
<1> USE DEF Finalize, Goto, joinVars
<1>1. TypeOK'
  BY Zenon DEF IInv, TypeOK
<1>2. WorkNoted'
  BY Zenon DEF IInv, WorkNoted
<1>3. Registered'
  BY DEF IInv, TypeOK, Registered
<1>4. JoinHonest'
  BY Zenon DEF IInv, TypeOK, JoinHonest
<1> QED
  BY Zenon, <1>1, <1>2, <1>3, <1>4 DEF IInv

-----------------------------------------------------------------------------
(* The theorems                                                            *)

\* The initial state: every thread runs and nobody joins.
LEMMA InitInv == Init => IInv
<1> SUFFICES ASSUME Init PROVE IInv
  BY Zenon
<1>1. TypeOK
  BY Zenon DEF Init, TypeOK
<1>2. WorkNoted /\ JoinHonest
  BY Zenon DEF Init, WorkNoted, JoinHonest
<1>3. Registered
  BY Zenon DEF Init, Registered
<1> QED
  BY Zenon, <1>1, <1>2, <1>3 DEF IInv

\* Every step keeps the invariant.
LEMMA NextInv == IInv /\ [Next]_vars => IInv'
<1> SUFFICES ASSUME IInv, [Next]_vars PROVE IInv'
  BY Zenon
<1>1. CASE UNCHANGED vars
  BY <1>1 DEF vars, joinVars, finalizerVars, IInv, TypeOK, WorkNoted, Registered, JoinHonest
<1>2. ASSUME NEW t \in Thread, NEW u \in Thread,
             JoinExited(t, u) \/ JoinBlock(t, u) \/ Detach(t, u)
      PROVE  IInv'
  BY Zenon, <1>2, JoinExitedStep, JoinBlockStep
<1>3. ASSUME NEW t \in Thread, JoinReturn(t) \/ ExitThread(t) \/ KillDone(t) \/ Die(t)
      PROVE  IInv'
  BY Zenon, <1>3, JoinReturnStep, ExitThreadStep, KillDoneStep, DieStep
<1>4. ASSUME NEW t \in Thread, ExitProcess(t) \/ Exec(t)
      PROVE  IInv'
  BY Zenon, <1>4, KillThreadsStep DEF ExitProcess, Exec
<1>5. CASE FinalizerStep
  BY Zenon, <1>5, FinalizerLoopStep, FinalizeStep DEF FinalizerStep
<1> QED
  BY Zenon, <1>1, <1>2, <1>3, <1>4, <1>5 DEF Next

\* The inductive invariant holds in every reachable state.
THEOREM JoinInvariant == Spec => []IInv
BY InitInv, NextInv, PTL DEF Spec

\* The threads' and the finalizer's state keeps its type, and the finalizer's
\* vector (finalize_dying_threads) holds only Dying threads nobody can join.
THEOREM JoinTypeCorrect == Spec => []TypeOK
<1>1. IInv => TypeOK
  BY Zenon DEF IInv
<1> QED
  BY <1>1, JoinInvariant, PTL

\* FinalizerTask never sleeps with g_finalizer_has_work set, however
\* notify_finalizer interleaves with its loop.
THEOREM FinalizerSeesWork == Spec => []WorkIsSeen
<1>1. IInv => WorkIsSeen
  BY Zenon DEF IInv, WorkNoted, WorkIsSeen
<1> QED
  BY <1>1, JoinInvariant, PTL

\* JoinBlockCondition never refers to the stack of a thread that has left
\* block() alive, nor to two joiners.
THEOREM JoinBlockersLive == Spec => []BlockersAlive
<1>1. IInv => BlockersAlive
  <2> SUFFICES ASSUME IInv, NEW t \in Thread
               PROVE  /\ \A j \in blockers[t] :
                            /\ joinee[j] = t
                            /\ pc[j] \in {"joining", "unwinding"} \/ should_die[j]
                      /\ Cardinality(blockers[t]) <= 1
    BY Zenon DEF BlockersAlive
  <2>1. \A j \in blockers[t] : joinee[j] = t /\ (pc[j] \in {"joining", "unwinding"} \/ should_die[j])
    BY DEF IInv, TypeOK, Registered
  <2>2. blockers[t] = {} \/ \E j \in blockers[t] : blockers[t] = {j}
    BY DEF IInv, Registered
  <2>3. Cardinality(blockers[t]) <= 1
    <3>1. CASE blockers[t] = {}
      BY <3>1, FS_EmptySet
    <3>2. ASSUME NEW j \in blockers[t], blockers[t] = {j}
          PROVE  Cardinality(blockers[t]) = 1
      BY <3>2, FS_Singleton, Zenon
    <3> QED
      BY <2>2, <3>1, <3>2
  <2> QED
    BY Zenon, <2>1, <2>3
<1> QED
  BY <1>1, JoinInvariant, PTL

\* sys$join_thread comes back to a thread that is not being killed only after
\* the thread it joined called thread_did_exit.
THEOREM JoinIsHonest == Spec => []JoinHonest
<1>1. IInv => JoinHonest
  BY Zenon DEF IInv
<1> QED
  BY <1>1, JoinInvariant, PTL
=============================================================================
