---------------------------- MODULE FutexProofs ----------------------------
(***************************************************************************)
(* Proofs about Futex, for any threads, futexes, bitsets and numbers of    *)
(* wakes and requeues, as long as there is memory for another FutexQueue.  *)
(*                                                                         *)
(* TypeOK and EntriesAlive are inductive together, once it is known that   *)
(* only the threads of Waits are ever in do_wait: a queue is free then     *)
(* whenever one is allocated.  Each action is shown to keep them, to lose  *)
(* no waiter and to wake in order (StepOK).                                *)
(***************************************************************************)
EXTENDS Futex, SequenceFacts, FiniteSetTheorems

-----------------------------------------------------------------------------
(* Counting                                                                *)

\* A part of a set of positions has no more of them.
LEMMA FewerPositions ==
    ASSUME NEW n \in Nat, NEW A \in SUBSET (1..n), NEW B \in SUBSET A
    PROVE  Cardinality(B) \in Nat /\ Cardinality(A) \in Nat /\ Cardinality(B) <= Cardinality(A)
<1>1. IsFiniteSet(1..n)
  BY FS_Interval
<1>2. IsFiniteSet(A)
  BY Zenon, <1>1, FS_Subset
<1>3. IsFiniteSet(B) /\ Cardinality(B) <= Cardinality(A)
  BY Zenon, <1>2, FS_Subset
<1> QED
  BY Zenon, <1>2, <1>3, FS_CardinalityType

\* The values f has on A.
Values(f, A) == {f[x] : x \in A}

\* The values of a function are no more than its arguments.
LEMMA FewerValues ==
    ASSUME NEW A, IsFiniteSet(A), NEW f
    PROVE  /\ IsFiniteSet(Values(f, A))
           /\ Cardinality(Values(f, A)) \in Nat /\ Cardinality(A) \in Nat
           /\ Cardinality(Values(f, A)) <= Cardinality(A)
<1> DEFINE V == Values(f, A)
           g == [x \in A |-> f[x]]
<1>1. g \in Surjection(A, V)
  BY Zenon DEF Surjection, Range, Values
<1>2. IsFiniteSet(V) /\ Cardinality(V) <= Cardinality(A)
  BY Zenon, <1>1, FS_Surjection
<1> QED
  BY Zenon, <1>2, FS_CardinalityType

\* Two functions leave a value of a set unused that is larger than both of
\* their domains.
LEMMA UnusedValue ==
    ASSUME NEW A, IsFiniteSet(A), NEW B, IsFiniteSet(B), NEW Q, IsFiniteSet(Q),
           NEW f, NEW g, Cardinality(A) + Cardinality(B) < Cardinality(Q)
    PROVE  \E q \in Q : (\A x \in A : f[x] # q) /\ (\A y \in B : g[y] # q)
<1> DEFINE V == Values(f, A)
           W == Values(g, B)
<1> SUFFICES ASSUME Q \subseteq V \union W PROVE FALSE
  BY Zenon DEF Values
<1>1. /\ IsFiniteSet(V) /\ Cardinality(V) \in Nat
      /\ Cardinality(A) \in Nat /\ Cardinality(V) <= Cardinality(A)
  BY Zenon, FewerValues
<1>2. /\ IsFiniteSet(W) /\ Cardinality(W) \in Nat
      /\ Cardinality(B) \in Nat /\ Cardinality(W) <= Cardinality(B)
  BY Zenon, FewerValues
<1> HIDE DEF V, W
<1>3. /\ IsFiniteSet(V \union W)
      /\ Cardinality(V \union W) = Cardinality(V) + Cardinality(W) - Cardinality(V \intersect W)
  BY Zenon, <1>1, <1>2, FS_Union
<1>4. Cardinality(V \intersect W) \in Nat
  <2>1. IsFiniteSet(V \intersect W)
    BY Zenon, <1>1, FS_Subset
  <2> QED
    BY Zenon, <2>1, FS_CardinalityType
<1>5. Cardinality(Q) <= Cardinality(V \union W) /\ Cardinality(Q) \in Nat
  BY Zenon, <1>3, FS_Subset, FS_CardinalityType
<1> QED
  BY <1>1, <1>2, <1>3, <1>4, <1>5

-----------------------------------------------------------------------------
(* The blockers of a queue                                                 *)

\* What the loop of do_unblock does at the n-th blocker.
KeepStep(s, set, r, n) == IF s[n] \in set THEN r ELSE Append(r, s[n])

\* The sequences of blockers kept after each of the first n rounds.
KeepRuns(s, set, S, n) ==
    {g \in [0..n -> Seq(S)] :
        /\ g[0] = <<>>
        /\ \A m \in 1..n : g[m] = KeepStep(s, set, g[m - 1], m)}

\* The recursion of Without has a solution.
LEMMA KeepRunsExist ==
    ASSUME NEW S, NEW s \in Seq(S), NEW set
    PROVE  \E g \in KeepRuns(s, set, S, Len(s)) : TRUE
<1> DEFINE Bad == {n \in 0..Len(s) : KeepRuns(s, set, S, n) = {}}
<1>1. SUFFICES ASSUME Len(s) \in Bad PROVE FALSE
  BY Len(s) \in Nat
<1>2. PICK n \in Bad : \A m \in Bad : n <= m
  <2>1. Bad \in SUBSET Nat /\ Bad # {}
    BY <1>1
  <2> QED
    BY Zenon, <2>1, LeastExists
<1>3. Len(s) \in Nat /\ n \in 0..Len(s) /\ KeepRuns(s, set, S, n) = {}
  OBVIOUS
<1>4. CASE n = 0
  <2> DEFINE g == [m \in 0..n |-> <<>>]
  <2>1. g \in [0..n -> Seq(S)] /\ g[0] = <<>> /\ 1..n = {}
    BY <1>4
  <2>2. g \in KeepRuns(s, set, S, n)
    BY Zenon, <2>1 DEF KeepRuns
  <2> QED
    BY Zenon, <2>2, <1>3
<1>5. CASE n # 0
  <2>1. n - 1 \in 0..Len(s) /\ n - 1 \notin Bad /\ n \in 1..Len(s) /\ n \in Nat
    BY <1>2, <1>3, <1>5
  <2>2. PICK h \in KeepRuns(s, set, S, n - 1) : TRUE
    BY Zenon, <2>1
  <2>3. /\ h \in [0..n - 1 -> Seq(S)]
        /\ h[0] = <<>>
        /\ \A m \in 1..n - 1 : h[m] = KeepStep(s, set, h[m - 1], m)
    BY Zenon, <2>2 DEF KeepRuns
  <2> DEFINE e == KeepStep(s, set, h[n - 1], n)
             g == [m \in 0..n |-> IF m = n THEN e ELSE h[m]]
  <2>4. e \in Seq(S)
    <3>1. h[n - 1] \in Seq(S) /\ s[n] \in S
      BY <2>1, <2>3
    <3> QED
      BY <3>1 DEF KeepStep
  <2> HIDE DEF e
  <2>5. g \in [0..n -> Seq(S)] /\ g[0] = <<>>
    BY <2>1, <2>3, <2>4
  <2>6. \A m \in 1..n : g[m] = KeepStep(s, set, g[m - 1], m)
    <3> SUFFICES ASSUME NEW m \in 1..n PROVE g[m] = KeepStep(s, set, g[m - 1], m)
      BY Zenon
    <3>1. g[m - 1] = h[m - 1]
      BY <2>1
    <3>2. CASE m = n
      BY <3>1, <3>2, <2>1 DEF e
    <3>3. CASE m # n
      BY <3>1, <3>3, <2>1, <2>3
    <3> QED
      BY Zenon, <3>2, <3>3
  <2>7. g \in KeepRuns(s, set, S, n)
    BY Zenon, <2>5, <2>6 DEF KeepRuns
  <2> QED
    BY Zenon, <2>7, <1>3
<1> QED
  BY Zenon, <1>4, <1>5

\* Without computes what the last round keeps.
LEMMA WithoutIsRun ==
    ASSUME NEW S, NEW s \in Seq(S), NEW set
    PROVE  \E g \in KeepRuns(s, set, S, Len(s)) : Without(s, set) = g[Len(s)]
<1> DEFINE Body(g) == [n \in 0..Len(s) |->
                          IF n = 0 THEN <<>>
                          ELSE IF s[n] \in set THEN g[n - 1] ELSE Append(g[n - 1], s[n])]
           kept == CHOOSE g : g = Body(g)
<1>1. Without(s, set) = kept[Len(s)]
  BY Zenon DEF Without
<1>2. PICK h \in KeepRuns(s, set, S, Len(s)) : TRUE
  BY Zenon, KeepRunsExist
<1>3. /\ h \in [0..Len(s) -> Seq(S)]
      /\ h[0] = <<>>
      /\ \A m \in 1..Len(s) : h[m] = KeepStep(s, set, h[m - 1], m)
  BY Zenon, <1>2 DEF KeepRuns
<1>4. h = Body(h)
  <2>1. ASSUME NEW n \in 0..Len(s)
        PROVE  h[n] = IF n = 0 THEN <<>>
                      ELSE IF s[n] \in set THEN h[n - 1] ELSE Append(h[n - 1], s[n])
    <3>1. n # 0 => n \in 1..Len(s)
      OBVIOUS
    <3>2. n # 0 => h[n] = KeepStep(s, set, h[n - 1], n)
      BY Zenon, <1>3, <3>1
    <3> QED
      BY Zenon, <1>3, <3>2 DEF KeepStep
  <2>2. h = [n \in 0..Len(s) |-> h[n]]
    BY Zenon, <1>3
  <2>3. [n \in 0..Len(s) |-> h[n]] = Body(h)
    BY Zenon, <2>1
  <2> QED
    BY Zenon, <2>2, <2>3
<1> HIDE DEF Body
<1>5. kept = Body(kept)
  BY Zenon, <1>4
<1> HIDE DEF kept
<1>6. \A n \in 0..Len(s) :
        kept[n] = IF n = 0 THEN <<>> ELSE KeepStep(s, set, kept[n - 1], n)
  <2> SUFFICES ASSUME NEW n \in 0..Len(s)
               PROVE  kept[n] = IF n = 0 THEN <<>> ELSE KeepStep(s, set, kept[n - 1], n)
    BY Zenon
  <2>1. kept[n] = Body(kept)[n]
    BY Zenon, <1>5
  <2> QED
    BY Zenon, <2>1 DEF Body, KeepStep
<1>7. DOMAIN kept = 0..Len(s)
  <2>1. DOMAIN Body(kept) = 0..Len(s)
    BY Zenon DEF Body
  <2> QED
    BY Zenon, <1>5, <2>1
<1> DEFINE Bad == {n \in 0..Len(s) : kept[n] # h[n]}
<1>8. Bad = {}
  <2> SUFFICES ASSUME Bad # {} PROVE FALSE
    BY Zenon
  <2>1. PICK n \in Bad : \A m \in Bad : n <= m
    <3>1. Bad \in SUBSET Nat
      OBVIOUS
    <3> QED
      BY Zenon, <3>1, LeastExists
  <2>2. n \in 0..Len(s) /\ kept[n] # h[n]
    BY Zenon
  <2>3. n # 0
    BY Zenon, <1>3, <1>6, <2>2
  <2>4. n - 1 \in 0..Len(s) /\ n \in 1..Len(s) /\ kept[n - 1] = h[n - 1]
    BY <2>1, <2>2, <2>3
  <2> QED
    BY <1>3, <1>6, <2>2, <2>3, <2>4
<1>9. kept[Len(s)] = h[Len(s)]
  BY <1>8, Len(s) \in Nat
<1> QED
  BY Zenon, <1>1, <1>2, <1>9

\* r has those of the first n blockers of s that are not in set, in their
\* order: from gives the position in s of each.
KeptFrom(s, set, r, n, from) ==
    /\ from \in [DOMAIN r -> 1..n]
    /\ \A k \in DOMAIN r : r[k] = s[from[k]] /\ s[from[k]] \notin set
    /\ \A k, m \in DOMAIN r : k < m => from[k] < from[m]
    /\ \A i \in 1..n : s[i] \notin set => \E k \in DOMAIN r : from[k] = i

\* A round of do_unblock.
LEMMA KeepStepFrom ==
    ASSUME NEW S, NEW s \in Seq(S), NEW set, NEW r \in Seq(S), NEW n \in 1..Len(s),
           NEW from, KeptFrom(s, set, r, n - 1, from)
    PROVE  \E to : KeptFrom(s, set, KeepStep(s, set, r, n), n, to)
<1>1. n \in Nat /\ n >= 1 /\ s[n] \in S
  OBVIOUS
<1>2. CASE s[n] \in set
  <2>1. KeepStep(s, set, r, n) = r
    BY Zenon, <1>2 DEF KeepStep
  <2>2. from \in [DOMAIN r -> 1..n]
    BY <1>1 DEF KeptFrom
  <2>3. \A i \in 1..n : s[i] \notin set => \E k \in DOMAIN r : from[k] = i
    BY <1>1, <1>2 DEF KeptFrom
  <2>4. KeptFrom(s, set, r, n, from)
    BY Zenon, <2>2, <2>3 DEF KeptFrom
  <2> QED
    BY Zenon, <2>1, <2>4
<1>3. CASE s[n] \notin set
  <2> DEFINE q == Append(r, s[n])
             l == Len(r) + 1
             to == [k \in 1..l |-> IF k = l THEN n ELSE from[k]]
  <2>1. KeepStep(s, set, r, n) = q
    BY Zenon, <1>3 DEF KeepStep
  <2>2. /\ Len(r) \in Nat /\ DOMAIN r = 1..Len(r)
        /\ DOMAIN q = 1..l /\ q[l] = s[n]
        /\ \A k \in 1..Len(r) : q[k] = r[k]
    BY <1>1
  <2>3. \A k \in 1..Len(r) : from[k] \in 1..n - 1
    BY Zenon, <2>2 DEF KeptFrom
  <2> HIDE DEF q
  <2>4. to \in [DOMAIN q -> 1..n]
    BY <1>1, <2>2, <2>3
  <2>5. \A k \in DOMAIN q : q[k] = s[to[k]] /\ s[to[k]] \notin set
    BY <1>1, <1>3, <2>2, <2>3 DEF KeptFrom
  <2>6. \A k, m \in DOMAIN q : k < m => to[k] < to[m]
    BY <1>1, <2>2, <2>3 DEF KeptFrom
  <2>7. \A i \in 1..n : s[i] \notin set => \E k \in DOMAIN q : to[k] = i
    <3> SUFFICES ASSUME NEW i \in 1..n, s[i] \notin set
                 PROVE  \E k \in DOMAIN q : to[k] = i
      BY Zenon
    <3>1. CASE i = n
      BY <3>1, <2>2
    <3>2. CASE i # n
      <4>1. i \in 1..n - 1
        BY <1>1, <3>2
      <4>2. PICK k \in DOMAIN r : from[k] = i
        BY Zenon, <4>1 DEF KeptFrom
      <4> QED
        BY <4>2, <2>2
    <3> QED
      BY Zenon, <3>1, <3>2
  <2>8. KeptFrom(s, set, q, n, to)
    BY Zenon, <2>4, <2>5, <2>6, <2>7 DEF KeptFrom
  <2> QED
    BY Zenon, <2>1, <2>8
<1> QED
  BY Zenon, <1>2, <1>3

\* do_unblock keeps the blockers it does not unblock, in their order.
LEMMA WithoutKeeps ==
    ASSUME NEW S, NEW s \in Seq(S), NEW set
    PROVE  /\ Without(s, set) \in Seq(S)
           /\ \E from : KeptFrom(s, set, Without(s, set), Len(s), from)
<1>1. PICK g \in KeepRuns(s, set, S, Len(s)) : Without(s, set) = g[Len(s)]
  BY Zenon, WithoutIsRun
<1>2. /\ g \in [0..Len(s) -> Seq(S)]
      /\ g[0] = <<>>
      /\ \A m \in 1..Len(s) : g[m] = KeepStep(s, set, g[m - 1], m)
  BY Zenon, <1>1 DEF KeepRuns
<1> DEFINE Bad == {n \in 0..Len(s) : ~ \E from : KeptFrom(s, set, g[n], n, from)}
<1>3. Bad = {}
  <2> SUFFICES ASSUME Bad # {} PROVE FALSE
    BY Zenon
  <2>1. PICK n \in Bad : \A m \in Bad : n <= m
    <3>1. Bad \in SUBSET Nat
      OBVIOUS
    <3> QED
      BY Zenon, <3>1, LeastExists
  <2>2. n \in 0..Len(s) /\ ~ \E from : KeptFrom(s, set, g[n], n, from)
    BY Zenon
  <2>3. CASE n = 0
    <3>1. DOMAIN g[n] = {} /\ 1..n = {}
      BY <1>2, <2>3
    <3>2. KeptFrom(s, set, g[n], n, [k \in {} |-> k])
      BY Zenon, <3>1 DEF KeptFrom
    <3> QED
      BY Zenon, <2>2, <3>2
  <2>4. CASE n # 0
    <3>1. n - 1 \in 0..Len(s) /\ n \in 1..Len(s) /\ ~ (n <= n - 1)
      BY <2>2, <2>4
    <3>2. PICK from : KeptFrom(s, set, g[n - 1], n - 1, from)
      BY Zenon, <2>1, <3>1
    <3>3. g[n - 1] \in Seq(S) /\ g[n] = KeepStep(s, set, g[n - 1], n)
      BY Zenon, <1>2, <3>1
    <3>4. \E to : KeptFrom(s, set, g[n], n, to)
      BY ZenonT(60), <3>1, <3>2, <3>3, KeepStepFrom
    <3> QED
      BY Zenon, <2>2, <3>4
  <2> QED
    BY Zenon, <2>3, <2>4
<1>4. Len(s) \in 0..Len(s)
  BY Len(s) \in Nat
<1> QED
  BY Zenon, <1>1, <1>2, <1>3, <1>4

\* u comes before v in s.
Before(s, u, v) == \E i, j \in DOMAIN s : i < j /\ s[i] = u /\ s[j] = v

\* What do_unblock leaves: no thread that was not there, none twice, and all
\* that stay in the order they had.
LEMMA WithoutFacts ==
    ASSUME NEW S, NEW s \in Seq(S), Distinct(s), NEW set
    PROVE  /\ Without(s, set) \in Seq(S)
           /\ Distinct(Without(s, set))
           /\ Range(Without(s, set)) = Range(s) \ set
           /\ \A u, v : Before(s, u, v) /\ u \notin set /\ v \notin set
                            => Before(Without(s, set), u, v)
<1> DEFINE r == Without(s, set)
           n == Len(s)
<1>1. r \in Seq(S) /\ n \in Nat /\ DOMAIN s = 1..n
  BY WithoutKeeps
<1>2. PICK from : KeptFrom(s, set, r, n, from)
  BY Zenon, WithoutKeeps
<1>3. DOMAIN r = 1..Len(r) /\ Len(r) \in Nat
  BY <1>1
<1> HIDE DEF r, n
<1>4. /\ from \in [DOMAIN r -> DOMAIN s]
      /\ \A k \in DOMAIN r : r[k] = s[from[k]] /\ s[from[k]] \notin set
      /\ \A k, m \in DOMAIN r : k < m => from[k] < from[m]
      /\ \A i \in DOMAIN s : s[i] \notin set => \E k \in DOMAIN r : from[k] = i
  BY Zenon, <1>1, <1>2 DEF KeptFrom
<1>5. Distinct(r)
  <2> SUFFICES ASSUME NEW k \in DOMAIN r, NEW m \in DOMAIN r, r[k] = r[m] PROVE k = m
    BY Zenon DEF Distinct
  <2>1. from[k] = from[m]
    <3>1. /\ from[k] \in DOMAIN s /\ from[m] \in DOMAIN s
          /\ r[k] = s[from[k]] /\ r[m] = s[from[m]]
      BY Zenon, <1>4
    <3> QED
      BY Zenon, <3>1 DEF Distinct
  <2>2. (k < m => from[k] < from[m]) /\ (m < k => from[m] < from[k])
    BY Zenon, <1>4
  <2>3. from[k] \in 1..n /\ k \in 1..Len(r) /\ m \in 1..Len(r)
    BY Zenon, <1>1, <1>3, <1>4
  <2> QED
    BY <1>1, <1>3, <2>1, <2>2, <2>3
<1>6. Range(r) = Range(s) \ set
  <2>1. ASSUME NEW k \in DOMAIN r PROVE r[k] \in Range(s) \ set
    <3>1. from[k] \in DOMAIN s /\ r[k] = s[from[k]] /\ s[from[k]] \notin set
      BY Zenon, <1>4
    <3> QED
      BY Zenon, <3>1 DEF Range
  <2>2. ASSUME NEW i \in DOMAIN s, s[i] \notin set PROVE s[i] \in Range(r)
    <3>1. PICK k \in DOMAIN r : from[k] = i
      BY Zenon, <1>4, <2>2
    <3> QED
      BY Zenon, <1>4, <3>1 DEF Range
  <2> QED
    BY Zenon, <2>1, <2>2 DEF Range
<1>7. ASSUME NEW u, NEW v, Before(s, u, v), u \notin set, v \notin set
      PROVE  Before(r, u, v)
  <2>1. PICK i \in DOMAIN s, j \in DOMAIN s : i < j /\ s[i] = u /\ s[j] = v
    BY Zenon, <1>7 DEF Before
  <2>2. PICK k \in DOMAIN r : from[k] = i
    BY Zenon, <1>4, <1>7, <2>1
  <2>3. PICK m \in DOMAIN r : from[m] = j
    BY Zenon, <1>4, <1>7, <2>1
  <2>4. k < m
    BY <1>1, <1>3, <1>4, <2>1, <2>2, <2>3
  <2>5. r[k] = u /\ r[m] = v
    BY Zenon, <1>4, <2>1, <2>2, <2>3
  <2> QED
    BY Zenon, <2>4, <2>5 DEF Before
<1> QED
  BY Zenon, <1>1, <1>5, <1>6, <1>7 DEF r

\* remove_blocker takes the one entry of t out.
LEMMA RemovedFacts ==
    ASSUME NEW S, NEW s \in Seq(S), Distinct(s), NEW t
    PROVE  /\ RemoveBlocker(s, t) \in Seq(S)
           /\ Distinct(RemoveBlocker(s, t))
           /\ Range(RemoveBlocker(s, t)) = Range(s) \ {t}
<1>1. CASE t \notin Range(s)
  BY Zenon, <1>1 DEF RemoveBlocker
<1>2. CASE t \in Range(s)
  <2> DEFINE P(i) == s[i] = t /\ \A j \in DOMAIN s : s[j] = t => i <= j
             first == CHOOSE i \in DOMAIN s : P(i)
             r == SubSeq(s, 1, first - 1) \o SubSeq(s, first + 1, Len(s))
  <2>1. PICK at \in DOMAIN s : s[at] = t
    BY Zenon, <1>2 DEF Range
  <2>2. P(at)
    <3> SUFFICES ASSUME NEW j \in DOMAIN s, s[j] = t PROVE at <= j
      BY Zenon, <2>1
    <3>1. at = j
      BY Zenon, <2>1 DEF Distinct
    <3> QED
      BY <3>1
  <2> HIDE DEF P
  <2>3. first \in DOMAIN s /\ P(first)
    BY Zenon, <2>2
  <2>4. RemoveBlocker(s, t) = r
    BY Zenon, <1>2 DEF RemoveBlocker, P
  <2> HIDE DEF first
  <2>5. /\ r \in Seq(S)
        /\ Len(r) = Len(s) - 1
        /\ \A k \in DOMAIN r : r[k] = IF k < first THEN s[k] ELSE s[k + 1]
    BY Zenon, <2>3, WithoutPosition
  <2>6. OneLess(r, s, first)
    BY Zenon, <2>5 DEF OneLess
  <2>7. s[first] = t
    BY Zenon, <2>3 DEF P
  <2> HIDE DEF r
  <2>8. Distinct(r) /\ Range(r) = Range(s) \ {s[first]}
    BY <2>3, <2>5, <2>6, Taken
  <2> QED
    BY Zenon, <2>4, <2>5, <2>7, <2>8
<1> QED
  BY Zenon, <1>1, <1>2

-----------------------------------------------------------------------------
(* Waking                                                                  *)

\* do_unblock unblocks threads of the queue, and with one every thread before
\* it that the bitset does not pass over.
LEMMA UnblockedFacts ==
    ASSUME NEW S, NEW s \in Seq(S), Distinct(s), NEW count \in Nat, NEW mask
    PROVE  /\ Unblocked(s, count, mask) \subseteq Range(s)
           /\ \A v \in Unblocked(s, count, mask) : Matches(v, mask)
           /\ \A u, v : Before(s, u, v) /\ v \in Unblocked(s, count, mask) /\ Matches(u, mask)
                            => u \in Unblocked(s, count, mask)
<1> DEFINE Rank(j) == {k \in 1..j : Matches(s[k], mask)}
           Pos == {j \in DOMAIN s : Matches(s[j], mask) /\ Cardinality(Rank(j)) <= count}
<1>1. Unblocked(s, count, mask) = {s[i] : i \in Pos}
  BY Zenon DEF Unblocked
<1>2. ASSUME NEW i \in DOMAIN s, NEW j \in Pos, i < j, Matches(s[i], mask)
      PROVE  i \in Pos
  <2>1. j \in Nat /\ Rank(j) \in SUBSET (1..j) /\ Rank(i) \in SUBSET Rank(j)
    BY <1>2
  <2> HIDE DEF Rank
  <2>2. /\ Cardinality(Rank(i)) \in Nat /\ Cardinality(Rank(j)) \in Nat
        /\ Cardinality(Rank(i)) <= Cardinality(Rank(j))
    BY Zenon, <2>1, FewerPositions
  <2>3. Cardinality(Rank(j)) <= count
    BY Zenon
  <2>4. Cardinality(Rank(i)) <= count
    BY <2>2, <2>3
  <2> QED
    BY Zenon, <1>2, <2>4
<1> HIDE DEF Rank
<1>3. \A j \in Pos : j \in DOMAIN s /\ Matches(s[j], mask)
  BY Zenon
<1> HIDE DEF Pos
<1>4. Unblocked(s, count, mask) \subseteq Range(s)
  BY Zenon, <1>1, <1>3 DEF Range
<1>5. \A v \in Unblocked(s, count, mask) : Matches(v, mask)
  BY Zenon, <1>1, <1>3
<1>6. ASSUME NEW u, NEW v, Before(s, u, v), v \in Unblocked(s, count, mask), Matches(u, mask)
      PROVE  u \in Unblocked(s, count, mask)
  <2>1. PICK i \in DOMAIN s, j \in DOMAIN s : i < j /\ s[i] = u /\ s[j] = v
    BY Zenon, <1>6 DEF Before
  <2>2. PICK m \in Pos : s[m] = v
    BY Zenon, <1>1, <1>6
  <2>3. m = j
    BY Zenon, <1>3, <2>1, <2>2 DEF Distinct
  <2>4. i \in Pos
    BY Zenon, <1>2, <1>6, <2>1, <2>2, <2>3
  <2> QED
    BY Zenon, <1>1, <2>1, <2>4
<1> QED
  BY Zenon, <1>4, <1>5, <1>6

\* The queues new are the queues old after a wake with mask that woke threads
\* of woken: a thread leaves its queue only if it is woken, those that stay
\* keep their order, and nobody leaves before a thread that it comes after
\* unless the bitset passes that thread over.
Wakes(old, new, woken, mask) ==
    /\ new \in [Queue -> Seq(Thread)]
    /\ \A q \in Queue :
        /\ Distinct(new[q])
        /\ Range(new[q]) \subseteq Range(old[q])
        /\ \A v \in Range(old[q]) \ Range(new[q]) : v \in woken /\ Matches(v, mask)
        /\ \A u, v : Before(old[q], u, v) /\ u \in Range(new[q]) =>
            IF v \in Range(new[q]) THEN Before(new[q], u, v) ELSE ~ Matches(u, mask)

\* The second thread of a pair is in the sequence.
LEMMA BeforeInRange ==
    ASSUME NEW s, NEW u, NEW v, Before(s, u, v)
    PROVE  u \in Range(s) /\ v \in Range(s)
BY Zenon DEF Before, Range

\* The queues of different threads that a wake starts from.
QueuesOK(b) == b \in [Queue -> Seq(Thread)] /\ \A q \in Queue : Distinct(b[q])

\* Nothing is a wake.
LEMMA NoWake ==
    ASSUME NEW b, QueuesOK(b), NEW woken, NEW mask
    PROVE  Wakes(b, b, woken, mask)
<1>1. \A q \in Queue : \A u, v : Before(b[q], u, v) => v \in Range(b[q])
  BY Zenon, BeforeInRange
<1> QED
  BY Zenon, <1>1 DEF Wakes, QueuesOK

\* do_unblock on one queue is a wake.
LEMMA QueueWakes ==
    ASSUME NEW b, QueuesOK(b), NEW p \in Queue, NEW count \in Nat, NEW mask, NEW woken,
           Unblocked(b[p], count, mask) \subseteq woken
    PROVE  Wakes(b, [b EXCEPT ![p] = Without(@, Unblocked(b[p], count, mask))], woken, mask)
<1> DEFINE s == b[p]
           U == Unblocked(s, count, mask)
           r == Without(s, U)
           new == [b EXCEPT ![p] = r]
<1>1. s \in Seq(Thread) /\ Distinct(s) /\ DOMAIN b = Queue
  BY Zenon DEF QueuesOK
<1>2. /\ U \subseteq Range(s)
      /\ \A v \in U : Matches(v, mask)
      /\ \A u, v : Before(s, u, v) /\ v \in U /\ Matches(u, mask) => u \in U
  BY Zenon, <1>1, UnblockedFacts
<1>3. /\ r \in Seq(Thread) /\ Distinct(r) /\ Range(r) = Range(s) \ U
      /\ \A u, v : Before(s, u, v) /\ u \notin U /\ v \notin U => Before(r, u, v)
  BY Zenon, <1>1, WithoutFacts
<1>4. U \subseteq woken
  BY Zenon
<1> HIDE DEF U, r
<1>5. new \in [Queue -> Seq(Thread)] /\ new[p] = r /\ \A q \in Queue \ {p} : new[q] = b[q]
  BY Zenon, <1>1, <1>3 DEF QueuesOK
<1> HIDE DEF new
<1> DEFINE Good(q) ==
        /\ Distinct(new[q])
        /\ Range(new[q]) \subseteq Range(b[q])
        /\ \A v \in Range(b[q]) \ Range(new[q]) : v \in woken /\ Matches(v, mask)
        /\ \A u, v : Before(b[q], u, v) /\ u \in Range(new[q]) =>
            IF v \in Range(new[q]) THEN Before(new[q], u, v) ELSE ~ Matches(u, mask)
<1>6. Good(p)
  <2>1. Distinct(r) /\ Range(r) \subseteq Range(s)
    BY Zenon, <1>3
  <2>2. \A v \in Range(s) \ Range(r) : v \in woken /\ Matches(v, mask)
    BY Zenon, <1>2, <1>3, <1>4
  <2>3. \A u, v : Before(s, u, v) /\ u \in Range(r) =>
            IF v \in Range(r) THEN Before(r, u, v) ELSE ~ Matches(u, mask)
    BY Zenon, <1>2, <1>3, BeforeInRange
  <2> QED
    BY Zenon, <1>5, <2>1, <2>2, <2>3
<1>7. ASSUME NEW q \in Queue, q # p PROVE Good(q)
  <2>1. Wakes(b, b, woken, mask)
    BY Zenon, NoWake
  <2>2. new[q] = b[q]
    BY Zenon, <1>5, <1>7
  <2> QED
    BY Zenon, <2>1, <2>2 DEF Wakes
<1>8. \A q \in Queue : Good(q)
  BY Zenon, <1>6, <1>7
<1>9. Wakes(b, new, woken, mask)
  BY Zenon, <1>5, <1>8 DEF Wakes
<1> QED
  BY Zenon, <1>9 DEF new, r, U

\* Two wakes without a bitset are one.
LEMMA WakesCompose ==
    ASSUME NEW a, NEW b, NEW c, NEW W1, NEW W2, W1 \subseteq W2,
           Wakes(a, b, W1, {}), Wakes(b, c, W2, {})
    PROVE  Wakes(a, c, W2, {})
<1>1. \A u : Matches(u, {})
  BY Zenon DEF Matches
<1>2. c \in [Queue -> Seq(Thread)]
  BY Zenon DEF Wakes
<1>3. ASSUME NEW q \in Queue
      PROVE  /\ Distinct(c[q])
             /\ Range(c[q]) \subseteq Range(a[q])
             /\ \A v \in Range(a[q]) \ Range(c[q]) : v \in W2 /\ Matches(v, {})
             /\ \A u, v : Before(a[q], u, v) /\ u \in Range(c[q]) =>
                 IF v \in Range(c[q]) THEN Before(c[q], u, v) ELSE ~ Matches(u, {})
  <2>1. /\ Range(b[q]) \subseteq Range(a[q])
        /\ \A v \in Range(a[q]) \ Range(b[q]) : v \in W1
        /\ \A u, v : Before(a[q], u, v) /\ u \in Range(b[q]) =>
              v \in Range(b[q]) /\ Before(b[q], u, v)
    BY Zenon, <1>1 DEF Wakes
  <2>2. /\ Distinct(c[q])
        /\ Range(c[q]) \subseteq Range(b[q])
        /\ \A v \in Range(b[q]) \ Range(c[q]) : v \in W2
        /\ \A u, v : Before(b[q], u, v) /\ u \in Range(c[q]) =>
              v \in Range(c[q]) /\ Before(c[q], u, v)
    BY Zenon, <1>1 DEF Wakes
  <2> QED
    BY Zenon, <1>1, <2>1, <2>2
<1> QED
  BY Zenon, <1>2, <1>3 DEF Wakes

\* The map of futexes to queues.
Maps == [Futex -> Queue \union {None}]

\* st is a record of typed fields that a wake of the queues b led to, after
\* the threads of W had been woken.
WakeResult(st, b, W, mask) ==
    /\ st = [queues |-> st.queues, blockers |-> st.blockers, woken |-> st.woken]
    /\ st.queues \in Maps
    /\ QueuesOK(st.blockers)
    /\ W \subseteq st.woken
    /\ Wakes(b, st.blockers, st.woken, mask)

\* do_wake takes a record of typed fields to another and is a wake.
LEMMA DoWakeWakes ==
    ASSUME NEW map \in Maps, NEW b, QueuesOK(b), NEW W,
           NEW f \in Futex, NEW count \in Nat, NEW mask
    PROVE  WakeResult(DoWake([queues |-> map, blockers |-> b, woken |-> W], f, count, mask),
                      b, W, mask)
<1> DEFINE st == [queues |-> map, blockers |-> b, woken |-> W]
           st2 == DoWake(st, f, count, mask)
           q == map[f]
           U == Unblocked(b[q], count, mask)
           r == Without(b[q], U)
           map2 == IF r = <<>> THEN Remove(map, f) ELSE map
           b2 == [b EXCEPT ![q] = r]
           W2 == W \union U
<1>1. st.queues = map /\ st.blockers = b /\ st.woken = W
  BY Zenon
<1>2. CASE count = 0 \/ q = None
  <2>1. st2 = st
    BY Zenon, <1>1, <1>2 DEF DoWake
  <2>2. Wakes(b, b, W, mask)
    BY Zenon, NoWake
  <2> HIDE DEF st2
  <2>3. st2.queues = map /\ st2.blockers = b /\ st2.woken = W
    BY Zenon, <2>1
  <2> QED
    BY Zenon, <2>1, <2>2, <2>3 DEF st2, WakeResult
<1>3. CASE ~ (count = 0 \/ q = None)
  <2>1. st2 = [queues |-> map2, blockers |-> b2, woken |-> W2]
    BY Zenon, <1>1, <1>3 DEF DoWake
  <2>2. map2 \in Maps
    BY Zenon DEF Remove, Maps
  <2>3. q \in Queue
    BY Zenon, <1>3 DEF Maps
  <2>4. Wakes(b, b2, W2, mask)
    BY Zenon, <2>3, QueueWakes
  <2>5. QueuesOK(b2)
    BY Zenon, <2>4 DEF Wakes, QueuesOK
  <2> HIDE DEF st2, map2, b2, W2
  <2>6. st2.queues = map2 /\ st2.blockers = b2 /\ st2.woken = W2
    BY Zenon, <2>1
  <2>7. W \subseteq W2
    BY Zenon DEF W2
  <2> QED
    BY Zenon, <2>1, <2>2, <2>4, <2>5, <2>6, <2>7 DEF st2, WakeResult
<1> QED
  BY Zenon, <1>2, <1>3

-----------------------------------------------------------------------------
(* Requeueing                                                              *)

\* Every other element of a sequence of different threads.
LEMMA EveryOtherFacts ==
    ASSUME NEW S, NEW s \in Seq(S), Distinct(s), NEW n \in Nat, 2 * n - 1 <= Len(s)
    PROVE  /\ EveryOther(s, n) \in Seq(S)
           /\ Len(EveryOther(s, n)) = n
           /\ Distinct(EveryOther(s, n))
           /\ \A v \in Range(EveryOther(s, n)) : \E i \in DOMAIN s : i <= 2 * n - 1 /\ s[i] = v
<1> DEFINE r == [i \in 1..n |-> s[2 * i - 1]]
<1>1. EveryOther(s, n) = r
  BY Zenon DEF EveryOther
<1>2. Len(s) \in Nat /\ DOMAIN s = 1..Len(s)
  OBVIOUS
<1>3. ASSUME NEW i \in 1..n
      PROVE  2 * i - 1 \in DOMAIN s /\ 2 * i - 1 <= 2 * n - 1 /\ s[2 * i - 1] \in S
  BY <1>2
<1>4. r \in Seq(S) /\ Len(r) = n /\ DOMAIN r = 1..n
  <2>1. r \in [1..n -> S]
    BY Zenon, <1>3
  <2> HIDE DEF r
  <2> QED
    BY <2>1
<1>5. Distinct(r)
  <2> SUFFICES ASSUME NEW i \in 1..n, NEW j \in 1..n, r[i] = r[j] PROVE i = j
    BY Zenon, <1>4 DEF Distinct
  <2>1. 2 * i - 1 = 2 * j - 1
    BY Zenon, <1>3 DEF Distinct
  <2> QED
    BY <2>1
<1>6. ASSUME NEW v \in Range(r) PROVE \E i \in DOMAIN s : i <= 2 * n - 1 /\ s[i] = v
  <2>1. PICK k \in 1..n : v = r[k]
    BY Zenon, <1>4, <1>6 DEF Range
  <2> QED
    BY Zenon, <1>3, <2>1
<1> HIDE DEF r
<1> QED
  BY Zenon, <1>1, <1>4, <1>5, <1>6

\* do_take_blockers takes threads of the queue, and none that it leaves.
LEMMA TakeFacts ==
    ASSUME NEW S, NEW s \in Seq(S), Distinct(s), NEW n \in Nat, MayTake(s, n)
    PROVE  /\ DoTake(s, n) \in Seq(S) /\ Left(s, n) \in Seq(S)
           /\ Distinct(DoTake(s, n)) /\ Distinct(Left(s, n))
           /\ Range(DoTake(s, n)) \subseteq Range(s)
           /\ Range(Left(s, n)) \subseteq Range(s) \ Range(DoTake(s, n))
           /\ n = 0 => DoTake(s, n) = <<>>
<1>1. Len(s) \in Nat /\ DOMAIN s = 1..Len(s)
  OBVIOUS
<1>2. CASE Len(s) <= n
  <2>1. DoTake(s, n) = s /\ Left(s, n) = <<>>
    BY Zenon, <1>2 DEF DoTake, Left
  <2>2. <<>> \in Seq(S) /\ Distinct(<<>>) /\ Range(<<>>) = {}
    BY DEF Distinct, Range
  <2>3. n = 0 => s = <<>>
    BY <1>1, <1>2
  <2> QED
    BY Zenon, <2>1, <2>2, <2>3
<1>3. CASE ~ (Len(s) <= n)
  <2> DEFINE e == EveryOther(s, n)
             l == SubSeq(s, 2 * n + 1, Len(s))
  <2>1. DoTake(s, n) = e /\ Left(s, n) = l
    BY Zenon, <1>3 DEF DoTake, Left
  <2>2. 2 * n <= Len(s) /\ 2 * n - 1 <= Len(s)
    BY <1>1, <1>3 DEF MayTake
  <2>3. /\ e \in Seq(S) /\ Len(e) = n /\ Distinct(e)
        /\ \A v \in Range(e) : \E i \in DOMAIN s : i <= 2 * n - 1 /\ s[i] = v
    BY Zenon, <2>2, EveryOtherFacts
  <2>4. /\ l \in Seq(S) /\ DOMAIN l = 1..Len(s) - 2 * n
        /\ \A k \in 1..Len(s) - 2 * n : l[k] = s[2 * n + k] /\ 2 * n + k \in DOMAIN s
    BY <1>1, <2>2
  <2> HIDE DEF e, l
  <2>5. Distinct(l)
    <3> SUFFICES ASSUME NEW i \in DOMAIN l, NEW j \in DOMAIN l, l[i] = l[j] PROVE i = j
      BY Zenon DEF Distinct
    <3>1. 2 * n + i = 2 * n + j
      BY Zenon, <2>4 DEF Distinct
    <3> QED
      BY <2>4, <3>1
  <2>6. Range(e) \subseteq Range(s)
    BY Zenon, <2>3 DEF Range
  <2>7. ASSUME NEW v \in Range(l) PROVE v \in Range(s) \ Range(e)
    <3>1. PICK k \in 1..Len(s) - 2 * n : v = l[k]
      BY Zenon, <2>4, <2>7 DEF Range
    <3>2. v = s[2 * n + k] /\ 2 * n + k \in DOMAIN s
      BY Zenon, <2>4, <3>1
    <3>3. v \in Range(s)
      BY Zenon, <3>2 DEF Range
    <3>4. ASSUME v \in Range(e) PROVE FALSE
      <4>1. PICK i \in DOMAIN s : i <= 2 * n - 1 /\ s[i] = v
        BY Zenon, <2>3, <3>4
      <4>2. i = 2 * n + k
        BY Zenon, <3>2, <4>1 DEF Distinct
      <4> QED
        BY <4>1, <4>2
    <3> QED
      BY Zenon, <3>3, <3>4
  <2>8. n = 0 => e = <<>>
    BY <2>3
  <2> QED
    BY Zenon, <2>1, <2>3, <2>4, <2>5, <2>6, <2>7, <2>8
<1> QED
  BY Zenon, <1>2, <1>3

\* do_append_blockers adds only threads that it was given, after the others.
LEMMA AppendFacts ==
    ASSUME NEW S, NEW s \in Seq(S), Distinct(s), NEW new \in Seq(S), Distinct(new),
           Range(s) \intersect Range(new) = {}
    PROVE  /\ DoAppend(s, new) \in Seq(S)
           /\ Distinct(DoAppend(s, new))
           /\ Range(s) \subseteq Range(DoAppend(s, new))
           /\ Range(DoAppend(s, new)) \subseteq Range(s) \union Range(new)
<1>1. CASE s = <<>>
  <2>1. DoAppend(s, new) = new
    BY Zenon, <1>1 DEF DoAppend
  <2>2. Range(s) = {}
    BY <1>1 DEF Range
  <2> QED
    BY Zenon, <2>1, <2>2
<1>2. CASE s # <<>>
  <2> DEFINE n == (Len(new) + 1) \div 2
             e == EveryOther(new, n)
             r == s \o e
  <2>1. DoAppend(s, new) = r
    BY Zenon, <1>2 DEF DoAppend
  <2>2. n \in Nat /\ 2 * n - 1 <= Len(new)
    OBVIOUS
  <2> HIDE DEF n
  <2>3. /\ e \in Seq(S) /\ Len(e) = n /\ Distinct(e)
        /\ \A v \in Range(e) : \E i \in DOMAIN new : i <= 2 * n - 1 /\ new[i] = v
    BY Zenon, <2>2, EveryOtherFacts
  <2>4. Range(e) \subseteq Range(new)
    BY Zenon, <2>3 DEF Range
  <2> HIDE DEF e
  <2>5. /\ r \in Seq(S) /\ Len(s) \in Nat /\ DOMAIN s = 1..Len(s)
        /\ Len(e) \in Nat /\ DOMAIN e = 1..Len(e)
        /\ DOMAIN r = 1..Len(s) + Len(e)
        /\ \A k \in DOMAIN s : k \in DOMAIN r /\ r[k] = s[k]
        /\ \A k \in DOMAIN r \ DOMAIN s : k - Len(s) \in DOMAIN e /\ r[k] = e[k - Len(s)]
    BY SMTT(30), <2>3
  <2> HIDE DEF r
  <2>6. Range(s) \subseteq Range(r)
    BY Zenon, <2>5 DEF Range
  <2>7. Range(r) \subseteq Range(s) \union Range(e)
    <3> SUFFICES ASSUME NEW k \in DOMAIN r PROVE r[k] \in Range(s) \union Range(e)
      BY Zenon DEF Range
    <3>1. CASE k \in DOMAIN s
      BY Zenon, <2>5, <3>1 DEF Range
    <3>2. CASE k \notin DOMAIN s
      BY Zenon, <2>5, <3>2 DEF Range
    <3> QED
      BY Zenon, <3>1, <3>2
  <2>8. Distinct(r)
    <3> SUFFICES ASSUME NEW i \in DOMAIN r, NEW j \in DOMAIN r, r[i] = r[j] PROVE i = j
      BY Zenon DEF Distinct
    <3>1. i \in DOMAIN s /\ j \in DOMAIN s => i = j
      BY Zenon, <2>5 DEF Distinct
    <3>2. ASSUME i \notin DOMAIN s, j \notin DOMAIN s PROVE i = j
      <4>1. /\ i - Len(s) \in DOMAIN e /\ r[i] = e[i - Len(s)]
            /\ j - Len(s) \in DOMAIN e /\ r[j] = e[j - Len(s)]
        BY Zenon, <2>5, <3>2
      <4>2. i - Len(s) = j - Len(s)
        BY Zenon, <2>3, <4>1 DEF Distinct
      <4> QED
        BY <2>5, <4>2
    <3>3. ASSUME NEW k \in DOMAIN s, NEW m \in DOMAIN r \ DOMAIN s PROVE r[k] # r[m]
      <4>1. r[k] \in Range(s) /\ r[m] \in Range(e)
        BY Zenon, <2>5 DEF Range
      <4> QED
        BY Zenon, <2>4, <4>1
    <3> QED
      BY Zenon, <3>1, <3>2, <3>3
  <2> QED
    BY Zenon, <2>1, <2>4, <2>5, <2>6, <2>7, <2>8
<1> QED
  BY Zenon, <1>1, <1>2

-----------------------------------------------------------------------------
(* The invariant                                                           *)

\* What every step keeps: besides what the runs check, only the threads of
\* Waits are ever in do_wait.
FutexInv == TypeOK /\ EntriesAlive /\ \A t \in Thread \ Waits : pc[t] = "user"

\* What EntriesAlive says of a queue, and what follows of two of them.
LEMMA AliveFacts ==
    ASSUME FutexInv
    PROVE  /\ QueuesOK(blockers)
           /\ \A q \in Queue : \A v \in Range(blockers[q]) :
                v \in Thread /\ pc[v] \in {"blocked", "woken"} /\ condition[v] = q
<1>1. blockers \in [Queue -> Seq(Thread)]
  BY Zenon DEF FutexInv, TypeOK
<1>2. \A q \in Queue : \A i \in DOMAIN blockers[q] : blockers[q][i] \in Thread
  BY <1>1
<1>3. \A q \in Queue : Distinct(blockers[q])
  BY Zenon DEF FutexInv, EntriesAlive, IsInjective, Distinct
<1>4. ASSUME NEW q \in Queue, NEW v \in Range(blockers[q])
      PROVE  v \in Thread /\ pc[v] \in {"blocked", "woken"} /\ condition[v] = q
  <2>1. PICK i \in DOMAIN blockers[q] : v = blockers[q][i]
    BY Zenon DEF Range
  <2>2. EntriesAlive
    BY Zenon DEF FutexInv
  <2> QED
    BY Zenon, <1>2, <2>1, <2>2 DEF EntriesAlive
<1> QED
  BY Zenon, <1>1, <1>3, <1>4 DEF QueuesOK

\* EntriesAlive of the queues b, from what it says of the threads in them.
LEMMA AliveFromRange ==
    ASSUME NEW q \in Queue, Distinct(blockers'[q]),
           \A v \in Range(blockers'[q]) : pc'[v] \in {"blocked", "woken"} /\ condition'[v] = q
    PROVE  /\ \A i \in DOMAIN blockers'[q] :
                /\ pc'[blockers'[q][i]] \in {"blocked", "woken"}
                /\ condition'[blockers'[q][i]] = q
           /\ IsInjective(blockers'[q])
<1>1. \A i \in DOMAIN blockers'[q] : blockers'[q][i] \in Range(blockers'[q])
  BY Zenon DEF Range
<1>2. IsInjective(blockers'[q])
  BY Zenon DEF IsInjective, Distinct
<1> QED
  BY Zenon, <1>1, <1>2

\* A queue can always be allocated, so that FindQueue finds one.
LEMMA QueueFound ==
    ASSUME FutexInv, NEW f \in Futex
    PROVE  FindQueue(f) \in Queue
<1>1. /\ queues \in Maps /\ ref \in [Thread -> Queue \union {None}]
      /\ \A t \in Thread : ref[t] = None <=> pc[t] = "user"
      /\ \A t \in Thread \ Waits : pc[t] = "user"
  BY Zenon DEF FutexInv, TypeOK, Maps
<1>2. CASE queues[f] # None
  BY Zenon, <1>1, <1>2 DEF FindQueue, Maps
<1>3. CASE queues[f] = None
  <2> DEFINE A == Futex \ {f}
  <2>1. /\ IsFiniteSet(A) /\ IsFiniteSet(Waits) /\ IsFiniteSet(Queue)
        /\ Cardinality(A) + Cardinality(Waits) < Cardinality(Queue)
    <3>1. /\ IsFiniteSet(Waits) /\ IsFiniteSet(Futex) /\ IsFiniteSet(Queue)
          /\ Cardinality(Queue) >= Cardinality(Waits) + Cardinality(Futex)
      BY Zenon, FutexAssumption
    <3>2. IsFiniteSet(A) /\ Cardinality(A) = Cardinality(Futex) - 1
      BY Zenon, <3>1, FS_RemoveElement
    <3>3. Cardinality(Waits) \in Nat /\ Cardinality(Futex) \in Nat /\ Cardinality(Queue) \in Nat
      BY Zenon, <3>1, FS_CardinalityType
    <3> HIDE DEF A
    <3> QED
      BY <3>1, <3>2, <3>3
  <2>2. PICK q \in Queue : (\A x \in A : queues[x] # q) /\ (\A y \in Waits : ref[y] # q)
    <3> HIDE DEF A
    <3> QED
      BY <2>1, UnusedValue
  <2>3. q # None /\ None \notin Queue
    BY Zenon, FutexAssumption
  <2>4. q \notin Range(queues)
    BY Zenon, <1>1, <1>3, <2>2, <2>3 DEF Range, Maps
  <2>5. \A t \in Thread : ref[t] # q
    BY Zenon, <1>1, <2>2, <2>3
  <2>6. Free(q)
    BY Zenon, <2>4, <2>5 DEF Free, Referenced
  <2> QED
    BY Zenon, <1>3, <2>6 DEF FindQueue
<1> QED
  BY Zenon, <1>2, <1>3

-----------------------------------------------------------------------------
(* The steps                                                               *)

\* The steps StaysRegistered and WakesInOrder allow.
RegisteredStep ==
    \A t \in Thread :
        /\ pc'[t] = "blocked"
        /\ pc[t] = "blocked" => Registered(t)
        => Registered(t)' \/ Moves
OrderStep ==
    \A q \in Queue : \A j \in DOMAIN blockers[q] : \A i \in 1..(j - 1) :
        LET u == blockers[q][i]
            v == blockers[q][j]
        IN  /\ pc[u] = "blocked" /\ pc[v] = "blocked"
            /\ u \in Range(blockers'[q])
            /\ v \notin Range(blockers'[q]) /\ pc'[v] = "woken"
            => bits[v] \ bits[u] # {}

\* A step that keeps the invariant and that both properties allow.
StepOK == FutexInv' /\ RegisteredStep /\ OrderStep

\* A thread only leaves the queue it is in after those before it.
LEMMA OrderFromBefore ==
    ASSUME FutexInv,
           \A q \in Queue : \A u, v \in Thread :
              /\ Before(blockers[q], u, v)
              /\ pc[u] = "blocked" /\ pc[v] = "blocked"
              /\ u \in Range(blockers'[q])
              /\ v \notin Range(blockers'[q]) /\ pc'[v] = "woken"
              => bits[v] \ bits[u] # {}
    PROVE  OrderStep
<1> SUFFICES ASSUME NEW q \in Queue, NEW j \in DOMAIN blockers[q], NEW i \in 1..(j - 1)
             PROVE  /\ blockers[q][i] \in Thread /\ blockers[q][j] \in Thread
                    /\ Before(blockers[q], blockers[q][i], blockers[q][j])
  BY Zenon DEF OrderStep
<1>1. blockers[q] \in Seq(Thread)
  BY Zenon DEF FutexInv, TypeOK
<1>2. i \in DOMAIN blockers[q] /\ i < j
  BY <1>1
<1>3. blockers[q][i] \in Thread /\ blockers[q][j] \in Thread
  BY <1>1, <1>2
<1> QED
  BY Zenon, <1>2, <1>3 DEF Before

Labels == {"user", "found", "blocked", "woken", "returned"}

\* Unblocking the threads of a set.
LEMMA AwakeFacts ==
    ASSUME pc \in [Thread -> Labels], NEW set
    PROVE  /\ Awake(set) \in [Thread -> Labels]
           /\ \A t \in Thread :
                /\ Awake(set)[t] = "user" <=> pc[t] = "user"
                /\ Awake(set)[t] \in {"blocked", "woken"} <=> pc[t] \in {"blocked", "woken"}
                /\ Awake(set)[t] = "blocked" => pc[t] = "blocked" /\ t \notin set
                /\ pc[t] = "blocked" /\ Awake(set)[t] = "woken" => t \in set
BY Zenon DEF Awake, Labels

\* Unblocking leaves the types, given those of the queues.
LEMMA AwakeTypes ==
    ASSUME FutexInv, NEW set, queues' \in Maps, QueuesOK(blockers'),
           pc' = Awake(set), UNCHANGED <<waitVars, condition, is_private>>
    PROVE  TypeOK' /\ \A t \in Thread \ Waits : pc'[t] = "user"
<1>1. /\ pc \in [Thread -> Labels]
      /\ futex \in [Thread -> Futex \union {None}]
      /\ bits \in [Thread -> SUBSET Bits]
      /\ ref \in [Thread -> Queue \union {None}]
      /\ condition \in [Thread -> Queue \union {None}]
      /\ is_private \in Privacies
      /\ \A t \in Thread :
          /\ ref[t] = None <=> pc[t] = "user"
          /\ condition[t] = None <=> pc[t] \notin {"blocked", "woken"}
      /\ \A t \in Thread \ Waits : pc[t] = "user"
  BY Zenon DEF FutexInv, TypeOK, Labels
<1>2. /\ futex' = futex /\ bits' = bits /\ ref' = ref
      /\ condition' = condition /\ is_private' = is_private
  BY Zenon DEF waitVars
<1>3. /\ pc' \in [Thread -> Labels]
      /\ \A t \in Thread :
          /\ pc'[t] = "user" <=> pc[t] = "user"
          /\ pc'[t] \in {"blocked", "woken"} <=> pc[t] \in {"blocked", "woken"}
  BY Zenon, <1>1, AwakeFacts
<1>4. \A t \in Thread :
          /\ ref'[t] = None <=> pc'[t] = "user"
          /\ condition'[t] = None <=> pc'[t] \notin {"blocked", "woken"}
  BY Zenon, <1>1, <1>2, <1>3
<1>5. TypeOK'
  BY Zenon, <1>1, <1>2, <1>3, <1>4 DEF TypeOK, QueuesOK, Maps, Labels
<1> QED
  BY Zenon, <1>1, <1>3, <1>5

\* A wake loses no waiter, leaves no dead entry and keeps the order.
LEMMA WakeKeeps ==
    ASSUME FutexInv, NEW woken, NEW mask, queues' \in Maps,
           Wakes(blockers, blockers', woken, mask), pc' = Awake(woken),
           UNCHANGED <<waitVars, condition, is_private>>
    PROVE  StepOK
<1>1. QueuesOK(blockers')
  BY Zenon DEF Wakes, QueuesOK
<1>2. TypeOK' /\ \A t \in Thread \ Waits : pc'[t] = "user"
  BY Zenon, <1>1, AwakeTypes
<1>3. pc \in [Thread -> Labels]
  BY Zenon DEF FutexInv, TypeOK, Labels
<1>4. \A t \in Thread :
          /\ pc'[t] \in {"blocked", "woken"} <=> pc[t] \in {"blocked", "woken"}
          /\ pc'[t] = "blocked" => pc[t] = "blocked" /\ t \notin woken
          /\ pc[t] = "blocked" /\ pc'[t] = "woken" => t \in woken
  BY Zenon, <1>3, AwakeFacts
<1>5. condition' = condition /\ condition \in [Thread -> Queue \union {None}]
  BY Zenon DEF FutexInv, TypeOK
<1>6. \A q \in Queue : \A v \in Range(blockers[q]) :
          v \in Thread /\ pc[v] \in {"blocked", "woken"} /\ condition[v] = q
  BY Zenon, AliveFacts
<1>7. EntriesAlive'
  <2> SUFFICES ASSUME NEW q \in Queue
               PROVE  /\ \A i \in DOMAIN blockers'[q] :
                            /\ pc'[blockers'[q][i]] \in {"blocked", "woken"}
                            /\ condition'[blockers'[q][i]] = q
                      /\ IsInjective(blockers'[q])
    BY Zenon DEF EntriesAlive
  <2>1. Distinct(blockers'[q]) /\ Range(blockers'[q]) \subseteq Range(blockers[q])
    BY Zenon DEF Wakes
  <2>2. \A v \in Range(blockers'[q]) : pc'[v] \in {"blocked", "woken"} /\ condition'[v] = q
    BY Zenon, <1>4, <1>5, <1>6, <2>1
  <2> QED
    BY Zenon, <2>1, <2>2, AliveFromRange
<1>8. RegisteredStep
  <2> SUFFICES ASSUME NEW t \in Thread, pc'[t] = "blocked", pc[t] = "blocked" => Registered(t)
               PROVE  Registered(t)'
    BY Zenon DEF RegisteredStep
  <2>1. t \notin woken /\ condition[t] # None /\ t \in Range(blockers[condition[t]])
    BY Zenon, <1>4 DEF Registered
  <2>2. condition[t] \in Queue
    BY Zenon, <1>5, <2>1
  <2>3. t \in Range(blockers'[condition[t]])
    BY Zenon, <2>1, <2>2 DEF Wakes
  <2> QED
    BY Zenon, <1>5, <2>1, <2>3 DEF Registered
<1>9. OrderStep
  <2> SUFFICES ASSUME NEW q \in Queue, NEW u \in Thread, NEW v \in Thread,
                      Before(blockers[q], u, v),
                      u \in Range(blockers'[q]), v \notin Range(blockers'[q])
               PROVE  bits[v] \ bits[u] # {}
    BY Zenon, OrderFromBefore
  <2>1. v \in Range(blockers[q])
    BY Zenon, BeforeInRange
  <2>2. Matches(v, mask) /\ ~ Matches(u, mask)
    BY Zenon, <2>1 DEF Wakes
  <2> QED
    BY Zenon, <2>2 DEF Matches
<1> QED
  BY Zenon, <1>2, <1>7, <1>8, <1>9 DEF StepOK, FutexInv

\* A step that changes no queue of blockers, and makes no thread block.
LEMMA QuietKeeps ==
    ASSUME FutexInv, TypeOK', \A t \in Thread \ Waits : pc'[t] = "user",
           UNCHANGED <<blockers, condition>>,
           \A t \in Thread :
              /\ pc'[t] = "blocked" => pc[t] = "blocked"
              /\ pc[t] \in {"blocked", "woken"} => pc'[t] \in {"blocked", "woken"}
    PROVE  StepOK
<1>1. blockers' = blockers /\ condition' = condition
  BY Zenon
<1>2. QueuesOK(blockers)
  BY Zenon, AliveFacts
<1>3. \A q \in Queue : \A v \in Range(blockers[q]) :
          v \in Thread /\ pc[v] \in {"blocked", "woken"} /\ condition[v] = q
  BY Zenon, AliveFacts
<1>4. EntriesAlive'
  <2> SUFFICES ASSUME NEW q \in Queue
               PROVE  /\ \A i \in DOMAIN blockers'[q] :
                            /\ pc'[blockers'[q][i]] \in {"blocked", "woken"}
                            /\ condition'[blockers'[q][i]] = q
                      /\ IsInjective(blockers'[q])
    BY Zenon DEF EntriesAlive
  <2>1. Distinct(blockers'[q])
    BY Zenon, <1>1, <1>2 DEF QueuesOK
  <2>2. \A v \in Range(blockers'[q]) : pc'[v] \in {"blocked", "woken"} /\ condition'[v] = q
    BY Zenon, <1>1, <1>3
  <2> QED
    BY Zenon, <2>1, <2>2, AliveFromRange
<1>5. RegisteredStep
  BY Zenon, <1>1 DEF RegisteredStep, Registered
<1>6. OrderStep
  <2> SUFFICES ASSUME NEW q \in Queue, NEW u \in Thread, NEW v \in Thread,
                      Before(blockers[q], u, v), v \notin Range(blockers'[q])
               PROVE  bits[v] \ bits[u] # {}
    BY Zenon, OrderFromBefore
  <2> QED
    BY Zenon, <1>1, BeforeInRange
<1> QED
  BY Zenon, <1>4, <1>5, <1>6 DEF StepOK, FutexInv

\* do_wait up to the unlock.
LEMMA WaitFindKeeps ==
    ASSUME FutexInv, NEW t \in Waits, NEW f \in Futex, NEW mask \in SUBSET Bits,
           WaitFind(t, f, mask)
    PROVE  StepOK
<1> USE FutexAssumption
<1>1. t \in Thread /\ FindQueue(f) \in Queue /\ pc[t] = "user" /\ None \notin Queue
  BY Zenon, QueueFound DEF WaitFind, Calls
<1>2. TypeOK'
  BY Zenon, <1>1 DEF FutexInv, TypeOK, WaitFind, Goto
<1>3. \A u \in Thread :
          pc'[u] = IF u = t THEN "found" ELSE pc[u]
  BY Zenon, <1>1 DEF FutexInv, TypeOK, WaitFind, Goto
<1>4. \A u \in Thread \ Waits : pc'[u] = "user"
  BY Zenon, <1>3 DEF FutexInv
<1>5. \A u \in Thread :
          /\ pc'[u] = "blocked" => pc[u] = "blocked"
          /\ pc[u] \in {"blocked", "woken"} => pc'[u] \in {"blocked", "woken"}
  BY Zenon, <1>1, <1>3
<1>6. UNCHANGED <<blockers, condition>>
  BY Zenon DEF WaitFind
<1> QED
  BY Zenon, <1>2, <1>4, <1>5, <1>6, QuietKeeps

\* A timeout, a signal or the death of the thread.
LEMMA InterruptKeeps ==
    ASSUME FutexInv, NEW t \in Waits, Interrupt(t)
    PROVE  StepOK
<1> USE FutexAssumption
<1>1. t \in Thread /\ pc[t] = "blocked"
  BY Zenon DEF Interrupt
<1>2. TypeOK'
  BY Zenon, <1>1 DEF FutexInv, TypeOK, Interrupt, Goto, waitVars
<1>3. \A u \in Thread :
          pc'[u] = IF u = t THEN "woken" ELSE pc[u]
  BY Zenon, <1>1 DEF FutexInv, TypeOK, Interrupt, Goto
<1>4. \A u \in Thread \ Waits : pc'[u] = "user"
  BY Zenon, <1>3 DEF FutexInv
<1>5. \A u \in Thread :
          /\ pc'[u] = "blocked" => pc[u] = "blocked"
          /\ pc[u] \in {"blocked", "woken"} => pc'[u] \in {"blocked", "woken"}
  BY Zenon, <1>1, <1>3
<1>6. UNCHANGED <<blockers, condition>>
  BY SMTT(30) DEF Interrupt
<1> QED
  BY Zenon, <1>2, <1>4, <1>5, <1>6, QuietKeeps

\* The end of do_wait.
LEMMA WaitCleanupKeeps ==
    ASSUME FutexInv, NEW t \in Waits, WaitCleanup(t)
    PROVE  StepOK
<1> USE FutexAssumption
<1>1. t \in Thread /\ pc[t] = "returned"
  BY Zenon DEF WaitCleanup
<1>2. queues' \in [Futex -> Queue \union {None}]
  BY Zenon DEF FutexInv, TypeOK, WaitCleanup, CleanedUp, Remove
<1>3. TypeOK'
  BY Zenon, <1>1, <1>2 DEF FutexInv, TypeOK, WaitCleanup, Goto
<1>4. \A u \in Thread :
          pc'[u] = IF u = t THEN "user" ELSE pc[u]
  BY Zenon, <1>1 DEF FutexInv, TypeOK, WaitCleanup, Goto
<1>5. \A u \in Thread \ Waits : pc'[u] = "user"
  BY Zenon, <1>4 DEF FutexInv
<1>6. \A u \in Thread :
          /\ pc'[u] = "blocked" => pc[u] = "blocked"
          /\ pc[u] \in {"blocked", "woken"} => pc'[u] \in {"blocked", "woken"}
  BY Zenon, <1>1, <1>4
<1>7. UNCHANGED <<blockers, condition>>
  BY Zenon DEF WaitCleanup
<1> QED
  BY Zenon, <1>3, <1>5, <1>6, <1>7, QuietKeeps

\* wait_on
LEMMA WaitBlockKeeps ==
    ASSUME FutexInv, NEW t \in Waits, WaitBlock(t)
    PROVE  StepOK
<1> USE FutexAssumption
<1> DEFINE p == ref[t]
<1>1. t \in Thread /\ pc[t] = "found" /\ p \in Queue
  BY Zenon DEF WaitBlock, FutexInv, TypeOK
<1>2. QueuesOK(blockers)
  BY Zenon, AliveFacts
<1>3. \A q \in Queue : \A v \in Range(blockers[q]) :
          v \in Thread /\ pc[v] \in {"blocked", "woken"} /\ condition[v] = q
  BY Zenon, AliveFacts
<1>4. t \notin Range(blockers[p])
  BY Zenon, <1>1, <1>3
<1>5. /\ Append(blockers[p], t) \in Seq(Thread)
      /\ Range(Append(blockers[p], t)) = Range(blockers[p]) \union {t}
      /\ Distinct(Append(blockers[p], t))
  <2>1. blockers[p] \in Seq(Thread) /\ Distinct(blockers[p])
    BY Zenon, <1>1, <1>2 DEF QueuesOK
  <2> HIDE DEF p
  <2> QED
    BY <1>1, <1>4, <2>1, Appended
<1>6. /\ blockers'[p] = Append(blockers[p], t)
      /\ \A q \in Queue \ {p} : blockers'[q] = blockers[q]
      /\ blockers' \in [Queue -> Seq(Thread)]
  BY Zenon, <1>1, <1>2, <1>5 DEF QueuesOK, WaitBlock
<1>7. \A u \in Thread : /\ pc'[u] = IF u = t THEN "blocked" ELSE pc[u]
                        /\ condition'[u] = IF u = t THEN p ELSE condition[u]
  BY Zenon, <1>1 DEF FutexInv, TypeOK, WaitBlock, Goto
<1>8. TypeOK'
  BY Zenon, <1>1, <1>6 DEF FutexInv, TypeOK, WaitBlock, Goto, waitVars
<1>9. \A u \in Thread \ Waits : pc'[u] = "user"
  BY Zenon, <1>7 DEF FutexInv
<1> HIDE DEF p
<1>10. ASSUME NEW q \in Queue
       PROVE  /\ Distinct(blockers'[q])
              /\ Range(blockers[q]) \subseteq Range(blockers'[q])
              /\ \A v \in Range(blockers'[q]) :
                    pc'[v] \in {"blocked", "woken"} /\ condition'[v] = q
  <2>1. CASE q = p
    <3>1. /\ Distinct(blockers'[p])
          /\ Range(blockers'[p]) = Range(blockers[p]) \union {t}
      BY Zenon, <1>5, <1>6
    <3>2. ASSUME NEW v \in Range(blockers[p])
          PROVE  pc'[v] \in {"blocked", "woken"} /\ condition'[v] = p
      <4>1. v \in Thread /\ pc[v] \in {"blocked", "woken"} /\ condition[v] = p
        BY Zenon, <1>1, <1>3
      <4>2. v # t
        BY Zenon, <1>4
      <4> QED
        BY Zenon, <1>7, <4>1, <4>2
    <3>3. pc'[t] = "blocked" /\ condition'[t] = p
      BY Zenon, <1>1, <1>7
    <3> QED
      BY Zenon, <2>1, <3>1, <3>2, <3>3
  <2>2. CASE q # p
    <3>1. blockers'[q] = blockers[q] /\ Distinct(blockers[q])
      BY Zenon, <1>2, <1>6, <2>2 DEF QueuesOK
    <3>2. \A v \in Range(blockers[q]) : v # t
      BY Zenon, <1>1, <1>3
    <3> QED
      BY Zenon, <1>3, <1>7, <3>1, <3>2
  <2> QED
    BY Zenon, <2>1, <2>2
<1>11. EntriesAlive'
  <2> SUFFICES ASSUME NEW q \in Queue
               PROVE  /\ \A i \in DOMAIN blockers'[q] :
                            /\ pc'[blockers'[q][i]] \in {"blocked", "woken"}
                            /\ condition'[blockers'[q][i]] = q
                      /\ IsInjective(blockers'[q])
    BY Zenon DEF EntriesAlive
  <2> QED
    BY Zenon, <1>10, AliveFromRange
<1>12. RegisteredStep
  <2> SUFFICES ASSUME NEW u \in Thread, pc'[u] = "blocked", pc[u] = "blocked" => Registered(u)
               PROVE  condition'[u] # None /\ u \in Range(blockers'[condition'[u]])
    BY Zenon DEF RegisteredStep, Registered
  <2>1. CASE u = t
    BY Zenon, <1>1, <1>5, <1>6, <1>7, <2>1
  <2>2. CASE u # t
    <3>1. condition'[u] = condition[u] /\ pc[u] = "blocked"
      BY Zenon, <1>7, <2>2
    <3>2. condition[u] # None /\ u \in Range(blockers[condition[u]])
      BY Zenon, <3>1 DEF Registered
    <3>3. condition[u] \in Queue
      BY Zenon, <3>2 DEF FutexInv, TypeOK
    <3> QED
      BY Zenon, <1>10, <3>1, <3>2, <3>3
  <2> QED
    BY Zenon, <2>1, <2>2
<1>13. OrderStep
  <2> SUFFICES ASSUME NEW q \in Queue, NEW u \in Thread, NEW v \in Thread,
                      Before(blockers[q], u, v), v \notin Range(blockers'[q])
               PROVE  bits[v] \ bits[u] # {}
    BY ZenonT(40), OrderFromBefore
  <2> QED
    BY Zenon, <1>10, BeforeInRange
<1> QED
  BY Zenon, <1>8, <1>9, <1>11, <1>12, <1>13 DEF StepOK, FutexInv

\* ~Blocker
LEMMA WaitReturnKeeps ==
    ASSUME FutexInv, NEW t \in Waits, WaitReturn(t)
    PROVE  StepOK
<1> USE FutexAssumption
<1> DEFINE p == condition[t]
<1>1. t \in Thread /\ pc[t] = "woken" /\ p \in Queue
  BY Zenon DEF WaitReturn, FutexInv, TypeOK
<1>2. QueuesOK(blockers)
  BY Zenon, AliveFacts
<1>3. \A q \in Queue : \A v \in Range(blockers[q]) :
          v \in Thread /\ pc[v] \in {"blocked", "woken"} /\ condition[v] = q
  BY Zenon, AliveFacts
<1>4. /\ RemoveBlocker(blockers[p], t) \in Seq(Thread)
      /\ Distinct(RemoveBlocker(blockers[p], t))
      /\ Range(RemoveBlocker(blockers[p], t)) = Range(blockers[p]) \ {t}
  <2>1. blockers[p] \in Seq(Thread) /\ Distinct(blockers[p])
    BY Zenon, <1>1, <1>2 DEF QueuesOK
  <2> HIDE DEF p
  <2> QED
    BY Zenon, <2>1, RemovedFacts
<1>5. /\ blockers'[p] = RemoveBlocker(blockers[p], t)
      /\ \A q \in Queue \ {p} : blockers'[q] = blockers[q]
      /\ blockers' \in [Queue -> Seq(Thread)]
  BY Zenon, <1>1, <1>2, <1>4 DEF QueuesOK, WaitReturn
<1>6. \A u \in Thread : /\ pc'[u] = IF u = t THEN "returned" ELSE pc[u]
                        /\ condition'[u] = IF u = t THEN None ELSE condition[u]
  BY Zenon, <1>1 DEF FutexInv, TypeOK, WaitReturn, Goto
<1>7. TypeOK'
  BY Zenon, <1>1, <1>5 DEF FutexInv, TypeOK, WaitReturn, Goto, waitVars
<1>8. \A u \in Thread \ Waits : pc'[u] = "user"
  BY Zenon, <1>6 DEF FutexInv
<1>9. p = condition[t]
  BY Zenon
<1> HIDE DEF p
<1>10. ASSUME NEW q \in Queue
       PROVE  Distinct(blockers'[q]) /\ Range(blockers'[q]) = Range(blockers[q]) \ {t}
  <2>1. CASE q = p
    BY Zenon, <1>4, <1>5, <2>1
  <2>2. CASE q # p
    <3>1. blockers'[q] = blockers[q] /\ Distinct(blockers[q])
      BY Zenon, <1>2, <1>5, <2>2 DEF QueuesOK
    <3>2. t \notin Range(blockers[q])
      BY Zenon, <1>3, <1>9, <2>2
    <3> QED
      BY Zenon, <3>1, <3>2
  <2> QED
    BY Zenon, <2>1, <2>2
<1>11. EntriesAlive'
  <2> SUFFICES ASSUME NEW q \in Queue
               PROVE  /\ \A i \in DOMAIN blockers'[q] :
                            /\ pc'[blockers'[q][i]] \in {"blocked", "woken"}
                            /\ condition'[blockers'[q][i]] = q
                      /\ IsInjective(blockers'[q])
    BY Zenon DEF EntriesAlive
  <2>1. ASSUME NEW v \in Range(blockers'[q])
        PROVE  pc'[v] \in {"blocked", "woken"} /\ condition'[v] = q
    <3>1. v # t /\ v \in Range(blockers[q])
      BY Zenon, <1>10
    <3>2. v \in Thread /\ pc[v] \in {"blocked", "woken"} /\ condition[v] = q
      BY Zenon, <1>3, <3>1
    <3> QED
      BY Zenon, <1>6, <3>1, <3>2
  <2> QED
    BY Zenon, <1>10, <2>1, AliveFromRange
<1>12. RegisteredStep
  <2> SUFFICES ASSUME NEW u \in Thread, pc'[u] = "blocked", pc[u] = "blocked" => Registered(u)
               PROVE  condition'[u] # None /\ u \in Range(blockers'[condition'[u]])
    BY Zenon DEF RegisteredStep, Registered
  <2>1. u # t /\ condition'[u] = condition[u] /\ pc[u] = "blocked"
    BY Zenon, <1>6
  <2>2. condition[u] # None /\ u \in Range(blockers[condition[u]])
    BY Zenon, <2>1 DEF Registered
  <2>3. condition[u] \in Queue
    BY Zenon, <2>2 DEF FutexInv, TypeOK
  <2> QED
    BY Zenon, <1>10, <2>1, <2>2, <2>3
<1>13. OrderStep
  <2> SUFFICES ASSUME NEW q \in Queue, NEW u \in Thread, NEW v \in Thread,
                      Before(blockers[q], u, v), pc[v] = "blocked",
                      v \notin Range(blockers'[q])
               PROVE  bits[v] \ bits[u] # {}
    BY Zenon, OrderFromBefore
  <2>1. v \in Range(blockers[q])
    BY Zenon, BeforeInRange
  <2>2. v # t
    BY Zenon, <1>1
  <2> QED
    BY Zenon, <1>10, <2>1, <2>2
<1> QED
  BY Zenon, <1>7, <1>8, <1>11, <1>12, <1>13 DEF StepOK, FutexInv

\* FUTEX_WAKE and FUTEX_WAKE_BITSET
LEMMA WakeStepKeeps ==
    ASSUME FutexInv, NEW t, NEW f \in Futex, NEW count \in WakeCounts, NEW mask,
           Wake(t, f, count, mask)
    PROVE  StepOK
<1> DEFINE st == DoWake(Waking, f, count, mask)
<1>1. queues \in Maps /\ QueuesOK(blockers) /\ count \in Nat
  BY Zenon, AliveFacts, FutexAssumption DEF FutexInv, TypeOK, Maps
<1>2. WakeResult(st, blockers, {}, mask)
  BY Zenon, <1>1, DoWakeWakes DEF Waking
<1>3. /\ queues' = st.queues /\ blockers' = st.blockers /\ pc' = Awake(st.woken)
      /\ UNCHANGED <<waitVars, condition, is_private>>
  BY Zenon DEF Wake
<1> HIDE DEF st
<1> QED
  BY Zenon, <1>2, <1>3, WakeKeeps DEF WakeResult

\* FUTEX_WAKE_OP
LEMMA WakeOpKeeps ==
    ASSUME FutexInv, NEW t, NEW f \in Futex, NEW f2 \in Futex,
           NEW count \in WakeCounts, NEW count2 \in Counts2,
           WakeOp(t, f, f2, count, count2)
    PROVE  StepOK
<1> DEFINE st == DoWake(Waking, f, count, {})
           st2 == DoWake(st, f2, count2, {})
<1>1. queues \in Maps /\ QueuesOK(blockers) /\ count \in Nat /\ count2 \in Nat
  BY Zenon, AliveFacts, FutexAssumption DEF FutexInv, TypeOK, Maps
<1>2. WakeResult(st, blockers, {}, {})
  BY Zenon, <1>1, DoWakeWakes DEF Waking
<1>3. /\ queues' = st2.queues /\ blockers' = st2.blockers /\ pc' = Awake(st2.woken)
      /\ UNCHANGED <<waitVars, condition, is_private>>
  BY Zenon DEF WakeOp
<1> HIDE DEF st
<1>4. WakeResult(st2, st.blockers, st.woken, {})
  <2> DEFINE copy == [queues |-> st.queues, blockers |-> st.blockers, woken |-> st.woken]
  <2>1. st = copy /\ st.queues \in Maps /\ QueuesOK(st.blockers)
    BY Zenon, <1>2 DEF WakeResult
  <2>2. WakeResult(DoWake(copy, f2, count2, {}), st.blockers, st.woken, {})
    BY Zenon, <1>1, <2>1, DoWakeWakes
  <2> HIDE DEF copy
  <2> QED
    BY Zenon, <2>1, <2>2
<1> HIDE DEF st2
<1>5. Wakes(blockers, st2.blockers, st2.woken, {})
  BY Zenon, <1>2, <1>4, WakesCompose DEF WakeResult
<1>6. st2.queues \in Maps
  BY Zenon, <1>4 DEF WakeResult
<1> QED
  BY Zenon, <1>3, <1>5, <1>6, WakeKeeps

\* clear_futex_queues_on_exec
LEMMA ClearKeeps ==
    ASSUME FutexInv, NEW t, Clear(t)
    PROVE  StepOK
<1> DEFINE W == UNION {Range(blockers[q]) : q \in Range(queues) \ {None}}
<1>1. QueuesOK(blockers) /\ None \notin Queue
  BY Zenon, AliveFacts, FutexAssumption
<1>2. /\ pc' = Awake(W)
      /\ blockers' = [q \in Queue |-> IF q \in Range(queues) THEN <<>> ELSE blockers[q]]
      /\ queues' = [f \in Futex |-> None]
      /\ UNCHANGED <<waitVars, condition, is_private>>
  BY Zenon DEF Clear
<1>3. queues' \in Maps
  BY Zenon, <1>2 DEF Maps
<1>4. <<>> \in Seq(Thread) /\ Distinct(<<>>) /\ Range(<<>>) = {}
  BY DEF Distinct, Range
<1>5. blockers' \in [Queue -> Seq(Thread)]
  BY Zenon, <1>1, <1>2, <1>4 DEF QueuesOK
<1>6. \A q \in Queue \intersect Range(queues) : Range(blockers[q]) \subseteq W
  BY Zenon, <1>1
<1> HIDE DEF W
<1>7. ASSUME NEW q \in Queue
      PROVE  /\ Distinct(blockers'[q])
             /\ Range(blockers'[q]) \subseteq Range(blockers[q])
             /\ \A v \in Range(blockers[q]) \ Range(blockers'[q]) : v \in W /\ Matches(v, {})
             /\ \A u, v : Before(blockers[q], u, v) /\ u \in Range(blockers'[q]) =>
                 IF v \in Range(blockers'[q]) THEN Before(blockers'[q], u, v)
                 ELSE ~ Matches(u, {})
  <2>1. CASE q \in Range(queues)
    <3>1. blockers'[q] = <<>>
      BY Zenon, <1>2, <2>1
    <3>2. \A v : Matches(v, {})
      BY Zenon DEF Matches
    <3> QED
      BY Zenon, <1>4, <1>6, <2>1, <3>1, <3>2
  <2>2. CASE q \notin Range(queues)
    <3>1. blockers'[q] = blockers[q]
      BY Zenon, <1>2, <2>2
    <3>2. Wakes(blockers, blockers, W, {})
      BY Zenon, <1>1, NoWake
    <3> QED
      BY Zenon, <3>1, <3>2 DEF Wakes
  <2> QED
    BY Zenon, <2>1, <2>2
<1>8. Wakes(blockers, blockers', W, {})
  BY Zenon, <1>5, <1>7 DEF Wakes
<1> QED
  BY Zenon, <1>2, <1>3, <1>8, WakeKeeps

\* The queues b once the blockers taken have been moved from q, which keeps
\* those of left, to q2.
Moved(b, q, q2, left, taken) == [[b EXCEPT ![q] = left] EXCEPT ![q2] = DoAppend(@, taken)]

\* The blockers that stay in p.
Kept(b, q, left, p) == IF p = q THEN left ELSE b[p]

\* The queues c are the queues b after a move: each holds what stayed in it
\* and, if it is the target, no others than threads that were taken.
MovedOK(b, c, q, q2, left, taken) ==
    /\ QueuesOK(c)
    /\ \A p \in Queue :
        /\ Range(Kept(b, q, left, p)) \subseteq Range(c[p])
        /\ \A v \in Range(c[p]) :
            v \in Range(Kept(b, q, left, p)) \/ (p = q2 /\ v \in Range(taken))

\* The move of do_requeue is one.
LEMMA MovedFacts ==
    ASSUME NEW b, QueuesOK(b), NEW q \in Queue, NEW q2 \in Queue,
           NEW left \in Seq(Thread), NEW taken \in Seq(Thread),
           Distinct(left), Distinct(taken), Range(left) \intersect Range(taken) = {},
           q2 # q => Range(b[q2]) \intersect Range(taken) = {}
    PROVE  MovedOK(b, Moved(b, q, q2, left, taken), q, q2, left, taken)
<1> DEFINE Base(p) == Kept(b, q, left, p)
           mid == [b EXCEPT ![q] = left]
           a == DoAppend(mid[q2], taken)
           c == [mid EXCEPT ![q2] = a]
<1>1. b \in [Queue -> Seq(Thread)] /\ \A p \in Queue : Distinct(b[p])
  BY Zenon DEF QueuesOK
<1>2. Moved(b, q, q2, left, taken) = c
  BY Zenon DEF Moved
<1>3. mid \in [Queue -> Seq(Thread)] /\ \A p \in Queue : mid[p] = Base(p)
  BY Zenon, <1>1 DEF Kept
<1> HIDE DEF mid
<1>4. ASSUME NEW p \in Queue PROVE Base(p) \in Seq(Thread) /\ Distinct(Base(p))
  BY Zenon, <1>1 DEF Kept
<1>5. Range(Base(q2)) \intersect Range(taken) = {}
  BY Zenon DEF Kept
<1> HIDE DEF Base
<1>6. /\ a \in Seq(Thread) /\ Distinct(a)
      /\ Range(Base(q2)) \subseteq Range(a)
      /\ Range(a) \subseteq Range(Base(q2)) \union Range(taken)
  <2>1. mid[q2] = Base(q2) /\ Base(q2) \in Seq(Thread) /\ Distinct(Base(q2))
    BY Zenon, <1>3, <1>4
  <2>2. a = DoAppend(Base(q2), taken)
    BY Zenon, <2>1
  <2> HIDE DEF a
  <2> QED
    BY Zenon, <1>5, <2>1, <2>2, AppendFacts
<1> HIDE DEF a
<1>7. c \in [Queue -> Seq(Thread)] /\ c[q2] = a /\ \A p \in Queue \ {q2} : c[p] = Base(p)
  BY Zenon, <1>3, <1>6
<1> HIDE DEF c
<1>8. ASSUME NEW p \in Queue
      PROVE  /\ Distinct(c[p])
             /\ Range(Base(p)) \subseteq Range(c[p])
             /\ \A v \in Range(c[p]) : v \in Range(Base(p)) \/ (p = q2 /\ v \in Range(taken))
  <2>1. CASE p = q2
    BY Zenon, <1>6, <1>7, <2>1
  <2>2. CASE p # q2
    BY Zenon, <1>4, <1>7, <2>2
  <2> QED
    BY Zenon, <2>1, <2>2
<1> QED
  BY Zenon, <1>2, <1>7, <1>8 DEF QueuesOK, Base, MovedOK

\* do_requeue
LEMMA RequeueKeeps ==
    ASSUME FutexInv, NEW t \in Thread, NEW f \in Futex, NEW target \in Futex,
           NEW count \in WakeCounts, NEW more \in Counts2,
           Requeue(t, f, target, count, more)
    PROVE  StepOK
<1> DEFINE q == queues[f]
           woken == Unblocked(blockers[q], count, {})
           rest == Without(blockers[q], woken)
           taken == DoTake(rest, more)
           left == Left(rest, more)
           q2 == FindQueue(target)
<1>1. /\ queues \in Maps /\ QueuesOK(blockers) /\ count \in Nat /\ more \in Nat
      /\ None \notin Queue
  BY Zenon, AliveFacts, FutexAssumption DEF FutexInv, TypeOK, Maps
<1>2. q # None /\ MayTake(rest, more) /\ pc' = Awake(woken)
      /\ UNCHANGED <<waitVars, is_private>>
  BY Zenon DEF Requeue
<1>3. q \in Queue /\ q2 \in Queue
  BY Zenon, <1>1, <1>2, QueueFound DEF Maps
<1>4. Wakes(blockers, [blockers EXCEPT ![q] = rest], woken, {})
  BY Zenon, <1>1, <1>3, QueueWakes
<1>5. CASE taken = <<>>
  <2>1. /\ blockers' = [blockers EXCEPT ![q] = rest]
        /\ queues' = IF rest = <<>> THEN Remove(queues, f) ELSE queues
        /\ UNCHANGED condition
    BY Zenon, <1>5 DEF Requeue
  <2>2. queues' \in Maps
    BY Zenon, <1>1, <2>1 DEF Remove, Maps
  <2>3. UNCHANGED <<waitVars, condition, is_private>>
    BY Zenon, <1>2, <2>1
  <2> HIDE DEF rest, woken, q
  <2> QED
    BY Zenon, <1>2, <1>4, <2>1, <2>2, <2>3, WakeKeeps
<1>6. CASE taken # <<>>
  <2>1. /\ queues' = [queues EXCEPT ![target] = q2]
        /\ blockers' = Moved(blockers, q, q2, left, taken)
        /\ condition' = [u \in Thread |-> IF u \in Range(taken) THEN q2 ELSE condition[u]]
    BY Zenon, <1>6 DEF Requeue, Moved
  <2>2. blockers[q] \in Seq(Thread) /\ Distinct(blockers[q])
    BY Zenon, <1>1, <1>3 DEF QueuesOK
  <2>3. /\ woken \subseteq Range(blockers[q])
        /\ \A u, v : Before(blockers[q], u, v) /\ v \in woken => u \in woken
    <3>1. \A u : Matches(u, {})
      BY Zenon DEF Matches
    <3> QED
      BY Zenon, <1>1, <2>2, <3>1, UnblockedFacts
  <2>4. rest \in Seq(Thread) /\ Distinct(rest) /\ Range(rest) = Range(blockers[q]) \ woken
    BY ZenonT(40), <2>2, WithoutFacts
  <2>5. /\ taken \in Seq(Thread) /\ left \in Seq(Thread)
        /\ Distinct(taken) /\ Distinct(left)
        /\ Range(taken) \subseteq Range(rest)
        /\ Range(left) \subseteq Range(rest) \ Range(taken)
        /\ more # 0
    <3> HIDE DEF rest
    <3> QED
      BY ZenonT(40), <1>1, <1>2, <1>6, <2>4, TakeFacts
  <2>6. \A p \in Queue : \A v \in Range(blockers[p]) :
            v \in Thread /\ pc[v] \in {"blocked", "woken"} /\ condition[v] = p
    BY Zenon, AliveFacts
  <2> HIDE DEF q, q2, woken, rest, taken, left
  <2>7. \A v \in Range(taken) : v \in Range(blockers[q]) /\ v \notin woken
    BY Zenon, <2>4, <2>5
  <2>8. /\ Range(left) \intersect Range(taken) = {}
        /\ q2 # q => Range(blockers[q2]) \intersect Range(taken) = {}
    <3>1. ASSUME q2 # q, NEW v \in Range(blockers[q2]), v \in Range(taken) PROVE FALSE
      <4>1. condition[v] = q2
        BY Zenon, <1>3, <2>6
      <4>2. condition[v] = q
        BY Zenon, <1>3, <2>6, <2>7, <3>1
      <4> QED
        BY Zenon, <3>1, <4>1, <4>2
    <3> QED
      BY Zenon, <2>5, <3>1
  <2> DEFINE Base(p) == Kept(blockers, q, left, p)
  <2>9. /\ QueuesOK(blockers')
        /\ \A p \in Queue :
            /\ Range(Base(p)) \subseteq Range(blockers'[p])
            /\ \A v \in Range(blockers'[p]) :
                v \in Range(Base(p)) \/ (p = q2 /\ v \in Range(taken))
    <3>1. MovedOK(blockers, blockers', q, q2, left, taken)
      BY Zenon, <1>1, <1>3, <2>1, <2>5, <2>8, MovedFacts
    <3> QED
      BY Zenon, <3>1 DEF MovedOK
  <2>10. \A p \in Queue : \A v \in Range(Base(p)) :
            v \in Range(blockers[p]) /\ v \notin Range(taken)
    <3>1. \A v \in Range(left) : v \in Range(blockers[q]) /\ v \notin Range(taken)
      BY Zenon, <2>4, <2>5
    <3>2. ASSUME NEW p \in Queue, p # q, NEW v \in Range(blockers[p])
          PROVE  v \notin Range(taken)
      BY Zenon, <1>3, <2>6, <2>7, <3>2
    <3> QED
      BY Zenon, <3>1, <3>2 DEF Kept
  <2>11. \A v \in Range(Base(q)) : v \notin woken
    BY Zenon, <2>4, <2>5 DEF Kept
  <2>12. \A p \in Queue : p # q => Base(p) = blockers[p]
    BY Zenon DEF Kept
  <2> HIDE DEF Base
  <2>13. pc \in [Thread -> Labels] /\ condition \in [Thread -> Queue \union {None}]
    BY Zenon DEF FutexInv, TypeOK, Labels
  <2>14. /\ pc' \in [Thread -> Labels]
         /\ \A u \in Thread :
              /\ pc'[u] = "user" <=> pc[u] = "user"
              /\ pc'[u] \in {"blocked", "woken"} <=> pc[u] \in {"blocked", "woken"}
              /\ pc[u] = "blocked" /\ pc'[u] = "woken" => u \in woken
    BY Zenon, <1>2, <2>13, AwakeFacts
  <2>15. /\ condition' \in [Thread -> Queue \union {None}]
         /\ \A u \in Thread :
              condition'[u] = IF u \in Range(taken) THEN q2 ELSE condition[u]
    BY Zenon, <1>3, <2>1, <2>13
  <2>16. TypeOK'
    <3>1. queues' \in [Futex -> Queue \union {None}]
      BY Zenon, <1>1, <1>3, <2>1 DEF Maps
    <3>2. /\ futex' = futex /\ bits' = bits /\ ref' = ref /\ is_private' = is_private
      BY Zenon, <1>2 DEF waitVars
    <3>3. /\ futex \in [Thread -> Futex \union {None}]
          /\ bits \in [Thread -> SUBSET Bits]
          /\ ref \in [Thread -> Queue \union {None}]
          /\ is_private \in Privacies
          /\ \A u \in Thread :
              /\ ref[u] = None <=> pc[u] = "user"
              /\ condition[u] = None <=> pc[u] \notin {"blocked", "woken"}
      BY Zenon DEF FutexInv, TypeOK
    <3>4. ASSUME NEW u \in Thread
          PROVE  condition'[u] = None <=> pc'[u] \notin {"blocked", "woken"}
      <4>1. CASE u \in Range(taken)
        <5>1. pc[u] \in {"blocked", "woken"}
          BY Zenon, <1>3, <2>6, <2>7, <4>1
        <5>2. condition'[u] = q2 /\ q2 # None
          BY Zenon, <1>1, <1>3, <2>15, <4>1
        <5> QED
          BY Zenon, <2>14, <5>1, <5>2
      <4>2. CASE u \notin Range(taken)
        BY Zenon, <2>14, <2>15, <3>3, <4>2
      <4> QED
        BY Zenon, <4>1, <4>2
    <3>5. \A u \in Thread : ref'[u] = None <=> pc'[u] = "user"
      BY Zenon, <2>14, <3>2, <3>3
    <3>6. blockers' \in [Queue -> Seq(Thread)]
      BY Zenon, <2>9 DEF QueuesOK
    <3> QED
      BY ZenonT(40), <2>14, <2>15, <3>1, <3>2, <3>3, <3>4, <3>5, <3>6 DEF TypeOK, Labels
  <2>17. \A u \in Thread \ Waits : pc'[u] = "user"
    BY Zenon, <2>14 DEF FutexInv
  <2>18. EntriesAlive'
    <3> SUFFICES ASSUME NEW p \in Queue
                 PROVE  /\ \A i \in DOMAIN blockers'[p] :
                              /\ pc'[blockers'[p][i]] \in {"blocked", "woken"}
                              /\ condition'[blockers'[p][i]] = p
                        /\ IsInjective(blockers'[p])
      BY Zenon DEF EntriesAlive
    <3>1. Distinct(blockers'[p])
      BY Zenon, <2>9 DEF QueuesOK
    <3>2. ASSUME NEW v \in Range(blockers'[p])
          PROVE  pc'[v] \in {"blocked", "woken"} /\ condition'[v] = p
      <4>1. CASE v \in Range(Base(p))
        BY ZenonT(60), <2>6, <2>10, <2>14, <2>15, <4>1
      <4>2. CASE p = q2 /\ v \in Range(taken)
        BY Zenon, <1>3, <2>6, <2>7, <2>14, <2>15, <4>2
      <4> QED
        BY Zenon, <2>9, <4>1, <4>2
    <3> QED
      BY Zenon, <3>1, <3>2, AliveFromRange
  <2>19. RegisteredStep
    <3>1. more > 0
      BY <1>1, <2>5
    <3>2. Moves
      BY Zenon, <3>1 DEF Moves
    <3> QED
      BY Zenon, <3>2 DEF RegisteredStep
  <2>20. OrderStep
    <3> SUFFICES ASSUME NEW p \in Queue, NEW u \in Thread, NEW v \in Thread,
                        Before(blockers[p], u, v), pc[v] = "blocked",
                        u \in Range(blockers'[p]),
                        v \notin Range(blockers'[p]), pc'[v] = "woken"
                 PROVE  FALSE
      BY Zenon, OrderFromBefore
    <3>1. v \in woken /\ v \in Range(blockers[p])
      BY Zenon, <2>14, BeforeInRange
    <3>2. p = q
      BY Zenon, <2>9, <2>12, <3>1
    <3>3. u \in woken
      BY Zenon, <2>3, <3>1, <3>2
    <3> QED
      BY Zenon, <2>7, <2>9, <2>11, <3>2, <3>3
  <2> QED
    BY Zenon, <2>16, <2>17, <2>18, <2>19, <2>20 DEF StepOK, FutexInv
<1> QED
  BY Zenon, <1>5, <1>6

\* A step that changes nothing.
LEMMA StutterKeeps ==
    ASSUME FutexInv, UNCHANGED vars
    PROVE  StepOK
<1>1. /\ queues' = queues /\ blockers' = blockers /\ pc' = pc /\ futex' = futex
      /\ bits' = bits /\ ref' = ref /\ condition' = condition /\ is_private' = is_private
  BY Zenon DEF vars, waitVars
<1>2. TypeOK'
  BY Zenon, <1>1 DEF FutexInv, TypeOK
<1>3. \A t \in Thread \ Waits : pc'[t] = "user"
  BY Zenon, <1>1 DEF FutexInv
<1>4. \A t \in Thread :
          /\ pc'[t] = "blocked" => pc[t] = "blocked"
          /\ pc[t] \in {"blocked", "woken"} => pc'[t] \in {"blocked", "woken"}
  BY Zenon, <1>1
<1>5. UNCHANGED <<blockers, condition>>
  BY Zenon, <1>1
<1> QED
  BY Zenon, <1>2, <1>3, <1>4, <1>5, QuietKeeps

\* Every step of sys$futex keeps the invariant and is one that the action
\* properties allow.
LEMMA NextKeeps ==
    ASSUME FutexInv, [Next]_vars
    PROVE  StepOK
<1>1. ASSUME NEW t \in Waits, NEW f \in Futex, NEW mask \in Masks, WaitFind(t, f, mask)
      PROVE  StepOK
  <2>1. mask \in SUBSET Bits
    BY Zenon DEF Masks
  <2> QED
    BY Zenon, <1>1, <2>1, WaitFindKeeps
<1>2. ASSUME NEW t \in Waits,
             WaitBlock(t) \/ Interrupt(t) \/ WaitReturn(t) \/ WaitCleanup(t)
      PROVE  StepOK
  BY Zenon, <1>2, WaitBlockKeeps, InterruptKeeps, WaitReturnKeeps, WaitCleanupKeeps
<1>3. ASSUME NEW t \in Thread \ Waits,
             NEW f \in Futex, NEW count \in WakeCounts, NEW mask \in SUBSET Bits,
             Wake(t, f, count, mask)
      PROVE  StepOK
  BY Zenon, <1>3, WakeStepKeeps
<1>4. ASSUME NEW t \in Thread \ Waits, NEW f \in Futex, NEW f2 \in Futex,
             NEW count \in WakeCounts, NEW count2 \in Counts2,
             WakeOp(t, f, f2, count, count2)
      PROVE  StepOK
  BY Zenon, <1>4, WakeOpKeeps
<1>5. ASSUME NEW t \in Thread \ Waits, NEW f \in Futex, NEW target \in Futex,
             NEW count \in WakeCounts, NEW more \in Counts2,
             Requeue(t, f, target, count, more)
      PROVE  StepOK
  BY Zenon, <1>5, RequeueKeeps
<1>6. ASSUME NEW t \in Thread \ Waits, Clear(t)
      PROVE  StepOK
  BY Zenon, <1>6, ClearKeeps
<1>7. CASE Next
  BY Zenon, <1>1, <1>2, <1>3, <1>4, <1>5, <1>6, <1>7 DEF Next
<1>8. CASE UNCHANGED vars
  BY Zenon, <1>8, StutterKeeps
<1> QED
  BY Zenon, <1>7, <1>8

\* The invariant holds when no futex has been used.
LEMMA InitKeeps ==
    ASSUME Init
    PROVE  FutexInv
<1> USE FutexAssumption
<1>1. \A q \in Queue : DOMAIN blockers[q] = {}
  BY DEF Init
<1>2. EntriesAlive
  BY Zenon, <1>1 DEF EntriesAlive, IsInjective
<1>3. TypeOK
  BY DEF Init, TypeOK
<1>4. \A t \in Thread \ Waits : pc[t] = "user"
  BY Zenon DEF Init
<1> QED
  BY Zenon, <1>2, <1>3, <1>4 DEF FutexInv

-----------------------------------------------------------------------------
(* Theorems                                                                *)

\* The inductive invariant of sys$futex holds in every state.
THEOREM FutexInvariant == Spec => []FutexInv
<1>1. Init => FutexInv
  BY Zenon, InitKeeps
<1>2. FutexInv /\ [Next]_vars => FutexInv'
  BY Zenon, NextKeeps DEF StepOK
<1> QED
  BY <1>1, <1>2, PTL DEF Spec

\* The variables of sys$futex have their types: in particular a queue can be
\* allocated whenever find_futex_queue creates one, a thread holds a reference
\* to a queue exactly while it is in do_wait, and its blocker has a condition
\* exactly while it is in Thread::block.
THEOREM FutexTypeCorrect == Spec => []TypeOK
<1>1. FutexInv => TypeOK
  BY Zenon DEF FutexInv
<1> QED
  BY <1>1, FutexInvariant, PTL

\* No FutexQueue keeps a pointer to the FutexBlocker of a thread that has left
\* Thread::block, however waits, timeouts, wakes, requeues and an exec
\* interleave: the destructor of the blocker looks in the right queue, and
\* there is one entry to remove.
THEOREM FutexEntriesAlive == Spec => []EntriesAlive
<1>1. FutexInv => EntriesAlive
  BY Zenon DEF FutexInv
<1> QED
  BY <1>1, FutexInvariant, PTL

\* Only a FUTEX_REQUEUE that moves blockers can lose a waiter: through every
\* other step a thread that goes on blocking stays in the queue its blocker
\* names.
THEOREM WaitersStayRegistered == Spec => StaysRegistered
<1>1. FutexInv /\ [Next]_vars =>
        [\A t \in Thread :
            /\ pc'[t] = "blocked"
            /\ pc[t] = "blocked" => Registered(t)
            => Registered(t)' \/ Moves]_vars
  BY Zenon, NextKeeps DEF StepOK, RegisteredStep
<1> QED
  BY <1>1, FutexInvariant, PTL DEF Spec, StaysRegistered

\* do_unblock wakes the waiters of a queue in the order they blocked in: one
\* is passed over only for a thread that waits with a bit it lacks.
THEOREM WaitersWakeInOrder == Spec => WakesInOrder
<1>1. FutexInv /\ [Next]_vars =>
        [\A q \in Queue : \A j \in DOMAIN blockers[q] : \A i \in 1..(j - 1) :
            LET u == blockers[q][i]
                v == blockers[q][j]
            IN  /\ pc[u] = "blocked" /\ pc[v] = "blocked"
                /\ u \in Range(blockers'[q])
                /\ v \notin Range(blockers'[q]) /\ pc'[v] = "woken"
                => bits[v] \ bits[u] # {}]_vars
  BY Zenon, NextKeeps DEF StepOK, OrderStep
<1> QED
  BY <1>1, FutexInvariant, PTL DEF Spec, WakesInOrder
=============================================================================
