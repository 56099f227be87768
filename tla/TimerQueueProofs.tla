-------------------------- MODULE TimerQueueProofs --------------------------
(***************************************************************************)
(* Proofs about TimerQueue, for any set of timers, any number of           *)
(* processors and any bound on the clocks: exact due times, exact          *)
(* reference counts, and the settled race of cancel_timer with a handler.  *)
(***************************************************************************)
EXTENDS TimerQueue, SequenceFacts

-----------------------------------------------------------------------------
(* The inductive invariant                                                 *)

\* The lists are sorted by deadline, and next_timer_due follows their heads.
Sorted ==
    \A c \in Clock :
        /\ due[c] = HeadDue(list[c])
        /\ \A i, j \in DOMAIN list[c] : i <= j => expires[list[c][i]] <= expires[list[c][j]]

\* m_timers_executing is what the processors have deferred, once each.
Deferred ==
    /\ \A t \in Timer : t \in executing <=> \E p \in Processor : t \in Range(deferred[p])
    /\ \A p, r \in Processor : \A i \in DOMAIN deferred[p], j \in DOMAIN deferred[r] :
        deferred[p][i] = deferred[r][j] => p = r /\ i = j

\* What the user of a timer knows of the queue and of the handler.
UserKnows(t) ==
    /\ ~ (Queued(t) /\ t \in executing)
    /\ user[t] \in {"none", "adding", "cancelled", "missed"} => ~Queued(t)
    /\ user[t] \in {"adding", "cancelled", "missed"} => t \notin executing
    /\ user[t] \in {"adding", "cancelled"} => ~called[t]
    /\ user[t] = "missed" => called[t]
    /\ user[t] = "none" /\ t \in executing => called[t]
    /\ user[t] = "holding" /\ Queued(t) => ~called[t]
    /\ user[t] = "holding" /\ ~Queued(t) /\ t \notin executing => called[t]

\* The references are those of the user and of the queue.
Counted(t) ==
    refs[t] = (IF user[t] = "none" THEN 0 ELSE 1)
              + (IF Queued(t) \/ t \in executing THEN 1 ELSE 0)

\* A step queues or dequeues timer t only, or none.
OnlyQueues(t) == \A u \in Timer \ {t} : Queued(u)' <=> Queued(u)
QueuesNone == \A u \in Timer : Queued(u)' <=> Queued(u)

IInv ==
    /\ TypeOK /\ Sorted /\ Deferred
    /\ \A t \in Timer : UserKnows(t) /\ Counted(t)

-----------------------------------------------------------------------------
(* The list operations                                                     *)

\* InlineLinkedList::remove leaves the other timers, in their order.
LEMMA Removed ==
    ASSUME NEW S, NEW s \in Seq(S), NEW t \in Range(s), NEW key, Distinct(s)
    PROVE  /\ Unlinked(s, t) \in Seq(S) /\ Distinct(Unlinked(s, t))
           /\ Ascending(s, key) => Ascending(Unlinked(s, t), key)
           /\ Range(Unlinked(s, t)) = Range(s) \ {t}
           /\ Head(s) # t => Unlinked(s, t) # <<>> /\ Head(Unlinked(s, t)) = Head(s)
<1>1. PICK at \in DOMAIN s :
        /\ s[at] = t
        /\ Unlinked(s, t) = SubSeq(s, 1, at - 1) \o SubSeq(s, at + 1, Len(s))
  BY Zenon DEF Range, Unlinked
<1> DEFINE r == SubSeq(s, 1, at - 1) \o SubSeq(s, at + 1, Len(s))
<1>2. Unlinked(s, t) = r
  BY Zenon, <1>1
<1>3. /\ r \in Seq(S) /\ Len(r) = Len(s) - 1
      /\ \A k \in DOMAIN r : r[k] = IF k < at THEN s[k] ELSE s[k + 1]
  BY <1>1, WithoutPosition, Zenon
<1> HIDE DEF r
<1>4. /\ Distinct(r) /\ Range(r) = Range(s) \ {s[at]}
      /\ Ascending(s, key) => Ascending(r, key)
  <2>1. OneLess(r, s, at)
    BY Zenon, <1>3 DEF OneLess
  <2>2. r \in Seq(S)
    BY Zenon, <1>3
  <2> QED
    BY <2>1, <2>2, Taken, Zenon
<1>5. ASSUME Head(s) # t PROVE r # <<>> /\ Head(r) = Head(s)
  <2>1. s # <<>> /\ at \in 1 .. Len(s) /\ Len(s) \in Nat
    BY <1>1
  <2>2. Head(s) = s[1]
    BY <2>1
  <2>3. at # 1
    BY Zenon, <1>1, <1>5, <2>2
  <2>4. 1 \in DOMAIN r /\ 1 < at
    BY <1>3, <2>1, <2>3
  <2>5. r[1] = s[1]
    BY Zenon, <1>3, <2>4
  <2> QED
    BY <1>3, <2>2, <2>4, <2>5
<1> QED
  BY Zenon, <1>1, <1>2, <1>3, <1>4, <1>5

\* fire() and the deferred calls take the first.
LEMMA Popped ==
    ASSUME NEW S, NEW s \in Seq(S), NEW key, s # <<>>, Distinct(s)
    PROVE  /\ Head(s) \in S /\ Head(s) \in Range(s)
           /\ Tail(s) \in Seq(S) /\ Distinct(Tail(s))
           /\ Ascending(s, key) => Ascending(Tail(s), key)
           /\ Range(Tail(s)) = Range(s) \ {Head(s)}
<1>1. /\ 1 \in DOMAIN s /\ Head(s) = s[1]
      /\ Tail(s) \in Seq(S) /\ Len(Tail(s)) = Len(s) - 1
      /\ \A k \in DOMAIN Tail(s) : Tail(s)[k] = s[k + 1]
  BY HeadAndTail, Zenon
<1> DEFINE r == Tail(s)
<1> HIDE DEF r
<1>2. \A k \in DOMAIN r : r[k] = IF k < 1 THEN s[k] ELSE s[k + 1]
  <2> TAKE k \in DOMAIN r
  <2>1. k \in 1 .. Len(r)
    BY <1>1 DEF r
  <2> QED
    BY <1>1, <2>1 DEF r
<1>3. Distinct(r) /\ Range(r) = Range(s) \ {s[1]} /\ (Ascending(s, key) => Ascending(r, key))
  <2>1. r \in Seq(S) /\ 1 \in DOMAIN s /\ Len(r) = Len(s) - 1
    BY Zenon, <1>1 DEF r
  <2>2. OneLess(r, s, 1)
    BY Zenon, <1>2, <2>1 DEF OneLess
  <2> QED
    BY <2>1, <2>2, Taken, Zenon
<1>4. s[1] \in S /\ s[1] \in Range(s)
  BY <1>1 DEF Range
<1> QED
  BY <1>1, <1>3, <1>4, Zenon DEF r

\* r is s with e put in front of position i, or at its end.
OneMore(r, s, i, e) ==
    /\ Len(r) = Len(s) + 1
    /\ \A k \in DOMAIN r : k < i => r[k] = s[k]
    /\ \A k \in DOMAIN r : k = i => r[k] = e
    /\ \A k \in DOMAIN r : k > i => r[k] = s[k - 1]

\* InsertBefore by position.
LEMMA Insertion ==
    ASSUME NEW S, NEW s \in Seq(S), NEW i \in 1 .. Len(s) + 1, NEW e \in S
    PROVE  InsertBefore(s, i, e) \in Seq(S) /\ OneMore(InsertBefore(s, i, e), s, i, e)
<1> DEFINE a == SubSeq(s, 1, i - 1)
           b == SubSeq(s, i, Len(s))
           d == a \o <<e>>
           c == d \o b
<1>1. i \in 1 .. Len(s) + 1 /\ Len(s) \in Nat /\ DOMAIN s = 1 .. Len(s)
  OBVIOUS
<1>2. a \in Seq(S) /\ Len(a) = i - 1 /\ \A k \in 1 .. i - 1 : a[k] = s[k]
  BY <1>1
<1>3. /\ b \in Seq(S)
      /\ Len(b) = Len(s) - i + 1
      /\ \A k \in 1 .. Len(s) - i + 1 : b[k] = s[i + k - 1]
  BY <1>1
<1> HIDE DEF a, b
<1>4. d \in Seq(S) /\ Len(d) = i /\ d[i] = e /\ \A k \in 1 .. i - 1 : d[k] = s[k]
  <2>1. d \in Seq(S) /\ Len(d) = Len(a) + 1
    BY <1>2
  <2>2. d[i] = e /\ \A k \in 1 .. i - 1 : d[k] = s[k]
    BY <1>1, <1>2
  <2> QED
    BY <1>1, <1>2, <2>1, <2>2
<1> HIDE DEF d
<1>5. c \in Seq(S) /\ Len(c) = Len(s) + 1 /\ DOMAIN c = 1 .. Len(s) + 1
  <2>3. b \in Seq(S) /\ d \in Seq(S)
    BY Zenon, <1>3, <1>4
  <2>1. c \in Seq(S) /\ Len(c) = Len(d) + Len(b)
    BY <2>3
  <2>2. Len(c) = Len(s) + 1
    BY <1>1, <1>3, <1>4, <2>1
  <2> QED
    BY <2>1, <2>2
<1>6. ASSUME NEW k \in 1 .. Len(s) + 1
      PROVE  (k < i => c[k] = s[k]) /\ (k = i => c[k] = e) /\ (k > i => c[k] = s[k - 1])
  <2>1. ASSUME k <= i PROVE c[k] = d[k]
    BY <1>1, <1>3, <1>4, <2>1
  <2>2. ASSUME k > i PROVE c[k] = s[k - 1]
    <3>1. c[k] = b[k - i]
      BY <1>1, <1>3, <1>4, <2>2
    <3>2. k - i \in 1 .. Len(s) - i + 1 /\ i + (k - i) - 1 = k - 1
      BY <1>1, <2>2
    <3> QED
      BY Zenon, <1>3, <3>1, <3>2
  <2>3. k < i => c[k] = s[k]
    BY <1>1, <1>4, <2>1
  <2>4. k = i => c[k] = e
    BY <1>1, <1>4, <2>1
  <2> QED
    BY Zenon, <2>2, <2>3, <2>4
<1>7. InsertBefore(s, i, e) = c
  BY Zenon DEF a, b, c, d, InsertBefore
<1> HIDE DEF c
<1>8. OneMore(c, s, i, e)
  BY <1>5, <1>6, Zenon DEF OneMore
<1> QED
  BY Zenon, <1>5, <1>7, <1>8

\* add_timer_locked puts the timer behind those that expire no later.
LEMMA Inserted ==
    ASSUME NEW s \in Seq(Timer), NEW t \in Timer, t \notin Range(s),
           expires \in [Timer -> Time], Distinct(s), Ascending(s, expires)
    PROVE  LET i == Position(s, t)
               r == InsertBefore(s, i, t)
           IN  /\ r \in Seq(Timer) /\ r # <<>>
               /\ Distinct(r) /\ Ascending(r, expires)
               /\ Range(r) = Range(s) \union {t}
               /\ i = 1 => Head(r) = t
               /\ i # 1 => s # <<>> /\ Head(r) = Head(s)
<1> DEFINE i == Position(s, t)
           r == InsertBefore(s, i, t)
           F == Following(s, t)
           n == Len(s)
<1>1. n \in Nat /\ DOMAIN s = 1 .. n /\ F \subseteq 1 .. n + 1 /\ n + 1 \in F
  BY DEF Following
<1>2. i \in F /\ \A j \in F : i <= j
  <2>1. F \in SUBSET Nat /\ F # {}
    BY <1>1
  <2>2. \E x \in F : \A y \in F : x <= y
    BY <2>1, LeastExists, Zenon
  <2> QED
    BY <2>2, Zenon DEF Position
<1> HIDE DEF i
<1>3. i \in 1 .. n + 1
  BY Zenon, <1>1, <1>2
<1>4. /\ r \in Seq(Timer) /\ Len(r) = n + 1
      /\ \A k \in DOMAIN r : r[k] = IF k < i THEN s[k] ELSE IF k = i THEN t ELSE s[k - 1]
  <2>1. i \in 1 .. Len(s) + 1
    BY Zenon, <1>3
  <2>2. r \in Seq(Timer) /\ OneMore(r, s, i, t)
    BY <2>1, Insertion, Zenon
  <2> HIDE DEF r
  <2>3. DOMAIN r = 1 .. n + 1
    BY <2>2 DEF OneMore
  <2> QED
    BY <1>3, <2>2, <2>3 DEF OneMore
<1> HIDE DEF r
<1>5. DOMAIN r = 1 .. n + 1
  BY <1>4
<1>6. \A k \in 1 .. n : k < i => expires[s[k]] <= expires[t]
  <2> SUFFICES ASSUME NEW k \in 1 .. n, k < i PROVE expires[s[k]] <= expires[t]
    BY Zenon
  <2>1. k \notin F
    BY <1>1, <1>2, <1>3
  <2>2. ~ (expires[s[k]] > expires[t])
    BY Zenon, <1>1, <2>1 DEF Following
  <2>3. s[k] \in Timer
    BY <1>1
  <2> QED
    BY <2>2, <2>3, TimerAssumption DEF Time
<1>7. \A k \in 1 .. n : k >= i => expires[t] <= expires[s[k]]
  <2> SUFFICES ASSUME NEW k \in 1 .. n, k >= i PROVE expires[t] <= expires[s[k]]
    BY Zenon
  <2>1. i \in DOMAIN s /\ i # n + 1
    BY <1>1, <1>3
  <2>2. expires[s[i]] > expires[t]
    BY Zenon, <1>2, <2>1 DEF Following
  <2>3. expires[s[i]] <= expires[s[k]]
    BY <1>1, <2>1, Zenon DEF Ascending
  <2>4. s[i] \in Timer /\ s[k] \in Timer
    BY <1>1, <2>1
  <2> QED
    BY <2>2, <2>3, <2>4, TimerAssumption DEF Time
<1> HIDE DEF F, n
<1>8. Ascending(r, expires)
  <2> SUFFICES ASSUME NEW k \in 1 .. n + 1, NEW m \in 1 .. n + 1, k <= m
               PROVE  expires[r[k]] <= expires[r[m]]
    BY Zenon, <1>5 DEF Ascending
  <2>0. /\ r[k] = IF k < i THEN s[k] ELSE IF k = i THEN t ELSE s[k - 1]
        /\ r[m] = IF m < i THEN s[m] ELSE IF m = i THEN t ELSE s[m - 1]
    BY Zenon, <1>4, <1>5
  <2>1. CASE m < i
    BY <1>1, <1>3, <2>0, <2>1 DEF Ascending
  <2>2. CASE m = i
    BY <1>1, <1>3, <1>6, <2>0, <2>2, TimerAssumption DEF Time
  <2>3. CASE m > i /\ k < i
    BY <1>1, <1>3, <2>0, <2>3 DEF Ascending
  <2>4. CASE m > i /\ k = i
    BY <1>1, <1>3, <1>7, <2>0, <2>4
  <2>5. CASE m > i /\ k > i
    BY <1>1, <1>3, <2>0, <2>5 DEF Ascending
  <2> QED
    BY <1>1, <1>3, <2>1, <2>2, <2>3, <2>4, <2>5
<1>9. Distinct(r)
  <2> DEFINE back == [k \in 1 .. n + 1 |-> IF k < i THEN k ELSE k - 1]
  <2>1. \A k \in 1 .. n + 1 : k # i => back[k] \in 1 .. n /\ r[k] = s[back[k]]
    BY <1>1, <1>3, <1>4, <1>5
  <2>2. \A k, m \in 1 .. n + 1 : k # i /\ m # i /\ back[k] = back[m] => k = m
    BY <1>1, <1>3
  <2> HIDE DEF back
  <2>3. r[i] = t /\ \A j \in 1 .. n : s[j] # t
    BY SMTT(30), <1>1, <1>3, <1>4, <1>5 DEF Range
  <2> SUFFICES ASSUME NEW k \in 1 .. n + 1, NEW m \in 1 .. n + 1, r[k] = r[m]
               PROVE  k = m
    BY Zenon, <1>5 DEF Distinct
  <2>4. CASE k = i \/ m = i
    BY <2>1, <2>3, <2>4, Zenon
  <2>5. CASE k # i /\ m # i
    <3>1. back[k] \in DOMAIN s /\ back[m] \in DOMAIN s /\ s[back[k]] = s[back[m]]
      BY <1>1, <2>1, <2>5, Zenon
    <3>2. back[k] = back[m]
      BY <3>1, Zenon DEF Distinct
    <3> QED
      BY <2>2, <2>5, <3>2, Zenon
  <2> QED
    BY Zenon, <2>4, <2>5
<1>10. Range(r) = Range(s) \union {t}
  <2>1. ASSUME NEW k \in 1 .. n + 1 PROVE r[k] \in Range(s) \union {t}
    <3>1. k - 1 \in 1 .. n \/ k = i \/ k < i
      BY <1>1, <1>3
    <3>2. r[k] = t \/ \E j \in 1 .. n : r[k] = s[j]
      BY <1>1, <1>3, <1>4, <1>5, <3>1
    <3> QED
      BY <1>1, <3>2 DEF Range
  <2>2. ASSUME NEW j \in 1 .. n PROVE \E k \in 1 .. n + 1 : r[k] = s[j]
    <3>1. CASE j < i
      <4>1. j \in 1 .. n + 1 /\ r[j] = s[j]
        BY <1>1, <1>3, <1>4, <1>5, <3>1
      <4> QED
        BY Zenon, <4>1
    <3>2. CASE j >= i
      <4>1. j + 1 \in 1 .. n + 1 /\ r[j + 1] = s[j]
        BY <1>1, <1>3, <1>4, <1>5, <3>2
      <4> QED
        BY Zenon, <4>1
    <3> QED
      BY <1>1, <1>3, <3>1, <3>2
  <2>3. i \in 1 .. n + 1 /\ r[i] = t
    BY <1>3, <1>4, <1>5
  <2> QED
    BY <1>1, <1>5, <2>1, <2>2, <2>3, Zenon DEF Range
<1>11. r # <<>> /\ Head(r) = r[1]
  BY <1>1, <1>4
<1>12. i = 1 => Head(r) = t
  BY <1>1, <1>4, <1>5, <1>11
<1>13. ASSUME i # 1 PROVE s # <<>> /\ Head(r) = Head(s)
  <2>1. 1 < i /\ 1 \in DOMAIN r /\ s # <<>>
    BY <1>1, <1>3, <1>5, <1>13
  <2>2. Head(s) = s[1] /\ r[1] = s[1]
    BY <1>4, <2>1
  <2> QED
    BY Zenon, <1>11, <2>1, <2>2
<1> QED
  BY <1>4, <1>8, <1>9, <1>10, <1>11, <1>12, <1>13, Zenon DEF i, r

-----------------------------------------------------------------------------
(* The actions                                                             *)

\* A timer is in no list but that of its own clock.
Lists == \A c \in Clock : \A u \in Range(list[c]) : u \in Timer /\ clock[u] = c

\* The lists are sorted lists of different timers, and Queued sees them all.
LEMMA InOwnList ==
    ASSUME IInv
    PROVE  /\ Lists
           /\ \A c \in Clock : list[c] \in Seq(Timer) /\ Distinct(list[c])
                               /\ Ascending(list[c], expires)
           /\ \A u \in Timer, c \in Clock : u \in Range(list[c]) <=> Queued(u) /\ clock[u] = c
<1>1. \A c \in Clock : list[c] \in Seq(Timer)
  BY Zenon DEF IInv, TypeOK
<1>2. \A c \in Clock : Distinct(list[c])
  BY DEF IInv, TypeOK, Distinct
<1>3. \A c \in Clock : Ascending(list[c], expires)
  BY Zenon DEF IInv, Sorted, Ascending
<1>4. Lists
  <2> SUFFICES ASSUME NEW c \in Clock, NEW i \in DOMAIN list[c]
               PROVE  list[c][i] \in Timer /\ clock[list[c][i]] = c
    BY DEF Lists, Range
  <2>1. list[c] \in Seq(Timer)
    BY Zenon, <1>1
  <2> QED
    BY <2>1 DEF IInv, TypeOK
<1>5. \A u \in Timer : clock[u] \in Clock
  BY Zenon DEF IInv, TypeOK
<1> QED
  BY <1>1, <1>2, <1>3, <1>4, <1>5, Zenon DEF Lists, Queued

\* What a step that keeps the lists has to keep.
LEMMA SameLists ==
    ASSUME IInv, UNCHANGED <<list, due>>,
           \A u \in Timer : Queued(u) => clock'[u] = clock[u] /\ expires'[u] = expires[u],
           clock' \in [Timer -> Clock], expires' \in [Timer -> Time]
    PROVE  /\ Sorted'
           /\ \A c \in Clock : \A i, j \in DOMAIN list'[c] :
                clock'[list'[c][i]] = c /\ (list'[c][i] = list'[c][j] => i = j)
           /\ \A u \in Timer : Queued(u) => Queued(u)'
           /\ \A u \in Timer : Queued(u)' => Queued(u)
<1>1. \A c \in Clock : \A i \in DOMAIN list[c] :
        /\ list[c][i] \in Timer /\ Queued(list[c][i])
        /\ clock[list[c][i]] = c /\ clock'[list[c][i]] = c
        /\ expires'[list[c][i]] = expires[list[c][i]]
  <2> TAKE c \in Clock
  <2> TAKE i \in DOMAIN list[c]
  <2>1. list[c][i] \in Range(list[c])
    BY Zenon DEF Range
  <2>2. list[c][i] \in Timer /\ Queued(list[c][i]) /\ clock[list[c][i]] = c
    BY <2>1, InOwnList, Zenon DEF Lists
  <2> QED
    BY Zenon, <2>2
<1>2. \A c \in Clock : due[c] = HeadDue(list[c]) =>  due[c] = HeadDue(list[c])'
  <2> TAKE c \in Clock
  <2>1. CASE list[c] = <<>>
    BY Zenon, <2>1 DEF HeadDue
  <2>2. CASE list[c] # <<>>
    <3>1. 1 \in DOMAIN list[c] /\ Head(list[c]) = list[c][1]
      BY <2>2 DEF IInv, TypeOK
    <3> QED
      BY <1>1, <3>1 DEF HeadDue
  <2> QED
    BY Zenon, <2>1, <2>2
<1>3. Sorted'
  <2>1. \A c \in Clock : due'[c] = HeadDue(list[c])'
    BY Zenon, <1>2 DEF IInv, Sorted
  <2>2. \A c \in Clock : \A i, j \in DOMAIN list[c] :
            i <= j => expires'[list[c][i]] <= expires'[list[c][j]]
    BY <1>1 DEF IInv, Sorted
  <2> QED
    BY <2>1, <2>2, Zenon DEF Sorted
<1>4. \A u \in Timer : Queued(u) => Queued(u)'
  BY Zenon DEF Queued
<1>5. ASSUME NEW u \in Timer, Queued(u)' PROVE Queued(u)
  <2>1. clock'[u] \in Clock /\ u \in Range(list[clock'[u]])
    BY Zenon, <1>5 DEF Queued
  <2> QED
    BY <2>1, InOwnList, Zenon
<1>6. \A c \in Clock : \A i, j \in DOMAIN list'[c] :
        clock'[list'[c][i]] = c /\ (list'[c][i] = list'[c][j] => i = j)
  BY <1>1 DEF IInv, TypeOK
<1> QED
  BY Zenon, <1>3, <1>4, <1>5, <1>6

\* A timer about which a step changes nothing.
LEMMA SameTimer ==
    ASSUME NEW u \in Timer, UserKnows(u), Counted(u),
           user'[u] = user[u], called'[u] = called[u], refs'[u] = refs[u],
           Queued(u) => Queued(u)', Queued(u)' => Queued(u),
           u \in executing' <=> u \in executing
    PROVE  UserKnows(u)' /\ Counted(u)'
<1>1. UserKnows(u)'
  BY Zenon DEF UserKnows
<1>2. Counted(u)'
  BY Zenon DEF Counted
<1> QED
  BY Zenon, <1>1, <1>2

\* Nothing about the lists changes while they, the deadlines and the deferred calls do not.
LEMMA ListsUntouched ==
    ASSUME IInv, UNCHANGED <<list, due, expires, executing, deferred>>
    PROVE  Sorted' /\ Deferred'
<1>1. Sorted'
  BY Zenon DEF IInv, Sorted, HeadDue
<1>2. Deferred'
  <2>1. Deferred
    BY Zenon DEF IInv
  <2> QED
    BY SMTT(30), <2>1 DEF Deferred
<1> QED
  BY Zenon, <1>1, <1>2

\* A step that leaves the queues and the timers alone.
LEMMA TimeKeeps ==
    ASSUME IInv, UNCHANGED <<queueVars, timerVars, deferred>>, now' \in [Clock -> Time],
           firing' \in [Processor -> Clock \union {"idle"}]
    PROVE  IInv'
<1>1. UNCHANGED <<list, due, executing, clock, expires, remaining, refs, called, user, deferred>>
  BY Zenon DEF queueVars, timerVars
<1>2. TypeOK'
  BY <1>1 DEF IInv, TypeOK
<1>3. Sorted' /\ Deferred'
  BY Zenon, <1>1, ListsUntouched
<1>4. \A t \in Timer : UserKnows(t)' /\ Counted(t)'
  BY <1>1, Zenon DEF IInv, UserKnows, Counted, Queued
<1> QED
  BY Zenon, <1>2, <1>3, <1>4 DEF IInv

\* A timer is allocated where nobody refers to one.
LEMMA CreateKeeps ==
    ASSUME IInv, NEW t \in Timer, NEW c \in Clock, NEW deadline \in Time,
           Create(t, c, deadline)
    PROVE  IInv' /\ QueuesNone
<1>1. /\ refs[t] = 0
      /\ clock' = [clock EXCEPT ![t] = c] /\ expires' = [expires EXCEPT ![t] = deadline]
      /\ remaining' = [remaining EXCEPT ![t] = 0] /\ refs' = [refs EXCEPT ![t] = 1]
      /\ called' = [called EXCEPT ![t] = FALSE] /\ user' = [user EXCEPT ![t] = "adding"]
      /\ UNCHANGED <<now, list, due, executing, firing, deferred>>
  BY Zenon DEF Create, queueVars
<1>2. ~Queued(t) /\ t \notin executing /\ user[t] = "none"
  BY <1>1 DEF IInv, Counted
<1>3. /\ clock' \in [Timer -> Clock] /\ expires' \in [Timer -> Time]
      /\ remaining' \in [Timer -> Time] /\ refs' \in [Timer -> 0..2]
      /\ called' \in [Timer -> BOOLEAN]
      /\ user' \in [Timer -> {"none", "adding", "holding", "cancelled", "missed"}]
  BY <1>1, TimerAssumption DEF IInv, TypeOK, Time
<1>4. \A u \in Timer \ {t} :
        /\ clock'[u] = clock[u] /\ expires'[u] = expires[u] /\ refs'[u] = refs[u]
        /\ called'[u] = called[u] /\ user'[u] = user[u]
  BY <1>1 DEF IInv, TypeOK
<1>5. /\ Sorted'
      /\ \A k \in Clock : \A i, j \in DOMAIN list'[k] :
                clock'[list'[k][i]] = k /\ (list'[k][i] = list'[k][j] => i = j)
      /\ \A u \in Timer : Queued(u) => Queued(u)'
      /\ \A u \in Timer : Queued(u)' => Queued(u)
  <2>1. \A u \in Timer : Queued(u) => clock'[u] = clock[u] /\ expires'[u] = expires[u]
    BY <1>2, <1>4, Zenon
  <2> QED
    BY <1>1, <1>3, <2>1, SameLists, Zenon
<1>6. TypeOK'
  BY Zenon, <1>1, <1>3, <1>5 DEF IInv, TypeOK
<1>7. Deferred'
  BY <1>1 DEF IInv, Deferred
<1>8. \A u \in Timer \ {t} : UserKnows(u)' /\ Counted(u)'
  BY Zenon, <1>1, <1>4, <1>5, SameTimer DEF IInv
<1>9. UserKnows(t)' /\ Counted(t)'
  <2>1. user'[t] = "adding" /\ refs'[t] = 1 /\ ~called'[t] /\ t \notin executing' /\ ~Queued(t)'
    BY <1>1, <1>2, <1>5 DEF IInv, TypeOK
  <2> QED
    BY <2>1 DEF UserKnows, Counted
<1> QED
  BY <1>5, <1>6, <1>7, <1>8, <1>9, Zenon DEF IInv, QueuesNone

\* A step that gives the queue of one clock a new list, in order and with its
\* next_timer_due.
LEMMA OneList ==
    ASSUME IInv, NEW c \in Clock, NEW new \in Seq(Timer),
           list' = [list EXCEPT ![c] = new], due' = [due EXCEPT ![c] = HeadDue(new)],
           UNCHANGED <<clock, expires>>,
           Distinct(new), Ascending(new, expires), \A u \in Range(new) : clock[u] = c
    PROVE  /\ list' \in [Clock -> Seq(Timer)] /\ due' \in [Clock -> Time]
           /\ Sorted'
           /\ \A k \in Clock : \A i, j \in DOMAIN list'[k] :
                clock'[list'[k][i]] = k /\ (list'[k][i] = list'[k][j] => i = j)
           /\ \A u \in Timer : clock[u] = c => (Queued(u)' <=> u \in Range(new))
           /\ \A u \in Timer : clock[u] # c => (Queued(u)' <=> Queued(u))
<1>1. list \in [Clock -> Seq(Timer)] /\ due \in [Clock -> Time] /\ expires \in [Timer -> Time]
      /\ clock \in [Timer -> Clock]
  BY Zenon DEF IInv, TypeOK
<1>2. /\ list' \in [Clock -> Seq(Timer)] /\ list'[c] = new
      /\ \A k \in Clock \ {c} : list'[k] = list[k]
  BY Zenon, <1>1
<1>3. HeadDue(new) \in Time
  <2>1. new # <<>> => Head(new) \in Timer
    OBVIOUS
  <2> QED
    BY <1>1, <2>1, TimerAssumption DEF HeadDue, Time
<1>4. /\ due' \in [Clock -> Time] /\ due'[c] = HeadDue(new)
      /\ \A k \in Clock \ {c} : due'[k] = due[k]
  BY Zenon, <1>1, <1>3
<1>5. \A k \in Clock : HeadDue(list[k])' = HeadDue(list'[k])
  BY DEF HeadDue
<1>6. Sorted'
  <2> SUFFICES ASSUME NEW k \in Clock
               PROVE  /\ due'[k] = HeadDue(list[k])'
                      /\ \A i, j \in DOMAIN list'[k] :
                            i <= j => expires'[list'[k][i]] <= expires'[list'[k][j]]
    BY Zenon DEF Sorted
  <2>1. CASE k = c
    <3>1. \A i, j \in DOMAIN new : i <= j => expires[new[i]] <= expires[new[j]]
      BY Zenon DEF Ascending
    <3> QED
      BY <1>2, <1>4, <1>5, <2>1, <3>1
  <2>2. CASE k # c
    BY <1>2, <1>4, <1>5, <2>2 DEF IInv, Sorted
  <2> QED
    BY Zenon, <2>1, <2>2
<1>7. \A k \in Clock : \A i, j \in DOMAIN list'[k] :
        clock'[list'[k][i]] = k /\ (list'[k][i] = list'[k][j] => i = j)
  <2> TAKE k \in Clock
  <2>1. CASE k = c
    <3>1. \A i \in DOMAIN new : clock[new[i]] = c
      BY Zenon DEF Range
    <3> QED
      BY Zenon, <1>2, <2>1, <3>1 DEF Distinct
  <2>2. CASE k # c
    BY <1>2, <2>2 DEF IInv, TypeOK
  <2> QED
    BY Zenon, <2>1, <2>2
<1>8. \A u \in Timer : Queued(u)' <=> u \in Range(list'[clock[u]])
  BY Zenon DEF Queued
<1>9. ASSUME NEW u \in Timer, clock[u] # c PROVE Queued(u)' <=> Queued(u)
  <2>1. list'[clock[u]] = list[clock[u]]
    BY Zenon, <1>1, <1>2, <1>9
  <2> QED
    BY <1>8, <2>1, Zenon DEF Queued
<1> QED
  BY <1>2, <1>4, <1>6, <1>7, <1>8, <1>9

\* add_timer_locked: the timer is queued, and not called yet.
LEMMA AddKeeps ==
    ASSUME IInv, NEW t \in Timer, AddTimerLocked(t)
    PROVE  IInv' /\ Queued(t)' /\ OnlyQueues(t)
<1> DEFINE c == clock[t]
           at == Position(list[c], t)
           new == InsertBefore(list[c], at, t)
<1>1. /\ user[t] = "adding"
      /\ list' = [list EXCEPT ![c] = InsertBefore(@, Position(@, t), t)]
      /\ due' = IF at = 1 THEN [due EXCEPT ![c] = expires[t]] ELSE due
      /\ refs' = [refs EXCEPT ![t] = @ + 1]
      /\ user' = [user EXCEPT ![t] = "holding"]
      /\ UNCHANGED <<now, executing, clock, expires, remaining, called, firing, deferred>>
  BY Zenon DEF AddTimerLocked
<1>2. /\ c \in Clock /\ list \in [Clock -> Seq(Timer)] /\ due \in [Clock -> Time]
      /\ expires \in [Timer -> Time] /\ refs \in [Timer -> 0..2] /\ called \in [Timer -> BOOLEAN]
      /\ user \in [Timer -> {"none", "adding", "holding", "cancelled", "missed"}]
  BY Zenon DEF IInv, TypeOK
<1>3. /\ ~Queued(t) /\ t \notin executing /\ ~called[t] /\ refs[t] = 1
  <2>1. UserKnows(t) /\ Counted(t)
    BY Zenon DEF IInv
  <2> QED
    BY <1>1, <2>1 DEF UserKnows, Counted
<1>4. t \notin Range(list[c]) /\ list[c] \in Seq(Timer) /\ Distinct(list[c])
      /\ Ascending(list[c], expires)
  BY <1>2, <1>3, InOwnList, Zenon DEF Queued
<1>5. /\ new \in Seq(Timer) /\ new # <<>>
      /\ Distinct(new) /\ Ascending(new, expires)
      /\ Range(new) = Range(list[c]) \union {t}
      /\ at = 1 => Head(new) = t
      /\ at # 1 => list[c] # <<>> /\ Head(new) = Head(list[c])
  BY Zenon, <1>2, <1>4, Inserted
<1>6. list' = [list EXCEPT ![c] = new]
  BY Zenon, <1>1, <1>2
<1> HIDE DEF new, at
<1>7. due' = [due EXCEPT ![c] = HeadDue(new)]
  <2>1. due[c] = HeadDue(list[c])
    BY Zenon, <1>2 DEF IInv, Sorted
  <2>2. CASE at = 1
    BY Zenon, <1>1, <1>5, <2>2 DEF HeadDue
  <2>3. CASE at # 1
    <3>1. HeadDue(new) = due[c]
      BY Zenon, <1>5, <2>1, <2>3 DEF HeadDue
    <3> QED
      BY Zenon, <1>1, <1>2, <2>3, <3>1
  <2> QED
    BY Zenon, <2>2, <2>3
<1>8. \A u \in Range(new) : clock[u] = c
  BY <1>2, <1>5, InOwnList, Zenon DEF Lists
<1> HIDE DEF c
<1>9. /\ list' \in [Clock -> Seq(Timer)] /\ due' \in [Clock -> Time]
      /\ Sorted'
      /\ \A k \in Clock : \A i, j \in DOMAIN list'[k] :
            clock'[list'[k][i]] = k /\ (list'[k][i] = list'[k][j] => i = j)
      /\ \A u \in Timer : clock[u] = c => (Queued(u)' <=> u \in Range(new))
      /\ \A u \in Timer : clock[u] # c => (Queued(u)' <=> Queued(u))
  <2>1. UNCHANGED <<clock, expires>>
    BY Zenon, <1>1
  <2> QED
    BY <1>2, <1>5, <1>6, <1>7, <1>8, <2>1, OneList, Zenon
<1>10. Queued(t)' /\ \A u \in Timer \ {t} : Queued(u)' <=> Queued(u)
  <2>1. \A u \in Timer : clock[u] = c => (Queued(u) <=> u \in Range(list[c]))
    BY Zenon DEF Queued
  <2> QED
    BY Zenon, <1>5, <1>9, <2>1 DEF c
<1>11. /\ refs' \in [Timer -> 0..2] /\ refs'[t] = 2 /\ user'[t] = "holding"
       /\ user' \in [Timer -> {"none", "adding", "holding", "cancelled", "missed"}]
       /\ \A u \in Timer \ {t} : refs'[u] = refs[u] /\ user'[u] = user[u]
  BY SMTT(30), <1>1, <1>2, <1>3
<1>12. TypeOK'
  BY Zenon, <1>1, <1>9, <1>11 DEF IInv, TypeOK
<1>13. Deferred'
  BY SMTT(30), <1>1 DEF IInv, Deferred
<1>14. \A u \in Timer \ {t} : UserKnows(u)' /\ Counted(u)'
  BY Zenon, <1>1, <1>10, <1>11, SameTimer DEF IInv
<1>15. UserKnows(t)' /\ Counted(t)'
  <2>1. ~called'[t] /\ t \notin executing'
    BY Zenon, <1>1, <1>3
  <2> QED
    BY <1>10, <1>11, <2>1 DEF UserKnows, Counted
<1> QED
  BY <1>9, <1>10, <1>12, <1>13, <1>14, <1>15, Zenon DEF IInv, OnlyQueues

\* cancel_timer of a queued timer.
LEMMA CancelKeeps ==
    ASSUME IInv, NEW t \in Timer, Cancel(t)
    PROVE  IInv' /\ ~Queued(t)' /\ OnlyQueues(t)
<1> DEFINE c == clock[t]
           new == Unlinked(list[c], t)
<1>1. /\ user[t] = "holding" /\ Queued(t)
      /\ list' = [list EXCEPT ![c] = new]
      /\ due' = IF Head(list[c]) = t THEN [due EXCEPT ![c] = HeadDue(new)] ELSE due
      /\ remaining' = IF expires[t] > now[c]
                      THEN [remaining EXCEPT ![t] = expires[t] - now[c]] ELSE remaining
      /\ refs' = [refs EXCEPT ![t] = @ - 1]
      /\ user' = [user EXCEPT ![t] = "cancelled"]
      /\ UNCHANGED <<now, executing, clock, expires, called, firing, deferred>>
  BY Zenon DEF Cancel, RemoveTimerLocked
<1>2. /\ c \in Clock /\ list \in [Clock -> Seq(Timer)] /\ due \in [Clock -> Time]
      /\ now \in [Clock -> Time] /\ remaining \in [Timer -> Time]
      /\ expires \in [Timer -> Time] /\ refs \in [Timer -> 0..2] /\ called \in [Timer -> BOOLEAN]
      /\ user \in [Timer -> {"none", "adding", "holding", "cancelled", "missed"}]
  BY Zenon DEF IInv, TypeOK
<1>3. /\ t \notin executing /\ ~called[t] /\ refs[t] = 2
  <2>1. UserKnows(t) /\ Counted(t)
    BY Zenon DEF IInv
  <2> QED
    BY <1>1, <2>1 DEF UserKnows, Counted
<1>4. t \in Range(list[c]) /\ list[c] \in Seq(Timer) /\ Distinct(list[c])
      /\ Ascending(list[c], expires)
  BY <1>1, <1>2, InOwnList, Zenon DEF Queued
<1>5. /\ new \in Seq(Timer) /\ Distinct(new) /\ Ascending(new, expires)
      /\ Range(new) = Range(list[c]) \ {t}
      /\ Head(list[c]) # t => new # <<>> /\ Head(new) = Head(list[c])
  BY <1>4, Removed, Zenon
<1> HIDE DEF new
<1>6. due' = [due EXCEPT ![c] = HeadDue(new)]
  <2>1. due[c] = HeadDue(list[c])
    BY Zenon, <1>2 DEF IInv, Sorted
  <2>2. CASE Head(list[c]) = t
    BY Zenon, <1>1, <2>2
  <2>3. CASE Head(list[c]) # t
    <3>1. list[c] # <<>>
      BY <1>4 DEF Range
    <3>2. HeadDue(new) = due[c]
      BY Zenon, <1>5, <2>1, <2>3, <3>1 DEF HeadDue
    <3> QED
      BY Zenon, <1>1, <1>2, <2>3, <3>2
  <2> QED
    BY Zenon, <2>2, <2>3
<1>7. \A u \in Range(new) : clock[u] = c
  BY <1>2, <1>5, InOwnList, Zenon DEF Lists
<1> HIDE DEF c
<1>8. /\ list' \in [Clock -> Seq(Timer)] /\ due' \in [Clock -> Time]
      /\ Sorted'
      /\ \A k \in Clock : \A i, j \in DOMAIN list'[k] :
            clock'[list'[k][i]] = k /\ (list'[k][i] = list'[k][j] => i = j)
      /\ \A u \in Timer : clock[u] = c => (Queued(u)' <=> u \in Range(new))
      /\ \A u \in Timer : clock[u] # c => (Queued(u)' <=> Queued(u))
  <2>1. UNCHANGED <<clock, expires>> /\ list' = [list EXCEPT ![c] = new]
    BY Zenon, <1>1
  <2> QED
    BY <1>2, <1>5, <1>6, <1>7, <2>1, OneList, Zenon
<1>9. ~Queued(t)' /\ \A u \in Timer \ {t} : Queued(u)' <=> Queued(u)
  <2>1. \A u \in Timer : clock[u] = c => (Queued(u) <=> u \in Range(list[c]))
    BY Zenon DEF Queued
  <2> QED
    BY Zenon, <1>5, <1>8, <2>1 DEF c
<1>10. /\ refs' \in [Timer -> 0..2] /\ refs'[t] = 1 /\ user'[t] = "cancelled"
       /\ user' \in [Timer -> {"none", "adding", "holding", "cancelled", "missed"}]
       /\ \A u \in Timer \ {t} : refs'[u] = refs[u] /\ user'[u] = user[u]
  BY <1>1, <1>2, <1>3
<1>11. remaining' \in [Timer -> Time]
  BY SMTT(30), <1>1, <1>2, TimerAssumption DEF Time
<1>12. TypeOK'
  BY Zenon, <1>1, <1>8, <1>10, <1>11 DEF IInv, TypeOK
<1>13. Deferred'
  BY SMTT(30), <1>1 DEF IInv, Deferred
<1>14. \A u \in Timer \ {t} : UserKnows(u)' /\ Counted(u)'
  BY Zenon, <1>1, <1>9, <1>10, SameTimer DEF IInv
<1>15. UserKnows(t)' /\ Counted(t)'
  <2>1. ~called'[t] /\ t \notin executing'
    BY Zenon, <1>1, <1>3
  <2> QED
    BY <1>9, <1>10, <2>1 DEF UserKnows, Counted
<1> QED
  BY <1>8, <1>9, <1>12, <1>13, <1>14, <1>15, Zenon DEF IInv, OnlyQueues

\* cancel_timer of a timer whose handler has completed.
LEMMA CancelTooLateKeeps ==
    ASSUME IInv, NEW t \in Timer, CancelTooLate(t)
    PROVE  IInv'
<1>1. /\ user[t] = "holding" /\ ~Queued(t) /\ t \notin executing
      /\ user' = [user EXCEPT ![t] = "missed"]
      /\ UNCHANGED <<now, list, due, executing, clock, expires, remaining, refs, called,
                     firing, deferred>>
  BY Zenon DEF CancelTooLate, queueVars
<1>2. /\ user' \in [Timer -> {"none", "adding", "holding", "cancelled", "missed"}]
      /\ user'[t] = "missed" /\ \A u \in Timer \ {t} : user'[u] = user[u]
  BY SMTT(30), <1>1 DEF IInv, TypeOK
<1>3. \A u \in Timer : Queued(u)' <=> Queued(u)
  BY Zenon, <1>1 DEF Queued
<1>4. TypeOK'
  BY SMTT(30), <1>1, <1>2 DEF IInv, TypeOK
<1>5. Sorted' /\ Deferred'
  BY Zenon, <1>1, ListsUntouched
<1>6. \A u \in Timer \ {t} : UserKnows(u)' /\ Counted(u)'
  BY Zenon, <1>1, <1>2, <1>3, SameTimer DEF IInv
<1>7. UserKnows(t)' /\ Counted(t)'
  <2>1. UserKnows(t) /\ Counted(t)
    BY Zenon DEF IInv
  <2> QED
    BY Zenon, <1>1, <1>2, <1>3, <2>1 DEF UserKnows, Counted
<1> QED
  BY <1>4, <1>5, <1>6, <1>7, Zenon DEF IInv

\* What unref leaves of a timer that is in no list.
LEMMA Unreferenced ==
    ASSUME IInv, NEW t \in Timer, Unref(t), UNCHANGED <<list, due>>, ~Queued(t), refs[t] > 0
    PROVE  /\ clock' \in [Timer -> Clock] /\ expires' \in [Timer -> Time]
           /\ remaining' \in [Timer -> Time] /\ refs' \in [Timer -> 0..2]
           /\ called' \in [Timer -> BOOLEAN]
           /\ refs'[t] = refs[t] - 1 /\ (refs[t] # 1 => called'[t] = called[t])
           /\ \A u \in Timer \ {t} : refs'[u] = refs[u] /\ called'[u] = called[u]
           /\ Sorted'
           /\ \A c \in Clock : \A i, j \in DOMAIN list'[c] :
                clock'[list'[c][i]] = c /\ (list'[c][i] = list'[c][j] => i = j)
           /\ \A u \in Timer : Queued(u)' <=> Queued(u)
<1>1. /\ clock \in [Timer -> Clock] /\ expires \in [Timer -> Time] /\ remaining \in [Timer -> Time]
      /\ refs \in [Timer -> 0..2] /\ called \in [Timer -> BOOLEAN]
  BY Zenon DEF IInv, TypeOK
<1>2. refs' \in [Timer -> 0..2] /\ refs'[t] = refs[t] - 1
      /\ \A u \in Timer \ {t} : refs'[u] = refs[u]
  BY <1>1 DEF Unref
<1>3. /\ clock' \in [Timer -> Clock] /\ expires' \in [Timer -> Time]
      /\ remaining' \in [Timer -> Time]
  BY <1>1, TimerAssumption DEF Unref, Time, Clock
<1>4. called' \in [Timer -> BOOLEAN] /\ \A u \in Timer \ {t} : called'[u] = called[u]
  BY Zenon, <1>1 DEF Unref
<1>5. \A u \in Timer \ {t} : clock'[u] = clock[u] /\ expires'[u] = expires[u]
  BY Zenon, <1>1 DEF Unref
<1>6. \A u \in Timer : Queued(u) => clock'[u] = clock[u] /\ expires'[u] = expires[u]
  BY <1>5, Zenon
<1>7. refs[t] # 1 => called'[t] = called[t]
  BY Zenon DEF Unref
<1> QED
  BY Zenon, <1>2, <1>3, <1>4, <1>6, <1>7, SameLists

\* The user lets go of its timer.
LEMMA DropTimerKeeps ==
    ASSUME IInv, NEW t \in Timer, Drop(t)
    PROVE  IInv' /\ QueuesNone
<1>1. /\ user[t] \in {"cancelled", "missed"} \/ (user[t] = "holding" /\ called[t])
      /\ Unref(t)
      /\ user' = [user EXCEPT ![t] = "none"]
      /\ UNCHANGED <<now, list, due, executing, firing, deferred>>
  BY Zenon DEF Drop, queueVars
<1>2. UserKnows(t) /\ Counted(t) /\ refs \in [Timer -> 0..2]
  BY Zenon DEF IInv, TypeOK
<1>3. ~Queued(t) /\ refs[t] = IF t \in executing THEN 2 ELSE 1
  BY <1>1, <1>2 DEF UserKnows, Counted
<1>4. /\ clock' \in [Timer -> Clock] /\ expires' \in [Timer -> Time]
      /\ remaining' \in [Timer -> Time] /\ refs' \in [Timer -> 0..2]
      /\ called' \in [Timer -> BOOLEAN]
      /\ refs'[t] = refs[t] - 1 /\ (refs[t] # 1 => called'[t] = called[t])
      /\ \A u \in Timer \ {t} : refs'[u] = refs[u] /\ called'[u] = called[u]
      /\ Sorted'
      /\ \A c \in Clock : \A i, j \in DOMAIN list'[c] :
            clock'[list'[c][i]] = c /\ (list'[c][i] = list'[c][j] => i = j)
      /\ \A u \in Timer : Queued(u)' <=> Queued(u)
  <2>1. UNCHANGED <<list, due>> /\ refs[t] > 0
    BY <1>1, <1>3
  <2> QED
    BY <1>1, <1>3, <2>1, Unreferenced, Zenon
<1>5. /\ user' \in [Timer -> {"none", "adding", "holding", "cancelled", "missed"}]
      /\ user'[t] = "none" /\ \A u \in Timer \ {t} : user'[u] = user[u]
  BY SMTT(30), <1>1 DEF IInv, TypeOK
<1>6. TypeOK'
  BY Zenon, <1>1, <1>4, <1>5 DEF IInv, TypeOK
<1>7. Deferred'
  BY SMTT(30), <1>1 DEF IInv, Deferred
<1>8. \A u \in Timer \ {t} : UserKnows(u)' /\ Counted(u)'
  BY ZenonT(40), <1>1, <1>4, <1>5, SameTimer DEF IInv
<1>9. UserKnows(t)' /\ Counted(t)'
  <2>1. t \in executing => called[t] /\ called'[t] = called[t]
    BY <1>1, <1>2, <1>3, <1>4 DEF UserKnows
  <2> QED
    BY SMTT(30), <1>1, <1>3, <1>4, <1>5, <2>1 DEF UserKnows, Counted
<1> QED
  BY <1>4, <1>6, <1>7, <1>8, <1>9, Zenon DEF IInv, QueuesNone

\* The first deferred call of a processor is of a timer that executes.
LEMMA FirstDeferred ==
    ASSUME IInv, NEW p \in Processor, deferred[p] # <<>>
    PROVE  /\ Head(deferred[p]) \in Timer /\ Head(deferred[p]) \in executing
           /\ 1 \in DOMAIN deferred[p] /\ Head(deferred[p]) = deferred[p][1]
<1>1. deferred[p] \in Seq(Timer)
  BY Zenon DEF IInv, TypeOK
<1>2. 1 \in DOMAIN deferred[p] /\ Head(deferred[p]) = deferred[p][1] /\ deferred[p][1] \in Timer
  BY <1>1
<1>3. Head(deferred[p]) \in Range(deferred[p])
  BY Zenon, <1>2 DEF Range
<1> QED
  BY <1>2, <1>3, Zenon DEF IInv, Deferred

\* The handler runs.
LEMMA RunCallbackKeeps ==
    ASSUME IInv, NEW p \in Processor, RunCallback(p)
    PROVE  IInv'
<1>2. PICK t \in Timer : t \in executing /\ t = Head(deferred[p])
  <2>1. deferred[p] # <<>>
    BY Zenon DEF RunCallback
  <2> QED
    BY Zenon, <2>1, FirstDeferred
<1>1. /\ ~called[t]
      /\ called' = [called EXCEPT ![t] = TRUE]
      /\ UNCHANGED <<now, list, due, executing, clock, expires, remaining, refs, user,
                     firing, deferred>>
  BY Zenon, <1>2 DEF RunCallback, queueVars
<1>3. called' \in [Timer -> BOOLEAN] /\ called'[t] = TRUE
      /\ \A u \in Timer \ {t} : called'[u] = called[u]
  <2>1. called \in [Timer -> BOOLEAN] /\ called' = [called EXCEPT ![t] = TRUE]
    BY Zenon, <1>1 DEF IInv, TypeOK
  <2> QED
    BY Zenon, <2>1
<1>4. \A u \in Timer : Queued(u)' <=> Queued(u)
  BY Zenon, <1>1 DEF Queued
<1>5. TypeOK'
  BY SMTT(30), <1>1, <1>3 DEF IInv, TypeOK
<1>6. Sorted' /\ Deferred'
  BY Zenon, <1>1, ListsUntouched
<1>7. \A u \in Timer \ {t} : UserKnows(u)' /\ Counted(u)'
  BY Zenon, <1>1, <1>3, <1>4, SameTimer DEF IInv
<1>8. UserKnows(t)' /\ Counted(t)'
  <2>1. /\ UserKnows(t) /\ Counted(t)
        /\ user[t] \in {"none", "adding", "holding", "cancelled", "missed"}
    BY Zenon, <1>2 DEF IInv, TypeOK
  <2>2. ~called[t]
    BY Zenon, <1>1
  <2>3. user[t] = "holding" /\ ~Queued(t)
    BY Zenon, <1>2, <2>1, <2>2 DEF UserKnows
  <2>4. user'[t] = "holding" /\ ~Queued(t)' /\ t \in executing'
    BY Zenon, <1>1, <1>2, <1>4, <2>3
  <2>5. UserKnows(t)'
    BY Zenon, <2>4 DEF UserKnows
  <2>6. refs'[t] = refs[t]
    BY Zenon, <1>1
  <2>7. Counted(t)'
    BY Zenon, <1>2, <2>1, <2>3, <2>4, <2>6 DEF Counted
  <2> QED
    BY Zenon, <2>5, <2>7
<1> QED
  BY <1>5, <1>6, <1>7, <1>8, Zenon DEF IInv

\* deferred_call_queue of a timer that was not executing.
LEMMA DeferOne ==
    ASSUME IInv, NEW p \in Processor, NEW t \in Timer, t \notin executing,
           executing' = executing \union {t},
           deferred' = [deferred EXCEPT ![p] = Append(@, t)]
    PROVE  deferred' \in [Processor -> Seq(Timer)] /\ Deferred'
<1>1. deferred \in [Processor -> Seq(Timer)]
  BY Zenon DEF IInv, TypeOK
<1> DEFINE s == deferred[p]
           n == Len(s)
           e == deferred'[p]
<1>2. deferred' \in [Processor -> Seq(Timer)] /\ \A r \in Processor \ {p} : deferred'[r] = deferred[r]
  BY <1>1
<1>3. /\ s \in Seq(Timer) /\ n \in Nat /\ DOMAIN s = 1 .. n /\ DOMAIN e = 1 .. n + 1
      /\ e[n + 1] = t /\ \A i \in 1 .. n : e[i] = s[i]
  <2>1. s \in Seq(Timer) /\ e = Append(s, t)
    BY Zenon, <1>1
  <2> QED
    BY <2>1
<1>4. \A r \in Processor : \A i \in DOMAIN deferred[r] : deferred[r][i] # t
  <2>1. \A r \in Processor : t \notin Range(deferred[r])
    BY Zenon DEF IInv, Deferred
  <2> QED
    BY <2>1, Zenon DEF Range
<1> HIDE DEF s, n, e
<1>5. Range(e) = Range(s) \union {t}
  <2>1. \A i \in DOMAIN e : e[i] = t \/ (i \in DOMAIN s /\ e[i] = s[i])
    BY <1>3
  <2>2. \A i \in DOMAIN s : i \in DOMAIN e /\ e[i] = s[i]
    BY <1>3
  <2>3. n + 1 \in DOMAIN e /\ e[n + 1] = t
    BY <1>3
  <2> QED
    BY <2>1, <2>2, <2>3, Zenon DEF Range
<1>6. ASSUME NEW u \in Timer
      PROVE  u \in executing' <=> \E r \in Processor : u \in Range(deferred'[r])
  <2>1. u \in executing <=> \E r \in Processor : u \in Range(deferred[r])
    BY Zenon DEF IInv, Deferred
  <2>2. \A r \in Processor : u \in Range(deferred'[r]) <=> u \in Range(deferred[r]) \/ (r = p /\ u = t)
    BY Zenon, <1>2, <1>5 DEF e, s
  <2> QED
    BY Zenon, <2>1, <2>2
<1>7. ASSUME NEW q \in Processor, NEW r \in Processor,
             NEW i \in DOMAIN deferred'[q], NEW j \in DOMAIN deferred'[r],
             deferred'[q][i] = deferred'[r][j]
      PROVE  q = r /\ i = j
  <2>1. \/ i \in DOMAIN deferred[q] /\ deferred'[q][i] = deferred[q][i]
        \/ q = p /\ i = n + 1 /\ deferred'[q][i] = t
    BY <1>2, <1>3 DEF e, s
  <2>2. \/ j \in DOMAIN deferred[r] /\ deferred'[r][j] = deferred[r][j]
        \/ r = p /\ j = n + 1 /\ deferred'[r][j] = t
    BY <1>2, <1>3 DEF e, s
  <2>3. \A a, b \in Processor : \A k \in DOMAIN deferred[a], m \in DOMAIN deferred[b] :
            deferred[a][k] = deferred[b][m] => a = b /\ k = m
    BY Zenon DEF IInv, Deferred
  <2>4. CASE i \in DOMAIN deferred[q] /\ deferred'[q][i] = deferred[q][i]
    <3>1. deferred[q][i] # t
      BY Zenon, <1>4, <2>4
    <3>2. j \in DOMAIN deferred[r] /\ deferred[r][j] = deferred[q][i]
      BY Zenon, <1>7, <2>2, <2>4, <3>1
    <3> QED
      BY <2>3, <2>4, <3>2
  <2>5. CASE q = p /\ i = n + 1 /\ deferred'[q][i] = t
    <3>1. r = p /\ j = n + 1
      BY <1>4, <1>7, <2>2, <2>5
    <3> QED
      BY Zenon, <2>5, <3>1
  <2> QED
    BY Zenon, <2>1, <2>4, <2>5
<1> QED
  BY <1>2, <1>6, <1>7, Zenon DEF Deferred

\* A deferred call has ended.
LEMMA FinishOne ==
    ASSUME IInv, NEW p \in Processor, NEW t \in Timer,
           deferred[p] # <<>>, t = Head(deferred[p]),
           executing' = executing \ {t},
           deferred' = [deferred EXCEPT ![p] = Tail(@)]
    PROVE  deferred' \in [Processor -> Seq(Timer)] /\ Deferred'
<1>1. deferred \in [Processor -> Seq(Timer)]
  BY Zenon DEF IInv, TypeOK
<1> DEFINE s == deferred[p]
           n == Len(s)
           e == deferred'[p]
<1>2. deferred' \in [Processor -> Seq(Timer)] /\ \A r \in Processor \ {p} : deferred'[r] = deferred[r]
  BY <1>1
<1>3. /\ n \in Nat /\ DOMAIN s = 1 .. n /\ DOMAIN e = 1 .. n - 1
      /\ 1 \in DOMAIN s /\ s[1] = t /\ \A i \in 1 .. n - 1 : e[i] = s[i + 1]
  <2>1. s \in Seq(Timer) /\ e = Tail(s) /\ s # <<>> /\ t = Head(s)
    BY Zenon, <1>1
  <2> HIDE DEF s, e
  <2>2. n \in Nat /\ DOMAIN s = 1 .. n
    BY <2>1
  <2>3. /\ 1 \in DOMAIN s /\ Head(s) = s[1]
        /\ Tail(s) \in Seq(Timer) /\ Len(Tail(s)) = Len(s) - 1
        /\ \A k \in DOMAIN Tail(s) : Tail(s)[k] = s[k + 1]
    BY <2>1, HeadAndTail, Zenon
  <2>4. DOMAIN e = 1 .. n - 1
    BY <2>1, <2>3
  <2> HIDE DEF n
  <2> QED
    BY Zenon, <2>1, <2>2, <2>3, <2>4
<1>4. \A a, b \in Processor : \A k \in DOMAIN deferred[a], m \in DOMAIN deferred[b] :
            deferred[a][k] = deferred[b][m] => a = b /\ k = m
  BY Zenon DEF IInv, Deferred
<1> HIDE DEF s, n, e
<1>5. ASSUME NEW u \in Timer, NEW r \in Processor
      PROVE  u \in Range(deferred'[r]) <=> u \in Range(deferred[r]) /\ u # t
  <2>1. ASSUME NEW k \in DOMAIN deferred'[r], u = deferred'[r][k]
        PROVE  u \in Range(deferred[r]) /\ u # t
    <3>1. CASE r = p
      <4>1. k + 1 \in DOMAIN s /\ u = s[k + 1] /\ k + 1 # 1
        BY <1>3, <2>1, <3>1 DEF e
      <4>2. u # t
        BY <1>3, <1>4, <4>1 DEF s
      <4> QED
        BY <3>1, <4>1, <4>2 DEF s, Range
    <3>2. CASE r # p
      <4>1. k \in DOMAIN deferred[r] /\ u = deferred[r][k]
        BY Zenon, <1>2, <2>1, <3>2
      <4>2. u # t
        BY <1>3, <1>4, <3>2, <4>1 DEF s
      <4> QED
        BY Zenon, <4>1, <4>2 DEF Range
    <3> QED
      BY Zenon, <3>1, <3>2
  <2>2. ASSUME NEW k \in DOMAIN deferred[r], u = deferred[r][k], u # t
        PROVE  u \in Range(deferred'[r])
    <3>1. CASE r = p
      <4>1. k - 1 \in DOMAIN e /\ e[k - 1] = u
        <5>1. k \in 1 .. n /\ k # 1
          BY Zenon, <1>3, <2>2, <3>1 DEF s
        <5>2. k - 1 \in 1 .. n - 1 /\ (k - 1) + 1 = k
          BY <1>3, <5>1
        <5> QED
          BY Zenon, <1>3, <2>2, <3>1, <5>2 DEF s
      <4> QED
        BY Zenon, <3>1, <4>1 DEF e, Range
    <3>2. CASE r # p
      BY Zenon, <1>2, <2>2, <3>2 DEF Range
    <3> QED
      BY Zenon, <3>1, <3>2
  <2> QED
    BY <2>1, <2>2, Zenon DEF Range
<1>6. ASSUME NEW u \in Timer
      PROVE  u \in executing' <=> \E r \in Processor : u \in Range(deferred'[r])
  <2>1. u \in executing <=> \E r \in Processor : u \in Range(deferred[r])
    BY Zenon DEF IInv, Deferred
  <2> QED
    BY Zenon, <1>5, <2>1
<1>7. ASSUME NEW q \in Processor, NEW r \in Processor,
             NEW i \in DOMAIN deferred'[q], NEW j \in DOMAIN deferred'[r],
             deferred'[q][i] = deferred'[r][j]
      PROVE  q = r /\ i = j
  <2> DEFINE from(a, k) == IF a = p THEN k + 1 ELSE k
  <2>1. from(q, i) \in DOMAIN deferred[q] /\ deferred'[q][i] = deferred[q][from(q, i)]
    BY <1>2, <1>3 DEF e, s
  <2>2. from(r, j) \in DOMAIN deferred[r] /\ deferred'[r][j] = deferred[r][from(r, j)]
    BY <1>2, <1>3 DEF e, s
  <2> HIDE DEF from
  <2>5. deferred[q][from(q, i)] = deferred[r][from(r, j)]
    BY Zenon, <1>7, <2>1, <2>2
  <2>3. q = r /\ from(q, i) = from(r, j)
    BY <1>4, <2>1, <2>2, <2>5
  <2>4. i \in Nat /\ j \in Nat
    <3>1. deferred'[q] \in Seq(Timer) /\ deferred'[r] \in Seq(Timer)
      BY Zenon, <1>2
    <3> QED
      BY <3>1
  <2> QED
    BY <2>3, <2>4 DEF from
<1> QED
  BY <1>2, <1>6, <1>7, Zenon DEF Deferred

\* One turn of fire(): the head goes from its list to m_timers_executing.
LEMMA FireKeeps ==
    ASSUME IInv, NEW p \in Processor, NEW c \in Clock, FireTimer(p, c)
    PROVE  /\ IInv'
           /\ \E t \in Timer : t = Head(list[c]) /\ clock[t] = c /\ Queued(t)
                             /\ ~Queued(t)' /\ OnlyQueues(t)
<1>1. list \in [Clock -> Seq(Timer)] /\ list[c] # <<>> /\ firing \in [Processor -> Clock \union {"idle"}]
  BY Zenon DEF IInv, TypeOK, FireTimer, MayFire, Due
<1>2. list[c] \in Seq(Timer) /\ Distinct(list[c]) /\ Ascending(list[c], expires)
  BY InOwnList, Zenon
<1>3. PICK new \in Seq(Timer) : new = Tail(list[c])
  <2>1. Tail(list[c]) \in Seq(Timer)
    BY <1>1, <1>2
  <2> QED
    BY <2>1, Zenon
<1>4. PICK t \in Timer : t = Head(list[c])
  BY <1>1
<1>5. /\ t \in Range(list[c]) /\ Distinct(new) /\ Ascending(new, expires)
      /\ Range(new) = Range(list[c]) \ {t}
  <2>1. /\ Head(list[c]) \in Range(list[c])
        /\ Distinct(Tail(list[c])) /\ Ascending(Tail(list[c]), expires)
        /\ Range(Tail(list[c])) = Range(list[c]) \ {Head(list[c])}
    BY <1>1, <1>2, Popped, Zenon
  <2> QED
    BY Zenon, <1>3, <1>4, <2>1
<1>6. /\ list' = [list EXCEPT ![c] = new]
      /\ due' = [due EXCEPT ![c] = HeadDue(new)]
      /\ executing' = executing \union {t}
      /\ deferred' = [deferred EXCEPT ![p] = Append(@, t)]
      /\ firing' = [firing EXCEPT ![p] = c]
      /\ UNCHANGED <<now, clock, expires, remaining, refs, called, user>>
  BY Zenon, <1>1, <1>3, <1>4 DEF FireTimer, timerVars
<1>7. Queued(t) /\ clock[t] = c
  BY <1>5, InOwnList, Zenon
<1>8. UserKnows(t) /\ Counted(t)
      /\ user[t] \in {"none", "adding", "holding", "cancelled", "missed"}
  BY Zenon DEF IInv, TypeOK
<1>9. t \notin executing /\ user[t] = "holding"
  BY Zenon, <1>7, <1>8 DEF UserKnows
<1>10. deferred' \in [Processor -> Seq(Timer)] /\ Deferred'
  BY <1>6, <1>9, DeferOne, Zenon
<1>11. /\ list' \in [Clock -> Seq(Timer)] /\ due' \in [Clock -> Time]
       /\ Sorted'
       /\ \A k \in Clock : \A i, j \in DOMAIN list'[k] :
            clock'[list'[k][i]] = k /\ (list'[k][i] = list'[k][j] => i = j)
       /\ \A u \in Timer : clock[u] = c => (Queued(u)' <=> u \in Range(new))
       /\ \A u \in Timer : clock[u] # c => (Queued(u)' <=> Queued(u))
  <2>1. \A u \in Range(new) : clock[u] = c
    BY <1>5, InOwnList, Zenon DEF Lists
  <2>2. UNCHANGED <<clock, expires>>
    BY Zenon, <1>6
  <2> QED
    BY <1>5, <1>6, <2>1, <2>2, OneList, Zenon
<1>12. ~Queued(t)' /\ \A u \in Timer \ {t} : Queued(u)' <=> Queued(u)
  <2>1. \A u \in Timer : clock[u] = c => (Queued(u) <=> u \in Range(list[c]))
    BY Zenon DEF Queued
  <2> QED
    BY Zenon, <1>5, <1>7, <1>11, <2>1
<1>13. firing' \in [Processor -> Clock \union {"idle"}] /\ executing' \subseteq Timer
  BY <1>1, <1>6 DEF IInv, TypeOK
<1>14. TypeOK'
  BY Zenon, <1>6, <1>10, <1>11, <1>13 DEF IInv, TypeOK
<1>15. \A u \in Timer \ {t} : UserKnows(u)' /\ Counted(u)'
  BY Zenon, <1>6, <1>12, SameTimer DEF IInv
<1>16. UserKnows(t)' /\ Counted(t)'
  <2>1. user'[t] = "holding" /\ t \in executing' /\ refs'[t] = refs[t]
    BY Zenon, <1>6, <1>9
  <2>2. UserKnows(t)'
    BY Zenon, <1>12, <2>1 DEF UserKnows
  <2>3. Counted(t)'
    BY Zenon, <1>7, <1>8, <1>9, <1>12, <2>1 DEF Counted
  <2> QED
    BY Zenon, <2>2, <2>3
<1>17. OnlyQueues(t)
  BY Zenon, <1>12 DEF OnlyQueues
<1> QED
  BY <1>4, <1>7, <1>10, <1>11, <1>12, <1>14, <1>15, <1>16, <1>17, Zenon DEF IInv

\* The end of a deferred call.
LEMMA FinishKeeps ==
    ASSUME IInv, NEW p \in Processor, FinishTimer(p)
    PROVE  IInv' /\ QueuesNone
<1>1. PICK t \in Timer : t \in executing /\ t = Head(deferred[p]) /\ deferred[p] # <<>>
  <2>1. deferred[p] # <<>>
    BY Zenon DEF FinishTimer
  <2> QED
    BY Zenon, <2>1, FirstDeferred
<1>2. /\ called[t]
      /\ executing' = executing \ {t}
      /\ deferred' = [deferred EXCEPT ![p] = Tail(@)]
      /\ Unref(t)
      /\ UNCHANGED <<now, list, due, user, firing>>
  BY Zenon, <1>1 DEF FinishTimer
<1>3. /\ UserKnows(t) /\ Counted(t) /\ refs \in [Timer -> 0..2]
      /\ user[t] \in {"none", "adding", "holding", "cancelled", "missed"}
  BY Zenon DEF IInv, TypeOK
<1>4. ~Queued(t) /\ user[t] \in {"none", "holding"} /\ refs[t] = IF user[t] = "none" THEN 1 ELSE 2
  BY <1>1, <1>3 DEF UserKnows, Counted
<1>5. deferred' \in [Processor -> Seq(Timer)] /\ Deferred'
  BY <1>1, <1>2, FinishOne, Zenon
<1>6. /\ clock' \in [Timer -> Clock] /\ expires' \in [Timer -> Time]
      /\ remaining' \in [Timer -> Time] /\ refs' \in [Timer -> 0..2]
      /\ called' \in [Timer -> BOOLEAN]
      /\ refs'[t] = refs[t] - 1 /\ (refs[t] # 1 => called'[t] = called[t])
      /\ \A u \in Timer \ {t} : refs'[u] = refs[u] /\ called'[u] = called[u]
      /\ Sorted'
      /\ \A c \in Clock : \A i, j \in DOMAIN list'[c] :
            clock'[list'[c][i]] = c /\ (list'[c][i] = list'[c][j] => i = j)
      /\ \A u \in Timer : Queued(u)' <=> Queued(u)
  <2>1. UNCHANGED <<list, due>> /\ refs[t] > 0
    BY SMTT(30), <1>2, <1>4
  <2> QED
    BY <1>2, <1>4, <2>1, Unreferenced, Zenon
<1>7. TypeOK'
  BY Zenon, <1>2, <1>5, <1>6 DEF IInv, TypeOK
<1>8. \A u \in Timer \ {t} : UserKnows(u)' /\ Counted(u)'
  BY ZenonT(60), <1>2, <1>6, SameTimer DEF IInv
<1>9. UserKnows(t)' /\ Counted(t)'
  <2>1. user'[t] = user[t] /\ t \notin executing' /\ ~Queued(t)'
    BY Zenon, <1>2, <1>4, <1>6
  <2>2. user[t] = "holding" => called'[t]
    <3>1. user[t] = "holding" => refs[t] # 1
      BY <1>4
    <3>2. refs[t] # 1 => called'[t]
      BY ZenonT(60), <1>2, <1>6
    <3> QED
      BY Zenon, <3>1, <3>2
  <2>3. UserKnows(t)'
    BY Zenon, <1>4, <2>1, <2>2 DEF UserKnows
  <2>4. Counted(t)'
    BY <1>4, <1>6, <2>1 DEF Counted
  <2> QED
    BY Zenon, <2>3, <2>4
<1> QED
  BY <1>5, <1>6, <1>7, <1>8, <1>9, Zenon DEF IInv, QueuesNone

-----------------------------------------------------------------------------
(* The theorems                                                            *)

\* The initial state: no timers.
LEMMA InitInv == Init => IInv
<1> SUFFICES ASSUME Init PROVE IInv
  BY Zenon
<1>1. \A c \in Clock : list[c] = <<>> /\ DOMAIN list[c] = {} /\ Range(list[c]) = {} /\ due[c] = 0
  BY DEF Init, Range
<1>2. \A p \in Processor : deferred[p] = <<>> /\ DOMAIN deferred[p] = {} /\ Range(deferred[p]) = {}
  BY DEF Init, Range
<1>3. \A t \in Timer : clock[t] \in Clock /\ refs[t] = 0 /\ user[t] = "none"
  BY Zenon DEF Init, Clock
<1>4. /\ now \in [Clock -> Time] /\ due \in [Clock -> Time]
      /\ expires \in [Timer -> Time] /\ remaining \in [Timer -> Time]
  BY TimerAssumption DEF Init, Time
<1>5. /\ clock \in [Timer -> Clock] /\ refs \in [Timer -> 0..2] /\ called \in [Timer -> BOOLEAN]
      /\ user \in [Timer -> {"none", "adding", "holding", "cancelled", "missed"}]
      /\ firing \in [Processor -> Clock \union {"idle"}]
      /\ list \in [Clock -> Seq(Timer)] /\ deferred \in [Processor -> Seq(Timer)]
      /\ executing = {}
  BY DEF Init, Clock
<1>6. TypeOK
  BY Zenon, <1>1, <1>4, <1>5 DEF TypeOK
<1>7. Sorted
  BY Zenon, <1>1 DEF Sorted, HeadDue
<1>8. Deferred
  BY Zenon, <1>2, <1>5 DEF Deferred
<1>9. \A t \in Timer : ~Queued(t)
  BY Zenon, <1>1, <1>3 DEF Queued
<1>10. \A t \in Timer : UserKnows(t) /\ Counted(t)
  BY <1>3, <1>5, <1>9 DEF UserKnows, Counted
<1> QED
  BY Zenon, <1>6, <1>7, <1>8, <1>10 DEF IInv

\* Every step keeps the invariant.
LEMMA NextInv == IInv /\ [Next]_vars => IInv'
<1> SUFFICES ASSUME IInv, [Next]_vars PROVE IInv'
  BY Zenon
<1>0. now \in [Clock -> Time] /\ firing \in [Processor -> Clock \union {"idle"}]
  BY Zenon DEF IInv, TypeOK
<1>1. CASE UNCHANGED vars
  <2>1. UNCHANGED <<queueVars, timerVars, deferred>> /\ now' = now /\ firing' = firing
    BY Zenon, <1>1 DEF vars
  <2> QED
    BY Zenon, <1>0, <2>1, TimeKeeps
<1>2. CASE Tick
  <2>1. now' \in [Clock -> Time] /\ firing' = firing /\ UNCHANGED <<queueVars, timerVars, deferred>>
    BY <1>0, <1>2, TimerAssumption DEF Tick, Time
  <2> QED
    BY Zenon, <1>0, <2>1, TimeKeeps
<1>3. ASSUME NEW v \in Time, SetTime(v) PROVE IInv'
  <2>1. now' \in [Clock -> Time] /\ firing' = firing /\ UNCHANGED <<queueVars, timerVars, deferred>>
    BY Zenon, <1>0, <1>3 DEF SetTime
  <2> QED
    BY Zenon, <1>0, <2>1, TimeKeeps
<1>4. ASSUME NEW p \in Processor, FireEnd(p) PROVE IInv'
  <2>1. /\ firing' \in [Processor -> Clock \union {"idle"}] /\ now' = now
        /\ UNCHANGED <<queueVars, timerVars, deferred>>
    BY Zenon, <1>0, <1>4 DEF FireEnd
  <2> QED
    BY Zenon, <1>0, <2>1, TimeKeeps
<1>5. ASSUME NEW p \in Processor, ProcessorStep(p) PROVE IInv'
  BY <1>4, <1>5, FireKeeps, RunCallbackKeeps, FinishKeeps, Zenon DEF ProcessorStep
<1>6. ASSUME NEW t \in Timer,
             \/ \E c \in Clock, deadline \in Time : Create(t, c, deadline)
             \/ AddTimerLocked(t) \/ Cancel(t) \/ CancelTooLate(t) \/ Drop(t)
      PROVE  IInv'
  BY <1>6, CreateKeeps, AddKeeps, CancelKeeps, CancelTooLateKeeps, DropTimerKeeps, Zenon
<1>7. CASE Next
  BY <1>2, <1>3, <1>5, <1>6, <1>7, Zenon DEF Next
<1> QED
  BY Zenon, <1>1, <1>7

\* The inductive invariant holds in every reachable state.
THEOREM TimerInvariant == Spec => []IInv
BY InitInv, NextInv, PTL DEF Spec

\* The queues, the timers and the deferred calls keep their types, and a timer
\* is in one list at most, once.
THEOREM TimerTypeCorrect == Spec => []TypeOK
<1>1. IInv => TypeOK
  BY Zenon DEF IInv
<1> QED
  BY <1>1, TimerInvariant, PTL

\* next_timer_due is the earliest deadline of its queue, so the VERIFY at the
\* head of fire() cannot fail.
THEOREM DueIsExact == Spec => []DueExact
<1>1. IInv => DueExact
  <2> SUFFICES ASSUME IInv, NEW c \in Clock
               PROVE  /\ due[c] = HeadDue(list[c])
                      /\ \A t \in Range(list[c]) : due[c] <= expires[t]
    BY Zenon DEF DueExact
  <2>1. /\ due[c] = HeadDue(list[c])
        /\ \A i, j \in DOMAIN list[c] : i <= j => expires[list[c][i]] <= expires[list[c][j]]
    BY Zenon DEF IInv, Sorted
  <2>2. ASSUME NEW i \in DOMAIN list[c] PROVE due[c] <= expires[list[c][i]]
    <3>1. list[c] \in Seq(Timer)
      BY Zenon DEF IInv, TypeOK
    <3>2. list[c] # <<>> /\ 1 \in DOMAIN list[c] /\ 1 <= i /\ Head(list[c]) = list[c][1]
      BY <2>2, <3>1
    <3>3. due[c] = expires[list[c][1]]
      BY Zenon, <2>1, <3>2 DEF HeadDue
    <3> QED
      BY Zenon, <2>1, <3>2, <3>3
  <2> QED
    BY Zenon, <2>1, <2>2 DEF Range
<1> QED
  BY <1>1, TimerInvariant, PTL

\* When cancel_timer has returned, the handler has completed or will never run,
\* and the result says which.
THEOREM CancelIsSettled == Spec => []CancelSettles
<1>1. IInv => CancelSettles
  <2> SUFFICES ASSUME IInv, NEW t \in Timer, user[t] \in {"cancelled", "missed"}
               PROVE  /\ ~Queued(t) /\ t \notin executing
                      /\ \A p \in Processor : t \notin Range(deferred[p])
                      /\ called[t] <=> user[t] = "missed"
    BY Zenon DEF CancelSettles
  <2>1. UserKnows(t)
    BY Zenon DEF IInv
  <2>2. ~Queued(t) /\ t \notin executing
    BY Zenon, <2>1 DEF UserKnows
  <2>3. called[t] <=> user[t] = "missed"
    BY Zenon, <2>1 DEF UserKnows
  <2>4. \A p \in Processor : t \notin Range(deferred[p])
    BY <2>2, Zenon DEF IInv, Deferred
  <2> QED
    BY Zenon, <2>2, <2>3, <2>4
<1> QED
  BY <1>1, TimerInvariant, PTL

INSTANCE FiniteSetTheorems

\* A timer's reference count is that of its user plus that of the queue or of
\* the one processor that will run it.
THEOREM RefsAreExact == Spec => []RefsExact
<1>1. IInv => RefsExact
  <2> SUFFICES ASSUME IInv, NEW t \in Timer
               PROVE  refs[t] = (IF user[t] = "none" THEN 0 ELSE 1)
                                + (IF Queued(t) THEN 1 ELSE 0)
                                + Cardinality({p \in Processor : t \in Range(deferred[p])})
    BY Zenon DEF RefsExact
  <2> DEFINE P == {p \in Processor : t \in Range(deferred[p])}
  <2>1. UserKnows(t) /\ Counted(t)
    BY Zenon DEF IInv
  <2>2. t \in executing <=> \E p \in Processor : t \in Range(deferred[p])
    BY Zenon DEF IInv, Deferred
  <2>3. CASE t \notin executing
    <3>1. P = {}
      BY Zenon, <2>2, <2>3
    <3>2. Cardinality(P) = 0
      BY Zenon, <3>1, FS_EmptySet
    <3> HIDE DEF P
    <3> QED
      BY <2>1, <2>3, <3>2 DEF Counted, P
  <2>4. CASE t \in executing
    <3>1. PICK p \in Processor : t \in Range(deferred[p])
      BY Zenon, <2>2, <2>4
    <3>2. ASSUME NEW r \in Processor, t \in Range(deferred[r]) PROVE r = p
      <4>1. PICK i \in DOMAIN deferred[p] : deferred[p][i] = t
        BY Zenon, <3>1 DEF Range
      <4>2. PICK j \in DOMAIN deferred[r] : deferred[r][j] = t
        BY Zenon, <3>2 DEF Range
      <4> QED
        BY Zenon, <4>1, <4>2 DEF IInv, Deferred
    <3>3. P = {p}
      BY Zenon, <3>1, <3>2
    <3>4. Cardinality(P) = 1
      BY Zenon, <3>3, FS_Singleton
    <3>5. ~Queued(t)
      BY Zenon, <2>1, <2>4 DEF UserKnows
    <3> HIDE DEF P
    <3> QED
      BY <2>1, <2>4, <3>4, <3>5 DEF Counted, P
  <2> QED
    BY Zenon, <2>3, <2>4
<1> QED
  BY <1>1, TimerInvariant, PTL

\* The step in which a handler runs.
LEMMA HandlerStep ==
    ASSUME IInv, [Next]_vars, NEW t \in Timer, ~called[t], called'[t]
    PROVE  user[t] = "holding"
<1>1. called \in [Timer -> BOOLEAN]
  BY Zenon DEF IInv, TypeOK
<1>2. PICK p \in Processor : RunCallback(p)
  <2>1. ~ UNCHANGED called
    BY Zenon
  <2>2. ASSUME NEW u \in Timer, Unref(u) PROVE FALSE
    BY Zenon, <1>1, <2>2 DEF Unref
  <2>3. ASSUME NEW u \in Timer, NEW c \in Clock, NEW deadline \in Time, Create(u, c, deadline)
        PROVE  FALSE
    BY Zenon, <1>1, <2>3 DEF Create
  <2>4. ASSUME NEW u \in Timer, Drop(u) PROVE FALSE
    BY Zenon, <2>2, <2>4 DEF Drop
  <2>5. ASSUME NEW p \in Processor, FinishTimer(p) PROVE FALSE
    <3>1. Head(deferred[p]) \in Timer
      BY Zenon, <2>5, FirstDeferred DEF FinishTimer
    <3> QED
      BY Zenon, <2>2, <2>5, <3>1 DEF FinishTimer
  <2>6. ASSUME NEW u \in Timer, AddTimerLocked(u) \/ Cancel(u) \/ CancelTooLate(u) PROVE FALSE
    BY Zenon, <2>1, <2>6 DEF AddTimerLocked, Cancel, CancelTooLate
  <2>7. ~Tick /\ ~ \E v \in Time : SetTime(v)
    BY Zenon, <2>1 DEF Tick, SetTime, timerVars
  <2>8. ASSUME NEW p \in Processor, FireEnd(p) \/ \E c \in Clock : FireTimer(p, c) PROVE FALSE
    BY Zenon, <2>1, <2>8 DEF FireEnd, FireTimer, timerVars
  <2>9. ~ UNCHANGED vars
    BY Zenon, <2>1 DEF vars, timerVars
  <2>10. Next
    BY Zenon, <2>9
  <2> QED
    BY <2>3, <2>4, <2>5, <2>6, <2>7, <2>8, <2>10, Zenon DEF Next, ProcessorStep
<1>3. PICK u \in Timer : u \in executing /\ u = Head(deferred[p])
  <2>1. deferred[p] # <<>>
    BY Zenon, <1>2 DEF RunCallback
  <2> QED
    BY Zenon, <2>1, FirstDeferred
<1>4. called' = [called EXCEPT ![u] = TRUE]
  BY Zenon, <1>2, <1>3 DEF RunCallback
<1>5. t = u
  BY Zenon, <1>1, <1>4
<1>6. UserKnows(t) /\ user[t] \in {"none", "adding", "holding", "cancelled", "missed"}
  BY Zenon DEF IInv, TypeOK
<1> QED
  BY Zenon, <1>3, <1>5, <1>6 DEF UserKnows

\* A handler runs only while the user of its timer still holds it, so what the
\* lambdas of Thread::block and sys$alarm captured is alive.
THEOREM HandlersHaveUsers == Spec => HandlerHasUser
<1>1. IInv /\ [Next]_vars
        => [\A t \in Timer : ~called[t] /\ called'[t] => user[t] = "holding"]_vars
  BY Zenon, HandlerStep
<1> QED
  BY <1>1, TimerInvariant, PTL DEF Spec, HandlerHasUser

-----------------------------------------------------------------------------
(* Timers are one-shot timers                                              *)

\* Memory that holds no timer is as if its handler never ran.
Fresh == \A t \in Timer : refs[t] = 0 => ~called[t]

\* A step that concerns one timer leaves the phases of the others.
LEMMA SamePhase ==
    ASSUME NEW u \in Timer, Queued(u)' <=> Queued(u), u \in executing' <=> u \in executing,
           called'[u] = called[u]
    PROVE  Phase(u)' = Phase(u)
BY Zenon DEF Phase

\* The phases after a step that gives timer t the phase x,
LEMMA OnePhase ==
    ASSUME NEW t \in Timer, NEW x, Phase(t)' = x, \A u \in Timer \ {t} : Phase(u)' = Phase(u)
    PROVE  Phases' = [Phases EXCEPT ![t] = x]
BY Zenon DEF Phases

\* and after one that changes none.
LEMMA NoPhase ==
    ASSUME \A u \in Timer : Phase(u)' = Phase(u)
    PROVE  Phases' = Phases
BY Zenon DEF Phases

\* add_timer_without_id allocates an unused timer.
LEMMA CreateRefines ==
    ASSUME IInv, Fresh, NEW t \in Timer, NEW c \in Clock, NEW d \in Time, Create(t, c, d)
    PROVE  Fresh' /\ Abstract!Create(t, c, d)
<1>1. QueuesNone
  BY Zenon, CreateKeeps
<1>2. /\ refs[t] = 0 /\ d > now[c]
      /\ clock' = [clock EXCEPT ![t] = c] /\ expires' = [expires EXCEPT ![t] = d]
      /\ refs' = [refs EXCEPT ![t] = 1] /\ called' = [called EXCEPT ![t] = FALSE]
      /\ user' = [user EXCEPT ![t] = "adding"]
      /\ UNCHANGED <<now, executing>>
  BY Zenon DEF Create, queueVars
<1>3. ~Queued(t) /\ t \notin executing /\ user[t] = "none"
  BY SMTT(30), <1>2 DEF IInv, Counted
<1>4. ~called[t] /\ called \in [Timer -> BOOLEAN] /\ refs \in [Timer -> 0..2]
  BY Zenon, <1>2 DEF Fresh, IInv, TypeOK
<1>5. ~called'[t] /\ \A u \in Timer \ {t} : called'[u] = called[u]
  BY Zenon, <1>2, <1>4
<1>6. Phase(t) = "idle" /\ Phase(t)' = "idle"
  BY <1>1, <1>2, <1>3, <1>4, <1>5, Zenon DEF Phase, QueuesNone
<1>7. \A u \in Timer \ {t} : Phase(u)' = Phase(u)
  BY <1>1, <1>2, <1>5, SamePhase, Zenon DEF QueuesNone
<1>8. Phases' = Phases
  BY <1>6, <1>7, NoPhase, Zenon
<1>9. Fresh'
  BY Zenon, <1>2, <1>4, <1>5 DEF Fresh
<1>10. Phases[t] = "idle"
  BY Zenon, <1>6 DEF Phases
<1> QED
  BY ZenonT(40), <1>2, <1>3, <1>8, <1>9, <1>10 DEF Abstract!Create, Abstract!Unused

\* add_timer_locked arms the timer.
LEMMA AddRefines ==
    ASSUME IInv, Fresh, NEW t \in Timer, AddTimerLocked(t)
    PROVE  Fresh' /\ Abstract!Add(t)
<1>1. Queued(t)' /\ OnlyQueues(t)
  BY Zenon, AddKeeps
<1>2. /\ user[t] = "adding"
      /\ refs' = [refs EXCEPT ![t] = @ + 1] /\ user' = [user EXCEPT ![t] = "holding"]
      /\ UNCHANGED <<now, executing, clock, expires, called>>
  BY Zenon DEF AddTimerLocked
<1>3. UserKnows(t) /\ refs \in [Timer -> 0..2]
  BY Zenon DEF IInv, TypeOK
<1>4. ~Queued(t) /\ t \notin executing /\ ~called[t]
  BY Zenon, <1>2, <1>3 DEF UserKnows
<1>5. Phase(t) = "idle" /\ Phase(t)' = "armed"
  BY <1>1, <1>4, Zenon DEF Phase
<1>6. \A u \in Timer \ {t} : Phase(u)' = Phase(u)
  BY <1>1, <1>2, SamePhase, Zenon DEF OnlyQueues
<1>7. Phases' = [Phases EXCEPT ![t] = "armed"]
  BY <1>5, <1>6, OnePhase, Zenon
<1>8. Fresh'
  BY Zenon, <1>2, <1>3, <1>4 DEF Fresh
<1>9. Phases[t] = "idle"
  BY Zenon, <1>5 DEF Phases
<1> QED
  BY Zenon, <1>2, <1>7, <1>8, <1>9 DEF Abstract!Add

\* cancel_timer returns true for a timer that was still armed.
LEMMA CancelRefines ==
    ASSUME IInv, Fresh, NEW t \in Timer, Cancel(t)
    PROVE  Fresh' /\ Abstract!Cancel(t)
<1>1. ~Queued(t)' /\ OnlyQueues(t)
  BY Zenon, CancelKeeps
<1>2. /\ user[t] = "holding" /\ Queued(t)
      /\ refs' = [refs EXCEPT ![t] = @ - 1] /\ user' = [user EXCEPT ![t] = "cancelled"]
      /\ UNCHANGED <<now, executing, clock, expires, called>>
  BY Zenon DEF Cancel
<1>3. UserKnows(t) /\ refs \in [Timer -> 0..2]
  BY Zenon DEF IInv, TypeOK
<1>4. t \notin executing /\ ~called[t]
  BY Zenon, <1>2, <1>3 DEF UserKnows
<1>5. Phase(t) = "armed" /\ Phase(t)' = "idle"
  BY <1>1, <1>2, <1>4, Zenon DEF Phase
<1>6. \A u \in Timer \ {t} : Phase(u)' = Phase(u)
  BY <1>1, <1>2, SamePhase, Zenon DEF OnlyQueues
<1>7. Phases' = [Phases EXCEPT ![t] = "idle"]
  BY <1>5, <1>6, OnePhase, Zenon
<1>8. Fresh'
  BY Zenon, <1>2, <1>3, <1>4 DEF Fresh
<1>9. Phases[t] = "armed"
  BY Zenon, <1>5 DEF Phases
<1> QED
  BY Zenon, <1>2, <1>7, <1>8, <1>9 DEF Abstract!Cancel

\* cancel_timer returns false for one whose handler has come to its end.
LEMMA CancelTooLateRefines ==
    ASSUME IInv, Fresh, NEW t \in Timer, CancelTooLate(t)
    PROVE  Fresh' /\ Abstract!Miss(t)
<1>1. /\ user[t] = "holding" /\ ~Queued(t) /\ t \notin executing
      /\ user' = [user EXCEPT ![t] = "missed"]
      /\ UNCHANGED <<now, list, executing, clock, expires, refs, called>>
  BY Zenon DEF CancelTooLate, queueVars
<1>2. UserKnows(t)
  BY Zenon DEF IInv
<1>3. Phase(t) = "done"
  BY Zenon, <1>1, <1>2 DEF UserKnows, Phase
<1>4. Phases' = Phases
  BY <1>1, Zenon DEF Phases, Phase, Queued
<1>5. Phases[t] = "done"
  BY Zenon, <1>3 DEF Phases
<1>6. Fresh'
  BY <1>1, Zenon DEF Fresh
<1> QED
  BY Zenon, <1>1, <1>4, <1>5, <1>6 DEF Abstract!Miss

\* fire() takes a timer whose deadline has passed.
LEMMA FireRefines ==
    ASSUME IInv, Fresh, NEW p \in Processor, NEW c \in Clock, FireTimer(p, c)
    PROVE  Fresh' /\ \E t \in Timer : Abstract!Expire(t)
<1>1. PICK t \in Timer : t = Head(list[c]) /\ clock[t] = c /\ Queued(t)
                         /\ ~Queued(t)' /\ OnlyQueues(t)
  BY Zenon, FireKeeps
<1>2. /\ now[c] > expires[t] /\ executing' = executing \union {t}
      /\ UNCHANGED <<now, clock, expires, refs, called, user>>
  BY Zenon, <1>1 DEF FireTimer, MayFire, Due, timerVars
<1>3. UserKnows(t) /\ user[t] \in {"none", "adding", "holding", "cancelled", "missed"}
  BY Zenon DEF IInv, TypeOK
<1>4. ~called[t]
  BY Zenon, <1>1, <1>3 DEF UserKnows
<1>5. Phase(t) = "armed" /\ Phase(t)' = "expired"
  BY <1>1, <1>2, <1>4, Zenon DEF Phase
<1>6. \A u \in Timer \ {t} : Phase(u)' = Phase(u)
  BY <1>1, <1>2, SamePhase, Zenon DEF OnlyQueues
<1>7. Phases' = [Phases EXCEPT ![t] = "expired"]
  BY <1>5, <1>6, OnePhase, Zenon
<1>8. Phases[t] = "armed"
  BY Zenon, <1>5 DEF Phases
<1>9. Fresh'
  BY <1>2, Zenon DEF Fresh
<1>10. Abstract!Expire(t)
  BY Zenon, <1>1, <1>2, <1>7, <1>8 DEF Abstract!Expire
<1> QED
  BY Zenon, <1>9, <1>10

\* The handler runs, once.
LEMMA RunCallbackRefines ==
    ASSUME IInv, Fresh, NEW p \in Processor, RunCallback(p)
    PROVE  Fresh' /\ \E t \in Timer : Abstract!Run(t)
<1>1. PICK t \in Timer : t \in executing /\ t = Head(deferred[p])
  <2>1. deferred[p] # <<>>
    BY Zenon DEF RunCallback
  <2> QED
    BY Zenon, <2>1, FirstDeferred
<1>2. /\ ~called[t] /\ called' = [called EXCEPT ![t] = TRUE]
      /\ UNCHANGED <<now, list, executing, clock, expires, refs, user>>
  BY Zenon, <1>1 DEF RunCallback, queueVars
<1>3. /\ UserKnows(t) /\ Counted(t) /\ called \in [Timer -> BOOLEAN]
      /\ user[t] \in {"none", "adding", "holding", "cancelled", "missed"}
  BY Zenon DEF IInv, TypeOK
<1>4. user[t] = "holding" /\ ~Queued(t)
  BY Zenon, <1>1, <1>2, <1>3 DEF UserKnows
<1>5. called'[t] /\ \A u \in Timer \ {t} : called'[u] = called[u]
  BY Zenon, <1>2, <1>3
<1>6. \A u \in Timer : Queued(u)' <=> Queued(u)
  BY <1>2, Zenon DEF Queued
<1>7. Phase(t) = "expired" /\ Phase(t)' = "ran"
  BY <1>1, <1>2, <1>4, <1>5, <1>6, Zenon DEF Phase
<1>8. \A u \in Timer \ {t} : Phase(u)' = Phase(u)
  BY <1>2, <1>5, <1>6, SamePhase, Zenon
<1>9. Phases' = [Phases EXCEPT ![t] = "ran"]
  BY <1>7, <1>8, OnePhase, Zenon
<1>10. Phases[t] = "expired"
  BY Zenon, <1>7 DEF Phases
<1>11. refs[t] # 0
  BY SMTT(30), <1>1, <1>3, <1>4 DEF Counted
<1>12. Fresh'
  BY SMTT(30), <1>2, <1>5, <1>11 DEF Fresh
<1>13. Abstract!Run(t)
  BY SMTT(30), <1>2, <1>4, <1>9, <1>10 DEF Abstract!Run
<1> QED
  BY Zenon, <1>12, <1>13

\* The last reference takes the timer with it, and only the last one.
LEMMA UnrefEffect ==
    ASSUME IInv, Fresh, NEW t \in Timer, Unref(t), refs[t] > 0
    PROVE  /\ Fresh' /\ \A u \in Timer \ {t} : called'[u] = called[u]
           /\ refs[t] = 1 => /\ ~called'[t]
                             /\ clock' = [clock EXCEPT ![t] = "monotonic"]
                             /\ expires' = [expires EXCEPT ![t] = 0]
           /\ refs[t] # 1 => UNCHANGED <<clock, expires, called>>
<1>1. refs \in [Timer -> 0..2] /\ called \in [Timer -> BOOLEAN]
  BY Zenon DEF IInv, TypeOK
<1>2. /\ refs' = [refs EXCEPT ![t] = @ - 1]
      /\ refs[t] = 1 => /\ called' = [called EXCEPT ![t] = FALSE]
                        /\ clock' = [clock EXCEPT ![t] = "monotonic"]
                        /\ expires' = [expires EXCEPT ![t] = 0]
      /\ refs[t] # 1 => UNCHANGED <<clock, expires, called>>
  BY Zenon DEF Unref
<1>3. refs[t] = 1 => ~called'[t]
  BY Zenon, <1>1, <1>2
<1>4. \A u \in Timer \ {t} : called'[u] = called[u] /\ refs'[u] = refs[u]
  BY Zenon, <1>1, <1>2
<1>5. refs'[t] = 0 => refs[t] = 1
  BY <1>1, <1>2
<1>6. Fresh'
  BY <1>3, <1>4, <1>5, Zenon DEF Fresh
<1> QED
  BY Zenon, <1>2, <1>3, <1>4, <1>6

\* The end of the deferred call ends the handler.
LEMMA FinishRefines ==
    ASSUME IInv, Fresh, NEW p \in Processor, FinishTimer(p)
    PROVE  Fresh' /\ \E t \in Timer : Abstract!Finish(t)
<1>1. PICK t \in Timer : t \in executing /\ t = Head(deferred[p])
  <2>1. deferred[p] # <<>>
    BY Zenon DEF FinishTimer
  <2> QED
    BY Zenon, <2>1, FirstDeferred
<1>2. /\ called[t] /\ executing' = executing \ {t} /\ Unref(t)
      /\ UNCHANGED <<now, user>>
  BY Zenon, <1>1 DEF FinishTimer
<1>3. QueuesNone
  BY Zenon, FinishKeeps
<1>4. /\ UserKnows(t) /\ Counted(t) /\ called \in [Timer -> BOOLEAN]
      /\ user \in [Timer -> {"none", "adding", "holding", "cancelled", "missed"}]
  BY Zenon DEF IInv, TypeOK
<1>5. ~Queued(t) /\ refs[t] = IF user[t] = "none" THEN 1 ELSE 2
  BY <1>1, <1>4 DEF UserKnows, Counted
<1>6. /\ Fresh' /\ \A u \in Timer \ {t} : called'[u] = called[u]
      /\ user[t] = "none" => /\ ~called'[t]
                             /\ clock' = [clock EXCEPT ![t] = "monotonic"]
                             /\ expires' = [expires EXCEPT ![t] = 0]
      /\ user[t] # "none" => UNCHANGED <<clock, expires, called>>
  <2>1. refs[t] > 0 /\ (user[t] = "none" => refs[t] = 1) /\ (user[t] # "none" => refs[t] # 1)
    BY <1>5
  <2> QED
    BY <1>2, <2>1, UnrefEffect, Zenon
<1>7. \A u \in Timer \ {t} : Phase(u)' = Phase(u)
  <2>1. \A u \in Timer \ {t} : u \in executing' <=> u \in executing
    BY Zenon, <1>2
  <2> QED
    BY <1>3, <1>6, <2>1, SamePhase, Zenon DEF QueuesNone
<1>8. Phases[t] = "ran"
  BY Zenon, <1>1, <1>2, <1>5 DEF Phases, Phase
<1>9. ~Queued(t)' /\ t \notin executing'
  BY Zenon, <1>2, <1>3, <1>5 DEF QueuesNone
<1>10. user' = [user EXCEPT ![t] = user[t]]
  BY Zenon, <1>2, <1>4
<1>11. CASE user[t] = "none"
  <2>1. Phase(t)' = "idle"
    BY <1>6, <1>9, <1>11, Zenon DEF Phase
  <2>2. Phases' = [Phases EXCEPT ![t] = "idle"]
    BY <1>7, <2>1, OnePhase, Zenon
  <2>3. Abstract!Finish(t)
    BY Zenon, <1>2, <1>6, <1>8, <1>10, <1>11, <2>2 DEF Abstract!Finish, Abstract!Release, Abstract!Idle
  <2> QED
    BY Zenon, <1>6, <2>3
<1>12. CASE user[t] # "none"
  <2>1. called'[t]
    BY <1>2, <1>6, <1>12, Zenon
  <2>2. Phase(t)' = "done"
    BY <1>9, <2>1, Zenon DEF Phase
  <2>3. Phases' = [Phases EXCEPT ![t] = "done"]
    BY <1>7, <2>2, OnePhase, Zenon
  <2>4. Abstract!Finish(t)
    BY Zenon, <1>2, <1>6, <1>8, <1>10, <1>12, <2>3 DEF Abstract!Finish, Abstract!Release
  <2> QED
    BY Zenon, <1>6, <2>4
<1> QED
  BY Zenon, <1>11, <1>12

\* The user drops a timer that was cancelled, or whose handler has run.
LEMMA DropRefines ==
    ASSUME IInv, Fresh, NEW t \in Timer, Drop(t)
    PROVE  Fresh' /\ Abstract!Drop(t)
<1>1. /\ user[t] \in {"cancelled", "missed"} \/ (user[t] = "holding" /\ called[t])
      /\ Unref(t) /\ user' = [user EXCEPT ![t] = "none"]
      /\ UNCHANGED <<now, executing>>
  BY Zenon DEF Drop, queueVars
<1>2. QueuesNone
  BY Zenon, DropTimerKeeps
<1>3. UserKnows(t) /\ Counted(t) /\ called \in [Timer -> BOOLEAN]
  BY Zenon DEF IInv, TypeOK
<1>4. /\ ~Queued(t) /\ refs[t] = IF t \in executing THEN 2 ELSE 1
      /\ user[t] \in {"cancelled", "missed"} => t \notin executing
      /\ called[t] <=> user[t] # "cancelled"
  BY <1>1, <1>3 DEF UserKnows, Counted
<1>5. /\ Fresh' /\ \A u \in Timer \ {t} : called'[u] = called[u]
      /\ t \notin executing => /\ ~called'[t]
                               /\ clock' = [clock EXCEPT ![t] = "monotonic"]
                               /\ expires' = [expires EXCEPT ![t] = 0]
      /\ t \in executing => UNCHANGED <<clock, expires, called>>
  <2>1. refs[t] > 0 /\ (t \notin executing => refs[t] = 1) /\ (t \in executing => refs[t] # 1)
    BY <1>4
  <2> QED
    BY <1>1, <2>1, UnrefEffect, Zenon
<1>6. \A u \in Timer \ {t} : Phase(u)' = Phase(u)
  BY <1>1, <1>2, <1>5, SamePhase, ZenonT(60) DEF QueuesNone
<1>7. ~Queued(t)'
  BY Zenon, <1>2, <1>4 DEF QueuesNone
<1>8. CASE t \in executing
  <2>1. Phases[t] = "ran" /\ user[t] = "holding"
    BY Zenon, <1>1, <1>4, <1>8 DEF Phases, Phase
  <2>2. Phase(t)' = "ran"
    BY SMTT(30), <1>1, <1>4, <1>5, <1>7, <1>8, <2>1 DEF Phase
  <2>3. Phases' = [Phases EXCEPT ![t] = "ran"]
    BY <1>6, <2>2, OnePhase, Zenon
  <2>4. Abstract!Drop(t)
    BY SMTT(30), <1>1, <1>5, <1>8, <2>1, <2>3 DEF Abstract!Drop, Abstract!Release
  <2> QED
    BY Zenon, <1>5, <2>4
<1>9. CASE t \notin executing
  <2>1. Phases[t] = IF user[t] = "cancelled" THEN "idle" ELSE "done"
    BY Zenon, <1>4, <1>9 DEF Phases, Phase
  <2>2. Phase(t)' = "idle"
    BY Zenon, <1>1, <1>5, <1>7, <1>9 DEF Phase
  <2>3. Phases' = [Phases EXCEPT ![t] = "idle"]
    BY <1>6, <2>2, OnePhase, ZenonT(60)
  <2>4. Abstract!Drop(t)
    BY Zenon, <1>1, <1>5, <1>9, <2>1, <2>3 DEF Abstract!Drop, Abstract!Release, Abstract!Idle
  <2> QED
    BY Zenon, <1>5, <2>4
<1> QED
  BY Zenon, <1>8, <1>9

\* A step that leaves the queues and the timers alone is a step of the clocks.
LEMMA ClocksRefine ==
    ASSUME Fresh, UNCHANGED <<list, executing, clock, expires, refs, called, user>>
    PROVE  Fresh' /\ UNCHANGED Abstract!timer
<1>1. Fresh'
  BY Zenon DEF Fresh
<1>2. Phases' = Phases
  BY Zenon DEF Phases, Phase, Queued
<1> QED
  BY Zenon, <1>1, <1>2 DEF Abstract!timer

\* Every step of the timer queue is one of one-shot timers, or changes nothing
\* that their users can tell.
LEMMA StepRefines ==
    IInv /\ Fresh /\ [Next]_vars => Fresh' /\ [Abstract!Next]_Abstract!vars
<1> SUFFICES ASSUME IInv, Fresh, [Next]_vars PROVE Fresh' /\ [Abstract!Next]_Abstract!vars
  BY Zenon
<1>1. CASE UNCHANGED vars
  <2>1. UNCHANGED <<now, list, executing, clock, expires, refs, called, user>>
    BY Zenon, <1>1 DEF vars, queueVars, timerVars
  <2> QED
    BY Zenon, <2>1, ClocksRefine DEF Abstract!vars
<1>2. ASSUME Tick \/ \E v \in Time : SetTime(v)
      PROVE  Fresh' /\ Abstract!Pass
  <2>1. UNCHANGED <<list, executing, clock, expires, refs, called, user>>
    BY <1>2, Zenon DEF Tick, SetTime, queueVars, timerVars
  <2>2. now \in [Clock -> Time]
    BY Zenon DEF IInv, TypeOK
  <2>3. now' \in [Clock -> Time]
    <3>1. CASE Tick
      BY <2>2, <3>1, TimerAssumption DEF Tick, Time
    <3>2. ASSUME NEW v \in Time, SetTime(v) PROVE now' \in [Clock -> Time]
      BY <2>2, <3>2, Zenon DEF SetTime
    <3> QED
      BY Zenon, <1>2, <3>1, <3>2
  <2> QED
    BY Zenon, <2>1, <2>3, ClocksRefine DEF Abstract!Pass
<1>3. ASSUME NEW p \in Processor, FireEnd(p) PROVE Fresh' /\ UNCHANGED Abstract!vars
  <2>1. UNCHANGED <<now, list, executing, clock, expires, refs, called, user>>
    BY Zenon, <1>3 DEF FireEnd, queueVars, timerVars
  <2> QED
    BY Zenon, <2>1, ClocksRefine DEF Abstract!vars
<1>4. ASSUME NEW p \in Processor, ProcessorStep(p) PROVE Fresh' /\ [Abstract!Next]_Abstract!vars
  <2>1. \/ FireEnd(p) \/ RunCallback(p) \/ FinishTimer(p) \/ \E c \in Clock : FireTimer(p, c)
    BY <1>4, Zenon DEF ProcessorStep
  <2> QED
    BY <1>3, <2>1, FireRefines, RunCallbackRefines, FinishRefines, Zenon DEF Abstract!Next
<1>5. ASSUME NEW t \in Timer,
             \/ \E c \in Clock, deadline \in Time : Create(t, c, deadline)
             \/ AddTimerLocked(t) \/ Cancel(t) \/ CancelTooLate(t) \/ Drop(t)
      PROVE  Fresh' /\ Abstract!Next
  BY <1>5, CreateRefines, AddRefines, CancelRefines, CancelTooLateRefines, DropRefines, Zenon
     DEF Abstract!Next
<1>6. CASE Next
  BY <1>2, <1>4, <1>5, <1>6, Zenon DEF Next, Abstract!Next
<1> QED
  BY Zenon, <1>1, <1>6

\* The timer queue implements one-shot timers: a timer runs its handler at most
\* once, after its deadline and while its user holds it, never after
\* cancel_timer returned true, and cancel_timer returns false only at its end.
THEOREM TimersAreOneShot == Spec => ImplementsOneShot
<1>1. Init => Fresh /\ Abstract!Init
  <2> SUFFICES ASSUME Init PROVE Fresh /\ Abstract!Init
    BY Zenon
  <2>1. Fresh
    BY Zenon DEF Init, Fresh
  <2>2. \A t \in Timer : Phase(t) = "idle"
    BY DEF Init, Phase, Queued, Clock, Range
  <2>3. Phases = [t \in Timer |-> "idle"]
    BY Zenon, <2>2 DEF Phases
  <2> QED
    BY Zenon, <2>1, <2>3 DEF Init, Abstract!Init, Abstract!Idle
<1> QED
  BY <1>1, StepRefines, TimerInvariant, PTL DEF Spec, ImplementsOneShot, Abstract!Spec
=============================================================================
