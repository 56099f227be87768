--------------------------- MODULE SequenceFacts ---------------------------
(***************************************************************************)
(* Facts about natural numbers and sequences that several proofs need.     *)
(***************************************************************************)
EXTENDS Integers, Sequences, Functions, TLAPS

\* What is left of a sequence when its element at i is taken out.
LEMMA WithoutPosition ==
    ASSUME NEW S, NEW s \in Seq(S), NEW i \in DOMAIN s
    PROVE  LET r == SubSeq(s, 1, i - 1) \o SubSeq(s, i + 1, Len(s)) IN
           /\ r \in Seq(S)
           /\ Len(r) = Len(s) - 1
           /\ \A k \in DOMAIN r : r[k] = IF k < i THEN s[k] ELSE s[k + 1]
<1> DEFINE a == SubSeq(s, 1, i - 1)
           b == SubSeq(s, i + 1, Len(s))
           c == a \o b
<1>1. i \in 1 .. Len(s) /\ Len(s) \in Nat /\ DOMAIN s = 1 .. Len(s)
  OBVIOUS
<1>2. a \in Seq(S) /\ Len(a) = i - 1 /\ \A k \in 1 .. i - 1 : a[k] = s[k]
  BY <1>1
<1>3. /\ b \in Seq(S)
      /\ Len(b) = Len(s) - i
      /\ \A k \in 1 .. Len(s) - i : b[k] = s[i + k]
  BY <1>1
<1> HIDE DEF a, b
<1>4. /\ c \in Seq(S)
      /\ Len(c) = Len(a) + Len(b)
      /\ DOMAIN c = 1 .. Len(a) + Len(b)
      /\ \A k \in 1 .. Len(a) + Len(b) : c[k] = IF k <= Len(a) THEN a[k] ELSE b[k - Len(a)]
  <2>1. a \in Seq(S) /\ b \in Seq(S) /\ Len(a) \in Nat /\ Len(b) \in Nat
    BY <1>2, <1>3
  <2>2. c \in Seq(S) /\ Len(c) = Len(a) + Len(b)
    BY <2>1
  <2>3. DOMAIN c = 1 .. Len(a) + Len(b)
    BY <2>1, <2>2
  <2>4. ASSUME NEW k \in 1 .. Len(a) + Len(b)
        PROVE  c[k] = IF k <= Len(a) THEN a[k] ELSE b[k - Len(a)]
    BY <2>1
  <2> QED
    BY Zenon, <2>2, <2>3, <2>4
<1> HIDE DEF c
<1>5. Len(a) + Len(b) = Len(s) - 1
  BY <1>1, <1>2, <1>3
<1>6. ASSUME NEW k \in 1 .. Len(s) - 1
      PROVE  c[k] = IF k < i THEN s[k] ELSE s[k + 1]
  <2>1. c[k] = IF k <= Len(a) THEN a[k] ELSE b[k - Len(a)]
    BY Zenon, <1>4, <1>5
  <2>2. CASE k < i
    BY <1>1, <1>2, <2>1, <2>2
  <2>3. CASE ~ (k < i)
    <3>1. /\ k - (i - 1) \in 1 .. Len(s) - i /\ i + (k - (i - 1)) = k + 1
          /\ ~ (k <= i - 1)
      BY <1>1, <2>3
    <3>2. b[k - (i - 1)] = s[k + 1]
      BY Zenon, <1>3, <3>1
    <3>3. c[k] = s[k + 1]
      BY Zenon, <1>2, <2>1, <3>1, <3>2
    <3> QED
      BY Zenon, <2>3, <3>3
  <2> QED
    BY Zenon, <2>2, <2>3
<1> QED
  BY Zenon, <1>4, <1>5, <1>6 DEF a, b, c

\* The head and the tail of a sequence by position.
LEMMA HeadAndTail ==
    ASSUME NEW S, NEW s \in Seq(S), s # <<>>
    PROVE  /\ 1 \in DOMAIN s /\ Head(s) = s[1]
           /\ Tail(s) \in Seq(S) /\ Len(Tail(s)) = Len(s) - 1
           /\ \A k \in DOMAIN Tail(s) : Tail(s)[k] = s[k + 1]
OBVIOUS

\* Every element of a sequence is different, or comes in the order of its key.
Distinct(s) == \A i, j \in DOMAIN s : s[i] = s[j] => i = j
Ascending(s, key) == \A i, j \in DOMAIN s : i <= j => key[s[i]] <= key[s[j]]

\* What survives in a sequence from which elements were taken.
LEMMA Thinned ==
    ASSUME NEW s, NEW r, NEW key, NEW from \in [DOMAIN r -> DOMAIN s],
           \A k \in DOMAIN r : r[k] = s[from[k]],
           \A k, m \in DOMAIN r : k <= m => from[k] <= from[m],
           \A k, m \in DOMAIN r : from[k] = from[m] => k = m
    PROVE  /\ Distinct(s) => Distinct(r)
           /\ Ascending(s, key) => Ascending(r, key)
<1>1. ASSUME Distinct(s) PROVE Distinct(r)
  <2> SUFFICES ASSUME NEW k \in DOMAIN r, NEW m \in DOMAIN r, r[k] = r[m] PROVE k = m
    BY Zenon DEF Distinct
  <2>1. from[k] \in DOMAIN s /\ from[m] \in DOMAIN s /\ s[from[k]] = s[from[m]]
    BY Zenon
  <2>2. from[k] = from[m]
    BY <1>1, <2>1, Zenon DEF Distinct
  <2> QED
    BY Zenon, <2>2
<1>2. ASSUME Ascending(s, key) PROVE Ascending(r, key)
  <2> SUFFICES ASSUME NEW k \in DOMAIN r, NEW m \in DOMAIN r, k <= m
               PROVE  key[r[k]] <= key[r[m]]
    BY Zenon DEF Ascending
  <2>1. from[k] \in DOMAIN s /\ from[m] \in DOMAIN s /\ from[k] <= from[m]
    BY Zenon
  <2>2. key[s[from[k]]] <= key[s[from[m]]]
    BY <1>2, <2>1, Zenon DEF Ascending
  <2> QED
    BY Zenon, <2>2
<1> QED
  BY Zenon, <1>1, <1>2

\* r is s without its position at.
OneLess(r, s, at) ==
    Len(r) = Len(s) - 1 /\ \A k \in DOMAIN r : r[k] = IF k < at THEN s[k] ELSE s[k + 1]

\* What taking out one position does to a list of different timers.
LEMMA Taken ==
    ASSUME NEW S, NEW s \in Seq(S), NEW r \in Seq(S), NEW at \in DOMAIN s,
           Distinct(s), OneLess(r, s, at)
    PROVE  /\ Distinct(r)
           /\ \A key : Ascending(s, key) => Ascending(r, key)
           /\ Range(r) = Range(s) \ {s[at]}
<1> DEFINE n == Len(s)
           from == [k \in DOMAIN r |-> IF k < at THEN k ELSE k + 1]
<1>1. n \in Nat /\ DOMAIN s = 1 .. n /\ at \in 1 .. n /\ DOMAIN r = 1 .. n - 1
  BY DEF OneLess
<1>2. /\ from \in [DOMAIN r -> DOMAIN s]
      /\ \A k, m \in DOMAIN r : k <= m => from[k] <= from[m]
      /\ \A k, m \in DOMAIN r : from[k] = from[m] => k = m
  BY <1>1
<1>3. /\ \A k \in DOMAIN r : r[k] = s[from[k]]
      /\ \A k \in DOMAIN r : from[k] # at
  BY <1>1 DEF OneLess
<1>4. ASSUME NEW i \in DOMAIN s, i # at
      PROVE  \E k \in DOMAIN r : from[k] = i
  <2>1. CASE i < at
    <3>1. i \in DOMAIN r /\ from[i] = i
      BY <1>1, <2>1
    <3> QED
      BY Zenon, <3>1
  <2>2. CASE i > at
    <3>1. i - 1 \in DOMAIN r /\ from[i - 1] = i
      BY <1>1, <2>2
    <3> QED
      BY Zenon, <3>1
  <2> QED
    BY <1>1, <1>4, <2>1, <2>2
<1> HIDE DEF n, from
<1>5. Distinct(r) /\ \A key : Ascending(s, key) => Ascending(r, key)
  BY <1>2, <1>3, Thinned, Zenon
<1>6. Range(r) \subseteq Range(s) \ {s[at]}
  <2> SUFFICES ASSUME NEW k \in DOMAIN r
               PROVE  r[k] \in Range(s) /\ r[k] # s[at]
    BY Zenon DEF Range
  <2>1. r[k] = s[from[k]] /\ from[k] \in DOMAIN s /\ from[k] # at
    BY Zenon, <1>2, <1>3
  <2> QED
    BY <2>1, Zenon DEF Range, Distinct
<1>7. Range(s) \ {s[at]} \subseteq Range(r)
  <2> SUFFICES ASSUME NEW i \in DOMAIN s, s[i] # s[at]
               PROVE  s[i] \in Range(r)
    BY Zenon DEF Range
  <2>1. PICK k \in DOMAIN r : from[k] = i
    BY <1>4, Zenon
  <2> QED
    BY <1>3, <2>1, Zenon DEF Range
<1> QED
  BY <1>5, <1>6, <1>7, Zenon

\* Appending an element.
LEMMA Appended ==
    ASSUME NEW S, NEW s \in Seq(S), NEW e \in S
    PROVE  /\ Append(s, e) \in Seq(S)
           /\ Range(Append(s, e)) = Range(s) \union {e}
           /\ Distinct(s) /\ e \notin Range(s) => Distinct(Append(s, e))
<1> DEFINE r == Append(s, e)
           n == Len(s)
<1>1. n \in Nat /\ DOMAIN s = 1 .. n
  OBVIOUS
<1>2. /\ r \in Seq(S) /\ DOMAIN r = 1 .. n + 1
      /\ \A k \in 1 .. n : r[k] = s[k]
      /\ r[n + 1] = e
  OBVIOUS
<1> HIDE DEF r, n
<1>3. DOMAIN r = DOMAIN s \union {n + 1}
  BY <1>1, <1>2
<1>4. Range(r) = Range(s) \union {e}
  BY <1>1, <1>2, <1>3 DEF Range
<1>5. ASSUME Distinct(s), e \notin Range(s) PROVE Distinct(r)
  <2> SUFFICES ASSUME NEW i \in DOMAIN r, NEW j \in DOMAIN r, r[i] = r[j] PROVE i = j
    BY Zenon DEF Distinct
  <2>1. \A k \in DOMAIN s : r[k] = s[k] /\ r[k] # e
    BY Zenon, <1>1, <1>2, <1>5 DEF Range
  <2> QED
    BY Zenon, <1>2, <1>3, <1>5, <2>1 DEF Distinct
<1> QED
  BY Zenon, <1>2, <1>4, <1>5 DEF r

-----------------------------------------------------------------------------
(* Least elements                                                          *)
LOCAL INSTANCE WellFoundedInduction

\* A non-empty set of natural numbers has a least element.
LEMMA LeastExists ==
    ASSUME NEW S \in SUBSET Nat, S # {}
    PROVE  \E x \in S : \A y \in S : x <= y
<1> DEFINE R == OpToRel(<, Nat)
           Q == {ss \in Nat \X Nat : ss[1] < ss[2]}
<1>1. IsWellFoundedOn(R, Nat)
  BY Zenon, NatLessThanWellFounded
<1>2. R = Q
  BY Zenon DEF OpToRel
<1> HIDE DEF R
<1>3. PICK x \in S : \A y \in S : ~ (<<y, x>> \in Q)
  BY <1>1, <1>2, WFMin, Zenon
<1>4. \A y \in S : x <= y
  <2> TAKE y \in S
  <2>1. <<y, x>> \in Nat \X Nat /\ <<y, x>>[1] = y /\ <<y, x>>[2] = x
    BY Zenon
  <2> QED
    BY <1>3, <2>1
<1> QED
  BY Zenon, <1>4
=============================================================================
