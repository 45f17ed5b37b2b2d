-------------------------- MODULE OperationsProofs --------------------------
(***************************************************************************)
(* Theorems about CronRunner for every set of files, every schedule, any   *)
(* number of attempts to log in, and rounds that are late by any number of *)
(* minutes; and about L1Cache for every set of keys, every limit and every *)
(* size, with the step by step proof that it implements LruCache as long   *)
(* as every entry is in its list.                                          *)
(***************************************************************************)
EXTENDS L1Cache, CronRunner, FiniteSetTheorems, TLAPS

-----------------------------------------------------------------------------
(* Numbers and sets *)

(* A set of numbers that is not empty has a least one. *)
LEMMA Least ==
    ASSUME NEW S \in SUBSET Nat, S # {}
    PROVE  \E m \in S : \A n \in S : m <= n
<1> DEFINE R == {ss \in Nat \X Nat : ss[1] < ss[2]}
<1>1. IsWellFoundedOn(R, Nat)
  BY NatLessThanWellFounded, Zenon DEF OpToRel
<1>2. \E m \in S : \A n \in S : ~(<<n, m>> \in R)
  <2> HIDE DEF R
  <2> QED
    BY <1>1, WFMin, Zenon
<1>3. PICK m \in S : \A n \in S : ~(<<n, m>> \in R)
  BY <1>2
<1>4. \A n \in S : ~(n < m)
  BY <1>3
<1> QED
  BY <1>3, <1>4

(* A set of numbers that is bounded has a greatest one. *)
LEMMA GreatestOf ==
    ASSUME NEW n \in Nat, NEW S \in SUBSET (0..n), S # {}
    PROVE  \E m \in S : \A k \in S : k <= m
<1> DEFINE T == {n - k : k \in S}
<1>1. T \in SUBSET Nat /\ T # {}
  <2>1. \A k \in S : n - k \in Nat
    OBVIOUS
  <2>2. PICK k \in S : TRUE
    OBVIOUS
  <2>3. n - k \in T
    BY <2>2
  <2> QED
    BY <2>1, <2>3
<1>2. PICK t \in T : \A u \in T : t <= u
  <2> HIDE DEF T
  <2> QED
    BY <1>1, Least
<1>3. PICK m \in S : t = n - m
  BY <1>2
<1>4. \A k \in S : n - m <= n - k
  BY <1>2, <1>3
<1> QED
  BY <1>3, <1>4

(* What is reached contains the start, is closed under next, and has       *)
(* nothing that neither is the start nor follows something reached.        *)
LEMMA ReachedIsLeast ==
    ASSUME NEW D, NEW start \in D, NEW next
    PROVE  /\ Reached(D, start, next) \subseteq D /\ start \in Reached(D, start, next)
           /\ \A j \in Reached(D, start, next) :
                 next[j] \in D => next[j] \in Reached(D, start, next)
           /\ \A i \in Reached(D, start, next) :
                 i # start => \E j \in Reached(D, start, next) : next[j] = i
<1> DEFINE R == Reached(D, start, next)
           Closed(S) == start \in S /\ (\A j \in S : next[j] \in D => next[j] \in S)
<1>1. \A k : k \in R <=> k \in D /\ (\A S \in SUBSET D : Closed(S) => k \in S)
  BY DEF Reached
<1>2. R \subseteq D /\ start \in R
  BY <1>1
<1>3. ASSUME NEW j \in R, next[j] \in D PROVE next[j] \in R
  <2>1. ASSUME NEW S \in SUBSET D, Closed(S) PROVE next[j] \in S
    BY <1>1, <1>3, <2>1
  <2> QED
    BY <1>1, <1>3, <2>1
<1>4. ASSUME NEW i \in R, i # start, \A j \in R : next[j] # i PROVE FALSE
  <2>1. R \ {i} \in SUBSET D
    BY <1>2
  <2>2. Closed(R \ {i})
    <3> HIDE DEF R
    <3> QED
      BY <1>2, <1>3, <1>4
  <2> HIDE DEF R, Closed
  <2>3. i \in R \ {i}
    BY <1>1, <1>4, <2>1, <2>2
  <2> QED
    BY <2>3
<1> HIDE DEF R
<1>5. /\ R \subseteq D /\ start \in R
      /\ \A j \in R : next[j] \in D => next[j] \in R
      /\ \A i \in R : i # start => \E j \in R : next[j] = i
  BY <1>2, <1>3, <1>4
<1> QED
  BY <1>5 DEF R

StepsFrom(n, S, x, step) ==
    {q \in [0..n -> S] : q[0] = x /\ \A i \in 1..n : q[i] = step[<<q[i - 1], i>>]}

(* A sequence of values is built by steps: for every start and every step  *)
(* function there is one.                                                  *)
LEMMA StepsExist ==
    ASSUME NEW n \in Nat, NEW S, NEW x \in S, NEW step \in [S \X (1..n) -> S]
    PROVE  StepsFrom(n, S, x, step) # {}
<1> SUFFICES \E q \in [0..n -> S] : q[0] = x /\ \A i \in 1..n : q[i] = step[<<q[i - 1], i>>]
  BY DEF StepsFrom
<1> DEFINE Upto(k, q) == q[0] = x /\ \A i \in 1..k : q[i] = step[<<q[i - 1], i>>]
           bad == {k \in 0..n : ~ \E q \in [0..k -> S] : Upto(k, q)}
<1>1. SUFFICES ASSUME bad # {} PROVE FALSE
  <2>1. n \notin bad => \E q \in [0..n -> S] : Upto(n, q)
    BY n \in 0..n
  <2> QED
    BY <2>1
<1>2. PICK k \in bad : \A j \in bad : k <= j
  <2>1. bad \in SUBSET Nat
    OBVIOUS
  <2> HIDE DEF bad
  <2> QED
    BY <1>1, <2>1, Least
<1>3. k # 0
  <2>1. ASSUME k = 0 PROVE \E q \in [0..k -> S] : Upto(k, q)
    <3> DEFINE z == [i \in 0..0 |-> x]
    <3>1. z \in [0..k -> S] /\ Upto(k, z)
      BY <2>1
    <3> QED
      BY <3>1
  <2> QED
    BY <1>2, <2>1
<1>4. k \in 1..n /\ k - 1 \in 0..n /\ k - 1 \notin bad
  BY <1>2, <1>3
<1>5. PICK q \in [0..(k - 1) -> S] : Upto(k - 1, q)
  BY <1>4
<1> DEFINE r == [i \in 0..k |-> IF i = k THEN step[<<q[k - 1], k>>] ELSE q[i]]
<1>6. r \in [0..k -> S]
  <2>1. k - 1 \in 0..(k - 1) /\ k \in 1..n
    BY <1>4
  <2>2. q[k - 1] \in S
    BY <2>1
  <2>3. <<q[k - 1], k>> \in S \X (1..n)
    BY <2>1, <2>2
  <2>4. step[<<q[k - 1], k>>] \in S
    BY <2>3
  <2>5. \A i \in 0..k : i # k => i \in 0..(k - 1)
    BY <1>4
  <2> QED
    BY <2>4, <2>5
<1>7. Upto(k, r)
  <2>1. r[0] = x
    BY <1>4, <1>5
  <2>2. ASSUME NEW i \in 1..k PROVE r[i] = step[<<r[i - 1], i>>]
    <3>1. CASE i = k
      <4>1. r[i] = step[<<q[k - 1], k>>] /\ r[i - 1] = q[k - 1]
        BY <1>4, <3>1
      <4> QED
        BY <3>1, <4>1
    <3>2. CASE i # k
      <4>1. i \in 1..(k - 1) /\ r[i] = q[i] /\ r[i - 1] = q[i - 1]
        BY <1>4, <3>2
      <4> QED
        BY <1>5, <4>1
    <3> QED
      BY <3>1, <3>2
  <2> HIDE DEF r
  <2> QED
    BY <2>1, <2>2
<1> HIDE DEF r
<1> QED
  BY <1>2, <1>6, <1>7

-----------------------------------------------------------------------------
(* The heap *)

HeapOrder(q) == \A i \in DOMAIN q : i > 1 => q[i \div 2].at <= q[i].at

LEMMA Halves ==
    ASSUME NEW i \in Nat
    PROVE  /\ i \div 2 \in Nat /\ 2 * (i \div 2) <= i /\ i <= 2 * (i \div 2) + 1
           /\ i > 1 => i \div 2 >= 1 /\ i \div 2 < i
  OBVIOUS

LEMMA EntryType ==
    ASSUME NEW q \in Seq(Entry)
    PROVE  /\ DOMAIN q = 1..Len(q) /\ Len(q) \in Nat
           /\ \A i \in 1..Len(q) : q[i] \in Entry /\ q[i].at \in Nat
<1>1. DOMAIN q = 1..Len(q) /\ Len(q) \in Nat /\ \A i \in 1..Len(q) : q[i] \in Entry
  OBVIOUS
<1>2. \A e \in Entry : e.at \in Nat
  BY DEF Entry
<1> QED
  BY <1>1, <1>2

(* heappush: the result is a heap if the list was one, and it has the      *)
(* entry, and all the entries of the list, and nothing else.               *)
LEMMA PushKeepsHeap ==
    ASSUME NEW q \in Seq(Entry), NEW e \in Entry
    PROVE  /\ HeapPush(q, e) \in Seq(Entry)
           /\ HeapOrder(q) => HeapOrder(HeapPush(q, e))
           /\ \E i \in DOMAIN HeapPush(q, e) : HeapPush(q, e)[i] = e
           /\ \A k \in DOMAIN q : \E i \in DOMAIN HeapPush(q, e) : HeapPush(q, e)[i] = q[k]
           /\ \A i \in DOMAIN HeapPush(q, e) :
                 HeapPush(q, e)[i] = e \/ \E k \in DOMAIN q : HeapPush(q, e)[i] = q[k]
<1> DEFINE n == Len(q) + 1
           half == [i \in 1..n |-> i \div 2]
           up == Reached(1..n, n, half)
           Fits(i) == /\ i = n \/ q[i].at > e.at
                      /\ \A j \in up : j < i => q[j].at <= e.at
           to == CHOOSE i \in up : Fits(i)
           h == [i \in 1..n |-> CASE i = to -> e
                                  [] i \in up /\ i > to -> q[i \div 2]
                                  [] OTHER -> q[i]]
<1>1. HeapPush(q, e) = h
  BY Zenon DEF HeapPush
<1>2. /\ n \in Nat /\ n >= 1 /\ DOMAIN q = 1..(n - 1) /\ e.at \in Nat
      /\ \A i \in 1..(n - 1) : q[i] \in Entry /\ q[i].at \in Nat
  <2>1. e.at \in Nat
    BY DEF Entry
  <2>2. n - 1 = Len(q) /\ n \in Nat /\ n >= 1
    OBVIOUS
  <2> HIDE DEF n
  <2> QED
    BY <2>1, <2>2, EntryType
<1> HIDE DEF n
<1>3. /\ up \subseteq 1..n /\ n \in up
      /\ \A j \in up : j > 1 => j \div 2 \in up
      /\ \A i \in up : i # n => \E j \in up : j \div 2 = i
  <2> DEFINE D == 1..n
  <2>1. n \in D
    BY <1>2
  <2> HIDE DEF half, D
  <2>0. /\ Reached(D, n, half) \subseteq D /\ n \in Reached(D, n, half)
        /\ \A j \in Reached(D, n, half) : half[j] \in D => half[j] \in Reached(D, n, half)
        /\ \A i \in Reached(D, n, half) :
              i # n => \E j \in Reached(D, n, half) : half[j] = i
    BY ONLY <2>1, ReachedIsLeast, Zenon
  <2>2. /\ up \subseteq 1..n /\ n \in up
        /\ \A j \in up : half[j] \in 1..n => half[j] \in up
        /\ \A i \in up : i # n => \E j \in up : half[j] = i
    BY <2>0 DEF D
  <2> HIDE DEF up
  <2>3. \A j \in up : half[j] = j \div 2
    BY <2>2 DEF half
  <2>4. \A j \in up : j > 1 => j \div 2 \in 1..n
    BY <1>2, <2>2
  <2> QED
    BY <2>2, <2>3, <2>4
<1> HIDE DEF up
<1>4. to \in up /\ Fits(to)
  <2> DEFINE later == {i \in up : i = n \/ q[i].at > e.at}
  <2>1. later \in SUBSET Nat /\ later # {}
    <3>1. \A i \in up : i \in Nat
      BY <1>2, <1>3
    <3>2. n \in later
      BY <1>3
    <3> QED
      BY <3>1, <3>2
  <2>2. PICK i \in later : \A j \in later : i <= j
    <3> HIDE DEF later
    <3> QED
      BY <2>1, Least
  <2>3. ASSUME NEW j \in up, j < i PROVE q[j].at <= e.at
    <3>1. j \notin later /\ i \in 1..n /\ j \in 1..n
      BY <1>2, <1>3, <2>2, <2>3
    <3>2. j \in 1..(n - 1)
      BY <1>2, <2>3, <3>1
    <3> QED
      BY <1>2, <2>3, <3>1, <3>2
  <2>4. i \in up /\ Fits(i)
    BY <2>2, <2>3
  <2> HIDE DEF Fits
  <2> QED
    BY <2>4
<1> HIDE DEF to
<1>5. /\ h[to] = e /\ to \in 1..n
      /\ \A i \in up : i > to => h[i] = q[i \div 2]
      /\ \A i \in 1..n : i # to /\ (i \notin up \/ i < to) => h[i] = q[i]
  BY <1>2, <1>3, <1>4
<1>6. DOMAIN h = 1..n
  OBVIOUS
<1> HIDE DEF h
<1>7. \A i \in 1..n : i # to /\ (i \notin up \/ i < to) => i \in 1..(n - 1)
  BY <1>2, <1>3, <1>5
<1>8. \A i \in up : i > to => i \div 2 \in 1..(n - 1) /\ i \div 2 \in up
  BY <1>2, <1>3, <1>5
<1>9. \A i \in 1..n : h[i] = e \/ \E k \in 1..(n - 1) : h[i] = q[k]
  BY <1>2, <1>5, <1>7, <1>8
<1>10. \A k \in 1..(n - 1) : \E i \in 1..n : h[i] = q[k]
  <2> TAKE k \in 1..(n - 1)
  <2>1. CASE k \in up /\ k >= to
    <3>1. PICK j \in up : j \div 2 = k
      BY <1>2, <1>3, <2>1
    <3>2. j \in 1..n /\ j > to
      BY <1>2, <1>3, <1>5, <2>1, <3>1
    <3> QED
      BY <1>5, <3>1, <3>2
  <2>2. CASE ~(k \in up /\ k >= to)
    <3>1. k \in 1..n /\ k # to /\ (k \notin up \/ k < to)
      BY <1>2, <1>4, <1>5, <2>2
    <3> QED
      BY <1>5, <3>1
  <2> QED
    BY <2>1, <2>2
<1>11. h \in Seq(Entry)
  <2>1. \A i \in 1..n : h[i] \in Entry
    BY <1>2, <1>9
  <2>2. h = [i \in 1..n |-> h[i]]
    BY DEF h
  <2> QED
    BY <1>2, <2>1, <2>2
<1>12. ASSUME HeapOrder(q) PROVE HeapOrder(h)
  <2>1. \A i \in 1..(n - 1) : i > 1 => q[i \div 2].at <= q[i].at
    BY <1>2, <1>12 DEF HeapOrder
  <2>2. ASSUME NEW i \in 1..n, i > 1 PROVE h[i \div 2].at <= h[i].at
    <3> DEFINE p == i \div 2
    <3>1. p \in 1..(n - 1) /\ p < i
      BY <1>2, <2>2
    <3>2. i \in up => p \in up
      BY <1>3, <2>2
    <3>3. p > 1 => p \div 2 \in 1..(n - 1) /\ q[p \div 2].at <= q[p].at /\ q[p \div 2].at \in Nat
      BY <1>2, <2>1, <3>1
    <3>7. SUFFICES h[p].at <= h[i].at
      OBVIOUS
    <3>8. i \in 1..(n - 1) => q[p].at <= q[i].at
      BY <2>1, <2>2
    <3>9. i \in up /\ i > to => h[i] = q[p]
      BY <1>5
    <3> HIDE DEF p
    <3>4. CASE i = to
      <4>1. p \in up /\ p < to
        BY <1>4, <3>1, <3>2, <3>4
      <4>2. h[p] = q[p] /\ q[p].at <= e.at
        BY <1>2, <1>4, <1>5, <3>1, <4>1
      <4> QED
        BY <1>5, <3>4, <4>2
    <3>5. CASE i \in up /\ i > to
      <4>1. h[i] = q[p] /\ p \in up /\ q[p].at \in Nat
        BY <1>2, <3>1, <3>2, <3>5, <3>9
      <4>2. CASE p = to
        <5>1. q[to].at > e.at
          BY <1>2, <1>4, <1>5, <3>1, <4>2
        <5> QED
          BY <1>2, <1>5, <4>1, <4>2, <5>1
      <4>3. CASE p > to
        <5>1. h[p] = q[p \div 2] /\ p > 1
          BY <1>5, <3>1, <4>1, <4>3
        <5> QED
          BY <3>3, <4>1, <5>1
      <4>4. CASE p < to
        <5>1. h[p] = q[p]
          BY <1>2, <1>5, <3>1, <4>4
        <5> QED
          BY <4>1, <5>1
      <4> QED
        BY <1>5, <3>1, <4>2, <4>3, <4>4
    <3>6. CASE i # to /\ (i \notin up \/ i < to)
      <4>1. h[i] = q[i] /\ i \in 1..(n - 1)
        BY <1>5, <1>7, <3>6
      <4>2. q[p].at <= q[i].at /\ q[i].at \in Nat /\ q[p].at \in Nat
        BY <1>2, <3>1, <3>8, <4>1
      <4>3. CASE p = to
        <5>1. q[to].at > e.at
          BY <1>2, <1>4, <1>5, <3>1, <4>3
        <5> QED
          BY <1>2, <1>5, <4>1, <4>2, <4>3, <5>1
      <4>4. CASE p \in up /\ p > to
        <5>1. h[p] = q[p \div 2] /\ p > 1
          BY <1>5, <3>1, <4>4
        <5> QED
          BY <3>3, <4>1, <4>2, <5>1
      <4>5. CASE p # to /\ (p \notin up \/ p < to)
        <5>1. h[p] = q[p]
          BY <1>2, <1>5, <3>1, <4>5
        <5> QED
          BY <4>1, <4>2, <5>1
      <4> QED
        BY <1>5, <3>1, <4>3, <4>4, <4>5
    <3> QED
      BY <1>5, <3>4, <3>5, <3>6
  <2> QED
    BY <1>6, <2>2 DEF HeapOrder
<1> QED
  BY <1>1, <1>2, <1>5, <1>6, <1>9, <1>10, <1>11, <1>12

(* The first entry of a heap is the earliest. *)
LEMMA FirstIsEarliest ==
    ASSUME NEW q \in Seq(Entry), HeapOrder(q), NEW i \in DOMAIN q
    PROVE  q[1].at <= q[i].at
<1> DEFINE bad == {k \in DOMAIN q : ~(q[1].at <= q[k].at)}
<1>1. /\ DOMAIN q = 1..Len(q) /\ Len(q) \in Nat
      /\ \A k \in 1..Len(q) : q[k].at \in Nat
  BY EntryType
<1>2. SUFFICES ASSUME bad # {} PROVE FALSE
  OBVIOUS
<1>3. PICK k \in bad : \A j \in bad : k <= j
  <2>1. bad \in SUBSET Nat
    BY <1>1
  <2> HIDE DEF bad
  <2> QED
    BY <1>2, <2>1, Least
<1>4. k \in 1..Len(q) /\ ~(q[1].at <= q[k].at)
  BY <1>1, <1>3
<1>5. k > 1 /\ 1 \in 1..Len(q)
  BY <1>1, <1>4
<1>6. k \div 2 \in 1..Len(q) /\ k \div 2 < k
  BY <1>1, <1>4, <1>5
<1>7. q[1].at <= q[k \div 2].at
  BY <1>1, <1>3, <1>4, <1>6
<1>8. q[k \div 2].at <= q[k].at
  BY <1>1, <1>4, <1>5 DEF HeapOrder
<1> QED
  BY <1>1, <1>4, <1>5, <1>6, <1>7, <1>8

(* The earlier child is a child, and of two children in the list it is     *)
(* not the later one.                                                      *)
LEMMA EarlierChildOf ==
    ASSUME NEW m \in Nat, NEW s, DOMAIN s = 1..m, \A k \in 1..m : s[k].at \in Nat,
           NEW p \in 1..m
    PROVE  /\ EarlierChild(s, p) \in {2 * p, 2 * p + 1}
           /\ EarlierChild(s, p) \div 2 = p /\ EarlierChild(s, p) > p
           /\ \A i \in 1..m : i > 1 /\ i \div 2 = p =>
                 /\ EarlierChild(s, p) \in 1..m
                 /\ s[EarlierChild(s, p)].at <= s[i].at
<1>1. EarlierChild(s, p) = IF 2 * p + 1 \in 1..m /\ s[2 * p + 1].at <= s[2 * p].at
                           THEN 2 * p + 1 ELSE 2 * p
  BY DEF EarlierChild
<1> DEFINE c == EarlierChild(s, p)
<1> HIDE DEF c
<1>2. c \in {2 * p, 2 * p + 1}
  BY <1>1 DEF c
<1>3. c \div 2 = p /\ c > p
  BY <1>2
<1>4. ASSUME NEW i \in 1..m, i > 1, i \div 2 = p PROVE c \in 1..m /\ s[c].at <= s[i].at
  <2>1. i \in {2 * p, 2 * p + 1} /\ 2 * p \in 1..m
    BY <1>4
  <2>2. CASE i = 2 * p
    BY <1>1, <2>1, <2>2 DEF c
  <2>3. CASE i = 2 * p + 1
    BY <1>1, <2>1, <2>3 DEF c
  <2> QED
    BY <2>1, <2>2, <2>3
<1> QED
  BY <1>2, <1>3, <1>4 DEF c

(* The path along which heappop sinks an entry. *)
Path(s) == Reached(DOMAIN s, 1, [i \in DOMAIN s |-> EarlierChild(s, i)])

(* The path of the earlier children: from the root down, each is the       *)
(* earlier child of the one before it.                                     *)
LEMMA PathDown ==
    ASSUME NEW m \in Nat, m > 0, NEW s, DOMAIN s = 1..m, \A k \in 1..m : s[k].at \in Nat
    PROVE  /\ Path(s) \subseteq 1..m /\ 1 \in Path(s)
           /\ \A i \in Path(s) : i > 1 => i \div 2 \in Path(s) /\ i = EarlierChild(s, i \div 2)
           /\ \A j \in Path(s) : EarlierChild(s, j) \in 1..m => EarlierChild(s, j) \in Path(s)
           /\ \A a, b \in Path(s) : a < b => a <= b \div 2 /\ EarlierChild(s, a) \in Path(s)
<1> DEFINE down == Path(s)
           D == DOMAIN s
           next == [i \in D |-> EarlierChild(s, i)]
<1>1. 1 \in D
  OBVIOUS
<1> HIDE DEF D, next
<1>2. /\ Reached(D, 1, next) \subseteq D /\ 1 \in Reached(D, 1, next)
      /\ \A j \in Reached(D, 1, next) : next[j] \in D => next[j] \in Reached(D, 1, next)
      /\ \A i \in Reached(D, 1, next) : i # 1 => \E j \in Reached(D, 1, next) : next[j] = i
  BY ONLY <1>1, ReachedIsLeast
<1>3. down = Reached(D, 1, next)
  BY DEF D, next, Path
<1> HIDE DEF down
<1>4. \A j \in D : next[j] = EarlierChild(s, j)
  BY DEF D, next
<1>5. /\ down \subseteq 1..m /\ 1 \in down
      /\ \A j \in down : EarlierChild(s, j) \in 1..m => EarlierChild(s, j) \in down
      /\ \A i \in down : i # 1 => \E j \in down : EarlierChild(s, j) = i
  <2>1. D = 1..m
    BY DEF D
  <2> QED
    BY <1>2, <1>3, <1>4, <2>1
<1>6. ASSUME NEW i \in down, i > 1 PROVE i \div 2 \in down /\ i = EarlierChild(s, i \div 2)
  <2>1. PICK j \in down : EarlierChild(s, j) = i
    BY <1>5, <1>6
  <2>2. EarlierChild(s, j) \div 2 = j
    BY <1>5, EarlierChildOf
  <2> QED
    BY <2>1, <2>2
<1> DEFINE bad == {b \in down : \E a \in down : a < b /\ ~(a <= b \div 2)}
<1>7. bad = {}
  <2>1. SUFFICES ASSUME bad # {} PROVE FALSE
    OBVIOUS
  <2>2. PICK b \in bad : \A x \in bad : b <= x
    <3>1. bad \in SUBSET Nat
      <4>1. \A b \in bad : b \in 1..m
        BY <1>5
      <4> HIDE DEF bad
      <4> QED
        BY <4>1
    <3> HIDE DEF bad
    <3> QED
      BY <2>1, <3>1, Least
  <2>3. PICK a \in down : a < b /\ ~(a <= b \div 2)
    BY <2>2
  <2>4. b \in 1..m /\ a \in 1..m /\ b \in down /\ b > 1 /\ b \div 2 < b
    BY <1>5, <2>2, <2>3
  <2>5. b \div 2 \in down /\ b = EarlierChild(s, b \div 2) /\ b \div 2 \in 1..m
    BY <1>5, <1>6, <2>4
  <2>6. b \div 2 < a
    BY <2>3, <2>4, <2>5
  <2>7. a > 1 /\ a \notin bad
    BY <2>2, <2>3, <2>4, <2>5, <2>6
  <2>8. b \div 2 <= a \div 2
    BY <2>5, <2>6, <2>7
  <2>9. a \div 2 = b \div 2
    BY <2>3, <2>4, <2>8
  <2>10. a = EarlierChild(s, a \div 2)
    BY <1>6, <2>7
  <2> QED
    BY <2>3, <2>4, <2>5, <2>9, <2>10
<1>8. ASSUME NEW a \in down, NEW b \in down, a < b
      PROVE  a <= b \div 2 /\ EarlierChild(s, a) \in down
  <2>1. a <= b \div 2
    BY <1>7, <1>8
  <2>2. a \in 1..m /\ b \in 1..m /\ b > 1
    BY <1>5, <1>8
  <2>3. b \div 2 \in down /\ b = EarlierChild(s, b \div 2)
    BY <1>6, <2>2
  <2>4. CASE a = b \div 2
    BY <2>1, <2>3, <2>4
  <2>5. CASE a # b \div 2
    <3>1. 2 * a + 1 <= b
      BY <2>1, <2>2, <2>5
    <3>2. EarlierChild(s, a) \in {2 * a, 2 * a + 1}
      BY <2>2, EarlierChildOf
    <3>3. EarlierChild(s, a) \in 1..m
      BY <2>2, <3>1, <3>2
    <3> QED
      BY <1>5, <2>1, <3>3
  <2> QED
    BY <2>4, <2>5
<1> QED
  BY <1>5, <1>6, <1>8 DEF down

(* heappop: the result is a heap if the list was one, and it has all the   *)
(* entries but the first, and nothing that was not in the list.            *)
LEMMA PopKeepsHeap ==
    ASSUME NEW q \in Seq(Entry), q # <<>>
    PROVE  /\ HeapPop(q) \in Seq(Entry)
           /\ HeapOrder(q) => HeapOrder(HeapPop(q))
           /\ \A k \in DOMAIN q :
                 q[k] = q[1] \/ \E i \in DOMAIN HeapPop(q) : HeapPop(q)[i] = q[k]
           /\ \A i \in DOMAIN HeapPop(q) : \E k \in DOMAIN q : HeapPop(q)[i] = q[k]
<1> DEFINE m == Len(q) - 1
           e == Last(q)
           s == Front(q)
           down == Reached(DOMAIN s, 1, [i \in DOMAIN s |-> EarlierChild(s, i)])
           Fits(i) == /\ i = 1 \/ s[i].at <= e.at
                      /\ \A j \in down : j > i => s[j].at > e.at
           to == CHOOSE i \in down : Fits(i)
           h == [i \in DOMAIN s |-> CASE i = to -> e
                                      [] i \in down /\ i < to -> s[EarlierChild(s, i)]
                                      [] OTHER -> s[i]]
<1>1. HeapPop(q) = h
  BY Zenon DEF HeapPop
<1>2. /\ m \in Nat /\ Len(q) = m + 1 /\ DOMAIN q = 1..(m + 1)
      /\ s \in Seq(Entry) /\ DOMAIN s = 1..m /\ \A i \in 1..m : s[i] = q[i]
      /\ e = q[m + 1]
  <2>1. Len(q) \in Nat /\ Len(q) > 0
    OBVIOUS
  <2> QED
    BY <2>1 DEF Last, Front
<1>3. /\ \A i \in 1..m : s[i] \in Entry /\ s[i].at \in Nat
      /\ e \in Entry /\ e.at \in Nat
  <2>1. \A i \in 1..(m + 1) : q[i] \in Entry /\ q[i].at \in Nat
    <3> HIDE DEF m
    <3> QED
      BY <1>2, EntryType
  <2> HIDE DEF m, s, e
  <2> QED
    BY <1>2, <2>1
<1>4. DOMAIN h = DOMAIN s /\ h = [i \in DOMAIN s |-> h[i]]
  OBVIOUS
<1>5. CASE m = 0
  <2>1. DOMAIN h = {} /\ h = << >>
    BY <1>2, <1>4, <1>5
  <2>2. \A k \in DOMAIN q : q[k] = q[1]
    BY <1>2, <1>5
  <2> HIDE DEF h
  <2> QED
    BY <1>1, <2>1, <2>2 DEF HeapOrder
<1>6. CASE m > 0
  <2> HIDE DEF m, e, s
  <2>1. /\ down \subseteq 1..m /\ 1 \in down
        /\ \A i \in down : i > 1 => i \div 2 \in down /\ i = EarlierChild(s, i \div 2)
        /\ \A j \in down : EarlierChild(s, j) \in 1..m => EarlierChild(s, j) \in down
        /\ \A a, b \in down : a < b => a <= b \div 2 /\ EarlierChild(s, a) \in down
    <3>1. down = Path(s)
      BY DEF Path
    <3> HIDE DEF down
    <3>2. m \in Nat /\ m > 0 /\ DOMAIN s = 1..m /\ \A k \in 1..m : s[k].at \in Nat
      BY <1>2, <1>3, <1>6
    <3> QED
      BY ONLY <3>1, <3>2, PathDown
  <2> HIDE DEF down
  <2>2. to \in down /\ Fits(to)
    <3> DEFINE early == {i \in down : i = 1 \/ s[i].at <= e.at}
    <3>1. early \in SUBSET (0..m) /\ early # {}
      <4>1. 1 \in early
        BY <2>1
      <4>2. \A i \in down : i \in 0..m
        BY <1>2, <2>1
      <4> QED
        BY <4>1, <4>2
    <3>2. PICK i \in early : \A j \in early : j <= i
      <4> HIDE DEF early
      <4> QED
        BY <1>2, <3>1, GreatestOf
    <3>3. ASSUME NEW j \in down, j > i PROVE s[j].at > e.at
      <4>1. j \in 1..m /\ i \in 1..m /\ j \notin early
        BY <2>1, <3>2, <3>3
      <4> QED
        BY <1>2, <1>3, <3>3, <4>1
    <3>4. i \in down /\ Fits(i)
      BY <3>2, <3>3
    <3> HIDE DEF Fits
    <3> QED
      BY <3>4
  <2> HIDE DEF to
  <2>3. /\ h[to] = e /\ to \in 1..m
        /\ \A i \in down : i < to => h[i] = s[EarlierChild(s, i)]
        /\ \A i \in 1..m : i # to /\ (i \notin down \/ i > to) => h[i] = s[i]
    BY <1>2, <2>1, <2>2
  <2> HIDE DEF h
  <2>4. \A i \in down : i < to => EarlierChild(s, i) \in down
    BY <2>1, <2>2
  <2>5. \A i \in 1..m : h[i] = e \/ \E k \in 1..m : h[i] = s[k]
    <3> TAKE i \in 1..m
    <3>1. CASE i \in down /\ i < to
      <4>1. h[i] = s[EarlierChild(s, i)] /\ EarlierChild(s, i) \in 1..m
        BY <2>1, <2>3, <2>4, <3>1
      <4> QED
        BY <4>1
    <3>2. CASE i # to /\ (i \notin down \/ i > to)
      BY <2>3, <3>2
    <3> QED
      BY <1>2, <2>3, <3>1, <3>2
  <2>6. ASSUME NEW k \in 1..(m + 1) PROVE q[k] = q[1] \/ \E i \in 1..m : h[i] = q[k]
    <3>1. CASE k = m + 1
      BY <1>2, <2>3, <3>1
    <3>2. CASE k \in 1..m /\ (k \notin down \/ k > to)
      <4>1. CASE k = to
        BY <2>2, <3>2, <4>1
      <4>2. CASE k # to
        BY <1>2, <2>3, <3>2, <4>2
      <4> QED
        BY <4>1, <4>2
    <3>3. CASE k \in down /\ k <= to /\ k > 1
      <4>1. k \in 1..m /\ k \div 2 \in down /\ k \div 2 \in 1..m /\ k \div 2 < to
        BY <1>2, <2>1, <2>3, <3>3
      <4>2. h[k \div 2] = s[k]
        BY <2>1, <2>3, <3>3, <4>1
      <4> QED
        BY <1>2, <4>1, <4>2
    <3>4. CASE k = 1
      BY <3>4
    <3> QED
      BY <1>2, <2>1, <2>3, <3>1, <3>2, <3>3, <3>4
  <2>7. h \in Seq(Entry)
    <3>1. \A i \in 1..m : h[i] \in Entry
      BY <1>3, <2>5
    <3> QED
      BY <1>2, <1>4, <3>1
  <2>8. ASSUME HeapOrder(q), NEW i \in 1..m, i > 1 PROVE h[i \div 2].at <= h[i].at
    <3>1. i \div 2 \in 1..m /\ i \div 2 < i
      BY <1>2, <2>8
    <3>2. \A j \in 1..m : j > 1 => s[j \div 2].at <= s[j].at
      <4>1. \A j \in 1..m : j > 1 => j \div 2 \in 1..m /\ j \in 1..(m + 1)
        BY <1>2
      <4>2. \A j \in 1..(m + 1) : j > 1 => q[j \div 2].at <= q[j].at
        BY <1>2, <2>8 DEF HeapOrder
      <4> QED
        BY <1>2, <4>1, <4>2
    <3>3. i \in down => i \div 2 \in down /\ i = EarlierChild(s, i \div 2)
      BY <2>1, <2>8
    <3>4. /\ EarlierChild(s, i \div 2) \in 1..m
          /\ s[EarlierChild(s, i \div 2)].at <= s[i].at
          /\ EarlierChild(s, i \div 2) > i \div 2
      BY <1>2, <1>3, <2>8, <3>1, EarlierChildOf
    <3>5. s[i \div 2].at <= s[i].at
      BY <2>8, <3>2
    <3>6. i \in down /\ i > to => to <= i \div 2
      BY <2>1, <2>2
    <3>7. \A j \in down : j > to => s[j].at > e.at
      BY <2>2
    <3> DEFINE p == i \div 2
               c == EarlierChild(s, p)
    <3>8. SUFFICES h[p].at <= h[i].at
      OBVIOUS
    <3>9. p \in 1..m /\ p < i /\ c \in 1..m /\ s[c].at <= s[i].at /\ c > p /\ s[p].at <= s[i].at
      BY <3>1, <3>4, <3>5
    <3>10. i \in down => p \in down /\ c = i /\ (i > to => to <= p)
      BY <3>3, <3>6
    <3>11. p \in down /\ p <= to => c \in down
      BY <2>1, <3>9
    <3>12. p \in down /\ p < to => h[p] = s[c]
      BY <2>3
    <3> HIDE DEF p, c
    <3>13. CASE i = to
      <4>1. p \in down /\ p < to /\ h[p] = s[i]
        BY <2>2, <3>9, <3>10, <3>12, <3>13
      <4>2. s[to].at <= e.at
        BY <2>2, <2>8, <3>13
      <4> QED
        BY <2>3, <3>13, <4>1, <4>2
    <3>14. CASE i \in down /\ i < to
      <4>1. p \in down /\ p < to /\ h[p] = s[i]
        BY <2>3, <3>9, <3>10, <3>12, <3>14
      <4>2. h[i] = s[EarlierChild(s, i)] /\ EarlierChild(s, i) \in down
        BY <2>3, <2>4, <3>14
      <4>3. EarlierChild(s, i) > 1 /\ EarlierChild(s, i) \div 2 = i /\ EarlierChild(s, i) \in 1..m
        <5>1. EarlierChild(s, i) \div 2 = i /\ EarlierChild(s, i) > i
          BY <1>2, <1>3, EarlierChildOf
        <5>2. EarlierChild(s, i) \in 1..m
          BY <2>1, <4>2
        <5> QED
          BY <2>8, <5>1, <5>2
      <4>4. s[i].at <= s[EarlierChild(s, i)].at
        BY <3>2, <4>3
      <4> QED
        BY <4>1, <4>2, <4>4
    <3>15. CASE i \in down /\ i > to
      <4>1. h[i] = s[i] /\ p \in down /\ to <= p
        BY <2>3, <3>10, <3>15
      <4>2. CASE p = to
        BY <1>3, <2>3, <3>7, <3>15, <4>1, <4>2
      <4>3. CASE p # to
        BY <2>3, <3>9, <4>1, <4>3
      <4> QED
        BY <4>2, <4>3
    <3>16. CASE i \notin down
      <4>1. h[i] = s[i]
        BY <2>2, <2>3, <3>16
      <4>2. CASE p \in down /\ p < to
        BY <3>9, <3>12, <4>1, <4>2
      <4>3. CASE p = to
        <5>1. c \in down /\ c > to
          BY <2>2, <2>3, <3>9, <3>11, <4>3
        <5>2. s[c].at > e.at /\ s[c].at \in Nat /\ s[i].at \in Nat
          BY <1>3, <3>7, <3>9, <5>1
        <5> QED
          BY <1>3, <2>3, <3>9, <4>1, <4>3, <5>2
      <4>4. CASE p # to /\ (p \notin down \/ p > to)
        BY <2>3, <3>9, <4>1, <4>4
      <4> QED
        BY <2>3, <3>9, <4>2, <4>3, <4>4
    <3> QED
      BY <2>3, <3>13, <3>14, <3>15, <3>16
  <2>9. HeapOrder(q) => HeapOrder(h)
    BY <1>2, <1>4, <2>8 DEF HeapOrder
  <2>10. \A i \in 1..m : \E k \in 1..(m + 1) : h[i] = q[k]
    BY <1>2, <2>5
  <2> QED
    BY <1>1, <1>2, <1>4, <2>6, <2>7, <2>9, <2>10
<1> QED
  BY <1>2, <1>5, <1>6

-----------------------------------------------------------------------------
(* The schedule *)

LEMMA DivisionFacts ==
    ASSUME NEW t \in Nat, NEW P \in Nat, P > 0
    PROVE  t \div P \in Nat /\ t % P \in 0..(P - 1) /\ t = (P * (t \div P)) + (t % P)
  OBVIOUS

LEMMA ProductsOrdered ==
    ASSUME NEW P \in Nat, NEW a \in Int, NEW b \in Int, a <= b
    PROVE  P * a <= P * b
  OBVIOUS

LEMMA RemainderOf ==
    ASSUME NEW P \in Nat, P > 0, NEW x \in Nat, NEW r \in Nat, r < P
    PROVE  (P * x + r) % P = r
<1> DEFINE m == P * x + r
           d == m \div P
           s == m % P
<1>1. m \in Nat
  OBVIOUS
<1> HIDE DEF m
<1>2. d \in Nat /\ s \in 0..(P - 1) /\ m = P * d + s
  BY <1>1, DivisionFacts
<1> HIDE DEF d, s
<1>3. P * x + r = P * d + s
  BY <1>2 DEF m
<1>4. CASE d < x
  <2>1. P * (d + 1) <= P * x
    BY <1>2, <1>4, ProductsOrdered
  <2>2. P * (d + 1) = P * d + P
    BY <1>2
  <2> QED
    BY <1>2, <1>3, <2>1, <2>2
<1>5. CASE d > x
  <2>1. P * (x + 1) <= P * d
    BY <1>2, <1>5, ProductsOrdered
  <2>2. P * (x + 1) = P * x + P
    BY <1>2
  <2> QED
    BY <1>2, <1>3, <2>1, <2>2
<1>6. CASE d = x
  BY <1>2, <1>3, <1>6 DEF s, m
<1> QED
  BY <1>2, <1>4, <1>5, <1>6

(* A cron is due within a period. *)
LEMMA NextIsDue ==
    ASSUME NEW f \in CronFile, NEW t \in Nat
    PROVE  NextDue(f, t) \in Nat /\ NextDue(f, t) % Period[f] = Phase[f]
<1> DEFINE P == Period[f]
           r == Phase[f]
           x == t \div P
           u == t % P
<1>1. P \in Nat /\ P > 0 /\ r \in Nat /\ r < P
  BY PeriodAssumption
<1> HIDE DEF P, r
<1>2. x \in Nat /\ u \in 0..(P - 1) /\ t = P * x + u
  BY <1>1, DivisionFacts
<1> HIDE DEF x, u
<1>3. \E m \in t..(t + P - 1) : m % P = r
  <2>1. P * (x + 1) = P * x + P /\ P * x \in Nat
    BY <1>1, <1>2
  <2>2. (P * x + r) % P = r /\ (P * (x + 1) + r) % P = r
    BY <1>1, <1>2, RemainderOf
  <2> DEFINE y == P * x
  <2>3. (y + r) % P = r /\ (y + P + r) % P = r /\ y \in Nat /\ t = y + u
    BY <1>2, <2>1, <2>2
  <2> HIDE DEF y
  <2>4. CASE u <= r
    <3>1. y + r \in t..(t + P - 1)
      BY <1>1, <1>2, <2>3, <2>4
    <3> QED
      BY <2>3, <3>1
  <2>5. CASE r < u
    <3>1. y + P + r \in t..(t + P - 1)
      BY <1>1, <1>2, <2>3, <2>5
    <3> QED
      BY <2>3, <3>1
  <2> QED
    BY <1>1, <1>2, <2>4, <2>5
<1>4. NextDue(f, t) \in t..(t + P - 1) /\ NextDue(f, t) % P = r
  <2> DEFINE C == t..(t + P - 1)
             Due(m) == m % P = r
  <2>1. NextDue(f, t) = CHOOSE m \in C : Due(m)
    BY Zenon DEF NextDue, P, r
  <2>2. \E m \in C : Due(m)
    BY <1>3
  <2> HIDE DEF C, Due
  <2>3. NextDue(f, t) \in C /\ Due(NextDue(f, t))
    BY <2>1, <2>2
  <2> QED
    BY <2>3 DEF C, Due
<1> QED
  BY <1>1, <1>4 DEF P, r

Scheduled(e) == e.at % Period[e.file] = Phase[e.file]

(* The entries made by a gather are of the files it takes, in minutes of   *)
(* their schedules.                                                        *)
LEMMA MadeAreScheduled ==
    ASSUME NEW K \in SUBSET CronFile, NEW n \in Nat, NEW order \in [1..n -> K],
           NEW punctual, minute \in Nat
    PROVE  /\ Made(order, punctual) \in Seq(Entry) /\ Len(Made(order, punctual)) = n
           /\ \A i \in 1..n : Made(order, punctual)[i].file = order[i]
           /\ \A i \in 1..n : Scheduled(Made(order, punctual)[i])
<1> DEFINE t(i) == IF i <= punctual THEN minute ELSE minute + 1
           made == [i \in 1..n |-> [file |-> order[i], at |-> NextDue(order[i], t(i))]]
<1>1. Made(order, punctual) = made
  BY DEF Made
<1>2. \A i \in 1..n : t(i) \in Nat /\ order[i] \in CronFile
  OBVIOUS
<1> HIDE DEF t
<1>3. \A i \in 1..n : /\ NextDue(order[i], t(i)) \in Nat
                      /\ NextDue(order[i], t(i)) % Period[order[i]] = Phase[order[i]]
  BY <1>2, NextIsDue
<1>4. \A i \in 1..n : /\ made[i] \in Entry /\ made[i].file = order[i]
                      /\ made[i].at = NextDue(order[i], t(i))
  BY <1>2, <1>3 DEF Entry
<1>5. made \in Seq(Entry) /\ Len(made) = n
  <2>1. made = [i \in 1..n |-> made[i]]
    OBVIOUS
  <2> HIDE DEF made
  <2> QED
    BY <1>4, <2>1
<1> HIDE DEF made
<1> QED
  BY <1>1, <1>3, <1>4, <1>5 DEF Scheduled

-----------------------------------------------------------------------------
(* Gathering *)

InList(q, e) == \E i \in DOMAIN q : q[i] = e

(* The heaps whose entries are of the files in L, in minutes of their      *)
(* schedules.                                                              *)
Schedules(L) ==
    {q \in Seq(Entry) :
        /\ HeapOrder(q)
        /\ \A i \in DOMAIN q : /\ q[i].file \in L
                               /\ q[i].at % Period[q[i].file] = Phase[q[i].file]}

LEMMA PushScheduled ==
    ASSUME NEW L, NEW q \in Schedules(L), NEW e \in Entry, e.file \in L,
           e.at % Period[e.file] = Phase[e.file]
    PROVE  /\ HeapPush(q, e) \in Schedules(L) /\ InList(HeapPush(q, e), e)
           /\ \A x : InList(q, x) => InList(HeapPush(q, e), x)
<1> DEFINE h == HeapPush(q, e)
<1>1. /\ h \in Seq(Entry) /\ HeapOrder(h) /\ InList(h, e)
      /\ \A k \in DOMAIN q : \E i \in DOMAIN h : h[i] = q[k]
      /\ \A i \in DOMAIN h : h[i] = e \/ \E k \in DOMAIN q : h[i] = q[k]
  BY PushKeepsHeap DEF Schedules, InList
<1> HIDE DEF h
<1>2. \A i \in DOMAIN h : h[i].file \in L /\ h[i].at % Period[h[i].file] = Phase[h[i].file]
  BY <1>1 DEF Schedules
<1>3. \A x : InList(q, x) => InList(h, x)
  BY <1>1 DEF InList
<1> QED
  BY <1>1, <1>2, <1>3 DEF h, Schedules

LEMMA PopScheduled ==
    ASSUME NEW L, NEW q \in Schedules(L), q # <<>>
    PROVE  /\ HeapPop(q) \in Schedules(L)
           /\ \A x : InList(q, x) => x = q[1] \/ InList(HeapPop(q), x)
<1> DEFINE h == HeapPop(q)
<1>1. /\ h \in Seq(Entry) /\ HeapOrder(h)
      /\ \A k \in DOMAIN q : q[k] = q[1] \/ \E i \in DOMAIN h : h[i] = q[k]
      /\ \A i \in DOMAIN h : \E k \in DOMAIN q : h[i] = q[k]
  BY PopKeepsHeap DEF Schedules
<1> HIDE DEF h
<1>2. \A i \in DOMAIN h : h[i].file \in L /\ h[i].at % Period[h[i].file] = Phase[h[i].file]
  BY <1>1 DEF Schedules
<1>3. \A x : InList(q, x) => x = q[1] \/ InList(h, x)
  BY <1>1 DEF InList
<1> QED
  BY <1>1, <1>2, <1>3 DEF h, Schedules

(* After all entries were looked at, the list is still a heap, no entry    *)
(* was lost from it, and the entries of new files are in it.               *)
LEMMA QueuedKeepsAll ==
    ASSUME NEW L, heap \in Schedules(L), NEW new,
           NEW n \in Nat, NEW entries \in [1..n -> Entry],
           \A i \in 1..n : /\ entries[i].file \in L
                           /\ entries[i].at % Period[entries[i].file] = Phase[entries[i].file]
    PROVE  /\ Queued(entries, new) \in Schedules(L)
           /\ \A x : InList(heap, x) => InList(Queued(entries, new), x)
           /\ \A i \in 1..n : entries[i].file \in new => InList(Queued(entries, new), entries[i])
<1> DEFINE S == Schedules(L)
           Next1(p) == IF Queues(p[1], new, entries[p[2]]) THEN HeapPush(p[1], entries[p[2]])
                       ELSE p[1]
           step == [p \in S \X (1..n) |-> Next1(p)]
           F(q) == [i \in 0..n |->
                      IF i = 0 THEN heap
                      ELSE IF Queues(q[i - 1], new, entries[i]) THEN HeapPush(q[i - 1], entries[i])
                      ELSE q[i - 1]]
           run == CHOOSE q : q = F(q)
<1>1. Len(entries) = n
  OBVIOUS
<1>2. Queued(entries, new) = run[n]
  BY <1>1, Zenon DEF Queued
<1>3. step \in [S \X (1..n) -> S]
  <2>1. ASSUME NEW p \in S \X (1..n) PROVE Next1(p) \in S
    <3>1. p[1] \in S /\ p[2] \in 1..n
      OBVIOUS
    <3>2. entries[p[2]] \in Entry
      BY <3>1
    <3>3. HeapPush(p[1], entries[p[2]]) \in S
      <4> HIDE DEF S
      <4> QED
        BY <3>1, <3>2, PushScheduled DEF S
    <3> QED
      BY <3>1, <3>3
  <2> HIDE DEF S, Next1
  <2> QED
    BY <2>1
<1>4. PICK g \in [0..n -> S] : g[0] = heap /\ \A i \in 1..n : g[i] = step[<<g[i - 1], i>>]
  <2>1. heap \in S
    OBVIOUS
  <2> HIDE DEF S, step
  <2>2. StepsFrom(n, S, heap, step) # {}
    BY <1>3, <2>1, StepsExist
  <2> QED
    BY <2>2 DEF StepsFrom
<1>5. \A q \in [0..n -> S] : \A i \in 1..n : step[<<q[i - 1], i>>] =
          IF Queues(q[i - 1], new, entries[i]) THEN HeapPush(q[i - 1], entries[i]) ELSE q[i - 1]
  <2> TAKE q \in [0..n -> S]
  <2> TAKE i \in 1..n
  <2>1. q[i - 1] \in S
    BY i - 1 \in 0..n
  <2>2. <<q[i - 1], i>> \in S \X (1..n)
    BY <2>1
  <2> HIDE DEF S
  <2> QED
    BY <2>2
<1>6. g = F(g)
  <2>1. ASSUME NEW i \in 0..n PROVE g[i] = F(g)[i]
    <3>1. CASE i = 0
      BY <1>4, <3>1
    <3>2. CASE i \in 1..n
      <4>1. g[i] = IF Queues(g[i - 1], new, entries[i]) THEN HeapPush(g[i - 1], entries[i])
                   ELSE g[i - 1]
        <5> HIDE DEF S, step
        <5> QED
          BY <1>4, <1>5, <3>2
      <4> QED
        BY <3>2, <4>1
    <3> QED
      BY <3>1, <3>2
  <2>2. DOMAIN g = 0..n /\ DOMAIN F(g) = 0..n /\ g = [i \in 0..n |-> g[i]]
    BY <1>4
  <2>3. F(g) = [i \in 0..n |-> F(g)[i]]
    OBVIOUS
  <2> HIDE DEF F
  <2> QED
    BY <2>1, <2>2, <2>3
<1>7. run = F(run)
  <2> HIDE DEF F
  <2> QED
    BY <1>6
<1>8. /\ run[0] = heap
      /\ \A i \in 1..n : run[i] = IF Queues(run[i - 1], new, entries[i])
                                  THEN HeapPush(run[i - 1], entries[i]) ELSE run[i - 1]
  <2>1. \A i \in 0..n : F(run)[i] = IF i = 0 THEN heap
            ELSE IF Queues(run[i - 1], new, entries[i]) THEN HeapPush(run[i - 1], entries[i])
            ELSE run[i - 1]
    OBVIOUS
  <2> HIDE DEF F, run
  <2> QED
    BY <1>7, <2>1
<1> HIDE DEF run, F, step
<1> DEFINE Good(i) == /\ run[i] \in S
                      /\ \A x : InList(heap, x) => InList(run[i], x)
                      /\ \A k \in 1..i : entries[k].file \in new => InList(run[i], entries[k])
           bad == {i \in 0..n : ~Good(i)}
<1>9. ASSUME NEW i \in 1..n, Good(i - 1) PROVE Good(i)
  <2>1. CASE Queues(run[i - 1], new, entries[i])
    <3>1. run[i] = HeapPush(run[i - 1], entries[i])
      BY <1>8, <2>1
    <3>2. /\ run[i] \in S /\ InList(run[i], entries[i])
          /\ \A x : InList(run[i - 1], x) => InList(run[i], x)
      BY <1>9, <3>1, PushScheduled
    <3>3. \A k \in 1..i : k = i \/ k \in 1..(i - 1)
      OBVIOUS
    <3> HIDE DEF S
    <3> QED
      BY <1>9, <3>2, <3>3
  <2>2. CASE ~Queues(run[i - 1], new, entries[i])
    <3>1. run[i] = run[i - 1]
      BY <1>8, <2>2
    <3>2. entries[i].file \notin new
      BY <2>2 DEF Queues
    <3>3. \A k \in 1..i : k = i \/ k \in 1..(i - 1)
      OBVIOUS
    <3> HIDE DEF S
    <3> QED
      BY <1>9, <3>1, <3>2, <3>3
  <2> QED
    BY <2>1, <2>2
<1>10. Good(0)
  BY <1>8
<1> HIDE DEF Good
<1>11. bad = {}
  <2>1. SUFFICES ASSUME bad # {} PROVE FALSE
    OBVIOUS
  <2>2. PICK i \in bad : \A j \in bad : i <= j
    <3>1. bad \in SUBSET Nat
      OBVIOUS
    <3> HIDE DEF bad
    <3> QED
      BY <2>1, <3>1, Least
  <2>3. i \in 1..n /\ i - 1 \in 0..n /\ i - 1 \notin bad
    BY <1>10, <2>2
  <2> QED
    BY <1>9, <2>2, <2>3
<1>12. Good(n)
  BY <1>11
<1> QED
  BY <1>2, <1>12 DEF Good

-----------------------------------------------------------------------------
(* The inductive invariant: attempts are left while the runner logs in,    *)
(* and a file that was found was run for the first minute it was scheduled *)
(* for, or is still in the heap for it.  That is lost only when the runner *)
(* ends.                                                                   *)
CronInv ==
    /\ CronTypeOK
    /\ stage \in {"init", "login"} => attempts < LoginAttempts
    /\ NothingOverdue
    /\ \A f \in CronFile : f \notin loaded => first[f] = -1
    /\ stage \notin {"drained", "failed"} =>
         \A f \in loaded : /\ first[f] # -1
                           /\ first[f] \in ran[f] \/ InList(heap, [file |-> f, at |-> first[f]])

(* A listing of the files has each of them. *)
LEMMA AllAreListed ==
    ASSUME NEW S, S \subseteq CronFile, NEW order \in SetToSeqs(S)
    PROVE  \E n \in Nat : /\ order \in [1..n -> S]
                          /\ \A x \in S : \E i \in 1..n : order[i] = x
<1> DEFINE n == Cardinality(S)
<1>1. IsFiniteSet(S) /\ n \in Nat
  BY CronFileAssumption, FS_Subset, FS_CardinalityType
<1>2. /\ order \in [1..n -> S]
      /\ \A i, j \in 1..n : i # j => order[i] # order[j]
  BY <1>1 DEF SetToSeqs
<1>3. ASSUME NEW x \in S, \A i \in 1..n : order[i] # x PROVE FALSE
  <2>1. IsFiniteSet(S \ {x}) /\ Cardinality(S \ {x}) = n - 1
    BY <1>1, FS_RemoveElement
  <2>2. IsFiniteSet(1..n) /\ Cardinality(1..n) = n
    BY <1>1, FS_Interval
  <2>3. order \in [1..n -> S \ {x}]
    BY <1>2, <1>3
  <2>4. \E i, j \in 1..n : i # j /\ order[i] = order[j]
    BY <1>1, <2>1, <2>2, <2>3, FS_PigeonHole
  <2> QED
    BY <1>2, <2>4
<1> QED
  BY <1>1, <1>2, <1>3

(* The list is typed if it is one of the heaps over the loaded files.      *)
LEMMA ListType ==
    ASSUME NEW q, NEW L
    PROVE  q \in Schedules(L) <=>
             /\ q \in Seq(Entry)
             /\ \A i \in DOMAIN q : /\ i > 1 => q[i \div 2].at <= q[i].at
                                    /\ q[i].file \in L
                                    /\ q[i].at % Period[q[i].file] = Phase[q[i].file]
  BY DEF Schedules, HeapOrder

LEMMA GatherKeeps ==
    ASSUME CronInv, NEW next, GatherInto(next),
           \/ stage = "init" /\ next = "login"
           \/ stage = "round" /\ next = "due"
    PROVE  CronInv'
<1> DEFINE new == files \ crons
           known == loaded \union (new \intersect WithClass)
           S == files \intersect known
<1>1. /\ loaded' = known /\ crons' = files
      /\ UNCHANGED <<minute, files, batch, attempts, changes, ran>>
  BY DEF GatherInto
<1>2. PICK order \in SetToSeqs(S) :
        IF IndexError(order, new)
        THEN stage' = "drained" /\ UNCHANGED <<heap, first>>
        ELSE \E punctual \in 0..Len(order) :
                LET made == Made(order, punctual) IN
                /\ heap' = Queued(made, new)
                /\ stage' = next
                /\ first' = [f \in CronFile |->
                      IF f \in new \intersect known /\ first[f] = -1
                      THEN (CHOOSE e \in ToSet(made) : e.file = f).at ELSE first[f]]
  BY Zenon DEF GatherInto
<1>3. /\ minute \in Nat /\ files \subseteq CronFile /\ crons \subseteq CronFile
      /\ loaded \subseteq WithClass /\ WithClass \subseteq CronFile
      /\ first \in [CronFile -> Nat \union {-1}]
      /\ heap \in Schedules(loaded)
  <2>1. CronTypeOK
    BY DEF CronInv
  <2>2. heap \in Schedules(loaded)
    <3>1. /\ heap \in Seq(Entry)
          /\ \A i \in DOMAIN heap : /\ i > 1 => heap[i \div 2].at <= heap[i].at
                                    /\ heap[i].file \in loaded
                                    /\ heap[i].at % Period[heap[i].file] = Phase[heap[i].file]
      BY <2>1, Zenon DEF CronTypeOK
    <3> QED
      BY <3>1, ListType, Zenon
  <2>3. MaxMinute \in Nat /\ minute \in 0..MaxMinute
    BY <2>1, CronBoundsAssumption, Zenon DEF CronTypeOK
  <2>4. minute \in Nat
    BY <2>3
  <2>5. /\ files \subseteq CronFile /\ crons \subseteq CronFile /\ loaded \subseteq WithClass
        /\ first \in [CronFile -> Nat \union {-1}]
    BY <2>1, Zenon DEF CronTypeOK
  <2>6. WithClass \subseteq CronFile
    BY CronFileAssumption, Zenon
  <2> QED
    BY <2>2, <2>4, <2>5, <2>6, Zenon
<1>4. /\ loaded \subseteq known /\ known \subseteq WithClass /\ S \subseteq CronFile
      /\ S \subseteq known
  BY <1>3
<1>5. heap \in Schedules(known)
  BY <1>3, <1>4 DEF Schedules
<1>6. batch' \in Seq(loaded')
  <2>1. batch \in Seq(loaded)
    BY DEF CronInv, CronTypeOK
  <2> HIDE DEF known
  <2> QED
    BY <1>1, <1>4, <2>1
<1> HIDE DEF new, known, S
<1>7. CASE IndexError(order, new)
  <2>1. stage' = "drained" /\ heap' = heap /\ first' = first
    BY <1>2, <1>7
  <2>2. heap' \in Schedules(loaded')
    BY <1>1, <1>5, <2>1
  <2>3. CronTypeOK'
    BY <1>1, <1>4, <1>6, <2>1, <2>2, ListType DEF CronInv, CronTypeOK, CronStage
  <2> QED
    BY <1>1, <1>4, <2>1, <2>3 DEF CronInv, NothingOverdue
<1>8. CASE ~IndexError(order, new)
  <2>1. PICK punctual \in 0..Len(order) :
          LET made == Made(order, punctual) IN
          /\ heap' = Queued(made, new)
          /\ stage' = next
          /\ first' = [f \in CronFile |->
                IF f \in new \intersect known /\ first[f] = -1
                THEN (CHOOSE e \in ToSet(made) : e.file = f).at ELSE first[f]]
    BY <1>2, <1>8
  <2> DEFINE made == Made(order, punctual)
             firstOf(f) == CHOOSE e \in ToSet(made) : e.file = f
  <2>2. PICK n \in Nat : /\ order \in [1..n -> S]
                         /\ \A x \in S : \E i \in 1..n : order[i] = x
    BY <1>4, AllAreListed
  <2>3. /\ made \in Seq(Entry) /\ Len(made) = n
        /\ \A i \in 1..n : /\ made[i].file = order[i]
                           /\ made[i].at % Period[made[i].file] = Phase[made[i].file]
    <3>1. S \in SUBSET CronFile
      BY <1>4
    <3>2. /\ Made(order, punctual) \in Seq(Entry) /\ Len(Made(order, punctual)) = n
          /\ \A i \in 1..n : Made(order, punctual)[i].file = order[i]
          /\ \A i \in 1..n : Scheduled(Made(order, punctual)[i])
      <4>1. minute \in Nat /\ n \in Nat /\ order \in [1..n -> S]
        BY <1>3, <2>2
      <4> QED
        BY ONLY <3>1, <4>1, MadeAreScheduled
    <3> QED
      BY <3>2 DEF Scheduled
  <2>4. /\ heap' = Queued(made, new) /\ stage' = next
        /\ first' = [f \in CronFile |->
              IF f \in new \intersect known /\ first[f] = -1 THEN firstOf(f).at ELSE first[f]]
    BY <2>1, Zenon
  <2> HIDE DEF made
  <2>5. made \in [1..n -> Entry] /\ DOMAIN made = 1..n
    BY <2>3
  <2>6. /\ heap' \in Schedules(known)
        /\ \A x : InList(heap, x) => InList(heap', x)
        /\ \A i \in 1..n : made[i].file \in new => InList(heap', made[i])
    <3>1. \A i \in 1..n : made[i].file \in known
      BY <1>4, <2>2, <2>3
    <3> QED
      BY <1>5, <2>3, <2>4, <2>5, <3>1, QueuedKeepsAll
  <2>7. ASSUME NEW f \in S
        PROVE  /\ firstOf(f) \in Entry /\ firstOf(f).file = f
               /\ f \in new => InList(heap', firstOf(f))
    <3>1. PICK i \in 1..n : order[i] = f
      BY <2>2
    <3>2. made[i] \in ToSet(made) /\ made[i].file = f
      BY <2>3, <2>5, <3>1 DEF ToSet
    <3>3. firstOf(f) \in ToSet(made) /\ firstOf(f).file = f
      BY <3>2
    <3>4. PICK j \in 1..n : firstOf(f) = made[j]
      BY <2>5, <3>3 DEF ToSet
    <3> HIDE DEF firstOf
    <3> QED
      BY <2>5, <2>6, <3>3, <3>4
  <2> HIDE DEF firstOf
  <2>8. \A f \in S : firstOf(f).at \in Nat /\ firstOf(f) = [file |-> f, at |-> firstOf(f).at]
    <3>1. \A e \in Entry : e.at \in Nat /\ e = [file |-> e.file, at |-> e.at]
      BY DEF Entry
    <3> QED
      BY <2>7, <3>1
  <2>9. new \intersect known \subseteq S /\ \A f \in known : f \in loaded \/ f \in new
    BY DEF S, new, known
  <2>10. first' \in [CronFile -> Nat \union {-1}]
    BY <1>3, <2>4, <2>8, <2>9
  <2>11. CronTypeOK'
    <3>1. stage' \in CronStage
      BY <2>4 DEF CronStage
    <3> QED
      BY <1>1, <1>4, <1>6, <2>6, <2>10, <3>1, ListType DEF CronInv, CronTypeOK
  <2>12. \A f \in CronFile : f \notin loaded' => first'[f] = -1
    BY <1>1, <1>4, <2>4 DEF CronInv
  <2>13. ASSUME NEW f \in known
         PROVE  /\ first'[f] # -1
                /\ first'[f] \in ran[f] \/ InList(heap', [file |-> f, at |-> first'[f]])
    <3>1. f \in CronFile
      BY <1>3, <1>4
    <3>2. CASE f \in new /\ first[f] = -1
      <4>1. first'[f] = firstOf(f).at /\ f \in S
        BY <2>4, <2>9, <3>1, <3>2
      <4> QED
        BY <2>7, <2>8, <3>2, <4>1
    <3>3. CASE ~(f \in new /\ first[f] = -1)
      <4>1. first'[f] = first[f]
        BY <2>4, <3>1, <3>3
      <4>2. f \in loaded
        BY <2>9, <3>1, <3>3 DEF CronInv
      <4> QED
        BY <2>6, <4>1, <4>2 DEF CronInv
    <3> QED
      BY <3>2, <3>3
  <2>14. stage' \in {"init", "login"} => attempts' < LoginAttempts
    BY <1>1, <2>4 DEF CronInv
  <2>15. NothingOverdue'
    BY <2>4 DEF NothingOverdue
  <2> QED
    BY <1>1, <2>11, <2>12, <2>13, <2>14, <2>15 DEF CronInv
<1> QED
  BY <1>7, <1>8

-----------------------------------------------------------------------------
(* Rounds *)

LEMMA StartsSound == CronInit => CronInv
<1> SUFFICES ASSUME CronInit PROVE CronInv
  OBVIOUS
<1>1. heap \in Seq(Entry) /\ DOMAIN heap = {} /\ batch \in Seq(loaded)
  BY DEF CronInit
<1> QED
  BY <1>1, CronFileAssumption, CronBoundsAssumption
     DEF CronInit, CronInv, CronTypeOK, CronStage, NothingOverdue

(* The first entry leaves the heap and is what the round goes on with.     *)
LEMMA HeadOf ==
    ASSUME CronInv, heap # <<>>
    PROVE  /\ Head(heap) = heap[1] /\ 1 \in DOMAIN heap
           /\ heap[1] \in Entry /\ heap[1].file \in loaded /\ heap[1].at \in Nat
           /\ heap[1] = [file |-> heap[1].file, at |-> heap[1].at]
           /\ HeapPop(heap) \in Schedules(loaded)
           /\ \A x : InList(heap, x) => x = heap[1] \/ InList(HeapPop(heap), x)
<1>1. heap \in Schedules(loaded) /\ heap \in Seq(Entry)
      /\ \A i \in DOMAIN heap : heap[i].file \in loaded
  BY ListType DEF CronInv, CronTypeOK
<1>2. Head(heap) = heap[1] /\ 1 \in DOMAIN heap /\ heap[1] \in Entry
  BY <1>1
<1>3. \A e \in Entry : e.at \in Nat /\ e = [file |-> e.file, at |-> e.at]
  BY DEF Entry
<1> QED
  BY <1>1, <1>2, <1>3, PopScheduled

LEMMA RunDueKeeps == ASSUME CronInv, RunDue PROVE CronInv'
<1>1. /\ stage = "due" /\ heap # <<>> /\ heap' = HeapPop(heap)
      /\ batch' = Append(batch, Head(heap).file)
      /\ ran' = [ran EXCEPT ![Head(heap).file] = @ \union {Head(heap).at}]
      /\ UNCHANGED <<minute, files, crons, loaded, stage, attempts, changes, first>>
  BY DEF RunDue, IsDue
<1> DEFINE f0 == heap[1].file
           t0 == heap[1].at
<1>2. /\ Head(heap) = heap[1] /\ f0 \in loaded /\ t0 \in Nat
      /\ heap[1] = [file |-> f0, at |-> t0]
      /\ heap' \in Schedules(loaded')
      /\ \A x : InList(heap, x) => x = heap[1] \/ InList(heap', x)
  BY <1>1, HeadOf
<1>3. /\ loaded \subseteq CronFile /\ ran \in [CronFile -> SUBSET Nat]
      /\ batch \in Seq(loaded)
  BY CronFileAssumption DEF CronInv, CronTypeOK
<1> HIDE DEF f0, t0
<1>4. /\ ran' = [ran EXCEPT ![f0] = @ \union {t0}]
      /\ batch' = Append(batch, f0)
  BY <1>1, <1>2 DEF f0, t0
<1>5. /\ ran' \in [CronFile -> SUBSET Nat] /\ t0 \in ran'[f0]
      /\ \A f \in CronFile : ran[f] \subseteq ran'[f]
  BY <1>2, <1>3, <1>4
<1>6. batch' \in Seq(loaded')
  BY <1>1, <1>2, <1>3, <1>4
<1>7. CronTypeOK'
  BY <1>1, <1>2, <1>5, <1>6, ListType DEF CronInv, CronTypeOK
<1>8. ASSUME NEW f \in loaded
      PROVE  /\ first'[f] # -1
             /\ first'[f] \in ran'[f] \/ InList(heap', [file |-> f, at |-> first'[f]])
  <2>1. first[f] # -1 /\ (first[f] \in ran[f] \/ InList(heap, [file |-> f, at |-> first[f]]))
    BY <1>1 DEF CronInv
  <2>2. CASE [file |-> f, at |-> first[f]] = [file |-> f0, at |-> t0]
    <3>1. f = f0 /\ first[f] = t0
      BY <2>2
    <3> QED
      BY <1>1, <1>5, <2>1, <3>1
  <2>3. CASE [file |-> f, at |-> first[f]] # [file |-> f0, at |-> t0]
    BY <1>1, <1>2, <1>3, <1>5, <2>1, <2>3
  <2> QED
    BY <2>2, <2>3
<1> QED
  BY <1>1, <1>7, <1>8 DEF CronInv, NothingOverdue

LEMMA NoneDueKeeps == ASSUME CronInv, NoneDue PROVE CronInv'
<1>1. /\ stage = "due" /\ ~IsDue /\ stage' = "async"
      /\ UNCHANGED <<minute, files, crons, loaded, heap, batch, attempts, changes, first, ran>>
  BY DEF NoneDue, history
<1>2. ASSUME NEW i \in DOMAIN heap PROVE heap[i].at > minute
  <2>1. heap \in Seq(Entry) /\ HeapOrder(heap) /\ minute \in Nat
    BY CronBoundsAssumption DEF CronInv, CronTypeOK, HeapOrder
  <2>2. heap # <<>> /\ 1 \in DOMAIN heap
    BY <2>1
  <2>3. heap[1].at > minute /\ heap[1].at \in Nat /\ heap[i].at \in Nat
    BY <1>1, <2>1, <2>2, EntryType, HeadOf DEF IsDue
  <2>4. heap[1].at <= heap[i].at
    BY <2>1, FirstIsEarliest
  <2> QED
    BY <2>1, <2>3, <2>4
<1> QED
  BY <1>1, <1>2 DEF CronInv, CronTypeOK, CronStage, NothingOverdue

(* The request of a cron is made or given up: what is left of the batch    *)
(* is still of loaded files.                                               *)
LEMMA RequestKeeps == ASSUME CronInv, Request PROVE CronInv'
<1>1. /\ batch # <<>> /\ (batch' = Tail(batch) \/ batch' = <<>>)
      /\ UNCHANGED <<minute, files, crons, loaded, heap, stage, attempts, changes, first, ran>>
  BY DEF Request, history
<1>2. batch \in Seq(loaded)
  BY DEF CronInv, CronTypeOK
<1>3. Tail(batch) \in Seq(loaded) /\ <<>> \in Seq(loaded)
  BY <1>1, <1>2
<1>4. batch' \in Seq(loaded')
  BY <1>1, <1>3
<1> QED
  BY <1>1, <1>4 DEF CronInv, CronTypeOK, NothingOverdue

LEMMA CronStepKeeps == ASSUME CronInv, [CronNext]_cronVars PROVE CronInv'
<1>1. CASE FirstGather
  BY <1>1, GatherKeeps DEF FirstGather
<1>2. CASE Login
  BY <1>2 DEF Login, CronInv, CronTypeOK, CronStage, NothingOverdue, history
<1>3. CASE LoginFails
  <2>1. minute' \in 0..MaxMinute
    BY <1>3, CronBoundsAssumption DEF LoginFails, Later, CronInv, CronTypeOK
  <2>2. attempts' \in 0..LoginAttempts /\ (stage' = "login" => attempts' < LoginAttempts)
        /\ stage' \in {"login", "exited"}
    BY <1>3, CronBoundsAssumption DEF LoginFails, CronInv, CronTypeOK
  <2> QED
    BY <1>3, <2>1, <2>2 DEF LoginFails, CronInv, CronTypeOK, CronStage, NothingOverdue, history
<1>4. CASE Gather
  BY <1>4, GatherKeeps DEF Gather
<1>5. CASE RunDue
  BY <1>5, RunDueKeeps
<1>6. CASE RunDueFails
  <2>1. /\ heap # <<>> /\ heap' = HeapPop(heap) /\ stage' = "failed"
        /\ UNCHANGED <<minute, files, crons, loaded, batch, attempts, changes, first, ran>>
    BY <1>6 DEF RunDueFails, IsDue, history
  <2>2. heap' \in Schedules(loaded')
    BY <2>1, HeadOf
  <2>3. CronTypeOK'
    BY <2>1, <2>2, ListType DEF CronInv, CronTypeOK, CronStage
  <2> QED
    BY <2>1, <2>3 DEF CronInv, NothingOverdue
<1>7. CASE NoneDue
  BY <1>7, NoneDueKeeps
<1>8. CASE AsyncRuns
  BY <1>8 DEF AsyncRuns, CronInv, CronTypeOK, CronStage, NothingOverdue, history
<1>9. CASE Request
  BY <1>9, RequestKeeps
<1>10. CASE Sleep
  <2>1. minute' \in 0..MaxMinute
    BY <1>10, CronBoundsAssumption DEF Sleep, Later, CronInv, CronTypeOK
  <2> QED
    BY <1>10, <2>1 DEF Sleep, CronInv, CronTypeOK, CronStage, NothingOverdue, history
<1>11. ASSUME NEW f \in CronFile, AddFile(f) \/ RemoveFile(f) PROVE CronInv'
  <2>1. changes' \in 0..MaxChanges /\ files' \subseteq CronFile
    BY <1>11, CronBoundsAssumption DEF AddFile, RemoveFile, CronInv, CronTypeOK
  <2> QED
    BY <1>11, <2>1 DEF AddFile, RemoveFile, CronInv, CronTypeOK, NothingOverdue, history
<1>12. CASE UNCHANGED cronVars
  BY <1>12 DEF cronVars, CronInv, CronTypeOK, NothingOverdue
<1> QED
  BY <1>1, <1>2, <1>3, <1>4, <1>5, <1>6, <1>7, <1>8, <1>9, <1>10, <1>11, <1>12 DEF CronNext

(* The inductive invariant holds for every set of files, every schedule    *)
(* and every fault, whatever files come and go between two calls           *)
(* (bw/cron/runner.py:86 gathers them again in every round).               *)
THEOREM CronInvariant == CronSpec => []CronInv
<1>1. CronInit => CronInv
  BY StartsSound
<1>2. CronInv /\ [CronNext]_cronVars => CronInv'
  BY CronStepKeeps
<1> QED
  BY <1>1, <1>2, PTL DEF CronSpec

(* Type correctness: whatever was pushed and popped, and in whatever       *)
(* order files were gathered, cron_queue_ has the shape heapq relies on,   *)
(* and every entry is of a loaded file in a minute of its schedule.        *)
THEOREM CronTypeCorrect == CronSpec => []CronTypeOK
<1>1. CronInv => CronTypeOK
  BY DEF CronInv
<1> QED
  BY <1>1, CronInvariant, PTL

(* When a round goes on to the asynchronous work (runner.py:199), nothing  *)
(* that is due is left in the heap.                                        *)
THEOREM NothingOverdueCorrect == CronSpec => []NothingOverdue
<1>1. CronInv => NothingOverdue
  BY DEF CronInv
<1> QED
  BY <1>1, CronInvariant, PTL

(* A cron that was found is run for the first minute it was scheduled for  *)
(* (runner.py:126), however late the round, and whether or not its file is *)
(* still there.                                                            *)
THEOREM FirstDueRunsCorrect == CronSpec => []FirstDueRuns
<1>1. CronInv => FirstDueRuns
  <2> SUFFICES ASSUME CronInv, stage \in {"async", "requests"}, NEW f \in loaded,
                      first[f] <= minute
               PROVE  first[f] \in ran[f]
    BY DEF FirstDueRuns
  <2>1. first[f] \in ran[f] \/ InList(heap, [file |-> f, at |-> first[f]])
    BY DEF CronInv
  <2>2. ASSUME NEW i \in DOMAIN heap, heap[i] = [file |-> f, at |-> first[f]] PROVE FALSE
    <3>1. heap[i].at > minute /\ heap[i].at = first[f]
      BY <2>2 DEF CronInv, NothingOverdue
    <3>2. heap[i].at \in Nat /\ minute \in Nat
      BY CronBoundsAssumption, EntryType DEF CronInv, CronTypeOK
    <3> QED
      BY <3>1, <3>2
  <2> QED
    BY <2>1, <2>2 DEF InList
<1> QED
  BY <1>1, CronInvariant, PTL

-----------------------------------------------------------------------------
(* Rankings: sequences of different keys *)

Ranking == {r \in Seq(Key) : \A i, j \in 1..Len(r) : r[i] = r[j] => i = j}

LEMMA RankingType ==
    ASSUME NEW r \in Ranking
    PROVE  /\ r \in Seq(Key) /\ Len(r) \in Nat /\ DOMAIN r = 1..Len(r)
           /\ \A i \in 1..Len(r) : r[i] \in Key /\ r[i] \in ToSet(r)
           /\ \A i, j \in 1..Len(r) : r[i] = r[j] => i = j
           /\ \A k \in ToSet(r) : \E i \in 1..Len(r) : r[i] = k
           /\ ToSet(r) \subseteq Key
<1>1. r \in Seq(Key) /\ Len(r) \in Nat /\ DOMAIN r = 1..Len(r)
  BY DEF Ranking
<1> QED
  BY <1>1 DEF Ranking, ToSet

(* A ranking is as long as it has keys. *)
LEMMA RankingCount ==
    ASSUME NEW r \in Ranking
    PROVE  /\ IsFiniteSet(ToSet(r)) /\ Cardinality(ToSet(r)) = Len(r)
           /\ Len(r) <= Cardinality(Key) /\ Cardinality(Key) \in Nat
<1>1. /\ Len(r) \in Nat /\ \A i, j \in 1..Len(r) : r[i] = r[j] => i = j
      /\ r = [i \in 1..Len(r) |-> r[i]]
  BY RankingType DEF Ranking
<1>2. r \in [1..Len(r) -> ToSet(r)]
  BY <1>1, RankingType
<1>3. r \in Surjection(1..Len(r), ToSet(r))
  BY <1>2, RankingType DEF Surjection
<1>4. r \in Injection(1..Len(r), ToSet(r))
  BY <1>1, <1>2 DEF Injection, IsInjective
<1>5. IsFiniteSet(1..Len(r)) /\ Cardinality(1..Len(r)) = Len(r)
  <2> DEFINE n == Len(r)
  <2> HIDE DEF n
  <2>1. n \in Nat
    BY <1>1 DEF n
  <2>2. IsFiniteSet(1..n) /\ Cardinality(1..n) = n
    BY <2>1, FS_Interval
  <2> QED
    BY <2>2 DEF n
<1>6. IsFiniteSet(ToSet(r)) /\ Cardinality(ToSet(r)) = Len(r)
  BY <1>3, <1>4, <1>5, FS_Surjection
<1>7. ToSet(r) \in SUBSET Key
  BY RankingType
<1> QED
  BY <1>6, <1>7, KeyAssumption, FS_Subset, FS_CardinalityType

(* Without is determined: a ranking of what is left, in the same order, is *)
(* the one Without stands for.                                             *)
Follows(r, s) == \A i, j \in DOMAIN r : i < j => Lru!InOrderOf(s, r[i], r[j])

LEMMA SameOrderIsSame ==
    ASSUME NEW s \in Ranking, NEW r \in Ranking, NEW t \in Ranking,
           ToSet(r) = ToSet(t), Follows(r, s), Follows(t, s)
    PROVE  r = t
<1> DEFINE n == Len(r)
           bad == {i \in 1..n : r[i] # t[i]}
<1>1. Len(t) = n
  BY RankingCount
<1>2. /\ n \in Nat /\ DOMAIN r = 1..n /\ DOMAIN t = 1..n
      /\ r = [i \in 1..n |-> r[i]] /\ t = [i \in 1..n |-> t[i]]
  BY <1>1, RankingType DEF Ranking
<1>3. ASSUME bad # {} PROVE FALSE
  <2>1. PICK i \in bad : \A j \in bad : i <= j
    <3>1. bad \in SUBSET Nat
      OBVIOUS
    <3> HIDE DEF bad
    <3> QED
      BY <1>3, <3>1, Least
  <2> HIDE DEF n
  <2>2. i \in 1..n /\ r[i] # t[i] /\ \A j \in 1..n : j < i => r[j] = t[j]
    BY <1>2, <2>1
  <2>3. PICK j \in 1..n : t[j] = r[i]
    BY <1>1, <2>2, RankingType DEF n
  <2>4. PICK m \in 1..n : r[m] = t[i]
    BY <1>1, <2>2, RankingType DEF n
  <2>5. j > i /\ m > i
    <3>1. j # i /\ m # i
      BY <2>2, <2>3, <2>4
    <3>2. ~(j < i)
      BY <2>2, <2>3, RankingType DEF n
    <3>3. ~(m < i)
      BY <1>1, <2>2, <2>4, RankingType DEF n
    <3> QED
      BY <1>2, <2>2, <3>1, <3>2, <3>3
  <2>6. Lru!InOrderOf(s, r[i], t[i]) /\ Lru!InOrderOf(s, t[i], r[i])
    <3>1. Lru!InOrderOf(s, r[i], r[m])
      BY <1>2, <2>2, <2>5 DEF Follows
    <3>2. Lru!InOrderOf(s, t[i], t[j])
      BY <1>2, <2>2, <2>5 DEF Follows
    <3> QED
      BY <2>3, <2>4, <3>1, <3>2
  <2>7. PICK a, b \in DOMAIN s : a < b /\ s[a] = r[i] /\ s[b] = t[i]
    BY <2>6 DEF Lru!InOrderOf
  <2>8. PICK c, d \in DOMAIN s : c < d /\ s[c] = t[i] /\ s[d] = r[i]
    BY <2>6 DEF Lru!InOrderOf
  <2>9. a = d /\ b = c /\ a \in Nat /\ b \in Nat
    <3>1. /\ {a, b, c, d} \subseteq 1..Len(s) /\ Len(s) \in Nat
          /\ \A i1, i2 \in 1..Len(s) : s[i1] = s[i2] => i1 = i2
      BY RankingType
    <3> QED
      BY <2>7, <2>8, <3>1
  <2> QED
    BY <2>7, <2>8, <2>9
<1> HIDE DEF n
<1>4. \A i \in 1..n : r[i] = t[i]
  BY <1>3
<1> QED
  BY <1>2, <1>4

LEMMA SameOperators ==
    /\ \A s : Lru!ToSet(s) = ToSet(s)
    /\ \A S : Lru!Cardinality(S) = Cardinality(S)
    /\ \A S : Lru!SetToSeqs(S) = SetToSeqs(S)
<1>1. \A s : Lru!ToSet(s) = ToSet(s)
  BY DEF Lru!ToSet, ToSet
<1>2. \A S : Lru!Cardinality(S) = Cardinality(S)
  BY DEF Lru!Cardinality, Cardinality
<1>3. \A S : Lru!SetToSeqs(S) = SetToSeqs(S)
  BY <1>2, Zenon DEF Lru!SetToSeqs, SetToSeqs
<1> QED
  BY <1>1, <1>2, <1>3

LEMMA WithoutIs ==
    ASSUME NEW s \in Ranking, NEW K, NEW r \in Ranking,
           ToSet(r) = ToSet(s) \ K, Follows(r, s)
    PROVE  Lru!Without(s, K) = r
<1> DEFINE T == ToSet(s) \ K
           n == Cardinality(T)
           C == {x \in SetToSeqs(T) : Follows(x, s)}
           w == Lru!Without(s, K)
<1>1. /\ Len(r) = n /\ IsFiniteSet(T) /\ n \in Nat
      /\ r \in [1..n -> T] /\ \A i, j \in 1..n : i # j => r[i] # r[j]
  <2>1. Len(r) = n /\ IsFiniteSet(T)
    BY RankingCount
  <2>2. r = [i \in 1..Len(r) |-> r[i]]
    BY DEF Ranking
  <2>3. \A i \in 1..Len(r) : r[i] \in T
    BY RankingType
  <2> HIDE DEF T
  <2>4. n \in Nat
    BY <2>1, RankingType
  <2>5. \A i, j \in 1..Len(r) : i # j => r[i] # r[j]
    BY RankingType
  <2> HIDE DEF n
  <2> QED
    BY <2>1, <2>2, <2>3, <2>4, <2>5
<1>2. r \in C
  BY <1>1 DEF SetToSeqs
<1>3. w \in C
  <2>1. w = CHOOSE x \in SetToSeqs(T) : Follows(x, s)
    BY SameOperators, Zenon DEF Lru!Without, Follows
  <2> HIDE DEF w, T
  <2> QED
    BY <1>2, <2>1
<1> HIDE DEF w
<1>4. /\ w \in [1..n -> T] /\ \A i, j \in 1..n : i # j => w[i] # w[j]
      /\ Follows(w, s)
  <2> HIDE DEF T
  <2> QED
    BY <1>3 DEF SetToSeqs
<1>5. ASSUME NEW x \in T, \A i \in 1..n : w[i] # x PROVE FALSE
  <2> HIDE DEF T
  <2>1. IsFiniteSet(T \ {x}) /\ Cardinality(T \ {x}) = n - 1
    BY <1>1, FS_RemoveElement
  <2> HIDE DEF n
  <2>2. IsFiniteSet(1..n) /\ Cardinality(1..n) = n
    BY <1>1, FS_Interval
  <2>3. w \in [1..n -> T \ {x}]
    BY <1>4, <1>5
  <2>4. \E i, j \in 1..n : i # j /\ w[i] = w[j]
    BY <1>1, <2>1, <2>2, <2>3, FS_PigeonHole
  <2> QED
    BY <1>4, <2>4
<1>6. w \in Ranking /\ ToSet(w) = T
  <2>1. T \subseteq Key
    BY RankingType
  <2> HIDE DEF T, n
  <2>2. w \in Seq(Key) /\ Len(w) = n /\ DOMAIN w = 1..n
    BY <1>1, <1>4, <2>1
  <2>3. w \in Ranking
    BY <1>4, <2>2 DEF Ranking
  <2>4. ToSet(w) = T
    BY <1>4, <1>5, <2>2 DEF ToSet
  <2> QED
    BY <2>3, <2>4
<1>7. ToSet(w) = ToSet(r)
  BY <1>6
<1> QED
  BY <1>4, <1>6, <1>7, SameOrderIsSame DEF w

-----------------------------------------------------------------------------
(* A key taken out of a ranking, and put at its end *)

CutAt(r, p) == [i \in 1..(Len(r) - 1) |-> IF i < p THEN r[i] ELSE r[i + 1]]

LEMMA CutFacts ==
    ASSUME NEW r \in Ranking, NEW p \in 1..Len(r)
    PROVE  /\ CutAt(r, p) \in Ranking /\ Len(CutAt(r, p)) = Len(r) - 1
           /\ ToSet(CutAt(r, p)) = ToSet(r) \ {r[p]}
           /\ \A i \in 1..(Len(r) - 1) : CutAt(r, p)[i] = IF i < p THEN r[i] ELSE r[i + 1]
           /\ Lru!Without(r, {r[p]}) = CutAt(r, p) /\ Follows(CutAt(r, p), r)
<1> DEFINE n == Len(r)
           s == CutAt(r, p)
<1>1. /\ n \in Nat /\ n > 0 /\ DOMAIN r = 1..n /\ p \in 1..n
      /\ \A i \in 1..n : r[i] \in Key /\ r[i] \in ToSet(r)
      /\ \A i, j \in 1..n : r[i] = r[j] => i = j
      /\ \A k \in ToSet(r) : \E i \in 1..n : r[i] = k
      /\ s = [i \in 1..(n - 1) |-> IF i < p THEN r[i] ELSE r[i + 1]]
  BY RankingType DEF CutAt
<1> HIDE DEF n, s
<1>2. /\ DOMAIN s = 1..(n - 1)
      /\ \A i \in 1..(n - 1) : s[i] = IF i < p THEN r[i] ELSE r[i + 1]
  BY <1>1
<1>3. s \in Seq(Key) /\ Len(s) = n - 1
  <2>1. \A i \in 1..(n - 1) : s[i] \in Key
    BY <1>1, <1>2
  <2>2. s = [i \in 1..(n - 1) |-> s[i]] /\ n - 1 \in Nat
    BY <1>1
  <2> QED
    BY <2>1, <2>2
<1>4. s \in Ranking
  <2>1. ASSUME NEW i \in 1..(n - 1), NEW j \in 1..(n - 1), s[i] = s[j] PROVE i = j
    <3>1. i \in 1..n /\ i + 1 \in 1..n /\ j \in 1..n /\ j + 1 \in 1..n
      BY <1>1
    <3> QED
      BY <1>1, <1>2, <2>1, <3>1
  <2> QED
    BY <1>3, <2>1 DEF Ranking
<1>5. ToSet(s) = ToSet(r) \ {r[p]}
  <2>1. ASSUME NEW i \in 1..(n - 1) PROVE s[i] \in ToSet(r) \ {r[p]}
    <3>1. i \in 1..n /\ i + 1 \in 1..n
      BY <1>1
    <3> QED
      BY <1>1, <1>2, <3>1
  <2>2. ASSUME NEW k \in ToSet(r), k # r[p] PROVE \E i \in 1..(n - 1) : s[i] = k
    <3>1. PICK j \in 1..n : r[j] = k
      BY <1>1
    <3>2. CASE j < p
      <4>1. j \in 1..(n - 1) /\ s[j] = k
        BY <1>1, <1>2, <3>1, <3>2
      <4> QED
        BY <4>1
    <3>3. CASE j > p
      <4>1. j - 1 \in 1..(n - 1) /\ s[j - 1] = k
        BY <1>1, <1>2, <3>1, <3>3
      <4> QED
        BY <4>1
    <3> QED
      BY <1>1, <2>2, <3>1, <3>2, <3>3
  <2>3. /\ \A x \in ToSet(s) : \E i \in 1..(n - 1) : s[i] = x
        /\ \A i \in 1..(n - 1) : s[i] \in ToSet(s)
    BY <1>2 DEF ToSet
  <2> QED
    BY <2>1, <2>2, <2>3
<1>6. Follows(s, r)
  <2> SUFFICES ASSUME NEW i \in 1..(n - 1), NEW j \in 1..(n - 1), i < j
               PROVE  Lru!InOrderOf(r, s[i], s[j])
    BY <1>2 DEF Follows
  <2> DEFINE a == IF i < p THEN i ELSE i + 1
             b == IF j < p THEN j ELSE j + 1
  <2>1. a \in 1..n /\ b \in 1..n /\ a < b
    BY <1>1
  <2>2. r[a] = s[i] /\ r[b] = s[j]
    BY <1>2
  <2> HIDE DEF a, b
  <2> QED
    BY <1>1, <2>1, <2>2 DEF Lru!InOrderOf
<1>7. Lru!Without(r, {r[p]}) = s
  <2> DEFINE K == {r[p]}
  <2>1. ToSet(s) = ToSet(r) \ K
    BY <1>5
  <2> HIDE DEF K
  <2>2. Lru!Without(r, K) = s
    BY <1>4, <1>6, <2>1, WithoutIs
  <2> QED
    BY <2>2 DEF K
<1> QED
  BY <1>2, <1>3, <1>4, <1>5, <1>6, <1>7 DEF n, s

(* What is in none of the places is not taken out. *)
LEMMA NothingCut ==
    ASSUME NEW r \in Ranking, NEW K, ToSet(r) \cap K = {}
    PROVE  Lru!Without(r, K) = r
<1>1. ToSet(r) = ToSet(r) \ K
  OBVIOUS
<1>2. Follows(r, r)
  BY DEF Follows, Lru!InOrderOf
<1> QED
  BY <1>1, <1>2, WithoutIs

LEMMA WithoutOne ==
    ASSUME NEW r \in Ranking, NEW k
    PROVE  /\ Lru!Without(r, {k}) \in Ranking
           /\ ToSet(Lru!Without(r, {k})) = ToSet(r) \ {k}
           /\ Follows(Lru!Without(r, {k}), r)
<1>1. CASE k \in ToSet(r)
  <2>1. PICK p \in 1..Len(r) : r[p] = k
    BY <1>1, RankingType
  <2>2. /\ Lru!Without(r, {k}) \in Ranking
        /\ ToSet(Lru!Without(r, {k})) = ToSet(r) \ {k}
        /\ Follows(Lru!Without(r, {k}), r)
    BY <2>1, CutFacts
  <2> QED
    BY <2>2
<1>2. CASE k \notin ToSet(r)
  <2>1. Lru!Without(r, {k}) = r
    BY <1>2, NothingCut
  <2>2. Follows(r, r)
    BY DEF Follows, Lru!InOrderOf
  <2> QED
    BY <1>2, <2>1, <2>2
<1> QED
  BY <1>1, <1>2

Leaves(r, K, s) ==
    s \in Ranking /\ s = Lru!Without(r, K) /\ ToSet(s) = ToSet(r) \ K /\ Follows(s, r)

(* Taking out a set of keys and one more is taking out both. *)
LEMMA WithoutMore ==
    ASSUME NEW r \in Ranking, NEW K, NEW k, NEW U, U = K \union {k}, NEW s, Leaves(r, K, s)
    PROVE  Leaves(r, U, Lru!Without(s, {k}))
<1> DEFINE t == Lru!Without(s, {k})
<1>1. s \in Ranking /\ ToSet(s) = ToSet(r) \ K /\ Follows(s, r)
  BY DEF Leaves
<1>2. t \in Ranking /\ ToSet(t) = ToSet(s) \ {k} /\ Follows(t, s)
  BY <1>1, WithoutOne
<1> HIDE DEF t
<1>3. ToSet(t) = ToSet(r) \ U
  BY <1>1, <1>2
<1>4. Follows(t, r)
  <2> SUFFICES ASSUME NEW i \in DOMAIN t, NEW j \in DOMAIN t, i < j
               PROVE  Lru!InOrderOf(r, t[i], t[j])
    BY DEF Follows
  <2>1. PICK a, b \in DOMAIN s : a < b /\ s[a] = t[i] /\ s[b] = t[j]
    BY <1>2 DEF Follows, Lru!InOrderOf
  <2> QED
    BY <1>1, <2>1 DEF Follows
<1>5. t = Lru!Without(r, U)
  BY <1>2, <1>3, <1>4, WithoutIs
<1>6. Leaves(r, U, t)
  BY <1>2, <1>3, <1>4, <1>5 DEF Leaves
<1> QED
  BY <1>6 DEF t

LEMMA AppendFacts ==
    ASSUME NEW r \in Ranking, NEW k \in Key, k \notin ToSet(r)
    PROVE  /\ Append(r, k) \in Ranking /\ Len(Append(r, k)) = Len(r) + 1
           /\ ToSet(Append(r, k)) = ToSet(r) \union {k}
           /\ Append(r, k)[Len(r) + 1] = k
           /\ \A i \in 1..Len(r) : Append(r, k)[i] = r[i]
<1> DEFINE s == Append(r, k)
           n == Len(r)
<1>1. /\ r \in Seq(Key) /\ n \in Nat /\ DOMAIN r = 1..n
      /\ \A i \in 1..n : r[i] \in ToSet(r)
      /\ \A i, j \in 1..n : r[i] = r[j] => i = j
      /\ \A x \in ToSet(r) : \E i \in 1..n : r[i] = x
  BY RankingType
<1>2. s \in Seq(Key) /\ Len(s) = n + 1 /\ DOMAIN s = 1..(n + 1) /\ s[n + 1] = k
      /\ \A i \in 1..n : s[i] = r[i]
  BY <1>1
<1> HIDE DEF s, n
<1>3. \A i \in 1..(n + 1) : i = n + 1 \/ i \in 1..n
  BY <1>1
<1>4. s \in Ranking
  BY <1>1, <1>2, <1>3 DEF Ranking
<1>5. ToSet(s) = ToSet(r) \union {k}
  <2>1. \A i \in 1..n : i \in 1..(n + 1)
    BY <1>1
  <2>2. n + 1 \in 1..(n + 1)
    BY <1>1
  <2> QED
    BY <1>1, <1>2, <1>3, <2>1, <2>2 DEF ToSet
<1> QED
  BY <1>2, <1>4, <1>5 DEF s, n

-----------------------------------------------------------------------------
(* The linked list of a cache *)

Label == EventClass \union {Nil}
MapsTo(V) == UNION {[K -> V] : K \in SUBSET Key}

CacheRec ==
    [memory : MapsTo(Value), event : MapsTo(Label),
     size : Int,
     prev : [Key -> Key \union {Nil}], next : [Key -> Key \union {Nil}],
     oldest : Key \union {Nil}, newest : Key \union {Nil}]

(* oldest, newest, prev and next hold the ranking r. *)
Links(c, r) ==
    /\ r \in Ranking
    /\ c.oldest = (IF Len(r) = 0 THEN Nil ELSE r[1])
    /\ c.newest = (IF Len(r) = 0 THEN Nil ELSE r[Len(r)])
    /\ \A i \in 1..Len(r) :
          /\ c.prev[r[i]] = (IF i = 1 THEN Nil ELSE r[i - 1])
          /\ c.next[r[i]] = (IF i = Len(r) THEN Nil ELSE r[i + 1])
    /\ \A k \in Key \ ToSet(r) : c.prev[k] = Nil /\ c.next[k] = Nil

LEMMA CacheType ==
    ASSUME NEW c \in CacheRec
    PROVE  /\ DOMAIN c.memory \subseteq Key /\ c.memory \in [DOMAIN c.memory -> Value]
           /\ DOMAIN c.event \subseteq Key
           /\ c.event \in [DOMAIN c.event -> Label]
           /\ c.size \in Int
           /\ c.prev \in [Key -> Key \union {Nil}] /\ c.next \in [Key -> Key \union {Nil}]
           /\ c.oldest \in Key \union {Nil} /\ c.newest \in Key \union {Nil}
  BY DEF CacheRec, MapsTo

(* An entry taken out of the list leaves the others in their order. *)
LEMMA RemovedFields ==
    ASSUME NEW c \in CacheRec, NEW k \in Key
    PROVE  /\ RemoveEntry(c, k) \in CacheRec
           /\ RemoveEntry(c, k).memory = c.memory /\ RemoveEntry(c, k).event = c.event
           /\ RemoveEntry(c, k).size = c.size
           /\ RemoveEntry(c, k).oldest = (IF c.oldest = k THEN c.next[k] ELSE c.oldest)
           /\ RemoveEntry(c, k).newest = (IF c.newest = k THEN c.prev[k] ELSE c.newest)
           /\ \A x \in Key :
                 /\ RemoveEntry(c, k).prev[x] = (IF x = k THEN Nil
                                                 ELSE IF x = c.next[k] THEN c.prev[k]
                                                 ELSE c.prev[x])
                 /\ RemoveEntry(c, k).next[x] = (IF x = k THEN Nil
                                                 ELSE IF x = c.prev[k] THEN c.next[k]
                                                 ELSE c.next[x])
<1> DEFINE p == c.prev[k]
           n == c.next[k]
           back == [x \in Key |-> IF x = k THEN Nil ELSE IF x = n THEN p ELSE c.prev[x]]
           on == [x \in Key |-> IF x = k THEN Nil ELSE IF x = p THEN n ELSE c.next[x]]
           d == [c EXCEPT !.prev = back, !.next = on,
                          !.oldest = IF @ = k THEN n ELSE @,
                          !.newest = IF @ = k THEN p ELSE @]
<1>1. RemoveEntry(c, k) = d
  BY Zenon DEF RemoveEntry
<1>2. p \in Key \union {Nil} /\ n \in Key \union {Nil}
  BY CacheType
<1>3. back \in [Key -> Key \union {Nil}] /\ on \in [Key -> Key \union {Nil}]
  BY <1>2, CacheType
<1>4. /\ \A x \in Key : back[x] = (IF x = k THEN Nil ELSE IF x = n THEN p ELSE c.prev[x])
      /\ \A x \in Key : on[x] = (IF x = k THEN Nil ELSE IF x = p THEN n ELSE c.next[x])
  OBVIOUS
<1> HIDE DEF p, n, back, on
<1>5. /\ d \in CacheRec /\ d.memory = c.memory /\ d.event = c.event /\ d.size = c.size
      /\ d.prev = back /\ d.next = on
      /\ d.oldest = (IF c.oldest = k THEN n ELSE c.oldest)
      /\ d.newest = (IF c.newest = k THEN p ELSE c.newest)
  BY <1>2, <1>3 DEF CacheRec
<1> HIDE DEF d
<1> QED
  BY <1>1, <1>4, <1>5 DEF p, n

LEMMA RemovedLinks ==
    ASSUME NEW c \in CacheRec, NEW r, Links(c, r), NEW k \in Key
    PROVE  Links(RemoveEntry(c, k), Lru!Without(r, {k}))
<1> DEFINE d == RemoveEntry(c, k)
           n == Len(r)
<1>1. /\ d.oldest = (IF c.oldest = k THEN c.next[k] ELSE c.oldest)
      /\ d.newest = (IF c.newest = k THEN c.prev[k] ELSE c.newest)
      /\ \A x \in Key :
            /\ d.prev[x] = (IF x = k THEN Nil ELSE IF x = c.next[k] THEN c.prev[k] ELSE c.prev[x])
            /\ d.next[x] = (IF x = k THEN Nil ELSE IF x = c.prev[k] THEN c.next[k] ELSE c.next[x])
  BY RemovedFields
<1>2. r \in Ranking
  BY DEF Links
<1>3. /\ n \in Nat
      /\ \A i \in 1..n : r[i] \in Key /\ r[i] \in ToSet(r)
      /\ \A i, j \in 1..n : r[i] = r[j] => i = j
      /\ \A x \in ToSet(r) : \E i \in 1..n : r[i] = x
      /\ Nil \notin Key
  BY <1>2, RankingType, NilAssumption
<1>4. /\ c.oldest = (IF n = 0 THEN Nil ELSE r[1])
      /\ c.newest = (IF n = 0 THEN Nil ELSE r[n])
      /\ \A i \in 1..n : c.prev[r[i]] = (IF i = 1 THEN Nil ELSE r[i - 1])
      /\ \A i \in 1..n : c.next[r[i]] = (IF i = n THEN Nil ELSE r[i + 1])
      /\ \A x \in Key \ ToSet(r) : c.prev[x] = Nil /\ c.next[x] = Nil
  BY DEF Links
<1> HIDE DEF d, n
<1>5. CASE k \notin ToSet(r)
  <2>1. Lru!Without(r, {k}) = r
    BY <1>2, <1>5, NothingCut
  <2>2. /\ d.oldest = c.oldest /\ d.newest = c.newest
        /\ \A x \in Key : d.prev[x] = c.prev[x] /\ d.next[x] = c.next[x]
    <3>1. c.prev[k] = Nil /\ c.next[k] = Nil
      BY <1>4, <1>5
    <3>2. c.oldest # k /\ c.newest # k
      BY <1>3, <1>4, <1>5
    <3> QED
      BY <1>1, <1>3, <3>1, <3>2
  <2>3. /\ \A i \in 1..n : d.prev[r[i]] = (IF i = 1 THEN Nil ELSE r[i - 1])
        /\ \A i \in 1..n : d.next[r[i]] = (IF i = n THEN Nil ELSE r[i + 1])
        /\ \A x \in Key \ ToSet(r) : d.prev[x] = Nil /\ d.next[x] = Nil
        /\ d.oldest = (IF n = 0 THEN Nil ELSE r[1])
        /\ d.newest = (IF n = 0 THEN Nil ELSE r[n])
    BY <1>3, <1>4, <2>2
  <2>4. Links(d, r)
    BY <1>2, <2>3 DEF Links, n
  <2> QED
    BY <2>1, <2>4 DEF d
<1>6. CASE k \in ToSet(r)
  <2>1. PICK p \in 1..n : r[p] = k
    BY <1>3, <1>6
  <2> DEFINE s == CutAt(r, p)
  <2>2. /\ s \in Ranking /\ Len(s) = n - 1 /\ ToSet(s) = ToSet(r) \ {k}
        /\ \A i \in 1..(n - 1) : s[i] = IF i < p THEN r[i] ELSE r[i + 1]
        /\ Lru!Without(r, {k}) = s
    BY <1>2, <2>1, CutFacts DEF n
  <2> HIDE DEF s
  <2>3. /\ c.prev[k] = (IF p = 1 THEN Nil ELSE r[p - 1])
        /\ c.next[k] = (IF p = n THEN Nil ELSE r[p + 1])
        /\ c.oldest = r[1] /\ c.newest = r[n] /\ n >= 1
    BY <1>3, <1>4, <2>1
  <2>4. /\ \A i \in 1..n : i # p => d.prev[r[i]] = (IF i = p + 1 THEN c.prev[k] ELSE c.prev[r[i]])
        /\ \A i \in 1..n : i # p => d.next[r[i]] = (IF i = p - 1 THEN c.next[k] ELSE c.next[r[i]])
    <3>1. ASSUME NEW i \in 1..n, i # p
          PROVE  r[i] # k /\ (r[i] = c.next[k] <=> i = p + 1) /\ (r[i] = c.prev[k] <=> i = p - 1)
      <4>1. p # n => p + 1 \in 1..n
        BY <1>3, <2>1
      <4>2. p # 1 => p - 1 \in 1..n
        BY <1>3, <2>1
      <4> QED
        BY <1>3, <2>1, <2>3, <3>1, <4>1, <4>2
    <3> QED
      BY <1>1, <1>3, <3>1
  <2>5. ASSUME NEW i \in 1..(n - 1)
        PROVE  d.prev[s[i]] = (IF i = 1 THEN Nil ELSE s[i - 1])
    <3>1. CASE i < p
      <4>1. s[i] = r[i] /\ (i # 1 => s[i - 1] = r[i - 1]) /\ i \in 1..n
        BY <1>3, <2>1, <2>2, <3>1
      <4>2. d.prev[r[i]] = c.prev[r[i]]
        BY <1>3, <2>1, <2>4, <3>1, <4>1
      <4> QED
        BY <1>4, <4>1, <4>2
    <3>2. CASE i = p
      <4>1. s[i] = r[i + 1] /\ (i # 1 => s[i - 1] = r[i - 1]) /\ i + 1 \in 1..n
        BY <1>3, <2>1, <2>2, <3>2
      <4>2. d.prev[r[i + 1]] = c.prev[k]
        BY <1>3, <2>1, <2>4, <3>2, <4>1
      <4> QED
        BY <2>3, <3>2, <4>1, <4>2
    <3>3. CASE i > p
      <4>1. s[i] = r[i + 1] /\ i # 1 /\ s[i - 1] = r[i] /\ i + 1 \in 1..n
        BY <1>3, <2>1, <2>2, <3>3
      <4>2. d.prev[r[i + 1]] = c.prev[r[i + 1]]
        BY <1>3, <2>1, <2>4, <3>3, <4>1
      <4>3. c.prev[r[i + 1]] = r[i]
        BY <1>3, <1>4, <4>1
      <4> QED
        BY <4>1, <4>2, <4>3
    <3> QED
      BY <1>3, <2>1, <3>1, <3>2, <3>3
  <2>6. ASSUME NEW i \in 1..(n - 1)
        PROVE  d.next[s[i]] = (IF i = n - 1 THEN Nil ELSE s[i + 1])
    <3>1. CASE i < p - 1
      <4>1. s[i] = r[i] /\ s[i + 1] = r[i + 1] /\ i # n - 1 /\ i \in 1..n
        BY <1>3, <2>1, <2>2, <3>1
      <4>2. d.next[r[i]] = c.next[r[i]]
        BY <1>3, <2>1, <2>4, <3>1, <4>1
      <4>3. c.next[r[i]] = r[i + 1]
        BY <1>3, <1>4, <2>1, <3>1, <4>1
      <4> QED
        BY <4>1, <4>2, <4>3
    <3>2. CASE i = p - 1
      <4>1. s[i] = r[i] /\ (i # n - 1 => s[i + 1] = r[p + 1]) /\ i \in 1..n
        BY <1>3, <2>1, <2>2, <3>2
      <4>2. d.next[r[i]] = c.next[k]
        BY <1>3, <2>1, <2>4, <3>2, <4>1
      <4> QED
        BY <1>3, <2>1, <2>3, <3>2, <4>1, <4>2
    <3>3. CASE i > p - 1
      <4>1. s[i] = r[i + 1] /\ (i # n - 1 => s[i + 1] = r[i + 2]) /\ i + 1 \in 1..n
        BY <1>3, <2>1, <2>2, <3>3
      <4>2. d.next[r[i + 1]] = c.next[r[i + 1]]
        BY <1>3, <2>1, <2>4, <3>3, <4>1
      <4>3. c.next[r[i + 1]] = (IF i + 1 = n THEN Nil ELSE r[i + 2])
        BY <1>3, <1>4, <4>1
      <4> QED
        BY <1>3, <4>1, <4>2, <4>3
    <3> QED
      BY <1>3, <2>1, <3>1, <3>2, <3>3
  <2>7. \A x \in Key \ ToSet(s) : d.prev[x] = Nil /\ d.next[x] = Nil
    <3>1. ASSUME NEW x \in Key, x \notin ToSet(r) PROVE d.prev[x] = Nil /\ d.next[x] = Nil
      <4>1. c.prev[x] = Nil /\ c.next[x] = Nil /\ x # k
        BY <1>4, <1>6, <3>1
      <4>2. x # c.next[k]
        BY <1>3, <2>1, <2>3, <3>1
      <4>3. x # c.prev[k]
        BY <1>3, <2>1, <2>3, <3>1
      <4> QED
        BY <1>1, <4>1, <4>2, <4>3
    <3>2. d.prev[k] = Nil /\ d.next[k] = Nil
      BY <1>1
    <3> QED
      BY <2>2, <3>1, <3>2
  <2>8. d.oldest = (IF n - 1 = 0 THEN Nil ELSE s[1])
    <3>1. CASE p = 1
      BY <1>1, <1>3, <2>1, <2>2, <2>3, <3>1
    <3>2. CASE p # 1
      BY <1>1, <1>3, <2>1, <2>2, <2>3, <3>2
    <3> QED
      BY <3>1, <3>2
  <2>9. d.newest = (IF n - 1 = 0 THEN Nil ELSE s[n - 1])
    <3>1. CASE p = n
      BY <1>1, <1>3, <2>1, <2>2, <2>3, <3>1
    <3>2. CASE p # n
      BY <1>1, <1>3, <2>1, <2>2, <2>3, <3>2
    <3> QED
      BY <3>1, <3>2
  <2>10. Links(d, s)
    BY <2>2, <2>5, <2>6, <2>7, <2>8, <2>9 DEF Links
  <2> QED
    BY <2>2, <2>10 DEF d
<1> QED
  BY <1>5, <1>6

(* The maps of a cache have the same keys, and the list ranks some of      *)
(* them.                                                                   *)
Sound(c) == c \in CacheRec /\ DOMAIN c.event = DOMAIN c.memory
Listed(c, r) == Links(c, r) /\ ToSet(r) \subseteq DOMAIN c.memory

LEMMA OfSomeKeys ==
    ASSUME NEW V, NEW K \in SUBSET Key, NEW f \in [K -> V]
    PROVE  f \in MapsTo(V)
  BY DEF MapsTo

WithMaps(c, m, ev, z) == [c EXCEPT !.memory = m, !.event = ev, !.size = z]

LEMMA UpdatedMaps ==
    ASSUME NEW c \in CacheRec, NEW m \in MapsTo(Value),
           NEW ev \in MapsTo(Label), NEW z \in Int, NEW x,
           x = WithMaps(c, m, ev, z)
    PROVE  /\ x \in CacheRec /\ x.memory = m /\ x.event = ev /\ x.size = z
           /\ x.prev = c.prev /\ x.next = c.next /\ x.oldest = c.oldest /\ x.newest = c.newest
  BY DEF CacheRec, WithMaps

(* expire takes the key out of the maps and out of the list. *)
LEMMA ExpiredFacts ==
    ASSUME NEW c, Sound(c), NEW r, Listed(c, r), NEW k \in Key
    PROVE  /\ Sound(Expired(c, k)) /\ Listed(Expired(c, k), Lru!Without(r, {k}))
           /\ Expired(c, k).memory = [x \in DOMAIN c.memory \ {k} |-> c.memory[x]]
           /\ Expired(c, k).event = [x \in DOMAIN c.memory \ {k} |-> c.event[x]]
           /\ Expired(c, k).size = (IF k \in DOMAIN c.memory THEN c.size - Size[k] ELSE c.size)
<1> DEFINE D == DOMAIN c.memory
           m == [x \in D \ {k} |-> c.memory[x]]
           ev == [x \in D \ {k} |-> c.event[x]]
           w == Lru!Without(r, {k})
<1>1. /\ c \in CacheRec /\ DOMAIN c.event = D /\ Links(c, r) /\ r \in Ranking
      /\ ToSet(r) \subseteq D
  BY DEF Sound, Listed, Links
<1>2. D \subseteq Key /\ c.memory \in [D -> Value] /\ c.size \in Int
      /\ c.event \in [D -> Label]
  BY <1>1, CacheType
<1> HIDE DEF D
<1>3. CASE k \notin D
  <2>1. Expired(c, k) = c
    BY <1>3 DEF Expired, D
  <2>2. w = r
    BY <1>1, <1>3, NothingCut
  <2>3. D \ {k} = D /\ m = c.memory /\ ev = c.event
    BY <1>2, <1>3
  <2> HIDE DEF m, ev, w
  <2> QED
    BY <1>3, <2>1, <2>2, <2>3 DEF D, m, ev, w
<1>4. CASE k \in D
  <2> DEFINE d == RemoveEntry(c, k)
             s == d.size - Size[k]
             x == [d EXCEPT !.memory = m, !.event = ev, !.size = @ - Size[k]]
  <2>1. Expired(c, k) = x
    BY <1>4, Zenon DEF Expired, D
  <2>2. /\ d \in CacheRec /\ d.memory = c.memory /\ d.event = c.event /\ d.size = c.size
        /\ Links(d, w)
    BY <1>1, RemovedFields, RemovedLinks
  <2>3. Size[k] \in Int
    BY SizeAssumption
  <2>4. /\ m \in MapsTo(Value)
        /\ ev \in MapsTo(Label)
    <3>1. D \ {k} \in SUBSET Key
      BY <1>2
    <3>2. m \in [D \ {k} -> Value] /\ ev \in [D \ {k} -> Label]
      BY <1>2
    <3> HIDE DEF m, ev
    <3> QED
      BY <3>1, <3>2, OfSomeKeys
  <2>5. DOMAIN m = D \ {k} /\ DOMAIN ev = D \ {k}
    OBVIOUS
  <2>6. ToSet(w) \subseteq D \ {k} /\ w \in Ranking
    BY <1>1, WithoutOne
  <2> HIDE DEF d, m, ev, w
  <2>7. /\ x \in CacheRec /\ x.memory = m /\ x.event = ev /\ x.size = c.size - Size[k]
        /\ x.prev = d.prev /\ x.next = d.next /\ x.oldest = d.oldest /\ x.newest = d.newest
    <3> DEFINE z == c.size - Size[k]
    <3>1. z \in Int /\ d.size - Size[k] = z
      BY <1>2, <2>2, <2>3
    <3>2. x = WithMaps(d, m, ev, z)
      BY <3>1, Zenon DEF WithMaps
    <3> HIDE DEF x, z
    <3>3. /\ x \in CacheRec /\ x.memory = m /\ x.event = ev /\ x.size = z
          /\ x.prev = d.prev /\ x.next = d.next /\ x.oldest = d.oldest /\ x.newest = d.newest
      BY <2>2, <2>4, <3>1, <3>2, UpdatedMaps
    <3> QED
      BY <3>3 DEF z
  <2> HIDE DEF x
  <2>8. Links(x, w)
    BY <2>2, <2>7 DEF Links
  <2>9. Sound(x) /\ Listed(x, w)
    BY <2>5, <2>6, <2>7, <2>8 DEF Sound, Listed
  <2> QED
    BY <1>4, <2>1, <2>7, <2>9 DEF w, m, ev, D
<1> QED
  BY <1>3, <1>4

(* The entry that is appended becomes the newest. *)
LEMMA AppendedLinks ==
    ASSUME NEW c \in CacheRec, NEW r, Links(c, r), NEW k \in Key, k \notin ToSet(r)
    PROVE  /\ Appended(c, k) \in CacheRec /\ Links(Appended(c, k), Append(r, k))
           /\ Appended(c, k).memory = c.memory /\ Appended(c, k).event = c.event
           /\ Appended(c, k).size = c.size
           /\ c.newest # Nil => Appended(c, k) = MakeNewest(c, k)
<1> DEFINE n == Len(r)
           s == Append(r, k)
           d == Appended(c, k)
<1>1. r \in Ranking
  BY DEF Links
<1>2. /\ n \in Nat /\ \A i \in 1..n : r[i] \in Key /\ r[i] \in ToSet(r)
      /\ \A i, j \in 1..n : r[i] = r[j] => i = j
      /\ ToSet(r) \subseteq Key /\ Nil \notin Key
  BY <1>1, RankingType, NilAssumption
<1>3. /\ c.oldest = (IF n = 0 THEN Nil ELSE r[1])
      /\ c.newest = (IF n = 0 THEN Nil ELSE r[n])
      /\ \A i \in 1..n : c.prev[r[i]] = (IF i = 1 THEN Nil ELSE r[i - 1])
      /\ \A i \in 1..n : c.next[r[i]] = (IF i = n THEN Nil ELSE r[i + 1])
      /\ \A x \in Key \ ToSet(r) : c.prev[x] = Nil /\ c.next[x] = Nil
  BY DEF Links
<1>4. /\ s \in Ranking /\ Len(s) = n + 1 /\ ToSet(s) = ToSet(r) \union {k}
      /\ s[n + 1] = k /\ \A i \in 1..n : s[i] = r[i]
  BY <1>1, AppendFacts
<1>5. /\ c.prev \in [Key -> Key \union {Nil}] /\ c.next \in [Key -> Key \union {Nil}]
      /\ c.oldest \in Key \union {Nil} /\ c.newest \in Key \union {Nil}
  BY CacheType
<1> HIDE DEF n, s
<1>6. CASE n = 0
  <2> DEFINE x == [c EXCEPT !.oldest = k, !.newest = k]
  <2>1. d = x /\ c.newest = Nil
    BY <1>3, <1>6 DEF Appended
  <2>2. /\ x \in CacheRec /\ x.memory = c.memory /\ x.event = c.event /\ x.size = c.size
        /\ x.prev = c.prev /\ x.next = c.next /\ x.oldest = k /\ x.newest = k
    BY DEF CacheRec
  <2> HIDE DEF x
  <2>3. c.prev[k] = Nil /\ c.next[k] = Nil
    BY <1>3
  <2>4. \A i \in 1..(n + 1) : i = 1
    BY <1>6
  <2>5. Links(x, s)
    BY <1>3, <1>4, <1>6, <2>2, <2>3, <2>4 DEF Links
  <2> QED
    BY <2>1, <2>2, <2>5 DEF s
<1>7. CASE n # 0
  <2> DEFINE last == r[n]
             back == [c.prev EXCEPT ![k] = last]
             on == [c.next EXCEPT ![last] = k]
             x == [c EXCEPT !.prev = back, !.next = on, !.newest = k]
  <2>1. n \in 1..n /\ 1 \in 1..n
    BY <1>2, <1>7
  <2>2. c.newest = last /\ c.oldest # Nil /\ c.newest # Nil /\ last \in Key /\ last # k
    BY <1>2, <1>3, <1>7, <2>1
  <2>3. d = MakeNewest(c, k)
    BY <2>2 DEF Appended
  <2>4. MakeNewest(c, k) = x
    <3>1. MakeNewest(c, k) = [c EXCEPT !.prev[k] = last, !.next[last] = k, !.newest = k]
      BY <2>2, Zenon DEF MakeNewest
    <3> HIDE DEF last
    <3> QED
      BY <3>1
  <2> HIDE DEF last
  <2>5. back \in [Key -> Key \union {Nil}] /\ on \in [Key -> Key \union {Nil}]
    BY <1>5, <2>2
  <2>6. /\ \A y \in Key : back[y] = (IF y = k THEN last ELSE c.prev[y])
        /\ \A y \in Key : on[y] = (IF y = last THEN k ELSE c.next[y])
    BY <1>5, <2>2
  <2> HIDE DEF back, on
  <2>7. /\ x \in CacheRec /\ x.memory = c.memory /\ x.event = c.event /\ x.size = c.size
        /\ x.prev = back /\ x.next = on /\ x.oldest = c.oldest /\ x.newest = k
    BY <2>5 DEF CacheRec
  <2> HIDE DEF x
  <2>8. ASSUME NEW i \in 1..(n + 1)
        PROVE  /\ x.prev[s[i]] = (IF i = 1 THEN Nil ELSE s[i - 1])
               /\ x.next[s[i]] = (IF i = n + 1 THEN Nil ELSE s[i + 1])
    <3>1. CASE i = n + 1
      <4>1. s[i] = k /\ s[i - 1] = last /\ i # 1
        BY <1>2, <1>4, <1>7, <2>1, <3>1 DEF last
      <4>2. x.prev[k] = last /\ x.next[k] = Nil
        BY <1>3, <2>2, <2>6, <2>7
      <4> QED
        BY <3>1, <4>1, <4>2
    <3>2. CASE i # n + 1
      <4>1. i \in 1..n
        BY <1>2, <3>2
      <4>2. s[i] = r[i] /\ (i # 1 => s[i - 1] = r[i - 1]) /\ r[i] \in Key /\ r[i] # k
        BY <1>2, <1>4, <4>1
      <4>3. x.prev[s[i]] = c.prev[r[i]]
        BY <2>6, <2>7, <4>2
      <4>4. x.prev[s[i]] = (IF i = 1 THEN Nil ELSE s[i - 1])
        BY <1>3, <4>1, <4>2, <4>3
      <4>5. CASE i = n
        <5>1. s[i] = last /\ s[i + 1] = k
          BY <1>4, <4>2, <4>5 DEF last
        <5>2. x.next[last] = k
          BY <2>2, <2>6, <2>7
        <5> QED
          BY <3>2, <4>4, <5>1, <5>2
      <4>6. CASE i # n
        <5>1. r[i] # last /\ i + 1 \in 1..n
          BY <1>2, <2>1, <4>1, <4>6 DEF last
        <5>2. x.next[s[i]] = c.next[r[i]] /\ s[i + 1] = r[i + 1]
          BY <1>4, <2>6, <2>7, <4>2, <5>1
        <5>3. c.next[r[i]] = r[i + 1]
          BY <1>3, <4>1, <4>6
        <5> QED
          BY <3>2, <4>4, <5>2, <5>3
      <4> QED
        BY <4>5, <4>6
    <3> QED
      BY <3>1, <3>2
  <2>9. \A y \in Key \ ToSet(s) : x.prev[y] = Nil /\ x.next[y] = Nil
    <3>1. last \in ToSet(r)
      BY <1>2, <2>1 DEF last
    <3> QED
      BY <1>3, <1>4, <2>6, <2>7, <3>1
  <2>10. x.oldest = s[1] /\ x.newest = s[n + 1] /\ n + 1 # 0
    BY <1>2, <1>3, <1>4, <1>7, <2>1, <2>7
  <2>11. Links(x, s)
    BY <1>4, <2>8, <2>9, <2>10 DEF Links
  <2> QED
    BY <2>3, <2>4, <2>7, <2>11 DEF s
<1> QED
  BY <1>2, <1>6, <1>7

(* A hit that leaves another entry in the list. *)
LEMMA TouchedFacts ==
    ASSUME NEW c, Sound(c), NEW r, Listed(c, r), NEW k \in DOMAIN c.memory
    PROVE  LET d == RemoveEntry(c, k)
               e == MakeNewest(d, k)
           IN  /\ Sound(d) /\ Listed(d, Lru!Without(r, {k})) /\ d.memory = c.memory
               /\ d.event = c.event /\ d.size = c.size
               /\ d.newest = Nil <=> Lru!Without(r, {k}) = <<>>
               /\ d.newest # Nil => /\ Sound(e) /\ Listed(e, Append(Lru!Without(r, {k}), k))
                                    /\ e.memory = c.memory /\ e.event = c.event
                                    /\ e.size = c.size
<1> DEFINE d == RemoveEntry(c, k)
           w == Lru!Without(r, {k})
           e == MakeNewest(d, k)
<1>1. /\ c \in CacheRec /\ DOMAIN c.event = DOMAIN c.memory /\ Links(c, r) /\ r \in Ranking
      /\ ToSet(r) \subseteq DOMAIN c.memory
  BY DEF Sound, Listed, Links
<1>2. k \in Key
  BY <1>1, CacheType
<1>3. /\ d \in CacheRec /\ d.memory = c.memory /\ d.event = c.event /\ d.size = c.size
      /\ Links(d, w)
  BY <1>1, <1>2, RemovedFields, RemovedLinks
<1>4. w \in Ranking /\ ToSet(w) = ToSet(r) \ {k}
  BY <1>1, WithoutOne
<1> HIDE DEF d, w
<1>5. Sound(d) /\ Listed(d, w)
  BY <1>1, <1>3, <1>4 DEF Sound, Listed
<1>6. d.newest = Nil <=> w = <<>>
  <2>1. /\ Len(w) \in Nat /\ w \in Seq(Key) /\ d.newest = (IF Len(w) = 0 THEN Nil ELSE w[Len(w)])
        /\ \A i \in 1..Len(w) : w[i] \in Key
    BY <1>3, <1>4, RankingType DEF Links
  <2>2. w = <<>> <=> Len(w) = 0
    BY <2>1
  <2>3. Len(w) # 0 => w[Len(w)] # Nil
    BY <2>1, NilAssumption
  <2> QED
    BY <2>1, <2>2, <2>3
<1>7. ASSUME d.newest # Nil
      PROVE  /\ Sound(e) /\ Listed(e, Append(w, k))
             /\ e.memory = c.memory /\ e.event = c.event /\ e.size = c.size
  <2>1. k \notin ToSet(w)
    BY <1>4
  <2>2. /\ e \in CacheRec /\ Links(e, Append(w, k)) /\ e.memory = d.memory
        /\ e.event = d.event /\ e.size = d.size
    BY <1>2, <1>3, <1>7, <2>1, AppendedLinks
  <2> HIDE DEF e
  <2>3. ToSet(Append(w, k)) = ToSet(w) \union {k}
    BY <1>2, <1>4, <2>1, AppendFacts
  <2> QED
    BY <1>1, <1>3, <1>4, <2>2, <2>3 DEF Sound, Listed
<1>8. /\ Sound(d) /\ Listed(d, w) /\ d.memory = c.memory /\ d.event = c.event
      /\ d.size = c.size
      /\ d.newest = Nil <=> w = <<>>
      /\ d.newest # Nil => /\ Sound(e) /\ Listed(e, Append(w, k))
                           /\ e.memory = c.memory /\ e.event = c.event /\ e.size = c.size
  BY <1>3, <1>5, <1>6, <1>7
<1> QED
  BY <1>8, Zenon DEF d, w, e

(* What insert makes of a cache before the eviction.                       *)
Inserted(c, r, k, v, e, d) ==
    /\ Sound(d) /\ Listed(d, Append(Lru!Without(r, {k}), k))
    /\ d.memory = [x \in DOMAIN c.memory \union {k} |-> IF x = k THEN v ELSE c.memory[x]]
    /\ d.event = [x \in DOMAIN c.memory \union {k} |->
                    IF x = k /\ k \notin DOMAIN c.memory THEN e ELSE c.event[x]]
    /\ d.size = (IF k \in DOMAIN c.memory THEN c.size ELSE c.size + Size[v])

LEMMA InsertedFacts ==
    ASSUME NEW c, Sound(c), NEW r, Listed(c, r), NEW k \in Key, NEW v \in Value,
           NEW e \in Label
    PROVE  Inserted(c, r, k, v, e, Appended(Logged(c, k, v, e), k))
<1> DEFINE D == DOMAIN c.memory
           m == [x \in D \union {k} |-> IF x = k THEN v ELSE c.memory[x]]
           g == [x \in D \union {k} |-> IF x = k /\ k \notin D THEN e ELSE c.event[x]]
           w == Lru!Without(r, {k})
           l == Logged(c, k, v, e)
           d == Appended(l, k)
<1>1. /\ c \in CacheRec /\ DOMAIN c.event = D /\ Links(c, r) /\ r \in Ranking
      /\ ToSet(r) \subseteq D
  BY DEF Sound, Listed, Links
<1>2. /\ D \subseteq Key /\ c.memory \in [D -> Value] /\ c.size \in Int
      /\ c.event \in [D -> Label]
  BY <1>1, CacheType
<1>3. w \in Ranking /\ ToSet(w) = ToSet(r) \ {k}
  BY <1>1, WithoutOne
<1>4. m \in MapsTo(Value) /\ DOMAIN m = D \union {k}
  <2>1. D \union {k} \in SUBSET Key
    BY <1>2
  <2>2. m \in [D \union {k} -> Value]
    BY <1>2
  <2> HIDE DEF m
  <2> QED
    BY <2>1, <2>2, OfSomeKeys
<1>5. /\ l \in CacheRec /\ Links(l, w) /\ l.memory = m /\ l.event = g
      /\ l.size = (IF k \in D THEN c.size ELSE c.size + Size[v])
  <2>1. CASE k \in D
    <3> DEFINE q == RemoveEntry(c, k)
               x == [q EXCEPT !.memory = m]
    <3>1. /\ q \in CacheRec /\ q.memory = c.memory /\ q.event = c.event /\ q.size = c.size
          /\ Links(q, w)
      BY <1>1, RemovedFields, RemovedLinks
    <3> HIDE DEF D, w
    <3>2. l = [q EXCEPT !.memory[k] = v]
      BY <2>1, Zenon DEF Logged, D
    <3> HIDE DEF q, l
    <3>3. [q.memory EXCEPT ![k] = v] = m
      BY <1>2, <2>1, <3>1
    <3>4. l = x
      <4>1. l = [q EXCEPT !.memory = [q.memory EXCEPT ![k] = v]]
        BY <3>2
      <4> QED
        BY <3>3, <4>1, Zenon
    <3> HIDE DEF m
    <3>5. /\ x \in CacheRec /\ x.memory = m /\ x.event = q.event /\ x.size = q.size
          /\ x.prev = q.prev /\ x.next = q.next /\ x.oldest = q.oldest /\ x.newest = q.newest
      BY <1>4, <3>1 DEF CacheRec
    <3> HIDE DEF x
    <3>6. Links(x, w)
      BY <3>1, <3>5 DEF Links
    <3>7. c.event = g
      <4>1. D \union {k} = D
        BY <2>1
      <4> QED
        BY <1>2, <2>1, <4>1
    <3> HIDE DEF g
    <3> QED
      BY <2>1, <3>1, <3>4, <3>5, <3>6, <3>7
  <2>2. CASE k \notin D
    <3> DEFINE ev == [x \in D \union {k} |-> IF x = k THEN e ELSE c.event[x]]
               x == [c EXCEPT !.memory = m, !.event = ev, !.size = @ + Size[v]]
    <3>1. w = r
      BY <1>1, <2>2, NothingCut
    <3>2. l = x
      BY <2>2, Zenon DEF Logged
    <3>3. ev \in MapsTo(Label)
      <4>1. D \union {k} \in SUBSET Key
        BY <1>2
      <4>2. ev \in [D \union {k} -> Label]
        BY <1>2
      <4> HIDE DEF ev
      <4> QED
        BY <4>1, <4>2, OfSomeKeys
    <3>4. Size[v] \in Int
      BY SizeAssumption
    <3>7. ev = g
      BY <2>2
    <3> HIDE DEF m, ev, g, D, w, l
    <3>5. /\ x \in CacheRec /\ x.memory = m /\ x.event = ev /\ x.size = c.size + Size[v]
          /\ x.prev = c.prev /\ x.next = c.next /\ x.oldest = c.oldest /\ x.newest = c.newest
      <4> DEFINE z == c.size + Size[v]
      <4>1. z \in Int
        BY <1>2, <3>4
      <4>2. x = WithMaps(c, m, ev, z)
        BY Zenon DEF WithMaps
      <4> HIDE DEF x, z
      <4>3. /\ x \in CacheRec /\ x.memory = m /\ x.event = ev /\ x.size = z
            /\ x.prev = c.prev /\ x.next = c.next /\ x.oldest = c.oldest /\ x.newest = c.newest
        BY <1>1, <1>4, <3>3, <4>1, <4>2, UpdatedMaps
      <4> QED
        BY <4>3 DEF z
    <3> HIDE DEF x
    <3>6. Links(x, r)
      BY <1>1, <3>5 DEF Links
    <3> QED
      BY <2>2, <3>1, <3>2, <3>5, <3>6, <3>7
  <2> QED
    BY <2>1, <2>2
<1>10. DOMAIN g = D \union {k}
  OBVIOUS
<1> HIDE DEF D, m, g, w, l
<1>6. k \notin ToSet(w)
  BY <1>3
<1>7. /\ d \in CacheRec /\ Links(d, Append(w, k)) /\ d.memory = l.memory
      /\ d.event = l.event /\ d.size = l.size
  BY <1>5, <1>6, AppendedLinks
<1>8. ToSet(Append(w, k)) = ToSet(w) \union {k}
  BY <1>3, <1>6, AppendFacts
<1> HIDE DEF d
<1>9. /\ Sound(d) /\ Listed(d, Append(w, k)) /\ d.memory = m /\ d.event = g
      /\ d.size = (IF k \in D THEN c.size ELSE c.size + Size[v])
  BY <1>1, <1>3, <1>4, <1>5, <1>7, <1>8, <1>10 DEF Sound, Listed
<1> QED
  BY <1>9, Zenon DEF Inserted, d, l, w, m, g, D

-----------------------------------------------------------------------------
(* The eviction *)

SoundCache == {c \in CacheRec : Sound(c) /\ \E r \in Ranking : Listed(c, r)}

LEMMA SoundCacheIs == \A c : c \in SoundCache <=> Sound(c) /\ \E r : Listed(c, r)
  BY DEF SoundCache, Sound, Listed, Links

LEMMA KeysCounted == Cardinality(Key) \in Nat
  BY KeyAssumption, FS_CardinalityType

(* The oldest entry of a list is in the maps. *)
LEMMA OldestIsThere ==
    ASSUME NEW c, Sound(c), NEW r, Listed(c, r), c.oldest # Nil
    PROVE  /\ c.oldest \in DOMAIN c.memory /\ c.oldest \in Key
           /\ Len(r) > 0 /\ c.oldest = r[1] /\ c.memory[c.oldest] \in Value
<1>1. /\ c.oldest = (IF Len(r) = 0 THEN Nil ELSE r[1]) /\ r \in Ranking
      /\ ToSet(r) \subseteq DOMAIN c.memory /\ c \in CacheRec
  BY DEF Listed, Links, Sound
<1>2. Len(r) \in Nat /\ Len(r) # 0 /\ c.oldest = r[1]
  BY <1>1, RankingType
<1>3. c.oldest \in ToSet(r) /\ c.oldest \in Key
  BY <1>1, <1>2, RankingType
<1> QED
  BY <1>1, <1>2, <1>3, CacheType

Round(b) ==
    IF b.c.size <= Limit \/ b.c.oldest = Nil THEN b
    ELSE [c |-> Expired(b.c, b.c.oldest), popped |-> Append(b.popped, b.c.memory[b.c.oldest])]

Evictions == [c : SoundCache, popped : Seq(Value)]

(* The rounds are taken one after the other. *)
LEMMA RoundsAreSteps ==
    ASSUME NEW c \in SoundCache
    PROVE  \E run \in [0..Cardinality(Key) -> Evictions] :
              /\ Rounds(c) = run[Cardinality(Key)] /\ run[0] = [c |-> c, popped |-> <<>>]
              /\ \A i \in 1..Cardinality(Key) : run[i] = Round(run[i - 1])
<1> DEFINE N == Cardinality(Key)
           start == [c |-> c, popped |-> <<>>]
           step == [p \in Evictions \X (1..N) |-> Round(p[1])]
           F(q) == [n \in 0..N |->
                      IF n = 0 THEN [c |-> c, popped |-> <<>>]
                      ELSE IF q[n - 1].c.size <= Limit \/ q[n - 1].c.oldest = Nil THEN q[n - 1]
                      ELSE [c |-> Expired(q[n - 1].c, q[n - 1].c.oldest),
                            popped |-> Append(q[n - 1].popped,
                                              q[n - 1].c.memory[q[n - 1].c.oldest])]]
           run == CHOOSE q : q = F(q)
<1>1. N \in Nat
  BY KeysCounted
<1>2. Rounds(c) = run[N]
  BY Zenon DEF Rounds
<1>3. \A q : F(q) = [n \in 0..N |-> IF n = 0 THEN start ELSE Round(q[n - 1])]
  BY Zenon DEF Round
<1> HIDE DEF F, N
<1>4. ASSUME NEW b \in Evictions PROVE Round(b) \in Evictions
  <2>1. CASE b.c.size <= Limit \/ b.c.oldest = Nil
    BY <1>4, <2>1 DEF Round
  <2>2. CASE ~(b.c.size <= Limit \/ b.c.oldest = Nil)
    <3>1. b.c \in SoundCache /\ b.popped \in Seq(Value)
      BY DEF Evictions
    <3>2. PICK r : Listed(b.c, r)
      BY <3>1, SoundCacheIs
    <3>3. Sound(b.c) /\ b.c.oldest # Nil
      BY <2>2, <3>1, SoundCacheIs
    <3>4. b.c.oldest \in Key /\ b.c.memory[b.c.oldest] \in Value
      BY <3>2, <3>3, OldestIsThere
    <3>5. Expired(b.c, b.c.oldest) \in SoundCache
      BY <3>2, <3>3, <3>4, ExpiredFacts, SoundCacheIs
    <3>6. Append(b.popped, b.c.memory[b.c.oldest]) \in Seq(Value)
      BY <3>1, <3>4
    <3>7. Round(b) = [c |-> Expired(b.c, b.c.oldest),
                      popped |-> Append(b.popped, b.c.memory[b.c.oldest])]
      BY <2>2 DEF Round
    <3> QED
      BY <3>5, <3>6, <3>7 DEF Evictions
  <2> QED
    BY <2>1, <2>2
<1>5. step \in [Evictions \X (1..N) -> Evictions]
  BY <1>4
<1>6. start \in Evictions
  BY DEF Evictions
<1>7. \A p \in Evictions \X (1..N) : step[p] = Round(p[1])
  OBVIOUS
<1> HIDE DEF step, start
<1>8. PICK g \in [0..N -> Evictions] :
          g[0] = start /\ \A i \in 1..N : g[i] = step[<<g[i - 1], i>>]
  <2>1. StepsFrom(N, Evictions, start, step) # {}
    BY <1>1, <1>5, <1>6, StepsExist
  <2> QED
    BY <2>1 DEF StepsFrom
<1>9. \A i \in 1..N : g[i] = Round(g[i - 1])
  <2> TAKE i \in 1..N
  <2>1. g[i - 1] \in Evictions
    BY <1>1, i - 1 \in 0..N
  <2>2. <<g[i - 1], i>> \in Evictions \X (1..N)
    BY <2>1
  <2> QED
    BY <1>7, <1>8, <2>2
<1>10. g = F(g)
  <2>1. F(g) = [n \in 0..N |-> IF n = 0 THEN start ELSE Round(g[n - 1])]
    BY <1>3
  <2>2. \A n \in 0..N : g[n] = IF n = 0 THEN start ELSE Round(g[n - 1])
    BY <1>1, <1>8, <1>9
  <2>3. g = [n \in 0..N |-> g[n]]
    OBVIOUS
  <2> QED
    BY <2>1, <2>2, <2>3
<1>11. run = F(run)
  BY <1>10
<1> HIDE DEF run
<1>12. run = [n \in 0..N |-> IF n = 0 THEN start ELSE Round(run[n - 1])]
  BY <1>3, <1>11
<1>13. \A n \in 0..N : run[n] = IF n = 0 THEN start ELSE Round(run[n - 1])
  BY <1>12
<1>14. run[0] = start /\ \A i \in 1..N : run[i] = Round(run[i - 1])
  BY <1>1, <1>13
<1>15. \A i \in 0..N : run[i] \in Evictions
  <2> DEFINE bad == {i \in 0..N : run[i] \notin Evictions}
  <2>1. SUFFICES ASSUME bad # {} PROVE FALSE
    OBVIOUS
  <2>2. PICK i \in bad : \A j \in bad : i <= j
    <3>1. bad \in SUBSET Nat
      OBVIOUS
    <3> HIDE DEF bad
    <3> QED
      BY <2>1, <3>1, Least
  <2>3. i # 0
    BY <1>6, <1>14, <2>2
  <2>4. i \in 1..N /\ i - 1 \in 0..N /\ i - 1 \notin bad
    BY <1>1, <2>2, <2>3
  <2>5. run[i - 1] \in Evictions
    BY <2>4
  <2>6. run[i] \in Evictions
    BY <1>4, <1>14, <2>4, <2>5
  <2> QED
    BY <2>2, <2>6
<1>16. run \in [0..N -> Evictions]
  BY <1>12, <1>15
<1> QED
  BY <1>2, <1>14, <1>16 DEF N, start

LEMMA RoundsSound ==
    ASSUME NEW c \in SoundCache
    PROVE  Rounds(c).c \in SoundCache /\ Rounds(c).popped \in Seq(Value)
<1>1. PICK run \in [0..Cardinality(Key) -> Evictions] : Rounds(c) = run[Cardinality(Key)]
  BY RoundsAreSteps
<1>2. Cardinality(Key) \in 0..Cardinality(Key)
  BY KeysCounted
<1>3. Rounds(c) \in Evictions
  BY <1>1, <1>2
<1> QED
  BY <1>3 DEF Evictions

-----------------------------------------------------------------------------
(* The size that is counted, and that of the keys: a key of size n has n   *)
(* units.                                                                  *)

Units(K) == UNION {{k} \X (1..Size[k]) : k \in K}
KeySizes(K) == Cardinality(Units(K))
Drift(c) == c.size - KeySizes(DOMAIN c.memory)

LEMMA UnitsOf ==
    ASSUME NEW K \in SUBSET Key
    PROVE  IsFiniteSet(Units(K)) /\ KeySizes(K) \in Nat
<1> DEFINE f == [k \in K |-> {k} \X (1..Size[k])]
           S == {{k} \X (1..Size[k]) : k \in K}
<1>1. IsFiniteSet(K)
  BY KeyAssumption, FS_Subset
<1>2. f \in Surjection(K, S)
  BY DEF Surjection
<1>3. IsFiniteSet(S)
  <2> HIDE DEF f, S
  <2> QED
    BY <1>1, <1>2, FS_Surjection
<1>4. ASSUME NEW k \in K PROVE IsFiniteSet({k} \X (1..Size[k]))
  <2> DEFINE n == Size[k]
             A == {k}
             B == 1..n
  <2>1. n \in Int
    BY SizeAssumption
  <2> HIDE DEF n
  <2>2. IsFiniteSet(B)
    BY <2>1, FS_Interval
  <2>3. IsFiniteSet(A)
    BY FS_Singleton
  <2> HIDE DEF A, B
  <2>4. IsFiniteSet(A \X B)
    BY <2>2, <2>3, FS_Product
  <2> QED
    BY <2>4 DEF A, B, n
<1>5. \A T \in S : IsFiniteSet(T)
  BY <1>4
<1>6. IsFiniteSet(Units(K))
  <2>1. Units(K) = UNION S
    BY DEF Units
  <2> HIDE DEF S
  <2> QED
    BY <1>3, <1>5, <2>1, FS_UNION
<1> QED
  BY <1>6, FS_CardinalityType DEF KeySizes

(* A key more or less counts with its size. *)
LEMMA OneKeyMore ==
    ASSUME NEW K \in SUBSET Key, NEW k \in Key, k \notin K
    PROVE  KeySizes(K \union {k}) = KeySizes(K) + Size[k]
<1> DEFINE U == {k} \X (1..Size[k])
<1>1. Size[k] \in Nat /\ Size[k] > 0
  BY SizeAssumption
<1>2. IsFiniteSet(U) /\ Cardinality(U) = Size[k]
  <2> DEFINE n == Size[k]
             A == {k}
             B == 1..n
  <2>1. n \in Nat
    BY <1>1
  <2> HIDE DEF n
  <2>2. IsFiniteSet(B) /\ Cardinality(B) = n
    BY <2>1, FS_Interval
  <2>3. IsFiniteSet(A) /\ Cardinality(A) = 1
    BY FS_Singleton
  <2> HIDE DEF A, B
  <2>4. IsFiniteSet(A \X B) /\ Cardinality(A \X B) = Cardinality(A) * Cardinality(B)
    BY <2>2, <2>3, FS_Product
  <2>5. Cardinality(A \X B) = n
    BY <2>1, <2>2, <2>3, <2>4
  <2> QED
    BY <2>4, <2>5 DEF A, B, n
<1>3. Units(K \union {k}) = Units(K) \union U
  BY DEF Units
<1>4. Units(K) \cap U = {}
  BY DEF Units
<1> HIDE DEF U
<1>5. Cardinality(Units(K) \union U) = Cardinality(Units(K)) + Size[k]
  <2>1. IsFiniteSet(Units(K)) /\ Cardinality(Units(K)) \in Nat
    BY UnitsOf DEF KeySizes
  <2>2. Cardinality(Units(K) \union U)
          = Cardinality(Units(K)) + Cardinality(U) - Cardinality(Units(K) \cap U)
    BY <1>2, <2>1, FS_Union
  <2>3. Cardinality(Units(K) \cap U) = 0
    BY <1>4, FS_EmptySet
  <2> QED
    BY <1>1, <1>2, <2>1, <2>2, <2>3
<1> QED
  BY <1>3, <1>5 DEF KeySizes

(* expire gives back what the key counts: the drift stays. *)
LEMMA ExpiredDrift ==
    ASSUME NEW c, c \in SoundCache, NEW k \in Key
    PROVE  Drift(Expired(c, k)) = Drift(c)
<1> DEFINE D == DOMAIN c.memory
           d == Expired(c, k)
<1>1. PICK r : Listed(c, r)
  BY SoundCacheIs
<1>2. Sound(c) /\ D \subseteq Key /\ c.size \in Int
  BY SoundCacheIs, CacheType DEF Sound
<1>3. DOMAIN d.memory = D \ {k} /\ d.size = (IF k \in D THEN c.size - Size[k] ELSE c.size)
  <2>1. /\ d.memory = [x \in D \ {k} |-> c.memory[x]]
        /\ d.size = (IF k \in D THEN c.size - Size[k] ELSE c.size)
    BY <1>1, <1>2, ExpiredFacts
  <2> HIDE DEF d
  <2> QED
    BY <2>1
<1> HIDE DEF D, d
<1>4. CASE k \notin D
  <2>1. D \ {k} = D
    BY <1>4
  <2> QED
    BY <1>3, <1>4, <2>1 DEF Drift, D, d
<1>5. CASE k \in D
  <2> DEFINE X == D \ {k}
  <2>1. X \in SUBSET Key /\ k \notin X /\ X \union {k} = D
    BY <1>2, <1>5
  <2> HIDE DEF X
  <2>2. KeySizes(X \union {k}) = KeySizes(X) + Size[k]
    BY <2>1, OneKeyMore
  <2>3. KeySizes(D) = KeySizes(X) + Size[k] /\ KeySizes(X) \in Nat
    BY <2>1, <2>2, UnitsOf
  <2>4. Size[k] \in Nat
    BY SizeAssumption
  <2>5. d.size = c.size - Size[k] /\ KeySizes(DOMAIN d.memory) = KeySizes(X)
    BY <1>3, <1>5 DEF X
  <2>6. d.size - KeySizes(DOMAIN d.memory) = c.size - KeySizes(D)
    BY <1>2, <2>3, <2>4, <2>5
  <2> QED
    BY <2>6 DEF Drift, D, d
<1> QED
  BY <1>4, <1>5

(* The eviction leaves the drift. *)
LEMMA RoundsDrift ==
    ASSUME NEW c \in SoundCache
    PROVE  Drift(Rounds(c).c) = Drift(c)
<1> DEFINE N == Cardinality(Key)
<1>1. N \in Nat
  BY KeysCounted
<1>2. PICK run \in [0..N -> Evictions] :
          /\ Rounds(c) = run[N] /\ run[0] = [c |-> c, popped |-> <<>>]
          /\ \A i \in 1..N : run[i] = Round(run[i - 1])
  BY RoundsAreSteps
<1> HIDE DEF N
<1> DEFINE bad == {i \in 0..N : Drift(run[i].c) # Drift(c)}
<1>3. ASSUME bad # {} PROVE FALSE
  <2>1. PICK i \in bad : \A j \in bad : i <= j
    <3>1. bad \in SUBSET Nat
      OBVIOUS
    <3> HIDE DEF bad
    <3> QED
      BY <1>3, <3>1, Least
  <2>2. i \in 0..N /\ Drift(run[i].c) # Drift(c)
    BY <2>1
  <2>3. i # 0
    BY <1>2, <2>2
  <2>4. i \in 1..N /\ i - 1 \in 0..N /\ i - 1 \notin bad
    <3> HIDE DEF bad
    <3> QED
      BY <1>1, <2>1, <2>2, <2>3
  <2> DEFINE b == run[i - 1]
  <2>5. Drift(b.c) = Drift(c) /\ b \in Evictions /\ b.c \in SoundCache
    BY <2>4 DEF Evictions
  <2>6. run[i] = Round(b)
    BY <1>2, <2>4
  <2> HIDE DEF b
  <2>7. CASE b.c.size <= Limit \/ b.c.oldest = Nil
    BY <2>2, <2>5, <2>6, <2>7 DEF Round
  <2>8. CASE ~(b.c.size <= Limit \/ b.c.oldest = Nil)
    <3>1. run[i].c = Expired(b.c, b.c.oldest)
      BY <2>6, <2>8 DEF Round
    <3>2. PICK r : Listed(b.c, r)
      BY <2>5, SoundCacheIs
    <3>3. b.c.oldest \in Key
      BY <2>5, <2>8, <3>2, SoundCacheIs, OldestIsThere
    <3> QED
      BY <2>2, <2>5, <3>1, <3>3, ExpiredDrift
  <2> QED
    BY <2>7, <2>8
<1>4. N \in 0..N
  BY <1>1
<1> QED
  BY <1>2, <1>3, <1>4

-----------------------------------------------------------------------------
(* What is forgotten at an event *)

Chosen(s) == CHOOSE x \in s : TRUE

AtMost(T, n) == {s \in SUBSET T : Cardinality(s) <= n}

(* The keys of T are expired one after the other, whichever is chosen      *)
(* first.                                                                  *)
Expires(g, T, c) ==
    \A s \in SUBSET T : g[s] = IF s = {} THEN c ELSE Expired(g[s \ {Chosen(s)}], Chosen(s))

LEMMA FoldExists ==
    ASSUME NEW T \in SUBSET Key, NEW c \in SoundCache
    PROVE  \E g \in [SUBSET T -> SoundCache] : Expires(g, T, c)
<1> DEFINE N == Cardinality(T)
           After(g, s) == IF s = {} THEN c ELSE Expired(g[s \ {Chosen(s)}], Chosen(s))
           Obeys(n, g) == \A s \in AtMost(T, n) : g[s] = After(g, s)
           bad == {n \in 0..N : ~ \E g \in [AtMost(T, n) -> SoundCache] : Obeys(n, g)}
<1>1. /\ IsFiniteSet(T) /\ N \in Nat
      /\ \A s \in SUBSET T : IsFiniteSet(s) /\ Cardinality(s) \in Nat /\ Cardinality(s) <= N
      /\ \A s \in SUBSET T : Cardinality(s) = 0 <=> s = {}
  <2>1. IsFiniteSet(T)
    BY KeyAssumption, FS_Subset
  <2>2. \A s \in SUBSET T : IsFiniteSet(s) /\ Cardinality(s) <= Cardinality(T)
    BY <2>1, FS_Subset
  <2> QED
    BY <2>1, <2>2, FS_CardinalityType, FS_EmptySet
<1>2. \A s \in SUBSET T : s # {} => /\ Chosen(s) \in s /\ Chosen(s) \in Key
                                    /\ s \ {Chosen(s)} \in SUBSET T
                                    /\ Cardinality(s \ {Chosen(s)}) = Cardinality(s) - 1
  <2> TAKE s \in SUBSET T
  <2> HAVE s # {}
  <2>1. Chosen(s) \in s
    BY DEF Chosen
  <2> QED
    BY <1>1, <2>1, FS_RemoveElement
<1>3. \A C \in SoundCache, k \in Key : Expired(C, k) \in SoundCache
  BY SoundCacheIs, ExpiredFacts
<1> HIDE DEF N
<1>4. ASSUME bad # {} PROVE FALSE
  <2>1. PICK n \in bad : \A j \in bad : n <= j
    <3>1. bad \in SUBSET Nat
      OBVIOUS
    <3> HIDE DEF bad
    <3> QED
      BY <1>4, <3>1, Least
  <2>2. n # 0
    <3>1. AtMost(T, 0) = {{}}
      BY <1>1 DEF AtMost
    <3> DEFINE g == [s \in AtMost(T, 0) |-> c]
    <3>2. g \in [AtMost(T, 0) -> SoundCache]
      OBVIOUS
    <3>3. Obeys(0, g)
      BY <3>1
    <3> HIDE DEF g, Obeys
    <3> QED
      BY <2>1, <3>2, <3>3
  <2>3. n \in 1..N /\ n - 1 \in 0..N /\ n - 1 \notin bad
    <3>1. n \in 0..N
      BY <2>1
    <3> HIDE DEF bad
    <3> QED
      BY <1>1, <2>1, <2>2, <3>1
  <2>4. PICK g \in [AtMost(T, n - 1) -> SoundCache] : Obeys(n - 1, g)
    BY <2>3
  <2> DEFINE h == [s \in AtMost(T, n) |-> IF s \in AtMost(T, n - 1) THEN g[s] ELSE After(g, s)]
  <2>5. ASSUME NEW s \in AtMost(T, n), s # {}
        PROVE  s \ {Chosen(s)} \in AtMost(T, n - 1) /\ Chosen(s) \in Key
    BY <1>1, <1>2, <2>3, <2>5 DEF AtMost
  <2>6. \A s \in AtMost(T, n) : After(g, s) \in SoundCache
    <3> TAKE s \in AtMost(T, n)
    <3>1. CASE s = {}
      BY <3>1
    <3>2. CASE s # {}
      <4>1. g[s \ {Chosen(s)}] \in SoundCache /\ Chosen(s) \in Key
        BY <2>5, <3>2
      <4> QED
        BY <1>3, <3>2, <4>1
    <3> QED
      BY <3>1, <3>2
  <2>7. h \in [AtMost(T, n) -> SoundCache]
    <3> HIDE DEF After
    <3> QED
      BY <2>6
  <2>8. AtMost(T, n - 1) \subseteq AtMost(T, n)
    BY <1>1, <2>3 DEF AtMost
  <2>9. \A s \in AtMost(T, n - 1) : h[s] = g[s]
    <3> HIDE DEF After
    <3> QED
      BY <2>8
  <2>10. \A s \in AtMost(T, n) : After(h, s) = After(g, s)
    <3> HIDE DEF h
    <3> TAKE s \in AtMost(T, n)
    <3> QED
      BY <2>5, <2>9
  <2>11. \A s \in AtMost(T, n) : h[s] = After(g, s)
    <3> HIDE DEF After
    <3> QED
      BY <2>4
  <2>12. Obeys(n, h)
    <3> HIDE DEF h, After
    <3> QED
      BY <2>10, <2>11
  <2> HIDE DEF h, Obeys
  <2> QED
    BY <2>1, <2>7, <2>12
<1>5. N \notin bad /\ N \in 0..N
  <2> HIDE DEF bad
  <2> QED
    BY <1>1, <1>4
<1>6. PICK g \in [AtMost(T, N) -> SoundCache] : Obeys(N, g)
  BY <1>5
<1>7. AtMost(T, N) = SUBSET T
  BY <1>1 DEF AtMost
<1> QED
  BY <1>6, <1>7 DEF Expires

(* An event takes out the keys that wait for it, and no others.            *)
LEMMA AfterEventFacts ==
    ASSUME NEW e, Sound(cache), NEW r, Listed(cache, r)
    PROVE  LET T == {k \in DOMAIN cache.memory : cache.event[k] = e} IN
           /\ Sound(AfterEvent(e)) /\ Listed(AfterEvent(e), Lru!Without(r, T))
           /\ AfterEvent(e).memory = [x \in DOMAIN cache.memory \ T |-> cache.memory[x]]
           /\ AfterEvent(e).event = [x \in DOMAIN cache.memory \ T |-> cache.event[x]]
           /\ Drift(AfterEvent(e)) = Drift(cache)
           /\ ToSet(Lru!Without(r, T)) = ToSet(r) \ T
<1> DEFINE D == DOMAIN cache.memory
           T == {k \in D : cache.event[k] = e}
           F(g) == [s \in SUBSET T |->
                      IF s = {} THEN cache ELSE Expired(g[s \ {Chosen(s)}], Chosen(s))]
           fold == CHOOSE g : g = F(g)
<1>1. AfterEvent(e) = fold[T]
  BY Zenon DEF AfterEvent, FoldSet, MapThenFoldSet, Chosen
<1>2. /\ D \subseteq Key /\ T \in SUBSET Key /\ T \subseteq D /\ cache.memory \in [D -> Value]
      /\ cache.event \in [D -> Label]
  BY CacheType DEF Sound
<1> HIDE DEF T
<1>3. cache \in SoundCache
  BY SoundCacheIs
<1>4. PICK g \in [SUBSET T -> SoundCache] : Expires(g, T, cache)
  BY <1>2, <1>3, FoldExists
<1>5. g = F(g)
  <2>1. \A s \in SUBSET T : g[s] = F(g)[s]
    BY <1>4 DEF Expires
  <2>2. g = [s \in SUBSET T |-> g[s]] /\ F(g) = [s \in SUBSET T |-> F(g)[s]]
    OBVIOUS
  <2> HIDE DEF F
  <2> QED
    BY <2>1, <2>2
<1>6. fold = F(fold)
  <2> HIDE DEF F
  <2> QED
    BY <1>5
<1> HIDE DEF fold
<1>7. \A s \in SUBSET T : fold[s] = IF s = {} THEN cache ELSE Expired(fold[s \ {Chosen(s)}], Chosen(s))
  BY <1>6
<1> HIDE DEF F
<1> DEFINE Good(s) == /\ Sound(fold[s]) /\ Listed(fold[s], Lru!Without(r, s))
                      /\ Lru!Without(r, s) \in Ranking
                      /\ ToSet(Lru!Without(r, s)) = ToSet(r) \ s
                      /\ Follows(Lru!Without(r, s), r)
                      /\ fold[s].memory = [x \in D \ s |-> cache.memory[x]]
                      /\ fold[s].event = [x \in D \ s |-> cache.event[x]]
                      /\ Drift(fold[s]) = Drift(cache)
           bad == {n \in 0..Cardinality(T) : \E s \in SUBSET T : Cardinality(s) = n /\ ~Good(s)}
<1>8. /\ IsFiniteSet(T) /\ Cardinality(T) \in Nat
      /\ \A s \in SUBSET T : IsFiniteSet(s) /\ Cardinality(s) \in 0..Cardinality(T)
  <2>1. IsFiniteSet(T)
    BY <1>2, KeyAssumption, FS_Subset
  <2>2. \A s \in SUBSET T : IsFiniteSet(s) /\ Cardinality(s) <= Cardinality(T)
    BY <2>1, FS_Subset
  <2>3. Cardinality(T) \in Nat /\ \A s \in SUBSET T : Cardinality(s) \in Nat
    BY <2>1, <2>2, FS_CardinalityType
  <2> QED
    BY <2>1, <2>2, <2>3
<1>9. r \in Ranking
  BY DEF Listed, Links
<1>10. Good({})
  <2>1. Lru!Without(r, {}) = r
    BY <1>9, NothingCut
  <2>2. fold[{}] = cache
    BY <1>7
  <2>3. Follows(r, r)
    BY DEF Follows, Lru!InOrderOf
  <2>4. /\ cache.memory = [x \in D \ {} |-> cache.memory[x]]
        /\ cache.event = [x \in D \ {} |-> cache.event[x]]
    BY <1>2
  <2> QED
    BY <1>9, <2>1, <2>2, <2>3, <2>4
<1>11. ASSUME NEW s \in SUBSET T, s # {}, \A u \in SUBSET T : Cardinality(u) < Cardinality(s) => Good(u)
       PROVE  Good(s)
  <2> DEFINE k == Chosen(s)
             u == s \ {k}
             w == Lru!Without(r, u)
             c == fold[u]
  <2>1. k \in s /\ u \in SUBSET T /\ s = u \union {k} /\ k \notin u /\ k \in Key /\ k \in D
    BY <1>2, <1>11 DEF Chosen
  <2>2. Cardinality(u) < Cardinality(s)
    BY <1>8, <2>1, FS_RemoveElement
  <2>3. Good(u)
    BY <1>11, <2>1, <2>2
  <2>4. fold[s] = Expired(c, k)
    BY <1>7, <1>11
  <2> HIDE DEF u, k
  <2>5. Leaves(r, s, Lru!Without(w, {k}))
    <3>1. Leaves(r, u, w)
      BY <2>3 DEF Leaves
    <3> HIDE DEF w
    <3>2. s = u \union {k}
      BY <2>1
    <3> QED
      BY <1>9, <3>1, <3>2, WithoutMore
  <2>6. /\ Sound(fold[s]) /\ Listed(fold[s], Lru!Without(r, s))
        /\ fold[s].memory = [x \in DOMAIN c.memory \ {k} |-> c.memory[x]]
        /\ fold[s].event = [x \in DOMAIN c.memory \ {k} |-> c.event[x]]
    <3> HIDE DEF c
    <3>1. Sound(c) /\ Listed(c, w)
      BY <2>3 DEF c
    <3>2. Lru!Without(w, {k}) = Lru!Without(r, s)
      BY <2>5, Zenon DEF Leaves
    <3> QED
      BY <2>1, <2>4, <3>1, <3>2, ExpiredFacts
  <2>7. DOMAIN c.memory = D \ u /\ (D \ u) \ {k} = D \ s /\ k \in D \ u
        /\ \A x \in D \ u : c.memory[x] = cache.memory[x] /\ c.event[x] = cache.event[x]
    BY <2>1, <2>3
  <2>8. /\ fold[s].memory = [x \in D \ s |-> cache.memory[x]]
        /\ fold[s].event = [x \in D \ s |-> cache.event[x]]
    BY <2>6, <2>7
  <2>10. /\ Lru!Without(r, s) \in Ranking /\ Follows(Lru!Without(r, s), r)
         /\ ToSet(Lru!Without(r, s)) = ToSet(r) \ s
    BY <2>5, Zenon DEF Leaves
  <2>11. Drift(fold[s]) = Drift(cache)
    <3>1. c \in SoundCache /\ Drift(c) = Drift(cache)
      BY <2>3, SoundCacheIs
    <3> HIDE DEF c
    <3> QED
      BY <2>1, <2>4, <3>1, ExpiredDrift
  <2> QED
    BY <2>6, <2>8, <2>10, <2>11
<1>12. ASSUME bad # {} PROVE FALSE
  <2> HIDE DEF Good
  <2>1. PICK n \in bad : \A j \in bad : n <= j
    <3>1. bad \in SUBSET Nat
      OBVIOUS
    <3> HIDE DEF bad
    <3> QED
      BY <1>12, <3>1, Least
  <2>2. PICK s \in SUBSET T : Cardinality(s) = n /\ ~Good(s)
    BY <2>1
  <2>3. \A u \in SUBSET T : Cardinality(u) < Cardinality(s) => Good(u)
    BY <1>8, <2>1, <2>2
  <2> QED
    BY <1>10, <1>11, <2>2, <2>3
<1>13. Good(T)
  <2> HIDE DEF Good
  <2> QED
    BY <1>8, <1>12
<1>14. /\ Sound(AfterEvent(e)) /\ Listed(AfterEvent(e), Lru!Without(r, T))
       /\ AfterEvent(e).memory = [x \in D \ T |-> cache.memory[x]]
       /\ AfterEvent(e).event = [x \in D \ T |-> cache.event[x]]
       /\ Drift(AfterEvent(e)) = Drift(cache)
       /\ ToSet(Lru!Without(r, T)) = ToSet(r) \ T
  BY <1>1, <1>13
<1> QED
  BY <1>14, Zenon DEF T, D

-----------------------------------------------------------------------------
(* The order that following next yields *)

LEMMA SequenceIs ==
    ASSUME NEW V, NEW n \in Nat, NEW f \in [1..n -> V]
    PROVE  f \in Seq(V) /\ Len(f) = n
  OBVIOUS

LEMMA SameSequence ==
    ASSUME NEW V, NEW a \in Seq(V), NEW b \in Seq(V), NEW n, Len(a) = n, Len(b) = n,
           \A i \in 1..n : a[i] = b[i]
    PROVE  a = b
  OBVIOUS

LEMMA AppendIs ==
    ASSUME NEW V, NEW s \in Seq(V), NEW n \in Nat, Len(s) = n, NEW x \in V
    PROVE  /\ Append(s, x) \in Seq(V) /\ Len(Append(s, x)) = n + 1 /\ Append(s, x)[n + 1] = x
           /\ \A i \in 1..n : Append(s, x)[i] = s[i]
  OBVIOUS

Firsts(r, m) == [i \in 1..m |-> r[i]]

LEMMA OrderIs ==
    ASSUME NEW c, NEW r, Links(c, r)
    PROVE  Order(c) = r
<1> DEFINE N == Cardinality(Key)
           L == Len(r)
           F(q) == [n \in 0..N |->
                      IF n = 0 THEN IF c.oldest = Nil THEN <<>> ELSE <<c.oldest>>
                      ELSE IF q[n - 1] = <<>> \/ c.next[q[n - 1][Len(q[n - 1])]] = Nil
                           THEN q[n - 1]
                           ELSE Append(q[n - 1], c.next[q[n - 1][Len(q[n - 1])]])]
           run == CHOOSE q : q = F(q)
           m(n) == IF n < L THEN n + 1 ELSE L
           g == [n \in 0..N |-> Firsts(r, m(n))]
<1>1. Order(c) = run[N]
  BY Zenon DEF Order
<1> HIDE DEF N
<1>2. /\ r \in Ranking /\ L \in Nat /\ N \in Nat /\ L <= N /\ r \in Seq(Key)
      /\ \A i \in 1..L : r[i] \in Key
      /\ r = [i \in 1..L |-> r[i]]
  BY RankingType, RankingCount DEF N, Links, Ranking
<1>3. /\ c.oldest = (IF L = 0 THEN Nil ELSE r[1])
      /\ \A i \in 1..L : c.next[r[i]] = (IF i = L THEN Nil ELSE r[i + 1])
      /\ Nil \notin Key
  BY NilAssumption DEF Links
<1> HIDE DEF L
<1>4. \A n \in 0..L : /\ Firsts(r, n) \in Seq(Key) /\ Len(Firsts(r, n)) = n
                      /\ \A i \in 1..n : Firsts(r, n)[i] = r[i]
  <2> TAKE n \in 0..L
  <2>1. \A i \in 1..n : i \in 1..L
    BY <1>2
  <2>2. Firsts(r, n) \in [1..n -> Key]
    BY <1>2, <2>1 DEF Firsts
  <2>3. \A i \in 1..n : Firsts(r, n)[i] = r[i]
    BY DEF Firsts
  <2>4. n \in Nat
    BY <1>2
  <2> QED
    BY <2>2, <2>3, <2>4, SequenceIs
<1>5. \A n \in Nat : m(n) \in 0..L
  BY <1>2
<1> DEFINE G(q, n) == IF q[n - 1] = <<>> \/ c.next[q[n - 1][Len(q[n - 1])]] = Nil
                      THEN q[n - 1]
                      ELSE Append(q[n - 1], c.next[q[n - 1][Len(q[n - 1])]])
           S == IF c.oldest = Nil THEN <<>> ELSE <<c.oldest>>
<1>6. S = Firsts(r, m(0))
  <2>1. CASE L = 0
    <3>1. S = <<>> /\ m(0) = 0
      BY <1>2, <1>3, <2>1
    <3>2. Firsts(r, 0) = <<>>
      <4>1. Firsts(r, 0) \in Seq(Key) /\ Len(Firsts(r, 0)) = 0
        BY <1>2, <1>4
      <4> QED
        BY <4>1
    <3> QED
      BY <3>1, <3>2
  <2>2. CASE L # 0
    <3>1. 1 \in 1..L /\ m(0) = 1 /\ 1 \in 0..L
      BY <1>2, <2>2
    <3>2. S = <<r[1]>>
      BY <1>2, <1>3, <2>2, <3>1
    <3>3. Firsts(r, 1) \in Seq(Key) /\ Len(Firsts(r, 1)) = 1 /\ Firsts(r, 1)[1] = r[1]
      <4>1. 1 \in 1..1
        OBVIOUS
      <4> HIDE DEF m, S
      <4> QED
        BY <1>4, <3>1, <4>1
    <3>4. Firsts(r, 1) = <<r[1]>>
      BY <3>3
    <3> QED
      BY <3>1, <3>2, <3>4
  <2> QED
    BY <2>1, <2>2
<1>7. ASSUME NEW q, NEW n \in 1..N, q[n - 1] = Firsts(r, m(n - 1))
      PROVE  G(q, n) = Firsts(r, m(n))
  <2> DEFINE p == m(n - 1)
             s == Firsts(r, p)
  <2>1. p \in 0..L /\ p \in Nat
    BY <1>2, <1>5
  <2>2. s \in Seq(Key) /\ Len(s) = p /\ \A i \in 1..p : s[i] = r[i]
    BY <1>4, <2>1
  <2>3. CASE n < L
    <3>1. p = n /\ m(n) = n + 1 /\ n \in 1..L /\ n # L /\ n + 1 \in 1..L /\ n + 1 \in 0..L
      BY <1>2, <2>3
    <3> HIDE DEF p, s, m
    <3>2. s[p] = r[n] /\ s # <<>>
      BY <2>2, <3>1
    <3>3. c.next[s[p]] = r[n + 1] /\ r[n + 1] # Nil
      BY <1>2, <1>3, <3>1, <3>2
    <3>4. G(q, n) = Append(s, r[n + 1])
      BY <1>7, <2>2, <3>2, <3>3 DEF s, p
    <3>5. Append(s, r[n + 1]) = Firsts(r, n + 1)
      <4> DEFINE a == Append(s, r[n + 1])
                 b == Firsts(r, n + 1)
      <4>1. /\ a \in Seq(Key) /\ Len(a) = n + 1 /\ a[n + 1] = r[n + 1]
            /\ \A i \in 1..n : a[i] = r[i]
        <5>1. r[n + 1] \in Key /\ Len(s) = n /\ n \in Nat
          BY <1>2, <2>2, <3>1
        <5>2. \A i \in 1..n : s[i] = r[i]
          BY <2>2, <3>1
        <5> HIDE DEF G, g, S
        <5> QED
          BY <2>2, <5>1, <5>2, AppendIs
      <4>2. b \in Seq(Key) /\ Len(b) = n + 1 /\ \A i \in 1..(n + 1) : b[i] = r[i]
        BY <1>4, <3>1
      <4> HIDE DEF a, b
      <4>3. \A i \in 1..(n + 1) : a[i] = b[i]
        BY <4>1, <4>2
      <4>4. a = b
        BY <4>1, <4>2, <4>3, SameSequence
      <4> QED
        BY <4>4 DEF a, b
    <3> QED
      BY <3>1, <3>4, <3>5
  <2>4. CASE n >= L
    <3>1. p = L /\ m(n) = L
      BY <1>2, <2>4
    <3> HIDE DEF p, s, m
    <3>2. s = <<>> \/ c.next[s[p]] = Nil
      <4>1. L = 0 => s = <<>>
        BY <2>2, <3>1
      <4>2. L # 0 => c.next[s[p]] = Nil
        BY <1>2, <1>3, <2>2, <3>1
      <4> QED
        BY <4>1, <4>2
    <3>3. G(q, n) = s
      BY <1>7, <2>2, <3>2 DEF s, p
    <3> QED
      BY <3>1, <3>3 DEF s
  <2> QED
    BY <1>2, <2>3, <2>4
<1>8. \A q : F(q) = [n \in 0..N |-> IF n = 0 THEN S ELSE G(q, n)]
  BY Zenon
<1> HIDE DEF F, S, G, m
<1>9. g = F(g)
  <2>1. \A n \in 0..N : g[n] = IF n = 0 THEN S ELSE G(g, n)
    <3> TAKE n \in 0..N
    <3>1. CASE n = 0
      BY <1>6, <3>1
    <3>2. CASE n # 0
      <4>1. n \in 1..N /\ n - 1 \in 0..N
        BY <1>2, <3>2
      <4>2. g[n - 1] = Firsts(r, m(n - 1))
        BY <4>1
      <4> QED
        BY <1>7, <3>2, <4>1, <4>2
    <3> QED
      BY <3>1, <3>2
  <2>2. g = [n \in 0..N |-> g[n]]
    OBVIOUS
  <2> HIDE DEF g
  <2> QED
    BY <1>8, <2>1, <2>2
<1>10. run = F(run)
  <2> HIDE DEF g
  <2> QED
    BY <1>9
<1> HIDE DEF run, g
<1>11. \A n \in 0..N : run[n] = IF n = 0 THEN S ELSE G(run, n)
  <2>1. run = [n \in 0..N |-> IF n = 0 THEN S ELSE G(run, n)]
    BY <1>8, <1>10
  <2> QED
    BY <2>1
<1> DEFINE bad == {n \in 0..N : run[n] # Firsts(r, m(n))}
<1>12. ASSUME bad # {} PROVE FALSE
  <2>1. PICK n \in bad : \A j \in bad : n <= j
    <3>1. bad \in SUBSET Nat
      OBVIOUS
    <3> HIDE DEF bad
    <3> QED
      BY <1>12, <3>1, Least
  <2>2. n \in 0..N /\ run[n] # Firsts(r, m(n))
    BY <2>1
  <2>3. n # 0
    BY <1>6, <1>11, <2>2
  <2>4. n \in 1..N /\ n - 1 \in 0..N /\ n - 1 \notin bad
    <3> HIDE DEF bad
    <3> QED
      BY <1>2, <2>1, <2>2, <2>3
  <2>5. run[n - 1] = Firsts(r, m(n - 1))
    BY <2>4
  <2>6. run[n] = G(run, n)
    BY <1>11, <2>2, <2>3
  <2> QED
    BY <1>7, <2>2, <2>4, <2>5, <2>6
<1>13. run[N] = Firsts(r, m(N))
  <2>1. N \in 0..N
    BY <1>2
  <2> QED
    BY <1>12, <2>1
<1>14. m(N) = L
  BY <1>2 DEF m
<1>15. Firsts(r, L) = r
  BY <1>2 DEF Firsts
<1> QED
  BY <1>1, <1>13, <1>14, <1>15

-----------------------------------------------------------------------------
(* Every size *)

CacheInv ==
    /\ cache \in SoundCache
    /\ reply.raised \in {"no", "L1CacheMiss", "AssertionError", "AttributeError"}

LEMMA EmptySound == Empty \in SoundCache /\ Links(Empty, <<>>) /\ DOMAIN Empty.memory = {}
<1> DEFINE none == [x \in {} |-> Nil]
           nil == [k \in Key |-> Nil]
<1>1. << >> = none
  OBVIOUS
<1>2. \A V : none \in MapsTo(V)
  <2> TAKE V
  <2>1. none \in [{} -> V] /\ {} \in SUBSET Key
    OBVIOUS
  <2> HIDE DEF none
  <2> QED
    BY <2>1, OfSomeKeys
<1>3. nil \in [Key -> Key \union {Nil}] /\ \A k \in Key : nil[k] = Nil
  OBVIOUS
<1> DEFINE c == [memory |-> none, event |-> none, size |-> 0, prev |-> nil, next |-> nil,
                 oldest |-> Nil, newest |-> Nil]
<1>4. Empty = c
  BY <1>1 DEF Empty
<1>5. DOMAIN none = {}
  OBVIOUS
<1> HIDE DEF none, nil
<1>6. /\ c \in CacheRec /\ c.prev = nil /\ c.next = nil /\ c.oldest = Nil /\ c.newest = Nil
      /\ c.memory = none /\ c.event = none
  BY <1>2, <1>3 DEF CacheRec
<1>7. <<>> \in Ranking /\ ToSet(<<>>) = {} /\ Len(<<>>) = 0
  BY DEF Ranking, ToSet
<1> HIDE DEF c
<1>8. Links(c, <<>>)
  BY <1>3, <1>6, <1>7 DEF Links
<1>9. Sound(c) /\ Listed(c, <<>>)
  BY <1>5, <1>6, <1>7, <1>8 DEF Sound, Listed
<1> QED
  BY <1>4, <1>5, <1>6, <1>8, <1>9, SoundCacheIs

LEMMA CacheStepKeeps == ASSUME CacheInv, [Next]_vars PROVE CacheInv'
<1> USE DEF CacheInv
<1>1. Sound(cache)
  BY SoundCacheIs
<1>2. PICK r : Listed(cache, r)
  BY SoundCacheIs
<1>3. ASSUME NEW k \in Key, NEW v \in Value, NEW e \in EventClass \union {Nil}, Insert(k, v, e)
      PROVE  CacheInv'
  <2>1. CASE Size[v] > Limit
    BY <1>3, <2>1 DEF Insert, Nothing
  <2>2. CASE ~(Size[v] > Limit)
    <3> DEFINE d == Appended(Logged(cache, k, v, e), k)
    <3>1. d \in SoundCache
      <4>1. e \in Label
        BY DEF Label
      <4> QED
        BY <1>1, <1>2, <4>1, InsertedFacts, SoundCacheIs DEF Inserted
    <3>2. cache' = Rounds(d).c /\ reply'.raised \in {"no", "AttributeError"}
      <4> HIDE DEF CacheInv
      <4> QED
        BY <1>3, <2>2 DEF Insert
    <3> HIDE DEF d
    <3> QED
      BY <3>1, <3>2, RoundsSound
  <2> QED
    BY <2>1, <2>2
<1>4. ASSUME NEW k \in Key, Get(k) PROVE CacheInv'
  <2> DEFINE d == RemoveEntry(cache, k)
  <2>1. CASE k \notin DOMAIN cache.memory
    BY <1>4, <2>1 DEF Get, Nothing
  <2>2. CASE k \in DOMAIN cache.memory
    <3>1. /\ Sound(d) /\ \E s : Listed(d, s)
          /\ d.newest # Nil => Sound(MakeNewest(d, k)) /\ \E s : Listed(MakeNewest(d, k), s)
      BY <1>1, <1>2, <2>2, TouchedFacts
    <3>2. \/ cache' = d
          \/ d.newest # Nil /\ cache' = MakeNewest(d, k)
      BY <1>4, <2>2 DEF Get
    <3>3. reply'.raised \in {"no", "AssertionError"}
      BY <1>4, <2>2 DEF Get, Nothing
    <3> HIDE DEF d
    <3> QED
      BY <3>1, <3>2, <3>3, SoundCacheIs
  <2> QED
    BY <2>1, <2>2
<1>5. ASSUME NEW k \in Key, Expire(k) PROVE CacheInv'
  <2>1. cache' = Expired(cache, k) /\ reply'.raised = "no"
    BY <1>5 DEF Expire, Nothing
  <2>2. Expired(cache, k) \in SoundCache
    BY <1>1, <1>2, ExpiredFacts, SoundCacheIs
  <2> QED
    BY <2>1, <2>2
<1>6. \A e : AfterEvent(e) \in SoundCache
  BY <1>1, <1>2, AfterEventFacts, SoundCacheIs
<1>7. ASSUME NEW e \in EventClass, Event(e) \/ Publish(e) PROVE CacheInv'
  <2>1. (\E x : cache' = AfterEvent(x)) /\ reply'.raised = "no"
    BY <1>7 DEF Event, Publish, Nothing
  <2> QED
    BY <1>6, <2>1
<1>8. CASE Clear
  <2>1. cache' = Empty /\ reply'.raised = "no"
    BY <1>8 DEF Clear, Nothing
  <2> QED
    BY <2>1, EmptySound
<1>9. CASE UNCHANGED vars
  BY <1>9 DEF vars
<1> QED
  BY <1>3, <1>4, <1>5, <1>7, <1>8, <1>9 DEF Next

(* In every state prev, next, oldest_entry and newest_entry of             *)
(* bw/cache/l1.py hold one sequence of different entries, all of which are *)
(* in the maps, whatever the sizes and the limit.                          *)
THEOREM CacheInvariant == Spec => []CacheInv
<1>1. Init => CacheInv
  BY EmptySound DEF Init, CacheInv, Nothing
<1>2. CacheInv /\ [Next]_vars => CacheInv'
  BY CacheStepKeeps
<1> QED
  BY <1>1, <1>2, PTL DEF Spec

LEMMA CacheInvTyped == CacheInv => TypeOK
<1> SUFFICES ASSUME CacheInv PROVE TypeOK
  OBVIOUS
<1>1. cache \in CacheRec /\ DOMAIN cache.event = DOMAIN cache.memory
  BY SoundCacheIs DEF CacheInv, Sound
<1>2. cache.memory \in UNION {[K -> Value] : K \in SUBSET Key}
  BY <1>1 DEF CacheRec, MapsTo
<1>3. cache.event \in [DOMAIN cache.memory -> EventClass \union {Nil}]
  BY <1>1, CacheType DEF Label
<1> QED
  BY <1>1, <1>2, <1>3, CacheType DEF CacheInv, TypeOK

(* The cache keeps its fields: every key that is mapped has a value, and   *)
(* an event or none; the list leads from entries to entries.               *)
THEOREM CacheTypeCorrect == Spec => []TypeOK
  BY CacheInvariant, CacheInvTyped, PTL

-----------------------------------------------------------------------------
(* How far the counted size is off when sizes differ *)

(* No key is larger than a value that is stored. *)
SmallKeys == \A k \in Key, v \in Value : Size[k] <= Size[v]

(* The counted size covers the cached keys. *)
CountCoversKeys == KeySizes(DOMAIN cache.memory) <= cache.size

(* Only clear takes back what the counted size exceeds the keys by. *)
DriftOnlyGrows == [][cache' = Empty \/ Drift(cache') >= Drift(cache)]_vars

LEMMA DriftIsNumber ==
    ASSUME NEW c \in SoundCache
    PROVE  Drift(c) \in Int /\ c.size \in Int /\ KeySizes(DOMAIN c.memory) \in Nat
<1>1. c.size \in Int /\ DOMAIN c.memory \in SUBSET Key
  BY SoundCacheIs, CacheType DEF Sound
<1> QED
  BY <1>1, UnitsOf DEF Drift

(* A new value counts with its size, unless the key has one already. *)
LEMMA NewValue ==
    ASSUME NEW c \in SoundCache, NEW k \in Key, NEW v \in Value,
           NEW e \in EventClass \union {Nil}
    PROVE  LET d == Appended(Logged(c, k, v, e), k) IN
           /\ d \in SoundCache
           /\ DOMAIN d.memory = DOMAIN c.memory \union {k}
           /\ d.size = (IF k \in DOMAIN c.memory THEN c.size ELSE c.size + Size[v])
<1> DEFINE d == Appended(Logged(c, k, v, e), k)
           D == DOMAIN c.memory
<1>1. Sound(c)
  BY SoundCacheIs
<1>2. PICK r : Listed(c, r)
  BY SoundCacheIs
<1> DEFINE s == Append(Lru!Without(r, {k}), k)
<1>3. /\ Sound(d) /\ Listed(d, s)
      /\ d.memory = [x \in D \union {k} |-> IF x = k THEN v ELSE c.memory[x]]
      /\ d.size = (IF k \in D THEN c.size ELSE c.size + Size[v])
  <2>1. e \in Label
    BY DEF Label
  <2> QED
    <3>1. Inserted(c, r, k, v, e, d)
      BY <1>1, <1>2, <2>1, InsertedFacts
    <3> HIDE DEF d
    <3> QED
      BY <3>1, Zenon DEF Inserted
<1> HIDE DEF d, s
<1>4. d \in SoundCache
  BY <1>3, SoundCacheIs
<1>5. DOMAIN d.memory = D \union {k}
  BY <1>3
<1> QED
  BY <1>3, <1>4, <1>5 DEF d

LEMMA DriftStep ==
    ASSUME SmallKeys, CacheInv, [Next]_vars
    PROVE  cache' = Empty \/ Drift(cache') >= Drift(cache)
<1>1. Sound(cache) /\ cache \in SoundCache
  BY SoundCacheIs DEF CacheInv
<1>2. PICK r : Listed(cache, r)
  BY <1>1, SoundCacheIs
<1>3. Drift(cache) \in Int
  BY <1>1, DriftIsNumber
<1>4. ASSUME Drift(cache') = Drift(cache) PROVE Drift(cache') >= Drift(cache)
  BY <1>3, <1>4
<1>5. ASSUME NEW k \in Key, NEW v \in Value, NEW e \in EventClass \union {Nil}, Insert(k, v, e)
      PROVE  Drift(cache') >= Drift(cache)
  <2>1. CASE Size[v] > Limit
    <3>1. cache' = cache
      BY <1>5, <2>1 DEF Insert
    <3> QED
      BY <1>4, <3>1
  <2>2. CASE ~(Size[v] > Limit)
    <3> DEFINE d == Appended(Logged(cache, k, v, e), k)
               D == DOMAIN cache.memory
    <3>1. cache' = Rounds(d).c
      BY <1>5, <2>2 DEF Insert
    <3>2. /\ d \in SoundCache /\ DOMAIN d.memory = D \union {k}
          /\ d.size = (IF k \in D THEN cache.size ELSE cache.size + Size[v])
      BY <1>1, NewValue
    <3> HIDE DEF d
    <3>4. Drift(cache') = Drift(d)
      BY <3>1, <3>2, RoundsDrift
    <3>5. D \in SUBSET Key /\ cache.size \in Int /\ KeySizes(D) \in Nat
      BY <1>1, DriftIsNumber, CacheType DEF Sound
    <3>6. Drift(cache) = cache.size - KeySizes(D)
      BY DEF Drift
    <3>7. Drift(d) = d.size - KeySizes(D \union {k})
      BY <3>2 DEF Drift
    <3> HIDE DEF D
    <3>8. CASE k \in D
      <4>1. D \union {k} = D
        BY <3>8
      <4>2. Drift(d) = Drift(cache)
        BY <3>2, <3>6, <3>7, <3>8, <4>1
      <4> QED
        BY <1>4, <3>4, <4>2
    <3>9. CASE k \notin D
      <4>1. KeySizes(D \union {k}) = KeySizes(D) + Size[k]
        BY <3>5, <3>9, OneKeyMore
      <4>2. Size[k] \in Nat /\ Size[v] \in Nat /\ Size[k] <= Size[v]
        BY SizeAssumption DEF SmallKeys
      <4>3. d.size = cache.size + Size[v]
        BY <3>2, <3>9
      <4> QED
        BY <3>4, <3>5, <3>6, <3>7, <4>1, <4>2, <4>3
    <3> QED
      BY <3>8, <3>9
  <2> QED
    BY <2>1, <2>2
<1>6. ASSUME NEW k \in Key, Get(k) PROVE Drift(cache') >= Drift(cache)
  <2>1. cache'.memory = cache.memory /\ cache'.size = cache.size
    <3>1. CASE k \notin DOMAIN cache.memory
      BY <1>6, <3>1 DEF Get
    <3>2. CASE k \in DOMAIN cache.memory
      <4> DEFINE d == RemoveEntry(cache, k)
                 m == MakeNewest(d, k)
      <4>1. /\ d.memory = cache.memory /\ d.size = cache.size
            /\ d.newest # Nil => m.memory = cache.memory /\ m.size = cache.size
        BY <1>1, <1>2, <3>2, TouchedFacts
      <4>2. \/ cache' = d
            \/ d.newest # Nil /\ cache' = m
        BY <1>6, <3>2 DEF Get
      <4> HIDE DEF d, m
      <4> QED
        BY <4>1, <4>2
    <3> QED
      BY <3>1, <3>2
  <2>2. Drift(cache') = Drift(cache)
    BY <2>1 DEF Drift
  <2> QED
    BY <1>4, <2>2
<1>7. ASSUME NEW k \in Key, Expire(k) PROVE Drift(cache') >= Drift(cache)
  <2>1. cache' = Expired(cache, k)
    BY <1>7 DEF Expire
  <2> QED
    BY <1>1, <1>4, <2>1, ExpiredDrift
<1>8. ASSUME NEW e \in EventClass, Event(e) \/ Publish(e) PROVE Drift(cache') >= Drift(cache)
  <2>1. PICK x : cache' = AfterEvent(x)
    BY <1>8 DEF Event, Publish
  <2>2. Drift(AfterEvent(x)) = Drift(cache)
    BY <1>1, <1>2, AfterEventFacts
  <2> QED
    BY <1>4, <2>1, <2>2
<1>9. CASE Clear
  BY <1>9 DEF Clear
<1>10. CASE UNCHANGED vars
  <2>1. cache' = cache
    BY <1>10 DEF vars
  <2> QED
    BY <1>4, <2>1
<1> QED
  BY <1>5, <1>6, <1>7, <1>8, <1>9, <1>10 DEF Next

LEMMA DriftOfEmpty == Drift(Empty) = 0
<1>1. Units({}) = {}
  BY DEF Units
<1>2. KeySizes({}) = 0
  BY <1>1, FS_EmptySet DEF KeySizes
<1>3. Empty.size = 0 /\ DOMAIN Empty.memory = {}
  BY EmptySound DEF Empty
<1> QED
  BY <1>2, <1>3 DEF Drift

(* insert counts the size of the value and expire gives back that of the   *)
(* key: if keys are never larger than values, the counted size never falls *)
(* below the size of the keys that are cached, so it is not negative and   *)
(* the limit bounds how many entries there can be.                         *)
THEOREM CountCoversKeysCorrect == SmallKeys /\ Spec => []CountCoversKeys
<1> DEFINE I == CacheInv /\ Drift(cache) >= 0
<1> SUFFICES ASSUME SmallKeys PROVE Spec => []CountCoversKeys
  OBVIOUS
<1>1. Init => I
  <2>1. Init => CacheInv
    BY EmptySound DEF Init, CacheInv, Nothing
  <2>2. Init => Drift(cache) >= 0
    BY DriftOfEmpty DEF Init
  <2> QED
    BY <2>1, <2>2
<1>2. I /\ [Next]_vars => I'
  <2> SUFFICES ASSUME I, [Next]_vars PROVE I'
    OBVIOUS
  <2>1. CacheInv'
    BY CacheStepKeeps
  <2>2. cache' = Empty \/ Drift(cache') >= Drift(cache)
    BY DriftStep
  <2>3. Drift(cache') \in Int /\ Drift(cache) \in Int
    BY <2>1, DriftIsNumber DEF CacheInv
  <2> QED
    BY <2>1, <2>2, <2>3, DriftOfEmpty
<1>3. I => CountCoversKeys
  BY DriftIsNumber DEF CountCoversKeys, Drift, CacheInv
<1> HIDE DEF I
<1> QED
  BY <1>1, <1>2, <1>3, PTL DEF Spec

(* What the counted size is too large by never shrinks again until clear:  *)
(* no expiry, event or eviction gives it back.                             *)
THEOREM DriftOnlyGrowsCorrect == SmallKeys /\ Spec => DriftOnlyGrows
<1> SUFFICES ASSUME SmallKeys PROVE Spec => DriftOnlyGrows
  OBVIOUS
<1>1. CacheInv /\ [Next]_vars => [cache' = Empty \/ Drift(cache') >= Drift(cache)]_vars
  BY DriftStep
<1> QED
  BY <1>1, CacheInvariant, PTL DEF Spec, DriftOnlyGrows

-----------------------------------------------------------------------------
(* What the eviction drops *)

(* The n oldest of a ranking taken out: the others follow as before.       *)
LEMMA OldestOut ==
    ASSUME NEW s \in Ranking, NEW m \in 0..Len(s)
    PROVE  LET K == Lru!Oldest(s, m)
               w == Lru!Without(s, K)
           IN  /\ K \subseteq ToSet(s) /\ K \in SUBSET Key /\ Leaves(s, K, w)
               /\ Len(w) = Len(s) - m
               /\ m < Len(s) => /\ w[1] = s[m + 1] /\ s[m + 1] \in Key \ K
                                /\ Lru!Oldest(s, m + 1) = K \union {s[m + 1]}
<1> DEFINE n == Len(s)
           K == Lru!Oldest(s, m)
           rest == [j \in 1..(n - m) |-> s[j + m]]
<1>1. /\ n \in Nat /\ m \in 0..n /\ DOMAIN s = 1..n
      /\ \A i \in 1..n : s[i] \in Key /\ s[i] \in ToSet(s)
      /\ \A i, j \in 1..n : s[i] = s[j] => i = j
      /\ \A k \in ToSet(s) : \E i \in 1..n : s[i] = k
  BY RankingType
<1> HIDE DEF n
<1>2. K = {s[i] : i \in 1..m}
  BY DEF Lru!Oldest
<1>3. \A j \in 1..(n - m) : j + m \in 1..n /\ rest[j] = s[j + m]
  BY <1>1
<1>4. rest \in Seq(Key) /\ Len(rest) = n - m /\ DOMAIN rest = 1..(n - m)
  <2>1. rest \in [1..(n - m) -> Key] /\ n - m \in Nat
    BY <1>1, <1>3
  <2> HIDE DEF rest
  <2> QED
    BY <2>1, SequenceIs
<1> HIDE DEF rest, K
<1>5. K \subseteq ToSet(s) /\ K \in SUBSET Key
  <2>1. \A i \in 1..m : i \in 1..n
    BY <1>1
  <2> QED
    BY <1>1, <1>2, <2>1
<1>6. rest \in Ranking
  <2>1. ASSUME NEW i \in 1..(n - m), NEW j \in 1..(n - m), rest[i] = rest[j] PROVE i = j
    BY <1>1, <1>3, <2>1
  <2> QED
    BY <1>4, <2>1 DEF Ranking
<1>7. ToSet(rest) = ToSet(s) \ K
  <2>1. ASSUME NEW j \in 1..(n - m) PROVE rest[j] \in ToSet(s) \ K
    <3>1. \A i \in 1..m : i \in 1..n /\ i # j + m
      BY <1>1
    <3> QED
      BY <1>1, <1>2, <1>3, <3>1
  <2>2. ASSUME NEW k \in ToSet(s) \ K PROVE \E j \in 1..(n - m) : rest[j] = k
    <3>1. PICK i \in 1..n : s[i] = k
      BY <1>1
    <3>2. i \notin 1..m
      BY <1>2, <2>2, <3>1
    <3>3. i - m \in 1..(n - m) /\ (i - m) + m = i
      BY <1>1, <3>2
    <3> QED
      BY <1>3, <3>1, <3>3
  <2> QED
    BY <1>4, <2>1, <2>2 DEF ToSet
<1>8. Follows(rest, s)
  <2> SUFFICES ASSUME NEW i \in 1..(n - m), NEW j \in 1..(n - m), i < j
               PROVE  Lru!InOrderOf(s, rest[i], rest[j])
    BY <1>4 DEF Follows
  <2>1. i + m < j + m /\ i + m \in DOMAIN s /\ j + m \in DOMAIN s
    BY <1>1, <1>3
  <2> QED
    BY <1>3, <2>1 DEF Lru!InOrderOf
<1>9. Lru!Without(s, K) = rest
  BY <1>6, <1>7, <1>8, WithoutIs
<1>10. Leaves(s, K, rest)
  BY <1>6, <1>7, <1>8, <1>9 DEF Leaves
<1>11. ASSUME m < n
       PROVE  /\ rest[1] = s[m + 1] /\ s[m + 1] \in Key \ K
              /\ Lru!Oldest(s, m + 1) = K \union {s[m + 1]}
  <2>1. 1 \in 1..(n - m) /\ 1 + m = m + 1 /\ m + 1 \in 1..n
    BY <1>1, <1>11
  <2>2. s[m + 1] \notin K
    <3>1. \A i \in 1..m : i \in 1..n /\ i # m + 1
      BY <1>1
    <3> QED
      BY <1>1, <1>2, <2>1, <3>1
  <2>3. \A i : i \in 1..(m + 1) <=> i \in 1..m \/ i = m + 1
    BY <1>1
  <2>4. Lru!Oldest(s, m + 1) = {s[i] : i \in 1..(m + 1)}
    BY DEF Lru!Oldest
  <2> QED
    BY <1>1, <1>2, <1>3, <2>1, <2>2, <2>3, <2>4
<1>12. /\ K \subseteq ToSet(s) /\ K \in SUBSET Key /\ Leaves(s, K, Lru!Without(s, K))
       /\ Len(Lru!Without(s, K)) = n - m
       /\ m < n => /\ Lru!Without(s, K)[1] = s[m + 1] /\ s[m + 1] \in Key \ K
                   /\ Lru!Oldest(s, m + 1) = K \union {s[m + 1]}
  BY <1>4, <1>5, <1>9, <1>10, <1>11
<1> QED
  BY <1>12, Zenon DEF K, n

(* x is c without the n oldest of the keys that s ranks. *)
Dropped(c, s, n, x) ==
    /\ Sound(x) /\ Listed(x, Lru!Without(s, Lru!Oldest(s, n)))
    /\ x.memory = [y \in DOMAIN c.memory \ Lru!Oldest(s, n) |-> c.memory[y]]
    /\ x.event = [y \in DOMAIN c.memory \ Lru!Oldest(s, n) |-> c.event[y]]
    /\ x.size = c.size - KeySizes(Lru!Oldest(s, n))

LEMMA NoneDropped ==
    ASSUME NEW c, Sound(c), NEW s, Listed(c, s)
    PROVE  Dropped(c, s, 0, c)
<1>1. s \in Ranking
  BY DEF Listed, Links
<1>2. Lru!Oldest(s, 0) = {}
  BY DEF Lru!Oldest
<1>3. Lru!Without(s, {}) = s
  BY <1>1, NothingCut
<1>4. KeySizes({}) = 0
  <2>1. Units({}) = {}
    BY DEF Units
  <2> QED
    BY <2>1, FS_EmptySet DEF KeySizes
<1>5. /\ c.size \in Int /\ c.memory \in [DOMAIN c.memory -> Value]
      /\ c.event \in [DOMAIN c.memory -> Label]
  BY CacheType DEF Sound
<1>6. /\ c.memory = [y \in DOMAIN c.memory \ {} |-> c.memory[y]]
      /\ c.event = [y \in DOMAIN c.memory \ {} |-> c.event[y]]
      /\ c.size = c.size - 0
  BY <1>5
<1> QED
  BY <1>2, <1>3, <1>4, <1>6 DEF Dropped

LEMMA OneMoreDropped ==
    ASSUME NEW c, Sound(c), NEW s, Listed(c, s), NEW m \in 0..Len(s), m < Len(s),
           NEW x, Dropped(c, s, m, x)
    PROVE  x.oldest # Nil /\ Dropped(c, s, m + 1, Expired(x, x.oldest))
<1> DEFINE K == Lru!Oldest(s, m)
           w == Lru!Without(s, K)
           k == s[m + 1]
           L == Lru!Oldest(s, m + 1)
           D == DOMAIN c.memory
           y == Expired(x, k)
<1>1. s \in Ranking /\ ToSet(s) \subseteq D /\ c.size \in Int /\ Len(s) \in Nat
  BY CacheType, RankingType DEF Sound, Listed, Links
<1>2. /\ K \in SUBSET Key /\ Leaves(s, K, w) /\ Len(w) = Len(s) - m
      /\ w[1] = k /\ k \in Key \ K /\ L = K \union {k}
  BY <1>1, OldestOut, Zenon
<1>3. k \in D
  <2>1. m + 1 \in 1..Len(s)
    BY <1>1
  <2> QED
    BY <1>1, <2>1, RankingType
<1> HIDE DEF w, k, L, K
<1>4. /\ Sound(x) /\ Listed(x, w)
      /\ x.memory = [z \in D \ K |-> c.memory[z]] /\ x.event = [z \in D \ K |-> c.event[z]]
      /\ x.size = c.size - KeySizes(K)
  BY DEF Dropped, K, w
<1>5. x.oldest = k
  <2>1. x.oldest = (IF Len(w) = 0 THEN Nil ELSE w[1])
    BY <1>4 DEF Listed, Links
  <2> QED
    BY <1>1, <1>2, <2>1
<1>6. /\ Sound(y) /\ Listed(y, Lru!Without(w, {k}))
      /\ y.memory = [z \in DOMAIN x.memory \ {k} |-> x.memory[z]]
      /\ y.event = [z \in DOMAIN x.memory \ {k} |-> x.event[z]]
      /\ y.size = (IF k \in DOMAIN x.memory THEN x.size - Size[k] ELSE x.size)
  BY <1>2, <1>4, ExpiredFacts
<1> HIDE DEF y, D
<1>7. Lru!Without(w, {k}) = Lru!Without(s, L)
  <2>1. Leaves(s, L, Lru!Without(w, {k}))
    BY <1>1, <1>2, WithoutMore
  <2> QED
    BY <2>1, Zenon DEF Leaves
<1>8. DOMAIN x.memory = D \ K /\ (D \ K) \ {k} = D \ L /\ k \in D \ K
  BY <1>2, <1>3, <1>4
<1>9. /\ y.memory = [z \in D \ L |-> c.memory[z]] /\ y.event = [z \in D \ L |-> c.event[z]]
  BY <1>4, <1>6, <1>8
<1>10. y.size = c.size - KeySizes(L)
  <2>1. KeySizes(L) = KeySizes(K) + Size[k] /\ KeySizes(K) \in Nat
    BY <1>2, OneKeyMore, UnitsOf
  <2>2. Size[k] \in Nat
    BY <1>2, SizeAssumption
  <2> QED
    BY <1>1, <1>4, <1>6, <1>8, <2>1, <2>2
<1>11. Dropped(c, s, m + 1, y)
  BY <1>6, <1>7, <1>9, <1>10 DEF Dropped, L, D
<1>12. k # Nil
  BY <1>2, NilAssumption
<1> QED
  BY <1>5, <1>11, <1>12 DEF y

(* The eviction drops the oldest entries: as many as it takes to get under *)
(* the limit, or all of them.                                              *)
LEMMA RoundsDrop ==
    ASSUME NEW c, Sound(c), NEW s, Listed(c, s)
    PROVE  \E n \in 0..Len(s) :
              /\ Dropped(c, s, n, Rounds(c).c)
              /\ Rounds(c).c.size <= Limit \/ n = Len(s)
              /\ \A i \in 0..(n - 1) : c.size - KeySizes(Lru!Oldest(s, i)) > Limit
<1> DEFINE N == Cardinality(Key)
           M == Len(s)
           left(i) == c.size - KeySizes(Lru!Oldest(s, i))
           Over(i) == \A j \in 0..(i - 1) : left(j) > Limit
           stops == {i \in 0..M : left(i) <= Limit \/ i = M}
<1>1. /\ N \in Nat /\ M \in 0..N /\ s \in Ranking /\ c \in SoundCache
      /\ c.size \in Int /\ Limit \in Int
  <2>1. s \in Ranking
    BY DEF Listed, Links
  <2>2. M \in Nat /\ M <= N /\ N \in Nat
    BY <2>1, RankingCount, RankingType
  <2> HIDE DEF M, N
  <2> QED
    BY <2>1, <2>2, SoundCacheIs, CacheType, LimitAssumption DEF Sound
<1>2. \A i \in 0..M : left(i) \in Int
  <2> TAKE i \in 0..M
  <2>1. Lru!Oldest(s, i) \in SUBSET Key
    BY <1>1, OldestOut
  <2> QED
    BY <1>1, <2>1, UnitsOf
<1>3. PICK run \in [0..N -> Evictions] :
          /\ Rounds(c) = run[N] /\ run[0] = [c |-> c, popped |-> <<>>]
          /\ \A i \in 1..N : run[i] = Round(run[i - 1])
  BY <1>1, RoundsAreSteps
<1> HIDE DEF N
<1> DEFINE bad == {i \in 0..M : Over(i) /\ ~Dropped(c, s, i, run[i].c)}
<1>4. ASSUME bad # {} PROVE FALSE
  <2>1. PICK i \in bad : \A j \in bad : i <= j
    <3>1. bad \in SUBSET Nat
      BY <1>1
    <3> HIDE DEF bad
    <3> QED
      BY <1>4, <3>1, Least
  <2>2. i \in 0..M /\ Over(i) /\ ~Dropped(c, s, i, run[i].c)
    BY <2>1
  <2>3. i # 0
    <3>1. run[0].c = c
      BY <1>3
    <3> QED
      BY <2>2, <3>1, NoneDropped
  <2> DEFINE j == i - 1
  <2>4. j \in 0..M /\ j < M /\ j < i /\ j + 1 = i /\ i \in 1..N /\ j \notin bad
    <3>1. j \in 0..M /\ j < M /\ j < i /\ j + 1 = i /\ i \in 1..N
      BY <1>1, <2>2, <2>3
    <3> HIDE DEF bad, j
    <3>2. j \notin bad
      BY <1>1, <2>1, <2>2, <3>1
    <3> QED
      BY <3>1, <3>2
  <2>5. Over(j) /\ left(j) > Limit
    BY <1>1, <2>2, <2>4
  <2>6. run[i] = Round(run[j])
    BY <1>3, <2>4
  <2> HIDE DEF j, Over
  <2>7. Dropped(c, s, j, run[j].c)
    BY <2>4, <2>5
  <2> DEFINE x == run[j].c
  <2>8. x.oldest # Nil /\ Dropped(c, s, j + 1, Expired(x, x.oldest))
    <3> HIDE DEF x, M
    <3>1. Dropped(c, s, j, x)
      BY <2>7 DEF x
    <3> QED
      BY <2>4, <3>1, OneMoreDropped DEF M
  <2>9. x.size = left(j)
    BY <2>7 DEF Dropped
  <2>10. ~(x.size <= Limit)
    <3> HIDE DEF x, left
    <3> QED
      BY <1>1, <1>2, <2>4, <2>5, <2>9
  <2>11. run[i].c = Expired(x, x.oldest)
    BY <2>6, <2>8, <2>10 DEF Round
  <2> HIDE DEF x
  <2> QED
    BY <2>2, <2>4, <2>8, <2>11
<1>5. stops \in SUBSET Nat /\ stops # {}
  BY <1>1
<1>6. PICK n \in stops : \A j \in stops : n <= j
  <2> HIDE DEF stops
  <2> QED
    BY <1>5, Least
<1>7. n \in 0..M /\ (left(n) <= Limit \/ n = M)
  BY <1>6
<1>8. Over(n)
  <2> SUFFICES ASSUME NEW j \in 0..(n - 1) PROVE left(j) > Limit
    OBVIOUS
  <2> HIDE DEF left, M
  <2>1. j \in 0..M /\ ~(n <= j) /\ left(j) \in Int
    BY <1>1, <1>2, <1>7
  <2>2. ~(left(j) <= Limit)
    BY <1>6, <2>1
  <2> QED
    BY <1>1, <2>1, <2>2
<1>9. Dropped(c, s, n, run[n].c)
  <2> HIDE DEF Over
  <2> QED
    BY <1>4, <1>7, <1>8
<1>10. Round(run[n]) = run[n]
  <2>1. /\ run[n].c.size = left(n)
        /\ Listed(run[n].c, Lru!Without(s, Lru!Oldest(s, n)))
    BY <1>9 DEF Dropped
  <2>2. CASE left(n) <= Limit
    BY <2>1, <2>2 DEF Round
  <2>3. CASE n = M
    <3>1. Len(Lru!Without(s, Lru!Oldest(s, n))) = Len(s) - n
      BY <1>1, <1>7, OldestOut
    <3>2. Len(Lru!Without(s, Lru!Oldest(s, n))) = 0
      BY <1>1, <2>3, <3>1
    <3>3. run[n].c.oldest = Nil
      BY <2>1, <3>2 DEF Listed, Links
    <3> QED
      BY <3>3 DEF Round
  <2> QED
    BY <1>7, <2>2, <2>3
<1>11. run[N] = run[n]
  <2> DEFINE late == {i \in 0..N : i >= n /\ run[i] # run[n]}
  <2>1. SUFFICES ASSUME late # {} PROVE FALSE
    BY <1>1, <1>7
  <2>2. PICK i \in late : \A m \in late : i <= m
    <3>1. late \in SUBSET Nat
      OBVIOUS
    <3> HIDE DEF late
    <3> QED
      BY <2>1, <3>1, Least
  <2>3. i \in 1..N /\ i - 1 \in 0..N /\ i - 1 \notin late /\ i - 1 >= n
    BY <1>1, <1>7, <2>2
  <2>4. run[i - 1] = run[n]
    BY <2>3
  <2> QED
    BY <1>3, <1>10, <2>2, <2>3, <2>4
<1>12. Dropped(c, s, n, Rounds(c).c) /\ (Rounds(c).c.size <= Limit \/ n = M)
  <2>1. Dropped(c, s, n, Rounds(c).c)
    BY <1>3, <1>9, <1>11
  <2>2. Rounds(c).c.size = left(n)
    BY <2>1 DEF Dropped
  <2> QED
    BY <1>7, <2>1, <2>2
<1> QED
  BY <1>7, <1>8, <1>12

(* What the abstract cache refunds for some keys is the size they count.   *)
LEMMA RefundsAre ==
    ASSUME NEW T \in SUBSET Key
    PROVE  Lru!Refunds(T) = KeySizes(T)
<1> DEFINE F(g) == [s \in SUBSET T |->
                      IF s = {} THEN 0 ELSE g[s \ {Chosen(s)}] + Size[Chosen(s)]]
           fold == CHOOSE g : g = F(g)
           h == [s \in SUBSET T |-> KeySizes(s)]
           bad == {n \in 0..Cardinality(T) :
                     \E s \in SUBSET T : Cardinality(s) = n /\ fold[s] # KeySizes(s)}
<1>1. Lru!Refunds(T) = fold[T]
  BY Zenon DEF Lru!Refunds, Lru!FoldSet, Lru!MapThenFoldSet, Chosen
<1>2. KeySizes({}) = 0
  <2>1. Units({}) = {}
    BY DEF Units
  <2> QED
    BY <2>1, FS_EmptySet DEF KeySizes
<1>3. \A s \in SUBSET T : s # {} =>
          /\ s \ {Chosen(s)} \in SUBSET T
          /\ KeySizes(s) = KeySizes(s \ {Chosen(s)}) + Size[Chosen(s)]
  <2> TAKE s \in SUBSET T
  <2> HAVE s # {}
  <2> DEFINE k == Chosen(s)
             u == s \ {k}
  <2>1. k \in s
    BY DEF Chosen
  <2>2. u \in SUBSET T /\ u \in SUBSET Key /\ k \in Key /\ k \notin u /\ u \union {k} = s
    BY <2>1
  <2> HIDE DEF k, u
  <2>3. KeySizes(u \union {k}) = KeySizes(u) + Size[k]
    BY <2>2, OneKeyMore
  <2> QED
    BY <2>2, <2>3 DEF k, u
<1>4. h = F(h)
  <2>1. \A s \in SUBSET T : h[s] = IF s = {} THEN 0 ELSE h[s \ {Chosen(s)}] + Size[Chosen(s)]
    <3> TAKE s \in SUBSET T
    <3>1. CASE s = {}
      BY <1>2, <3>1
    <3>2. CASE s # {}
      BY <1>3, <3>2
    <3> QED
      BY <3>1, <3>2
  <2>2. h = [s \in SUBSET T |-> h[s]]
    OBVIOUS
  <2> HIDE DEF h
  <2> QED
    BY <2>1, <2>2
<1>5. fold = F(fold)
  <2> HIDE DEF F, h
  <2> QED
    BY <1>4
<1> HIDE DEF fold
<1>6. \A s \in SUBSET T : fold[s] = IF s = {} THEN 0 ELSE fold[s \ {Chosen(s)}] + Size[Chosen(s)]
  BY <1>5
<1> HIDE DEF F
<1>7. IsFiniteSet(T) /\ \A s \in SUBSET T : IsFiniteSet(s) /\ Cardinality(s) \in 0..Cardinality(T)
  <2>1. IsFiniteSet(T)
    BY KeyAssumption, FS_Subset
  <2>2. \A s \in SUBSET T : IsFiniteSet(s) /\ Cardinality(s) <= Cardinality(T)
    BY <2>1, FS_Subset
  <2>3. Cardinality(T) \in Nat /\ \A s \in SUBSET T : Cardinality(s) \in Nat
    BY <2>1, <2>2, FS_CardinalityType
  <2> QED
    BY <2>1, <2>2, <2>3
<1>8. ASSUME bad # {} PROVE FALSE
  <2>1. PICK n \in bad : \A j \in bad : n <= j
    <3>1. bad \in SUBSET Nat
      OBVIOUS
    <3> HIDE DEF bad
    <3> QED
      BY <1>8, <3>1, Least
  <2>2. PICK s \in SUBSET T : Cardinality(s) = n /\ fold[s] # KeySizes(s)
    BY <2>1
  <2>3. s # {}
    BY <1>2, <1>6, <2>2
  <2> DEFINE u == s \ {Chosen(s)}
  <2>4. Chosen(s) \in s
    BY <2>3 DEF Chosen
  <2>5. u \in SUBSET T /\ Cardinality(u) < Cardinality(s)
    BY <1>7, <2>4, FS_RemoveElement
  <2>6. fold[u] = KeySizes(u)
    <3> HIDE DEF u
    <3>1. Cardinality(u) \in 0..Cardinality(T) /\ ~(n <= Cardinality(u))
      BY <1>7, <2>2, <2>5
    <3> QED
      BY <2>1, <2>5, <3>1
  <2>7. fold[s] = fold[u] + Size[Chosen(s)]
    BY <1>6, <2>3
  <2> QED
    BY <1>3, <2>2, <2>3, <2>6, <2>7
<1>9. fold[T] = KeySizes(T)
  <2>1. Cardinality(T) \in 0..Cardinality(T)
    BY <1>7
  <2> QED
    BY <1>8, <2>1
<1> QED
  BY <1>1, <1>9

-----------------------------------------------------------------------------
(* The cache is the abstract one *)

LEMMA RankedIs ==
    ASSUME NEW c, NEW r, Listed(c, r)
    PROVE  Order(c) = r /\ Range(Order(c)) = ToSet(r) /\ r \in Ranking
<1>1. Order(c) = r /\ r \in Ranking
  BY OrderIs DEF Listed, Links
<1>2. Range(r) = ToSet(r)
  BY <1>1 DEF Range, ToSet, Ranking
<1> QED
  BY <1>1, <1>2

(* insert puts, and drops the oldest entries until the rest fits.          *)
LEMMA InsertPuts ==
    ASSUME CacheInv, AllRanked, NEW k \in Key, NEW v \in Value, NEW e \in Label,
           Insert(k, v, e), ~(Size[v] > Limit)
    PROVE  AllRanked' /\ (reply'.raised = "AttributeError" \/ Lru!Put(k, v, e))
<1> DEFINE D == DOMAIN cache.memory
           d == Appended(Logged(cache, k, v, e), k)
           x == Rounds(d).c
<1>1. Sound(cache) /\ cache \in SoundCache
  BY SoundCacheIs DEF CacheInv
<1>2. PICK r : Listed(cache, r)
  BY <1>1, SoundCacheIs
<1> DEFINE w == Lru!Without(r, {k})
           s == Append(w, k)
<1>3. /\ Sound(d) /\ Listed(d, s)
      /\ d.memory = [y \in D \union {k} |-> IF y = k THEN v ELSE cache.memory[y]]
      /\ d.event = [y \in D \union {k} |-> IF y = k /\ k \notin D THEN e ELSE cache.event[y]]
      /\ d.size = (IF k \in D THEN cache.size ELSE cache.size + Size[v])
  <2>1. Inserted(cache, r, k, v, e, d)
    BY <1>1, <1>2, InsertedFacts
  <2> HIDE DEF d
  <2> QED
    BY <2>1, Zenon DEF Inserted
<1>4. cache' = x /\ reply'.raised = (IF x.size > Limit THEN "AttributeError" ELSE "no")
  BY DEF Insert
<1>5. /\ Order(cache) = r /\ r \in Ranking /\ ToSet(r) = D
      /\ Lru!Used(k) = s
  BY <1>2, RankedIs DEF AllRanked, Lru!Used
<1>6. s \in Ranking /\ ToSet(s) = D \union {k}
  <2>1. w \in Ranking /\ ToSet(w) = D \ {k}
    BY <1>5, WithoutOne
  <2> HIDE DEF w, d, D
  <2>2. Append(w, k) \in Ranking /\ ToSet(Append(w, k)) = ToSet(w) \union {k}
    BY <2>1, AppendFacts
  <2> QED
    BY <2>1, <2>2
<1> HIDE DEF d, s, w
<1>7. PICK n \in 0..Len(s) :
          /\ Dropped(d, s, n, x)
          /\ x.size <= Limit \/ n = Len(s)
          /\ \A i \in 0..(n - 1) : d.size - KeySizes(Lru!Oldest(s, i)) > Limit
  BY <1>3, RoundsDrop
<1> HIDE DEF x
<1> DEFINE K == Lru!Oldest(s, n)
           kept == (D \union {k}) \ K
<1>8. /\ Sound(x) /\ Listed(x, Lru!Without(s, K))
      /\ x.memory = [y \in DOMAIN d.memory \ K |-> d.memory[y]]
      /\ x.event = [y \in DOMAIN d.memory \ K |-> d.event[y]]
      /\ x.size = d.size - KeySizes(K)
  BY <1>7, Zenon DEF Dropped
<1>9. /\ K \in SUBSET Key /\ ToSet(Lru!Without(s, K)) = ToSet(s) \ K
  BY <1>6, OldestOut DEF Leaves
<1> HIDE DEF K, D
<1>10. /\ DOMAIN d.memory \ K = kept
       /\ \A y \in kept : /\ d.memory[y] = IF y = k THEN v ELSE cache.memory[y]
                          /\ d.event[y] = IF y = k /\ k \notin D THEN e ELSE cache.event[y]
  BY <1>3
<1>11. /\ x.memory = [y \in kept |-> IF y = k THEN v ELSE cache.memory[y]]
       /\ x.event = [y \in kept |-> IF y = k /\ k \notin D THEN e ELSE cache.event[y]]
  BY <1>8, <1>10
<1>12. Order(x) = Lru!Without(s, K) /\ Range(Order(x)) = ToSet(s) \ K
  BY <1>8, <1>9, RankedIs
<1>13. AllRanked'
  <2>1. DOMAIN x.memory = kept
    BY <1>11
  <2>2. Range(Order(x)) = DOMAIN x.memory
    BY <1>6, <1>12, <2>1
  <2> QED
    BY <1>4, <2>2 DEF AllRanked
<1>14. /\ cache.size \in Int /\ Size[v] \in Int /\ Limit \in Int
       /\ x.size \in Int
  BY <1>1, <1>8, CacheType, SizeAssumption, LimitAssumption DEF Sound
<1>15. ASSUME reply'.raised # "AttributeError" PROVE Lru!Put(k, v, e)
  <2> DEFINE new == IF k \notin D THEN Size[v] ELSE 0
             Left(i) == cache.size + (IF k \notin D THEN Size[v] ELSE 0)
                          - Lru!Refunds(Lru!Oldest(s, i))
  <2>0. cache.size + new = d.size /\ new \in Int
    BY <1>3, <1>14 DEF D
  <2> HIDE DEF new, Left
  <2>1. ASSUME NEW i \in 0..Len(s) PROVE Left(i) = d.size - KeySizes(Lru!Oldest(s, i))
    <3> DEFINE I == Lru!Oldest(s, i)
    <3>1. I \in SUBSET Key
      BY <1>6, OldestOut
    <3>2. Left(i) = cache.size + (new - Lru!Refunds(I))
      BY Zenon DEF Left, new
    <3> HIDE DEF I
    <3>3. Lru!Refunds(I) = KeySizes(I) /\ KeySizes(I) \in Int
      BY <3>1, RefundsAre, UnitsOf
    <3>4. cache.size + (new - KeySizes(I)) = d.size - KeySizes(I)
      BY <1>14, <2>0, <3>3
    <3>5. Left(i) = d.size - KeySizes(I)
      BY <3>2, <3>3, <3>4, Zenon
    <3> QED
      BY <3>5, Zenon DEF I
  <2>2. x.size <= Limit
    BY <1>4, <1>14, <1>15
  <2>3. Len(s) \in Nat /\ n \in 0..Len(s)
    BY <1>6, RankingType
  <2>4. Left(n) = x.size
    BY <1>8, <2>1 DEF K
  <2>5. \A i \in 0..(n - 1) : Left(i) > Limit
    <3> TAKE i \in 0..(n - 1)
    <3>1. i \in 0..Len(s)
      BY <2>3
    <3>2. Left(i) = d.size - KeySizes(Lru!Oldest(s, i))
      BY <2>1, <3>1
    <3> QED
      BY <1>7, <3>2
  <2> HIDE DEF kept
  <2>6. /\ cache'.memory = [y \in kept |-> IF y = k THEN v ELSE cache.memory[y]]
        /\ cache'.event = [y \in kept |-> IF y = k /\ k \notin D THEN e ELSE cache.event[y]]
        /\ Order(cache') = Lru!Without(s, K) /\ cache'.size = Left(n)
        /\ Left(n) <= Limit
    BY <1>4, <1>11, <1>12, <2>2, <2>4
  <2>7. n \in 0..Len(Lru!Used(k))
    BY <1>5, <2>3
  <2> QED
    BY <1>5, <2>5, <2>6, <2>7, Zenon DEF Lru!Put, Left, kept, K, D
<1> QED
  BY <1>13, <1>15

LEMMA CacheFinite ==
    ASSUME NEW c \in SoundCache
    PROVE  /\ IsFiniteSet(DOMAIN c.memory) /\ Cardinality(DOMAIN c.memory) \in Nat
           /\ DOMAIN c.memory \subseteq Key
  BY SoundCacheIs, CacheType, KeyAssumption, FS_Subset, FS_CardinalityType DEF Sound

(* A get that finds another entry in the list touches.                     *)
LEMMA GetTouches ==
    ASSUME CacheInv, AllRanked, NEW k \in DOMAIN cache.memory, Get(k), NewestIsThere'
    PROVE  AllRanked' /\ Lru!Touch(k)
<1> DEFINE d == RemoveEntry(cache, k)
           m == MakeNewest(d, k)
<1>1. Sound(cache) /\ cache \in SoundCache
  BY SoundCacheIs DEF CacheInv
<1>2. PICK r : Listed(cache, r)
  BY <1>1, SoundCacheIs
<1> DEFINE w == Lru!Without(r, {k})
<1>3. /\ k \in Key /\ r \in Ranking /\ Order(cache) = r
      /\ ToSet(r) = DOMAIN cache.memory
  BY <1>1, <1>2, RankedIs, CacheFinite DEF AllRanked
<1>4. d.newest # Nil => /\ Listed(m, Append(w, k))
                        /\ m.memory = cache.memory /\ m.event = cache.event
                        /\ m.size = cache.size
  BY <1>1, <1>2, TouchedFacts, Zenon
<1>5. d.newest # Nil /\ cache' = m
  <2>1. reply'.raised # "AssertionError"
    BY DEF NewestIsThere
  <2>2. d.newest = Nil => reply' = [Nothing EXCEPT !.call = "get", !.what = k, !.raised = "AssertionError"]
    BY Zenon DEF Get
  <2>3. d.newest # Nil => cache' = m
    BY Zenon DEF Get
  <2> HIDE DEF d, m
  <2>4. ASSUME d.newest = Nil PROVE FALSE
    BY <2>1, <2>2, <2>4 DEF Nothing
  <2> QED
    BY <2>3, <2>4
<1>6. w \in Ranking /\ ToSet(w) = ToSet(r) \ {k}
  BY <1>3, WithoutOne
<1>7. Lru!Used(k) = Append(w, k)
  BY <1>3 DEF Lru!Used
<1> HIDE DEF d, m, w
<1>8. ToSet(Append(w, k)) = ToSet(w) \union {k}
  BY <1>3, <1>6, AppendFacts
<1>9. Order(cache') = Append(w, k) /\ Range(Order(cache')) = ToSet(w) \union {k}
  BY <1>4, <1>5, <1>8, RankedIs
<1>10. /\ cache'.memory = cache.memory /\ cache'.event = cache.event
       /\ cache'.size = cache.size
  BY <1>4, <1>5
<1>11. AllRanked'
  BY <1>3, <1>6, <1>9, <1>10 DEF AllRanked
<1>12. Lru!Touch(k)
  BY <1>7, <1>9, <1>10 DEF Lru!Touch
<1> QED
  BY <1>11, <1>12

(* expire and event forget the keys they are about, and no others. *)
LEMMA Forgets ==
    ASSUME CacheInv, AllRanked, NEW K \in SUBSET Key, NEW r, Listed(cache, r),
           Listed(cache', Lru!Without(r, K)), ToSet(Lru!Without(r, K)) = ToSet(r) \ K,
           cache'.memory = [x \in DOMAIN cache.memory \ K |-> cache.memory[x]],
           cache'.event = [x \in DOMAIN cache.memory \ K |-> cache.event[x]],
           cache'.size = cache.size - KeySizes(K)
    PROVE  AllRanked' /\ Lru!Forget(K)
<1>1. /\ Order(cache) = r /\ r \in Ranking /\ ToSet(r) = DOMAIN cache.memory
  BY RankedIs DEF AllRanked
<1> DEFINE w == Lru!Without(r, K)
           W == ToSet(r) \ K
<1>2. Order(cache') = w /\ Range(Order(cache')) = ToSet(w) /\ w \in Ranking
  BY RankedIs
<1>3. Lru!Refunds(K) = KeySizes(K)
  BY RefundsAre
<1>4. Lru!Forget(K)
  <2>1. cache'.size = cache.size - Lru!Refunds(K)
    BY <1>3
  <2>2. Order(cache') = Lru!Without(Order(cache), K)
    BY <1>1, <1>2, Zenon
  <2> QED
    BY <2>1, <2>2, Zenon DEF Lru!Forget
<1>5. DOMAIN cache'.memory = W
  BY <1>1
<1>6. ToSet(w) = W
  OBVIOUS
<1>7. AllRanked'
  BY <1>2, <1>5, <1>6, Zenon DEF AllRanked
<1> QED
  BY <1>4, <1>7, Zenon

(* The sizes of a set of keys are those of its two parts.                  *)
LEMMA KeysApart ==
    ASSUME NEW D \in SUBSET Key, NEW T \in SUBSET D
    PROVE  KeySizes(D) = KeySizes(D \ T) + KeySizes(T)
<1> DEFINE A == Units(D \ T)
           B == Units(T)
<1>1. Units(D) = A \union B /\ A \cap B = {}
  BY DEF Units
<1>2. /\ IsFiniteSet(A) /\ IsFiniteSet(B)
      /\ Cardinality(A) \in Nat /\ Cardinality(B) \in Nat
  <2>1. D \ T \in SUBSET Key /\ T \in SUBSET Key
    OBVIOUS
  <2> QED
    BY <2>1, UnitsOf DEF KeySizes
<1> HIDE DEF A, B
<1>3. Cardinality(A \union B) = Cardinality(A) + Cardinality(B) - Cardinality(A \cap B)
  BY <1>2, FS_Union
<1>4. Cardinality(A \cap B) = 0
  BY <1>1, FS_EmptySet
<1>5. Cardinality(Units(D)) = Cardinality(A) + Cardinality(B)
  BY <1>1, <1>2, <1>3, <1>4
<1> QED
  BY <1>5 DEF KeySizes, A, B

LEMMA LruStep ==
    ASSUME CacheInv, AllRanked, NewestIsThere', [Next]_vars
    PROVE  /\ AllRanked'
           /\ reply'.raised = "AttributeError" \/ UNCHANGED Lru!lruVars \/ Lru!Next
<1>1. Sound(cache) /\ cache \in SoundCache
  BY SoundCacheIs DEF CacheInv
<1>2. PICK r : Listed(cache, r)
  BY <1>1, SoundCacheIs
<1>3. ASSUME UNCHANGED cache
      PROVE  AllRanked' /\ UNCHANGED Lru!lruVars
  <2>1. Order(cache)' = Order(cache)
    BY <1>3 DEF Order
  <2> QED
    BY <1>3, <2>1 DEF AllRanked, Lru!lruVars
<1>4. ASSUME NEW k \in Key, NEW v \in Value, NEW e \in EventClass \union {Nil}, Insert(k, v, e)
      PROVE  /\ AllRanked'
             /\ reply'.raised = "AttributeError" \/ UNCHANGED Lru!lruVars \/ Lru!Next
  <2>1. CASE Size[v] > Limit
    BY <1>3, <1>4, <2>1 DEF Insert
  <2>2. CASE ~(Size[v] > Limit)
    <3>1. e \in Label
      BY DEF Label
    <3>2. AllRanked' /\ (reply'.raised = "AttributeError" \/ Lru!Put(k, v, e))
      BY <1>4, <2>2, <3>1, InsertPuts
    <3> QED
      BY <3>2 DEF Lru!Next
  <2> QED
    BY <2>1, <2>2
<1>5. ASSUME NEW k \in Key, Get(k)
      PROVE  AllRanked' /\ (UNCHANGED Lru!lruVars \/ Lru!Next)
  <2>1. CASE k \notin DOMAIN cache.memory
    BY <1>3, <1>5, <2>1 DEF Get
  <2>2. CASE k \in DOMAIN cache.memory
    <3>1. AllRanked' /\ Lru!Touch(k)
      BY <1>5, <2>2, GetTouches
    <3> QED
      BY <3>1 DEF Lru!Next
  <2> QED
    BY <2>1, <2>2
<1>6. ASSUME NEW k \in Key, Expire(k)
      PROVE  AllRanked' /\ (UNCHANGED Lru!lruVars \/ Lru!Next)
  <2> DEFINE K == {k}
             D == DOMAIN cache.memory
  <2>1. cache' = Expired(cache, k)
    BY <1>6 DEF Expire
  <2>2. CASE k \notin D
    <3>1. UNCHANGED cache
      BY <2>1, <2>2 DEF Expired
    <3> QED
      BY <1>3, <3>1
  <2>3. CASE k \in D
    <3>1. /\ Listed(cache', Lru!Without(r, K))
          /\ cache'.memory = [x \in D \ K |-> cache.memory[x]]
          /\ cache'.event = [x \in D \ K |-> cache.event[x]]
          /\ cache'.size = cache.size - Size[k]
      BY <1>1, <1>2, <2>1, <2>3, ExpiredFacts
    <3>2. K \in SUBSET Key
      OBVIOUS
    <3>3. KeySizes(K) = Size[k]
      <4>1. KeySizes({} \union {k}) = KeySizes({}) + Size[k]
        BY OneKeyMore
      <4>2. Units({}) = {}
        BY DEF Units
      <4>3. KeySizes({}) = 0
        BY <4>2, FS_EmptySet DEF KeySizes
      <4>4. {} \union {k} = K /\ Size[k] \in Nat
        BY SizeAssumption
      <4> QED
        BY <4>1, <4>3, <4>4
    <3>4. ToSet(Lru!Without(r, K)) = ToSet(r) \ K
      <4>1. r \in Ranking
        BY <1>2, RankedIs
      <4> QED
        BY <4>1, WithoutOne
    <3> HIDE DEF K
    <3>5. AllRanked' /\ Lru!Forget(K)
      BY <1>2, <3>1, <3>2, <3>3, <3>4, Forgets
    <3>6. Lru!Expire(k)
      BY <2>3, <3>5 DEF Lru!Expire, K
    <3> QED
      BY <3>5, <3>6 DEF Lru!Next
  <2> QED
    BY <2>2, <2>3
<1>7. ASSUME NEW e, cache' = AfterEvent(e)
      PROVE  AllRanked' /\ Lru!Lapse(e)
  <2> DEFINE D == DOMAIN cache.memory
             T == {k \in D : cache.event[k] = e}
             x == AfterEvent(e)
  <2>1. /\ Sound(x) /\ Listed(x, Lru!Without(r, T))
        /\ x.memory = [y \in D \ T |-> cache.memory[y]]
        /\ x.event = [y \in D \ T |-> cache.event[y]]
        /\ Drift(x) = Drift(cache)
        /\ ToSet(Lru!Without(r, T)) = ToSet(r) \ T
    BY <1>1, <1>2, AfterEventFacts, Zenon
  <2> HIDE DEF x
  <2>2. T \in SUBSET Key /\ D \in SUBSET Key /\ T \subseteq D
    BY <1>1, CacheFinite
  <2>3. x.size = cache.size - KeySizes(T)
    <3> HIDE DEF T, D
    <3>1. KeySizes(D) = KeySizes(D \ T) + KeySizes(T)
      BY <2>2, KeysApart
    <3>2. DOMAIN x.memory = D \ T
      BY <2>1
    <3>3. /\ KeySizes(D) \in Int /\ KeySizes(D \ T) \in Int /\ KeySizes(T) \in Int
          /\ x.size \in Int /\ cache.size \in Int
      BY <1>1, <2>1, <2>2, UnitsOf, CacheType DEF Sound
    <3>4. x.size - KeySizes(D \ T) = cache.size - KeySizes(D)
      BY <2>1, <3>2 DEF Drift, D
    <3> QED
      BY <3>1, <3>3, <3>4
  <2> HIDE DEF T
  <2>4. AllRanked' /\ Lru!Forget(T)
    BY <1>2, <1>7, <2>1, <2>2, <2>3, Forgets DEF x
  <2>5. Lru!Lapse(e)
    BY <2>4 DEF Lru!Lapse, T
  <2> QED
    BY <2>4, <2>5
<1>8. ASSUME NEW e \in EventClass, Event(e)
      PROVE  AllRanked' /\ Lru!Next
  <2>1. AllRanked' /\ Lru!Lapse(e)
    BY <1>7, <1>8 DEF Event
  <2> QED
    BY <2>1 DEF Lru!Next
<1>9. ASSUME NEW e \in EventClass, Publish(e)
      PROVE  AllRanked' /\ (UNCHANGED Lru!lruVars \/ Lru!Next)
  <2> DEFINE i == Instance(e)
  <2>1. cache' = AfterEvent(i)
    BY <1>9 DEF Publish
  <2> HIDE DEF i
  <2>2. AllRanked' /\ Lru!Lapse(i)
    BY <1>7, <2>1
  <2>3. CASE i \in EventClass \union {Nil}
    BY <2>2, <2>3 DEF Lru!Next
  <2>4. CASE i \notin EventClass \union {Nil}
    <3> DEFINE T == {k \in DOMAIN cache.memory : cache.event[k] = i}
    <3>1. T = {}
      <4>1. cache.event \in [DOMAIN cache.memory -> EventClass \union {Nil}]
        BY <1>1, CacheType DEF Sound, Label
      <4> QED
        BY <2>4, <4>1
    <3> HIDE DEF T
    <3>2. Lru!Forget(T)
      BY <2>2 DEF Lru!Lapse, T
    <3>3. Lru!Forget({})
      BY <3>1, <3>2
    <3>4. Order(cache) = r /\ r \in Ranking
      BY <1>2, RankedIs
    <3>5. Lru!Without(r, {}) = r
      BY <3>4, NothingCut
    <3>6. Lru!Refunds({}) = 0
      <4>1. Lru!Refunds({}) = KeySizes({})
        BY RefundsAre
      <4>2. Units({}) = {}
        BY DEF Units
      <4> QED
        BY <4>1, <4>2, FS_EmptySet DEF KeySizes
    <3>7. /\ cache.memory \in [DOMAIN cache.memory -> Value]
          /\ cache.event \in [DOMAIN cache.memory -> Label] /\ cache.size \in Int
      BY <1>1, CacheType DEF Sound
    <3>8. UNCHANGED Lru!lruVars
      BY <3>3, <3>4, <3>5, <3>6, <3>7 DEF Lru!Forget, Lru!lruVars
    <3> QED
      BY <2>2, <3>8
  <2> QED
    BY <2>3, <2>4
<1>10. CASE Clear
  <2>1. cache' = Empty
    BY <1>10 DEF Clear
  <2>2. Order(cache') = <<>> /\ Range(Order(cache')) = {}
    <3>1. Order(Empty) = <<>>
      BY EmptySound, OrderIs
    <3> QED
      BY <2>1, <3>1 DEF Range
  <2>3. AllRanked'
    BY <2>1, <2>2, EmptySound DEF AllRanked
  <2>4. Lru!Clear
    BY <2>1, <2>2 DEF Lru!Clear, Empty
  <2> QED
    BY <2>3, <2>4 DEF Lru!Next
<1>11. CASE UNCHANGED vars
  BY <1>3, <1>11 DEF vars
<1> QED
  BY <1>4, <1>5, <1>6, <1>8, <1>9, <1>10, <1>11 DEF Next

(* As long as every entry is in the list, which only the failing assertion *)
(* of get ends, every call of bw/cache/l1.py that does not raise is a call *)
(* of LruCache: it drops what was used least recently, and as little as    *)
(* brings the counted size under the limit; it forgets what is expired,    *)
(* and with an event what names it, and nothing else.                      *)
THEOREM ImplementsLruCorrect == Spec => ImplementsLru
<1>1. Init => Lru!Init
  <2> SUFFICES ASSUME Init PROVE Lru!Init
    OBVIOUS
  <2>1. cache = Empty /\ Order(Empty) = <<>>
    BY EmptySound, OrderIs DEF Init
  <2> QED
    BY <2>1 DEF Lru!Init, Empty
<1>2. CacheInv /\ [Next]_vars =>
        [AllRanked /\ NewestIsThere' =>
            /\ AllRanked'
            /\ reply'.raised = "AttributeError" \/ UNCHANGED Lru!lruVars \/ Lru!Next]_vars
  BY LruStep
<1> QED
  BY <1>1, <1>2, CacheInvariant, PTL DEF Spec, ImplementsLru
=============================================================================
