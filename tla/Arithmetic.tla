----------------------------- MODULE Arithmetic -----------------------------
(***************************************************************************)
(* What the proofs need to know of the natural numbers: every nonempty set *)
(* of them has a least element, induction over a set, the functions that   *)
(* loops and sums compute, and the laws of division by a page size.        *)
(***************************************************************************)
EXTENDS Integers, FiniteSetTheorems, TLAPS

\* Every nonempty set of natural numbers has a least element: the intervals
\* that end in its elements are finite, and so one of them contains no other.
LEMMA LeastElement ==
    ASSUME NEW S \in SUBSET Nat, S # {}
    PROVE  \E x \in S : \A y \in S : x <= y
  <1> DEFINE up(n) == 0 .. n
             T == {up(n) : n \in S}
             R == StrictSubsetOrdering(Nat)
             D == FiniteSubsetsOf(Nat)
  <1>1. IsWellFoundedOn(R, D)
    BY FS_StrictSubsetOrderingWellFounded
  <1>2. ASSUME NEW n \in Nat PROVE up(n) \in D
    <2>1. up(n) \in SUBSET Nat
      OBVIOUS
    <2>2. IsFiniteSet(up(n))
      BY FS_Interval
    <2> HIDE DEF up
    <2> QED BY <2>1, <2>2 DEF FiniteSubsetsOf
  <1>3. T \subseteq D /\ T # {}
    <2> HIDE DEF up, D
    <2> QED BY <1>2
  <1>4. \E x \in T : \A y \in T : ~ (<<y, x>> \in R)
    <2> HIDE DEF T, R, D
    <2> QED BY <1>1, <1>3, WFMin
  <1>5. PICK x \in S : \A y \in S : <<up(y), up(x)>> \notin R
    BY <1>4
  <1>6. ASSUME NEW y \in S, y < x PROVE FALSE
    <2>1. up(y) \subseteq up(x) /\ x \in up(x) /\ x \notin up(y)
      BY <1>6
    <2>2. up(y) \in SUBSET Nat /\ up(x) \in SUBSET Nat
      OBVIOUS
    <2>3. up(y) # up(x)
      BY <2>1
    <2> HIDE DEF up
    <2>4. <<up(y), up(x)>> \in R
      BY <2>1, <2>2, <2>3 DEF StrictSubsetOrdering
    <2> QED BY <2>4, <1>5
  <1> QED BY <1>6

\* A set that holds 0 and, with a number, its successor holds every number.
LEMMA Induction ==
    ASSUME NEW S, 0 \in S, \A n \in Nat : n \in S => n + 1 \in S
    PROVE  Nat \subseteq S
  <1>1. SUFFICES ASSUME Nat \ S # {} PROVE FALSE
    OBVIOUS
  <1>2. PICK x \in Nat \ S : \A y \in Nat \ S : x <= y
    BY <1>1, LeastElement
  <1>3. x # 0 /\ x - 1 \in Nat /\ x - 1 \in S
    BY <1>2
  <1> QED BY <1>2, <1>3

Iterates(f, step) == \A n \in Nat : f[n + 1] = step[f[n]]

\* A step on a set has a sequence of its iterates.
LEMMA Iteration ==
    ASSUME NEW R, NEW first \in R, NEW step \in [R -> R]
    PROVE  \E f \in [Nat -> R] : f[0] = first /\ Iterates(f, step)
  <1> DEFINE Begins(n, g) == /\ g \in [0 .. n -> R]
                             /\ g[0] = first
                             /\ \A k \in 0 .. n - 1 : g[k + 1] = step[g[k]]
             S == {n \in Nat : \E g : Begins(n, g)}
  <1>1. 0 \in S
    <2>1. Begins(0, [k \in 0 .. 0 |-> first])
      OBVIOUS
    <2> QED BY <2>1
  <1>2. ASSUME NEW n \in Nat, n \in S PROVE n + 1 \in S
    <2>1. PICK g : Begins(n, g)
      BY <1>2
    <2> DEFINE h == [k \in 0 .. n + 1 |-> IF k <= n THEN g[k] ELSE step[g[n]]]
    <2>2. h \in [0 .. n + 1 -> R] /\ h[0] = first
      BY <2>1
    <2>3. ASSUME NEW k \in 0 .. n PROVE h[k + 1] = step[h[k]]
      <3>1. CASE k = n
        BY <3>1, <2>1
      <3>2. CASE k < n
        BY <3>2, <2>1
      <3> QED BY <3>1, <3>2
    <2>4. Begins(n + 1, h)
      <3> HIDE DEF h
      <3> QED BY <2>2, <2>3
    <2> QED BY <2>4
  <1>3. \A n \in Nat : \E g : Begins(n, g)
    <2> HIDE DEF Begins
    <2> QED BY <1>1, <1>2, Induction
  <1>4. ASSUME NEW n \in Nat, NEW m \in Nat, NEW g, NEW h, Begins(n, g), Begins(m, h),
               NEW k \in Nat, k <= n, k <= m
        PROVE  g[k] = h[k]
    <2> DEFINE A == {j \in Nat : j <= n /\ j <= m => g[j] = h[j]}
    <2>1. 0 \in A
      BY <1>4
    <2>2. ASSUME NEW j \in Nat, j \in A PROVE j + 1 \in A
      BY <1>4, <2>2
    <2>3. Nat \subseteq A
      <3> HIDE DEF A
      <3> QED BY <2>1, <2>2, Induction
    <2> QED BY <2>3, <1>4
  <1> DEFINE f == [n \in Nat |-> (CHOOSE g : Begins(n, g))[n]]
  <1>5. ASSUME NEW n \in Nat, NEW g, Begins(n, g), NEW k \in 0 .. n PROVE f[k] = g[k]
    <2> DEFINE c == CHOOSE e : Begins(k, e)
    <2>1. Begins(k, c)
      <3> HIDE DEF Begins
      <3> QED BY <1>3
    <2>2. f[k] = c[k]
      OBVIOUS
    <2> HIDE DEF c, f, Begins
    <2> QED BY <2>1, <2>2, <1>4, <1>5
  <1>6. ASSUME NEW n \in Nat PROVE f[n] \in R /\ f[n + 1] = step[f[n]] /\ f[0] = first
    <2>1. PICK g : Begins(n + 1, g)
      <3> HIDE DEF Begins
      <3> QED BY <1>3
    <2>2. f[n] = g[n] /\ f[n + 1] = g[n + 1] /\ f[0] = g[0]
      <3> HIDE DEF f, Begins
      <3> QED BY <2>1, <1>5
    <2> HIDE DEF f
    <2> QED BY <2>1, <2>2
  <1>7. f \in [Nat -> R]
    <2>1. f = [n \in Nat |-> f[n]]
      OBVIOUS
    <2> HIDE DEF f
    <2> QED BY <1>6, <2>1
  <1> HIDE DEF f
  <1> QED BY <1>6, <1>7 DEF Iterates

\* A function that goes through a loop until it is done.
Loops(f, T, next, done) == f = [t \in T |-> IF t \in done THEN t ELSE f[next[t]]]

\* A loop that brings something down ends: it computes a function.
LEMMA Loop ==
    ASSUME NEW T, NEW next \in [T -> T], NEW left \in [T -> Nat], NEW done \in SUBSET T,
           \A t \in T \ done : left[next[t]] < left[t]
    PROVE  \E f \in [T -> T] : Loops(f, T, next, done)
  <1> DEFINE R == [T -> T]
             step == [h \in R |-> [t \in T |-> IF t \in done THEN t ELSE h[next[t]]]]
             id == [t \in T |-> t]
  <1>1. step \in [R -> R]
    <2>1. ASSUME NEW h \in R PROVE [t \in T |-> IF t \in done THEN t ELSE h[next[t]]] \in R
      OBVIOUS
    <2> QED BY <2>1
  <1>2. id \in R
    OBVIOUS
  <1>3. PICK g \in [Nat -> R] : g[0] = id /\ Iterates(g, step)
    <2> HIDE DEF R, step, id
    <2> QED BY <1>1, <1>2, Iteration
  <1>4. ASSUME NEW n \in Nat, NEW t \in T
        PROVE  /\ g[n][t] \in T
               /\ t \in done => g[n + 1][t] = t
               /\ t \notin done => g[n + 1][t] = g[n][next[t]]
    <2>1. g[n] \in [T -> T]
      BY <1>3
    <2>2. g[n + 1] = [u \in T |-> IF u \in done THEN u ELSE g[n][next[u]]]
      BY <1>3, <2>1 DEF Iterates
    <2> QED BY <2>1, <2>2
  <1> HIDE DEF step, id
  <1> DEFINE A == {n \in Nat : \A t \in T : left[t] <= n => g[n + 2][t] = g[n + 1][t]}
  <1>5. Nat \subseteq A
    <2>1. 0 \in A
      <3>1. ASSUME NEW t \in T, left[t] <= 0 PROVE g[2][t] = g[1][t]
        <4>1. t \in done
          BY <3>1
        <4>2. g[0 + 1][t] = t /\ g[1 + 1][t] = t
          BY <4>1, <1>4
        <4> QED BY <4>2
      <3> QED BY <3>1
    <2>2. ASSUME NEW n \in Nat, n \in A PROVE n + 1 \in A
      <3>1. ASSUME NEW t \in T, left[t] <= n + 1 PROVE g[n + 3][t] = g[n + 2][t]
        <4>1. CASE t \in done
          <5>1. n + 2 \in Nat /\ n + 1 \in Nat
            OBVIOUS
          <5>2. g[(n + 2) + 1][t] = t
            BY <4>1, <5>1, <1>4
          <5>3. g[(n + 1) + 1][t] = t
            BY <4>1, <5>1, <1>4
          <5> QED BY <5>2, <5>3
        <4>2. CASE t \notin done
          <5>1. next[t] \in T /\ left[next[t]] <= n
            BY <4>2, <3>1
          <5>2. g[n + 2][next[t]] = g[n + 1][next[t]]
            BY <5>1, <2>2
          <5>3. g[(n + 2) + 1][t] = g[n + 2][next[t]] /\ g[(n + 1) + 1][t] = g[n + 1][next[t]]
            BY <4>2, <1>4
          <5> QED BY <5>2, <5>3
        <4> QED BY <4>1, <4>2
      <3> QED BY <3>1
    <2> HIDE DEF A
    <2> QED BY <2>1, <2>2, Induction
  <1> DEFINE f == [t \in T |-> g[left[t] + 1][t]]
             B == {n \in Nat : \A t \in T : left[t] <= n => g[n + 1][t] = f[t]}
  <1>6. Nat \subseteq B
    <2>1. 0 \in B
      <3>1. ASSUME NEW t \in T, left[t] <= 0 PROVE g[0 + 1][t] = f[t]
        BY <3>1
      <3> QED BY <3>1
    <2>2. ASSUME NEW n \in Nat, n \in B PROVE n + 1 \in B
      <3>1. ASSUME NEW t \in T, left[t] <= n + 1 PROVE g[(n + 1) + 1][t] = f[t]
        <4>1. CASE left[t] = n + 1
          BY <4>1
        <4>2. CASE left[t] <= n
          <5>1. g[n + 2][t] = g[n + 1][t]
            BY <4>2, <1>5
          <5>2. g[n + 1][t] = f[t]
            BY <4>2, <2>2
          <5> QED BY <5>1, <5>2
        <4> QED BY <4>1, <4>2, <3>1
      <3> QED BY <3>1
    <2> HIDE DEF B
    <2> QED BY <2>1, <2>2, Induction
  <1>7. ASSUME NEW t \in T PROVE f[t] = IF t \in done THEN t ELSE f[next[t]]
    <2>1. CASE t \in done
      BY <2>1, <1>4
    <2>2. CASE t \notin done
      <3>1. next[t] \in T /\ left[t] - 1 \in Nat /\ left[next[t]] <= left[t] - 1
        BY <2>2
      <3>2. g[(left[t] - 1) + 1][next[t]] = f[next[t]]
        <4> HIDE DEF f
        <4> QED BY <3>1, <1>6
      <3>3. g[left[t] + 1][t] = g[left[t]][next[t]]
        BY <2>2, <1>4
      <3>4. left[t] \in Nat /\ (left[t] - 1) + 1 = left[t]
        OBVIOUS
      <3>5. f[t] = g[left[t] + 1][t]
        OBVIOUS
      <3> HIDE DEF f
      <3> QED BY <2>2, <3>2, <3>3, <3>4, <3>5
    <2> QED BY <2>1, <2>2
  <1>8. f \in [T -> T]
    BY <1>4
  <1>9. f = [t \in T |-> f[t]]
    OBVIOUS
  <1> HIDE DEF f
  <1> QED BY <1>7, <1>8, <1>9 DEF Loops

\* The sums of a sequence of numbers.
LEMMA Sums ==
    ASSUME NEW a \in [Nat -> Nat]
    PROVE  \E f \in [Nat -> Nat] :
              f = [n \in Nat |-> IF n = 0 THEN 0 ELSE a[n - 1] + f[n - 1]]
  <1> DEFINE R == Nat \X Nat
             step == [r \in R |-> <<r[1] + 1, a[r[1]] + r[2]>>]
             zero == <<0, 0>>
  <1>1. step \in [R -> R]
    OBVIOUS
  <1>2. zero \in R
    OBVIOUS
  <1>3. PICK g \in [Nat -> R] : g[0] = zero /\ Iterates(g, step)
    <2> HIDE DEF R, step, zero
    <2> QED BY <1>1, <1>2, Iteration
  <1>4. ASSUME NEW n \in Nat
        PROVE  g[n] \in R /\ g[n + 1] = <<g[n][1] + 1, a[g[n][1]] + g[n][2]>>
    BY <1>3 DEF Iterates
  <1> DEFINE A == {n \in Nat : g[n][1] = n}
  <1>5. Nat \subseteq A
    <2>1. 0 \in A
      BY <1>3
    <2>2. ASSUME NEW n \in Nat, n \in A PROVE n + 1 \in A
      <3>1. g[n + 1][1] = g[n][1] + 1
        BY <1>4
      <3>2. g[n][1] = n
        BY <2>2
      <3>3. g[n + 1][1] = n + 1
        BY <3>1, <3>2
      <3>4. n + 1 \in Nat
        OBVIOUS
      <3> HIDE DEF R, step, zero
      <3> QED BY <3>3, <3>4
    <2> HIDE DEF A
    <2> QED BY <2>1, <2>2, Induction
  <1> DEFINE f == [n \in Nat |-> g[n][2]]
  <1>6. f \in [Nat -> Nat]
    BY <1>4
  <1>7. ASSUME NEW n \in Nat PROVE f[n] = IF n = 0 THEN 0 ELSE a[n - 1] + f[n - 1]
    <2>1. CASE n = 0
      BY <2>1, <1>3
    <2>2. CASE n # 0
      <3>1. n - 1 \in Nat /\ (n - 1) + 1 = n
        BY <2>2
      <3>2. g[n - 1][1] = n - 1
        BY <3>1, <1>5
      <3>3. g[(n - 1) + 1] = <<g[n - 1][1] + 1, a[g[n - 1][1]] + g[n - 1][2]>>
        BY <3>1, <1>4
      <3> QED BY <2>2, <3>1, <3>2, <3>3
    <2> QED BY <2>1, <2>2
  <1>8. f = [n \in Nat |-> f[n]]
    OBVIOUS
  <1> HIDE DEF f
  <1> QED BY <1>6, <1>7, <1>8

-----------------------------------------------------------------------------

LEMMA DivMod ==
    ASSUME NEW d \in Nat \ {0}, NEW a \in Nat
    PROVE  /\ a = d * (a \div d) + (a % d)
           /\ a % d \in 0 .. d - 1 /\ a \div d \in Nat
  OBVIOUS

LEMMA DivUnique ==
    ASSUME NEW d \in Nat \ {0}, NEW a \in Nat, NEW q \in Nat, NEW r \in 0 .. d - 1,
           a = d * q + r
    PROVE  a \div d = q /\ a % d = r
  OBVIOUS

\* Whole pages more change the page, not the place in it.
LEMMA DivShift ==
    ASSUME NEW d \in Nat \ {0}, NEW a \in Nat, NEW b \in Nat
    PROVE  (d * b + a) \div d = b + a \div d /\ (d * b + a) % d = a % d
  <1> DEFINE q == b + a \div d
             r == a % d
             n == d * b + a
  <1>1. a = d * (a \div d) + r /\ r \in 0 .. d - 1 /\ a \div d \in Nat
    BY DivMod
  <1>2. q \in Nat /\ n \in Nat
    BY <1>1
  <1>3. n = d * q + r
    BY <1>1
  <1>4. r \in 0 .. d - 1
    BY <1>1
  <1> HIDE DEF q, r, n
  <1>5. n \div d = q /\ n % d = r
    BY <1>2, <1>3, <1>4, DivUnique
  <1> QED BY <1>5 DEF q, r, n

\* The page of a unit in front of a page is an earlier one.
LEMMA DivBefore ==
    ASSUME NEW d \in Nat \ {0}, NEW a \in Nat, NEW b \in Nat, a < b, b % d = 0
    PROVE  a \div d < b \div d
  <1>1. a = d * (a \div d) + (a % d) /\ a % d \in 0 .. d - 1 /\ a \div d \in Nat
    BY DivMod
  <1>2. b = d * (b \div d) /\ b \div d \in Nat
    <2>1. b = d * (b \div d) + (b % d) /\ b \div d \in Nat
      BY DivMod
    <2> QED BY <2>1
  <1>3. d * (a \div d) < d * (b \div d)
    BY <1>1, <1>2
  <1> QED BY <1>1, <1>2, <1>3

LEMMA DivMonotone ==
    ASSUME NEW d \in Nat \ {0}, NEW a \in Nat, NEW b \in Nat, a <= b
    PROVE  a \div d <= b \div d
  OBVIOUS

LEMMA DivBelow ==
    ASSUME NEW d \in Nat \ {0}, NEW a \in Nat, NEW n \in Nat, a < d * n
    PROVE  a \div d < n
  <1>1. a = d * (a \div d) + (a % d) /\ a % d \in 0 .. d - 1 /\ a \div d \in Nat
    BY DivMod
  <1>2. d * (a \div d) < d * n
    BY <1>1
  <1> QED BY <1>1, <1>2

\* Whole pages add up to whole pages.
LEMMA ModSum ==
    ASSUME NEW d \in Nat \ {0}, NEW a \in Nat, NEW b \in Nat, a % d = 0, b % d = 0
    PROVE  (a + b) % d = 0 /\ (a - b >= 0 => (a - b) % d = 0)
  <1>1. a = d * (a \div d) /\ a \div d \in Nat
    <2>1. a = d * (a \div d) + (a % d) /\ a \div d \in Nat
      BY DivMod
    <2> QED BY <2>1
  <1>2. b = d * (b \div d) /\ b \div d \in Nat
    <2>1. b = d * (b \div d) + (b % d) /\ b \div d \in Nat
      BY DivMod
    <2> QED BY <2>1
  <1> DEFINE q == a \div d
             p == b \div d
  <1>3. q \in Nat /\ p \in Nat /\ a = d * q /\ b = d * p
    BY <1>1, <1>2
  <1> HIDE DEF q, p
  <1>4. (a + b) % d = 0
    <2>1. a + b = d * (q + p) + 0
      BY <1>3
    <2>2. a + b \in Nat /\ q + p \in Nat /\ 0 \in 0 .. d - 1
      BY <1>3
    <2> QED BY <2>1, <2>2, DivUnique
  <1>5. ASSUME a - b >= 0 PROVE (a - b) % d = 0
    <2>1. a - b = d * (q - p) + 0
      BY <1>3
    <2>2. q - p >= 0
      BY <1>3, <1>5
    <2>3. a - b \in Nat /\ q - p \in Nat /\ 0 \in 0 .. d - 1
      BY <1>3, <1>5, <2>2
    <2> QED BY <2>1, <2>3, DivUnique
  <1> QED BY <1>4, <1>5

=============================================================================
