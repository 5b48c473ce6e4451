---------------------------- MODULE TotalsProofs ----------------------------
(***************************************************************************)
(* What the totals of Totals return, preserve and bound, and what the      *)
(* order of Ordering returns.  Induction goes through sets: a set that     *)
(* holds 0 and is closed under successor up to n holds 0..n, by the least  *)
(* natural number it would miss.                                           *)
(***************************************************************************)
EXTENDS Totals, Ordering, TLAPS, FiniteSetTheorems

\* Every non-empty set of natural numbers has a least element.
LEMMA LeastNat ==
  ASSUME NEW B, B \subseteq Nat, B # {}
  PROVE  \E m \in B : \A k \in B : m <= k
<1> DEFINE T == {0..m : m \in B}
<1>1. IsWellFoundedOn(StrictSubsetOrdering(Nat), FiniteSubsetsOf(Nat))
  BY FS_StrictSubsetOrderingWellFounded
<1>2. \A m \in B : IsFiniteSet(0..m)
  BY FS_Interval
<1>3. T \subseteq FiniteSubsetsOf(Nat)
  BY <1>2 DEF FiniteSubsetsOf
<1>4. T # {}
  OBVIOUS
<1>5. \E t \in T : \A y \in T : ~ (<<y, t>> \in StrictSubsetOrdering(Nat))
  <2> HIDE DEF T
  <2> QED BY <1>1, <1>3, <1>4, WFMin
<1>6. PICK m \in B :
        \A y \in T : ~ (<<y, 0..m>> \in StrictSubsetOrdering(Nat))
  BY <1>5
<1>7. ASSUME NEW k \in B, k < m PROVE FALSE
  <2>1. 0..k \in T /\ 0..k \subseteq 0..m /\ 0..k # 0..m
    <3>1. 0..k # 0..m
      BY <1>7
    <3> QED BY <1>7, <3>1
  <2>2. <<0..k, 0..m>> \in StrictSubsetOrdering(Nat)
    BY <2>1 DEF StrictSubsetOrdering
  <2> QED BY <2>1, <2>2, <1>6
<1> QED
  BY <1>7

\* Induction up to n, for a property given as the set of its numbers.
LEMMA Induction ==
  ASSUME NEW n \in Nat, NEW H, 0 \in H,
         \A i \in 1..n : i - 1 \in H => i \in H
  PROVE  0..n \subseteq H
<1> DEFINE Missed == {i \in 0..n : i \notin H}
<1>1. SUFFICES ASSUME Missed # {} PROVE FALSE
  OBVIOUS
<1>2. PICK m \in Missed : \A k \in Missed : m <= k
  <2>1. Missed \subseteq Nat
    OBVIOUS
  <2> HIDE DEF Missed
  <2> QED BY <1>1, <2>1, LeastNat
<1>3. m \in 1..n /\ m - 1 \in 0..n /\ m - 1 \notin Missed
  BY <1>2
<1> QED
  BY <1>2, <1>3

\* Every other recursion up to n has a solution too: its steps are given as
\* functions.
Follows(f, start, step, n) ==
  f[0] = start /\ \A k \in 1..n : f[k] = step[k][f[k - 1]]

LEMMA RecursionExists ==
  ASSUME NEW n \in Nat, NEW S, NEW start \in S, NEW step \in [1..n -> [S -> S]]
  PROVE  \E f \in [0..n -> S] : Follows(f, start, step, n)
<1> DEFINE Solves(f, m) == Follows(f, start, step, m)
           H == {m \in 0..n : \E f \in [0..m -> S] : Solves(f, m)}
<1>1. 0 \in H
  <2> DEFINE f == [k \in 0..0 |-> start]
  <2>1. f \in [0..0 -> S] /\ f[0] = start /\ 1..0 = {}
    OBVIOUS
  <2>2. Solves(f, 0)
    <3> HIDE DEF f
    <3> QED BY <2>1 DEF Follows
  <2> HIDE DEF f, Solves
  <2> QED BY <2>1, <2>2
<1>2. ASSUME NEW m \in 1..n, m - 1 \in H PROVE m \in H
  <2>1. PICK f \in [0..(m - 1) -> S] : Solves(f, m - 1)
    BY <1>2
  <2> DEFINE g == [k \in 0..m |-> IF k = m THEN step[m][f[m - 1]] ELSE f[k]]
  <2>2. g \in [0..m -> S]
    BY <2>1
  <2>3. g[0] = start
    BY <2>1 DEF Follows
  <2>4. ASSUME NEW k \in 1..m PROVE g[k] = step[k][g[k - 1]]
    <3>1. k - 1 \in 0..(m - 1) /\ g[k - 1] = f[k - 1]
      OBVIOUS
    <3>2. k # m => k \in 1..(m - 1) /\ g[k] = f[k]
      OBVIOUS
    <3>3. k = m => g[k] = step[m][f[m - 1]]
      OBVIOUS
    <3> HIDE DEF g
    <3> QED BY <2>1, <3>1, <3>2, <3>3 DEF Follows
  <2>5. Solves(g, m)
    <3> HIDE DEF g
    <3> QED BY <2>3, <2>4 DEF Follows
  <2> HIDE DEF g, Solves
  <2> QED BY <2>2, <2>5
<1>3. n \in H
  <2> HIDE DEF H
  <2>1. 0..n \subseteq H
    BY <1>1, <1>2, Induction
  <2> QED BY <2>1
<1> QED BY <1>3

-----------------------------------------------------------------------------

IsPartialSums(s, f, n) ==
  s = [i \in 0..n |-> IF i = 0 THEN 0 ELSE s[i - 1] + f[i]]

\* The recursion that defines partial sums has a solution.
LEMMA PartialSumsExist ==
  ASSUME NEW n \in Nat, NEW f \in [1..n -> Int]
  PROVE  \E s \in [0..n -> Int] : IsPartialSums(s, f, n)
<1> DEFINE H == {m \in 0..n : \E s \in [0..m -> Int] : IsPartialSums(s, f, m)}
<1>1. 0 \in H
  <2> DEFINE s == [i \in 0..0 |-> 0]
  <2>1. s \in [0..0 -> Int] /\ IsPartialSums(s, f, 0)
    BY DEF IsPartialSums
  <2> QED BY <2>1
<1>2. ASSUME NEW m \in 1..n, m - 1 \in H PROVE m \in H
  <2>1. PICK s \in [0..(m - 1) -> Int] : IsPartialSums(s, f, m - 1)
    BY <1>2
  <2> DEFINE r == [i \in 0..m |-> IF i = m THEN s[m - 1] + f[m] ELSE s[i]]
  <2>2. r \in [0..m -> Int]
    BY <2>1
  <2>3. ASSUME NEW i \in 0..m
        PROVE  r[i] = IF i = 0 THEN 0 ELSE r[i - 1] + f[i]
    <3>1. CASE i = m
      BY <3>1, <2>1
    <3>2. CASE i # m
      <4>1. i \in 0..(m - 1) /\ r[i] = s[i]
        BY <3>2
      <4>2. s[i] = IF i = 0 THEN 0 ELSE s[i - 1] + f[i]
        BY <4>1, <2>1 DEF IsPartialSums
      <4>3. i # 0 => i - 1 \in 0..m /\ i - 1 # m /\ r[i - 1] = s[i - 1]
        BY <4>1
      <4> QED BY <4>1, <4>2, <4>3
    <3> QED BY <3>1, <3>2
  <2>4. IsPartialSums(r, f, m)
    <3> HIDE DEF r
    <3> QED BY <2>2, <2>3 DEF IsPartialSums
  <2> QED BY <2>2, <2>4
<1>3. n \in H
  <2> HIDE DEF H
  <2>1. 0..n \subseteq H
    BY <1>1, <1>2, Induction
  <2> QED BY <2>1
<1> QED
  BY <1>3

\* PartialSums satisfies its recursion.
LEMMA PartialSumsDef ==
  ASSUME NEW n \in Nat, NEW f \in [1..n -> Int]
  PROVE  IsPartialSums(PartialSums(f, n), f, n)
<1>1. \E s : IsPartialSums(s, f, n)
  BY PartialSumsExist
<1>2. IsPartialSums(CHOOSE s : IsPartialSums(s, f, n), f, n)
  BY <1>1, Zenon
<1>3. PartialSums(f, n) = CHOOSE s : IsPartialSums(s, f, n)
  BY DEF PartialSums, IsPartialSums
<1> QED
  BY <1>2, <1>3

\* A partial sum is the one before it plus its own term.
LEMMA PartialSumsStep ==
  ASSUME NEW n \in Nat, NEW f \in [1..n -> Int]
  PROVE  /\ PartialSums(f, n)[0] = 0
         /\ \A i \in 1..n : PartialSums(f, n)[i] = PartialSums(f, n)[i - 1] + f[i]
<1> DEFINE s == PartialSums(f, n)
<1>1. s = [i \in 0..n |-> IF i = 0 THEN 0 ELSE s[i - 1] + f[i]]
  BY PartialSumsDef DEF IsPartialSums
<1>2. ASSUME NEW i \in 0..n PROVE s[i] = IF i = 0 THEN 0 ELSE s[i - 1] + f[i]
  <2> HIDE DEF s
  <2> QED BY <1>1
<1> QED
  BY <1>2

\* A total of integers is an integer.
LEMMA TotalInt ==
  ASSUME NEW n \in Nat, NEW f \in [1..n -> Int]
  PROVE  Total(f, n) \in Int
<1> DEFINE s == PartialSums(f, n)
           H == {i \in 0..n : s[i] \in Int}
<1>1. 0 \in H
  BY PartialSumsStep
<1>2. \A i \in 1..n : i - 1 \in H => i \in H
  <2>1. ASSUME NEW i \in 1..n, s[i - 1] \in Int PROVE s[i] \in Int
    <3>1. s[i] = s[i - 1] + f[i] /\ f[i] \in Int
      BY PartialSumsStep
    <3> HIDE DEF s
    <3> QED BY <2>1, <3>1
  <2> HIDE DEF s
  <2> QED BY <2>1
<1>3. n \in H
  <2> HIDE DEF H
  <2>1. 0..n \subseteq H
    BY <1>1, <1>2, Induction
  <2> QED BY <2>1
<1> QED
  BY <1>3 DEF Total

\* A total grows with its terms.
LEMMA TotalMonotone ==
  ASSUME NEW n \in Nat, NEW f \in [1..n -> Int], NEW g \in [1..n -> Int],
         \A i \in 1..n : f[i] <= g[i]
  PROVE  Total(f, n) <= Total(g, n)
<1> DEFINE s == PartialSums(f, n)
           r == PartialSums(g, n)
           H == {i \in 0..n : s[i] \in Int /\ r[i] \in Int /\ s[i] <= r[i]}
<1>1. 0 \in H
  BY PartialSumsStep
<1>2. \A i \in 1..n : i - 1 \in H => i \in H
  <2>1. ASSUME NEW i \in 1..n, i - 1 \in H PROVE i \in H
    <3>1. s[i] = s[i - 1] + f[i] /\ r[i] = r[i - 1] + g[i]
      BY PartialSumsStep
    <3> HIDE DEF s, r
    <3> QED BY <2>1, <3>1
  <2> QED BY <2>1
<1>3. n \in H
  <2> HIDE DEF H
  <2>1. 0..n \subseteq H
    BY <1>1, <1>2, Induction
  <2> QED BY <2>1
<1> QED
  BY <1>3 DEF Total

\* Changing one term changes the total by the difference of that term.
LEMMA TotalUpdate ==
  ASSUME NEW n \in Nat, NEW f \in [1..n -> Int], NEW g \in [1..n -> Int],
         NEW k \in 1..n, \A i \in 1..n : i # k => f[i] = g[i]
  PROVE  Total(g, n) = Total(f, n) + (g[k] - f[k])
<1> DEFINE s == PartialSums(f, n)
           r == PartialSums(g, n)
           d == g[k] - f[k]
           H == {i \in 0..n : /\ s[i] \in Int /\ r[i] \in Int
                              /\ r[i] = IF i < k THEN s[i] ELSE s[i] + d}
<1>1. 0 \in H
  BY PartialSumsStep
<1>2. \A i \in 1..n : i - 1 \in H => i \in H
  <2>1. ASSUME NEW i \in 1..n, i - 1 \in H PROVE i \in H
    <3>1. s[i] = s[i - 1] + f[i] /\ r[i] = r[i - 1] + g[i]
      BY PartialSumsStep
    <3> HIDE DEF s, r
    <3>0. f[i] \in Int /\ g[i] \in Int /\ (i # k => f[i] = g[i])
      OBVIOUS
    <3>5. f[k] \in Int /\ g[k] \in Int
      OBVIOUS
    <3>2. CASE i < k
      BY <2>1, <3>0, <3>1, <3>2
    <3>3. CASE i = k
      BY <2>1, <3>0, <3>1, <3>3
    <3>4. CASE i > k
      <4>1. s[i - 1] \in Int /\ r[i - 1] \in Int /\ r[i - 1] = s[i - 1] + d
        <5>1. ~(i - 1 < k)
          BY <3>4
        <5> QED BY <2>1, <5>1
      <4>2. f[i] = g[i] /\ ~(i < k) /\ d \in Int
        BY <3>0, <3>4, <3>5
      <4> HIDE DEF d
      <4> QED BY <3>0, <3>1, <4>1, <4>2
    <3> QED BY <3>2, <3>3, <3>4
  <2> QED BY <2>1
<1>3. n \in H
  <2> HIDE DEF H
  <2>1. 0..n \subseteq H
    BY <1>1, <1>2, Induction
  <2> QED BY <2>1
<1> QED
  BY <1>3 DEF Total

\* The total of zeros is zero.
LEMMA TotalZero ==
  ASSUME NEW n \in Nat, NEW f \in [1..n -> Int], \A i \in 1..n : f[i] = 0
  PROVE  Total(f, n) = 0
<1> DEFINE s == PartialSums(f, n)
           H == {i \in 0..n : s[i] = 0}
<1>1. 0 \in H
  BY PartialSumsStep
<1>2. \A i \in 1..n : i - 1 \in H => i \in H
  <2>1. ASSUME NEW i \in 1..n, s[i - 1] = 0 PROVE s[i] = 0
    <3>1. s[i] = s[i - 1] + f[i]
      BY PartialSumsStep
    <3> HIDE DEF s
    <3> QED BY <2>1, <3>1
  <2> HIDE DEF s
  <2> QED BY <2>1
<1>3. n \in H
  <2> HIDE DEF H
  <2>1. 0..n \subseteq H
    BY <1>1, <1>2, Induction
  <2> QED BY <2>1
<1> QED
  BY <1>3 DEF Total

\* A non-empty set of integers with a lower bound has a least element.
LEMMA LeastInt ==
  ASSUME NEW V, V \subseteq Int, V # {}, NEW b \in Int, \A v \in V : b <= v
  PROVE  Least(V) \in V /\ \A v \in V : Least(V) <= v
<1> DEFINE B == {v - b : v \in V}
<1>1. B \subseteq Nat /\ B # {}
  <2>1. \A v \in V : v - b \in Nat
    OBVIOUS
  <2> QED BY <2>1
<1>2. PICK m \in B : \A k \in B : m <= k
  <2> HIDE DEF B
  <2> QED BY <1>1, LeastNat
<1>3. m + b \in V /\ \A v \in V : m + b <= v
  <2>1. PICK u \in V : m = u - b
    BY <1>2
  <2>2. ASSUME NEW v \in V PROVE u <= v
    <3>1. v - b \in B
      OBVIOUS
    <3>2. m <= v - b
      BY <3>1, <1>2
    <3> QED BY <2>1, <3>2
  <2> QED BY <2>1, <2>2
<1>4. \E l \in V : \A v \in V : l <= v
  BY <1>3
<1> QED
  BY <1>4 DEF Least

-----------------------------------------------------------------------------
(***************************************************************************)
(* What InOrder of Ordering returns.                                       *)
(***************************************************************************)

IsStrictOrder(S, less) ==
  /\ \A x \in S : <<x, x>> \notin less
  /\ \A x, y, z \in S : <<x, y>> \in less /\ <<y, z>> \in less => <<x, z>> \in less
  /\ \A x, y \in S : x = y \/ <<x, y>> \in less \/ <<y, x>> \in less

\* How many come no later than x grows along a strict order, and takes every
\* value from one on.
LEMMA RankExists ==
  ASSUME NEW S, IsFiniteSet(S), NEW less, IsStrictOrder(S, less)
  PROVE  \E rank \in [S -> 1..Cardinality(S)] :
           /\ \A x, y \in S : <<x, y>> \in less => rank[x] < rank[y]
           /\ \A n \in 1..Cardinality(S) : \E x \in S : rank[x] = n
<1> DEFINE N == Cardinality(S)
           Below(x) == {y \in S : <<y, x>> \in less}
           rank == [x \in S |-> Cardinality(Below(x)) + 1]
<1>1. N \in Nat
  BY FS_CardinalityType
<1>2. \A x \in S : IsFiniteSet(Below(x)) /\ Cardinality(Below(x)) \in Nat
  BY FS_Subset, FS_CardinalityType
<1>3. ASSUME NEW x \in S PROVE Cardinality(Below(x)) <= N - 1
  <2>1. Below(x) \in SUBSET (S \ {x})
    BY DEF IsStrictOrder
  <2>2. IsFiniteSet(S \ {x}) /\ Cardinality(S \ {x}) = N - 1
    BY FS_RemoveElement
  <2> HIDE DEF Below
  <2> QED BY <2>1, <2>2, FS_Subset
<1>4. rank \in [S -> 1..N]
  <2> HIDE DEF Below, N
  <2> QED BY <1>1, <1>2, <1>3
<1>5. ASSUME NEW x \in S, NEW y \in S, <<x, y>> \in less PROVE rank[x] < rank[y]
  <2>1. Below(x) \in SUBSET (Below(y) \ {x}) /\ x \in Below(y)
    BY <1>5 DEF IsStrictOrder
  <2>2. /\ IsFiniteSet(Below(y) \ {x})
        /\ Cardinality(Below(y) \ {x}) = Cardinality(Below(y)) - 1
    <3> HIDE DEF Below
    <3> QED BY <1>2, <2>1, FS_RemoveElement
  <2>3. Cardinality(Below(x)) <= Cardinality(Below(y)) - 1
    <3> HIDE DEF Below
    <3> QED BY <2>1, <2>2, FS_Subset
  <2> HIDE DEF Below
  <2> QED BY <1>2, <2>3
<1>6. \A x, y \in S : x # y => rank[x] # rank[y]
  <2> TAKE x, y \in S
  <2>1. CASE x = y
    BY <2>1
  <2>2. CASE <<x, y>> \in less \/ <<y, x>> \in less
    <3> HIDE DEF rank
    <3> QED BY <2>2, <1>4, <1>5, <1>1
  <2> QED BY <2>1, <2>2 DEF IsStrictOrder
<1>7. rank \in Injection(S, 1..N)
  <2> HIDE DEF rank, N
  <2> QED BY <1>4, <1>6 DEF Injection, IsInjective
<1>8. IsFiniteSet(1..N) /\ Cardinality(1..N) = N
  BY <1>1, FS_Interval
<1>9. rank \in Surjection(S, 1..N)
  <2> HIDE DEF rank
  <2> QED BY <1>7, <1>8, FS_Injection
<1>10. \A n \in 1..N : \E x \in S : rank[x] = n
  <2> HIDE DEF rank, N
  <2> QED BY <1>9 DEF Surjection
<1> HIDE DEF rank, N
<1> QED BY <1>4, <1>5, <1>10 DEF N

\* A finite set can be put in the order of any strict total order, and
\* nothing of it is missing then.
LEMMA InOrderSorts ==
  ASSUME NEW S, IsFiniteSet(S), NEW less, IsStrictOrder(S, less)
  PROVE  /\ Cardinality(S) \in Nat
         /\ InOrder(S, less) \in [1..Cardinality(S) -> S]
         /\ \A m, n \in 1..Cardinality(S) :
              m < n <=> <<InOrder(S, less)[m], InOrder(S, less)[n]>> \in less
         /\ \A x \in S : \E n \in 1..Cardinality(S) : InOrder(S, less)[n] = x
<1> DEFINE N == Cardinality(S)
           Sorts(f) == \A m, n \in 1..N : m < n => <<f[m], f[n]>> \in less
           g == InOrder(S, less)
<1>1. N \in Nat
  BY FS_CardinalityType
<1>2. PICK rank \in [S -> 1..N] :
        /\ \A x, y \in S : <<x, y>> \in less => rank[x] < rank[y]
        /\ \A n \in 1..N : \E x \in S : rank[x] = n
  BY RankExists
<1>3. \E f \in [1..N -> S] : Sorts(f)
  <2> DEFINE f == [n \in 1..N |-> CHOOSE x \in S : rank[x] = n]
  <2>1. \A n \in 1..N : f[n] \in S /\ rank[f[n]] = n
    BY <1>2
  <2>2. f \in [1..N -> S]
    BY <2>1
  <2>3. ASSUME NEW m \in 1..N, NEW n \in 1..N, m < n PROVE <<f[m], f[n]>> \in less
    <3> HIDE DEF f
    <3>1. f[m] # f[n]
      BY <2>1, <2>3
    <3>2. <<f[n], f[m]>> \notin less
      BY <1>2, <2>1, <2>3
    <3> QED BY <2>1, <3>1, <3>2 DEF IsStrictOrder
  <2> HIDE DEF f
  <2> QED BY <2>2, <2>3
<1>4. g \in [1..N -> S] /\ Sorts(g)
  <2> HIDE DEF N
  <2>1. g = CHOOSE f \in [1..N -> S] : Sorts(f)
    BY DEF InOrder, N
  <2> HIDE DEF g, Sorts
  <2> QED BY <1>3, <2>1
<1> HIDE DEF g, N
<1>5. ASSUME NEW m \in 1..N, NEW n \in 1..N, <<g[m], g[n]>> \in less PROVE m < n
  <2>1. m # n
    BY <1>4, <1>5 DEF IsStrictOrder
  <2>2. ~ n < m
    <3>1. SUFFICES ASSUME n < m PROVE FALSE
      OBVIOUS
    <3>2. <<g[n], g[m]>> \in less
      BY <1>4, <3>1
    <3> QED BY <1>4, <1>5, <3>2 DEF IsStrictOrder
  <2> QED BY <2>1, <2>2
<1>6. \A m, n \in 1..N : m # n => g[m] # g[n]
  <2> TAKE m, n \in 1..N
  <2>1. CASE m < n \/ n < m
    BY <1>4, <2>1 DEF IsStrictOrder
  <2>2. CASE m = n
    BY <2>2
  <2> QED BY <2>1, <2>2
<1>7. g \in Injection(1..N, S)
  BY <1>4, <1>6 DEF Injection, IsInjective
<1>8. IsFiniteSet(1..N) /\ Cardinality(1..N) = N
  BY <1>1, FS_Interval
<1>9. g \in Surjection(1..N, S)
  BY <1>7, <1>8, FS_Injection DEF N
<1>10. \A x \in S : \E n \in 1..N : g[n] = x
  BY <1>9 DEF Surjection
<1> QED BY <1>1, <1>4, <1>5, <1>10 DEF g, N
=============================================================================
