-------------------------- MODULE EventReplayProofs --------------------------
(***************************************************************************)
(* The sort of EventReplay is causal and moves nothing but what it must,   *)
(* and a book feed answers as if it had no cache.                          *)
(***************************************************************************)
EXTENDS EventReplay, TotalsProofs

-----------------------------------------------------------------------------
(***************************************************************************)
(* The sort key.                                                           *)
(***************************************************************************)

LEMMA EventFacts ==
  ASSUME log \in Seq(Offers), NEW i \in DOMAIN log
  PROVE  /\ i \in Nat /\ log[i] \in Offers
         /\ log[i].kind \in Kinds
         /\ log[i].src \in Nat /\ log[i].recv \in Nat
         /\ Rank(log[i]) \in 1..3
<1>1. i \in Nat /\ log[i] \in Offers
  OBVIOUS
<1>2. log[i].kind \in Kinds /\ log[i].recv \in Nat /\ log[i].src \in 0..log[i].recv
  BY <1>1, ReplayAssumption
<1>3. log[i].src \in Nat /\ log[i].recv \in Nat
  BY <1>2
<1>4. Rank(log[i]) \in 1..3
  BY <1>2 DEF Rank, Kinds
<1> QED BY <1>1, <1>2, <1>3, <1>4

\* No two events have the same sort key: it ends in the sequence.
LEMMA BeforeIsStrict ==
  ASSUME log \in Seq(Offers)
  PROVE  /\ \A i \in DOMAIN log : ~ Before(i, i)
         /\ \A i, j, k \in DOMAIN log : Before(i, j) /\ Before(j, k) => Before(i, k)
         /\ \A i, j \in DOMAIN log : i = j \/ Before(i, j) \/ Before(j, i)
<1>1. \A i \in DOMAIN log : /\ i \in Nat /\ log[i].src \in Nat /\ log[i].recv \in Nat
                            /\ Rank(log[i]) \in Nat
  BY EventFacts
<1> QED BY <1>1 DEF Before

LEMMA LogFinite ==
  ASSUME log \in Seq(Offers)
  PROVE  /\ IsFiniteSet(DOMAIN log) /\ Cardinality(DOMAIN log) = Len(log)
         /\ \A S \in SUBSET DOMAIN log : IsFiniteSet(S) /\ Cardinality(S) \in Nat
<1>1. DOMAIN log = 1..Len(log) /\ Len(log) \in Nat
  OBVIOUS
<1>2. IsFiniteSet(DOMAIN log) /\ Cardinality(DOMAIN log) = Len(log)
  BY <1>1, FS_Interval
<1> QED BY <1>2, FS_Subset, FS_CardinalityType

\* The index of an event in the sorted list.
LEMMA IndexFollowsBefore ==
  ASSUME log \in Seq(Offers)
  PROVE  /\ \A i \in DOMAIN log : Index(i) \in Nat
         /\ \A i, j \in DOMAIN log : Before(i, j) <=> Index(i) < Index(j)
<1> DEFINE Below(i) == {j \in DOMAIN log : Before(j, i)}
<1>1. \A i \in DOMAIN log : IsFiniteSet(Below(i)) /\ Index(i) \in Nat
  BY LogFinite DEF Index
<1>2. ASSUME NEW i \in DOMAIN log, NEW j \in DOMAIN log, Before(i, j)
      PROVE  Index(i) < Index(j)
  <2>1. Below(i) \in SUBSET (Below(j) \ {i}) /\ i \in Below(j)
    BY <1>2, BeforeIsStrict
  <2>2. /\ IsFiniteSet(Below(j) \ {i})
        /\ Cardinality(Below(j) \ {i}) = Cardinality(Below(j)) - 1
    <3> HIDE DEF Below
    <3> QED BY <1>1, <2>1, FS_RemoveElement
  <2>3. Cardinality(Below(i)) <= Cardinality(Below(j)) - 1
    <3> HIDE DEF Below
    <3> QED BY <2>1, <2>2, FS_Subset
  <2>4. Index(i) = Cardinality(Below(i)) /\ Index(j) = Cardinality(Below(j))
    BY DEF Index
  <2> HIDE DEF Below
  <2> QED BY <1>1, <2>3, <2>4
<1>3. ASSUME NEW i \in DOMAIN log, NEW j \in DOMAIN log, Index(i) < Index(j)
      PROVE  Before(i, j)
  <2>1. Index(i) \in Nat /\ Index(j) \in Nat
    BY <1>1
  <2>2. i # j /\ ~ Index(j) < Index(i)
    <3> HIDE <1>1
    <3> QED BY <1>3, <2>1
  <2>3. ~ Before(j, i)
    BY <1>2, <2>2
  <2> QED BY <2>2, <2>3, BeforeIsStrict
<1> QED BY <1>1, <1>2, <1>3

LEMMA EarliestIsFirst ==
  ASSUME log \in Seq(Offers), NEW S \in SUBSET DOMAIN log, S # {}
  PROVE  Earliest(S) \in S /\ \A j \in S : j # Earliest(S) => Before(Earliest(S), j)
<1> DEFINE B == {Index(i) : i \in S}
<1>1. B \subseteq Nat /\ B # {}
  BY IndexFollowsBefore
<1>2. PICK m \in B : \A k \in B : m <= k
  <2> HIDE DEF B
  <2> QED BY <1>1, LeastNat
<1>3. PICK i \in S : m = Index(i)
  BY <1>2
<1>4. \A j \in S \ {i} : Before(i, j)
  <2> TAKE j \in S \ {i}
  <2>1. Index(i) <= Index(j) /\ Index(i) \in Nat /\ Index(j) \in Nat
    BY <1>2, <1>3, IndexFollowsBefore
  <2>2. ~ Before(j, i)
    BY <2>1, IndexFollowsBefore
  <2> QED BY <2>2, BeforeIsStrict
<1>5. \E e \in S : \A j \in S \ {e} : Before(e, j)
  BY <1>4
<1>6. Earliest(S) \in S /\ \A j \in S \ {Earliest(S)} : Before(Earliest(S), j)
  BY <1>5 DEF Earliest
<1> QED BY <1>6

-----------------------------------------------------------------------------
(***************************************************************************)
(* causal_sort.                                                            *)
(***************************************************************************)

\* What displaced a submit, and where it goes.
LEMMA DisplacedFacts ==
  ASSUME log \in Seq(Offers), NEW i \in DOMAIN log, Displaced(i)
  PROVE  LET o == log[i].order
             f == Earliest(Of(o, "FILL"))
         IN  /\ f \in Of(o, "FILL") /\ Before(f, i)
             /\ \A j \in Of(o, "FILL") : j = f \/ Before(f, j)
             /\ Slot(i) = 2 * Index(f) - 1
<1> DEFINE o == log[i].order
           R == Of(o, "FILL")
           f == Earliest(R)
<1>1. R \in SUBSET DOMAIN log
  BY DEF Of
<1>2. PICK j \in R : Before(j, i)
  BY DEF Displaced
<1>3. f \in R /\ \A k \in R : k = f \/ Before(f, k)
  <2> HIDE DEF R
  <2> QED BY <1>1, <1>2, EarliestIsFirst
<1>4. Before(f, i)
  <2> HIDE DEF f
  <2> QED BY <1>1, <1>2, <1>3, BeforeIsStrict
<1>5. Slot(i) = 2 * Index(f) - 1
  BY DEF Slot
<1> QED BY <1>3, <1>4, <1>5

\* An event keeps its index or is before all that the reaction it yields to
\* is before; no two events take the same slot.
LEMMA SlotsDiffer ==
  ASSUME log \in Seq(Offers)
  PROVE  /\ \A i \in DOMAIN log : Slot(i) \in Int
         /\ \A i \in DOMAIN log : ~ Displaced(i) => Slot(i) = 2 * Index(i)
         /\ \A i, j \in DOMAIN log : Slot(i) = Slot(j) => i = j
<1>1. \A i \in DOMAIN log : ~ Displaced(i) => Slot(i) = 2 * Index(i)
  BY DEF Slot
<1>2. ASSUME NEW i \in DOMAIN log, Displaced(i)
      PROVE  \E f \in DOMAIN log : /\ Slot(i) = 2 * Index(f) - 1
                                   /\ log[f].order = log[i].order
  BY <1>2, DisplacedFacts DEF Of
<1>3. ASSUME NEW i \in DOMAIN log PROVE Slot(i) \in Int
  <2>1. CASE Displaced(i)
    BY <1>2, <2>1, IndexFollowsBefore
  <2>2. CASE ~ Displaced(i)
    BY <1>1, <2>2, IndexFollowsBefore
  <2> QED BY <2>1, <2>2
<1>4. \A i, j \in DOMAIN log : Index(i) = Index(j) => i = j
  BY IndexFollowsBefore, BeforeIsStrict
<1>5. ASSUME NEW i \in DOMAIN log, NEW j \in DOMAIN log, Slot(i) = Slot(j) PROVE i = j
  <2>1. CASE ~ Displaced(i) /\ ~ Displaced(j)
    BY <1>1, <1>4, <1>5, <2>1, IndexFollowsBefore
  <2>2. CASE Displaced(i) /\ ~ Displaced(j)
    BY <1>1, <1>2, <1>5, <2>2, IndexFollowsBefore
  <2>3. CASE ~ Displaced(i) /\ Displaced(j)
    BY <1>1, <1>2, <1>5, <2>3, IndexFollowsBefore
  <2>4. CASE Displaced(i) /\ Displaced(j)
    <3>1. PICK f \in DOMAIN log : Slot(i) = 2 * Index(f) - 1 /\ log[f].order = log[i].order
      BY <1>2, <2>4
    <3>2. PICK g \in DOMAIN log : Slot(j) = 2 * Index(g) - 1 /\ log[g].order = log[j].order
      BY <1>2, <2>4
    <3>3. Index(f) = Index(g)
      <4>1. Index(f) \in Nat /\ Index(g) \in Nat
        BY IndexFollowsBefore
      <4>2. 2 * Index(f) - 1 = 2 * Index(g) - 1
        BY <1>5, <3>1, <3>2
      <4> QED BY <4>1, <4>2
    <3>4. log[i].order = log[j].order
      BY <1>4, <3>1, <3>2, <3>3
    <3> QED BY <2>4, <3>4 DEF Displaced
  <2> QED BY <2>1, <2>2, <2>3, <2>4
<1> QED BY <1>1, <1>3, <1>5

\* The sorted list has every event once, in the order of the slots.
LEMMA CausalSortSorts ==
  ASSUME log \in Seq(Offers)
  PROVE  /\ Len(log) \in Nat
         /\ CausalSort \in [1..Len(log) -> DOMAIN log]
         /\ \A m, n \in 1..Len(log) : m < n <=> Slot(CausalSort[m]) < Slot(CausalSort[n])
         /\ \A i \in DOMAIN log : \E n \in 1..Len(log) : CausalSort[n] = i
<1> DEFINE D == DOMAIN log
           less == {w \in D \X D : Slot(w[1]) < Slot(w[2])}
<1>1. \A i, j \in D : <<i, j>> \in less <=> Slot(i) < Slot(j)
  OBVIOUS
<1>2. IsStrictOrder(D, less)
  <2> HIDE DEF less, D
  <2>1. \A i \in D : Slot(i) \in Int
    BY SlotsDiffer DEF D
  <2>2. \A i, j \in D : i = j \/ Slot(i) < Slot(j) \/ Slot(j) < Slot(i)
    BY <2>1, SlotsDiffer DEF D
  <2> QED BY <1>1, <2>1, <2>2 DEF IsStrictOrder
<1>3. IsFiniteSet(D) /\ Cardinality(D) = Len(log)
  BY LogFinite
<1>4. CausalSort = InOrder(D, less)
  BY DEF CausalSort
<1> HIDE DEF less, D
<1>5. /\ Len(log) \in Nat
      /\ CausalSort \in [1..Len(log) -> D]
      /\ \A m, n \in 1..Len(log) : m < n <=> <<CausalSort[m], CausalSort[n]>> \in less
      /\ \A x \in D : \E n \in 1..Len(log) : CausalSort[n] = x
  BY <1>2, <1>3, <1>4, InOrderSorts
<1>6. \A m, n \in 1..Len(log) : m < n <=> Slot(CausalSort[m]) < Slot(CausalSort[n])
  BY <1>1, <1>5
<1> QED BY <1>5, <1>6 DEF D

\* The submit of an order goes before each reaction, whether it had to move
\* or not.
LEMMA SubmitBeforeFill ==
  ASSUME log \in Seq(Offers), NEW o,
         NEW i \in Of(o, "FILL"), Of(o, "ORDER_SUBMIT") # {}
  PROVE  \E s \in Of(o, "ORDER_SUBMIT") : Slot(s) < Slot(i)
<1> DEFINE S == Of(o, "ORDER_SUBMIT")
           s == Earliest(S)
<1>1. i \in DOMAIN log /\ log[i].kind = "FILL" /\ S \in SUBSET DOMAIN log
  BY DEF Of
<1>2. s \in S
  <2>1. S # {}
    OBVIOUS
  <2> HIDE DEF S
  <2> QED BY <1>1, <2>1, EarliestIsFirst
<1>3. s \in DOMAIN log /\ log[s].kind = "ORDER_SUBMIT" /\ log[s].order = o
  <2> HIDE DEF s
  <2> QED BY <1>2 DEF Of
<1>4. ~ Displaced(i)
  BY <1>1 DEF Displaced
<1>5. Slot(i) = 2 * Index(i) /\ Index(i) \in Nat /\ Index(s) \in Nat
  <2> HIDE DEF s
  <2> QED BY <1>1, <1>3, <1>4, SlotsDiffer, IndexFollowsBefore
<1>6. CASE Displaced(s)
  <2> DEFINE f == Earliest(Of(o, "FILL"))
  <2>1. /\ f \in Of(o, "FILL") /\ Slot(s) = 2 * Index(f) - 1
        /\ i = f \/ Before(f, i)
    <3> HIDE DEF s
    <3> QED BY <1>3, <1>6, DisplacedFacts
  <2>2. f \in DOMAIN log
    <3> HIDE DEF f
    <3> QED BY <2>1 DEF Of
  <2>3. Index(f) \in Nat /\ Index(f) <= Index(i)
    <3> HIDE DEF f
    <3> QED BY <1>1, <1>5, <2>1, <2>2, IndexFollowsBefore
  <2>4. Slot(s) < Slot(i)
    <3> HIDE DEF f, s
    <3> QED BY <1>5, <2>1, <2>3
  <2> QED BY <1>2, <2>4
<1>7. CASE ~ Displaced(s)
  <2>1. ~ Before(i, s)
    <3>1. s = Earliest(Of(log[s].order, "ORDER_SUBMIT"))
      BY <1>3
    <3> HIDE DEF s
    <3> QED BY <1>3, <1>7, <3>1 DEF Displaced
  <2> HIDE DEF s
  <2>2. i # s
    BY <1>1, <1>3
  <2>3. Before(s, i)
    BY <1>1, <1>3, <2>1, <2>2, BeforeIsStrict
  <2>4. Slot(s) = 2 * Index(s) /\ Index(s) < Index(i)
    BY <1>1, <1>3, <1>7, <2>3, SlotsDiffer, IndexFollowsBefore
  <2> QED BY <1>2, <1>5, <2>4
<1> QED BY <1>6, <1>7

LEMMA SortIsCausal ==
  ASSUME log \in Seq(Offers)
  PROVE  SubmitComesFirst
<1> DEFINE sorted == CausalSort
           At(n, kind, o) == log[sorted[n]].kind = kind /\ log[sorted[n]].order = o
<1>1. DOMAIN sorted = 1..Len(log) /\ \A n \in DOMAIN sorted : sorted[n] \in DOMAIN log
  BY CausalSortSorts
<1>2. ASSUME NEW o \in Orders, NEW m \in DOMAIN sorted, NEW n \in DOMAIN sorted,
             At(m, "FILL", o), At(n, "ORDER_SUBMIT", o)
      PROVE  \E k \in 1..(m - 1) : At(k, "ORDER_SUBMIT", o)
  <2> HIDE DEF sorted
  <2>1. sorted[m] \in Of(o, "FILL") /\ sorted[n] \in Of(o, "ORDER_SUBMIT")
    BY <1>1, <1>2 DEF Of
  <2>2. PICK s \in Of(o, "ORDER_SUBMIT") : Slot(s) < Slot(sorted[m])
    BY <2>1, SubmitBeforeFill
  <2>3. PICK k \in 1..Len(log) : sorted[k] = s
    BY <2>2, CausalSortSorts DEF Of, sorted
  <2>4. k < m /\ Len(log) \in Nat
    BY <1>1, <2>2, <2>3, CausalSortSorts DEF sorted
  <2>5. At(k, "ORDER_SUBMIT", o) /\ k \in 1..(m - 1)
    BY <1>1, <2>2, <2>3, <2>4 DEF Of
  <2> QED BY <2>5
<1> HIDE DEF sorted
<1> QED BY <1>2 DEF SubmitComesFirst, sorted

LEMMA SortKeepsOrder ==
  ASSUME log \in Seq(Offers)
  PROVE  OthersKeepOrder
<1> DEFINE sorted == CausalSort
<1>1. /\ DOMAIN sorted = 1..Len(log)
      /\ \A n \in DOMAIN sorted : sorted[n] \in DOMAIN log
      /\ \A m, n \in DOMAIN sorted : m < n <=> Slot(sorted[m]) < Slot(sorted[n])
  BY CausalSortSorts
<1> HIDE DEF sorted
<1>2. ASSUME NEW m \in DOMAIN sorted, NEW n \in DOMAIN sorted, ~ Displaced(sorted[n])
      PROVE  LET i == sorted[m]
                 j == sorted[n]
             IN  /\ m < n /\ ~ Displaced(i) => Before(i, j)
                 /\ Displaced(i) =>
                      (n < m <=> \A f \in Of(log[i].order, "FILL") : Before(j, f))
  <2> DEFINE i == sorted[m]
             j == sorted[n]
  <2>1. i \in DOMAIN log /\ j \in DOMAIN log /\ Slot(j) = 2 * Index(j)
    BY <1>1, <1>2, SlotsDiffer
  <2>2. Index(i) \in Nat /\ Index(j) \in Nat
    BY <2>1, IndexFollowsBefore
  <2>3. (m < n <=> Slot(i) < Slot(j)) /\ (n < m <=> Slot(j) < Slot(i))
    BY <1>1
  <2> HIDE DEF i, j
  <2>4. ASSUME m < n, ~ Displaced(i) PROVE Before(i, j)
    <3>1. Slot(i) = 2 * Index(i)
      BY <2>1, <2>4, SlotsDiffer
    <3>2. Index(i) < Index(j)
      BY <2>1, <2>2, <2>3, <2>4, <3>1
    <3> QED BY <2>1, <3>2, IndexFollowsBefore
  <2>5. ASSUME Displaced(i)
        PROVE  n < m <=> \A f \in Of(log[i].order, "FILL") : Before(j, f)
    <3> DEFINE R == Of(log[i].order, "FILL")
               f == Earliest(R)
    <3>1. /\ f \in R /\ Slot(i) = 2 * Index(f) - 1
          /\ \A k \in R : k = f \/ Before(f, k)
      BY <2>1, <2>5, DisplacedFacts
    <3>2. R \in SUBSET DOMAIN log
      BY DEF Of
    <3> HIDE DEF f, R
    <3>3. Index(f) \in Nat
      BY <3>1, <3>2, IndexFollowsBefore
    <3>4. n < m <=> Index(j) < Index(f)
      BY <2>1, <2>2, <2>3, <3>1, <3>3
    <3>5. Index(j) < Index(f) <=> Before(j, f)
      BY <2>1, <3>1, <3>2, IndexFollowsBefore
    <3>6. Before(j, f) <=> \A k \in R : Before(j, k)
      BY <2>1, <3>1, <3>2, BeforeIsStrict
    <3> QED BY <3>4, <3>5, <3>6 DEF R
  <2> QED BY <2>4, <2>5 DEF i, j
<1> QED BY <1>2 DEF OthersKeepOrder, sorted

-----------------------------------------------------------------------------
(***************************************************************************)
(* The merged events of a book and the bisection of their times.           *)
(***************************************************************************)

LEMMA MergedSorts ==
  ASSUME log \in Seq(Offers)
  PROVE  /\ Cardinality(BookEvents) \in Nat
         /\ Merged \in [1..Cardinality(BookEvents) -> BookEvents]
         /\ Merged \in Seq(BookEvents) /\ Len(Merged) = Cardinality(BookEvents)
         /\ \A m, n \in 1..Cardinality(BookEvents) :
              m < n <=> Before(Merged[m], Merged[n])
<1> DEFINE S == BookEvents
           less == {w \in S \X S : Before(w[1], w[2])}
<1>1. S \subseteq DOMAIN log /\ IsFiniteSet(S)
  BY LogFinite DEF BookEvents
<1>2. \A i, j \in S : <<i, j>> \in less <=> Before(i, j)
  OBVIOUS
<1>3. Merged = InOrder(S, less)
  BY DEF Merged
<1> HIDE DEF less, S
<1>4. IsStrictOrder(S, less)
  BY <1>1, <1>2, BeforeIsStrict DEF IsStrictOrder
<1>5. /\ Cardinality(S) \in Nat
      /\ Merged \in [1..Cardinality(S) -> S]
      /\ \A m, n \in 1..Cardinality(S) : m < n <=> <<Merged[m], Merged[n]>> \in less
  BY <1>1, <1>3, <1>4, InOrderSorts
<1>6. \A m, n \in 1..Cardinality(S) : m < n <=> Before(Merged[m], Merged[n])
  BY <1>2, <1>5
<1>7. Merged \in Seq(S) /\ Len(Merged) = Cardinality(S)
  BY <1>5
<1> QED BY <1>5, <1>6, <1>7 DEF S

\* The turns of a bisection that starts with the whole of seq.
IsWindow(window, seq, t) ==
  window = [k \in 0..Len(seq) |->
              IF k = 0 THEN [lo |-> 0, hi |-> Len(seq)]
              ELSE Narrowed(window[k - 1], seq, t)]

Windows(n) == {w \in [lo : 0..n, hi : 0..n] : w.lo <= w.hi}

\* A turn leaves a window that is closed as it is, and halves another one.
LEMMA NarrowedStep ==
  ASSUME NEW n \in Nat, NEW seq, NEW t, NEW w \in Windows(n)
  PROVE  /\ Narrowed(w, seq, t) \in Windows(n)
         /\ w.lo = w.hi => Narrowed(w, seq, t) = w
         /\ w.lo < w.hi =>
              \E mid \in w.lo..(w.hi - 1) :
                \/ /\ t < TimeOf(seq[mid + 1])
                   /\ Narrowed(w, seq, t) = [lo |-> w.lo, hi |-> mid]
                \/ /\ ~ (t < TimeOf(seq[mid + 1]))
                   /\ Narrowed(w, seq, t) = [lo |-> mid + 1, hi |-> w.hi]
<1> DEFINE mid == (w.lo + w.hi) \div 2
<1>1. /\ w.lo \in 0..n /\ w.hi \in 0..n /\ w.lo <= w.hi
      /\ w = [lo |-> w.lo, hi |-> w.hi]
  BY DEF Windows
<1>2. CASE w.lo = w.hi
  <2>1. Narrowed(w, seq, t) = w
    BY <1>1, <1>2 DEF Narrowed
  <2> QED BY <1>1, <1>2, <2>1
<1>3. CASE w.lo < w.hi
  <2>1. mid \in w.lo..(w.hi - 1)
    BY <1>1, <1>3
  <2>2. /\ [w EXCEPT !.hi = mid] = [lo |-> w.lo, hi |-> mid]
        /\ [w EXCEPT !.lo = mid + 1] = [lo |-> mid + 1, hi |-> w.hi]
    <3> HIDE DEF mid
    <3> QED BY <1>1
  <2>3. /\ t < TimeOf(seq[mid + 1]) => Narrowed(w, seq, t) = [lo |-> w.lo, hi |-> mid]
        /\ ~ (t < TimeOf(seq[mid + 1])) =>
             Narrowed(w, seq, t) = [lo |-> mid + 1, hi |-> w.hi]
    BY <1>1, <1>3, <2>2 DEF Narrowed
  <2> HIDE DEF mid
  <2>4. /\ [lo |-> w.lo, hi |-> mid] \in Windows(n)
        /\ [lo |-> mid + 1, hi |-> w.hi] \in Windows(n)
    BY <1>1, <2>1 DEF Windows
  <2>5. Narrowed(w, seq, t) \in Windows(n)
    BY <2>3, <2>4
  <2> QED BY <1>1, <1>3, <2>1, <2>3, <2>5
<1> QED BY <1>1, <1>2, <1>3

LEMMA WindowExists ==
  ASSUME NEW S, NEW seq \in Seq(S), NEW t
  PROVE  \E window : IsWindow(window, seq, t)
<1> DEFINE n == Len(seq)
           first == [lo |-> 0, hi |-> n]
           step == [k \in 1..n |-> [w \in Windows(n) |-> Narrowed(w, seq, t)]]
<1>1. n \in Nat
  OBVIOUS
<1>2. first \in Windows(n)
  BY <1>1 DEF Windows
<1>3. step \in [1..n -> [Windows(n) -> Windows(n)]]
  <2>1. \A w \in Windows(n) : Narrowed(w, seq, t) \in Windows(n)
    BY <1>1, NarrowedStep
  <2> QED BY <2>1
<1>4. \A k \in 1..n, w \in Windows(n) : step[k][w] = Narrowed(w, seq, t)
  OBVIOUS
<1>5. PICK f \in [0..n -> Windows(n)] :
        f[0] = first /\ \A k \in 1..n : f[k] = step[k][f[k - 1]]
  <2> DEFINE W == Windows(n)
  <2>1. first \in W /\ step \in [1..n -> [W -> W]]
    BY <1>2, <1>3
  <2> HIDE DEF step, first, n, W
  <2>2. \E f \in [0..n -> W] : Follows(f, first, step, n)
    BY <1>1, <2>1, RecursionExists
  <2> QED BY <2>2 DEF W, Follows
<1>6. \A k \in 1..n : k - 1 \in 0..n /\ f[k] = Narrowed(f[k - 1], seq, t)
  <2> HIDE DEF step, n
  <2>1. \A k \in 1..n : k - 1 \in 0..n /\ f[k - 1] \in Windows(n)
    BY <1>1, <1>5
  <2> QED BY <1>4, <1>5, <2>1
<1>7. f = [k \in 0..n |-> IF k = 0 THEN first ELSE Narrowed(f[k - 1], seq, t)]
  <2>1. f = [k \in 0..n |-> f[k]]
    BY <1>5
  <2>2. \A k \in 0..n : f[k] = IF k = 0 THEN first ELSE Narrowed(f[k - 1], seq, t)
    <3> HIDE DEF first, step
    <3> QED BY <1>1, <1>5, <1>6
  <2> HIDE DEF first, step
  <2> QED BY <2>1, <2>2
<1> QED BY <1>7 DEF IsWindow

\* Bisection ends within the sequence; when its times ascend, where they
\* pass t.
LEMMA BisectIsExact ==
  ASSUME NEW S, NEW seq \in Seq(S), NEW t \in Int,
         \A x \in S : TimeOf(x) \in Int
  PROVE  /\ Bisect(seq, t) \in 0..Len(seq)
         /\ (\A m, n \in 1..Len(seq) : m < n => TimeOf(seq[m]) <= TimeOf(seq[n])) =>
              \A n \in 1..Len(seq) : n <= Bisect(seq, t) <=> TimeOf(seq[n]) <= t
<1> DEFINE N == Len(seq)
           window == CHOOSE f : IsWindow(f, seq, t)
           Ascend == \A m, n \in 1..N : m < n => TimeOf(seq[m]) <= TimeOf(seq[n])
           T(n) == TimeOf(seq[n])
           Holds(w) == Ascend =>
             /\ \A j \in 1..w.lo : T(j) <= t
             /\ \A j \in (w.hi + 1)..N : t < T(j)
           H == {k \in 0..N : /\ window[k] \in Windows(N)
                              /\ window[k].hi - window[k].lo <= N - k
                              /\ Holds(window[k])}
<1>1. N \in Nat /\ \A n \in 1..N : T(n) \in Int
  OBVIOUS
<1>2. IsWindow(window, seq, t)
  BY WindowExists
<1>3. Bisect(seq, t) = window[N].lo
  BY DEF Bisect, IsWindow
<1>4. /\ window[0] = [lo |-> 0, hi |-> N]
      /\ \A k \in 1..N : window[k] = Narrowed(window[k - 1], seq, t)
  <2> HIDE DEF window
  <2> QED BY <1>1, <1>2 DEF IsWindow
<1> HIDE DEF window
<1>5. 0 \in H
  BY <1>1, <1>4 DEF Windows
<1>6. ASSUME NEW k \in 1..N, k - 1 \in H PROVE k \in H
  <2> DEFINE v == window[k - 1]
             w == window[k]
  <2>1. /\ v \in Windows(N) /\ v.lo \in 0..N /\ v.hi \in 0..N /\ v.lo <= v.hi
        /\ v.hi - v.lo <= N - (k - 1) /\ Holds(v)
    BY <1>6 DEF Windows
  <2>2. w = Narrowed(v, seq, t)
    BY <1>4
  <2> HIDE DEF v, w, Holds
  <2>3. w \in Windows(N)
    BY <1>1, <2>1, <2>2, NarrowedStep
  <2>4. w.hi - w.lo <= N - k /\ Holds(w)
    <3>1. CASE v.lo = v.hi
      <4>1. w = v
        BY <1>1, <2>1, <2>2, <3>1, NarrowedStep
      <4> QED BY <1>1, <2>1, <3>1, <4>1
    <3>2. CASE v.lo < v.hi
      <4>1. PICK mid \in v.lo..(v.hi - 1) :
              \/ t < TimeOf(seq[mid + 1]) /\ w = [lo |-> v.lo, hi |-> mid]
              \/ ~ (t < TimeOf(seq[mid + 1])) /\ w = [lo |-> mid + 1, hi |-> v.hi]
        <5> HIDE DEF N
        <5> QED BY <1>1, <2>1, <2>2, <3>2, NarrowedStep
      <4>2. mid \in Int /\ mid + 1 \in 1..N /\ v.lo <= mid /\ mid <= v.hi - 1
        <5> HIDE DEF N
        <5> QED BY <1>1, <2>1
      <4>3. CASE t < T(mid + 1) /\ w = [lo |-> v.lo, hi |-> mid]
        <5>1. w.hi - w.lo <= N - k
          <6>1. w.hi - w.lo <= v.hi - v.lo - 1
            <7> HIDE DEF N
            <7> QED BY <2>1, <4>2, <4>3
          <6>2. w.hi \in Int /\ w.lo \in Int
            <7> HIDE DEF N
            <7> QED BY <2>1, <4>2, <4>3
          <6>3. /\ N \in Int /\ k \in Int /\ v.hi \in Int /\ v.lo \in Int
                /\ v.hi - v.lo <= N - (k - 1)
            BY <2>1
          <6> HIDE DEF N
          <6> QED BY <6>1, <6>2, <6>3
        <5>2. ASSUME Ascend, NEW j \in (mid + 1)..N PROVE t < T(j)
          <6>1. j \in 1..N /\ T(mid + 1) <= T(j)
            BY <1>1, <4>2, <5>2
          <6> HIDE DEF T, N
          <6> QED BY <1>1, <4>2, <4>3, <6>1
        <5> HIDE DEF T, Ascend
        <5> QED BY <2>1, <4>3, <5>1, <5>2 DEF Holds
      <4>4. CASE ~ (t < T(mid + 1)) /\ w = [lo |-> mid + 1, hi |-> v.hi]
        <5>1. w.hi - w.lo <= N - k
          <6>1. w.hi - w.lo <= v.hi - v.lo - 1
            <7> HIDE DEF N
            <7> QED BY <2>1, <4>2, <4>4
          <6>2. w.hi \in Int /\ w.lo \in Int
            <7> HIDE DEF N
            <7> QED BY <2>1, <4>2, <4>4
          <6>3. /\ N \in Int /\ k \in Int /\ v.hi \in Int /\ v.lo \in Int
                /\ v.hi - v.lo <= N - (k - 1)
            BY <2>1
          <6> HIDE DEF N
          <6> QED BY <6>1, <6>2, <6>3
        <5>2. ASSUME Ascend, NEW j \in 1..(mid + 1) PROVE T(j) <= t
          <6>1. j \in 1..N /\ T(j) <= T(mid + 1)
            BY <1>1, <4>2, <5>2
          <6> HIDE DEF T, N
          <6> QED BY <1>1, <4>2, <4>4, <6>1
        <5> HIDE DEF T, Ascend
        <5> QED BY <2>1, <4>4, <5>1, <5>2 DEF Holds
      <4> QED BY <4>1, <4>3, <4>4
    <3> QED BY <2>1, <3>1, <3>2
  <2> QED BY <2>3, <2>4 DEF w
<1>7. N \in H
  <2> HIDE DEF H
  <2>1. 0..N \subseteq H
    BY <1>1, <1>5, <1>6, Induction
  <2> QED BY <1>1, <2>1
<1>8. /\ window[N].lo \in 0..N /\ window[N].lo = window[N].hi
      /\ Holds(window[N])
  BY <1>1, <1>7 DEF Windows
<1>9. ASSUME Ascend, NEW n \in 1..N PROVE n <= window[N].lo <=> T(n) <= t
  <2>1. n \in 1..window[N].lo \/ n \in (window[N].hi + 1)..N
    BY <1>1, <1>8
  <2> HIDE DEF T, Ascend
  <2> QED BY <1>1, <1>8, <1>9, <2>1
<1> QED BY <1>3, <1>8, <1>9

-----------------------------------------------------------------------------
(***************************************************************************)
(* The levels of a book.                                                   *)
(***************************************************************************)

Books == UNION {[D -> Nat \ {0}] : D \in SUBSET Prices}

LEMMA BooksAreBooks ==
  /\ \A levels : levels \in Books <=> IsBook(levels)
  /\ <<>> \in Books
<1>1. \A levels : IsBook(levels) => levels \in Books
  BY DEF Books, IsBook
<1>2. ASSUME NEW levels \in Books PROVE IsBook(levels)
  <2>1. PICK D \in SUBSET Prices : levels \in [D -> Nat \ {0}]
    BY DEF Books
  <2> QED BY <2>1 DEF IsBook
<1>3. IsBook(<<>>)
  BY DEF IsBook
<1> QED BY <1>1, <1>2, <1>3

LEMMA ApplyKeepsBooks ==
  ASSUME log \in Seq(Offers), NEW i \in BookEvents, NEW levels \in Books
  PROVE  Apply(levels, log[i]) \in Books
<1> DEFINE e == log[i]
<1>1. /\ e \in Offers /\ e.kind \in {"BOOK_SNAPSHOT", "BOOK_DELTA"}
      /\ IsBook(levels)
  BY BooksAreBooks DEF BookEvents
<1>2. CASE e.kind = "BOOK_SNAPSHOT"
  BY <1>1, <1>2, ReplayAssumption, BooksAreBooks DEF Apply
<1>3. CASE e.kind = "BOOK_DELTA"
  <2>1. e.price \in Prices /\ e.size \in Nat
    BY <1>1, <1>3, ReplayAssumption
  <2> DEFINE D == IF e.size = 0 THEN DOMAIN levels \ {e.price}
                  ELSE DOMAIN levels \cup {e.price}
             new == [p \in D |-> IF p = e.price THEN e.size ELSE levels[p]]
  <2>2. Apply(levels, e) = new
    BY <1>3 DEF Apply
  <2>3. D \subseteq Prices
    BY <1>1, <2>1 DEF IsBook
  <2>4. ASSUME NEW p \in D PROVE (IF p = e.price THEN e.size ELSE levels[p]) \in Nat \ {0}
    <3>1. CASE p = e.price
      BY <2>1, <2>4, <3>1
    <3>2. CASE p # e.price
      BY <1>1, <2>4, <3>2 DEF IsBook
    <3> QED BY <3>1, <3>2
  <2>5. new \in [D -> Nat \ {0}]
    <3> HIDE DEF D, e
    <3> QED BY <2>4
  <2>6. new \in Books
    <3> HIDE DEF D, new
    <3> QED BY <2>3, <2>5 DEF Books
  <2> QED BY <2>2, <2>6
<1> QED BY <1>1, <1>2, <1>3

\* The levels after each of the events m + 1 to n of seq.
IsHistory(after, levels, seq, m, n) ==
  after = [k \in m..n |-> IF k = m THEN levels ELSE Apply(after[k - 1], log[seq[k]])]

LEMMA HistoryExists ==
  ASSUME log \in Seq(Offers), NEW N \in Nat, NEW seq \in [1..N -> BookEvents],
         NEW m \in 0..N, NEW n \in m..N, NEW levels \in Books
  PROVE  \E after : after \in [m..n -> Books] /\ IsHistory(after, levels, seq, m, n)
<1> DEFINE d == n - m
           step == [k \in 1..d |-> [b \in Books |-> Apply(b, log[seq[m + k]])]]
<1>1. d \in Nat /\ \A k \in 1..d : m + k \in 1..N
  OBVIOUS
<1>2. step \in [1..d -> [Books -> Books]]
  <2>1. ASSUME NEW k \in 1..d, NEW b \in Books
        PROVE  Apply(b, log[seq[m + k]]) \in Books
    BY <1>1, ApplyKeepsBooks
  <2> HIDE DEF d
  <2> QED BY <2>1
<1>3. \A k \in 1..d, b \in Books : step[k][b] = Apply(b, log[seq[m + k]])
  OBVIOUS
<1>4. PICK f \in [0..d -> Books] : Follows(f, levels, step, d)
  <2> HIDE DEF step, d
  <2> QED BY <1>1, <1>2, RecursionExists
<1> DEFINE after == [k \in m..n |-> f[k - m]]
<1>5. after \in [m..n -> Books]
  BY <1>4
<1>6. ASSUME NEW k \in m..n
      PROVE  after[k] = IF k = m THEN levels ELSE Apply(after[k - 1], log[seq[k]])
  <2>1. CASE k = m
    BY <1>4, <2>1 DEF Follows
  <2>2. CASE k # m
    <3>1. k - 1 \in m..n /\ k - m \in 1..d /\ (k - m) - 1 = (k - 1) - m
      BY <2>2
    <3>2. after[k] = f[k - m] /\ after[k - 1] = f[(k - m) - 1]
      BY <3>1
    <3>3. f[(k - m) - 1] \in Books
      BY <1>4, <3>1
    <3>4. f[k - m] = step[k - m][f[(k - m) - 1]]
      <4> HIDE DEF step, d
      <4> QED BY <1>4, <3>1 DEF Follows
    <3>5. m + (k - m) = k
      OBVIOUS
    <3>6. step[k - m][f[(k - m) - 1]] = Apply(f[(k - m) - 1], log[seq[k]])
      <4> HIDE DEF step, d
      <4> QED BY <1>3, <3>1, <3>3, <3>5
    <3> HIDE DEF step, after
    <3> QED BY <2>2, <3>2, <3>4, <3>6
  <2> QED BY <2>1, <2>2
<1>7. IsHistory(after, levels, seq, m, n)
  <2>1. after = [k \in m..n |-> after[k]]
    OBVIOUS
  <2> HIDE DEF after
  <2> QED BY <1>6, <2>1 DEF IsHistory
<1> HIDE DEF after
<1> QED BY <1>5, <1>7

\* There is only one history, whatever the events.
LEMMA HistoryIsUnique ==
  ASSUME NEW m \in Nat, NEW n \in Nat, m <= n, NEW seq, NEW levels,
         NEW f, IsHistory(f, levels, seq, m, n),
         NEW g, IsHistory(g, levels, seq, m, n)
  PROVE  f = g
<1> DEFINE H == {i \in 0..(n - m) : f[m + i] = g[m + i]}
           Then(h, k) == IF k = m THEN levels ELSE Apply(h[k - 1], log[seq[k]])
<1>1. /\ f = [k \in m..n |-> Then(f, k)]
      /\ g = [k \in m..n |-> Then(g, k)]
  BY DEF IsHistory
<1>2. \A k \in m..n : f[k] = Then(f, k) /\ g[k] = Then(g, k)
  <2> HIDE DEF Then
  <2> QED BY <1>1
<1>3. 0 \in H
  BY <1>2
<1>4. ASSUME NEW i \in 1..(n - m), i - 1 \in H PROVE i \in H
  <2>1. m + i \in m..n /\ m + i # m /\ (m + i) - 1 = m + (i - 1)
    OBVIOUS
  <2>2. f[m + (i - 1)] = g[m + (i - 1)]
    BY <1>4
  <2>3. f[m + i] = g[m + i]
    <3> HIDE DEF H
    <3> QED BY <1>2, <2>1, <2>2
  <2> QED BY <2>3
<1>5. 0..(n - m) \subseteq H
  <2>1. n - m \in Nat
    OBVIOUS
  <2> HIDE DEF H
  <2> QED BY <1>3, <1>4, <2>1, Induction
<1>6. ASSUME NEW k \in m..n PROVE f[k] = g[k]
  <2>1. k - m \in 0..(n - m) /\ m + (k - m) = k
    OBVIOUS
  <2>2. k - m \in H
    BY <1>5, <2>1
  <2> QED BY <2>1, <2>2
<1>7. f = [k \in m..n |-> f[k]] /\ g = [k \in m..n |-> g[k]]
  <2> HIDE DEF Then
  <2> QED BY <1>1
<1> QED BY <1>6, <1>7

\* Applied follows the history; it can be applied in two goes.
LEMMA AppliedFacts ==
  ASSUME log \in Seq(Offers), NEW N \in Nat, NEW seq \in [1..N -> BookEvents]
  PROVE  /\ \A n \in 0..N : Applied(<<>>, seq, 0, n) \in Books
         /\ \A n \in 0..N : \A m \in 0..n :
              Applied(Applied(<<>>, seq, 0, m), seq, m, n) = Applied(<<>>, seq, 0, n)
<1> DEFINE A(levels, m, n) == CHOOSE f : IsHistory(f, levels, seq, m, n)
<1>1. \A m, n : \A levels : Applied(levels, seq, m, n) = A(levels, m, n)[n]
  BY DEF Applied, IsHistory
<1>2. ASSUME NEW m \in 0..N, NEW n \in m..N, NEW levels \in Books
      PROVE  /\ IsHistory(A(levels, m, n), levels, seq, m, n)
             /\ A(levels, m, n) \in [m..n -> Books]
  <2>1. PICK f : f \in [m..n -> Books] /\ IsHistory(f, levels, seq, m, n)
    BY HistoryExists
  <2>2. IsHistory(A(levels, m, n), levels, seq, m, n)
    BY <2>1, Zenon
  <2> DEFINE g == A(levels, m, n)
  <2> HIDE DEF g
  <2>3. m \in Nat /\ n \in Nat /\ m <= n
    OBVIOUS
  <2>4. g = f
    BY <2>1, <2>2, <2>3, HistoryIsUnique DEF g
  <2> QED BY <2>1, <2>2, <2>4 DEF g
<1>3. <<>> \in Books
  BY BooksAreBooks
<1>4. ASSUME NEW n \in 0..N PROVE Applied(<<>>, seq, 0, n) \in Books
  <2> HIDE DEF A
  <2>1. A(<<>>, 0, n) \in [0..n -> Books] /\ n \in 0..n
    BY <1>2, <1>3
  <2> QED BY <1>1, <2>1
<1>5. ASSUME NEW n \in 0..N, NEW m \in 0..n
      PROVE  Applied(Applied(<<>>, seq, 0, m), seq, m, n) = Applied(<<>>, seq, 0, n)
  <2> DEFINE whole == A(<<>>, 0, n)
             first == [k \in 0..m |-> whole[k]]
             rest == [k \in m..n |-> whole[k]]
             Then(h, k) == Apply(h[k - 1], log[seq[k]])
  <2>1. IsHistory(whole, <<>>, seq, 0, n) /\ whole \in [0..n -> Books]
    BY <1>2, <1>3
  <2> HIDE DEF whole
  <2>2. \A k \in 0..n : whole[k] = IF k = 0 THEN <<>> ELSE Then(whole, k)
    BY <2>1 DEF IsHistory
  <2>3. /\ \A k \in 0..m : first[k] = whole[k]
        /\ \A k \in m..n : rest[k] = whole[k]
    OBVIOUS
  <2>4. IsHistory(first, <<>>, seq, 0, m)
    <3>1. ASSUME NEW k \in 0..m
          PROVE  whole[k] = IF k = 0 THEN <<>> ELSE Then(first, k)
      <4>1. k # 0 => k - 1 \in 0..m
        OBVIOUS
      <4>2. k # 0 => Then(first, k) = Then(whole, k)
        <5> HIDE DEF first
        <5> QED BY <2>3, <4>1
      <4>3. k \in 0..n
        OBVIOUS
      <4> HIDE DEF first, Then
      <4> QED BY <2>2, <4>2, <4>3
    <3>2. first = [k \in 0..m |-> IF k = 0 THEN <<>> ELSE Then(first, k)]
      <4> HIDE DEF Then
      <4> QED BY <3>1
    <3> HIDE DEF first
    <3> QED BY <3>2 DEF IsHistory
  <2>5. IsHistory(rest, whole[m], seq, m, n)
    <3>1. ASSUME NEW k \in m..n
          PROVE  whole[k] = IF k = m THEN whole[m] ELSE Then(rest, k)
      <4>1. k # m => k - 1 \in m..n /\ k \in 0..n /\ k # 0
        OBVIOUS
      <4>2. k # m => Then(rest, k) = Then(whole, k)
        <5> HIDE DEF rest
        <5> QED BY <2>3, <4>1
      <4> HIDE DEF rest, Then
      <4> QED BY <2>2, <4>1, <4>2
    <3>2. rest = [k \in m..n |-> IF k = m THEN whole[m] ELSE Then(rest, k)]
      <4> HIDE DEF Then
      <4> QED BY <3>1
    <3> HIDE DEF rest
    <3> QED BY <3>2 DEF IsHistory
  <2> HIDE DEF first, rest, Then
  <2>6. m \in 0..N /\ m \in Nat /\ n \in Nat /\ n \in m..N /\ m <= n /\ 0 \in 0..N /\ m \in 0..m
    OBVIOUS
  <2>7. A(<<>>, 0, m) = first
    <3>1. IsHistory(A(<<>>, 0, m), <<>>, seq, 0, m)
      BY <1>2, <1>3, <2>6
    <3> HIDE DEF A
    <3> QED BY <2>4, <2>6, <3>1, HistoryIsUnique
  <2>8. whole[m] \in Books /\ first[m] = whole[m] /\ rest[n] = whole[n]
    BY <2>1, <2>3, <2>6
  <2>9. A(whole[m], m, n) = rest
    <3>1. IsHistory(A(whole[m], m, n), whole[m], seq, m, n)
      BY <1>2, <2>6, <2>8
    <3> HIDE DEF A
    <3> QED BY <2>5, <2>6, <3>1, HistoryIsUnique
  <2> HIDE DEF A
  <2> QED BY <1>1, <2>7, <2>8, <2>9 DEF whole
<1> QED BY <1>4, <1>5

-----------------------------------------------------------------------------
(***************************************************************************)
(* The feed: whatever the cache holds was rebuilt from a prefix of the     *)
(* merged events, and whatever was answered covers the prefix that the     *)
(* bisection found.                                                        *)
(***************************************************************************)

\* The snapshot of the first n book events, rebuilt from nothing.
Rebuilt(n) ==
  [levels |-> Applied(<<>>, Merged, 0, n), ts |-> log[Merged[n]].src]

\* The cache is new or holds the prefix it says it does.
CacheInv ==
  \/ cache = Empty
  \/ \E n \in 1..Cardinality(BookEvents) :
       cache = [levels |-> Rebuilt(n).levels, processed |-> n, at |-> n,
                snapshot |-> Rebuilt(n)]

\* So does the last answer, and it was found by bisection.
AnswerInv ==
  /\ answer.at \in -1..MaxTime
  /\ answer.idx \in 0..Cardinality(BookEvents)
  /\ answer.idx > 0 => answer.snapshot = Rebuilt(answer.idx)
  /\ answer.at >= 0 => answer.idx = Bisect(Merged, answer.at)

ReplayInv ==
  /\ log \in Seq(Offers) /\ Len(log) <= MaxEvents
  /\ gate \in Gates \cup {"closed"}
  /\ now \in -1..MaxTime
  /\ gate = "closed" => cache = Empty /\ now = -1 /\ answer.at = -1 /\ answer.idx = 0
  /\ CacheInv
  /\ AnswerInv

\* The answers of an opened feed depend on the log and the gate alone.
LEMMA Unchanged ==
  ASSUME UNCHANGED log
  PROVE  /\ BookEvents' = BookEvents /\ Merged' = Merged
         /\ \A n : Rebuilt(n)' = Rebuilt(n)
<1>1. BookEvents' = BookEvents
  BY DEF BookEvents
<1>2. \A i, j : Before(i, j)' = Before(i, j)
  BY DEF Before
<1>3. Merged' = Merged
  BY <1>1, <1>2 DEF Merged
<1>4. \A n : Rebuilt(n)' = Rebuilt(n)
  BY <1>3 DEF Rebuilt, Applied
<1> QED BY <1>1, <1>3, <1>4

LEMMA BisectUnchanged ==
  ASSUME UNCHANGED <<log, gate>>
  PROVE  \A t : Bisect(Merged, t)' = Bisect(Merged, t)
<1>1. Merged' = Merged
  BY Unchanged
<1> QED BY <1>1 DEF Bisect, Narrowed, TimeOf

\* A bisection stays within the book's events.
LEMMA BisectInBook ==
  ASSUME log \in Seq(Offers), NEW t \in Int
  PROVE  Bisect(Merged, t) \in 0..Cardinality(BookEvents)
<1>1. Merged \in Seq(BookEvents) /\ Len(Merged) = Cardinality(BookEvents)
  BY MergedSorts
<1>2. \A i \in BookEvents : TimeOf(i) \in Int
  BY EventFacts DEF BookEvents, TimeOf
<1> QED BY <1>1, <1>2, BisectIsExact

\* Going on from the cache gives what starting over gives.
LEMMA CacheGoesOn ==
  ASSUME log \in Seq(Offers), CacheInv, NEW idx \in 1..Cardinality(BookEvents)
  PROVE  LET old == Rewound(idx)
         IN  /\ Applied(old.levels, Merged, old.processed, idx) = Rebuilt(idx).levels
             /\ idx = old.at => /\ old = cache
                                /\ old.snapshot = Rebuilt(idx)
<1> DEFINE N == Cardinality(BookEvents)
           old == Rewound(idx)
           A(m) == Applied(<<>>, Merged, 0, m)
<1>1. N \in Nat /\ Merged \in [1..N -> BookEvents]
  BY MergedSorts
<1>2. \A m \in 0..idx : Applied(A(m), Merged, m, idx) = A(idx)
  <2>1. idx \in 0..N
    BY <1>1
  <2> HIDE DEF N
  <2> QED BY <1>1, <2>1, AppliedFacts
<1>3. \A m : Rebuilt(m).levels = A(m)
  BY DEF Rebuilt
<1> HIDE DEF A
<1>4. CASE cache = Empty
  <2>1. old = cache
    BY <1>1, <1>4 DEF Rewound, Empty
  <2>2. old.levels = <<>> /\ old.processed = 0 /\ old.at = -1
    BY <1>4, <2>1 DEF Empty
  <2>3. idx # old.at
    BY <1>1, <2>2
  <2> QED BY <1>3, <2>2, <2>3 DEF A
<1>5. CASE cache # Empty
  <2>1. PICK n \in 1..N :
          cache = [levels |-> Rebuilt(n).levels, processed |-> n, at |-> n,
                   snapshot |-> Rebuilt(n)]
    BY <1>5 DEF CacheInv
  <2>2. n \in Int /\ idx \in Int /\ 0 < n /\ 0 < idx
    BY <1>1
  <2>3. CASE idx < n
    <3>1. old = [cache EXCEPT !.levels = <<>>, !.processed = 0, !.at = -1]
      BY <2>1, <2>3 DEF Rewound
    <3>2. old.levels = <<>> /\ old.processed = 0 /\ old.at = -1
      BY <2>1, <3>1
    <3>3. idx # old.at
      BY <2>2, <3>2
    <3> QED BY <1>3, <3>2, <3>3 DEF A
  <2>4. CASE ~ (idx < n)
    <3>1. old = cache
      BY <2>1, <2>4 DEF Rewound
    <3>2. old.levels = A(n) /\ old.processed = n /\ old.at = n /\ old.snapshot = Rebuilt(n)
      BY <1>3, <2>1, <3>1
    <3>3. n \in 0..idx
      BY <2>2, <2>4
    <3> QED BY <1>2, <1>3, <3>1, <3>2, <3>3
  <2> QED BY <2>3, <2>4
<1> QED BY <1>4, <1>5

-----------------------------------------------------------------------------

LEMMA InitReplayInv == Init => ReplayInv
<1> SUFFICES ASSUME Init PROVE ReplayInv
  OBVIOUS
<1>1. log \in Seq(Offers) /\ Len(log) = 0 /\ MaxEvents \in Nat /\ MaxTime \in Nat
  BY ReplayAssumption DEF Init
<1>2. Cardinality(BookEvents) \in Nat
  BY <1>1, MergedSorts
<1>3. CacheInv
  BY DEF Init, CacheInv
<1>4. AnswerInv
  BY <1>1, <1>2 DEF Init, AnswerInv
<1> QED BY <1>1, <1>3, <1>4 DEF Init, ReplayInv

LEMMA RecordKeepsReplayInv ==
  ASSUME ReplayInv, NEW e \in Offers, Record(e)
  PROVE  ReplayInv'
<1>1. log' = Append(log, e) /\ log \in Seq(Offers) /\ Len(log) < MaxEvents
  BY DEF Record, ReplayInv
<1>2. log' \in Seq(Offers) /\ Len(log') <= MaxEvents
  BY <1>1, ReplayAssumption
<1>3. gate = "closed" /\ cache = Empty /\ now = -1 /\ answer.at = -1 /\ answer.idx = 0
  BY DEF Record, ReplayInv
<1>4. UNCHANGED <<gate, now, cache, answer>>
  BY DEF Record
<1>5. CacheInv'
  <2>1. cache' = Empty'
    BY <1>3, <1>4 DEF Empty, None
  <2> QED BY <2>1 DEF CacheInv
<1>6. AnswerInv'
  <2>1. (Cardinality(BookEvents) \in Nat)'
    <3>1. BookEvents' \subseteq DOMAIN log' /\ DOMAIN log' = 1..Len(log') /\ Len(log') \in Nat
      BY <1>2 DEF BookEvents
    <3> DEFINE B == BookEvents'
    <3>2. IsFiniteSet(B)
      <4>1. IsFiniteSet(1..Len(log')) /\ B \in SUBSET (1..Len(log'))
        BY <3>1, FS_Interval
      <4> HIDE DEF B
      <4> QED BY <4>1, FS_Subset
    <3> QED BY <3>2, FS_CardinalityType
  <2> QED BY <1>3, <1>4, <2>1, ReplayAssumption DEF AnswerInv
<1>7. (gate = "closed" => cache = Empty /\ now = -1 /\ answer.at = -1 /\ answer.idx = 0)'
  BY <1>3, <1>4 DEF Empty, None
<1>8. now' \in -1..MaxTime /\ gate' \in Gates \cup {"closed"}
  BY <1>4 DEF ReplayInv
<1> QED BY <1>2, <1>5, <1>6, <1>7, <1>8 DEF ReplayInv

\* Opening a cursor and moving it leave the cache and the answer alone.
LEMMA CursorKeepsReplayInv ==
  ASSUME ReplayInv,
         \/ \E g \in Gates : Open(g)
         \/ \E t \in 0..MaxTime : AdvanceTo(t)
         \/ UNCHANGED vars
  PROVE  ReplayInv'
<1>1. UNCHANGED <<log, cache, answer>>
  BY DEF Open, AdvanceTo, vars
<1>2. /\ gate' \in Gates \cup {"closed"} /\ now' \in -1..MaxTime
      /\ gate' = gate \/ answer.at = -1
      /\ gate' = "closed" => gate = "closed" /\ now' = now
  BY ReplayAssumption DEF Open, AdvanceTo, vars, ReplayInv, Gates
<1>3. CacheInv'
  <2>1. CacheInv
    BY DEF ReplayInv
  <2>2. /\ cache' = cache /\ Empty' = Empty /\ BookEvents' = BookEvents
        /\ \A n : Rebuilt(n)' = Rebuilt(n)
    BY <1>1, Unchanged DEF Empty, None
  <2> QED BY <2>1, <2>2 DEF CacheInv
<1>4. AnswerInv'
  <2>1. AnswerInv
    BY DEF ReplayInv
  <2>2. /\ answer' = answer /\ BookEvents' = BookEvents
        /\ \A n : Rebuilt(n)' = Rebuilt(n)
    BY <1>1, Unchanged
  <2>3. answer.at >= 0 => \A t : Bisect(Merged, t)' = Bisect(Merged, t)
    BY <1>1, <1>2, BisectUnchanged
  <2>4. (answer.at >= 0 => answer.idx = Bisect(Merged, answer.at))'
    BY <2>1, <2>2, <2>3 DEF AnswerInv
  <2> QED BY <2>1, <2>2, <2>4 DEF AnswerInv
<1> QED BY <1>1, <1>2, <1>3, <1>4 DEF ReplayInv, Empty, None

LEMMA GetSnapshotKeepsReplayInv ==
  ASSUME ReplayInv, GetSnapshot
  PROVE  ReplayInv'
<1> DEFINE idx == Bisect(Merged, now)
           N == Cardinality(BookEvents)
           old == Rewound(idx)
<1>1. /\ log \in Seq(Offers) /\ now \in -1..MaxTime /\ now \in Int /\ CacheInv /\ AnswerInv
      /\ gate # "closed"
  BY ReplayAssumption DEF ReplayInv, GetSnapshot
<1>2. UNCHANGED <<log, gate, now>>
  BY DEF GetSnapshot
<1>3. idx \in 0..N /\ N \in Nat
  BY <1>1, BisectInBook, MergedSorts
<1>4. /\ BookEvents' = BookEvents /\ \A n : Rebuilt(n)' = Rebuilt(n)
      /\ \A t : Bisect(Merged, t)' = Bisect(Merged, t) /\ Empty' = Empty
  BY <1>2, Unchanged, BisectUnchanged DEF Empty, None
<1>5. /\ CacheInv'
      /\ answer'.at = now /\ answer'.idx = idx
      /\ idx > 0 => answer'.snapshot = Rebuilt(idx)
  <2>1. CASE /\ idx = 0
             /\ answer' = [at |-> now, idx |-> 0, snapshot |-> None]
             /\ UNCHANGED cache
    <3>1. CacheInv'
      BY <1>1, <1>4, <2>1 DEF CacheInv
    <3> HIDE DEF idx
    <3> QED BY <2>1, <3>1
  <2>2. CASE /\ idx > 0
             /\ idx = old.at
             /\ cache' = old
             /\ answer' = [at |-> now, idx |-> idx, snapshot |-> old.snapshot]
    <3>1. old = cache /\ old.snapshot = Rebuilt(idx)
      BY <1>1, <1>3, <2>2, CacheGoesOn
    <3>2. CacheInv'
      BY <1>1, <1>4, <2>2, <3>1 DEF CacheInv
    <3> HIDE DEF idx, old
    <3> QED BY <2>2, <3>1, <3>2
  <2>3. CASE /\ idx > 0
             /\ LET levels == Applied(old.levels, Merged, old.processed, idx)
                    snapshot == [levels |-> levels, ts |-> log[Merged[idx]].src]
                IN  /\ cache' = [levels |-> levels, processed |-> idx, at |-> idx,
                                 snapshot |-> snapshot]
                    /\ answer' = [at |-> now, idx |-> idx, snapshot |-> snapshot]
    <3>1. Applied(old.levels, Merged, old.processed, idx) = Rebuilt(idx).levels
      BY <1>1, <1>3, <2>3, CacheGoesOn
    <3>2. Rebuilt(idx) = [levels |-> Rebuilt(idx).levels, ts |-> log[Merged[idx]].src]
      BY DEF Rebuilt
    <3>3. /\ cache' = [levels |-> Rebuilt(idx).levels, processed |-> idx, at |-> idx,
                       snapshot |-> Rebuilt(idx)]
          /\ answer' = [at |-> now, idx |-> idx, snapshot |-> Rebuilt(idx)]
      <4> HIDE DEF idx, old
      <4> QED BY <2>3, <3>1, <3>2
    <3> HIDE DEF idx, old
    <3>4. idx \in 1..N
      BY <1>3, <2>3
    <3>5. CacheInv'
      BY <1>4, <3>3, <3>4 DEF CacheInv
    <3> QED BY <3>3, <3>5
  <2> QED BY <2>1, <2>2, <2>3 DEF GetSnapshot
<1>6. AnswerInv'
  <2> HIDE DEF idx, N
  <2>1. answer'.at \in -1..MaxTime /\ answer'.idx \in 0..N
    BY <1>1, <1>3, <1>5
  <2>2. answer'.idx = Bisect(Merged, answer'.at)
    BY <1>5 DEF idx
  <2> QED BY <1>4, <1>5, <2>1, <2>2 DEF AnswerInv, N
<1> HIDE DEF idx, N, old
<1> QED BY <1>1, <1>2, <1>5, <1>6 DEF ReplayInv

\* Every reachable state of the replay satisfies the inductive invariant.
THEOREM ReplayInvIsInvariant == Spec => []ReplayInv
<1>1. ASSUME ReplayInv, [Next]_vars PROVE ReplayInv'
  BY <1>1, RecordKeepsReplayInv, CursorKeepsReplayInv, GetSnapshotKeepsReplayInv DEF Next
<1> QED BY <1>1, InitReplayInv, PTL DEF Spec

LEMMA ReplayTypes == ReplayInv => TypeOK
<1> SUFFICES ASSUME ReplayInv PROVE TypeOK
  OBVIOUS
<1> DEFINE N == Cardinality(BookEvents)
<1>1. log \in Seq(Offers) /\ CacheInv /\ AnswerInv
  BY DEF ReplayInv
<1>2. N \in Nat /\ Merged \in [1..N -> BookEvents]
  BY <1>1, MergedSorts
<1>3. CASE cache = Empty
  <2>1. IsBook(cache.levels) /\ cache.processed \in 0..N /\ cache.at \in {-1, cache.processed}
    BY <1>2, <1>3, BooksAreBooks DEF Empty
  <2> QED BY <1>1, <2>1 DEF TypeOK, ReplayInv, AnswerInv
<1>4. CASE cache # Empty
  <2>1. PICK n \in 1..N :
          cache = [levels |-> Rebuilt(n).levels, processed |-> n, at |-> n,
                   snapshot |-> Rebuilt(n)]
    BY <1>1, <1>4 DEF CacheInv
  <2>2. IsBook(cache.levels)
    <3>1. n \in 0..N
      BY <1>2
    <3>2. Applied(<<>>, Merged, 0, n) \in Books
      <4> HIDE DEF N
      <4> QED BY <1>1, <1>2, <3>1, AppliedFacts
    <3> QED BY <2>1, <3>2, BooksAreBooks DEF Rebuilt
  <2>3. cache.processed \in 0..N /\ cache.at = cache.processed
    <3> HIDE DEF N
    <3> QED BY <1>2, <2>1
  <2> QED BY <1>1, <2>2, <2>3 DEF TypeOK, ReplayInv, AnswerInv
<1> QED BY <1>3, <1>4

\* Where the times of the gate follow the order of the book, the events up
\* to the cursor's time are those the bisection finds.
LEMMA PrefixFromInv == ReplayInv => PrefixIsExact
<1> SUFFICES ASSUME ReplayInv, answer.at >= 0, gate = "event_time" \/ InSourceOrder,
                    NEW n \in DOMAIN Merged
             PROVE  n <= answer.idx <=> TimeOf(Merged[n]) <= answer.at
  BY DEF PrefixIsExact
<1> DEFINE N == Cardinality(BookEvents)
<1>1. log \in Seq(Offers) /\ answer.idx = Bisect(Merged, answer.at) /\ answer.at \in Int
  BY ReplayAssumption DEF ReplayInv, AnswerInv
<1>2. /\ N \in Nat /\ Merged \in [1..N -> BookEvents]
      /\ Merged \in Seq(BookEvents) /\ Len(Merged) = N
      /\ \A i, j \in 1..N : i < j => Before(Merged[i], Merged[j])
  BY <1>1, MergedSorts
<1>3. \A i \in BookEvents : log[i].src \in Nat /\ log[i].recv \in Nat
  BY <1>1, EventFacts DEF BookEvents
<1>4. \A i \in BookEvents : TimeOf(i) \in Int
  BY <1>3 DEF TimeOf
<1>5. \A i, j \in BookEvents : Before(i, j) => TimeOf(i) <= TimeOf(j)
  <2>1. \A i, j \in BookEvents : Before(i, j) => log[i].src <= log[j].src
    BY <1>3 DEF Before
  <2> QED BY <2>1 DEF TimeOf, InSourceOrder
<1> HIDE DEF N
<1>6. \A i, j \in 1..N : i < j => TimeOf(Merged[i]) <= TimeOf(Merged[j])
  BY <1>2, <1>5
<1> QED BY <1>1, <1>2, <1>4, <1>6, BisectIsExact

-----------------------------------------------------------------------------

\* Types: the levels of a book are prices with a size, after any event.
THEOREM TypesHold == Spec => []TypeOK
BY ReplayInvIsInvariant, ReplayTypes, PTL

\* causal_sort: no reaction to an order comes before the order's submit.
THEOREM SubmitComesFirstHolds == Spec => []SubmitComesFirst
<1>1. ReplayInv => SubmitComesFirst
  BY SortIsCausal DEF ReplayInv
<1> QED BY <1>1, ReplayInvIsInvariant, PTL

\* causal_sort: everything but a displaced submit keeps its order, and a
\* displaced one goes right before the reaction it was moved for.
THEOREM OthersKeepOrderHolds == Spec => []OthersKeepOrder
<1>1. ReplayInv => OthersKeepOrder
  BY SortKeepsOrder DEF ReplayInv
<1> QED BY <1>1, ReplayInvIsInvariant, PTL

\* ReplayBookFeed: a snapshot is the book rebuilt from nothing, however the
\* cursor moved before.
THEOREM CacheIsTransparentHolds == Spec => []CacheIsTransparent
<1>1. ReplayInv => CacheIsTransparent
  BY DEF ReplayInv, AnswerInv, Rebuilt, CacheIsTransparent
<1> QED BY <1>1, ReplayInvIsInvariant, PTL

\* ReplayBookFeed: a snapshot covers exactly the events the cursor's time
\* has reached, when it gates on event time or nothing overtook.
THEOREM PrefixIsExactHolds == Spec => []PrefixIsExact
BY PrefixFromInv, ReplayInvIsInvariant, PTL

=============================================================================
