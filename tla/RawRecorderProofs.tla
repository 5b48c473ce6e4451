------------------------- MODULE RawRecorderProofs -------------------------
(***************************************************************************)
(* What the recorder's queue and writer lose, count twice or store twice.  *)
(***************************************************************************)
EXTENDS RawRecorder, TotalsProofs, SequenceTheorems

\* The larger and the smaller of two numbers.
LEMMA MaxOfTwo ==
  ASSUME NEW a \in Int, NEW b \in Int
  PROVE  /\ Max({a, b}) = IF a >= b THEN a ELSE b
         /\ Min({a, b}) = IF a >= b THEN b ELSE a
<1>1. \E x \in {a, b} : \A y \in {a, b} : x >= y
  OBVIOUS
<1>2. \E x \in {a, b} : \A y \in {a, b} : x =< y
  OBVIOUS
<1>3. Max({a, b}) \in {a, b} /\ \A y \in {a, b} : Max({a, b}) >= y
  BY <1>1 DEF Max
<1>4. Min({a, b}) \in {a, b} /\ \A y \in {a, b} : Min({a, b}) =< y
  BY <1>2 DEF Min
<1> QED
  BY <1>3, <1>4

\* A finite set of numbers can be listed in increasing order.
LEMMA Listed ==
  ASSUME NEW L \in Nat, NEW at, at \subseteq 1..L
  PROVE  /\ Cardinality(at) \in 0..L
         /\ IsFiniteSet(at)
         /\ \E f \in [1..Cardinality(at) -> at] :
              \A m, n \in DOMAIN f : m < n => f[m] < f[n]
<1> DEFINE Upto(i) == {j \in at : j <= i}
           C == Cardinality(at)
           rank == [i \in at |-> Cardinality(Upto(i))]
<1>0. \A i \in at : i \in Int
  OBVIOUS
<1>1. IsFiniteSet(1..L) /\ Cardinality(1..L) = L
  BY FS_Interval
<1>2. IsFiniteSet(at) /\ C \in 0..L
  <2>1. at \in SUBSET (1..L)
    OBVIOUS
  <2>2. IsFiniteSet(at) /\ C <= L
    BY <1>1, <2>1, FS_Subset
  <2>3. C \in Nat
    BY <2>2, FS_CardinalityType
  <2> QED BY <2>2, <2>3
<1>3. ASSUME NEW i \in at
      PROVE  IsFiniteSet(Upto(i)) /\ Cardinality(Upto(i)) \in 1..C
  <2>1. Upto(i) \in SUBSET at /\ i \in Upto(i)
    OBVIOUS
  <2>2. IsFiniteSet(Upto(i)) /\ Cardinality(Upto(i)) <= C
    BY <1>2, <2>1, FS_Subset
  <2>3. Cardinality(Upto(i)) \in Nat /\ Cardinality(Upto(i)) # 0
    BY <2>1, <2>2, FS_CardinalityType, FS_EmptySet
  <2> QED BY <1>2, <2>2, <2>3
<1>4. ASSUME NEW i \in at, NEW k \in at, i < k
      PROVE  rank[i] < rank[k]
  <2>1. Upto(i) \in SUBSET Upto(k) /\ k \in Upto(k) /\ k \notin Upto(i)
    <3>1. ASSUME NEW j \in at, j <= i PROVE j <= k
      BY <1>0, <1>4, <3>1
    <3>2. k <= k /\ ~(k <= i)
      BY <1>0, <1>4
    <3> QED BY <3>1, <3>2
  <2>2. /\ Cardinality(Upto(i)) <= Cardinality(Upto(k))
        /\ Cardinality(Upto(k)) = Cardinality(Upto(i)) => Upto(k) = Upto(i)
    BY <1>3, <2>1, FS_Subset
  <2>3. Cardinality(Upto(i)) \in Int /\ Cardinality(Upto(k)) \in Int
    BY <1>3
  <2>4. Cardinality(Upto(k)) # Cardinality(Upto(i))
    BY <2>1, <2>2
  <2> QED BY <2>2, <2>3, <2>4
<1>5. rank \in [at -> 1..C]
  BY <1>3
<1>6. rank \in Injection(at, 1..C)
  <2>1. ASSUME NEW i \in at, NEW k \in at, rank[i] = rank[k]
        PROVE  i = k
    <3>1. ~(i < k) /\ ~(k < i)
      <4> HIDE DEF rank
      <4> QED BY <1>4, <1>5, <2>1
    <3> QED BY <3>1
  <2> HIDE DEF rank
  <2> QED BY <1>5, <2>1 DEF Injection, IsInjective
<1>7. rank \in Surjection(at, 1..C)
  <2>1. IsFiniteSet(1..C) /\ Cardinality(1..C) = C
    BY <1>2, FS_Interval
  <2> HIDE DEF rank
  <2> QED BY <1>6, <2>1, FS_Injection
<1> DEFINE list == [m \in 1..C |-> CHOOSE i \in at : rank[i] = m]
<1>8. \A m \in 1..C : list[m] \in at /\ rank[list[m]] = m
  <2>1. \A m \in 1..C : \E i \in at : rank[i] = m
    <3> HIDE DEF rank
    <3> QED BY <1>7 DEF Surjection
  <2> HIDE DEF rank
  <2> QED BY <2>1
<1>9. list \in [1..C -> at]
  BY <1>8
<1>10. \A m, n \in DOMAIN list : m < n => list[m] < list[n]
  <2> SUFFICES ASSUME NEW m \in 1..C, NEW n \in 1..C, m < n
               PROVE  list[m] < list[n]
    BY <1>9
  <2> HIDE DEF list, rank
  <2>1. /\ list[m] \in at /\ list[n] \in at
        /\ rank[list[m]] = m /\ rank[list[n]] = n
    BY <1>8
  <2>2. list[m] \in Int /\ list[n] \in Int
    BY <2>1, <1>0
  <2>3. CASE list[n] < list[m]
    <3>1. n < m
      BY <2>1, <2>3, <1>4
    <3> QED BY <3>1
  <2>4. list[n] # list[m]
    BY <2>1
  <2> QED BY <2>2, <2>3, <2>4
<1> QED
  <2> HIDE DEF list
  <2> QED BY <1>2, <1>9, <1>10

\* An increasing list of a finite set names all of it.
LEMMA ListedWhole ==
  ASSUME NEW at, IsFiniteSet(at), at \subseteq Int,
         NEW f \in [1..Cardinality(at) -> at],
         \A m, n \in DOMAIN f : m < n => f[m] < f[n]
  PROVE  \A i \in at : \E m \in 1..Cardinality(at) : f[m] = i
<1>1. Cardinality(at) \in Nat
  BY FS_CardinalityType
<1> DEFINE C == Cardinality(at)
<1>2. IsFiniteSet(1..C) /\ Cardinality(1..C) = C
  BY <1>1, FS_Interval
<1>3. ASSUME NEW m \in 1..C, NEW n \in 1..C, f[m] = f[n]
      PROVE  m = n
  <2>1. f[m] \in Int /\ f[n] \in Int
    OBVIOUS
  <2>2. ~(m < n) /\ ~(n < m)
    BY <1>3, <2>1
  <2> QED BY <1>1, <2>2
<1>4. f \in Injection(1..C, at)
  BY <1>3 DEF Injection, IsInjective
<1>5. f \in Surjection(1..C, at)
  BY <1>2, <1>4, FS_Injection
<1> QED
  BY <1>5 DEF Surjection

\* The keys of a sequence of events.
LEMMA KeysOfSeq ==
  ASSUME wire \in [Event -> Keys], NEW s \in Seq(Event)
  PROVE  /\ KeysOf(s) \in Seq(Keys)
         /\ Len(KeysOf(s)) = Len(s)
         /\ \A i \in 1..Len(s) : KeysOf(s)[i] = wire[s[i]]
  BY DEF KeysOf

\* _persist keeps one event of every new key and no event of a known one.
LEMMA FreshKeeps ==
  ASSUME wire \in [Event -> Keys], NEW s \in Seq(Event), NEW known
  PROVE  /\ Fresh(s, known) \in Seq(Event)
         /\ Len(Fresh(s, known)) <= Len(s)
         /\ \A m \in 1..Len(Fresh(s, known)) :
              wire[Fresh(s, known)[m]] \notin known
         /\ \A m, n \in 1..Len(Fresh(s, known)) :
              m < n => wire[Fresh(s, known)[m]] # wire[Fresh(s, known)[n]]
         /\ \A i \in 1..Len(s) :
              \/ wire[s[i]] \in known
              \/ \E m \in 1..Len(Fresh(s, known)) :
                   wire[Fresh(s, known)[m]] = wire[s[i]]
<1> DEFINE at == NewAt(s, known)
           C  == Cardinality(at)
           Lists(f) == \A m, n \in DOMAIN f : m < n => f[m] < f[n]
           nth == CHOOSE f \in [1..C -> at] : Lists(f)
           new == [n \in 1..C |-> s[nth[n]]]
<1>1. Len(s) \in Nat /\ DOMAIN s = 1..Len(s)
  OBVIOUS
<1>2. /\ at \subseteq 1..Len(s)
      /\ \A i \in at : wire[s[i]] \notin known
      /\ \A i \in at : \A j \in 1..Len(s) : j < i => wire[s[j]] # wire[s[i]]
      /\ \A i \in 1..Len(s) :
           \/ i \in at
           \/ wire[s[i]] \in known
           \/ \E j \in 1..Len(s) : j < i /\ wire[s[j]] = wire[s[i]]
  BY <1>1 DEF NewAt
<1>3. Fresh(s, known) = new
  BY DEF Fresh
<1> HIDE DEF at
<1>4. /\ C \in 0..Len(s) /\ IsFiniteSet(at)
      /\ \E f \in [1..C -> at] : Lists(f)
  BY <1>1, <1>2, Listed
<1>5. nth \in [1..C -> at] /\ Lists(nth)
  <2> HIDE DEF Lists
  <2> QED BY <1>4
<1> HIDE DEF nth
<1>6. \A i \in at : i \in Int
  BY <1>2
<1>7. \A i \in at : \E m \in 1..C : nth[m] = i
  BY <1>4, <1>5, <1>6, ListedWhole
<1>8. \A m \in 1..C : nth[m] \in at /\ new[m] = s[nth[m]]
  BY <1>5
<1>9. new \in Seq(Event) /\ Len(new) = C
  <2>1. \A m \in 1..C : s[nth[m]] \in Event
    <3>1. \A m \in 1..C : nth[m] \in 1..Len(s)
      BY <1>2, <1>8
    <3>2. \A i \in 1..Len(s) : s[i] \in Event
      BY <1>1
    <3> QED BY <3>1, <3>2
  <2>2. C \in Nat
    BY <1>4
  <2> HIDE DEF C
  <2> QED BY <2>1, <2>2
<1> HIDE DEF new
<1>10. \A m \in 1..C : wire[new[m]] \notin known
  BY <1>2, <1>8
<1>11. ASSUME NEW m \in 1..C, NEW n \in 1..C, m < n
       PROVE  wire[new[m]] # wire[new[n]]
  <2>1. nth[m] < nth[n]
    BY <1>5, <1>11
  <2>2. nth[m] \in at /\ nth[n] \in at /\ nth[m] \in 1..Len(s)
    BY <1>2, <1>8
  <2>3. wire[s[nth[m]]] # wire[s[nth[n]]]
    BY <1>2, <2>1, <2>2
  <2>4. new[m] = s[nth[m]] /\ new[n] = s[nth[n]]
    BY <1>8
  <2> QED BY <2>3, <2>4
<1>12. ASSUME NEW i \in 1..Len(s), wire[s[i]] \notin known
       PROVE  \E m \in 1..C : wire[new[m]] = wire[s[i]]
  <2> DEFINE Same == {j \in 1..Len(s) : wire[s[j]] = wire[s[i]]}
  <2>1. Same \subseteq Nat /\ Same # {}
    OBVIOUS
  <2>2. PICK j \in Same : \A k \in Same : j <= k
    <3> HIDE DEF Same
    <3> QED BY <2>1, LeastNat
  <2>3. /\ j \in 1..Len(s) /\ wire[s[j]] = wire[s[i]]
        /\ \A k \in 1..Len(s) : k < j => wire[s[k]] # wire[s[j]]
    <3>1. j \in 1..Len(s) /\ wire[s[j]] = wire[s[i]]
      OBVIOUS
    <3>2. ASSUME NEW k \in 1..Len(s), k < j PROVE wire[s[k]] # wire[s[j]]
      <4>1. k \notin Same
        BY <1>1, <2>2, <3>1, <3>2
      <4> QED BY <3>1, <4>1
    <3> QED BY <3>1, <3>2
  <2>4. j \in at
    BY <1>2, <1>12, <2>3
  <2>5. PICK m \in 1..C : nth[m] = j
    BY <1>7, <2>4
  <2>6. new[m] = s[j]
    BY <1>8, <2>5
  <2> QED BY <2>3, <2>6
<1> QED
  BY <1>1, <1>3, <1>4, <1>9, <1>10, <1>11, <1>12

\* What the dedupe window keeps of a sequence of keys.
LEMMA TrimmedKeeps ==
  ASSUME DedupeWindow \in Nat \ {0}, NEW keys \in Seq(Keys)
  PROVE  /\ Trimmed(keys) \in Seq(Keys)
         /\ Len(Trimmed(keys)) = IF Len(keys) <= DedupeWindow
                                 THEN Len(keys) ELSE DedupeWindow
         /\ \A i \in 1..Len(Trimmed(keys)) :
              Trimmed(keys)[i] = keys[Len(keys) - Len(Trimmed(keys)) + i]
<1> DEFINE n == Len(keys)
           a == IF 1 >= n - DedupeWindow + 1 THEN 1 ELSE n - DedupeWindow + 1
<1>1. n \in Nat /\ DedupeWindow \in Nat /\ DedupeWindow >= 1
  OBVIOUS
<1>2. Trimmed(keys) = SubSeq(keys, a, n)
  <2>1. Max({1, n - DedupeWindow + 1}) = a
    BY <1>1, MaxOfTwo
  <2> QED BY <2>1 DEF Trimmed
<1>3. a \in Int /\ a >= 1
      /\ n - a + 1 = (IF n <= DedupeWindow THEN n ELSE DedupeWindow)
  BY <1>1
<1>4. \A i \in a..n : keys[i] \in Keys
  BY <1>1, <1>3
<1> HIDE DEF a
<1>5. /\ SubSeq(keys, a, n) \in Seq(Keys)
      /\ Len(SubSeq(keys, a, n)) = IF a <= n THEN n - a + 1 ELSE 0
      /\ \A i \in 1..n - a + 1 : SubSeq(keys, a, n)[i] = keys[a + i - 1]
  BY <1>1, <1>3, <1>4, SubSeqProperties
<1>6. Len(SubSeq(keys, a, n)) = n - a + 1
  BY <1>1, <1>3, <1>5
<1>7. \A i \in 1..n - a + 1 : a + i - 1 = n - (n - a + 1) + i
  BY <1>1, <1>3
<1> QED
  BY <1>2, <1>3, <1>5, <1>6, <1>7

-----------------------------------------------------------------------------
(***************************************************************************)
(* The inductive invariant.                                                *)
(***************************************************************************)

\* Events received whose put is still to come.
Pending == Range(putting) \ {None}

\* Every event received is counted once: on its way, or where it ended.
Counted ==
  metrics.received =
    Cardinality(Pending) + Len(queue) + Len(batch) + Len(lost)
      + metrics.dropped + metrics.duplicate + metrics.persisted

\* An event is put by the thread that received it.
PendingOnce ==
  /\ Pending \subseteq 1..metrics.received
  /\ \A t, u \in Threads :
       putting[t] = putting[u] /\ putting[t] # None => t = u

BatchIsHeld == batch # <<>> => writer \in {"collect", "persist"}

\* A remembered key has a row, or had one that was rolled back.
SeenIsKept ==
  \A i \in 1..Len(seen) :
    \E k \in ToSet(stored) \cup ToSet(lost) : wire[k] = seen[i]

\* The keys remembered are those of the newest rows.
SeenIsRecent ==
  lost = <<>> =>
    /\ Len(seen) = IF Len(stored) <= DedupeWindow THEN Len(stored) ELSE DedupeWindow
    /\ \A i \in 1..Len(seen) :
         seen[i] = wire[stored[Len(stored) - Len(seen) + i]]

RecorderInv ==
  /\ TypeOK /\ Counted /\ PendingOnce /\ BatchIsHeld /\ SeenIsKept /\ SeenIsRecent
  /\ NothingLostUncounted /\ DuplicatesFarApart

\* The counters, one by one.
LEMMA MetricsFields ==
  ASSUME NEW S,
         NEW m \in [{"received", "dropped", "duplicate", "persisted"} -> S]
  PROVE  /\ m.received \in S /\ m.dropped \in S
         /\ m.duplicate \in S /\ m.persisted \in S
         /\ \A x : /\ [m EXCEPT !.received = x].received = x
                   /\ [m EXCEPT !.received = x].dropped = m.dropped
                   /\ [m EXCEPT !.received = x].duplicate = m.duplicate
                   /\ [m EXCEPT !.received = x].persisted = m.persisted
         /\ \A x : /\ [m EXCEPT !.dropped = x].received = m.received
                   /\ [m EXCEPT !.dropped = x].dropped = x
                   /\ [m EXCEPT !.dropped = x].duplicate = m.duplicate
                   /\ [m EXCEPT !.dropped = x].persisted = m.persisted
         /\ \A x, y :
              LET n == [m EXCEPT !.duplicate = x, !.persisted = y]
              IN  /\ n.received = m.received /\ n.dropped = m.dropped
                  /\ n.duplicate = x /\ n.persisted = y
  OBVIOUS

\* What the counts of the recorder are numbers of.
LEMMA Numbers ==
  ASSUME RecorderAssumption, TypeOK, PendingOnce
  PROVE  /\ metrics.received \in Nat /\ metrics.dropped \in Nat
         /\ metrics.duplicate \in Nat /\ metrics.persisted \in Nat
         /\ Len(queue) \in Nat /\ Len(batch) \in Nat /\ Len(lost) \in Nat
         /\ IsFiniteSet(Pending) /\ Cardinality(Pending) \in Nat
<1>1. /\ metrics.received \in Nat /\ metrics.dropped \in Nat
      /\ metrics.duplicate \in Nat /\ metrics.persisted \in Nat
  BY DEF TypeOK, RecorderAssumption
<1>2. \A n \in Nat : IsFiniteSet(1..n)
  BY FS_Interval
<1>3. IsFiniteSet(Pending)
  BY <1>1, <1>2, FS_Subset DEF PendingOnce
<1>4. Len(queue) \in Nat /\ Len(batch) \in Nat /\ Len(lost) \in Nat
  BY DEF TypeOK
<1> QED
  BY <1>1, <1>3, <1>4, FS_CardinalityType

\* The length of a sequence is a natural number.
LEMMA LenIsNat ==
  ASSUME NEW S, NEW s \in Seq(S)
  PROVE  Len(s) \in Nat
  OBVIOUS

\* The elements of a sequence.
LEMMA ElementsOf ==
  ASSUME NEW S, NEW s \in Seq(S)
  PROVE  ToSet(s) = {s[i] : i \in 1..Len(s)}
  BY DEF ToSet

LEMMA NoElements == ToSet(<<>>) = {}
  BY DEF ToSet

\* Every counter is bounded when the events received are.
LEMMA CountersBounded ==
  ASSUME MaxEvents \in Nat,
         NEW m \in [{"received", "dropped", "duplicate", "persisted"} -> Nat],
         NEW n \in Nat,
         m.received = n + m.dropped + m.duplicate + m.persisted,
         m.received <= MaxEvents
  PROVE  m \in [{"received", "dropped", "duplicate", "persisted"} -> 0..MaxEvents]
<1>1. /\ m.received \in Nat /\ m.dropped \in Nat
      /\ m.duplicate \in Nat /\ m.persisted \in Nat
  OBVIOUS
<1>2. /\ m.received \in 0..MaxEvents /\ m.dropped \in 0..MaxEvents
      /\ m.duplicate \in 0..MaxEvents /\ m.persisted \in 0..MaxEvents
  BY <1>1
<1> QED
  BY <1>2

\* new are the events of s to keep and rows those of them that are inserted.
RowsAdded(s, new, rows) ==
  /\ new \in Seq(Event) /\ rows \in Seq(Event) /\ Len(new) <= Len(s)
  /\ stored' \in Seq(Event)
  /\ Len(stored') = Len(stored) + Len(rows)
  /\ \A i \in 1..Len(stored) : stored'[i] = stored[i]
  /\ \A i \in 1..Len(rows) : stored'[Len(stored) + i] = rows[i]

\* Those of new that are not inserted are lost, and nothing lost comes back.
RowsLost(new, rows) ==
  /\ lost' \in Seq(Event)
  /\ Len(lost') + Len(rows) = Len(lost) + Len(new)
  /\ ToSet(lost) \subseteq ToSet(lost')
  /\ ToSet(new) \subseteq ToSet(rows) \cup ToSet(lost')
  /\ lost' = <<>> => lost = <<>> /\ rows = new

WindowMoved(new) ==
  /\ seen' \in Seq(Keys)
  /\ Len(seen') = IF Len(seen) + Len(new) <= DedupeWindow
                  THEN Len(seen) + Len(new) ELSE DedupeWindow
  /\ \A i \in 1..Len(seen') :
       LET at == Len(seen) + Len(new) - Len(seen') + i
       IN  seen'[i] = IF at <= Len(seen) THEN seen[at] ELSE wire[new[at - Len(seen)]]

RowsCounted(s, new, rows) ==
  /\ metrics' \in [{"received", "dropped", "duplicate", "persisted"} -> Nat]
  /\ metrics'.received = metrics.received
  /\ metrics'.dropped = metrics.dropped
  /\ metrics'.duplicate = metrics.duplicate + Len(s) - Len(new)
  /\ metrics'.persisted = metrics.persisted + Len(rows)

\* What a step that persists s does to the store and to the window.
LEMMA PersistRows ==
  ASSUME RecorderAssumption, TypeOK, NEW s \in Seq(Event),
         NEW commits \in BOOLEAN, Persist(s, commits),
         NEW new, new = Fresh(s, ToSet(seen)),
         NEW rows, rows = IF commits THEN new ELSE <<>>
  PROVE  /\ RowsAdded(s, new, rows) /\ WindowMoved(new) /\ RowsCounted(s, new, rows)
         /\ RowsLost(new, rows)
<1> DEFINE keys == seen \o KeysOf(new)
           counters == {"received", "dropped", "duplicate", "persisted"}
<1>1. wire \in [Event -> Keys]
  BY DEF TypeOK, RecorderAssumption, Event
<1>2. new \in Seq(Event) /\ Len(new) <= Len(s) /\ Len(s) \in Nat /\ Len(new) \in Nat
  BY <1>1, FreshKeeps
<1>3. rows \in Seq(Event)
  BY <1>2
<1>4. stored' = stored \o rows /\ stored \in Seq(Event)
  BY DEF Persist, TypeOK
<1>5. /\ stored' \in Seq(Event)
      /\ Len(stored') = Len(stored) + Len(rows)
      /\ \A i \in 1..Len(stored) : stored'[i] = stored[i]
      /\ \A i \in 1..Len(rows) : stored'[Len(stored) + i] = rows[i]
  <2> QED BY <1>3, <1>4
<1>6. seen' = Trimmed(keys) /\ seen \in Seq(Keys) /\ Len(seen) \in Nat
  BY DEF Persist, TypeOK
<1>7. /\ keys \in Seq(Keys) /\ Len(keys) = Len(seen) + Len(new)
      /\ \A at \in 1..Len(seen) + Len(new) :
           keys[at] = IF at <= Len(seen) THEN seen[at] ELSE wire[new[at - Len(seen)]]
  <2>1. /\ KeysOf(new) \in Seq(Keys) /\ Len(KeysOf(new)) = Len(new)
        /\ \A i \in 1..Len(new) : KeysOf(new)[i] = wire[new[i]]
    BY <1>1, <1>2, KeysOfSeq
  <2>2. /\ keys \in Seq(Keys) /\ Len(keys) = Len(seen) + Len(KeysOf(new))
        /\ \A i \in 1..Len(seen) + Len(KeysOf(new)) :
             keys[i] = IF i <= Len(seen) THEN seen[i] ELSE KeysOf(new)[i - Len(seen)]
    <3>1. \A ks \in Seq(Keys) :
            /\ seen \o ks \in Seq(Keys) /\ Len(seen \o ks) = Len(seen) + Len(ks)
            /\ \A i \in 1..Len(seen) + Len(ks) :
                 (seen \o ks)[i] = IF i <= Len(seen) THEN seen[i] ELSE ks[i - Len(seen)]
      BY <1>6, ConcatProperties
    <3> QED BY <2>1, <3>1
  <2>3. \A at \in 1..Len(seen) + Len(new) : at <= Len(seen) \/ at - Len(seen) \in 1..Len(new)
    BY <1>2, <1>6
  <2> HIDE DEF keys
  <2> QED BY <2>1, <2>2, <2>3
<1>8. /\ seen' \in Seq(Keys)
      /\ Len(seen') = IF Len(seen) + Len(new) <= DedupeWindow
                      THEN Len(seen) + Len(new) ELSE DedupeWindow
      /\ \A i \in 1..Len(seen') :
           seen'[i] = keys[Len(seen) + Len(new) - Len(seen') + i]
  <2> HIDE DEF keys
  <2>1. DedupeWindow \in Nat \ {0}
    BY DEF RecorderAssumption
  <2>2. /\ Trimmed(keys) \in Seq(Keys)
        /\ Len(Trimmed(keys)) = IF Len(keys) <= DedupeWindow
                                THEN Len(keys) ELSE DedupeWindow
        /\ \A i \in 1..Len(Trimmed(keys)) :
             Trimmed(keys)[i] = keys[Len(keys) - Len(Trimmed(keys)) + i]
    BY <1>7, <2>1, TrimmedKeeps
  <2> DEFINE kept == Trimmed(keys)
             n == Len(keys)
  <2>3. seen' = kept /\ n = Len(seen) + Len(new)
    BY <1>6, <1>7
  <2>4. /\ kept \in Seq(Keys)
        /\ Len(kept) = IF n <= DedupeWindow THEN n ELSE DedupeWindow
        /\ \A i \in 1..Len(kept) : kept[i] = keys[n - Len(kept) + i]
    BY <2>2
  <2> HIDE DEF kept, n
  <2> QED BY <2>3, <2>4
<1>9. \A i \in 1..Len(seen') :
        LET at == Len(seen) + Len(new) - Len(seen') + i
        IN  seen'[i] = IF at <= Len(seen) THEN seen[at] ELSE wire[new[at - Len(seen)]]
  <2> HIDE DEF keys
  <2> SUFFICES ASSUME NEW i \in 1..Len(seen')
               PROVE  LET at == Len(seen) + Len(new) - Len(seen') + i
                      IN  seen'[i] = IF at <= Len(seen) THEN seen[at]
                                     ELSE wire[new[at - Len(seen)]]
    OBVIOUS
  <2> DEFINE at == Len(seen) + Len(new) - Len(seen') + i
  <2>1. DedupeWindow \in Nat
    BY DEF RecorderAssumption
  <2>2. at \in 1..Len(seen) + Len(new)
    BY <1>2, <1>6, <1>8, <2>1
  <2> QED BY <1>7, <1>8, <2>2
<1>10. /\ metrics' = [metrics EXCEPT !.duplicate = metrics.duplicate + Len(s) - Len(new),
                                     !.persisted = metrics.persisted + Len(rows)]
       /\ metrics \in [counters -> 0..MaxEvents]
  BY DEF Persist, TypeOK
<1>11. /\ metrics.received \in Nat /\ metrics.dropped \in Nat
       /\ metrics.duplicate \in Nat /\ metrics.persisted \in Nat
       /\ Len(rows) \in Nat
  <2>1. MaxEvents \in Nat
    BY DEF RecorderAssumption
  <2>2. Len(rows) \in Nat
    BY <1>3
  <2> QED BY <1>10, <2>1, <2>2
<1>12. /\ metrics'.received = metrics.received
       /\ metrics'.dropped = metrics.dropped
       /\ metrics'.duplicate = metrics.duplicate + Len(s) - Len(new)
       /\ metrics'.persisted = metrics.persisted + Len(rows)
  <2> QED BY <1>10, MetricsFields
<1>13. metrics' \in [counters -> Nat]
  <2>1. metrics.duplicate + Len(s) - Len(new) \in Nat
    BY <1>2, <1>11
  <2>2. metrics.persisted + Len(rows) \in Nat
    BY <1>11
  <2>3. metrics \in [counters -> Nat]
    BY <1>10 DEF RecorderAssumption
  <2> QED BY <1>10, <2>1, <2>2, <2>3
<1>14. RowsAdded(s, new, rows)
  BY <1>2, <1>3, <1>5 DEF RowsAdded
<1>15. WindowMoved(new)
  <2> HIDE DEF keys
  <2> QED BY <1>8, <1>9 DEF WindowMoved
<1>16. RowsCounted(s, new, rows)
  BY <1>12, <1>13 DEF RowsCounted
<1>17. RowsLost(new, rows)
  <2>1. lost \in Seq(Event) /\ Len(lost) \in Nat
    BY LenIsNat DEF TypeOK
  <2>2. CASE commits
    <3>1. rows = new /\ lost' = lost
      BY <2>2 DEF Persist
    <3> QED BY <2>1, <3>1 DEF RowsLost
  <2>3. CASE ~commits
    <3>1. rows = <<>> /\ lost' = lost \o new /\ new # <<>>
      BY <2>3 DEF Persist
    <3>2. /\ lost' \in Seq(Event) /\ Len(lost') = Len(lost) + Len(new)
          /\ \A i \in 1..Len(lost) : lost'[i] = lost[i]
          /\ \A i \in 1..Len(new) : lost'[Len(lost) + i] = new[i]
      BY <1>2, <2>1, <3>1
    <3>3. /\ ToSet(lost) = {lost[i] : i \in 1..Len(lost)}
          /\ ToSet(new) = {new[i] : i \in 1..Len(new)}
          /\ ToSet(lost') = {lost'[i] : i \in 1..Len(lost')}
      <4>1. ToSet(lost) = {lost[i] : i \in 1..Len(lost)}
        BY <2>1, ElementsOf
      <4>2. ToSet(new) = {new[i] : i \in 1..Len(new)}
        BY <1>2, ElementsOf
      <4>3. ToSet(lost') = {lost'[i] : i \in 1..Len(lost')}
        BY <3>2, ElementsOf
      <4> QED BY <4>1, <4>2, <4>3
    <3>4. /\ \A i \in 1..Len(lost) : i \in 1..Len(lost')
          /\ \A i \in 1..Len(new) : Len(lost) + i \in 1..Len(lost')
      BY <1>2, <2>1, <3>2
    <3>5. ToSet(lost) \subseteq ToSet(lost') /\ ToSet(new) \subseteq ToSet(lost')
      BY <3>2, <3>3, <3>4
    <3>6. Len(new) # 0 /\ Len(rows) = 0
      BY <1>2, <3>1
    <3>7. lost' # <<>>
      BY <1>2, <2>1, <3>2, <3>6
    <3>8. Len(lost') + Len(rows) = Len(lost) + Len(new)
      <4> DEFINE a == Len(lost)
                 b == Len(new)
                 c == Len(rows)
      <4>1. a \in Nat /\ b \in Nat /\ Len(lost') = a + b /\ c = 0
        BY <1>2, <2>1, <3>2, <3>6
      <4> HIDE DEF a, b, c
      <4>2. Len(lost') + c = a + b
        BY <4>1
      <4> QED BY <4>2 DEF a, b, c
    <3> HIDE DEF keys, counters
    <3> QED BY <3>2, <3>5, <3>7, <3>8 DEF RowsLost
  <2> QED BY <2>2, <2>3
<1> QED
  BY <1>14, <1>15, <1>16, <1>17

\* The events kept of s are told apart from the window and from each other.
FreshOf(s, new) ==
  /\ new \in Seq(Event)
  /\ \A m \in 1..Len(new), i \in 1..Len(seen) : wire[new[m]] # seen[i]
  /\ \A m, n \in 1..Len(new) : m < n => wire[new[m]] # wire[new[n]]
  /\ \A i \in 1..Len(s) :
       \/ \E k \in 1..Len(seen) : seen[k] = wire[s[i]]
       \/ \E m \in 1..Len(new) : wire[new[m]] = wire[s[i]]

LEMMA FreshIsFresh ==
  ASSUME RecorderAssumption, TypeOK, NEW s \in Seq(Event),
         NEW new, new = Fresh(s, ToSet(seen))
  PROVE  FreshOf(s, new)
<1>1. wire \in [Event -> Keys]
  BY DEF TypeOK, RecorderAssumption, Event
<1>2. ToSet(seen) = {seen[i] : i \in 1..Len(seen)}
  BY DEF ToSet, TypeOK
<1> DEFINE known == ToSet(seen)
<1>3. \A k : k \in known <=> \E i \in 1..Len(seen) : seen[i] = k
  BY <1>2
<1> HIDE DEF known
<1>4. new = Fresh(s, known)
  BY DEF known
<1>5. /\ new \in Seq(Event)
      /\ \A m \in 1..Len(new) : wire[new[m]] \notin known
      /\ \A m, n \in 1..Len(new) : m < n => wire[new[m]] # wire[new[n]]
      /\ \A i \in 1..Len(s) :
           \/ wire[s[i]] \in known
           \/ \E m \in 1..Len(new) : wire[new[m]] = wire[s[i]]
  BY <1>1, <1>4, FreshKeeps
<1> QED
  BY <1>3, <1>5 DEF FreshOf

\* Persisting moves events from one of the numbers added up to another.
LEMMA PersistCounted ==
  ASSUME RecorderAssumption, TypeOK, Counted, PendingOnce,
         NEW s, Len(s) \in Nat, NEW new, Len(new) \in Nat,
         NEW rows, Len(rows) \in Nat,
         RowsCounted(s, new, rows), RowsLost(new, rows), putting' = putting,
         Len(queue') \in Nat, Len(batch') \in Nat,
         Len(queue') + Len(batch') + Len(s) = Len(queue) + Len(batch)
  PROVE  Counted' /\ PendingOnce'
<1>1. Pending' = Pending
  BY DEF Pending
<1>2. Counted'
  <2>1. /\ metrics.received \in Nat /\ metrics.dropped \in Nat
        /\ metrics.duplicate \in Nat /\ metrics.persisted \in Nat
        /\ Len(queue) \in Nat /\ Len(batch) \in Nat /\ Len(lost) \in Nat
        /\ Cardinality(Pending) \in Nat
    BY Numbers
  <2> DEFINE p == Cardinality(Pending)
             ls == Len(s)
             ln == Len(new)
             lr == Len(rows)
             q  == Len(queue)
             b  == Len(batch)
             q2 == Len(queue')
             b2 == Len(batch')
             g  == Len(lost)
             g2 == Len(lost')
             r  == metrics.received
             d  == metrics.dropped
             u  == metrics.duplicate
             e  == metrics.persisted
  <2>2. /\ ls \in Int /\ ln \in Int /\ lr \in Int /\ p \in Int
        /\ q \in Int /\ b \in Int /\ q2 \in Int /\ b2 \in Int
        /\ g \in Int /\ g2 \in Int
        /\ r \in Int /\ d \in Int /\ u \in Int /\ e \in Int
    <3>1. \A n \in Nat : n \in Int
      OBVIOUS
    <3>2. ls \in Int /\ ln \in Int /\ lr \in Int /\ q2 \in Int /\ b2 \in Int
      BY <3>1
    <3>3. q \in Int /\ b \in Int /\ p \in Int
      BY <2>1, <3>1
    <3>4. r \in Int /\ d \in Int /\ u \in Int /\ e \in Int
      BY <2>1, <3>1
    <3>5. lost' \in Seq(Event)
      BY DEF RowsLost
    <3>6. g \in Int /\ g2 \in Int
      BY <2>1, <3>1, <3>5, LenIsNat
    <3> QED BY <3>2, <3>3, <3>4, <3>6
  <2>3. Cardinality(Pending') = p
    BY <1>1
  <2>4. /\ q2 + b2 + ls = q + b /\ g2 + lr = g + ln
        /\ r = p + q + b + g + d + u + e
    BY DEF Counted, RowsLost
  <2>5. /\ metrics'.received = r
        /\ metrics'.dropped = d
        /\ metrics'.duplicate = u + ls - ln
        /\ metrics'.persisted = e + lr
    BY DEF RowsCounted
  <2>6. r = p + q2 + b2 + g2 + d + (u + ls - ln) + (e + lr)
    <3> HIDE DEF p, ls, ln, lr, q, b, q2, b2, g, g2, r, d, u, e
    <3> QED BY <2>2, <2>4
  <2>7. metrics'.received = p + q2 + b2 + g2
             + metrics'.dropped + metrics'.duplicate + metrics'.persisted
    <3> HIDE DEF p, ls, ln, lr, q, b, q2, b2, g, g2, r, d, u, e
    <3> QED BY <2>5, <2>6
  <2> QED BY <2>3, <2>7 DEF Counted
<1>3. PendingOnce'
  BY <1>1 DEF PendingOnce, RowsCounted
<1> QED
  BY <1>2, <1>3

\* Rows are added to the store, none is removed.
LEMMA StoreGrows ==
  ASSUME TypeOK, NEW s, NEW new, NEW rows, RowsAdded(s, new, rows)
  PROVE  ToSet(stored) \subseteq ToSet(stored') /\ ToSet(rows) \subseteq ToSet(stored')
<1>1. /\ stored \in Seq(Event) /\ stored' \in Seq(Event) /\ rows \in Seq(Event)
      /\ Len(stored) \in Nat /\ Len(rows) \in Nat
  <2>1. stored \in Seq(Event) /\ stored' \in Seq(Event) /\ rows \in Seq(Event)
    BY DEF TypeOK, RowsAdded
  <2> QED BY <2>1, LenIsNat
<1>2. ToSet(stored') = {stored'[i] : i \in 1..Len(stored')}
  BY <1>1 DEF ToSet
<1>3. ToSet(stored) = {stored[i] : i \in 1..Len(stored)}
  BY <1>1 DEF ToSet
<1>4. ToSet(rows) = {rows[i] : i \in 1..Len(rows)}
  BY <1>1 DEF ToSet
<1>5. /\ \A i \in 1..Len(stored) : i \in 1..Len(stored') /\ stored'[i] = stored[i]
      /\ \A i \in 1..Len(rows) : /\ Len(stored) + i \in 1..Len(stored')
                                 /\ stored'[Len(stored) + i] = rows[i]
  BY <1>1 DEF RowsAdded
<1> QED
  BY <1>2, <1>3, <1>4, <1>5

\* A key remembered after the step has a row, or had its row before it.
LEMMA PersistSeen ==
  ASSUME RecorderAssumption, TypeOK, SeenIsKept,
         NEW s \in Seq(Event), NEW new \in Seq(Event), NEW rows \in Seq(Event),
         RowsAdded(s, new, rows), RowsLost(new, rows), WindowMoved(new), wire' = wire
  PROVE  SeenIsKept'
<1>1. /\ Len(seen) \in Nat /\ Len(new) \in Nat /\ Len(seen') \in Nat
      /\ Len(stored) \in Nat /\ Len(rows) \in Nat
      /\ seen \in Seq(Keys) /\ stored \in Seq(Event) /\ stored' \in Seq(Event)
  <2>1. /\ seen \in Seq(Keys) /\ stored \in Seq(Event) /\ stored' \in Seq(Event)
        /\ seen' \in Seq(Keys)
    BY DEF TypeOK, RowsAdded, WindowMoved
  <2> QED BY <2>1, LenIsNat
<1> DEFINE kept2 == ToSet(stored') \cup ToSet(lost')
<1>2. /\ ToSet(stored) \cup ToSet(lost) \subseteq kept2
      /\ ToSet(new) \subseteq kept2
  BY StoreGrows DEF RowsLost
<1> HIDE DEF kept2
<1>3. ASSUME NEW i \in 1..Len(seen') PROVE \E k \in kept2 : wire[k] = seen'[i]
  <2> DEFINE at == Len(seen) + Len(new) - Len(seen') + i
  <2>1. at \in 1..Len(seen) + Len(new)
    <3>1. DedupeWindow \in Nat
      BY DEF RecorderAssumption
    <3>2. Len(seen') = IF Len(seen) + Len(new) <= DedupeWindow
                       THEN Len(seen) + Len(new) ELSE DedupeWindow
      BY DEF WindowMoved
    <3> QED BY <1>1, <3>1, <3>2
  <2>2. seen'[i] = IF at <= Len(seen) THEN seen[at] ELSE wire[new[at - Len(seen)]]
    BY DEF WindowMoved
  <2> HIDE DEF at
  <2>3. CASE at <= Len(seen)
    <3>1. at \in 1..Len(seen)
      BY <1>1, <2>1, <2>3
    <3>2. PICK k \in ToSet(stored) \cup ToSet(lost) : wire[k] = seen[at]
      BY <3>1 DEF SeenIsKept
    <3>3. k \in kept2
      BY <1>2, <3>2
    <3> QED BY <2>2, <2>3, <3>2, <3>3
  <2>4. CASE at > Len(seen)
    <3>1. at - Len(seen) \in 1..Len(new)
      BY <1>1, <2>1, <2>4
    <3>2. new[at - Len(seen)] \in ToSet(new)
      BY <3>1 DEF ToSet
    <3>3. new[at - Len(seen)] \in kept2
      BY <1>2, <3>2
    <3>4. seen'[i] = wire[new[at - Len(seen)]]
      BY <1>1, <2>1, <2>2, <2>4
    <3> QED BY <3>3, <3>4
  <2> QED BY <1>1, <2>1, <2>3, <2>4
<1> QED
  BY <1>3 DEF SeenIsKept, kept2

\* The window goes on holding the keys of the newest rows.
LEMMA PersistRecent ==
  ASSUME RecorderAssumption, TypeOK, SeenIsRecent, lost = <<>>,
         NEW s \in Seq(Event), NEW new \in Seq(Event),
         RowsAdded(s, new, new), WindowMoved(new), wire' = wire
  PROVE  SeenIsRecent'
<1> DEFINE L  == Len(stored)
           N  == Len(new)
           w  == Len(seen)
           w2 == Len(seen')
           L2 == Len(stored')
<1>1. L \in Nat /\ N \in Nat /\ w \in Nat /\ w2 \in Nat /\ L2 = L + N
  <2>1. /\ stored \in Seq(Event) /\ stored' \in Seq(Event)
        /\ seen \in Seq(Keys) /\ seen' \in Seq(Keys)
    BY DEF TypeOK, RowsAdded, WindowMoved
  <2>2. L2 = L + N
    BY DEF RowsAdded
  <2> QED BY <2>1, <2>2, LenIsNat
<1>2. DedupeWindow \in Nat
  BY DEF RecorderAssumption
<1>3. w = IF L <= DedupeWindow THEN L ELSE DedupeWindow
  BY DEF SeenIsRecent
<1>4. \A i \in 1..w : seen[i] = wire[stored[L - w + i]]
  BY DEF SeenIsRecent
<1>5. w2 = IF w + N <= DedupeWindow THEN w + N ELSE DedupeWindow
  BY DEF WindowMoved
<1>6. \A i \in 1..w2 :
        seen'[i] = IF w + N - w2 + i <= w THEN seen[w + N - w2 + i]
                   ELSE wire[new[w + N - w2 + i - w]]
  BY DEF WindowMoved
<1>7. /\ \A i \in 1..L : stored'[i] = stored[i]
      /\ \A i \in 1..N : stored'[L + i] = new[i]
  BY DEF RowsAdded
<1>8. w2 = IF L2 <= DedupeWindow THEN L2 ELSE DedupeWindow
  <2> HIDE DEF L, N, w, w2, L2
  <2> QED BY <1>1, <1>2, <1>3, <1>5
<1>9. \A i \in 1..w2 : seen'[i] = wire[stored'[L2 - w2 + i]]
  <2> HIDE DEF L, N, w, w2, L2
  <2> SUFFICES ASSUME NEW i \in 1..w2
               PROVE  seen'[i] = wire[stored'[L2 - w2 + i]]
    OBVIOUS
  <2>1. w2 <= w + N /\ w <= L
    BY <1>1, <1>2, <1>3, <1>5
  <2>2. CASE w + N - w2 + i <= w
    <3> DEFINE at == w + N - w2 + i
    <3>1. at \in 1..w /\ L - w + at = L2 - w2 + i /\ L - w + at \in 1..L
      BY <1>1, <2>1, <2>2
    <3>2. seen'[i] = seen[at]
      BY <1>6, <2>2
    <3> HIDE DEF at
    <3>3. seen[at] = wire[stored[L - w + at]]
      BY <1>4, <3>1
    <3>4. stored'[L - w + at] = stored[L - w + at]
      BY <1>7, <3>1
    <3> QED BY <3>1, <3>2, <3>3, <3>4
  <2>3. CASE ~(w + N - w2 + i <= w)
    <3> DEFINE at == w + N - w2 + i - w
    <3>1. at \in 1..N /\ L + at = L2 - w2 + i
      BY <1>1, <2>1, <2>3
    <3>2. seen'[i] = wire[new[at]]
      BY <1>6, <2>3
    <3> HIDE DEF at
    <3>3. stored'[L + at] = new[at]
      BY <1>7, <3>1
    <3> QED BY <3>1, <3>2, <3>3
  <2> QED BY <2>2, <2>3
<1> QED
  BY <1>8, <1>9 DEF SeenIsRecent

\* A row is only added when its observation has none among the newest rows.
LEMMA PersistFar ==
  ASSUME RecorderAssumption, TypeOK, SeenIsRecent, DuplicatesFarApart,
         lost = <<>>,
         NEW s \in Seq(Event), NEW new \in Seq(Event), FreshOf(s, new),
         RowsAdded(s, new, new), wire' = wire
  PROVE  DuplicatesFarApart'
<1> DEFINE L  == Len(stored)
           N  == Len(new)
           w  == Len(seen)
<1>1. L \in Nat /\ N \in Nat /\ w \in Nat /\ Len(stored') = L + N
      /\ DOMAIN stored = 1..L /\ DOMAIN stored' = 1..L + N
  <2>1. /\ stored \in Seq(Event) /\ stored' \in Seq(Event) /\ seen \in Seq(Keys)
        /\ Len(stored') = L + N
    BY DEF TypeOK, RowsAdded
  <2> QED BY <2>1, LenIsNat
<1>2. DedupeWindow \in Nat
  BY DEF RecorderAssumption
<1>3. w = IF L <= DedupeWindow THEN L ELSE DedupeWindow
  BY DEF SeenIsRecent
<1>4. \A i \in 1..w : seen[i] = wire[stored[L - w + i]]
  BY DEF SeenIsRecent
<1>5. /\ \A i \in 1..L : stored'[i] = stored[i]
      /\ \A i \in 1..N : stored'[L + i] = new[i]
  BY DEF RowsAdded
<1>6. /\ \A m \in 1..N, i \in 1..w : wire[new[m]] # seen[i]
      /\ \A m, n \in 1..N : m < n => wire[new[m]] # wire[new[n]]
  BY DEF FreshOf
<1>7. \A i, j \in 1..L :
        i < j /\ wire[stored[i]] = wire[stored[j]] => j - i > DedupeWindow
  BY <1>1 DEF DuplicatesFarApart
<1> HIDE DEF L, N, w
<1>8. ASSUME NEW i \in 1..L + N, NEW j \in 1..L + N, i < j,
             wire[stored'[i]] = wire[stored'[j]]
      PROVE  j - i > DedupeWindow
  <2>1. CASE j <= L
    <3>1. i \in 1..L /\ j \in 1..L
      BY <1>1, <1>8, <2>1
    <3>2. stored'[i] = stored[i] /\ stored'[j] = stored[j]
      BY <1>5, <3>1
    <3> QED BY <1>7, <1>8, <3>1, <3>2
  <2>2. CASE i <= L /\ j > L
    <3>1. i \in 1..L /\ j - L \in 1..N /\ L + (j - L) = j
      BY <1>1, <1>8, <2>2
    <3>2. stored'[i] = stored[i] /\ stored'[j] = new[j - L]
      BY <1>5, <3>1
    <3>3. wire[new[j - L]] = wire[stored[i]]
      BY <1>8, <3>2
    <3>4. ~(i > L - w)
      <4>1. SUFFICES ASSUME i > L - w PROVE FALSE
        OBVIOUS
      <4>2. i - (L - w) \in 1..w /\ L - w + (i - (L - w)) = i
        BY <1>1, <3>1, <4>1
      <4>3. seen[i - (L - w)] = wire[stored[i]]
        BY <1>4, <4>2
      <4>4. wire[new[j - L]] # seen[i - (L - w)]
        BY <1>6, <3>1, <4>2
      <4> QED BY <3>3, <4>3, <4>4
    <3>5. w = DedupeWindow
      BY <1>1, <1>2, <1>3, <3>1, <3>4
    <3> QED BY <1>1, <1>2, <2>2, <3>4, <3>5
  <2>3. CASE i > L
    <3>1. i - L \in 1..N /\ j - L \in 1..N /\ i - L < j - L
          /\ L + (i - L) = i /\ L + (j - L) = j
      BY <1>1, <1>8, <2>3
    <3>2. stored'[i] = new[i - L] /\ stored'[j] = new[j - L]
      BY <1>5, <3>1
    <3>3. wire[new[i - L]] # wire[new[j - L]]
      BY <1>6, <3>1
    <3> QED BY <1>8, <3>2, <3>3
  <2> QED BY <1>1, <2>1, <2>2, <2>3
<1> QED
  BY <1>1, <1>8 DEF DuplicatesFarApart

\* No observation that has a row, is held or was lost is forgotten by a step
\* that persists s: the events of s not kept are copies of ones that are.
LEMMA PersistLosesNothing ==
  ASSUME RecorderAssumption, TypeOK, NothingLostUncounted, SeenIsKept,
         NEW s \in Seq(Event), NEW new \in Seq(Event), NEW rows \in Seq(Event),
         FreshOf(s, new), RowsAdded(s, new, rows), RowsCounted(s, new, rows),
         RowsLost(new, rows), wire' = wire, putting' = putting,
         InFlight \subseteq ToSet(s) \cup InFlight'
  PROVE  NothingLostUncounted'
<1> DEFINE kept1 == ToSet(stored) \cup ToSet(lost)
           kept2 == ToSet(stored') \cup ToSet(lost')
<1>1. kept1 \subseteq kept2 /\ ToSet(new) \subseteq kept2
  BY StoreGrows DEF RowsLost
<1>2. /\ metrics'.dropped = metrics.dropped /\ metrics'.received = metrics.received
  BY DEF RowsCounted
<1>3. \A i \in 1..Len(seen) : \E k \in kept1 : wire[k] = seen[i]
  BY DEF SeenIsKept
<1>4. Held \subseteq ToSet(s) \cup Held'
  BY DEF Held
<1> HIDE DEF kept1, kept2
<1>5. ASSUME metrics.dropped = 0, NEW e \in 1..metrics.received
      PROVE  \E k \in kept2 \cup Held' : wire[k] = wire[e]
  <2>1. PICK k \in kept1 \cup Held : wire[k] = wire[e]
    BY <1>5 DEF NothingLostUncounted, HasAll, kept1
  <2>2. CASE k \notin ToSet(s)
    BY <1>1, <1>4, <2>1, <2>2
  <2>3. CASE k \in ToSet(s)
    <3>1. PICK i \in 1..Len(s) : s[i] = k
      BY <2>3 DEF ToSet
    <3>2. CASE \E m \in 1..Len(seen) : seen[m] = wire[s[i]]
      <4>1. PICK m \in 1..Len(seen) : seen[m] = wire[s[i]]
        BY <3>2
      <4>2. PICK old \in kept1 : wire[old] = seen[m]
        BY <1>3
      <4>3. old \in kept2 /\ wire[old] = wire[e]
        BY <1>1, <2>1, <3>1, <4>1, <4>2
      <4> QED BY <4>3
    <3>3. CASE \E m \in 1..Len(new) : wire[new[m]] = wire[s[i]]
      <4>1. PICK m \in 1..Len(new) : wire[new[m]] = wire[s[i]]
        BY <3>3
      <4>2. new[m] \in ToSet(new)
        BY <4>1 DEF ToSet
      <4>3. new[m] \in kept2 /\ wire[new[m]] = wire[e]
        BY <1>1, <2>1, <3>1, <4>1, <4>2
      <4> QED BY <4>3
    <3> QED BY <3>2, <3>3 DEF FreshOf
  <2> QED BY <2>2, <2>3
<1> QED
  BY <1>2, <1>5 DEF NothingLostUncounted, HasAll, kept2

-----------------------------------------------------------------------------
(***************************************************************************)
(* The invariant holds initially and every action keeps it.                *)
(***************************************************************************)

\* The control state, and the bounds of the queue and the batch.
ControlOK ==
  /\ wire \in Wires
  /\ queue \in Seq(Event) /\ Len(queue) <= QueueMax
  /\ batch \in Seq(Event) /\ Len(batch) <= BatchSize
  /\ drained \in BOOLEAN /\ stopping \in BOOLEAN /\ attached \in BOOLEAN
  /\ putting \in [Threads -> Event \cup {None}]
  /\ writer \in {"off", "head", "collect", "persist", "check", "report",
                 "done", "dead"}
  /\ main \in {"idle", "wait", "peek", "sync", "answered", "join"}
  /\ stops \in BOOLEAN /\ asked \subseteq Event /\ answer \in BOOLEAN

LEMMA InitInv ==
  ASSUME RecorderAssumption, Init
  PROVE  RecorderInv
<1>1. TypeOK
  <2>1. /\ MaxEvents \in Nat /\ QueueMax \in Nat /\ BatchSize \in Nat
        /\ DedupeWindow \in Nat
    BY DEF RecorderAssumption
  <2>2. /\ queue \in Seq(Event) /\ Len(queue) <= QueueMax
        /\ batch \in Seq(Event) /\ Len(batch) <= BatchSize
        /\ stored \in Seq(Event) /\ lost \in Seq(Event)
        /\ seen \in Seq(Keys) /\ Len(seen) <= DedupeWindow
    BY <2>1 DEF Init
  <2>3. metrics \in [{"received", "dropped", "duplicate", "persisted"} -> 0..MaxEvents]
    BY <2>1 DEF Init
  <2> QED BY <2>2, <2>3 DEF Init, TypeOK
<1>2. Pending = {} /\ Counted /\ PendingOnce
  <2>1. Pending = {}
    BY DEF Init, Pending, Range
  <2>2. Cardinality(Pending) = 0
    BY <2>1, FS_EmptySet
  <2>3. Counted
    BY <2>2 DEF Init, Counted
  <2> QED BY <2>1, <2>3 DEF Init, PendingOnce
<1>3. BatchIsHeld /\ SeenIsKept /\ SeenIsRecent
  <2>1. DedupeWindow \in Nat
    BY DEF RecorderAssumption
  <2> QED BY <2>1 DEF Init, BatchIsHeld, SeenIsKept, SeenIsRecent
<1>4. NothingLostUncounted
  BY DEF Init, NothingLostUncounted, HasAll
<1>5. DuplicatesFarApart
  BY DEF Init, DuplicatesFarApart
<1> QED
  BY <1>1, <1>2, <1>3, <1>4, <1>5 DEF RecorderInv

\* A step that moves no event.
Still ==
  /\ wire' = wire /\ queue' = queue /\ batch' = batch /\ seen' = seen
  /\ stored' = stored /\ lost' = lost /\ metrics' = metrics /\ putting' = putting

LEMMA StillKeeps ==
  ASSUME RecorderInv, Still, ControlOK', BatchIsHeld'
  PROVE  RecorderInv'
<1>1. TypeOK'
  BY DEF RecorderInv, TypeOK, ControlOK, Still
<1>2. Counted' /\ PendingOnce'
  BY DEF RecorderInv, Counted, PendingOnce, Pending, Still
<1>3. SeenIsKept'
  BY DEF RecorderInv, SeenIsKept, Still
<1>4. SeenIsRecent'
  BY DEF RecorderInv, SeenIsRecent, Still
<1>5. NothingLostUncounted'
  BY DEF RecorderInv, NothingLostUncounted, HasAll, Held, InFlight, Still
<1>6. DuplicatesFarApart'
  BY DEF RecorderInv, DuplicatesFarApart, Still
<1> QED
  BY <1>1, <1>2, <1>3, <1>4, <1>5, <1>6 DEF RecorderInv

\* Starting, going round the loop, waiting and returning move no event.
LEMMA StillSteps ==
  ASSUME RecorderInv,
         \/ Start \/ LoopHead \/ Collected \/ CheckEmpty \/ ReportDrained
         \/ CallFlush \/ Wake \/ Timeout \/ Peek \/ SyncDone \/ Return \/ Join
  PROVE  RecorderInv'
<1> USE DEF RecorderInv, shared, control
<1>1. TypeOK /\ BatchIsHeld
  OBVIOUS
<1>2. CASE Start
  <2>1. Still
    BY <1>2 DEF Start, Still
  <2>2. ControlOK' /\ BatchIsHeld'
    BY <1>1, <1>2 DEF Start, TypeOK, ControlOK, BatchIsHeld
  <2> QED BY <2>1, <2>2, StillKeeps
<1>3. CASE LoopHead
  <2>1. Still
    BY <1>3 DEF LoopHead, Still
  <2>2. ControlOK' /\ BatchIsHeld'
    BY <1>1, <1>3 DEF LoopHead, TypeOK, ControlOK, BatchIsHeld
  <2> QED BY <2>1, <2>2, StillKeeps
<1>4. CASE Collected
  <2>1. Still
    BY <1>4 DEF Collected, Still
  <2>2. ControlOK' /\ BatchIsHeld'
    BY <1>1, <1>4 DEF Collected, TypeOK, ControlOK, BatchIsHeld
  <2> QED BY <2>1, <2>2, StillKeeps
<1>5. CASE CheckEmpty
  <2>1. Still
    BY <1>5 DEF CheckEmpty, Still
  <2>2. ControlOK' /\ BatchIsHeld'
    BY <1>1, <1>5 DEF CheckEmpty, TypeOK, ControlOK, BatchIsHeld
  <2> QED BY <2>1, <2>2, StillKeeps
<1>6. CASE ReportDrained
  <2>1. Still
    BY <1>6 DEF ReportDrained, Still
  <2>2. ControlOK' /\ BatchIsHeld'
    BY <1>1, <1>6 DEF ReportDrained, TypeOK, ControlOK, BatchIsHeld
  <2> QED BY <2>1, <2>2, StillKeeps
<1>7. CASE CallFlush
  <2>1. Still
    BY <1>7 DEF CallFlush, Still
  <2>2. ToSet(queue) \subseteq Event /\ ToSet(batch) \subseteq Event
    BY <1>1 DEF TypeOK, ToSet
  <2>3. asked' \subseteq Event
    BY <1>7, <2>2 DEF CallFlush
  <2>4. ControlOK' /\ BatchIsHeld'
    BY <1>1, <1>7, <2>3 DEF CallFlush, TypeOK, ControlOK, BatchIsHeld
  <2> QED BY <2>1, <2>4, StillKeeps
<1>8. CASE Wake \/ Timeout \/ Peek \/ SyncDone
  <2>1. Still
    BY <1>8 DEF Wake, Timeout, Peek, SyncDone, Still
  <2>2. ControlOK' /\ BatchIsHeld'
    BY <1>1, <1>8 DEF Wake, Timeout, Peek, SyncDone, TypeOK, ControlOK, BatchIsHeld
  <2> QED BY <2>1, <2>2, StillKeeps
<1>9. CASE Return \/ Join
  <2>1. Still
    BY <1>9 DEF Return, Join, Still
  <2>2. ControlOK' /\ BatchIsHeld'
    BY <1>1, <1>9 DEF Return, Join, TypeOK, ControlOK, BatchIsHeld
  <2> QED BY <2>1, <2>2, StillKeeps
<1> QED
  BY <1>2, <1>3, <1>4, <1>5, <1>6, <1>7, <1>8, <1>9

\* The number of the event received last is the one its thread is to put.
LEMMA ClearKeeps ==
  ASSUME RecorderAssumption, RecorderInv, NEW t \in Threads, Clear(t)
  PROVE  RecorderInv'
<1> DEFINE r == metrics.received
           counters == {"received", "dropped", "duplicate", "persisted"}
<1>1. /\ TypeOK /\ Counted /\ PendingOnce /\ BatchIsHeld /\ SeenIsKept
      /\ SeenIsRecent /\ NothingLostUncounted /\ DuplicatesFarApart
  BY DEF RecorderInv
<1>2. r \in Nat /\ r < MaxEvents /\ MaxEvents \in Nat
      /\ metrics \in [counters -> Nat]
  <2>1. metrics \in [counters -> 0..MaxEvents] /\ MaxEvents \in Nat
    BY <1>1 DEF TypeOK, RecorderAssumption
  <2> QED BY <2>1 DEF Clear
<1>3. /\ metrics' = [metrics EXCEPT !.received = r + 1]
      /\ metrics'.received = r + 1 /\ metrics'.dropped = metrics.dropped
      /\ metrics'.duplicate = metrics.duplicate
      /\ metrics'.persisted = metrics.persisted
  <2>1. metrics' = [metrics EXCEPT !.received = r + 1]
    BY DEF Clear
  <2> QED BY <1>2, <2>1, MetricsFields
<1>4. /\ putting \in [Threads -> Event \cup {None}] /\ putting[t] = None
      /\ putting' = [putting EXCEPT ![t] = r + 1]
  BY <1>1, <1>3 DEF Clear, TypeOK
<1>5. /\ wire' = wire /\ queue' = queue /\ batch' = batch /\ seen' = seen
      /\ stored' = stored /\ lost' = lost /\ writer' = writer
  BY DEF Clear
<1>6. Pending' = Pending \cup {r + 1}
  <2>1. Range(putting') = {putting'[u] : u \in Threads}
    BY <1>4 DEF Range
  <2>2. Range(putting) = {putting[u] : u \in Threads}
    BY <1>4 DEF Range
  <2>3. \A u \in Threads : putting'[u] = IF u = t THEN r + 1 ELSE putting[u]
    BY <1>4
  <2>4. r + 1 # None
    BY <1>2 DEF None
  <2>5. Pending' = Range(putting') \ {None} /\ Pending = Range(putting) \ {None}
    BY DEF Pending
  <2>6. ASSUME NEW e \in Pending' PROVE e \in Pending \cup {r + 1}
    <3>1. PICK u \in Threads : e = putting'[u]
      BY <2>1, <2>5
    <3> QED BY <2>2, <2>3, <2>5, <3>1
  <2>7. ASSUME NEW e \in Pending \cup {r + 1} PROVE e \in Pending'
    <3>1. CASE e = r + 1
      BY <2>1, <2>3, <2>4, <2>5, <3>1
    <3>2. CASE e \in Pending
      <4>1. PICK u \in Threads : e = putting[u]
        BY <2>2, <2>5, <3>2
      <4>2. u # t /\ e # None
        BY <1>4, <2>5, <3>2, <4>1
      <4> QED BY <2>1, <2>3, <2>5, <4>1, <4>2
    <3> QED BY <3>1, <3>2
  <2> QED BY <2>6, <2>7
<1>7. r + 1 \notin Pending
  BY <1>1, <1>2 DEF PendingOnce
<1>8. IsFiniteSet(Pending) /\ Cardinality(Pending) \in Nat
      /\ Cardinality(Pending') = Cardinality(Pending) + 1
  <2>1. IsFiniteSet(Pending) /\ Cardinality(Pending) \in Nat
    BY <1>1, Numbers
  <2> QED BY <1>6, <1>7, <2>1, FS_AddElement
<1>9. Counted'
  <2> DEFINE p == Cardinality(Pending)
             q == Len(queue)
             b == Len(batch)
             g == Len(lost)
             d == metrics.dropped
             u == metrics.duplicate
             e == metrics.persisted
  <2>1. p \in Int /\ q \in Int /\ b \in Int /\ g \in Int /\ d \in Int /\ u \in Int /\ e \in Int
        /\ r \in Int
    <3>1. \A n \in Nat : n \in Int
      OBVIOUS
    <3> QED BY <1>1, <3>1, Numbers
  <2>2. r = p + q + b + g + d + u + e
    BY <1>1 DEF Counted
  <2>3. r + 1 = (p + 1) + q + b + g + d + u + e
    <3> HIDE DEF p, q, b, g, d, u, e, r
    <3> QED BY <2>1, <2>2
  <2>4. Cardinality(Pending') = p + 1
    BY <1>8
  <2> QED BY <1>3, <1>5, <2>3, <2>4 DEF Counted
<1>10. PendingOnce'
  <2>1. Pending' \subseteq 1..r + 1
    <3>1. \A e \in Pending : e \in 1..r
      BY <1>1 DEF PendingOnce
    <3>2. \A e \in 1..r : e \in 1..r + 1
      BY <1>2
    <3>3. r + 1 \in 1..r + 1
      BY <1>2
    <3> QED BY <1>6, <3>1, <3>2, <3>3
  <2>2. ASSUME NEW u \in Threads, NEW v \in Threads,
               putting'[u] = putting'[v], putting'[u] # None
        PROVE  u = v
    <3>1. \A x \in Threads : x # t => putting'[x] = putting[x]
      BY <1>4
    <3>2. putting'[t] = r + 1
      BY <1>4
    <3>3. \A x \in Threads : putting[x] # r + 1
      <4>1. \A x \in Threads : putting[x] \in Pending \/ putting[x] = None
        BY <1>4 DEF Pending, Range
      <4>2. r + 1 # None
        BY <1>2 DEF None
      <4> QED BY <1>7, <4>1, <4>2
    <3>4. \A x, y \in Threads : putting[x] = putting[y] /\ putting[x] # None => x = y
      BY <1>1 DEF PendingOnce
    <3> QED BY <2>2, <3>1, <3>2, <3>3, <3>4
  <2> QED BY <1>3, <2>1, <2>2 DEF PendingOnce
<1>11. metrics' \in [counters -> 0..MaxEvents]
  <2>1. metrics' \in [counters -> Nat]
    BY <1>2, <1>3
  <2>2. metrics'.received <= MaxEvents
    BY <1>2, <1>3
  <2> DEFINE n == Cardinality(Pending') + Len(queue') + Len(batch') + Len(lost')
  <2>3. n \in Nat
    BY <1>1, <1>5, <1>8, Numbers
  <2>4. metrics'.received = n + metrics'.dropped + metrics'.duplicate
                              + metrics'.persisted
    BY <1>9 DEF Counted
  <2> HIDE DEF n
  <2> QED BY <1>2, <2>1, <2>2, <2>3, <2>4, CountersBounded
<1>12. TypeOK'
  <2>1. putting' \in [Threads -> Event \cup {None}]
    <3>1. r + 1 \in Event
      BY <1>2 DEF Event
    <3> QED BY <1>4, <3>1
  <2> QED BY <1>1, <1>5, <1>11, <2>1 DEF TypeOK, Clear, control
<1>13. NothingLostUncounted'
  <2> DEFINE kept == ToSet(stored) \cup InFlight \cup ToSet(lost)
  <2>1. /\ Held = InFlight \cup Pending /\ Held' = InFlight \cup Pending'
    BY <1>5 DEF Held, InFlight, Pending
  <2> HIDE DEF kept
  <2>2. ASSUME metrics.dropped = 0, NEW e \in 1..r + 1
        PROVE  \E k \in kept \cup Pending' : wire[k] = wire[e]
    <3>1. CASE e = r + 1
      BY <1>6, <3>1
    <3>2. CASE e # r + 1
      <4>1. e \in 1..metrics.received
        BY <1>2, <3>2
      <4>2. \E k \in kept \cup Pending : wire[k] = wire[e]
        BY <1>1, <2>1, <2>2, <4>1 DEF NothingLostUncounted, HasAll, kept
      <4> QED BY <1>6, <4>2
    <3> QED BY <3>1, <3>2
  <2> QED BY <1>3, <1>5, <2>1, <2>2 DEF NothingLostUncounted, HasAll, kept
<1>14. /\ BatchIsHeld' /\ SeenIsKept' /\ SeenIsRecent' /\ DuplicatesFarApart'
  BY <1>1, <1>5 DEF BatchIsHeld, SeenIsKept, SeenIsRecent, DuplicatesFarApart
<1> QED
  BY <1>9, <1>10, <1>12, <1>13, <1>14 DEF RecorderInv

\* The event a thread was to put is queued, or counted as dropped.
LEMMA PutKeeps ==
  ASSUME RecorderAssumption, RecorderInv, NEW t \in Threads, Put(t)
  PROVE  RecorderInv'
<1> DEFINE id == putting[t]
           counters == {"received", "dropped", "duplicate", "persisted"}
           p == Cardinality(Pending)
           q == Len(queue)
           b == Len(batch)
           g == Len(lost)
           d == metrics.dropped
           u == metrics.duplicate
           e == metrics.persisted
           r == metrics.received
<1>1. /\ TypeOK /\ Counted /\ PendingOnce /\ BatchIsHeld /\ SeenIsKept
      /\ SeenIsRecent /\ NothingLostUncounted /\ DuplicatesFarApart
  BY DEF RecorderInv
<1>2. /\ putting \in [Threads -> Event \cup {None}] /\ id # None /\ id \in Event
      /\ putting' = [putting EXCEPT ![t] = None]
  BY <1>1 DEF Put, TypeOK
<1>3. /\ wire' = wire /\ batch' = batch /\ seen' = seen /\ stored' = stored
      /\ lost' = lost /\ writer' = writer
  BY DEF Put
<1>4. Pending' = Pending \ {id} /\ id \in Pending
  <2>1. Range(putting') = {putting'[v] : v \in Threads}
    BY <1>2 DEF Range
  <2>2. Range(putting) = {putting[v] : v \in Threads}
    BY <1>2 DEF Range
  <2>3. \A v \in Threads : putting'[v] = IF v = t THEN None ELSE putting[v]
    BY <1>2
  <2>4. Pending' = Range(putting') \ {None} /\ Pending = Range(putting) \ {None}
    BY DEF Pending
  <2>5. \A v \in Threads : putting[v] = id => v = t
    BY <1>1, <1>2 DEF PendingOnce
  <2>6. ASSUME NEW x \in Pending' PROVE x \in Pending \ {id}
    <3>1. PICK v \in Threads : x = putting'[v]
      BY <2>1, <2>4
    <3>2. v # t /\ x = putting[v] /\ x # None
      BY <2>3, <2>4, <3>1
    <3>3. x # id
      BY <2>5, <3>2
    <3> QED BY <2>2, <2>4, <3>2, <3>3
  <2>7. ASSUME NEW x \in Pending \ {id} PROVE x \in Pending'
    <3>1. PICK v \in Threads : x = putting[v]
      BY <2>2, <2>4
    <3>2. v # t
      BY <3>1
    <3> QED BY <2>1, <2>3, <2>4, <3>1, <3>2
  <2> QED BY <1>2, <2>2, <2>4, <2>6, <2>7
<1>5. /\ p \in Nat /\ q \in Nat /\ b \in Nat /\ g \in Nat /\ d \in Nat /\ u \in Nat /\ e \in Nat
      /\ r \in Nat /\ IsFiniteSet(Pending)
  BY <1>1, Numbers
<1>6. Cardinality(Pending') = p - 1
  BY <1>4, <1>5, FS_RemoveElement
<1>7. r = p + q + b + g + d + u + e /\ r <= MaxEvents /\ MaxEvents \in Nat
      /\ metrics \in [counters -> Nat]
  BY <1>1 DEF Counted, TypeOK, RecorderAssumption
<1>8. \/ /\ q < QueueMax /\ queue' = Append(queue, id) /\ metrics' = metrics
      \/ /\ metrics' = [metrics EXCEPT !.dropped = d + 1] /\ queue' = queue
  BY DEF Put
<1>9. /\ metrics' \in [counters -> Nat] /\ metrics'.received = r
      /\ metrics'.duplicate = u /\ metrics'.persisted = e
  <2>1. [metrics EXCEPT !.dropped = d + 1] \in [counters -> Nat]
    <3>1. d + 1 \in Nat
      BY <1>5
    <3> HIDE DEF d
    <3> QED BY <1>7, <3>1
  <2>2. /\ [metrics EXCEPT !.dropped = d + 1].received = r
        /\ [metrics EXCEPT !.dropped = d + 1].duplicate = u
        /\ [metrics EXCEPT !.dropped = d + 1].persisted = e
    BY <1>7, MetricsFields
  <2> QED BY <1>7, <1>8, <2>1, <2>2
<1>10. /\ queue' \in Seq(Event) /\ Len(queue') \in Nat /\ Len(queue') <= QueueMax
       /\ Len(queue') + metrics'.dropped = q + d + 1
  <2>1. queue \in Seq(Event) /\ q <= QueueMax /\ QueueMax \in Nat
    BY <1>1 DEF TypeOK, RecorderAssumption
  <2>2. CASE q < QueueMax /\ queue' = Append(queue, id) /\ metrics' = metrics
    <3>1. queue' \in Seq(Event) /\ Len(queue') = q + 1
      BY <1>2, <2>1, <2>2, AppendProperties
    <3> HIDE DEF q, d
    <3>2. metrics'.dropped = d
      BY <2>2 DEF d
    <3> QED BY <1>5, <2>1, <2>2, <3>1, <3>2
  <2>3. CASE metrics' = [metrics EXCEPT !.dropped = d + 1] /\ queue' = queue
    <3>1. metrics'.dropped = d + 1 /\ Len(queue') = q
      BY <1>7, <2>3, MetricsFields
    <3> HIDE DEF q, d
    <3> QED BY <1>5, <2>1, <2>3, <3>1
  <2> QED BY <1>8, <2>2, <2>3
<1>11. Counted'
  <2> DEFINE q2 == Len(queue')
             d2 == metrics'.dropped
  <2>1. d2 \in Nat
    BY <1>9
  <2>2. r = (p - 1) + q2 + b + g + d2 + u + e
    <3>1. q2 + d2 = q + d + 1 /\ q2 \in Nat
      BY <1>10
    <3> HIDE DEF p, q, b, g, d, u, e, r, q2, d2
    <3> QED BY <1>5, <1>7, <2>1, <3>1
  <2> QED BY <1>3, <1>6, <1>9, <2>2 DEF Counted
<1>12. PendingOnce'
  <2>1. \A v \in Threads : putting'[v] = IF v = t THEN None ELSE putting[v]
    BY <1>2
  <2>2. /\ Pending \subseteq 1..r
        /\ \A v, w \in Threads : putting[v] = putting[w] /\ putting[v] # None => v = w
    BY <1>1 DEF PendingOnce
  <2> QED BY <1>4, <1>9, <2>1, <2>2 DEF PendingOnce
<1>13. metrics' \in [counters -> 0..MaxEvents]
  <2> DEFINE n == Cardinality(Pending') + Len(queue') + Len(batch') + Len(lost')
  <2>1. n \in Nat
    <3>1. p # 0
      BY <1>4, <1>5, FS_EmptySet
    <3>2. Cardinality(Pending') \in Nat
      <4> HIDE DEF p
      <4> QED BY <1>5, <1>6, <3>1
    <3> QED BY <1>3, <1>5, <1>10, <3>2
  <2>2. metrics'.received = n + metrics'.dropped + metrics'.duplicate
                              + metrics'.persisted
    BY <1>11 DEF Counted
  <2> HIDE DEF n
  <2> QED BY <1>7, <1>9, <2>1, <2>2, CountersBounded
<1>14. TypeOK'
  <2>1. putting' \in [Threads -> Event \cup {None}]
    BY <1>2
  <2>2. /\ drained' = drained /\ stopping' = stopping /\ attached' = attached
        /\ main' = main /\ stops' = stops /\ asked' = asked /\ answer' = answer
    BY DEF Put, control
  <2> QED BY <1>1, <1>3, <1>10, <1>13, <2>1, <2>2 DEF TypeOK
<1>15. NothingLostUncounted'
  <2> DEFINE kept == ToSet(stored) \cup ToSet(lost)
  <2>0. /\ Held = InFlight \cup Pending /\ Held' = InFlight' \cup Pending'
    BY DEF Held, Pending
  <2> SUFFICES ASSUME metrics'.dropped = 0, NEW x \in 1..r
               PROVE  \E k \in kept \cup InFlight' \cup Pending' : wire[k] = wire[x]
    BY <1>3, <1>9, <2>0 DEF NothingLostUncounted, HasAll
  <2> HIDE DEF kept
  <2>1. metrics' = metrics /\ queue' = Append(queue, id)
    <3>1. metrics' # [metrics EXCEPT !.dropped = d + 1]
      <4>1. d + 1 # 0
        BY <1>5
      <4> QED BY <1>7, <4>1, MetricsFields
    <3> QED BY <1>8, <3>1
  <2>2. PICK k \in kept \cup InFlight \cup Pending : wire[k] = wire[x]
    BY <1>1, <2>0, <2>1 DEF NothingLostUncounted, HasAll, kept
  <2>3. ToSet(queue) \cup {id} \subseteq ToSet(queue')
    <3>1. queue \in Seq(Event)
      BY <1>1 DEF TypeOK
    <3>2. /\ Len(queue') = Len(queue) + 1
          /\ \A i \in 1..Len(queue) : queue'[i] = queue[i]
          /\ queue'[Len(queue) + 1] = id
      BY <1>2, <2>1, <3>1, AppendProperties
    <3>3. ToSet(queue') = {queue'[i] : i \in 1..Len(queue')}
      BY <1>10 DEF ToSet
    <3>4. ToSet(queue) = {queue[i] : i \in 1..Len(queue)}
      BY <3>1 DEF ToSet
    <3>5. \A i \in 1..q : i \in 1..q + 1
      BY <1>5
    <3>6. q + 1 \in 1..q + 1
      BY <1>5
    <3>7. ToSet(queue) \subseteq ToSet(queue')
      BY <3>2, <3>3, <3>4, <3>5
    <3>8. id \in ToSet(queue')
      BY <3>2, <3>3, <3>6
    <3> QED BY <3>7, <3>8
  <2>4. InFlight \cup {id} \subseteq InFlight'
    BY <1>3, <2>3 DEF InFlight
  <2>5. k \in kept \cup InFlight' \cup Pending'
    BY <1>4, <2>2, <2>4
  <2> QED BY <2>2, <2>5
<1>16. /\ BatchIsHeld' /\ SeenIsKept' /\ SeenIsRecent' /\ DuplicatesFarApart'
  BY <1>1, <1>3 DEF BatchIsHeld, SeenIsKept, SeenIsRecent, DuplicatesFarApart
<1> QED
  BY <1>11, <1>12, <1>14, <1>15, <1>16 DEF RecorderInv

\* What is taken from the queue is in the writer's hands.
LEMMA TakeKeeps ==
  ASSUME RecorderAssumption, RecorderInv, Take
  PROVE  RecorderInv'
<1>1. /\ TypeOK /\ Counted /\ PendingOnce /\ BatchIsHeld /\ SeenIsKept
      /\ SeenIsRecent /\ NothingLostUncounted /\ DuplicatesFarApart
  BY DEF RecorderInv
<1>2. /\ wire' = wire /\ seen' = seen /\ stored' = stored /\ lost' = lost /\ writer' = writer
      /\ metrics' = metrics /\ putting' = putting /\ writer = "collect"
  BY DEF Take
<1>3. /\ queue \in Seq(Event) /\ queue # <<>> /\ batch \in Seq(Event)
      /\ Len(batch) < BatchSize /\ BatchSize \in Nat /\ Len(queue) <= QueueMax
      /\ QueueMax \in Nat
      /\ batch' = Append(batch, Head(queue)) /\ queue' = Tail(queue)
  BY <1>1 DEF Take, TypeOK, RecorderAssumption
<1>4. /\ Head(queue) \in Event /\ queue' \in Seq(Event)
      /\ Len(queue') = Len(queue) - 1
      /\ \A i \in 1..Len(queue') : queue'[i] = queue[i + 1]
      /\ Head(queue) = queue[1]
  BY <1>3, HeadTailProperties
<1>5. /\ batch' \in Seq(Event) /\ Len(batch') = Len(batch) + 1
      /\ \A i \in 1..Len(batch) : batch'[i] = batch[i]
      /\ batch'[Len(batch) + 1] = Head(queue)
  BY <1>3, <1>4, AppendProperties
<1>6. Len(queue) \in Nat /\ Len(batch) \in Nat /\ Len(queue') \in Nat
      /\ Len(batch') \in Nat
  BY <1>3, <1>4, <1>5, LenIsNat
<1>7. TypeOK'
  <2>1. Len(queue') <= QueueMax /\ Len(batch') <= BatchSize
    BY <1>3, <1>4, <1>5, <1>6
  <2>2. /\ drained' = drained /\ stopping' = stopping /\ attached' = attached
        /\ main' = main /\ stops' = stops /\ asked' = asked /\ answer' = answer
    BY DEF Take, control
  <2> QED BY <1>1, <1>2, <1>4, <1>5, <2>1, <2>2 DEF TypeOK
<1>8. Counted' /\ PendingOnce'
  <2>1. Pending' = Pending
    BY <1>2 DEF Pending
  <2> DEFINE p == Cardinality(Pending)
             q == Len(queue)
             b == Len(batch)
             g == Len(lost)
             d == metrics.dropped
             u == metrics.duplicate
             e == metrics.persisted
             r == metrics.received
  <2>2. /\ p \in Nat /\ q \in Nat /\ b \in Nat /\ g \in Nat /\ d \in Nat /\ u \in Nat /\ e \in Nat
        /\ r \in Nat
    BY <1>1, Numbers
  <2>3. r = p + q + b + g + d + u + e
    BY <1>1 DEF Counted
  <2>4. r = p + (q - 1) + (b + 1) + g + d + u + e
    <3> HIDE DEF p, q, b, g, d, u, e, r
    <3> QED BY <2>2, <2>3
  <2>5. Counted'
    BY <1>2, <1>4, <1>5, <2>1, <2>4 DEF Counted
  <2> QED BY <1>1, <1>2, <2>1, <2>5 DEF PendingOnce
<1>9. NothingLostUncounted'
  <2>1. /\ ToSet(queue) = {queue[i] : i \in 1..Len(queue)}
        /\ ToSet(batch) = {batch[i] : i \in 1..Len(batch)}
        /\ ToSet(queue') = {queue'[i] : i \in 1..Len(queue')}
        /\ ToSet(batch') = {batch'[i] : i \in 1..Len(batch')}
    <3>1. ToSet(queue) = {queue[i] : i \in 1..Len(queue)}
      BY <1>3, ElementsOf
    <3>2. ToSet(batch) = {batch[i] : i \in 1..Len(batch)}
      BY <1>3, ElementsOf
    <3>3. ToSet(queue') = {queue'[i] : i \in 1..Len(queue')}
      BY <1>4, ElementsOf
    <3>4. ToSet(batch') = {batch'[i] : i \in 1..Len(batch')}
      BY <1>5, ElementsOf
    <3> QED BY <3>1, <3>2, <3>3, <3>4
  <2>2. ASSUME NEW x \in ToSet(queue) PROVE x \in ToSet(queue') \cup ToSet(batch')
    <3>1. PICK i \in 1..Len(queue) : x = queue[i]
      BY <2>1
    <3>2. CASE i = 1
      <4>1. Len(batch) + 1 \in 1..Len(batch')
        BY <1>5, <1>6
      <4> QED BY <1>4, <1>5, <2>1, <3>1, <3>2, <4>1
    <3>3. CASE i # 1
      <4>1. i - 1 \in 1..Len(queue') /\ (i - 1) + 1 = i
        BY <1>4, <1>6, <3>3
      <4>2. queue'[i - 1] = x
        BY <1>4, <3>1, <4>1
      <4> QED BY <2>1, <4>1, <4>2
    <3> QED BY <3>2, <3>3
  <2>3. ASSUME NEW x \in ToSet(batch) PROVE x \in ToSet(batch')
    <3>1. PICK i \in 1..Len(batch) : x = batch[i]
      BY <2>1
    <3>2. i \in 1..Len(batch') /\ batch'[i] = x
      BY <1>5, <1>6, <3>1
    <3> QED BY <2>1, <3>2
  <2>4. InFlight \subseteq InFlight'
    BY <2>2, <2>3 DEF InFlight
  <2>5. Held \subseteq Held'
    BY <1>2, <2>4 DEF Held
  <2> QED BY <1>1, <1>2, <2>5 DEF NothingLostUncounted, HasAll
<1>10. /\ BatchIsHeld' /\ SeenIsKept' /\ SeenIsRecent' /\ DuplicatesFarApart'
  BY <1>1, <1>2 DEF BatchIsHeld, SeenIsKept, SeenIsRecent, DuplicatesFarApart
<1> QED
  BY <1>7, <1>8, <1>9, <1>10 DEF RecorderInv

\* What every step that persists s has in common: where the rest of the
\* recorder's events are after it is up to the step.
LEMMA PersistKeeps ==
  ASSUME RecorderAssumption, RecorderInv, ControlOK', BatchIsHeld',
         NEW s \in Seq(Event), NEW commits \in BOOLEAN, Persist(s, commits),
         wire' = wire, putting' = putting,
         Len(queue') + Len(batch') + Len(s) = Len(queue) + Len(batch),
         InFlight \subseteq ToSet(s) \cup InFlight'
  PROVE  RecorderInv'
<1> DEFINE new  == Fresh(s, ToSet(seen))
           rows == IF commits THEN new ELSE <<>>
<1>1. /\ TypeOK /\ Counted /\ PendingOnce /\ SeenIsKept
      /\ SeenIsRecent /\ NothingLostUncounted /\ DuplicatesFarApart
  BY DEF RecorderInv
<1>2. /\ RowsAdded(s, new, rows) /\ WindowMoved(new) /\ RowsCounted(s, new, rows)
      /\ RowsLost(new, rows)
  BY <1>1, PersistRows
<1>3. FreshOf(s, new)
  BY <1>1, FreshIsFresh
<1> HIDE DEF new, rows
<1>4. new \in Seq(Event) /\ rows \in Seq(Event)
  BY <1>2 DEF RowsAdded
<1>5. /\ Len(s) \in Nat /\ Len(new) \in Nat /\ Len(rows) \in Nat
      /\ Len(queue') \in Nat /\ Len(batch') \in Nat /\ Len(lost') \in Nat
  <2>1. queue' \in Seq(Event) /\ batch' \in Seq(Event) /\ lost' \in Seq(Event)
    BY <1>2 DEF ControlOK, RowsLost
  <2> QED BY <1>4, <2>1, LenIsNat
<1>6. Counted' /\ PendingOnce'
  BY <1>1, <1>2, <1>5, PersistCounted
<1>7. TypeOK'
  <2> DEFINE n == Cardinality(Pending') + Len(queue') + Len(batch') + Len(lost')
             counters == {"received", "dropped", "duplicate", "persisted"}
  <2>1. n \in Nat
    <3>1. Pending' = Pending
      BY DEF Pending
    <3>2. Cardinality(Pending) \in Nat
      BY <1>1, Numbers
    <3>3. \A a, b, c, d \in Nat : a + b + c + d \in Nat
      OBVIOUS
    <3> QED BY <1>5, <3>1, <3>2, <3>3
  <2>2. metrics'.received = n + metrics'.dropped + metrics'.duplicate
                              + metrics'.persisted
    BY <1>6 DEF Counted
  <2>3. /\ metrics' \in [counters -> Nat] /\ metrics'.received <= MaxEvents
        /\ MaxEvents \in Nat
    BY <1>1, <1>2 DEF RowsCounted, TypeOK, RecorderAssumption
  <2>4. metrics' \in [counters -> 0..MaxEvents]
    <3> HIDE DEF n
    <3> QED BY <2>1, <2>2, <2>3, CountersBounded
  <2>5. stored' \in Seq(Event) /\ lost' \in Seq(Event)
    BY <1>2 DEF RowsAdded, RowsLost
  <2>6. seen' \in Seq(Keys) /\ Len(seen') <= DedupeWindow
    <3>1. /\ seen' \in Seq(Keys)
          /\ Len(seen') = IF Len(seen) + Len(new) <= DedupeWindow
                          THEN Len(seen) + Len(new) ELSE DedupeWindow
      BY <1>2 DEF WindowMoved
    <3>2. DedupeWindow \in Nat
      BY DEF RecorderAssumption
    <3> QED BY <3>1, <3>2
  <2> QED BY <2>4, <2>5, <2>6 DEF ControlOK, TypeOK
<1>8. NothingLostUncounted'
  BY <1>1, <1>2, <1>3, <1>4, PersistLosesNothing
<1>9. SeenIsKept'
  BY <1>1, <1>2, <1>4, PersistSeen
<1>10. CASE lost' = <<>>
  <2>1. lost = <<>> /\ RowsAdded(s, new, new)
    BY <1>2, <1>10 DEF RowsLost
  <2>2. SeenIsRecent'
    BY <1>1, <1>2, <1>4, <2>1, PersistRecent
  <2>3. DuplicatesFarApart'
    BY <1>1, <1>3, <1>4, <2>1, PersistFar
  <2> QED BY <1>6, <1>7, <1>8, <1>9, <2>2, <2>3 DEF RecorderInv
<1>11. CASE lost' # <<>>
  <2>1. SeenIsRecent' /\ DuplicatesFarApart'
    BY <1>11 DEF SeenIsRecent, DuplicatesFarApart
  <2> QED BY <1>6, <1>7, <1>8, <1>9, <2>1 DEF RecorderInv
<1> QED
  BY <1>10, <1>11

\* The writer's batch, committed or rolled back: it holds none afterwards.
LEMMA PersistBatchKeeps ==
  ASSUME RecorderAssumption, RecorderInv, PersistBatch \/ PersistRaises
  PROVE  RecorderInv'
<1>1. TypeOK /\ batch \in Seq(Event) /\ queue \in Seq(Event)
  BY DEF RecorderInv, TypeOK
<1>2. /\ batch' = <<>> /\ queue' = queue /\ wire' = wire /\ putting' = putting
      /\ writer' \in {"check", "dead"}
      /\ drained' = drained /\ stopping' = stopping /\ attached' = attached
      /\ main' = main /\ stops' = stops /\ asked' = asked /\ answer' = answer
  BY DEF PersistBatch, PersistRaises, control
<1>3. PICK commits \in BOOLEAN : Persist(batch, commits)
  BY DEF PersistBatch, PersistRaises
<1>4. ControlOK' /\ BatchIsHeld'
  <2>1. BatchSize \in Nat
    BY DEF RecorderAssumption
  <2> QED BY <1>1, <1>2, <2>1 DEF TypeOK, ControlOK, BatchIsHeld
<1>5. InFlight \subseteq ToSet(batch) \cup InFlight'
  BY <1>2 DEF InFlight
<1>6. Len(queue') + Len(batch') + Len(batch) = Len(queue) + Len(batch)
  <2>1. Len(queue) \in Nat /\ Len(batch) \in Nat
    BY <1>1, LenIsNat
  <2>2. Len(batch') = 0 /\ Len(queue') = Len(queue)
    BY <1>2
  <2> QED BY <2>1, <2>2
<1> QED
  BY <1>1, <1>2, <1>3, <1>4, <1>5, <1>6, PersistKeeps

\* The front of a queue and the rest of it.
LEMMA QueueSplit ==
  ASSUME NEW S, NEW s \in Seq(S), NEW n \in 0..Len(s)
  PROVE  /\ SubSeq(s, 1, n) \in Seq(S) /\ SubSeq(s, n + 1, Len(s)) \in Seq(S)
         /\ Len(SubSeq(s, 1, n)) = n /\ Len(SubSeq(s, n + 1, Len(s))) = Len(s) - n
         /\ ToSet(s) = ToSet(SubSeq(s, 1, n)) \cup ToSet(SubSeq(s, n + 1, Len(s)))
<1> DEFINE a == SubSeq(s, 1, n)
           z == SubSeq(s, n + 1, Len(s))
<1>1. Len(s) \in Nat /\ n \in Nat /\ n <= Len(s)
  OBVIOUS
<1>2. a \in Seq(S) /\ Len(a) = n /\ \A i \in 1..n : a[i] = s[i]
  <2>1. \A i \in 1..n : s[i] \in S
    BY <1>1
  <2> QED BY <1>1, <2>1, SubSeqProperties
<1>3. z \in Seq(S) /\ Len(z) = Len(s) - n /\ \A i \in 1..Len(s) - n : z[i] = s[n + i]
  <2>1. \A i \in n + 1..Len(s) : s[i] \in S
    BY <1>1
  <2>2. /\ z \in Seq(S)
        /\ Len(z) = IF n + 1 <= Len(s) THEN Len(s) - (n + 1) + 1 ELSE 0
        /\ \A i \in 1..Len(s) - (n + 1) + 1 : z[i] = s[n + 1 + i - 1]
    <3>1. n + 1 \in Int /\ Len(s) \in Int
      BY <1>1
    <3> QED BY <2>1, <3>1, SubSeqProperties
  <2>3. Len(s) - (n + 1) + 1 = Len(s) - n
        /\ \A i \in 1..Len(s) - n : n + 1 + i - 1 = n + i
    BY <1>1
  <2> HIDE DEF z
  <2>4. Len(z) = Len(s) - n
    BY <1>1, <2>2
  <2>5. \A i \in 1..Len(s) - n : z[i] = s[n + i]
    BY <2>2, <2>3
  <2> QED BY <2>2, <2>4, <2>5
<1>4. /\ ToSet(s) = {s[i] : i \in 1..Len(s)}
      /\ ToSet(a) = {a[i] : i \in 1..n}
      /\ ToSet(z) = {z[i] : i \in 1..Len(s) - n}
  <2> HIDE DEF a, z
  <2>1. ToSet(s) = {s[i] : i \in 1..Len(s)}
    BY ElementsOf
  <2>2. ToSet(a) = {a[i] : i \in 1..Len(a)}
    BY <1>2, ElementsOf
  <2>3. ToSet(z) = {z[i] : i \in 1..Len(z)}
    BY <1>3, ElementsOf
  <2> QED BY <1>2, <1>3, <2>1, <2>2, <2>3
<1> HIDE DEF a, z
<1>5. ASSUME NEW x \in ToSet(s) PROVE x \in ToSet(a) \cup ToSet(z)
  <2>1. PICK i \in 1..Len(s) : x = s[i]
    BY <1>4
  <2>2. CASE i <= n
    <3>1. i \in 1..n /\ a[i] = x
      BY <1>1, <1>2, <2>1, <2>2
    <3> QED BY <1>4, <3>1
  <2>3. CASE i > n
    <3>1. i - n \in 1..Len(s) - n /\ n + (i - n) = i
      BY <1>1, <2>3
    <3>2. z[i - n] = x
      BY <1>3, <2>1, <3>1
    <3> QED BY <1>4, <3>1, <3>2
  <2> QED BY <1>1, <2>2, <2>3
<1>6. ASSUME NEW x \in ToSet(a) \cup ToSet(z) PROVE x \in ToSet(s)
  <2>1. CASE x \in ToSet(a)
    <3>1. PICK i \in 1..n : x = a[i]
      BY <1>4, <2>1
    <3>2. i \in 1..Len(s) /\ s[i] = x
      BY <1>1, <1>2, <3>1
    <3> QED BY <1>4, <3>2
  <2>2. CASE x \in ToSet(z)
    <3>1. PICK i \in 1..Len(s) - n : x = z[i]
      BY <1>4, <2>2
    <3>2. n + i \in 1..Len(s) /\ s[n + i] = x
      BY <1>1, <1>3, <3>1
    <3> QED BY <1>4, <3>2
  <2> QED BY <2>1, <2>2
<1> QED
  BY <1>2, <1>3, <1>5, <1>6 DEF a, z

\* The main thread persists the front of the queue itself.
LEMMA SyncPersistKeeps ==
  ASSUME RecorderAssumption, RecorderInv, SyncPersist \/ SyncRaises
  PROVE  RecorderInv'
<1> DEFINE n == Min({BatchSize, Len(queue)})
           s == SubSeq(queue, 1, n)
<1>1. /\ TypeOK /\ SeenIsKept /\ BatchIsHeld
      /\ batch \in Seq(Event) /\ queue \in Seq(Event)
      /\ Len(queue) <= QueueMax /\ QueueMax \in Nat /\ BatchSize \in Nat
  BY DEF RecorderInv, TypeOK, RecorderAssumption
<1>2. n \in 0..Len(queue)
  <2>1. Len(queue) \in Nat
    BY <1>1, LenIsNat
  <2> DEFINE q == Len(queue)
  <2> HIDE DEF q
  <2>2. q \in Int /\ q >= 0 /\ BatchSize \in Int /\ BatchSize >= 0
    BY <1>1, <2>1 DEF q
  <2>3. Min({BatchSize, q}) = IF BatchSize >= q THEN q ELSE BatchSize
    BY <2>2, MaxOfTwo
  <2>4. Min({BatchSize, q}) \in 0..q
    BY <2>2, <2>3
  <2> QED BY <2>4 DEF q
<1>3. /\ \E commits \in BOOLEAN : Persist(s, commits)
      /\ queue' = SubSeq(queue, n + 1, Len(queue))
      /\ batch' = batch /\ writer' = writer /\ wire' = wire /\ putting' = putting
  BY DEF SyncPersist, SyncRaises, SyncBatch
<1> HIDE DEF n
<1>4. /\ s \in Seq(Event) /\ queue' \in Seq(Event)
      /\ Len(s) = n /\ Len(queue') = Len(queue) - n
      /\ ToSet(queue) = ToSet(s) \cup ToSet(queue')
  BY <1>1, <1>2, <1>3, QueueSplit
<1> HIDE DEF s
<1>5. ControlOK' /\ BatchIsHeld'
  <2>1. Len(queue') <= QueueMax
    <3>1. Len(queue) \in Nat
      BY <1>1, LenIsNat
    <3> QED BY <1>1, <1>2, <1>4, <3>1
  <2>2. /\ drained' \in BOOLEAN /\ stopping' = stopping /\ attached' = attached
        /\ main' \in {main, "idle"} /\ stops' \in BOOLEAN /\ asked' \subseteq Event
        /\ answer' = answer
    BY <1>1 DEF SyncPersist, SyncRaises, TypeOK, control
  <2> QED BY <1>1, <1>3, <1>4, <2>1, <2>2 DEF TypeOK, ControlOK, BatchIsHeld
<1>6. InFlight \subseteq ToSet(s) \cup InFlight'
  BY <1>3, <1>4 DEF InFlight
<1>7. Len(queue') + Len(batch') + Len(s) = Len(queue) + Len(batch)
  <2>1. Len(queue) \in Nat /\ Len(batch) \in Nat /\ n \in Nat
    BY <1>1, <1>2, LenIsNat
  <2> QED BY <1>3, <1>4, <2>1
<1>8. PICK commits \in BOOLEAN : Persist(s, commits)
  BY <1>3
<1> QED
  BY <1>1, <1>3, <1>4, <1>5, <1>6, <1>7, <1>8, PersistKeeps

-----------------------------------------------------------------------------

\* The invariant of the recorder: what is received is counted once, what is
\* remembered is what was stored last.
THEOREM RecorderInvariant == Spec => []RecorderInv
<1>1. Init => RecorderInv
  BY RecorderAssumption, InitInv
<1>2. RecorderInv /\ [Next]_vars => RecorderInv'
  <2> SUFFICES ASSUME RecorderInv, [Next]_vars
               PROVE  RecorderInv'
    OBVIOUS
  <2> USE RecorderAssumption
  <2>1. ASSUME NEW t \in Threads, Clear(t) PROVE RecorderInv'
    BY <2>1, ClearKeeps
  <2>2. ASSUME NEW t \in Threads, Put(t) PROVE RecorderInv'
    BY <2>2, PutKeeps
  <2>3. CASE Take
    BY <2>3, TakeKeeps
  <2>4. CASE PersistBatch \/ PersistRaises
    BY <2>4, PersistBatchKeeps
  <2>5. CASE SyncPersist \/ SyncRaises
    BY <2>5, SyncPersistKeeps
  <2>6. CASE \/ Start \/ LoopHead \/ Collected \/ CheckEmpty \/ ReportDrained
             \/ CallFlush \/ Wake \/ Timeout \/ Peek \/ SyncDone \/ Return \/ Join
    BY <2>6, StillSteps
  <2>7. CASE UNCHANGED vars
    <3>1. Still /\ ControlOK' /\ BatchIsHeld'
      BY <2>7 DEF vars, shared, control, Still, RecorderInv, TypeOK, ControlOK,
                  BatchIsHeld
    <3> QED BY <3>1, StillKeeps
  <2> QED
    BY <2>1, <2>2, <2>3, <2>4, <2>5, <2>6, <2>7
    DEF Next, WriterStep, MainStep
<1> QED
  BY <1>1, <1>2, PTL DEF Spec

\* The queue and a batch stay within their bounds, and no counter exceeds the
\* events received.
THEOREM RecorderTypeCorrect == Spec => []TypeOK
<1>1. RecorderInv => TypeOK
  BY DEF RecorderInv
<1> QED
  BY <1>1, RecorderInvariant, PTL

\* While nothing was dropped every observation received has a row, is held by
\* the recorder or was rolled back by a transaction that raised: submit,
\* _collect_batch and _persist lose an event only next to the copy they keep.
THEOREM NothingLostUncountedHolds == Spec => []NothingLostUncounted
<1>1. RecorderInv => NothingLostUncounted
  BY DEF RecorderInv
<1> QED
  BY <1>1, RecorderInvariant, PTL

\* Until a transaction raises, dropped_events = 0 stands for a complete capture.
THEOREM CompleteUntilItRaises == Spec => [](lost = <<>> => Complete)
<1>1. RecorderInv => (lost = <<>> => Complete)
  BY NoElements DEF RecorderInv, NothingLostUncounted, Complete, HasAll
<1> QED
  BY <1>1, RecorderInvariant, PTL

\* Two rows of one observation are further apart than dedupe_window, whichever
\* thread persisted them, until a transaction is lost.
THEOREM DuplicatesFarApartHolds == Spec => []DuplicatesFarApart
<1>1. RecorderInv => DuplicatesFarApart
  BY DEF RecorderInv
<1> QED
  BY <1>1, RecorderInvariant, PTL

\* The counters of the metrics add up: every event received is about to be
\* put, queued, in a batch, rolled back, dropped, a duplicate or persisted, and
\* only one of these.
THEOREM CountersAddUp == Spec => []Counted
<1>1. RecorderInv => Counted
  BY DEF RecorderInv
<1> QED
  BY <1>1, RecorderInvariant, PTL
=============================================================================
