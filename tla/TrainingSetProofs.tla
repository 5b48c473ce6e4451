-------------------------- MODULE TrainingSetProofs --------------------------
(***************************************************************************)
(* Theorems about what a capture leaves in its store, what the audit makes *)
(* of it and what is learned from it.                                      *)
(***************************************************************************)
EXTENDS TrainingSet, TotalsProofs, SequenceTheorems

-----------------------------------------------------------------------------
(***************************************************************************)
(* Sets of times and lists of records.                                     *)
(***************************************************************************)

\* A non-empty set of integers with an upper bound has a largest element.
LEMMA LargestFacts ==
  ASSUME NEW S, S \subseteq Int, S # {}, NEW b \in Int, \A x \in S : x <= b
  PROVE  Largest(S) \in S /\ \A x \in S : x <= Largest(S)
<1> DEFINE V == {b - x : x \in S}
<1>1. V \subseteq Nat /\ V # {}
  <2>1. \A x \in S : b - x \in Nat
    OBVIOUS
  <2> QED BY <2>1
<1>2. PICK v \in V : \A w \in V : v <= w
  <2> HIDE DEF V
  <2> QED BY <1>1, LeastNat
<1>3. PICK m \in S : v = b - m
  BY <1>2
<1>4. \A x \in S : m >= x
  <2> TAKE x \in S
  <2>1. b - m <= b - x /\ m \in Int /\ x \in Int
    BY <1>2, <1>3
  <2> QED BY <2>1
<1>5. Largest(S) \in S /\ \A x \in S : Largest(S) >= x
  BY <1>3, <1>4 DEF Largest
<1>6. \A x \in S : x \in Int
  OBVIOUS
<1> QED BY <1>5, <1>6

\* One with a lower bound has a smallest.
LEMMA SmallestFacts ==
  ASSUME NEW S, S \subseteq Int, S # {}, NEW b \in Int, \A x \in S : b <= x
  PROVE  Smallest(S) \in S /\ \A x \in S : Smallest(S) <= x
<1> DEFINE V == {x - b : x \in S}
<1>1. V \subseteq Nat /\ V # {}
  <2>1. \A x \in S : x - b \in Nat
    OBVIOUS
  <2> QED BY <2>1
<1>2. PICK v \in V : \A w \in V : v <= w
  <2> HIDE DEF V
  <2> QED BY <1>1, LeastNat
<1>3. PICK m \in S : v = m - b
  BY <1>2
<1>4. \A x \in S : m <= x
  <2> TAKE x \in S
  <2>1. m - b <= x - b /\ m \in Int /\ x \in Int
    BY <1>2, <1>3
  <2> QED BY <2>1
<1> QED BY <1>3, <1>4 DEF Smallest

\* A finite set in a sequence, each of its elements once.
LEMMA SetToSeqFacts ==
  ASSUME NEW S, IsFiniteSet(S)
  PROVE  /\ SetToSeq(S) \in Seq(S) /\ Len(SetToSeq(S)) = Cardinality(S)
         /\ \A x \in S : \E i \in DOMAIN SetToSeq(S) : SetToSeq(S)[i] = x
<1> DEFINE N == Cardinality(S)
           f == SetToSeq(S)
<1>1. N \in Nat /\ ExistsBijection(1..N, S)
  BY FS_CardinalityType
<1>2. \E g \in [1..N -> S] : IsInjective(g)
  BY <1>1 DEF ExistsBijection, Bijection, Injection, IsInjective
<1>3. f \in [1..N -> S] /\ IsInjective(f)
  BY <1>2 DEF SetToSeq
<1>4. f \in Injection(1..N, S)
  <2> HIDE DEF f
  <2> QED BY <1>3 DEF Injection, IsInjective
<1>5. IsFiniteSet(1..N) /\ Cardinality(1..N) = N
  BY <1>1, FS_Interval
<1>6. f \in Surjection(1..N, S)
  <2> HIDE DEF f
  <2> QED BY <1>4, <1>5, FS_Injection
<1> HIDE DEF f, N
<1>7. \A x \in S : \E i \in 1..N : f[i] = x
  BY <1>6 DEF Surjection
<1>8. f \in Seq(S) /\ Len(f) = N /\ DOMAIN f = 1..N
  BY <1>1, <1>3
<1> QED BY <1>7, <1>8 DEF f, N

\* A finite set has finite images.
LEMMA FiniteImage ==
  ASSUME NEW S, IsFiniteSet(S), NEW f, f = [x \in S |-> f[x]]
  PROVE  IsFiniteSet({f[x] : x \in S})
<1> DEFINE T == {f[x] : x \in S}
<1>1. f \in [S -> T] /\ \A y \in T : \E x \in S : f[x] = y
  OBVIOUS
<1>2. f \in Surjection(S, T)
  <2> HIDE DEF T
  <2> QED BY <1>1 DEF Surjection
<1> HIDE DEF T
<1> QED BY <1>2, FS_Surjection DEF T

\* How many parse failures a list of control records holds.
CountFails(s) == Cardinality({i \in DOMAIN s : s[i].type = "parse_failure"})

LEMMA CountFailsType ==
  ASSUME NEW S, NEW s \in Seq(S)
  PROVE  /\ IsFiniteSet({i \in DOMAIN s : s[i].type = "parse_failure"})
         /\ CountFails(s) \in 0..Len(s)
<1> DEFINE D == DOMAIN s
           A == {i \in D : s[i].type = "parse_failure"}
<1>1. D = 1..Len(s) /\ Len(s) \in Nat
  OBVIOUS
<1>2. IsFiniteSet(D) /\ Cardinality(D) = Len(s)
  <2> HIDE DEF D
  <2> QED BY <1>1, FS_Interval
<1>3. A \in SUBSET D
  OBVIOUS
<1>4. IsFiniteSet(A) /\ Cardinality(A) <= Len(s) /\ Cardinality(A) \in Nat
  <2> HIDE DEF A, D
  <2> QED BY <1>2, <1>3, FS_Subset, FS_CardinalityType
<1> QED BY <1>1, <1>4 DEF CountFails

LEMMA CountFailsConcat ==
  ASSUME NEW S, NEW s \in Seq(S), NEW t \in Seq(S)
  PROVE  CountFails(s \o t) = CountFails(s) + CountFails(t)
<1> DEFINE A == {i \in DOMAIN s : s[i].type = "parse_failure"}
           B == {i \in DOMAIN t : t[i].type = "parse_failure"}
           f == [i \in B |-> Len(s) + i]
           C == {Len(s) + i : i \in B}
<1>1. Len(s) \in Nat /\ DOMAIN s = 1..Len(s) /\ DOMAIN t = 1..Len(t) /\ Len(t) \in Nat
  OBVIOUS
<1>2. IsFiniteSet(A) /\ IsFiniteSet(B) /\ CountFails(s) = Cardinality(A)
      /\ CountFails(t) = Cardinality(B)
  BY CountFailsType DEF CountFails
<1>3. B \subseteq Nat
  BY <1>1
<1>4. f \in Bijection(B, C)
  <2>1. f \in [B -> C]
    OBVIOUS
  <2>2. \A i, j \in B : f[i] = f[j] => i = j
    BY <1>1, <1>3
  <2>3. \A c \in C : \E i \in B : f[i] = c
    OBVIOUS
  <2> HIDE DEF f, B, C
  <2> QED BY <2>1, <2>2, <2>3 DEF Bijection, Injection, Surjection, IsInjective
<1>5. IsFiniteSet(C) /\ Cardinality(C) = Cardinality(B)
  <2> HIDE DEF f, B, C
  <2> QED BY <1>2, <1>4, FS_Bijection DEF ExistsBijection
<1>6. A \cap C = {}
  BY <1>1
<1>7. {i \in DOMAIN (s \o t) : (s \o t)[i].type = "parse_failure"} = A \cup C
  <2>1. /\ DOMAIN (s \o t) = 1..(Len(s) + Len(t))
        /\ \A i \in DOMAIN s : (s \o t)[i] = s[i]
        /\ \A i \in DOMAIN t : (s \o t)[Len(s) + i] = t[i]
    BY <1>1
  <2> DEFINE u == s \o t
  <2> HIDE DEF u
  <2>2. \A i \in 1..(Len(s) + Len(t)) :
          i \in 1..Len(s) \/ (i - Len(s) \in 1..Len(t) /\ i = Len(s) + (i - Len(s)))
    BY <1>1
  <2> QED BY <1>1, <2>1, <2>2 DEF u
<1>8. Cardinality(A \cup C) = Cardinality(A) + Cardinality(C)
  <2>1. Cardinality(A \cap C) = 0 /\ Cardinality(A) \in Nat /\ Cardinality(C) \in Nat
    <3> HIDE DEF A, C
    <3> QED BY <1>2, <1>5, <1>6, FS_EmptySet, FS_CardinalityType
  <2>2. Cardinality(A \cup C) = Cardinality(A) + Cardinality(C) - Cardinality(A \cap C)
    <3> HIDE DEF A, C
    <3> QED BY <1>2, <1>5, FS_Union
  <2> HIDE DEF A, C
  <2> QED BY <2>1, <2>2
<1> QED BY <1>2, <1>5, <1>7, <1>8 DEF CountFails

LEMMA CountFailsSmall ==
  /\ CountFails(<<>>) = 0
  /\ \A n : CountFails(<<n>>) = IF n.type = "parse_failure" THEN 1 ELSE 0
<1>1. {i \in DOMAIN <<>> : <<>>[i].type = "parse_failure"} = {}
  OBVIOUS
<1>2. ASSUME NEW n
      PROVE  CountFails(<<n>>) = IF n.type = "parse_failure" THEN 1 ELSE 0
  <2> DEFINE A == {i \in DOMAIN <<n>> : <<n>>[i].type = "parse_failure"}
  <2>1. A = IF n.type = "parse_failure" THEN {1} ELSE {}
    OBVIOUS
  <2> HIDE DEF A
  <2>2. Cardinality(A) = IF n.type = "parse_failure" THEN 1 ELSE 0
    BY <2>1, FS_Singleton, FS_EmptySet
  <2> QED BY <2>2 DEF CountFails, A
<1> QED BY <1>1, <1>2, FS_EmptySet DEF CountFails

-----------------------------------------------------------------------------
(***************************************************************************)
(* The inductive invariant.                                                *)
(***************************************************************************)

Notices == {"reconnect", "stream_stalled", "topic_stalled"}

ControlRecord ==
  [type : Notices \cup {"parse_failure", "data_gap"}, topic : Series \cup {""},
   from : Nat, to : Nat, rounds : SUBSET Rounds, placed : BOOLEAN]

Answers == Outcomes \cup {"none"}

StoredLabel == [status : {"none", "UNRESOLVED", "LABEL_AMBIGUOUS", "CONFIRMED"},
                agrees : {"yes", "no", "none"}, reported : Answers, declared : Answers]

StoredRow == [reported : Answers, declared : Answers, agrees : {"yes", "no", "none"},
              start : Int, metrics : {<<>>} \cup (Nat \X Nat)]

Seen == [breaks : SUBSET (0..now), backfills : SUBSET (0..now),
         unplaced : BOOLEAN, hurt : SUBSET Rounds, rewritten : SUBSET Rounds]

Socket == [state : {"down", "up", "silent"}, first : BOOLEAN, quiet : 0..now]

LogShape ==
  /\ records \in Seq(ControlRecord)
  /\ counters \in [parse : Nat, dropped : Nat]

FeedShape ==
  /\ world \in Worlds
  /\ now \in 0..MaxTime
  /\ phase \in {"capture", "stored"}
  /\ on \subseteq Series
  /\ socket \in Socket
  /\ gaps \in [Series -> [last : None..now, start : None..now]]
  /\ watched \in BOOLEAN
  /\ heard \in [Series -> SUBSET (1..now)]
  /\ kept \in [Series -> SUBSET (1..now)]
  /\ history \in [Series -> SUBSET (0..now)]
  /\ mismatched \subseteq Rounds
  /\ full \in BOOLEAN
  /\ labels \in [Rounds -> StoredLabel]
  /\ rows \in [Rounds -> StoredRow]
  /\ faults \in 0..world.faults
  /\ seen \in Seen

\* A tracker: an open outage starts with the last data, and there is none
\* before a connection that dated the series.
TrackerInv ==
  /\ \A t \in Series : /\ gaps[t].start \in {None, gaps[t].last}
                       /\ \A s \in heard[t] : s <= gaps[t].last
  /\ socket.state # "down" => \A t \in Series : gaps[t].last # None
  /\ ~watched => socket.state # "down"

\* What is counted, recorded and dropped.
CountInv ==
  /\ Recorded <= counters.parse
  /\ counters.dropped = 0 => Recorded = counters.parse
  /\ counters.dropped = 0 => \A t \in Series : heard[t] \subseteq kept[t]
  /\ seen.unplaced => \/ \E i \in DOMAIN records : ~records[i].placed
                      \/ Recorded < counters.parse
  /\ (\E i \in DOMAIN records : ~records[i].placed) => seen.unplaced

\* A recorded outage lies between two observations of its series; a recorded
\* failure hurts the rounds it names; a notice is of the past.
IsSound(n) ==
  /\ n.type = "parse_failure" /\ n.placed => n.rounds \subseteq seen.hurt
  /\ n.type = "data_gap" =>
       /\ n.topic \in Series /\ n.to <= now /\ n.to - n.from > Material
       /\ n.rounds = RoundsOver(n.from, n.to)
       /\ \A s \in heard[n.topic] : ~ (n.from < s /\ s < n.to)
  /\ n.type \in Notices => n.from <= now

RecordInv ==
  /\ \A i \in DOMAIN records : IsSound(records[i])
  /\ mismatched \subseteq seen.hurt
  /\ \A t \in Series : \A s \in kept[t] \ heard[t] :
       \E i \in DOMAIN records : records[i] = FailureRecord(s)
  /\ counters.dropped = 0 => \A r \in seen.hurt \ mismatched :
       \E i \in DOMAIN records : /\ records[i].type = "parse_failure"
                                 /\ records[i].placed /\ r \in records[i].rounds

\* A row that no later tool wrote: its opening value is that of the last
\* observation before the open, which is in the store if nothing was dropped.
RowIsSound(r) ==
  /\ rows[r].reported \in {"none", world.outcome[r]}
  /\ rows[r] # NoRow => /\ rows[r].metrics # <<>>
                        /\ rows[r].metrics[1] <= counters.parse
                        /\ rows[r].metrics[2] <= counters.dropped
  /\ rows[r].declared # "none" /\ r \notin seen.rewritten =>
       /\ End(r) <= now
       /\ StartPick(r) # None
       /\ Start(r) - StartPick(r) <= Tolerance
       /\ rows[r].start = world.price[StartPick(r)]
       /\ rows[r].metrics[2] = 0 => StartPick(r) \in kept[Settling]

LabelIsSound(r) ==
  /\ labels[r].reported = "none" => labels[r].status # "CONFIRMED"
  /\ r \in seen.rewritten => /\ phase = "stored"
                             /\ labels[r] # NoLabel /\ labels[r].reported = "none"

RowInv == \A r \in Rounds : RowIsSound(r) /\ LabelIsSound(r)

ShapeInv == FeedShape /\ LogShape

AuditInv == ShapeInv /\ TrackerInv /\ CountInv /\ RecordInv /\ RowInv

-----------------------------------------------------------------------------
(***************************************************************************)
(* The constants, and the fields of the state.                             *)
(***************************************************************************)

LEMMA Constants ==
  /\ Settling \in Series /\ IsFiniteSet(Series) /\ Worlds \subseteq World
  /\ NRounds \in Nat /\ Length \in Nat /\ Length > 0
  /\ FirstStart \in Nat /\ Lead \in Nat /\ Trail \in Nat /\ Tolerance \in Nat
  /\ StallTimeout \in Nat /\ MaxTime \in Nat /\ Lead < FirstStart
BY ReferenceAssumption

\* When a round starts and ends, and its window.
LEMMA RoundTimes ==
  ASSUME NEW r \in Rounds
  PROVE  /\ Start(r) \in Nat /\ End(r) \in Nat /\ RequiredStart(r) \in Nat /\ RequiredEnd(r) \in Nat
         /\ End(r) = Start(r) + Length /\ RequiredStart(r) = Start(r) - Lead
         /\ RequiredEnd(r) = End(r) + Trail
         /\ 1 <= RequiredStart(r) /\ Start(r) < End(r)
<1>1. r - 1 \in Nat
  BY Constants DEF Rounds
<1>2. (r - 1) * Length \in Nat
  BY <1>1, Constants
<1> QED
  BY <1>2, Constants DEF Start, End, RequiredStart, RequiredEnd

LEMMA WorldFields ==
  ASSUME world \in Worlds
  PROVE  /\ world.price \in [0..MaxTime -> Nat] /\ world.outcome \in [Rounds -> Outcomes]
         /\ world.faults \in Nat
BY Constants DEF World

LEMMA RoundsOverType == \A a, b : RoundsOver(a, b) \subseteq Rounds
BY DEF RoundsOver

-----------------------------------------------------------------------------
(***************************************************************************)
(* The account of failures.                                                *)
(***************************************************************************)

LEMMA RecordedIs == Recorded = CountFails(records)
BY DEF Recorded, CountFails

\* What is submitted is counted, and recorded unless the queue is full.
LEMMA SubmittedFacts ==
  ASSUME records \in Seq(ControlRecord), counters \in [parse : Nat, dropped : Nat], full \in BOOLEAN,
         NEW new \in Seq(ControlRecord), NEW nObs \in Nat, NEW parse \in Nat,
         CountFails(new) = parse, Submitted(new, nObs, parse)
  PROVE  /\ records' \in Seq(ControlRecord) /\ counters' \in [parse : Nat, dropped : Nat]
         /\ counters'.parse = counters.parse + parse
         /\ counters.dropped <= counters'.dropped
         /\ full /\ nObs > 0 => counters'.dropped # 0
         /\ full /\ Len(new) > 0 => counters'.dropped # 0
         /\ CountFails(records') = IF full THEN CountFails(records) ELSE CountFails(records) + parse
         /\ \A i \in DOMAIN records : i \in DOMAIN records' /\ records'[i] = records[i]
         /\ \A i \in DOMAIN records' :
              \/ i \in DOMAIN records
              \/ ~full /\ \E j \in DOMAIN new : records'[i] = new[j]
         /\ ~full => \A j \in DOMAIN new : \E i \in DOMAIN records' : records'[i] = new[j]
<1>1. counters'.parse = counters.parse + parse
      /\ counters'.dropped = (IF full THEN counters.dropped + Len(new) + nObs ELSE counters.dropped)
      /\ counters' \in [parse : Nat, dropped : Nat]
  BY DEF Submitted
<1>2. Len(new) \in Nat /\ counters.dropped \in Nat
  OBVIOUS
<1>3. CASE full
  <2>1. records' = records
    BY <1>3 DEF Submitted
  <2> QED BY <1>1, <1>2, <1>3, <2>1
<1>4. CASE ~full
  <2>1. records' = records \o new
    BY <1>4 DEF Submitted
  <2>2. CountFails(records \o new) = CountFails(records) + parse
    BY CountFailsConcat
  <2> DEFINE u == records \o new
  <2>3. /\ u \in Seq(ControlRecord)
        /\ DOMAIN records = 1..Len(records) /\ DOMAIN new = 1..Len(new) /\ Len(records) \in Nat
        /\ DOMAIN u = 1..(Len(records) + Len(new))
        /\ \A i \in DOMAIN records : u[i] = records[i]
        /\ \A i \in DOMAIN new : u[Len(records) + i] = new[i]
    OBVIOUS
  <2> HIDE DEF u
  <2>4. \A i \in DOMAIN records : i \in DOMAIN u
    BY <1>2, <2>3
  <2>5. ASSUME NEW i \in DOMAIN u, i \notin DOMAIN records
        PROVE  \E j \in DOMAIN new : u[i] = new[j]
    <3>1. i - Len(records) \in 1..Len(new) /\ i = Len(records) + (i - Len(records))
      BY <1>2, <2>3, <2>5
    <3>2. u[i] = new[i - Len(records)]
      BY <2>3, <3>1
    <3> QED BY <2>3, <3>1, <3>2
  <2>6. ASSUME NEW j \in DOMAIN new
        PROVE  \E i \in DOMAIN u : u[i] = new[j]
    <3>1. Len(records) + j \in DOMAIN u
      BY <1>2, <2>3
    <3> QED BY <2>3, <3>1
  <2>7. records' = u
    BY <2>1 DEF u
  <2>8. CountFails(u) = CountFails(records) + parse
    BY <2>2 DEF u
  <2> QED BY <1>1, <1>2, <1>4, <2>3, <2>4, <2>5, <2>6, <2>7, <2>8
<1> QED BY <1>3, <1>4

\* What every step does to the account of failures: what it submits, and
\* what it adds to the observations, the hurt rounds and the mismatches.
Accounts(new, nObs, parse) ==
  /\ new \in Seq(ControlRecord) /\ nObs \in Nat /\ parse \in Nat /\ CountFails(new) = parse
  /\ Submitted(new, nObs, parse)
  /\ \A n \in ControlRecord : (\E j \in DOMAIN new : new[j] = n) => IsSound(n)'
  /\ now' \in Nat /\ now <= now'
  /\ \A t \in Series :
       /\ heard'[t] \ heard[t] \subseteq {now'} /\ heard[t] \subseteq heard'[t]
       /\ kept[t] \subseteq kept'[t]
       /\ heard'[t] # heard[t] => now < now'
       /\ heard'[t] \subseteq heard[t] \cup kept'[t] \/ (full /\ nObs > 0)
       /\ \A s \in kept'[t] \ kept[t] :
            \/ s \in heard'[t]
            \/ ~full /\ \E j \in DOMAIN new : new[j] = FailureRecord(s)
  /\ seen'.unplaced <=> \/ seen.unplaced
                        \/ full /\ parse > 0
                        \/ \E j \in DOMAIN new : ~new[j].placed
  /\ \A j \in DOMAIN new : ~new[j].placed => new[j].type = "parse_failure"
  /\ seen.hurt \subseteq seen'.hurt
  /\ mismatched \subseteq mismatched' /\ mismatched' \subseteq mismatched \cup seen'.hurt
  /\ \A r \in seen'.hurt \ seen.hurt :
       \/ r \in mismatched'
       \/ full /\ (nObs > 0 \/ parse > 0)
       \/ \E j \in DOMAIN new : /\ new[j].type = "parse_failure"
                                /\ new[j].placed /\ r \in new[j].rounds

LEMMA CountFailsPositive ==
  ASSUME NEW S, NEW s \in Seq(S), NEW i \in DOMAIN s, s[i].type = "parse_failure"
  PROVE  CountFails(s) > 0
<1> DEFINE A == {k \in DOMAIN s : s[k].type = "parse_failure"}
<1>1. IsFiniteSet(A) /\ i \in A
  BY CountFailsType
<1> HIDE DEF A
<1>2. Cardinality(A) # 0 /\ Cardinality(A) \in Nat
  BY <1>1, FS_EmptySet, FS_CardinalityType
<1> QED BY <1>2 DEF CountFails, A

LEMMA AccountsKeep ==
  ASSUME ShapeInv, CountInv, RecordInv, NEW new, NEW nObs, NEW parse, Accounts(new, nObs, parse)
  PROVE  /\ records' \in Seq(ControlRecord) /\ counters' \in [parse : Nat, dropped : Nat]
         /\ counters.parse <= counters'.parse /\ counters.dropped <= counters'.dropped
         /\ CountInv' /\ RecordInv'
<1>1. /\ records \in Seq(ControlRecord) /\ counters \in [parse : Nat, dropped : Nat]
      /\ full \in BOOLEAN /\ now \in Nat /\ seen.unplaced \in BOOLEAN
  BY Constants DEF ShapeInv, FeedShape, LogShape, Seen
<1>2. /\ new \in Seq(ControlRecord) /\ nObs \in Nat /\ parse \in Nat /\ CountFails(new) = parse
      /\ Submitted(new, nObs, parse)
  BY DEF Accounts
<1>3. /\ records' \in Seq(ControlRecord) /\ counters' \in [parse : Nat, dropped : Nat]
      /\ counters'.parse = counters.parse + parse
      /\ counters.dropped <= counters'.dropped
      /\ full /\ nObs > 0 => counters'.dropped # 0
      /\ full /\ Len(new) > 0 => counters'.dropped # 0
      /\ CountFails(records') = IF full THEN CountFails(records) ELSE CountFails(records) + parse
      /\ \A i \in DOMAIN records : i \in DOMAIN records' /\ records'[i] = records[i]
      /\ \A i \in DOMAIN records' :
           \/ i \in DOMAIN records
           \/ ~full /\ \E j \in DOMAIN new : records'[i] = new[j]
      /\ ~full => \A j \in DOMAIN new : \E i \in DOMAIN records' : records'[i] = new[j]
  BY <1>1, <1>2, SubmittedFacts
<1>4. CountFails(records) \in Nat /\ CountFails(new) \in 0..Len(new) /\ Len(new) \in Nat
  <2>1. CountFails(records) \in 0..Len(records) /\ CountFails(new) \in 0..Len(new)
    BY <1>1, <1>2, CountFailsType
  <2>2. Len(records) \in Nat /\ Len(new) \in Nat
    BY <1>1, <1>2
  <2> QED BY <2>1, <2>2
<1>5. full /\ parse > 0 => counters'.dropped # 0
  BY <1>2, <1>3, <1>4
<1>6. Recorded = CountFails(records) /\ Recorded' = CountFails(records')
  BY DEF Recorded, CountFails
<1>7. CountInv'
  <2>1. Recorded' <= counters'.parse /\ (counters'.dropped = 0 => Recorded' = counters'.parse)
    BY <1>1, <1>2, <1>3, <1>4, <1>5, <1>6 DEF CountInv
  <2>2. ASSUME counters'.dropped = 0, NEW t \in Series
        PROVE  heard'[t] \subseteq kept'[t]
    <3>1. counters.dropped = 0
      BY <1>1, <1>3, <2>2
    <3>2. heard[t] \subseteq kept[t] /\ kept[t] \subseteq kept'[t]
      BY <3>1 DEF CountInv, Accounts
    <3>3. ~ (full /\ nObs > 0)
      BY <1>3, <2>2
    <3> QED BY <3>2, <3>3 DEF Accounts
  <2>3. ASSUME seen'.unplaced
        PROVE  (\E i \in DOMAIN records' : ~records'[i].placed) \/ Recorded' < counters'.parse
    <3>1. CASE \E i \in DOMAIN records : ~records[i].placed
      BY <1>3, <3>1
    <3>2. CASE Recorded < counters.parse
      BY <1>1, <1>2, <1>3, <1>4, <1>6, <3>2
    <3>3. CASE full /\ parse > 0
      BY <1>1, <1>2, <1>3, <1>4, <1>6, <3>3 DEF CountInv
    <3>4. CASE \E j \in DOMAIN new : ~new[j].placed
      <4>1. PICK j \in DOMAIN new : ~new[j].placed
        BY <3>4
      <4>2. CASE full
        <5>1. parse > 0
          BY <1>2, <4>1, CountFailsPositive DEF Accounts
        <5> QED BY <3>3, <4>2, <5>1
      <4>3. CASE ~full
        BY <1>3, <4>1, <4>3
      <4> QED BY <4>2, <4>3
    <3> QED BY <2>3, <3>1, <3>2, <3>3, <3>4 DEF CountInv, Accounts
  <2>4. ASSUME NEW i \in DOMAIN records', ~records'[i].placed
        PROVE  seen'.unplaced
    BY <1>3, <2>4 DEF CountInv, Accounts
  <2> QED BY <2>1, <2>2, <2>3, <2>4 DEF CountInv
<1>8. ASSUME NEW n \in ControlRecord, IsSound(n) PROVE IsSound(n)'
  <2>1. ASSUME n.type = "data_gap"
        PROVE  /\ n.topic \in Series /\ n.to <= now' /\ n.to - n.from > Material
               /\ n.rounds = RoundsOver(n.from, n.to)
               /\ \A s \in heard'[n.topic] : ~ (n.from < s /\ s < n.to)
    <3>1. /\ n.topic \in Series /\ n.to <= now /\ n.to - n.from > Material
          /\ n.rounds = RoundsOver(n.from, n.to)
          /\ \A s \in heard[n.topic] : ~ (n.from < s /\ s < n.to)
      BY <1>8, <2>1 DEF IsSound
    <3>2. n.to \in Nat /\ now' \in Nat /\ now <= now'
      BY <1>8 DEF ControlRecord, Accounts
    <3>3. ASSUME NEW s \in heard'[n.topic] PROVE s \in heard[n.topic] \/ s = now'
      BY <3>1 DEF Accounts
    <3> QED BY <1>1, <3>1, <3>2, <3>3
  <2>2. now' \in Nat /\ now <= now' /\ n.from \in Nat /\ seen.hurt \subseteq seen'.hurt
    BY <1>8 DEF ControlRecord, Accounts
  <2>3. n.type = "parse_failure" /\ n.placed => n.rounds \subseteq seen'.hurt
    BY <1>8, <2>2 DEF IsSound
  <2>4. n.type \in Notices => n.from <= now'
    BY <1>1, <1>8, <2>2 DEF IsSound
  <2> QED BY <2>1, <2>3, <2>4 DEF IsSound
<1>9. RecordInv'
  <2>1. ASSUME NEW i \in DOMAIN records' PROVE IsSound(records[i])'
    <3>1. CASE i \in DOMAIN records
      <4>1. records[i] \in ControlRecord /\ IsSound(records[i]) /\ records'[i] = records[i]
        BY <1>1, <1>3, <3>1 DEF RecordInv
      <4> QED BY <1>8, <4>1
    <3>2. CASE i \notin DOMAIN records
      <4>1. \E j \in DOMAIN new : new[j] = records'[i]
        BY <1>3, <3>2
      <4>2. records'[i] \in ControlRecord
        BY <1>3
      <4> QED BY <4>1, <4>2 DEF Accounts
    <3> QED BY <3>1, <3>2
  <2>2. mismatched' \subseteq seen'.hurt
    BY DEF Accounts, RecordInv
  <2>3. ASSUME NEW t \in Series, NEW s \in kept'[t] \ heard'[t]
        PROVE  \E i \in DOMAIN records' : records'[i] = FailureRecord(s)
    <3>1. CASE s \in kept[t]
      <4>1. s \notin heard[t]
        BY DEF Accounts
      <4>2. \E i \in DOMAIN records : records[i] = FailureRecord(s)
        BY <3>1, <4>1 DEF RecordInv
      <4> QED BY <1>3, <4>2
    <3>2. CASE s \notin kept[t]
      <4>1. ~full /\ \E j \in DOMAIN new : new[j] = FailureRecord(s)
        BY <3>2 DEF Accounts
      <4> QED BY <1>3, <4>1
    <3> QED BY <3>1, <3>2
  <2>4. ASSUME counters'.dropped = 0, NEW r \in seen'.hurt \ mismatched'
        PROVE  \E i \in DOMAIN records' : /\ records'[i].type = "parse_failure"
                                          /\ records'[i].placed /\ r \in records'[i].rounds
    <3>1. counters.dropped = 0
      BY <1>1, <1>3, <2>4
    <3>2. CASE r \in seen.hurt
      <4>1. r \notin mismatched
        BY <2>4 DEF Accounts
      <4> QED BY <1>3, <3>1, <3>2, <4>1 DEF RecordInv
    <3>3. CASE r \notin seen.hurt
      <4>1. ~ (full /\ (nObs > 0 \/ parse > 0))
        BY <1>3, <1>5, <2>4
      <4>2. PICK j \in DOMAIN new : /\ new[j].type = "parse_failure"
                                    /\ new[j].placed /\ r \in new[j].rounds
        BY <2>4, <3>3, <4>1 DEF Accounts
      <4>3. parse > 0
        BY <1>2, <4>2, CountFailsPositive
      <4>4. ~full
        BY <4>1, <4>3
      <4> QED BY <1>3, <4>2, <4>4
    <3> QED BY <3>2, <3>3
  <2> QED BY <2>1, <2>2, <2>3, <2>4 DEF RecordInv
<1> QED BY <1>1, <1>2, <1>3, <1>7, <1>9

-----------------------------------------------------------------------------
(***************************************************************************)
(* The steps.                                                              *)
(***************************************************************************)

LEMMA CountFailsNone ==
  ASSUME NEW S, NEW s \in Seq(S), \A i \in DOMAIN s : s[i].type # "parse_failure"
  PROVE  CountFails(s) = 0
<1>1. {i \in DOMAIN s : s[i].type = "parse_failure"} = {}
  OBVIOUS
<1> QED BY <1>1, FS_EmptySet DEF CountFails

LEMMA CountFailsAll ==
  ASSUME NEW S, NEW s \in Seq(S), \A i \in DOMAIN s : s[i].type = "parse_failure"
  PROVE  CountFails(s) = Len(s)
<1>1. {i \in DOMAIN s : s[i].type = "parse_failure"} = 1..Len(s) /\ Len(s) \in Nat
  OBVIOUS
<1>2. Cardinality(1..Len(s)) = Len(s)
  <2> DEFINE n == Len(s)
  <2>1. n \in Nat
    OBVIOUS
  <2> HIDE DEF n
  <2>2. Cardinality(1..n) = n
    BY <2>1, FS_Interval
  <2> QED BY <2>2 DEF n
<1> QED BY <1>1, <1>2 DEF CountFails

LEMMA InWindowIs ==
  ASSUME NEW at \in Int
  PROVE  InWindow(at) = RoundsOver(at, at)
BY RoundTimes DEF InWindow, RoundsOver

LEMMA FailureRecordType ==
  ASSUME NEW at \in Nat
  PROVE  /\ FailureRecord(at) \in ControlRecord
         /\ FailureRecord(at).type = "parse_failure" /\ FailureRecord(at).placed
         /\ FailureRecord(at).rounds = RoundsOver(at, at)
BY RoundsOverType DEF FailureRecord, Record, ControlRecord

LEMMA GapRecordType ==
  ASSUME NEW t \in Series, NEW from \in Nat, NEW to \in Nat
  PROVE  GapRecord(t, from, to) \in ControlRecord /\ GapRecord(t, from, to).type = "data_gap"
BY RoundsOverType DEF GapRecord, Record, ControlRecord

LEMMA NoticeType ==
  ASSUME NEW type \in Notices, NEW t \in Series \cup {""}, NEW at \in Nat
  PROVE  /\ Notice(type, t, at) \in ControlRecord
         /\ Notice(type, t, at).type \in Notices /\ Notice(type, t, at).placed
         /\ Notice(type, t, at).from = at
BY DEF Notice, Record, ControlRecord

\* A step that submits nothing.
LEMMA SilentAccounts ==
  ASSUME ShapeInv, UNCHANGED <<now, heard, kept, records, mismatched, counters>>,
         seen'.unplaced = seen.unplaced, seen'.hurt = seen.hurt
  PROVE  Accounts(<<>>, 0, 0)
<1>1. CountFails(<<>>) = 0 /\ <<>> \in Seq(ControlRecord) /\ DOMAIN <<>> = {} /\ Len(<<>>) = 0
  BY CountFailsSmall
<1>2. now \in Nat /\ seen.unplaced \in BOOLEAN
  BY Constants DEF ShapeInv, FeedShape, Seen
<1>3. records \in Seq(ControlRecord) /\ counters \in [parse : Nat, dropped : Nat]
  BY DEF ShapeInv, LogShape
<1>4. records \o <<>> = records
  BY <1>3
<1>5. Submitted(<<>>, 0, 0)
  BY <1>1, <1>3, <1>4 DEF Submitted
<1>6. \A t \in Series : heard'[t] = heard[t] /\ kept'[t] = kept[t]
  OBVIOUS
<1>7. mismatched' = mismatched /\ now' = now
  OBVIOUS
<1>8. \A j \in DOMAIN <<>> : FALSE
  OBVIOUS
<1> DEFINE new == <<>>
<1> HIDE DEF new
<1>9. \A j \in DOMAIN new : FALSE
  BY <1>8 DEF new
<1>10. Accounts(new, 0, 0)
  <2>1. CountFails(new) = 0 /\ new \in Seq(ControlRecord) /\ Submitted(new, 0, 0)
    BY <1>1, <1>5 DEF new
  <2>2. seen'.unplaced <=> \/ seen.unplaced
                           \/ full /\ 0 > 0
                           \/ \E j \in DOMAIN new : ~new[j].placed
    BY <1>2, <1>9
  <2>3. /\ seen.hurt \subseteq seen'.hurt /\ seen'.hurt \ seen.hurt = {}
        /\ mismatched \subseteq mismatched' /\ mismatched' \subseteq mismatched \cup seen'.hurt
    BY <1>7
  <2>4. \A t \in Series :
       /\ heard'[t] \ heard[t] \subseteq {now'} /\ heard[t] \subseteq heard'[t]
       /\ kept[t] \subseteq kept'[t]
       /\ heard'[t] # heard[t] => now < now'
       /\ heard'[t] \subseteq heard[t] \cup kept'[t]
       /\ kept'[t] \ kept[t] = {}
    BY <1>6
  <2> QED BY <1>2, <1>7, <1>9, <2>1, <2>2, <2>3, <2>4 DEF Accounts
<1> QED BY <1>10 DEF new

\* What was observed until now stays the last observation before a boundary
\* that is over.
LEMMA PickStays ==
  ASSUME FeedShape, NEW new, NEW nObs, NEW parse, Accounts(new, nObs, parse),
         NEW r \in Rounds, Start(r) <= now
  PROVE  StartPick(r)' = StartPick(r)
<1>1. Start(r) \in Nat /\ now \in Nat /\ now' \in Nat /\ now <= now' /\ Settling \in Series
  BY RoundTimes, Constants DEF FeedShape, Accounts
<1>2. CASE heard'[Settling] = heard[Settling]
  BY <1>2 DEF StartPick
<1>3. CASE heard'[Settling] # heard[Settling]
  <2>1. now < now' /\ heard[Settling] \subseteq heard'[Settling]
        /\ heard'[Settling] \ heard[Settling] \subseteq {now'}
    BY <1>1, <1>3 DEF Accounts
  <2>2. {s \in heard'[Settling] : s <= Start(r)} = {s \in heard[Settling] : s <= Start(r)}
    BY <1>1, <2>1
  <2> QED BY <2>2 DEF StartPick, PickBefore
<1> QED BY <1>2, <1>3

\* A step that writes no row leaves what is said of them.
LEMMA RowsStay ==
  ASSUME ShapeInv, CountInv, RecordInv, RowInv,
         NEW new, NEW nObs, NEW parse, Accounts(new, nObs, parse),
         UNCHANGED <<world, labels, rows>>, seen'.rewritten = seen.rewritten,
         phase = "stored" => phase' = "stored"
  PROVE  RowInv'
<1>1. /\ counters \in [parse : Nat, dropped : Nat] /\ counters' \in [parse : Nat, dropped : Nat]
      /\ counters.parse <= counters'.parse /\ counters.dropped <= counters'.dropped
  BY AccountsKeep DEF ShapeInv, LogShape
<1>2. now \in Nat /\ now' \in Nat /\ now <= now' /\ rows \in [Rounds -> StoredRow]
      /\ kept[Settling] \subseteq kept'[Settling]
  BY Constants DEF ShapeInv, FeedShape, Accounts
<1>3. ASSUME NEW r \in Rounds PROVE RowIsSound(r)'
  <2>1. RowIsSound(r) /\ rows[r] \in StoredRow
    BY <1>2 DEF RowInv
  <2>2. rows[r] # NoRow => /\ rows[r].metrics # <<>>
                           /\ rows[r].metrics[1] <= counters'.parse
                           /\ rows[r].metrics[2] <= counters'.dropped
    <3>1. ASSUME rows[r] # NoRow
          PROVE  /\ rows[r].metrics # <<>>
                 /\ rows[r].metrics[1] <= counters'.parse
                 /\ rows[r].metrics[2] <= counters'.dropped
      <4>1. /\ rows[r].metrics # <<>> /\ rows[r].metrics \in {<<>>} \cup (Nat \X Nat)
            /\ rows[r].metrics[1] <= counters.parse /\ rows[r].metrics[2] <= counters.dropped
        BY <2>1, <3>1 DEF RowIsSound, StoredRow
      <4>2. rows[r].metrics[1] \in Nat /\ rows[r].metrics[2] \in Nat
        BY <4>1
      <4> QED BY <1>1, <4>1, <4>2
    <3> QED BY <3>1
  <2>3. ASSUME rows[r].declared # "none", r \notin seen.rewritten
        PROVE  /\ End(r) <= now'
               /\ StartPick(r)' = StartPick(r) /\ StartPick(r) # None
               /\ Start(r) - StartPick(r) <= Tolerance
               /\ rows[r].start = world.price[StartPick(r)]
               /\ rows[r].metrics[2] = 0 => StartPick(r) \in kept'[Settling]
    <3>1. /\ End(r) <= now
          /\ StartPick(r) # None
          /\ Start(r) - StartPick(r) <= Tolerance
          /\ rows[r].start = world.price[StartPick(r)]
          /\ rows[r].metrics[2] = 0 => StartPick(r) \in kept[Settling]
      BY <2>1, <2>3 DEF RowIsSound
    <3>2. End(r) \in Nat /\ Start(r) \in Nat /\ Start(r) <= now
      BY <1>2, <3>1, RoundTimes
    <3>3. StartPick(r)' = StartPick(r)
      BY <3>2, PickStays DEF ShapeInv
    <3> QED BY <1>2, <3>1, <3>2, <3>3
  <2> QED BY <2>1, <2>2, <2>3 DEF RowIsSound
<1>4. ASSUME NEW r \in Rounds PROVE LabelIsSound(r)'
  BY DEF RowInv, LabelIsSound
<1> QED BY <1>3, <1>4 DEF RowInv

\* The fields of the state, as the steps need them.
LEMMA Fields ==
  ASSUME AuditInv
  PROVE  /\ FeedShape /\ LogShape /\ TrackerInv /\ now \in Nat /\ world.faults \in Nat
         /\ IsFiniteSet(Series) /\ seen \in Seen /\ socket \in Socket
         /\ counters \in [parse : Nat, dropped : Nat] /\ mismatched \subseteq Rounds
         /\ faults \in 0..world.faults
<1>1. FeedShape /\ LogShape /\ TrackerInv
  BY DEF AuditInv, ShapeInv
<1>2. world.faults \in Nat
  BY <1>1, WorldFields DEF FeedShape
<1> QED BY <1>1, <1>2, Constants DEF FeedShape, LogShape

LEMMA BefallenFields ==
  ASSUME seen \in Seen, NEW H \in SUBSET Rounds, NEW parse \in Nat
  PROVE  /\ Befallen(H, parse) \in Seen
         /\ Befallen(H, parse).hurt = seen.hurt \cup H
         /\ Befallen(H, parse).unplaced <=> seen.unplaced \/ (full /\ parse > 0)
         /\ Befallen(H, parse).rewritten = seen.rewritten
         /\ Befallen(H, parse).breaks = seen.breaks
<1> DEFINE u == seen.unplaced \/ (full /\ parse > 0)
<1>1. u \in BOOLEAN
  OBVIOUS
<1>2. Befallen(H, parse) = [seen EXCEPT !.hurt = @ \cup H, !.unplaced = u]
  BY DEF Befallen
<1>3. u <=> seen.unplaced \/ (full /\ parse > 0)
  OBVIOUS
<1> HIDE DEF u
<1> QED BY <1>1, <1>2, <1>3 DEF Seen

LEMMA StepKeeps ==
  ASSUME AuditInv, NEW new, NEW nObs, NEW parse, Accounts(new, nObs, parse),
         FeedShape', TrackerInv', RowInv'
  PROVE  AuditInv'
BY AccountsKeep DEF AuditInv, ShapeInv, LogShape

\* The steps that leave the log alone.
LEMMA QuietSteps ==
  ASSUME AuditInv, NEW t \in Series, FallSilent \/ QueueFills \/ Die \/ Stops(t) \/ Resumes(t)
  PROVE  AuditInv'
<1>1. /\ UNCHANGED <<world, now, gaps, watched, heard, kept, history, records, mismatched>>
      /\ UNCHANGED <<counters, labels, rows, seen>>
  BY DEF FallSilent, QueueFills, Die, Stops, Resumes, Fault, log, stored, feed
<1>2. FeedShape /\ TrackerInv /\ world.faults \in Nat
  BY Fields
<1>3. faults' \in 0..world.faults
  BY <1>2 DEF FallSilent, QueueFills, Die, Stops, Resumes, Fault, FeedShape
<1>4. /\ phase' \in {"capture", "stored"} /\ on' \subseteq Series /\ full' \in BOOLEAN
      /\ phase = "stored" => phase' = "stored"
  BY <1>2 DEF FallSilent, QueueFills, Die, Stops, Resumes, Fault, FeedShape, log, feed
<1>5. /\ socket' \in Socket
      /\ socket'.state = "down" <=> socket.state = "down"
  <2>1. socket \in Socket
    BY <1>2 DEF FeedShape
  <2>2. socket' = socket \/ (socket.state = "up" /\ socket' = [socket EXCEPT !.state = "silent"])
    BY DEF FallSilent, QueueFills, Die, Stops, Resumes, Fault, log, feed
  <2> QED BY <2>1, <2>2 DEF Seen, Socket
<1>6. FeedShape'
  BY <1>1, <1>2, <1>3, <1>4, <1>5 DEF FeedShape, Seen, Socket
<1>7. TrackerInv'
  BY <1>1, <1>2, <1>5 DEF TrackerInv
<1>8. Accounts(<<>>, 0, 0)
  BY <1>1, SilentAccounts DEF AuditInv
<1>9. RowInv'
  BY <1>1, <1>4, <1>8, RowsStay DEF AuditInv
<1> QED BY <1>6, <1>7, <1>8, <1>9, StepKeeps

\* A list of notices of now.
Noticed == {n \in ControlRecord : n.type \in Notices /\ n.placed /\ n.from = now}

LEMMA NoticedNow ==
  ASSUME now \in Nat, NEW type \in Notices, NEW t \in Series \cup {""}
  PROVE  Notice(type, t, now) \in Noticed
<1> DEFINE n == Notice(type, t, now)
<1>1. n \in ControlRecord /\ n.type \in Notices /\ n.placed /\ n.from = now
  BY NoticeType
<1> HIDE DEF n
<1>2. n \in Noticed
  BY <1>1 DEF Noticed
<1> QED BY <1>2 DEF n

LEMMA NoticedAccounts ==
  ASSUME ShapeInv, NEW new \in Seq(Noticed), NEW nObs \in Nat, Submitted(new, nObs, 0),
         UNCHANGED <<now, heard, kept, mismatched>>,
         seen'.unplaced = seen.unplaced, seen'.hurt = seen.hurt
  PROVE  Accounts(new, nObs, 0)
<1>1. now \in Nat /\ seen.unplaced \in BOOLEAN
  BY Constants DEF ShapeInv, FeedShape, Seen
<1>2. new \in Seq(ControlRecord) /\ \A j \in DOMAIN new : new[j] \in Noticed
  <2>1. Noticed \subseteq ControlRecord
    BY DEF Noticed
  <2> QED BY <2>1
<1>3. ASSUME NEW n, NEW j \in DOMAIN new, new[j] = n
      PROVE  n.type # "parse_failure" /\ n.placed /\ IsSound(n)'
  <2>1. n.type \in Notices /\ n.placed /\ n.from = now
    BY <1>2, <1>3 DEF Noticed
  <2>2. n.type # "parse_failure" /\ n.type # "data_gap"
    BY <2>1 DEF Notices
  <2> QED BY <1>1, <2>1, <2>2 DEF IsSound
<1>4. CountFails(new) = 0
  BY <1>2, <1>3, CountFailsNone
<1>5. \A t \in Series : heard'[t] = heard[t] /\ kept'[t] = kept[t]
  OBVIOUS
<1>6. seen'.unplaced <=> \/ seen.unplaced
                         \/ full /\ 0 > 0
                         \/ \E j \in DOMAIN new : ~new[j].placed
  BY <1>1, <1>3
<1>7. /\ seen.hurt \subseteq seen'.hurt /\ seen'.hurt \ seen.hurt = {}
      /\ mismatched \subseteq mismatched' /\ mismatched' \subseteq mismatched \cup seen'.hurt
  OBVIOUS
<1>8. \A t \in Series :
       /\ heard'[t] \ heard[t] \subseteq {now'} /\ heard[t] \subseteq heard'[t]
       /\ kept[t] \subseteq kept'[t]
       /\ heard'[t] # heard[t] => now < now'
       /\ heard'[t] \subseteq heard[t] \cup kept'[t]
       /\ kept'[t] \ kept[t] = {}
  BY <1>5
<1> QED BY <1>1, <1>2, <1>3, <1>4, <1>6, <1>7, <1>8 DEF Accounts

\* The notices of a look at the series.
LEMMA WatchNotices ==
  ASSUME now \in Nat, IsFiniteSet(Series)
  PROVE  LET stale == {t \in Series : Silent(t)}
             dead == now - socket.quiet > StallTimeout
         IN SetToSeq({Notice("topic_stalled", t, now) : t \in stale})
              \o (IF dead THEN <<Notice("stream_stalled", "", now)>> ELSE <<>>) \in Seq(Noticed)
<1> DEFINE stale == {t \in Series : Silent(t)}
           dead == now - socket.quiet > StallTimeout
           topics == {Notice("topic_stalled", t, now) : t \in stale}
           last == IF dead THEN <<Notice("stream_stalled", "", now)>> ELSE <<>>
<1>1. topics \subseteq Noticed
  <2>1. ASSUME NEW t \in stale PROVE Notice("topic_stalled", t, now) \in Noticed
    <3>1. "topic_stalled" \in Notices /\ t \in Series \cup {""}
      BY DEF Notices
    <3> QED BY <3>1, NoticedNow
  <2> QED BY <2>1
<1>2. IsFiniteSet(topics)
  <2>1. IsFiniteSet(stale)
    BY FS_Subset
  <2> DEFINE f == [t \in stale |-> Notice("topic_stalled", t, now)]
  <2>2. topics = {f[t] : t \in stale} /\ f = [t \in stale |-> f[t]]
    OBVIOUS
  <2> HIDE DEF f, topics, stale
  <2> QED BY <2>1, <2>2, FiniteImage
<1>3. SetToSeq(topics) \in Seq(Noticed)
  <2> HIDE DEF topics
  <2>1. SetToSeq(topics) \in Seq(topics)
    BY <1>2, SetToSeqFacts
  <2> QED BY <1>1, <2>1
<1>4. last \in Seq(Noticed)
  <2> DEFINE n == Notice("stream_stalled", "", now)
  <2>1. n \in Noticed
    <3>1. "stream_stalled" \in Notices /\ "" \in Series \cup {""}
      BY DEF Notices
    <3> QED BY <3>1, NoticedNow
  <2> HIDE DEF n
  <2>2. <<n>> \in Seq(Noticed) /\ <<>> \in Seq(Noticed)
    BY <2>1
  <2> QED BY <2>2 DEF n
<1>5. SetToSeq(topics) \o last \in Seq(Noticed)
  <2> HIDE DEF topics, last
  <2> QED BY <1>3, <1>4
<1> QED BY <1>5

LEMMA WatchStep ==
  ASSUME AuditInv, Watch
  PROVE  AuditInv'
<1> DEFINE stale == {t \in Series : Silent(t)}
           dead == now - socket.quiet > StallTimeout
           topics == {Notice("topic_stalled", t, now) : t \in stale}
           last == IF dead THEN <<Notice("stream_stalled", "", now)>> ELSE <<>>
           new == SetToSeq(topics) \o last
<1>1. FeedShape /\ TrackerInv /\ now \in Nat /\ IsFiniteSet(Series)
  BY Fields
<1>2. /\ ~watched /\ watched' = TRUE
      /\ gaps' = [t \in Series |-> IF t \in stale \/ dead THEN Begin(gaps[t], now) ELSE gaps[t]]
      /\ socket' = IF dead THEN [socket EXCEPT !.state = "down"] ELSE socket
      /\ Submitted(new, 0, 0)
      /\ seen' = IF dead THEN [seen EXCEPT !.breaks = @ \cup {socket.quiet}] ELSE seen
      /\ UNCHANGED <<world, now, phase, on, heard, kept, history, mismatched, full, labels, rows, faults>>
  BY DEF Watch, stored
<1>3. new \in Seq(Noticed)
  BY <1>1, WatchNotices
<1>4. seen \in Seen
      /\ socket \in Socket
  BY <1>1 DEF FeedShape
<1>5. /\ seen' \in Seen
      /\ seen'.unplaced = seen.unplaced /\ seen'.hurt = seen.hurt
      /\ seen'.rewritten = seen.rewritten
  BY <1>2, <1>4 DEF Seen, Socket
<1>6. /\ socket' \in Socket
      /\ socket'.state # "down" => socket.state # "down"
  BY <1>2, <1>4 DEF Seen, Socket
<1> HIDE DEF new
<1>7. Accounts(new, 0, 0)
  BY <1>2, <1>3, <1>5, NoticedAccounts DEF AuditInv
<1> HIDE DEF stale, dead
<1>8. ASSUME NEW t \in Series
      PROVE  /\ gaps'[t] \in [last : None..now, start : None..now]
             /\ gaps'[t].last = gaps[t].last /\ gaps'[t].start \in {None, gaps[t].last}
  <2>1. /\ gaps[t] \in [last : None..now, start : None..now]
        /\ gaps[t].start \in {None, gaps[t].last} /\ gaps[t].last # None
    BY <1>1, <1>2 DEF FeedShape, TrackerInv
  <2>2. gaps'[t] = gaps[t] \/ gaps'[t] = Begin(gaps[t], now)
    BY <1>2
  <2> QED BY <2>1, <2>2 DEF Begin
<1>9. FeedShape'
  <2>1. gaps' \in [Series -> [last : None..now, start : None..now]]
    BY <1>2, <1>8
  <2> QED BY <1>1, <1>2, <1>5, <1>6, <2>1 DEF FeedShape, Seen, Socket
<1>10. TrackerInv'
  BY <1>1, <1>2, <1>6, <1>8 DEF TrackerInv
<1>11. RowInv'
  BY <1>2, <1>5, <1>7, RowsStay DEF AuditInv
<1> QED BY <1>7, <1>9, <1>10, <1>11, StepKeeps

LEMMA ConnectStep ==
  ASSUME AuditInv, Connect
  PROVE  AuditInv'
<1> DEFINE new == IF socket.first THEN <<>> ELSE <<Notice("reconnect", "", now)>>
<1>1. FeedShape /\ TrackerInv /\ now \in Nat /\ IsFiniteSet(Series)
  BY Fields
<1>2. PICK back \in {{}, on} :
         /\ Submitted(new, Cardinality(back), 0)
         /\ seen' = IF back # {}
                    THEN [seen EXCEPT !.backfills = @ \cup {now}, !.breaks = @ \ {now}]
                    ELSE seen
         /\ history' = [t \in Series |-> IF t \in back /\ ~full THEN history[t] \cup {now} ELSE history[t]]
  BY DEF Connect
<1>3. /\ socket' = [state |-> "up", first |-> FALSE, quiet |-> now]
      /\ gaps' = [t \in Series |-> IF gaps[t].last = None THEN [gaps[t] EXCEPT !.last = now] ELSE gaps[t]]
      /\ watched' = TRUE
      /\ UNCHANGED <<world, now, phase, on, heard, kept, mismatched, full, labels, rows, faults>>
  BY DEF Connect, stored
<1>4. new \in Seq(Noticed)
  <2> DEFINE n == Notice("reconnect", "", now)
  <2>1. n \in Noticed
    <3>1. "reconnect" \in Notices /\ "" \in Series \cup {""}
      BY DEF Notices
    <3> QED BY <1>1, <3>1, NoticedNow
  <2> HIDE DEF n
  <2>2. <<n>> \in Seq(Noticed) /\ <<>> \in Seq(Noticed)
    BY <2>1
  <2> QED BY <2>2 DEF n
<1>5. Cardinality(back) \in Nat
  <2>1. back \subseteq Series
    BY <1>1 DEF FeedShape
  <2> QED BY <1>1, <2>1, FS_Subset, FS_CardinalityType
<1>6. /\ seen' \in Seen
      /\ seen'.unplaced = seen.unplaced /\ seen'.hurt = seen.hurt
      /\ seen'.rewritten = seen.rewritten
  <2>1. seen \in Seen
    BY <1>1 DEF FeedShape
  <2>2. now \in 0..now
    BY <1>1
  <2>3. seen' = seen \/ seen' = [seen EXCEPT !.backfills = @ \cup {now}, !.breaks = @ \ {now}]
    BY <1>2
  <2> QED BY <2>1, <2>2, <2>3 DEF Seen, Socket
<1> HIDE DEF new
<1>7. Accounts(new, Cardinality(back), 0)
  BY <1>2, <1>3, <1>4, <1>5, <1>6, NoticedAccounts DEF AuditInv
<1>8. ASSUME NEW t \in Series
      PROVE  /\ gaps'[t] \in [last : None..now, start : None..now]
             /\ gaps'[t].start \in {None, gaps'[t].last} /\ gaps'[t].last # None
             /\ \A s \in heard[t] : s <= gaps'[t].last
             /\ history'[t] \subseteq 0..now
  <2>1. /\ gaps[t] \in [last : None..now, start : None..now]
        /\ gaps[t].start \in {None, gaps[t].last}
        /\ heard[t] \subseteq 1..now /\ history[t] \subseteq 0..now
        /\ \A s \in heard[t] : s <= gaps[t].last
    BY <1>1 DEF FeedShape, TrackerInv
  <2>2. history'[t] \subseteq history[t] \cup {now}
    BY <1>2
  <2>3. gaps'[t] = IF gaps[t].last = None THEN [gaps[t] EXCEPT !.last = now] ELSE gaps[t]
    BY <1>3
  <2> QED BY <1>1, <2>1, <2>2, <2>3 DEF None
<1>9. FeedShape'
  <2>1. gaps' \in [Series -> [last : None..now, start : None..now]]
    BY <1>3, <1>8
  <2>2. history' \in [Series -> SUBSET (0..now)]
    BY <1>2, <1>8
  <2>3. socket' \in Socket
    BY <1>1, <1>3 DEF Seen, Socket
  <2> QED BY <1>1, <1>3, <1>6, <2>1, <2>2, <2>3 DEF FeedShape, Seen, Socket
<1>10. TrackerInv'
  BY <1>3, <1>8 DEF TrackerInv
<1>11. RowInv'
  BY <1>3, <1>6, <1>7, RowsStay DEF AuditInv
<1> QED BY <1>7, <1>9, <1>10, <1>11, StepKeeps

\* A failure that befalls the rounds its record names.
LEMMA FailureAccounts ==
  ASSUME ShapeInv, NEW n \in ControlRecord, n.type = "parse_failure",
         Submitted(<<n>>, 0, 1), UNCHANGED <<now, heard, kept, mismatched>>,
         seen'.unplaced <=> seen.unplaced \/ full \/ ~n.placed,
         seen'.hurt = IF n.placed THEN seen.hurt \cup n.rounds ELSE seen.hurt
  PROVE  Accounts(<<n>>, 0, 1)
<1> DEFINE new == <<n>>
<1>1. now \in Nat
  BY Constants DEF ShapeInv, FeedShape
<1>2. new \in Seq(ControlRecord) /\ DOMAIN new = {1} /\ new[1] = n /\ CountFails(new) = 1
  BY CountFailsSmall
<1>3. Submitted(new, 0, 1)
  OBVIOUS
<1> HIDE DEF new
<1>4. IsSound(n)'
  BY DEF IsSound, Notices
<1>5. \A t \in Series :
       /\ heard'[t] \ heard[t] \subseteq {now'} /\ heard[t] \subseteq heard'[t]
       /\ kept[t] \subseteq kept'[t]
       /\ heard'[t] # heard[t] => now < now'
       /\ heard'[t] \subseteq heard[t] \cup kept'[t]
       /\ kept'[t] \ kept[t] = {}
  OBVIOUS
<1>6. /\ seen.hurt \subseteq seen'.hurt
      /\ \A r \in seen'.hurt \ seen.hurt : n.placed /\ r \in n.rounds
      /\ mismatched \subseteq mismatched' /\ mismatched' \subseteq mismatched \cup seen'.hurt
  OBVIOUS
<1>7. seen'.unplaced <=> \/ seen.unplaced
                         \/ full /\ 1 > 0
                         \/ \E j \in DOMAIN new : ~new[j].placed
  BY <1>2
<1>8. Accounts(new, 0, 1)
  BY <1>1, <1>2, <1>3, <1>4, <1>5, <1>6, <1>7 DEF Accounts
<1> QED BY <1>8 DEF new

LEMMA BreakStep ==
  ASSUME AuditInv, Break
  PROVE  AuditInv'
<1> DEFINE n == FailureRecord(now)
<1>1. FeedShape /\ TrackerInv /\ now \in Nat /\ world.faults \in Nat
  BY Fields
<1>2. /\ socket' = [socket EXCEPT !.state = "down"] /\ faults' = faults + 1 /\ faults < world.faults
      /\ watched /\ Submitted(<<n>>, 0, 1)
      /\ seen' = [Befallen(InWindow(now), 1) EXCEPT
                    !.breaks = IF socket.state = "up" THEN @ \cup {socket.quiet} ELSE @]
      /\ UNCHANGED <<world, now, phase, on, gaps, watched, heard, kept, history, mismatched, full, labels, rows>>
  BY DEF Break, stored, Fault
<1>3. /\ n \in ControlRecord /\ n.type = "parse_failure" /\ n.placed /\ n.rounds = InWindow(now)
      /\ n.rounds \subseteq Rounds
  BY <1>1, FailureRecordType, InWindowIs, RoundsOverType
<1> HIDE DEF n
<1>4. seen \in Seen
      /\ socket \in Socket
  BY <1>1 DEF FeedShape
<1>5. /\ seen' \in Seen
      /\ seen'.unplaced <=> seen.unplaced \/ full
      /\ seen'.hurt = seen.hurt \cup n.rounds
      /\ seen'.rewritten = seen.rewritten
  <2> DEFINE b == Befallen(InWindow(now), 1)
  <2>1. b \in Seen /\ b.hurt = seen.hurt \cup n.rounds /\ b.rewritten = seen.rewritten
        /\ (b.unplaced <=> seen.unplaced \/ full)
    BY <1>3, <1>4, BefallenFields
  <2>2. seen' = [b EXCEPT !.breaks = IF socket.state = "up" THEN @ \cup {socket.quiet} ELSE @]
    BY <1>2
  <2> HIDE DEF b
  <2> QED BY <1>4, <2>1, <2>2, <1>2 DEF Seen, Socket
<1>6. Accounts(<<n>>, 0, 1)
  BY <1>2, <1>3, <1>5, FailureAccounts DEF AuditInv
<1>7. FeedShape'
  <2>1. faults' \in 0..world.faults
    BY <1>1, <1>2 DEF FeedShape
  <2>2. socket' \in Socket
    BY <1>2, <1>4 DEF Seen, Socket
  <2> QED BY <1>1, <1>2, <1>5, <2>1, <2>2 DEF FeedShape, Seen, Socket
<1>8. TrackerInv'
  <2>1. socket'.state = "down"
    BY <1>2, <1>4
  <2> QED BY <1>1, <1>2, <2>1 DEF TrackerInv
<1>9. RowInv'
  BY <1>2, <1>5, <1>6, RowsStay DEF AuditInv
<1> QED BY <1>6, <1>7, <1>8, <1>9, StepKeeps

LEMMA FrameFailsStep ==
  ASSUME AuditInv, FrameFails
  PROVE  AuditInv'
<1>1. FeedShape /\ TrackerInv /\ now \in Nat /\ world.faults \in Nat
  BY Fields
<1>2. /\ faults' = faults + 1 /\ faults < world.faults
      /\ UNCHANGED <<world, now, phase, on, socket, gaps, watched, heard, kept, history,
                     mismatched, full, labels, rows>>
  BY DEF FrameFails, Fault, feed, stored
<1>3. seen \in Seen
  BY <1>1 DEF FeedShape
<1>4. \E n \in ControlRecord :
        /\ n.type = "parse_failure" /\ Submitted(<<n>>, 0, 1)
        /\ seen' \in Seen
        /\ seen'.unplaced <=> seen.unplaced \/ full \/ ~n.placed
        /\ seen'.hurt = IF n.placed THEN seen.hurt \cup n.rounds ELSE seen.hurt
        /\ seen'.rewritten = seen.rewritten
  <2>1. CASE \E rounds \in {{}} \cup {{r} : r \in Rounds} :
               Submitted(<<NamedRecord(now, rounds)>>, 0, 1) /\ seen' = Befallen(rounds, 1)
    <3>1. PICK rounds \in {{}} \cup {{r} : r \in Rounds} :
               Submitted(<<NamedRecord(now, rounds)>>, 0, 1) /\ seen' = Befallen(rounds, 1)
      BY <2>1
    <3> DEFINE n == NamedRecord(now, rounds)
    <3>2. rounds \subseteq Rounds
      OBVIOUS
    <3>3. n \in ControlRecord /\ n.type = "parse_failure" /\ n.placed /\ n.rounds = rounds
      BY <1>1, <3>2 DEF NamedRecord, Record, ControlRecord
    <3>4. /\ seen' \in Seen
          /\ seen'.unplaced <=> seen.unplaced \/ full
          /\ seen'.hurt = seen.hurt \cup rounds
          /\ seen'.rewritten = seen.rewritten
      <4>1. seen' = Befallen(rounds, 1) /\ rounds \in SUBSET Rounds /\ 1 \in Nat /\ 1 > 0
        BY <3>1, <3>2
      <4>2. /\ Befallen(rounds, 1) \in Seen
            /\ Befallen(rounds, 1).hurt = seen.hurt \cup rounds
            /\ Befallen(rounds, 1).unplaced <=> seen.unplaced \/ (full /\ 1 > 0)
            /\ Befallen(rounds, 1).rewritten = seen.rewritten
        BY <1>3, <4>1, BefallenFields
      <4>3. Seen' = Seen
        BY <1>2 DEF Seen
      <4> QED BY <4>1, <4>2, <4>3
    <3>5. Submitted(<<n>>, 0, 1)
      BY <3>1
    <3> HIDE DEF n
    <3> QED BY <3>3, <3>4, <3>5
  <2>2. CASE Submitted(<<NamelessRecord(now)>>, 0, 1) /\ seen' = [seen EXCEPT !.unplaced = TRUE]
    <3> DEFINE n == NamelessRecord(now)
    <3>1. n \in ControlRecord /\ n.type = "parse_failure" /\ ~n.placed
      BY <1>1, RoundsOverType DEF NamelessRecord, Record, ControlRecord
    <3>2. /\ seen' \in Seen
          /\ seen'.unplaced /\ seen'.hurt = seen.hurt /\ seen'.rewritten = seen.rewritten
      BY <1>3, <2>2 DEF Seen, Socket
    <3>3. Submitted(<<n>>, 0, 1)
      BY <2>2
    <3> HIDE DEF n
    <3> QED BY <3>1, <3>2, <3>3
  <2> QED BY <2>1, <2>2 DEF FrameFails
<1>5. PICK n \in ControlRecord :
        /\ n.type = "parse_failure" /\ Submitted(<<n>>, 0, 1)
        /\ seen' \in Seen
        /\ seen'.unplaced <=> seen.unplaced \/ full \/ ~n.placed
        /\ seen'.hurt = IF n.placed THEN seen.hurt \cup n.rounds ELSE seen.hurt
        /\ seen'.rewritten = seen.rewritten
  BY <1>4
<1>6. Accounts(<<n>>, 0, 1)
  BY <1>2, <1>5, FailureAccounts DEF AuditInv
<1>7. FeedShape'
  <2>1. faults' \in 0..world.faults
    BY <1>1, <1>2 DEF FeedShape
  <2> QED BY <1>1, <1>2, <1>5, <2>1 DEF FeedShape, Seen, Socket
<1>8. TrackerInv'
  BY <1>1, <1>2 DEF TrackerInv
<1>9. RowInv'
  BY <1>2, <1>5, <1>6, RowsStay DEF AuditInv
<1> QED BY <1>6, <1>7, <1>8, <1>9, StepKeeps

\* A step that submits nothing but what is dropped without a record.
LEMMA LossAccounts ==
  ASSUME ShapeInv, NEW nObs \in Nat, UNCHANGED <<now, heard, kept, records>>,
         counters' = [counters EXCEPT !.dropped = IF full THEN @ + nObs ELSE @],
         mismatched \subseteq mismatched', mismatched' \subseteq mismatched \cup seen'.hurt,
         seen'.unplaced = seen.unplaced, seen.hurt \subseteq seen'.hurt,
         \A r \in seen'.hurt \ seen.hurt : r \in mismatched' \/ (full /\ nObs > 0)
  PROVE  Accounts(<<>>, nObs, 0)
<1> DEFINE new == <<>>
<1>1. now \in Nat /\ seen.unplaced \in BOOLEAN
  BY Constants DEF ShapeInv, FeedShape, Seen
<1>2. records \in Seq(ControlRecord) /\ counters \in [parse : Nat, dropped : Nat]
  BY DEF ShapeInv, LogShape
<1>3. new \in Seq(ControlRecord) /\ DOMAIN new = {} /\ Len(new) = 0 /\ CountFails(new) = 0
  BY CountFailsSmall
<1>4. records \o new = records
  BY <1>2
<1> HIDE DEF new
<1>5. Submitted(new, nObs, 0)
  BY <1>2, <1>3, <1>4 DEF Submitted
<1>6. seen'.unplaced <=> \/ seen.unplaced
                         \/ full /\ 0 > 0
                         \/ \E j \in DOMAIN new : ~new[j].placed
  BY <1>1, <1>3
<1>7. \A t \in Series :
       /\ heard'[t] \ heard[t] \subseteq {now'} /\ heard[t] \subseteq heard'[t]
       /\ kept[t] \subseteq kept'[t]
       /\ heard'[t] # heard[t] => now < now'
       /\ heard'[t] \subseteq heard[t] \cup kept'[t]
       /\ kept'[t] \ kept[t] = {}
  OBVIOUS
<1>8. \A j \in DOMAIN new : FALSE
  BY <1>3
<1>9. Accounts(new, nObs, 0)
  BY <1>1, <1>3, <1>5, <1>6, <1>7, <1>8 DEF Accounts
<1> QED BY <1>9 DEF new

LEMMA IntegrityStep ==
  ASSUME AuditInv, NEW r \in Rounds, IntegrityFails(r)
  PROVE  AuditInv'
<1>1. FeedShape /\ LogShape /\ TrackerInv /\ now \in Nat /\ world.faults \in Nat
  BY Fields
<1>2. /\ faults' = faults + 1 /\ faults < world.faults
      /\ UNCHANGED <<world, now, phase, on, socket, gaps, watched, heard, kept, history,
                     records, full, labels, rows>>
  BY DEF IntegrityFails, Fault, feed, stored
<1>3. seen \in Seen
      /\ counters \in [parse : Nat, dropped : Nat] /\ mismatched \subseteq Rounds
  BY <1>1 DEF FeedShape, LogShape
<1>4. /\ seen' \in Seen
      /\ seen'.unplaced = seen.unplaced /\ seen'.hurt = seen.hurt \cup {r}
      /\ seen'.rewritten = seen.rewritten
  <2>1. seen' = Befallen({r}, 0)
    BY DEF IntegrityFails
  <2>2. Befallen({r}, 0) \in Seen /\ Befallen({r}, 0).hurt = seen.hurt \cup {r}
        /\ (Befallen({r}, 0).unplaced <=> seen.unplaced)
        /\ Befallen({r}, 0).rewritten = seen.rewritten
    BY <1>3, BefallenFields
  <2>3. seen.unplaced \in BOOLEAN /\ Befallen({r}, 0).unplaced \in BOOLEAN
    BY <1>3, <2>2 DEF Seen
  <2> QED BY <2>1, <2>2, <2>3
<1>5. /\ mismatched' = IF full THEN mismatched ELSE mismatched \cup {r}
      /\ counters' = IF full THEN [counters EXCEPT !.dropped = @ + 1] ELSE counters
  BY DEF IntegrityFails
<1>6. Accounts(<<>>, 1, 0)
  <2>1. counters' = [counters EXCEPT !.dropped = IF full THEN @ + 1 ELSE @]
    BY <1>3, <1>5
  <2>2. /\ mismatched \subseteq mismatched' /\ mismatched' \subseteq mismatched \cup seen'.hurt
        /\ seen.hurt \subseteq seen'.hurt
        /\ \A q \in seen'.hurt \ seen.hurt : q \in mismatched' \/ (full /\ 1 > 0)
    BY <1>4, <1>5
  <2> QED BY <1>2, <1>4, <2>1, <2>2, LossAccounts DEF AuditInv
<1>7. FeedShape'
  <2>1. faults' \in 0..world.faults
    BY <1>1, <1>2 DEF FeedShape
  <2>2. mismatched' \subseteq Rounds
    BY <1>3, <1>5
  <2> QED BY <1>1, <1>2, <1>4, <2>1, <2>2 DEF FeedShape, Seen, Socket
<1>8. TrackerInv'
  BY <1>1, <1>2 DEF TrackerInv
<1>9. RowInv'
  BY <1>2, <1>4, <1>6, RowsStay DEF AuditInv
<1> QED BY <1>6, <1>7, <1>8, <1>9, StepKeeps

\* The records of a second: a gap for each series of over, a failure for
\* each of bad.
SecondLog(over, bad) ==
  SetToSeq({GapRecord(t, gaps[t].start, now + 1) : t \in over})
    \o SetToSeq({FailureRecord(now + 1) : t \in bad})

Tells(new, over, bad) ==
  /\ new \in Seq(ControlRecord) /\ CountFails(new) = Cardinality(bad) /\ Cardinality(bad) \in Nat
  /\ bad # {} => Cardinality(bad) > 0 /\ \E j \in DOMAIN new : new[j] = FailureRecord(now + 1)
  /\ \A j \in DOMAIN new :
       \/ \E t \in over : new[j] = GapRecord(t, gaps[t].start, now + 1)
       \/ bad # {} /\ new[j] = FailureRecord(now + 1)

LEMMA SecondRecords ==
  ASSUME AuditInv, NEW over \in SUBSET Series, NEW bad \in SUBSET Series,
         bad = {} \/ \E t \in Series : bad = {t},
         \A t \in over : gaps[t].start # None
  PROVE  Tells(SecondLog(over, bad), over, bad)
<1> DEFINE A == {GapRecord(t, gaps[t].start, now + 1) : t \in over}
           B == {FailureRecord(now + 1) : t \in bad}
           f == [t \in over |-> GapRecord(t, gaps[t].start, now + 1)]
           new == SecondLog(over, bad)
<1>1. FeedShape /\ now \in Nat /\ IsFiniteSet(Series)
  BY Fields
<1>2. A \subseteq {n \in ControlRecord : n.type = "data_gap"}
  <2>1. ASSUME NEW t \in over
        PROVE  /\ GapRecord(t, gaps[t].start, now + 1) \in ControlRecord
               /\ GapRecord(t, gaps[t].start, now + 1).type = "data_gap"
    <3>1. gaps[t].start \in Nat
      BY <1>1 DEF FeedShape, None
    <3>2. t \in Series /\ now + 1 \in Nat
      BY <1>1
    <3> QED BY <3>1, <3>2, GapRecordType
  <2> QED BY <2>1
<1>3. IsFiniteSet(A)
  <2>1. IsFiniteSet(over)
    BY <1>1, FS_Subset
  <2>2. A = {f[t] : t \in over} /\ f = [t \in over |-> f[t]]
    OBVIOUS
  <2> HIDE DEF A, f
  <2> QED BY <2>1, <2>2, FiniteImage
<1>4. B = (IF bad = {} THEN {} ELSE {FailureRecord(now + 1)})
  OBVIOUS
<1>5. IsFiniteSet(B) /\ Cardinality(B) = Cardinality(bad) /\ Cardinality(bad) \in Nat
      /\ (bad # {} => Cardinality(bad) > 0)
  <2> HIDE DEF B
  <2>1. CASE bad = {}
    BY <1>4, <2>1, FS_EmptySet
  <2>2. CASE bad # {}
    <3>1. PICK t \in Series : bad = {t}
      BY <2>2
    <3>2. Cardinality(bad) = 1
      BY <3>1, FS_Singleton
    <3>3. IsFiniteSet(B) /\ Cardinality(B) = 1
      <4>1. B = {FailureRecord(now + 1)}
        BY <1>4, <2>2
      <4> QED BY <4>1, FS_Singleton
    <3> QED BY <3>2, <3>3
  <2> QED BY <2>1, <2>2
<1>6. FailureRecord(now + 1) \in ControlRecord /\ FailureRecord(now + 1).type = "parse_failure"
  BY <1>1, FailureRecordType
<1>7. B \subseteq {n \in ControlRecord : n.type = "parse_failure"}
  BY <1>4, <1>6
<1> DEFINE a == SetToSeq(A)
           b == SetToSeq(B)
<1>8. new = a \o b
  BY DEF SecondLog
<1> HIDE DEF A, B, f, new
<1>9. /\ a \in Seq(A) /\ b \in Seq(B) /\ Len(b) = Cardinality(B)
      /\ \A x \in B : \E i \in DOMAIN b : b[i] = x
  BY <1>3, <1>5, SetToSeqFacts
<1> HIDE DEF a, b
<1>10. a \in Seq(ControlRecord) /\ b \in Seq(ControlRecord)
       /\ (\A i \in DOMAIN a : a[i] \in A) /\ (\A i \in DOMAIN b : b[i] \in B)
  <2>1. A \subseteq ControlRecord /\ B \subseteq ControlRecord
    BY <1>2, <1>7
  <2> QED BY <1>9, <2>1
<1>11. CountFails(a) = 0
  BY <1>2, <1>10, CountFailsNone
<1>12. CountFails(b) = Cardinality(bad)
  BY <1>5, <1>7, <1>9, <1>10, CountFailsAll
<1>13. CountFails(new) = Cardinality(bad) /\ new \in Seq(ControlRecord)
  <2>1. CountFails(new) = CountFails(a) + CountFails(b)
    BY <1>8, <1>10, CountFailsConcat
  <2> DEFINE u == a \o b
  <2>2. u \in Seq(ControlRecord)
    BY <1>10
  <2>3. new = u
    BY <1>8
  <2> HIDE DEF u
  <2> QED BY <1>5, <1>11, <1>12, <2>1, <2>2, <2>3
<1>14. /\ Len(a) \in Nat /\ Len(b) \in Nat /\ DOMAIN a = 1..Len(a) /\ DOMAIN b = 1..Len(b)
       /\ DOMAIN new = 1..(Len(a) + Len(b))
       /\ \A i \in DOMAIN a : new[i] = a[i]
       /\ \A i \in DOMAIN b : new[Len(a) + i] = b[i]
  <2> DEFINE u == a \o b
  <2>1. /\ Len(a) \in Nat /\ Len(b) \in Nat /\ DOMAIN a = 1..Len(a) /\ DOMAIN b = 1..Len(b)
        /\ DOMAIN u = 1..(Len(a) + Len(b))
        /\ \A i \in DOMAIN a : u[i] = a[i]
        /\ \A i \in DOMAIN b : u[Len(a) + i] = b[i]
    BY <1>10
  <2> HIDE DEF u
  <2>2. new = u
    BY <1>8 DEF u
  <2> QED BY <2>1, <2>2
<1>15. ASSUME NEW j \in DOMAIN new PROVE new[j] \in A \cup B
  <2>1. CASE j \in DOMAIN a
    BY <1>10, <1>14, <2>1
  <2>2. CASE j \notin DOMAIN a
    <3>1. j - Len(a) \in DOMAIN b /\ Len(a) + (j - Len(a)) = j
      BY <1>14, <2>2
    <3> QED BY <1>10, <1>14, <3>1
  <2> QED BY <2>1, <2>2
<1>16. ASSUME bad # {} PROVE \E j \in DOMAIN new : new[j] = FailureRecord(now + 1)
  <2>1. PICK i \in DOMAIN b : b[i] = FailureRecord(now + 1)
    BY <1>4, <1>9, <1>16
  <2>2. Len(a) + i \in DOMAIN new
    BY <1>14, <2>1
  <2> QED BY <1>14, <2>1, <2>2
<1>17. ASSUME NEW j \in DOMAIN new
       PROVE  \/ \E t \in over : new[j] = GapRecord(t, gaps[t].start, now + 1)
              \/ bad # {} /\ new[j] = FailureRecord(now + 1)
  BY <1>4, <1>15 DEF A
<1>18. Tells(new, over, bad)
  BY <1>5, <1>13, <1>16, <1>17 DEF Tells
<1> QED BY <1>18 DEF new

LEMMA SecondStep ==
  ASSUME AuditInv, Second
  PROVE  AuditInv'
<1> DEFINE at == now + 1
<1>1. FeedShape /\ TrackerInv /\ now \in Nat /\ world.faults \in Nat /\ seen \in Seen
      /\ socket \in Socket /\ at \in Nat /\ now < at
  BY Fields
<1>2. PICK bad \in {{}} \cup {{t} : t \in Arriving} : \E undated \in SUBSET bad :
         LET good == Arriving \ bad
             events == Arriving \ undated
             over == {t \in good : gaps[t].start # None /\ at - gaps[t].start > Material}
             new == SetToSeq({GapRecord(t, gaps[t].start, at) : t \in over})
                      \o SetToSeq({FailureRecord(at) : t \in bad})
         IN /\ bad # {} => faults < world.faults
            /\ faults' = faults + Cardinality(bad)
            /\ now' = at
            /\ gaps' = [t \in Series |-> IF t \in good THEN NoteData(gaps[t], at) ELSE gaps[t]]
            /\ heard' = [t \in Series |-> IF t \in good THEN heard[t] \cup {at} ELSE heard[t]]
            /\ kept' = [t \in Series |-> IF t \in events /\ ~full THEN kept[t] \cup {at} ELSE kept[t]]
            /\ Submitted(new, Cardinality(events), Cardinality(bad))
            /\ seen' = Befallen(IF bad = {} THEN {} ELSE InWindow(at), Cardinality(bad))
            /\ socket' = IF socket.state = "up" THEN [socket EXCEPT !.quiet = at] ELSE socket
  BY DEF Second
<1>3. PICK undated \in SUBSET bad :
         LET good == Arriving \ bad
             events == Arriving \ undated
             over == {t \in good : gaps[t].start # None /\ at - gaps[t].start > Material}
             new == SetToSeq({GapRecord(t, gaps[t].start, at) : t \in over})
                      \o SetToSeq({FailureRecord(at) : t \in bad})
         IN /\ bad # {} => faults < world.faults
            /\ faults' = faults + Cardinality(bad)
            /\ now' = at
            /\ gaps' = [t \in Series |-> IF t \in good THEN NoteData(gaps[t], at) ELSE gaps[t]]
            /\ heard' = [t \in Series |-> IF t \in good THEN heard[t] \cup {at} ELSE heard[t]]
            /\ kept' = [t \in Series |-> IF t \in events /\ ~full THEN kept[t] \cup {at} ELSE kept[t]]
            /\ Submitted(new, Cardinality(events), Cardinality(bad))
            /\ seen' = Befallen(IF bad = {} THEN {} ELSE InWindow(at), Cardinality(bad))
            /\ socket' = IF socket.state = "up" THEN [socket EXCEPT !.quiet = at] ELSE socket
  BY <1>2
<1> DEFINE good == Arriving \ bad
           events == Arriving \ undated
           over == {t \in good : gaps[t].start # None /\ at - gaps[t].start > Material}
           new == SetToSeq({GapRecord(t, gaps[t].start, at) : t \in over})
                    \o SetToSeq({FailureRecord(at) : t \in bad})
           parse == Cardinality(bad)
           H == IF bad = {} THEN {} ELSE InWindow(at)
<1>4. /\ bad # {} => faults < world.faults
      /\ faults' = faults + parse
      /\ now' = at
      /\ gaps' = [t \in Series |-> IF t \in good THEN NoteData(gaps[t], at) ELSE gaps[t]]
      /\ heard' = [t \in Series |-> IF t \in good THEN heard[t] \cup {at} ELSE heard[t]]
      /\ kept' = [t \in Series |-> IF t \in events /\ ~full THEN kept[t] \cup {at} ELSE kept[t]]
      /\ Submitted(new, Cardinality(events), parse)
      /\ seen' = Befallen(H, parse)
      /\ socket' = IF socket.state = "up" THEN [socket EXCEPT !.quiet = at] ELSE socket
  BY <1>3
<1>5. /\ watched /\ now < MaxTime /\ watched' = (socket.state = "down") /\ full' = FALSE
      /\ UNCHANGED <<world, phase, on, history, mismatched, labels, rows>>
  BY DEF Second, stored
<1>6. /\ Arriving \subseteq Series /\ good \subseteq Arriving /\ bad \subseteq Arriving
      /\ events \subseteq Series /\ good \subseteq events /\ over \subseteq good
      /\ bad = {} \/ \E t \in Series : bad = {t}
      /\ Arriving # {} => socket.state = "up"
  BY <1>1 DEF Arriving, FeedShape
<1>7. /\ new \in Seq(ControlRecord) /\ CountFails(new) = parse /\ parse \in Nat
      /\ bad # {} => parse > 0 /\ \E j \in DOMAIN new : new[j] = FailureRecord(at)
      /\ \A j \in DOMAIN new :
           \/ \E t \in over : new[j] = GapRecord(t, gaps[t].start, at)
           \/ bad # {} /\ new[j] = FailureRecord(at)
  <2>1. over \in SUBSET Series /\ bad \in SUBSET Series /\ \A t \in over : gaps[t].start # None
    BY <1>6
  <2>2. /\ at = now + 1
        /\ new = SecondLog(over, bad)
    BY DEF SecondLog
  <2> HIDE DEF new, over, at, good, events, parse, H
  <2>3. Tells(new, over, bad)
    <3>1. bad = {} \/ \E t \in Series : bad = {t}
      BY <1>6
    <3> QED BY <2>1, <2>2, <3>1, SecondRecords
  <2> QED BY <2>2, <2>3 DEF parse, Tells
<1>8. Cardinality(events) \in Nat /\ (events # {} => Cardinality(events) > 0)
  <2>1. IsFiniteSet(events)
    BY <1>6, Fields, FS_Subset
  <2> HIDE DEF events
  <2>2. Cardinality(events) \in Nat /\ (Cardinality(events) = 0 <=> events = {})
    BY <2>1, FS_CardinalityType, FS_EmptySet
  <2> QED BY <2>2
<1>9. H \in SUBSET Rounds /\ (bad # {} => H = RoundsOver(at, at))
  BY <1>1, InWindowIs, RoundsOverType
<1> HIDE DEF new, at, good, events, over, parse, H
<1>10. /\ seen' \in Seen
       /\ seen'.hurt = seen.hurt \cup H
       /\ seen'.unplaced <=> seen.unplaced \/ (full /\ parse > 0)
       /\ seen'.rewritten = seen.rewritten
  BY <1>1, <1>4, <1>7, <1>9, BefallenFields
<1>11. FailureRecord(at) \in ControlRecord /\ FailureRecord(at).type = "parse_failure"
       /\ FailureRecord(at).placed /\ FailureRecord(at).rounds = RoundsOver(at, at)
  BY <1>1, FailureRecordType
<1>12. ASSUME NEW t \in Series
       PROVE  /\ heard[t] \subseteq 1..now /\ kept[t] \subseteq 1..now
              /\ gaps[t] \in [last : None..now, start : None..now]
              /\ gaps[t].start \in {None, gaps[t].last}
              /\ \A s \in heard[t] : s <= gaps[t].last
              /\ heard'[t] = IF t \in good THEN heard[t] \cup {at} ELSE heard[t]
              /\ kept'[t] = IF t \in events /\ ~full THEN kept[t] \cup {at} ELSE kept[t]
              /\ gaps'[t] = IF t \in good THEN [last |-> at, start |-> None] ELSE gaps[t]
  BY <1>1, <1>4 DEF FeedShape, TrackerInv, NoteData
<1>13. ASSUME NEW n \in ControlRecord, NEW j \in DOMAIN new, new[j] = n
       PROVE  IsSound(n)' /\ n.placed
  <2>1. CASE bad # {} /\ n = FailureRecord(at)
    <3>1. n.type = "parse_failure" /\ n.rounds \subseteq seen'.hurt /\ n.placed
      BY <1>9, <1>10, <1>11, <2>1
    <3> QED BY <3>1 DEF IsSound, Notices
  <2>2. CASE \E t \in over : n = GapRecord(t, gaps[t].start, at)
    <3>1. PICK t \in over : n = GapRecord(t, gaps[t].start, at)
      BY <2>2
    <3>2. /\ t \in Series /\ t \in good /\ gaps[t].start # None
          /\ at - gaps[t].start > Material
      BY <1>6 DEF over
    <3>3. /\ n.type = "data_gap" /\ n.topic = t /\ n.to = at
          /\ n.from = gaps[t].start /\ n.placed
          /\ n.rounds = RoundsOver(gaps[t].start, at)
      BY <3>1 DEF GapRecord, Record
    <3>4. \A s \in heard'[t] : ~ (gaps[t].start < s /\ s < at)
      <4> TAKE s \in heard'[t]
      <4>1. s = at \/ s \in heard[t]
        BY <1>12, <3>2
      <4>2. gaps[t].start = gaps[t].last /\ gaps[t].start \in None..now
        BY <1>12, <3>2
      <4>3. s \in heard[t] => s <= gaps[t].start /\ s \in 1..now
        BY <1>12, <3>2, <4>2
      <4> QED BY <1>1, <4>1, <4>2, <4>3 DEF None
    <3> QED BY <1>1, <1>4, <3>2, <3>3, <3>4 DEF IsSound, Notices
  <2> QED BY <1>7, <1>13, <2>1, <2>2
<1>14. Accounts(new, Cardinality(events), parse)
  <2>1. ASSUME NEW t \in Series
        PROVE  /\ heard'[t] \ heard[t] \subseteq {now'} /\ heard[t] \subseteq heard'[t]
               /\ kept[t] \subseteq kept'[t]
               /\ heard'[t] \subseteq heard[t] \cup kept'[t] \/ (full /\ Cardinality(events) > 0)
               /\ \A s \in kept'[t] \ kept[t] :
                    \/ s \in heard'[t]
                    \/ ~full /\ \E j \in DOMAIN new : new[j] = FailureRecord(s)
    <3>1. heard'[t] \subseteq heard[t] \cup kept'[t] \/ (full /\ Cardinality(events) > 0)
      BY <1>6, <1>8, <1>12
    <3>2. ASSUME NEW s \in kept'[t] \ kept[t], s \notin heard'[t]
          PROVE  ~full /\ \E j \in DOMAIN new : new[j] = FailureRecord(s)
      <4>1. s = at /\ ~full /\ t \in events /\ t \notin good
        BY <1>12, <3>2
      <4>2. t \in bad
        BY <4>1 DEF events, good
      <4> QED BY <1>7, <4>1, <4>2
    <3> QED BY <1>4, <1>12, <3>1, <3>2
  <2>2. seen'.unplaced <=> \/ seen.unplaced
                           \/ full /\ parse > 0
                           \/ \E j \in DOMAIN new : ~new[j].placed
    <3>1. \A j \in DOMAIN new : new[j] \in ControlRecord
      BY <1>7
    <3> QED BY <1>10, <1>13, <3>1
  <2>3. ASSUME NEW r \in seen'.hurt \ seen.hurt
        PROVE  \E j \in DOMAIN new : /\ new[j].type = "parse_failure"
                                     /\ new[j].placed /\ r \in new[j].rounds
    <3>1. r \in H /\ bad # {}
      BY <1>10, <2>3 DEF H
    <3> QED BY <1>7, <1>9, <1>11, <3>1
  <2>4. /\ seen.hurt \subseteq seen'.hurt
        /\ mismatched \subseteq mismatched' /\ mismatched' \subseteq mismatched \cup seen'.hurt
    BY <1>5, <1>10
  <2>5. now' \in Nat /\ now <= now' /\ now < now'
    BY <1>1, <1>4
  <2> QED BY <1>4, <1>7, <1>8, <1>13, <2>1, <2>2, <2>3, <2>4, <2>5 DEF Accounts
<1>15. ASSUME NEW t \in Series
       PROVE  /\ gaps'[t] \in [last : None..at, start : None..at]
              /\ gaps'[t].start \in {None, gaps'[t].last}
              /\ \A s \in heard'[t] : s <= gaps'[t].last
              /\ gaps[t].last # None => gaps'[t].last # None
              /\ heard'[t] \subseteq 1..at /\ kept'[t] \subseteq 1..at
  <2>1. /\ heard[t] \subseteq 1..now /\ kept[t] \subseteq 1..now
        /\ gaps[t].last \in None..now /\ gaps[t].start \in None..now
        /\ gaps[t].start \in {None, gaps[t].last}
        /\ gaps[t] = [last |-> gaps[t].last, start |-> gaps[t].start]
    BY <1>12
  <2>2. 1..now \subseteq 1..at /\ at \in 1..at /\ None..now \subseteq None..at
    BY <1>1 DEF None
  <2>3. heard'[t] \subseteq 1..at /\ kept'[t] \subseteq 1..at
    <3>1. heard'[t] \subseteq heard[t] \cup {at} /\ kept'[t] \subseteq kept[t] \cup {at}
      BY <1>12
    <3> QED BY <2>1, <2>2, <3>1
  <2>4. CASE t \in good
    <3>1. gaps'[t] = [last |-> at, start |-> None]
      BY <1>12, <2>4
    <3> QED BY <1>1, <2>3, <3>1 DEF None
  <2>5. CASE t \notin good
    <3>1. gaps'[t] = gaps[t] /\ heard'[t] = heard[t]
      BY <1>12, <2>5
    <3>2. gaps[t].last \in None..at /\ gaps[t].start \in None..at
      BY <2>1, <2>2
    <3>3. gaps'[t] \in [last : None..at, start : None..at]
      BY <2>1, <3>1, <3>2
    <3> QED BY <1>12, <2>1, <2>3, <3>1, <3>3
  <2> QED BY <2>4, <2>5
<1>16. FeedShape'
  <2>1. faults' \in 0..world.faults
    <3>1. faults \in 0..world.faults /\ parse \in Nat
      BY <1>1, <1>7 DEF FeedShape
    <3>2. bad = {} => parse = 0
      BY FS_EmptySet DEF parse
    <3>3. parse <= 1
      BY <1>6, FS_EmptySet, FS_Singleton DEF parse
    <3> QED BY <1>1, <1>4, <3>1, <3>2, <3>3
  <2>2. socket' \in Socket'
    BY <1>1, <1>4 DEF Socket
  <2>3. /\ gaps' \in [Series -> [last : None..at, start : None..at]]
        /\ heard' \in [Series -> SUBSET (1..at)] /\ kept' \in [Series -> SUBSET (1..at)]
    BY <1>4, <1>15
  <2>4. history' \in [Series -> SUBSET (0..at)] /\ at \in 0..MaxTime
    BY <1>1, <1>5, Constants DEF FeedShape, at
  <2>5. seen' \in Seen'
    BY <1>1, <1>4, <1>10 DEF Seen
  <2> QED BY <1>1, <1>4, <1>5, <2>1, <2>2, <2>3, <2>4, <2>5 DEF FeedShape
<1>17. TrackerInv'
  <2>1. socket'.state = socket.state
    BY <1>1, <1>4 DEF Socket
  <2>2. ~watched' => socket'.state # "down"
    BY <1>5, <2>1
  <2> QED BY <1>1, <1>15, <2>1, <2>2 DEF TrackerInv
<1>18. RowInv'
  BY <1>5, <1>10, <1>14, RowsStay DEF AuditInv
<1> QED BY <1>14, <1>16, <1>17, <1>18, StepKeeps

-----------------------------------------------------------------------------
(***************************************************************************)
(* The rows.                                                               *)
(***************************************************************************)

\* The pick before a boundary is the last observation there, that after it
\* the first.
LEMMA PickBeforeFacts ==
  ASSUME NEW S, S \subseteq Nat, NEW b \in Int
  PROVE  /\ PickBefore(S, b) = None => \A s \in S : ~ (s <= b)
         /\ PickBefore(S, b) # None => /\ PickBefore(S, b) \in S /\ PickBefore(S, b) <= b
                                       /\ \A s \in S : s <= b => s <= PickBefore(S, b)
<1> DEFINE B == {s \in S : s <= b}
<1>1. CASE B = {}
  BY <1>1 DEF PickBefore
<1>2. CASE B # {}
  <2>1. B \subseteq Nat /\ B \subseteq Int /\ \A s \in B : s <= b
    <3>1. \A s \in S : s \in Nat /\ s \in Int
      OBVIOUS
    <3> QED BY <3>1
  <2>2. Largest(B) \in B /\ \A s \in B : s <= Largest(B)
    <3> HIDE DEF B
    <3> QED BY <1>2, <2>1, LargestFacts
  <2>3. PickBefore(S, b) = Largest(B)
    BY <1>2 DEF PickBefore
  <2>4. Largest(B) \in Nat /\ Largest(B) # None
    <3> DEFINE v == Largest(B)
    <3>1. v \in Nat
      <4> HIDE DEF B
      <4> QED BY <2>1, <2>2
    <3> HIDE DEF v
    <3>2. v # None
      BY <3>1 DEF None
    <3> QED BY <3>1, <3>2 DEF v
  <2> QED BY <2>2, <2>3, <2>4
<1> QED BY <1>1, <1>2

LEMMA PickAfterFacts ==
  ASSUME NEW S, S \subseteq Nat, NEW b \in Int
  PROVE  /\ PickAfter(S, b) = None => \A s \in S : ~ (s >= b)
         /\ PickAfter(S, b) # None => /\ PickAfter(S, b) \in S /\ PickAfter(S, b) >= b
                                      /\ \A s \in S : s >= b => s >= PickAfter(S, b)
<1> DEFINE A == {s \in S : s >= b}
<1>1. CASE A = {}
  BY <1>1 DEF PickAfter
<1>2. CASE A # {}
  <2>1. A \subseteq Nat /\ A \subseteq Int /\ \A s \in A : b <= s
    <3>1. \A s \in S : s \in Nat /\ s \in Int
      OBVIOUS
    <3> QED BY <3>1
  <2>2. Smallest(A) \in A /\ \A s \in A : Smallest(A) <= s
    <3> HIDE DEF A
    <3> QED BY <1>2, <2>1, SmallestFacts
  <2>3. PickAfter(S, b) = Smallest(A)
    BY <1>2 DEF PickAfter
  <2>4. Smallest(A) \in Nat /\ Smallest(A) # None
    <3> DEFINE v == Smallest(A)
    <3>1. v \in Nat
      <4> HIDE DEF A
      <4> QED BY <2>1, <2>2
    <3> HIDE DEF v
    <3>2. v # None
      BY <3>1 DEF None
    <3> QED BY <3>1, <3>2 DEF v
  <2> QED BY <2>2, <2>3, <2>4
<1> QED BY <1>1, <1>2

\* What a reconstructed outcome stands on.
LEMMA DeclaredFacts ==
  ASSUME FeedShape, NEW r \in Rounds
  PROVE  /\ Declared(r) \in Answers
         /\ Declared(r) # "none" =>
              /\ End(r) <= now
              /\ StartPick(r) # None /\ StartPick(r) \in heard[Settling]
              /\ Start(r) - StartPick(r) <= Tolerance
              /\ world.price[StartPick(r)] \in Nat
<1>1. Declared(r) \in Answers
  BY DEF Declared, Answers, Outcomes
<1>2. ASSUME Declared(r) # "none"
      PROVE  /\ End(r) <= now
             /\ StartPick(r) # None /\ StartPick(r) \in heard[Settling]
             /\ Start(r) - StartPick(r) <= Tolerance
             /\ world.price[StartPick(r)] \in Nat
  <2>1. StartPick(r) # None /\ EndPick(r) # None /\ ~ (Start(r) - StartPick(r) > Tolerance)
    BY <1>2 DEF Declared
  <2>2. now \in 0..MaxTime /\ Settling \in Series /\ heard[Settling] \subseteq 1..now
    BY Constants DEF FeedShape
  <2>3. heard[Settling] \subseteq Nat /\ Start(r) \in Nat /\ End(r) \in Nat
        /\ now \in Nat /\ MaxTime \in Nat
    BY <2>2, RoundTimes, Constants
  <2>4. StartPick(r) \in heard[Settling]
    BY <2>1, <2>3, PickBeforeFacts DEF StartPick
  <2>5. EndPick(r) \in heard[Settling] /\ EndPick(r) >= End(r)
    BY <2>1, <2>3, PickAfterFacts DEF EndPick
  <2>6. world.price \in [0..MaxTime -> Nat]
    BY WorldFields DEF FeedShape
  <2>7. StartPick(r) \in 0..MaxTime /\ EndPick(r) \in 1..now
    BY <2>2, <2>3, <2>4, <2>5
  <2>8. Start(r) - StartPick(r) <= Tolerance
    BY <2>1, <2>3, <2>7, Constants
  <2> QED BY <2>1, <2>3, <2>4, <2>5, <2>6, <2>7, <2>8
<1> QED BY <1>1, <1>2

LEMMA AnswerFacts ==
  ASSUME NEW declared \in Answers, NEW reported \in Answers, NEW text \in {"yes", "no", "none"}
  PROVE  /\ Agreement(declared, reported) \in {"yes", "no", "none"}
         /\ Label(declared, reported, text) \in StoredLabel
         /\ Label(declared, reported, text).reported = reported
         /\ reported = "none" => Label(declared, reported, text).status # "CONFIRMED"
<1>1. Agreement(declared, reported) \in {"yes", "no", "none"}
      /\ (reported = "none" => Agreement(declared, reported) = "none")
  BY DEF Agreement
<1>2. Status(declared, reported, text) \in {"UNRESOLVED", "LABEL_AMBIGUOUS", "CONFIRMED"}
      /\ (reported = "none" => Status(declared, reported, text) # "CONFIRMED")
  BY <1>1 DEF Status
<1> QED BY <1>1, <1>2 DEF Label, StoredLabel

\* Nothing is rewritten while the capture runs.
LEMMA NotRewritten ==
  ASSUME AuditInv, phase = "capture"
  PROVE  seen.rewritten = {}
<1>1. seen.rewritten \subseteq Rounds
  BY Fields DEF Seen
<1>2. \A r \in Rounds : r \in seen.rewritten => phase = "stored"
  BY DEF AuditInv, RowInv, LabelIsSound
<1> QED BY <1>1, <1>2

LEMMA FinalizeAllStep ==
  ASSUME AuditInv, NEW R \in SUBSET Rounds, FinalizeAll(R), phase = "capture",
         UNCHANGED <<world, now, phase, feed, heard, kept, history, records, mismatched, full, seen>>,
         faults' \in 0..world.faults
  PROVE  AuditInv'
<1> DEFINE known(r) == IF r \in world.early /\ now >= End(r) THEN world.outcome[r] ELSE "none"
           lost == IF full THEN Cardinality(R) ELSE 0
<1>1. /\ FeedShape /\ LogShape /\ TrackerInv /\ now \in Nat /\ seen \in Seen
      /\ counters \in [parse : Nat, dropped : Nat]
  BY Fields
<1>2. /\ labels' = [r \in Rounds |->
           IF r \in R /\ ~full THEN Label(Declared(r), known(r), TextAgrees(r)) ELSE labels[r]]
      /\ counters' = [counters EXCEPT !.dropped = @ + lost]
      /\ rows' = [r \in Rounds |->
           IF r \in R THEN Row(r, Declared(r), known(r), <<counters.parse, counters.dropped + lost>>)
           ELSE rows[r]]
  BY DEF FinalizeAll
<1>3. Cardinality(R) \in Nat
  <2>1. IsFiniteSet(Rounds)
    BY Constants, FS_Interval DEF Rounds
  <2> QED BY <2>1, FS_Subset, FS_CardinalityType
<1>4. UNCHANGED <<on, socket, gaps, watched>>
  BY DEF feed
<1>5. /\ labels \in [Rounds -> StoredLabel] /\ rows \in [Rounds -> StoredRow]
      /\ world.outcome \in [Rounds -> Outcomes]
  BY <1>1, WorldFields DEF FeedShape
<1>6. \A r \in Rounds : known(r) \in {"none", world.outcome[r]} /\ known(r) \in Answers
  BY <1>5 DEF Answers
<1> HIDE DEF known
<1>7. lost \in Nat
  BY <1>3
<1>8. Accounts(<<>>, Cardinality(R), 0)
  <2>1. counters' = [counters EXCEPT !.dropped = IF full THEN @ + Cardinality(R) ELSE @]
    BY <1>1, <1>2
  <2>2. seen.unplaced' = seen.unplaced /\ seen'.hurt = seen.hurt /\ mismatched' = mismatched
    OBVIOUS
  <2> QED BY <1>3, <2>1, <2>2, LossAccounts DEF AuditInv
<1> HIDE DEF lost
<1>9. counters'.parse = counters.parse /\ counters'.dropped = counters.dropped + lost
      /\ counters.parse \in Nat /\ counters.dropped \in Nat
  BY <1>1, <1>2
<1>10. ASSUME NEW r \in Rounds
       PROVE  labels'[r] \in StoredLabel /\ LabelIsSound(r)'
  <2>1. r \notin seen'.rewritten
    BY NotRewritten
  <2>2. CASE r \in R /\ ~full
    <3>1. labels'[r] = Label(Declared(r), known(r), TextAgrees(r))
      BY <1>2, <2>2
    <3>2. TextAgrees(r) \in {"yes", "no", "none"}
      BY DEF TextAgrees
    <3>3. Declared(r) \in Answers /\ known(r) \in Answers
      BY <1>1, <1>6, DeclaredFacts
    <3> QED BY <2>1, <3>1, <3>2, <3>3, AnswerFacts DEF LabelIsSound
  <2>3. CASE ~ (r \in R /\ ~full)
    <3>1. labels'[r] = labels[r] /\ LabelIsSound(r) /\ labels[r] \in StoredLabel
      BY <1>2, <1>5, <2>3 DEF AuditInv, RowInv
    <3> QED BY <2>1, <3>1 DEF LabelIsSound
  <2> QED BY <2>2, <2>3
<1>11. ASSUME NEW r \in Rounds
       PROVE  rows'[r] \in StoredRow /\ RowIsSound(r)'
  <2>1. StartPick(r)' = StartPick(r)
    BY DEF StartPick
  <2>2. CASE r \in R
    <3> DEFINE m == <<counters.parse, counters.dropped + lost>>
    <3>1. rows'[r] = Row(r, Declared(r), known(r), m)
      BY <1>2, <2>2
    <3>2. m \in Nat \X Nat /\ m[1] = counters'.parse /\ m[2] = counters'.dropped /\ m # <<>>
      BY <1>7, <1>9
    <3> HIDE DEF m
    <3>3. /\ rows'[r].reported = known(r) /\ rows'[r].declared = Declared(r)
          /\ rows'[r].metrics = m
          /\ rows'[r].start = IF Declared(r) = "none" THEN None ELSE world.price[StartPick(r)]
      BY <3>1 DEF Row
    <3>4. /\ Declared(r) \in Answers
          /\ Declared(r) # "none" =>
               /\ End(r) <= now
               /\ StartPick(r) # None /\ StartPick(r) \in heard[Settling]
               /\ Start(r) - StartPick(r) <= Tolerance
               /\ world.price[StartPick(r)] \in Nat
      BY <1>1, DeclaredFacts
    <3>5. rows'[r] \in StoredRow
      <4>1. Agreement(Declared(r), known(r)) \in {"yes", "no", "none"}
        BY <1>6, <3>4, AnswerFacts
      <4>2. (IF Declared(r) = "none" THEN None ELSE world.price[StartPick(r)]) \in Int
        BY <3>4 DEF None
      <4> QED BY <1>6, <3>1, <3>2, <3>4, <4>1, <4>2 DEF Row, StoredRow
    <3>6. m[2] = 0 => heard[Settling] \subseteq kept[Settling]
      <4>1. m[2] = 0 => counters.dropped = 0
        BY <1>7, <1>9, <3>2
      <4> QED BY <4>1, Constants DEF AuditInv, CountInv
    <3> QED BY <1>6, <1>7, <1>9, <2>1, <3>2, <3>3, <3>4, <3>5, <3>6 DEF RowIsSound
  <2>3. CASE r \notin R
    <3>1. rows'[r] = rows[r] /\ RowIsSound(r) /\ rows[r] \in StoredRow
      BY <1>2, <1>5, <2>3 DEF AuditInv, RowInv
    <3>2. ASSUME rows[r] # NoRow
          PROVE  rows[r].metrics # <<>> /\ rows[r].metrics[1] <= counters'.parse
                 /\ rows[r].metrics[2] <= counters'.dropped
      <4>1. rows[r].metrics # <<>> /\ rows[r].metrics \in {<<>>} \cup (Nat \X Nat)
            /\ rows[r].metrics[1] <= counters.parse /\ rows[r].metrics[2] <= counters.dropped
        BY <3>1, <3>2 DEF RowIsSound, StoredRow
      <4>2. rows[r].metrics[1] \in Nat /\ rows[r].metrics[2] \in Nat
        BY <4>1
      <4> QED BY <1>7, <1>9, <4>1, <4>2
    <3> QED BY <2>1, <3>1, <3>2 DEF RowIsSound
  <2> QED BY <2>2, <2>3
<1>12. FeedShape'
  <2>1. labels' \in [Rounds -> StoredLabel] /\ rows' \in [Rounds -> StoredRow]
    BY <1>2, <1>10, <1>11
  <2> QED BY <1>1, <1>4, <2>1 DEF FeedShape, Seen, Socket
<1>13. TrackerInv'
  BY <1>1, <1>4 DEF TrackerInv
<1>14. RowInv'
  BY <1>10, <1>11 DEF RowInv
<1> QED BY <1>8, <1>12, <1>13, <1>14, StepKeeps

LEMMA FinalizeStep ==
  ASSUME AuditInv, NEW r \in Rounds, Finalize(r) \/ Interrupt
  PROVE  AuditInv'
<1>1. CASE Finalize(r)
  BY <1>1, Fields, FinalizeAllStep DEF Finalize
<1>2. CASE Interrupt
  <2>1. faults' \in 0..world.faults
    BY <1>2, Fields DEF Interrupt, Fault
  <2> DEFINE R == {q \in Rounds : ~Finalized(q)}
  <2>2. R \in SUBSET Rounds /\ FinalizeAll(R) /\ phase = "capture"
        /\ UNCHANGED <<world, now, phase, feed, heard, kept, history, records, mismatched, full, seen>>
    BY <1>2 DEF Interrupt, Fault
  <2> HIDE DEF R
  <2> QED BY <2>1, <2>2, FinalizeAllStep
<1> QED BY <1>1, <1>2

LEMMA SweepStep ==
  ASSUME AuditInv, Sweep
  PROVE  AuditInv'
<1>1. /\ FeedShape /\ LogShape /\ TrackerInv /\ now \in Nat /\ seen \in Seen
      /\ counters \in [parse : Nat, dropped : Nat]
  BY Fields
<1>2. /\ phase = "capture" /\ phase' = "stored" /\ \A r \in Rounds : rows[r] # NoRow
      /\ UNCHANGED <<world, now, on, socket, gaps, watched, heard, kept, history, records,
                     mismatched, counters, full, faults, seen>>
  BY DEF Sweep, Finalized, feed, log
<1>3. PICK K \in SUBSET {r \in Rounds : rows[r].reported = "none"} :
       /\ labels' = [r \in Rounds |->
            IF r \in K THEN Label(rows[r].declared, world.outcome[r], "none") ELSE labels[r]]
       /\ rows' = [r \in Rounds |->
            IF r \in K
            THEN [rows[r] EXCEPT !.reported = world.outcome[r],
                                 !.agrees = Agreement(rows[r].declared, world.outcome[r]),
                                 !.metrics = <<counters.parse, counters.dropped>>]
            ELSE rows[r]]
  BY DEF Sweep
<1>4. /\ labels \in [Rounds -> StoredLabel] /\ rows \in [Rounds -> StoredRow]
      /\ world.outcome \in [Rounds -> Outcomes]
  BY <1>1, WorldFields DEF FeedShape
<1>5. Accounts(<<>>, 0, 0)
  BY <1>2, SilentAccounts DEF AuditInv
<1>6. ASSUME NEW r \in Rounds
      PROVE  /\ labels'[r] \in StoredLabel /\ LabelIsSound(r)'
             /\ rows'[r] \in StoredRow /\ RowIsSound(r)'
  <2>1. /\ r \notin seen'.rewritten /\ r \notin seen.rewritten
        /\ StartPick(r)' = StartPick(r)
    BY <1>2, NotRewritten DEF StartPick
  <2>2. /\ LabelIsSound(r) /\ RowIsSound(r) /\ labels[r] \in StoredLabel /\ rows[r] \in StoredRow
        /\ rows[r] # NoRow /\ world.outcome[r] \in Outcomes
    BY <1>2, <1>4 DEF AuditInv, RowInv
  <2>3. CASE r \notin K
    <3>1. labels'[r] = labels[r] /\ rows'[r] = rows[r]
      BY <1>3, <2>3
    <3> QED BY <1>2, <2>1, <2>2, <3>1 DEF LabelIsSound, RowIsSound
  <2>4. CASE r \in K
    <3> DEFINE m == <<counters.parse, counters.dropped>>
    <3>1. /\ labels'[r] = Label(rows[r].declared, world.outcome[r], "none")
          /\ rows'[r] = [rows[r] EXCEPT !.reported = world.outcome[r],
                                        !.agrees = Agreement(rows[r].declared, world.outcome[r]),
                                        !.metrics = m]
      BY <1>3, <2>4
    <3>2. m \in Nat \X Nat /\ m[1] = counters.parse /\ m[2] = counters.dropped /\ m # <<>>
      BY <1>1
    <3> HIDE DEF m
    <3>3. rows[r].declared \in Answers /\ world.outcome[r] \in Answers /\ world.outcome[r] # "none"
      BY <2>2 DEF StoredRow, Answers, Outcomes
    <3>4. labels'[r] \in StoredLabel /\ LabelIsSound(r)'
      BY <2>1, <3>1, <3>3, AnswerFacts DEF LabelIsSound
    <3>5. Agreement(rows[r].declared, world.outcome[r]) \in {"yes", "no", "none"}
      BY <3>3, AnswerFacts
    <3>6. rows'[r] \in StoredRow
      BY <2>2, <3>1, <3>2, <3>3, <3>5 DEF StoredRow
    <3>7. /\ rows'[r].reported = world.outcome[r] /\ rows'[r].declared = rows[r].declared
          /\ rows'[r].metrics = m /\ rows'[r].start = rows[r].start
      BY <2>2, <3>1 DEF StoredRow
    <3>8. ASSUME rows[r].declared # "none", m[2] = 0
          PROVE  StartPick(r) \in kept[Settling]
      <4>1. StartPick(r) # None
        BY <2>1, <2>2, <3>8 DEF RowIsSound
      <4>2. heard[Settling] \subseteq Nat /\ Start(r) \in Int
        BY <1>1, Constants, RoundTimes DEF FeedShape
      <4>3. StartPick(r) \in heard[Settling]
        BY <4>1, <4>2, PickBeforeFacts DEF StartPick
      <4>4. heard[Settling] \subseteq kept[Settling]
        BY <3>2, <3>8, Constants DEF AuditInv, CountInv
      <4> QED BY <4>3, <4>4
    <3>9. RowIsSound(r)'
      BY <1>1, <1>2, <2>1, <2>2, <3>2, <3>7, <3>8 DEF RowIsSound
    <3> QED BY <3>4, <3>6, <3>9
  <2> QED BY <2>3, <2>4
<1>7. FeedShape'
  <2>1. labels' \in [Rounds -> StoredLabel] /\ rows' \in [Rounds -> StoredRow]
    BY <1>3, <1>6
  <2> QED BY <1>1, <1>2, <2>1 DEF FeedShape, Seen, Socket
<1>8. TrackerInv'
  BY <1>1, <1>2 DEF TrackerInv
<1>9. RowInv'
  BY <1>6 DEF RowInv
<1> QED BY <1>5, <1>7, <1>8, <1>9, StepKeeps

LEMMA ResolveStoredStep ==
  ASSUME AuditInv, ResolveStored
  PROVE  AuditInv'
<1> DEFINE K == {r \in Rounds : labels[r] # NoLabel /\ labels[r].reported = "none"} \ seen.rewritten
<1>1. /\ FeedShape /\ LogShape /\ TrackerInv /\ now \in Nat /\ seen \in Seen
      /\ counters \in [parse : Nat, dropped : Nat]
  BY Fields
<1>2. /\ phase = "stored"
      /\ rows' = [r \in Rounds |->
            IF r \in K
            THEN [rows[r] EXCEPT !.reported = world.outcome[r],
                                 !.declared = labels[r].declared,
                                 !.agrees = Agreement(labels[r].declared, world.outcome[r]),
                                 !.metrics = <<0, 0>>]
            ELSE rows[r]]
      /\ seen' = [seen EXCEPT !.rewritten = @ \cup K]
      /\ UNCHANGED <<world, now, phase, on, socket, gaps, watched, heard, kept, history, records,
                     mismatched, counters, full, labels, faults>>
  BY DEF ResolveStored, feed, log
<1>3. K \subseteq Rounds /\ \A r \in K : labels[r] # NoLabel /\ labels[r].reported = "none"
  OBVIOUS
<1> HIDE DEF K
<1>4. /\ seen' \in Seen /\ seen'.rewritten = seen.rewritten \cup K
      /\ seen'.unplaced = seen.unplaced /\ seen'.hurt = seen.hurt
  BY <1>1, <1>2, <1>3 DEF Seen
<1>5. /\ labels \in [Rounds -> StoredLabel] /\ rows \in [Rounds -> StoredRow]
      /\ world.outcome \in [Rounds -> Outcomes]
  BY <1>1, WorldFields DEF FeedShape
<1>6. Accounts(<<>>, 0, 0)
  <2>1. UNCHANGED <<records, counters>> /\ UNCHANGED <<now, heard, kept, mismatched>>
    BY <1>2
  <2> QED BY <1>4, <2>1, SilentAccounts DEF AuditInv
<1>7. ASSUME NEW r \in Rounds
      PROVE  /\ LabelIsSound(r)'
             /\ rows'[r] \in StoredRow /\ RowIsSound(r)'
  <2>1. StartPick(r)' = StartPick(r)
    BY <1>2 DEF StartPick
  <2>2. /\ LabelIsSound(r) /\ RowIsSound(r) /\ labels[r] \in StoredLabel /\ rows[r] \in StoredRow
        /\ world.outcome[r] \in Outcomes
    BY <1>5 DEF AuditInv, RowInv
  <2>3. LabelIsSound(r)'
    BY <1>2, <1>3, <1>4, <2>2 DEF LabelIsSound
  <2>4. CASE r \notin K
    <3>1. rows'[r] = rows[r]
      BY <1>2, <2>4
    <3> QED BY <1>2, <1>4, <2>1, <2>2, <2>3, <2>4, <3>1 DEF RowIsSound
  <2>5. CASE r \in K
    <3> DEFINE m == <<0, 0>>
    <3>1. rows'[r] = [rows[r] EXCEPT !.reported = world.outcome[r],
                                     !.declared = labels[r].declared,
                                     !.agrees = Agreement(labels[r].declared, world.outcome[r]),
                                     !.metrics = m]
      BY <1>2, <2>5
    <3>2. m \in Nat \X Nat /\ m[1] = 0 /\ m[2] = 0 /\ m # <<>>
      OBVIOUS
    <3> HIDE DEF m
    <3>3. labels[r].declared \in Answers /\ world.outcome[r] \in Answers
      BY <2>2 DEF StoredLabel, Answers
    <3>4. Agreement(labels[r].declared, world.outcome[r]) \in {"yes", "no", "none"}
      BY <3>3, AnswerFacts
    <3>5. rows'[r] \in StoredRow
      BY <2>2, <3>1, <3>2, <3>3, <3>4 DEF StoredRow
    <3>6. rows'[r].reported = world.outcome[r] /\ rows'[r].metrics = m
      BY <2>2, <3>1 DEF StoredRow
    <3>7. counters'.parse \in Nat /\ counters'.dropped \in Nat /\ r \in seen'.rewritten
      BY <1>1, <1>2, <1>4, <2>5
    <3>8. m[1] <= counters'.parse /\ m[2] <= counters'.dropped
      BY <3>2, <3>7
    <3>9. RowIsSound(r)'
      BY <1>2, <3>2, <3>6, <3>7, <3>8 DEF RowIsSound
    <3> QED BY <2>3, <3>5, <3>9
  <2> QED BY <2>4, <2>5
<1>8. FeedShape'
  <2>1. rows' \in [Rounds -> StoredRow]
    BY <1>2, <1>7
  <2>2. seen' \in Seen'
    BY <1>2, <1>4 DEF Seen
  <2> QED BY <1>1, <1>2, <2>1, <2>2 DEF FeedShape, Socket
<1>9. TrackerInv'
  BY <1>1, <1>2 DEF TrackerInv
<1>10. RowInv'
  BY <1>7 DEF RowInv
<1> QED BY <1>6, <1>8, <1>9, <1>10, StepKeeps

\* The invariant holds at first and is kept by every step.
LEMMA AuditInit ==
  ASSUME Init
  PROVE  AuditInv
<1>1. /\ world \in Worlds /\ now = 0 /\ phase = "capture" /\ on = Series
      /\ socket = [state |-> "down", first |-> TRUE, quiet |-> 0]
      /\ gaps = [t \in Series |-> [last |-> None, start |-> None]]
      /\ watched = TRUE
      /\ heard = [t \in Series |-> {}] /\ kept = heard /\ history = heard
      /\ records = <<>> /\ mismatched = {}
      /\ counters = [parse |-> 0, dropped |-> 0] /\ full = FALSE
      /\ labels = [r \in Rounds |-> NoLabel] /\ rows = [r \in Rounds |-> NoRow]
      /\ faults = 0
      /\ seen = [breaks |-> {}, backfills |-> {}, unplaced |-> FALSE,
                 hurt |-> {}, rewritten |-> {}]
  BY DEF Init
<1>2. world.faults \in Nat /\ MaxTime \in Nat
  BY <1>1, WorldFields, Constants
<1>3. FeedShape
  <2>1. NoLabel \in StoredLabel /\ NoRow \in StoredRow
    BY DEF NoLabel, NoRow, StoredLabel, StoredRow, Answers, Outcomes, None
  <2>2. seen \in Seen /\ socket \in Socket
    BY <1>1 DEF Seen, Socket
  <2>3. gaps \in [Series -> [last : None..now, start : None..now]]
    BY <1>1 DEF None
  <2>4. /\ heard \in [Series -> SUBSET (1..now)] /\ kept \in [Series -> SUBSET (1..now)]
        /\ history \in [Series -> SUBSET (0..now)]
    BY <1>1
  <2>5. /\ now \in 0..MaxTime /\ faults \in 0..world.faults
        /\ labels \in [Rounds -> StoredLabel] /\ rows \in [Rounds -> StoredRow]
    BY <1>1, <1>2, <2>1
  <2> QED BY <1>1, <2>2, <2>3, <2>4, <2>5 DEF FeedShape
<1>4. LogShape
  BY <1>1 DEF LogShape
<1>5. TrackerInv
  BY <1>1 DEF TrackerInv
<1>6. DOMAIN records = {} /\ Recorded = 0
  <2>1. Recorded = CountFails(<<>>)
    BY <1>1, RecordedIs
  <2> QED BY <1>1, <2>1, CountFailsSmall
<1>7. CountInv
  BY <1>1, <1>6 DEF CountInv
<1>8. RecordInv
  BY <1>1, <1>6 DEF RecordInv
<1>9. RowInv
  BY <1>1 DEF RowInv, RowIsSound, LabelIsSound, NoRow, NoLabel
<1> QED BY <1>3, <1>4, <1>5, <1>7, <1>8, <1>9 DEF AuditInv, ShapeInv

LEMMA AuditStep ==
  ASSUME AuditInv, [Next]_vars
  PROVE  AuditInv'
<1>1. CASE UNCHANGED vars
  BY <1>1 DEF vars, AuditInv, ShapeInv, FeedShape, LogShape, Seen, Socket, TrackerInv, CountInv,
              RecordInv, RowInv, IsSound, RowIsSound, LabelIsSound, StartPick, Recorded
<1>2. CASE Second \/ Watch \/ Connect
  BY <1>2, SecondStep, WatchStep, ConnectStep
<1>3. CASE Break \/ FrameFails
  BY <1>3, BreakStep, FrameFailsStep
<1>4. CASE FallSilent \/ QueueFills \/ Die
  BY <1>4, QuietSteps, Constants
<1>5. CASE \E t \in Series : Stops(t) \/ Resumes(t)
  BY <1>5, QuietSteps
<1>6. CASE \E r \in Rounds : IntegrityFails(r) \/ Finalize(r)
  BY <1>6, IntegrityStep, FinalizeStep
<1>7. CASE Interrupt
  <2>1. 1 \in Rounds
    BY ReferenceAssumption DEF Rounds
  <2> QED BY <1>7, <2>1, FinalizeStep
<1>8. CASE Sweep \/ ResolveStored
  BY <1>8, SweepStep, ResolveStoredStep
<1> QED BY <1>1, <1>2, <1>3, <1>4, <1>5, <1>6, <1>7, <1>8 DEF Next

\* What the store, the trackers, the counters and the rows keep to, whatever
\* the venue, the socket and the recorder's queue do.
THEOREM AuditInvariant == Spec => []AuditInv
<1>1. Init => AuditInv
  BY AuditInit
<1>2. AuditInv /\ [Next]_vars => AuditInv'
  BY AuditStep
<1> QED BY <1>1, <1>2, PTL DEF Spec

-----------------------------------------------------------------------------
(***************************************************************************)
(* The failures of a capture.                                              *)
(***************************************************************************)

\* The events before and after a notice.
Topics(n) == IF n.topic # "" THEN {n.topic} ELSE Series

Before(n) ==
  UNION {{e \in kept[t] : e <= n.from} \cup {e \in history[t] : e < n.from} : t \in Topics(n)}

After(n) ==
  UNION {{e \in kept[t] : e > n.from} \cup {e \in history[t] : e >= n.from} : t \in Topics(n)}

LEMMA BeforeAfter ==
  ASSUME FeedShape, NEW n \in ControlRecord
  PROVE  /\ Topics(n) \subseteq Series /\ Topics(n) # {}
         /\ \A e \in Before(n) : e \in 0..now /\ e <= n.from
         /\ \A e \in After(n) : e \in 0..now /\ n.from <= e
         /\ \A t \in Topics(n) :
              /\ \A e \in kept[t] : IF e <= n.from THEN e \in Before(n) ELSE e \in After(n)
              /\ \A e \in history[t] : IF e < n.from THEN e \in Before(n) ELSE e \in After(n)
<1>1. n.from \in Int
  <2>1. n.from \in Nat
    BY DEF ControlRecord
  <2> QED BY <2>1
<1>2. Topics(n) \subseteq Series /\ Topics(n) # {}
  BY Constants DEF Topics, ControlRecord
<1>3. now \in Nat /\ \A t \in Series : /\ kept[t] \subseteq 1..now /\ history[t] \subseteq 0..now
  BY Constants DEF FeedShape
<1>4. \A t \in Topics(n) : /\ \A e \in kept[t] : e \in 0..now /\ e \in Int
                           /\ \A e \in history[t] : e \in 0..now /\ e \in Int
  <2> TAKE t \in Topics(n)
  <2>1. t \in Series
    BY <1>2
  <2>2. kept[t] \subseteq 1..now /\ history[t] \subseteq 0..now
    BY <1>3, <2>1
  <2>3. \A e \in 1..now : e \in 0..now /\ e \in Int
    BY <1>3
  <2>4. \A e \in 0..now : e \in Int
    BY <1>3
  <2> QED BY <2>2, <2>3, <2>4
<1>5. \A e : e \in Before(n) <=> \E t \in Topics(n) : \/ e \in kept[t] /\ e <= n.from
                                                      \/ e \in history[t] /\ e < n.from
  BY DEF Before
<1>6. \A e : e \in After(n) <=> \E t \in Topics(n) : \/ e \in kept[t] /\ e > n.from
                                                     \/ e \in history[t] /\ e >= n.from
  BY DEF After
<1>7. \A e \in Before(n) : e \in 0..now /\ e <= n.from
  <2>1. \A e \in Int : e < n.from => e <= n.from
    BY <1>1
  <2> QED BY <1>4, <1>5, <2>1
<1>8. \A e \in After(n) : e \in 0..now /\ n.from <= e
  <2>1. \A e \in Int : e > n.from \/ e >= n.from => n.from <= e
    BY <1>1
  <2> QED BY <1>4, <1>6, <2>1
<1>9. ASSUME NEW t \in Topics(n)
      PROVE  /\ \A e \in kept[t] : IF e <= n.from THEN e \in Before(n) ELSE e \in After(n)
             /\ \A e \in history[t] : IF e < n.from THEN e \in Before(n) ELSE e \in After(n)
  <2>1. \A e \in Int : (e <= n.from \/ e > n.from) /\ (e < n.from \/ e >= n.from)
    BY <1>1
  <2>2. \A e \in kept[t] \cup history[t] : e \in Int
    BY <1>4
  <2> QED BY <1>5, <1>6, <2>1, <2>2
<1> QED BY <1>2, <1>7, <1>8, <1>9

\* The outage around a notice: it has no event inside.
LEMMA ReconstructedFacts ==
  ASSUME FeedShape, NEW n \in ControlRecord, n.from <= now
  PROVE  /\ Reconstructed(n) = [from |-> Reconstructed(n).from, to |-> Reconstructed(n).to]
         /\ Reconstructed(n).from \in 0..now /\ Reconstructed(n).to \in 0..now
         /\ Reconstructed(n).from <= n.from /\ n.from <= Reconstructed(n).to
         /\ IF Before(n) = {} THEN Reconstructed(n).from = n.from
            ELSE Reconstructed(n).from \in Before(n)
         /\ \A e \in Before(n) : e <= Reconstructed(n).from
         /\ IF After(n) = {} THEN Reconstructed(n).to = n.from
            ELSE Reconstructed(n).to \in After(n)
         /\ \A e \in After(n) : Reconstructed(n).to <= e
<1> DEFINE B == Before(n)
           A == After(n)
<1>1. n.from \in Nat /\ now \in Nat
  <2>1. n.from \in Nat
    BY DEF ControlRecord
  <2> QED BY <2>1, Constants DEF FeedShape
<1>2. /\ \A e \in B : e \in 0..now /\ e <= n.from
      /\ \A e \in A : e \in 0..now /\ n.from <= e
  BY BeforeAfter
<1>3. Reconstructed(n) = [from |-> IF B = {} THEN n.from ELSE Largest(B),
                          to |-> IF A = {} THEN n.from ELSE Smallest(A)]
  BY DEF Reconstructed, Before, After, Topics
<1> HIDE DEF A, B
<1>4. B \subseteq Int /\ A \subseteq Int /\ n.from \in Int
  BY <1>1, <1>2
<1>5. B # {} => Largest(B) \in B /\ \A e \in B : e <= Largest(B)
  BY <1>2, <1>4, LargestFacts
<1>6. A # {} => Smallest(A) \in A /\ \A e \in A : Smallest(A) <= e
  BY <1>2, <1>4, SmallestFacts
<1> DEFINE from == Reconstructed(n).from
           to == Reconstructed(n).to
<1>7. /\ IF B = {} THEN from = n.from ELSE from \in B
      /\ \A e \in B : e <= from
  BY <1>3, <1>5
<1>8. /\ IF A = {} THEN to = n.from ELSE to \in A
      /\ \A e \in A : to <= e
  BY <1>3, <1>6
<1>9. Reconstructed(n) = [from |-> from, to |-> to]
  BY <1>3
<1> HIDE DEF from, to
<1>10. from \in 0..now /\ from <= n.from
  BY <1>1, <1>2, <1>7
<1>11. to \in 0..now /\ n.from <= to
  BY <1>1, <1>2, <1>8
<1> QED BY <1>7, <1>8, <1>9, <1>10, <1>11 DEF from, to, A, B

\* A notice turned into the outage around it.
Turned(n) == [n EXCEPT !.rounds = RoundsOver(Reconstructed(n).from, Reconstructed(n).to)]

IsMaterial(n) == ~ (Reconstructed(n).to - Reconstructed(n).from <= Material)

Span(n) == [topic |-> n.topic, from |-> Reconstructed(n).from, to |-> Reconstructed(n).to]

Touching(m, n) ==
  /\ m.topic = n.topic
  /\ Reconstructed(n).from <= Reconstructed(m).to /\ Reconstructed(n).to >= Reconstructed(m).from

\* What the failures of the first k records are: every record that is no
\* notice, and notices turned into outages; a material one is only left out
\* for another that it touches.
Audited(acc, k) ==
  /\ \A n \in acc.out : \E i \in 1..k :
       \/ ~IsNotice(records[i]) /\ n = records[i]
       \/ IsNotice(records[i]) /\ IsMaterial(records[i]) /\ n = Turned(records[i])
  /\ \A i \in 1..k : ~IsNotice(records[i]) => records[i] \in acc.out
  /\ \A i \in 1..k : IsNotice(records[i]) /\ IsMaterial(records[i]) =>
       \E j \in 1..i : /\ IsNotice(records[j]) /\ IsMaterial(records[j])
                       /\ Turned(records[j]) \in acc.out
                       /\ j = i \/ Touching(records[j], records[i])
  /\ \A c \in acc.covered : \E j \in 1..k :
       /\ IsNotice(records[j]) /\ IsMaterial(records[j])
       /\ Turned(records[j]) \in acc.out /\ c = Span(records[j])

LEMMA WithRecordKeeps ==
  ASSUME NEW k \in Nat, NEW acc, acc = [out |-> acc.out, covered |-> acc.covered], Audited(acc, k),
         k + 1 \in DOMAIN records
  PROVE  Audited(WithRecord(acc, records[k + 1]), k + 1)
<1> DEFINE n == records[k + 1]
           gap == Reconstructed(n)
           new == WithRecord(acc, n)
           covered == \E c \in acc.covered : /\ c.topic = n.topic
                                             /\ gap.from <= c.to /\ gap.to >= c.from
<1>1. 1..k \subseteq 1..(k + 1) /\ k + 1 \in 1..(k + 1) /\ \A i \in 1..(k + 1) : i \in 1..k \/ i = k + 1
  OBVIOUS
<1>2. CASE ~IsNotice(n)
  <2>1. new = [out |-> acc.out \cup {n}, covered |-> acc.covered]
    BY <1>2 DEF WithRecord
  <2>2. new.out = acc.out \cup {n} /\ new.covered = acc.covered
    BY <2>1
  <2> HIDE DEF new
  <2> QED BY <1>1, <1>2, <2>2 DEF Audited, new
<1>3. CASE IsNotice(n) /\ (gap.to - gap.from <= Material \/ covered)
  <2>1. new = acc
    BY <1>3 DEF WithRecord
  <2> HIDE DEF new
  <2>2. ASSUME IsMaterial(n)
        PROVE  \E j \in 1..k : /\ IsNotice(records[j]) /\ IsMaterial(records[j])
                               /\ Turned(records[j]) \in acc.out /\ Touching(records[j], n)
    <3>1. covered
      BY <1>3, <2>2 DEF IsMaterial
    <3>2. PICK c \in acc.covered : c.topic = n.topic /\ gap.from <= c.to /\ gap.to >= c.from
      BY <3>1
    <3>3. PICK j \in 1..k : /\ IsNotice(records[j]) /\ IsMaterial(records[j])
                            /\ Turned(records[j]) \in acc.out /\ c = Span(records[j])
      BY DEF Audited
    <3>4. /\ c.topic = records[j].topic /\ c.from = Reconstructed(records[j]).from
          /\ c.to = Reconstructed(records[j]).to
      BY <3>3 DEF Span
    <3> QED BY <3>2, <3>3, <3>4 DEF Touching
  <2> QED BY <1>1, <1>3, <2>1, <2>2 DEF Audited, new
<1>4. CASE IsNotice(n) /\ ~ (gap.to - gap.from <= Material) /\ ~covered
  <2>1. new = [out |-> acc.out \cup {Turned(n)}, covered |-> acc.covered \cup {Span(n)}]
    BY <1>4 DEF WithRecord, Turned, Span
  <2>2. new.out = acc.out \cup {Turned(n)} /\ new.covered = acc.covered \cup {Span(n)}
    BY <2>1
  <2>3. IsMaterial(n)
    BY <1>4 DEF IsMaterial
  <2> HIDE DEF new
  <2> QED BY <1>1, <1>4, <2>2, <2>3 DEF Audited, new
<1> QED BY <1>2, <1>3, <1>4

\* The recursion of Failures, and its solution.
IsAuditing(f) ==
  f = [k \in 0..Len(records) |->
         IF k = 0 THEN [out |-> {}, covered |-> {}] ELSE WithRecord(f[k - 1], records[k])]

LEMMA AuditingExists ==
  ASSUME Len(records) \in Nat
  PROVE  \E f : IsAuditing(f)
<1> DEFINE n == Len(records)
           Out == {records[i] : i \in 1..n} \cup {Turned(records[i]) : i \in 1..n}
           Covered == {Span(records[i]) : i \in 1..n}
           S == [out : SUBSET Out, covered : SUBSET Covered]
           start == [out |-> {}, covered |-> {}]
           step == [k \in 1..n |-> [acc \in S |-> WithRecord(acc, records[k])]]
<1>1. start \in S
  OBVIOUS
<1>2. ASSUME NEW k \in 1..n, NEW acc \in S PROVE WithRecord(acc, records[k]) \in S
  <2> DEFINE new == WithRecord(acc, records[k])
  <2>1. /\ records[k] \in Out /\ Turned(records[k]) \in Out /\ Span(records[k]) \in Covered
    OBVIOUS
  <2> HIDE DEF Out, Covered
  <2>2. \/ new = [out |-> acc.out \cup {records[k]}, covered |-> acc.covered]
        \/ new = acc
        \/ new = [out |-> acc.out \cup {Turned(records[k])}, covered |-> acc.covered \cup {Span(records[k])}]
    BY DEF WithRecord, Turned, Span
  <2>3. acc.out \subseteq Out /\ acc.covered \subseteq Covered
    OBVIOUS
  <2> HIDE DEF new
  <2>4. new \in S
    BY <2>1, <2>2, <2>3
  <2> QED BY <2>4 DEF new
<1>3. step \in [1..n -> [S -> S]]
  <2> HIDE DEF S
  <2> QED BY <1>2
<1>4. PICK f \in [0..n -> S] : Follows(f, start, step, n)
  <2> HIDE DEF S, start, step, n
  <2>1. n \in Nat
    BY DEF n
  <2> QED BY <2>1, <1>1, <1>3, RecursionExists
<1>5. \A k \in 0..n : f[k] = IF k = 0 THEN start ELSE WithRecord(f[k - 1], records[k])
  <2>1. f[0] = start
    BY <1>4 DEF Follows
  <2>2. ASSUME NEW k \in 1..n PROVE f[k] = WithRecord(f[k - 1], records[k])
    <3>1. f[k] = step[k][f[k - 1]]
      BY <1>4 DEF Follows
    <3>2. k - 1 \in 0..n
      OBVIOUS
    <3>3. f[k - 1] \in S
      <4> HIDE DEF S
      <4> QED BY <1>4, <3>2
    <3> HIDE DEF S
    <3> QED BY <3>1, <3>3
  <2>3. \A k \in 0..n : k = 0 \/ k \in 1..n
    OBVIOUS
  <2> HIDE DEF S, start, step
  <2> QED BY <2>1, <2>2, <2>3
<1>6. f = [k \in 0..n |-> IF k = 0 THEN start ELSE WithRecord(f[k - 1], records[k])]
  <2> HIDE DEF S, step, start
  <2> QED BY <1>4, <1>5
<1> QED BY <1>6 DEF IsAuditing

\* What the failures of a capture are.
LEMMA FailuresAudited ==
  ASSUME LogShape
  PROVE  \E acc : Audited(acc, Len(records)) /\ Failures = acc.out
<1>1. Len(records) \in Nat /\ DOMAIN records = 1..Len(records)
  BY DEF LogShape
<1> DEFINE f == CHOOSE f : IsAuditing(f)
           n == Len(records)
<1>2. IsAuditing(f)
  <2>1. \E g : IsAuditing(g)
    BY <1>1, AuditingExists
  <2> QED BY <2>1, Zenon
<1>3. Failures = f[n].out
  BY DEF Failures, IsAuditing
<1> HIDE DEF f
<1>4. ASSUME NEW k \in 0..n
      PROVE  f[k] = IF k = 0 THEN [out |-> {}, covered |-> {}] ELSE WithRecord(f[k - 1], records[k])
  BY <1>2 DEF IsAuditing
<1> DEFINE H == {k \in 0..n : f[k] = [out |-> f[k].out, covered |-> f[k].covered] /\ Audited(f[k], k)}
<1>5. 0 \in H
  <2>1. f[0] = [out |-> {}, covered |-> {}]
    BY <1>1, <1>4
  <2>2. 1..0 = {} /\ 0 \in 0..n
    BY <1>1
  <2>3. Audited(f[0], 0)
    BY <2>1, <2>2 DEF Audited
  <2>4. f[0] = [out |-> f[0].out, covered |-> f[0].covered]
    BY <2>1
  <2> QED BY <2>2, <2>3, <2>4
<1>6. \A k \in 1..n : k - 1 \in H => k \in H
  <2> SUFFICES ASSUME NEW k \in 1..n, k - 1 \in H PROVE k \in H
    OBVIOUS
  <2>1. k - 1 \in Nat /\ (k - 1) + 1 = k /\ k \in 0..n /\ k # 0 /\ k \in DOMAIN records
    BY <1>1
  <2>2. f[k - 1] = [out |-> f[k - 1].out, covered |-> f[k - 1].covered] /\ Audited(f[k - 1], k - 1)
    OBVIOUS
  <2>3. f[k] = WithRecord(f[k - 1], records[k])
    BY <1>4, <2>1
  <2> DEFINE j == k - 1
             g == f[j]
  <2> HIDE DEF j, g
  <2>4. j \in Nat /\ j + 1 = k /\ Audited(g, j) /\ g = [out |-> g.out, covered |-> g.covered]
    BY <2>1, <2>2 DEF j, g
  <2>5. Audited(WithRecord(g, records[j + 1]), j + 1)
    BY <2>1, <2>4, WithRecordKeeps
  <2>6. f[k] = WithRecord(g, records[k])
    BY <2>3 DEF j, g
  <2>7. Audited(f[k], k)
    BY <2>4, <2>5, <2>6
  <2>8. f[k] = [out |-> f[k].out, covered |-> f[k].covered]
    BY <2>4, <2>6 DEF WithRecord
  <2> QED BY <2>1, <2>7, <2>8
<1>7. n \in H
  <2> HIDE DEF H
  <2>1. n \in Nat
    BY <1>1
  <2>2. 0..n \subseteq H
    BY <2>1, <1>5, <1>6, Induction
  <2> QED BY <2>1, <2>2
<1> QED BY <1>3, <1>7

-----------------------------------------------------------------------------
(***************************************************************************)
(* Trackers and counters; what no record places.                           *)
(***************************************************************************)

LEMMA RecordedNat ==
  ASSUME LogShape
  PROVE  Recorded \in Nat
<1>1. records \in Seq(ControlRecord) /\ Len(records) \in Nat
  BY DEF LogShape
<1>2. CountFails(records) \in 0..Len(records)
  BY <1>1, CountFailsType
<1>3. \A k \in 0..Len(records) : k \in Nat
  BY <1>1
<1> QED BY <1>2, <1>3, RecordedIs

LEMMA TypesOK ==
  ASSUME AuditInv
  PROVE  TypeOK
<1>1. FeedShape /\ LogShape /\ TrackerInv /\ CountInv
  BY DEF AuditInv, ShapeInv
<1>2. now \in 0..MaxTime /\ now \in Nat /\ faults \in 0..world.faults
  BY <1>1, Constants DEF FeedShape
<1>3. phase \in {"capture", "stored"} /\ on \subseteq Series /\ socket.state \in {"down", "up", "silent"}
  BY <1>1 DEF FeedShape, Socket
<1>4. ASSUME NEW t \in Series
      PROVE  gaps[t].last \in None..now /\ gaps[t].start \in None..gaps[t].last
  <2>1. gaps[t] \in [last : None..now, start : None..now]
    BY <1>1 DEF FeedShape
  <2>2. gaps[t].start \in {None, gaps[t].last}
    BY <1>1 DEF TrackerInv
  <2>3. gaps[t].last \in None..now
    BY <2>1
  <2> HIDE DEF FeedShape
  <2> QED BY <1>2, <2>2, <2>3 DEF None
<1>5. ASSUME NEW t \in Series PROVE heard[t] \cup kept[t] \cup history[t] \subseteq 0..now
  <2>1. heard[t] \subseteq 1..now /\ kept[t] \subseteq 1..now /\ history[t] \subseteq 0..now
    BY <1>1 DEF FeedShape
  <2>2. 1..now \subseteq 0..now
    BY <1>2
  <2> QED BY <2>1, <2>2
<1>6. counters.parse >= Recorded
  <2>1. Recorded <= counters.parse /\ counters.parse \in Nat
    BY <1>1 DEF CountInv, LogShape
  <2>2. Recorded \in Nat
    BY <1>1, RecordedNat
  <2> QED BY <2>1, <2>2
<1> QED BY <1>2, <1>3, <1>4, <1>5, <1>6 DEF TypeOK

\* An outage of a series starts no later than the data it starts after, all
\* that is stored is of the past, and no record is without a count.
THEOREM TypeCorrectness == Spec => []TypeOK
BY AuditInvariant, TypesOK, PTL

\* A row with the final count tells the total.
LEMMA FinalCountIsTotal ==
  ASSUME AuditInv, NEW r \in Rounds, Finalized(r), rows[r].metrics[1] = counters.parse
  PROVE  SessionParse \in Nat /\ SessionParse >= counters.parse
<1> DEFINE counts == {rows[q].metrics[1] : q \in {q \in Rounds : rows[q].metrics # <<>>}}
<1>1. counters.parse \in Nat
  BY DEF AuditInv, ShapeInv, LogShape
<1>2. ASSUME NEW q \in Rounds, rows[q].metrics # <<>>
      PROVE  rows[q].metrics[1] \in Nat /\ rows[q].metrics[1] <= counters.parse
  <2>1. rows[q] \in StoredRow /\ RowIsSound(q)
    BY DEF AuditInv, ShapeInv, FeedShape, RowInv
  <2>2. rows[q].metrics \in {<<>>} \cup (Nat \X Nat)
    BY <2>1 DEF StoredRow
  <2>3. rows[q].metrics[1] \in Nat
    BY <1>2, <2>2
  <2>4. rows[q] # NoRow
    BY <1>2 DEF NoRow
  <2> QED BY <2>1, <2>3, <2>4 DEF RowIsSound
<1>3. rows[r].metrics # <<>>
  BY DEF AuditInv, RowInv, RowIsSound, Finalized
<1>4. \A x \in {0} \cup counts : x \in Nat /\ x <= counters.parse
  BY <1>1, <1>2
<1>5. counters.parse \in {0} \cup counts
  BY <1>3
<1> HIDE DEF counts
<1>6. \E x \in {0} \cup counts : \A y \in {0} \cup counts : x >= y
  BY <1>1, <1>4, <1>5
<1>7. /\ Largest({0} \cup counts) \in {0} \cup counts
      /\ \A y \in {0} \cup counts : Largest({0} \cup counts) >= y
  BY <1>6 DEF Largest
<1>8. SessionParse = Largest({0} \cup counts)
  BY DEF SessionParse, counts
<1> QED BY <1>4, <1>5, <1>7, <1>8

LEMMA UnplacedCondemns ==
  ASSUME AuditInv
  PROVE  UnplacedCondemnsAll
<1>1. SUFFICES ASSUME seen.unplaced, UnplacedIsKnown, NEW r \in Rounds
               PROVE  ~DataValid(r)
  BY DEF UnplacedCondemnsAll
<1>2. ~IsComplete
  <2>1. CASE \E i \in DOMAIN records : ~records[i].placed
    BY <2>1 DEF IsComplete
  <2>2. CASE ~ \E i \in DOMAIN records : ~records[i].placed
    <3>1. counters.parse \in Nat /\ Recorded \in Nat
      BY RecordedNat DEF AuditInv, ShapeInv, LogShape
    <3>2. Recorded < counters.parse
      BY <1>1, <2>2 DEF AuditInv, CountInv
    <3>3. SessionParse \in Nat /\ SessionParse >= counters.parse
      BY <1>1, <2>2, FinalCountIsTotal DEF UnplacedIsKnown
    <3> QED BY <3>1, <3>2, <3>3 DEF IsComplete
  <2> QED BY <2>1, <2>2
<1> QED BY <1>2 DEF DataValid, ParseFailed

\* A failure that was counted and placed by no record of the store condemns
\* every round, as long as a record without a place or the final count in a
\* row that was not rewritten from the store tells of it.
THEOREM UnplacedFailures == Spec => []UnplacedCondemnsAll
BY AuditInvariant, UnplacedCondemns, PTL

-----------------------------------------------------------------------------
(***************************************************************************)
(* A round that nothing befell.                                            *)
(***************************************************************************)

\* An outage that touches the round has an interval inside in which every
\* series was observed.
LEMMA WholeInside ==
  ASSUME NEW r \in Rounds, Whole(r), now \in Nat, NEW a \in Nat, NEW b \in Nat, b <= now,
         b - a > Material, r \in RoundsOver(a, b)
  PROVE  \E s \in 1..now : a < s /\ s < b /\ \A t \in Series : s \in kept[t] /\ s \in heard[t]
<1> DEFINE first == RequiredStart(r)
           last == RequiredEnd(r)
<1>1. first \in Nat /\ last \in Nat /\ 1 <= first /\ first <= last
  <2>1. /\ RequiredStart(r) \in Nat /\ RequiredEnd(r) \in Nat /\ 1 <= RequiredStart(r)
        /\ Start(r) \in Nat /\ End(r) \in Nat
        /\ RequiredStart(r) = Start(r) - Lead /\ RequiredEnd(r) = End(r) + Trail /\ Start(r) < End(r)
    BY RoundTimes
  <2> QED BY <2>1, Constants
<1>2. a <= last /\ b >= first
  BY DEF RoundsOver
<1>3. \A s \in (first - 1)..(last + 1) : s \in 1..now => \A t \in Series : s \in kept[t] \cap heard[t]
  BY DEF Whole
<1> HIDE DEF first, last
<1> DEFINE s == IF a + 1 >= first - 1 THEN a + 1 ELSE first - 1
<1>4. s \in (first - 1)..(last + 1) /\ s \in 1..now /\ a < s /\ s < b
  BY <1>1, <1>2 DEF Material
<1> HIDE DEF s
<1> QED BY <1>3, <1>4

LEMMA RecordFacts ==
  ASSUME AuditInv, NEW i \in DOMAIN records
  PROVE  /\ records[i] \in ControlRecord /\ records[i].from \in Nat /\ records[i].to \in Nat
         /\ records[i].placed \in BOOLEAN
         /\ records[i].type \in Notices \cup {"parse_failure", "data_gap"}
         /\ IsNotice(records[i]) <=> records[i].type \in Notices
         /\ IsSound(records[i])
<1> DEFINE n == records[i]
<1>1. n \in ControlRecord /\ IsSound(n)
  <2>1. records \in Seq(ControlRecord)
    BY DEF AuditInv, ShapeInv, LogShape
  <2>2. records[i] \in ControlRecord
    BY <2>1
  <2> QED BY <2>2 DEF AuditInv, RecordInv
<1> HIDE DEF n
<1>2. n.from \in Nat /\ n.to \in Nat
  BY <1>1 DEF ControlRecord
<1>3. n.placed \in BOOLEAN /\ n.type \in Notices \cup {"parse_failure", "data_gap"}
  BY <1>1 DEF ControlRecord
<1>4. IsNotice(n) <=> n.type \in Notices
  BY DEF IsNotice, Notices
<1> QED BY <1>1, <1>2, <1>3, <1>4 DEF n

\* The fields of an outage.
LEMMA TurnedFields ==
  ASSUME NEW n \in ControlRecord
  PROVE  /\ Turned(n).type = n.type /\ Turned(n).placed = n.placed
         /\ Turned(n).rounds = RoundsOver(Reconstructed(n).from, Reconstructed(n).to)
<1> DEFINE R == RoundsOver(Reconstructed(n).from, Reconstructed(n).to)
<1>1. Turned(n) = [n EXCEPT !.rounds = R]
  BY DEF Turned
<1> HIDE DEF R
<1>2. [n EXCEPT !.rounds = R].type = n.type /\ [n EXCEPT !.rounds = R].placed = n.placed
      /\ [n EXCEPT !.rounds = R].rounds = R
  BY DEF ControlRecord
<1> QED BY <1>1, <1>2 DEF R

LEMMA NoFailures ==
  ASSUME AuditInv, NEW r \in Rounds, r \notin seen.hurt, Whole(r),
         NEW n \in Failures, Touches(n, r)
  PROVE  FALSE
<1>1. FeedShape /\ LogShape /\ now \in Nat
  <2>1. FeedShape /\ LogShape
    BY DEF AuditInv, ShapeInv
  <2> QED BY <2>1, Constants DEF FeedShape
<1>2. DOMAIN records = 1..Len(records)
  BY <1>1 DEF LogShape
<1>3. PICK acc : Audited(acc, Len(records)) /\ Failures = acc.out
  BY <1>1, FailuresAudited
<1>4. PICK i \in DOMAIN records :
        \/ ~IsNotice(records[i]) /\ n = records[i]
        \/ IsNotice(records[i]) /\ IsMaterial(records[i]) /\ n = Turned(records[i])
  BY <1>2, <1>3 DEF Audited
<1> DEFINE m == records[i]
<1>5. /\ m \in ControlRecord /\ m.from \in Nat /\ m.to \in Nat
      /\ m.type \in Notices \cup {"parse_failure", "data_gap"}
      /\ IsNotice(m) <=> m.type \in Notices
      /\ IsSound(m)
  BY RecordFacts
<1>6. n.placed /\ r \in n.rounds
  BY DEF Touches
<1>7. \/ ~IsNotice(m) /\ n = m
      \/ IsNotice(m) /\ IsMaterial(m) /\ n = Turned(m)
  BY <1>4
<1> HIDE DEF m
<1>8. CASE ~IsNotice(m) /\ m.type = "parse_failure"
  BY <1>5, <1>6, <1>7, <1>8 DEF IsSound
<1>9. CASE ~IsNotice(m) /\ m.type = "data_gap"
  <2>1. /\ m.topic \in Series /\ m.to <= now /\ m.to - m.from > Material
        /\ r \in RoundsOver(m.from, m.to)
        /\ \A s \in heard[m.topic] : ~ (m.from < s /\ s < m.to)
    BY <1>5, <1>6, <1>7, <1>9 DEF IsSound
  <2>2. PICK s \in 1..now : m.from < s /\ s < m.to /\ \A t \in Series : s \in kept[t] /\ s \in heard[t]
    BY <1>1, <1>5, <2>1, WholeInside
  <2> QED BY <2>1, <2>2
<1>10. CASE IsNotice(m)
  <2>1. m.from <= now
    BY <1>5, <1>10 DEF IsSound
  <2> DEFINE o == Reconstructed(m)
  <2>2. /\ o.from \in 0..now /\ o.to \in 0..now
        /\ \A e \in Before(m) : e <= o.from
        /\ \A e \in After(m) : o.to <= e
    BY <1>1, <1>5, <2>1, ReconstructedFacts
  <2>3. r \in RoundsOver(o.from, o.to)
    BY <1>5, <1>6, <1>7, <1>10, TurnedFields
  <2>4. ~ (o.to - o.from <= Material)
    BY <1>7, <1>10 DEF IsMaterial
  <2>5. Topics(m) \subseteq Series /\ Topics(m) # {}
        /\ \A t \in Topics(m) : \A e \in kept[t] : IF e <= m.from THEN e \in Before(m) ELSE e \in After(m)
    BY <1>1, <1>5, BeforeAfter
  <2> DEFINE a == o.from
             b == o.to
  <2> HIDE DEF o
  <2>6. a \in Nat /\ b \in Nat /\ b <= now /\ b - a > Material
    BY <1>1, <2>2, <2>4 DEF Material
  <2>7. PICK s \in 1..now : a < s /\ s < b /\ \A t \in Series : s \in kept[t] /\ s \in heard[t]
    BY <1>1, <2>3, <2>6, WholeInside
  <2>8. PICK t \in Topics(m) : s \in kept[t]
    BY <2>5, <2>7
  <2>9. s <= a \/ b <= s
    BY <2>2, <2>5, <2>8
  <2> QED BY <2>6, <2>7, <2>9
<1> QED BY <1>5, <1>8, <1>9, <1>10 DEF Notices

\* The next element of a set of times.
LEMMA NextFacts ==
  ASSUME NEW n \in Nat, NEW E, E \subseteq 0..n, NEW a \in E, a # Largest(E),
         NEW b, b = Smallest({e \in E : e > a})
  PROVE  /\ a \in Nat /\ b \in Nat /\ b <= n /\ a < b /\ b \in E
         /\ \A x \in E : x > a => b <= x
<1> DEFINE A == {e \in E : e > a}
<1>1. E \subseteq Int /\ E # {} /\ n \in Int /\ \A x \in E : x <= n
  <2>1. \A x \in 0..n : x \in Int /\ x <= n
    OBVIOUS
  <2> QED BY <2>1
<1>2. Largest(E) \in E /\ \A x \in E : x <= Largest(E)
  BY <1>1, LargestFacts
<1>3. a \in Nat /\ a \in Int
  OBVIOUS
<1>4. Largest(E) > a
  <2>1. Largest(E) \in Int /\ a <= Largest(E) /\ Largest(E) # a
    BY <1>1, <1>2
  <2> QED BY <1>3, <2>1
<1>5. A \subseteq Int /\ A # {} /\ \A x \in A : a <= x
  <2>1. A # {}
    BY <1>2, <1>4
  <2>2. \A x \in Int : x > a => a <= x
    BY <1>3
  <2> QED BY <1>1, <2>1, <2>2
<1> HIDE DEF A
<1>6. Smallest(A) \in A /\ \A x \in A : Smallest(A) <= x
  BY <1>3, <1>5, SmallestFacts
<1>7. b \in A /\ \A x \in A : b <= x
  BY <1>6 DEF A
<1> QED BY <1>1, <1>3, <1>7 DEF A

LEMMA NoAuditGap ==
  ASSUME AuditInv, NEW r \in Rounds, Whole(r), AuditFound(r)
  PROVE  FALSE
<1>1. FeedShape /\ now \in Nat
  <2>1. FeedShape
    BY DEF AuditInv, ShapeInv
  <2> QED BY <2>1, Constants DEF FeedShape
<1>2. PICK t \in Series : \E g \in AuditGaps(t) : r \in RoundsOver(g[1], g[2])
  BY DEF AuditFound
<1> DEFINE E == EventsOf(t)
           next(x) == Smallest({e \in E : e > x})
<1>3. E \subseteq 0..now /\ kept[t] \subseteq E
  <2>1. kept[t] \subseteq 1..now /\ history[t] \subseteq 0..now
    BY <1>1 DEF FeedShape
  <2>2. 1..now \subseteq 0..now
    BY <1>1
  <2> QED BY <2>1, <2>2 DEF EventsOf
<1>4. PICK a \in E : a # Largest(E) /\ next(a) - a > AuditGap /\ r \in RoundsOver(a, next(a))
  <2>1. AuditGaps(t) = {<<a, next(a)>> : a \in {a \in E : a # Largest(E) /\ next(a) - a > AuditGap}}
    BY DEF AuditGaps
  <2>2. PICK g \in AuditGaps(t) : r \in RoundsOver(g[1], g[2])
    BY <1>2
  <2> HIDE DEF E, next
  <2> QED BY <2>1, <2>2
<1> DEFINE b == next(a)
<1>5. /\ a \in Nat /\ b \in Nat /\ b <= now /\ a < b
      /\ \A x \in E : x > a => b <= x
  <2>1. b = Smallest({e \in E : e > a})
    OBVIOUS
  <2> HIDE DEF E, b
  <2> QED BY <1>1, <1>3, <1>4, <2>1, NextFacts
<1>6. b - a > AuditGap /\ r \in RoundsOver(a, b)
  BY <1>4
<1> HIDE DEF E, b
<1>7. b - a > Material
  BY <1>5, <1>6, AuditAssumption DEF Material
<1>8. PICK s \in 1..now : a < s /\ s < b /\ \A u \in Series : s \in kept[u] /\ s \in heard[u]
  BY <1>1, <1>5, <1>6, <1>7, WholeInside
<1>9. s \in kept[t] /\ s \in E
  BY <1>3, <1>8
<1> QED BY <1>1, <1>5, <1>8, <1>9

LEMMA StaysClean ==
  ASSUME AuditInv
  PROVE  CleanRoundsStayClean
<1>1. SUFFICES ASSUME counters.dropped = 0, ~seen.unplaced, NEW r \in Rounds,
                      Finalized(r), r \notin seen.hurt, Whole(r)
               PROVE  DataValid(r)
  BY DEF CleanRoundsStayClean
<1>2. FeedShape /\ LogShape /\ CountInv
  BY DEF AuditInv, ShapeInv
<1>3. \A q \in Rounds : /\ rows[q] \in StoredRow /\ rows[q].metrics \in {<<>>} \cup (Nat \X Nat)
                        /\ RowIsSound(q)
  <2>1. \A q \in Rounds : rows[q] \in StoredRow
    BY <1>2 DEF FeedShape
  <2> QED BY <2>1 DEF StoredRow, AuditInv, RowInv
<1>4. \A q \in Rounds : rows[q].metrics # <<>> =>
        /\ rows[q].metrics[1] \in Nat /\ rows[q].metrics[2] \in Nat
        /\ rows[q].metrics[1] <= counters.parse /\ rows[q].metrics[2] <= counters.dropped
  <2> TAKE q \in Rounds
  <2> HAVE rows[q].metrics # <<>>
  <2>1. rows[q].metrics \in Nat \X Nat
    BY <1>3
  <2>2. rows[q] # NoRow
    BY <2>1 DEF NoRow
  <2>3. rows[q].metrics[1] <= counters.parse /\ rows[q].metrics[2] <= counters.dropped
    BY <1>3, <2>2 DEF RowIsSound
  <2> QED BY <2>1, <2>3
<1>5. rows[r].metrics # <<>> /\ rows[r].metrics[2] = 0
  <2>1. rows[r].metrics # <<>>
    BY <1>1, <1>3 DEF RowIsSound, Finalized
  <2> QED BY <1>1, <1>4, <2>1
<1>6. IsComplete
  <2>1. Recorded = counters.parse /\ counters.parse \in Nat
    BY <1>1, <1>2 DEF CountInv, LogShape
  <2> DEFINE P == {0} \cup {rows[q].metrics[1] : q \in {q \in Rounds : rows[q].metrics # <<>>}}
  <2>2. \A p \in P : p \in Nat /\ p <= counters.parse
    BY <1>4, <2>1
  <2>3. SessionParse = Largest(P)
    BY DEF SessionParse
  <2>4. P # {}
    OBVIOUS
  <2> HIDE DEF P
  <2>5. Largest(P) \in P
    BY <2>1, <2>2, <2>4, LargestFacts
  <2>6. SessionParse <= Recorded
    BY <2>1, <2>2, <2>3, <2>5
  <2>7. \A i \in DOMAIN records : records[i].placed
    BY <1>1, <1>2 DEF CountInv
  <2> QED BY <2>6, <2>7 DEF IsComplete
<1>7. \A n \in Failures : ~Touches(n, r)
  BY <1>1, NoFailures
<1>8. ~ParseFailed(r) /\ ~GapFound(r)
  BY <1>6, <1>7 DEF ParseFailed, GapFound
<1>9. ~AuditFound(r)
  BY <1>1, NoAuditGap
<1>10. r \notin mismatched
  BY <1>1 DEF AuditInv, RecordInv
<1> QED BY <1>5, <1>8, <1>9, <1>10 DEF DataValid

\* No round is condemned for the failures of another one: one that nothing
\* befell and that misses no observation is accepted, as long as every
\* failure was recorded with its place.
THEOREM CleanStaysClean == Spec => []CleanRoundsStayClean
BY AuditInvariant, StaysClean, PTL

-----------------------------------------------------------------------------
(***************************************************************************)
(* The outages of the socket and the notices of them.                      *)
(***************************************************************************)

\* A reconnect that ends the outage which began at b: nothing reached the
\* store in between, history of its own interval apart.
Bridges(n, b) ==
  /\ n.type = "reconnect" /\ n.topic = "" /\ n.placed /\ b <= n.from
  /\ \A t \in Series : /\ \A s \in kept[t] : ~ (b < s /\ s <= n.from)
                       /\ \A s \in history[t] : ~ (b < s /\ s < n.from)
                       /\ b = n.from => b \notin history[t]

\* An outage that no connection has ended yet.
StillDown(b) ==
  /\ socket.state = "down" /\ b <= now
  /\ \A t \in Series : /\ \A s \in kept[t] \cup history[t] : s <= b
                       /\ b = now => b \notin history[t]

\* The socket was quiet since its last data, and only a subscription is
\* answered with history.
SocketInv ==
  /\ socket.state # "down" => ~socket.first
  /\ seen.breaks # {} => ~socket.first
  /\ socket.state # "down" =>
       \A t \in Series : \A s \in kept[t] \cup history[t] : s <= socket.quiet
  /\ \A t \in Series : history[t] \subseteq seen.backfills

\* Every outage is open or has its notice in the store.
BridgeInv ==
  counters.dropped = 0 => \A b \in seen.breaks :
    StillDown(b) \/ \E i \in DOMAIN records : Bridges(records[i], b)

\* Notices are in the order of their times.
OrderInv ==
  \A i, j \in DOMAIN records :
    IsNotice(records[i]) /\ IsNotice(records[j]) /\ i < j => records[i].from <= records[j].from

BreakInv == SocketInv /\ BridgeInv /\ OrderInv

\* Records are only added, notices with the time.
Grown ==
  /\ \A i \in DOMAIN records : i \in DOMAIN records' /\ records'[i] = records[i]
  /\ \A i \in DOMAIN records' :
       i \in DOMAIN records \/ (IsNotice(records'[i]) => records'[i].from = now)
  /\ counters.dropped <= counters'.dropped

LEMMA SubmittedGrows ==
  ASSUME LogShape, NEW new \in Seq(ControlRecord), NEW nObs \in Nat, NEW parse,
         Submitted(new, nObs, parse), \A j \in DOMAIN new : IsNotice(new[j]) => new[j].from = now
  PROVE  /\ Grown
         /\ full /\ Len(new) > 0 => counters'.dropped # 0
         /\ full /\ nObs > 0 => counters'.dropped # 0
         /\ ~full => \A j \in DOMAIN new : \E i \in DOMAIN records' : records'[i] = new[j]
<1>1. counters'.dropped = (IF full THEN counters.dropped + Len(new) + nObs ELSE counters.dropped)
  BY DEF Submitted
<1>2. Len(new) \in Nat /\ counters.dropped \in Nat /\ records \in Seq(ControlRecord)
  BY DEF LogShape
<1>3. CASE full
  <2>1. records' = records
    BY <1>3 DEF Submitted
  <2>2. /\ counters.dropped <= counters'.dropped
        /\ Len(new) > 0 => counters'.dropped # 0
        /\ nObs > 0 => counters'.dropped # 0
    BY <1>1, <1>2, <1>3
  <2> QED BY <1>3, <2>1, <2>2 DEF Grown
<1>4. CASE ~full
  <2> DEFINE u == records \o new
  <2>1. records' = u
    BY <1>4 DEF Submitted
  <2>2. /\ DOMAIN records = 1..Len(records) /\ DOMAIN new = 1..Len(new) /\ Len(records) \in Nat
        /\ DOMAIN u = 1..(Len(records) + Len(new))
        /\ \A i \in DOMAIN records : u[i] = records[i]
        /\ \A i \in DOMAIN new : u[Len(records) + i] = new[i]
    BY <1>2
  <2> HIDE DEF u
  <2>3. \A i \in DOMAIN u : i \in DOMAIN records \/ \E j \in DOMAIN new : u[i] = new[j]
    <3>1. ASSUME NEW i \in DOMAIN u, i \notin DOMAIN records PROVE \E j \in DOMAIN new : u[i] = new[j]
      <4>1. i - Len(records) \in DOMAIN new /\ Len(records) + (i - Len(records)) = i
        BY <1>2, <2>2, <3>1
      <4> QED BY <2>2, <4>1
    <3> QED BY <3>1
  <2>4. \A j \in DOMAIN new : Len(records) + j \in DOMAIN u
    BY <1>2, <2>2
  <2>5. \A i \in DOMAIN records : i \in DOMAIN u
    BY <1>2, <2>2
  <2>6. counters.dropped <= counters'.dropped
    BY <1>1, <1>2, <1>4
  <2>7. Grown
    BY <2>1, <2>2, <2>3, <2>5, <2>6 DEF Grown
  <2> QED BY <1>4, <2>1, <2>2, <2>4, <2>7
<1> QED BY <1>3, <1>4

LEMMA OrderStays ==
  ASSUME AuditInv, AuditInv', OrderInv, Grown
  PROVE  OrderInv'
<1>1. /\ DOMAIN records = 1..Len(records) /\ DOMAIN records' = 1..Len(records')
      /\ Len(records) \in Nat /\ Len(records') \in Nat
  <2>1. records \in Seq(ControlRecord) /\ records' \in Seq(ControlRecord)
    BY DEF AuditInv, ShapeInv, LogShape
  <2> QED BY <2>1
<1>2. SUFFICES ASSUME NEW i \in DOMAIN records', NEW j \in DOMAIN records',
                      IsNotice(records'[i]), IsNotice(records'[j]), i < j
               PROVE  records'[i].from <= records'[j].from
  BY DEF OrderInv, IsNotice
<1>3. \A k \in DOMAIN records : IsNotice(records[k]) => records[k].from \in Nat /\ records[k].from <= now
  BY RecordFacts DEF IsSound
<1>4. now \in Nat
  BY Fields
<1>5. CASE j \in DOMAIN records
  <2>1. i \in DOMAIN records
    BY <1>1, <1>2, <1>5
  <2>2. records'[i] = records[i] /\ records'[j] = records[j]
    BY <1>5, <2>1 DEF Grown
  <2> QED BY <1>2, <1>5, <2>1, <2>2 DEF OrderInv
<1>6. CASE j \notin DOMAIN records
  <2>1. records'[j].from = now
    BY <1>2, <1>6 DEF Grown
  <2>2. CASE i \in DOMAIN records
    <3>1. records'[i] = records[i]
      BY <2>2 DEF Grown
    <3>2. records[i].from <= now
      BY <1>2, <1>3, <2>2, <3>1
    <3> QED BY <2>1, <3>1, <3>2
  <2>3. CASE i \notin DOMAIN records
    <3>1. records'[i].from = now
      BY <1>2, <2>3 DEF Grown
    <3> QED BY <1>4, <2>1, <3>1
  <2> QED BY <2>2, <2>3
<1> QED BY <1>5, <1>6

\* What a step adds to the events of the series.
EventsGrow ==
  \A t \in Series : /\ \A s \in kept'[t] : s \in kept[t] \/ now < s
                    /\ \A s \in history'[t] : s \in history[t] \/ s = now
                    /\ \A s \in history'[t] : s \in history[t] \/ now \notin seen'.breaks

LEMMA BridgesStay ==
  ASSUME AuditInv, FeedShape', EventsGrow, NEW b \in seen'.breaks, NEW n, n.from \in Nat, n.from <= now, Bridges(n, b)
  PROVE  Bridges(n, b)'
<1>1. now \in Nat /\ \A t \in Series : kept[t] \subseteq Int /\ history[t] \subseteq Int
  <2>1. FeedShape /\ now \in Nat
    BY Fields
  <2>2. \A t \in Series : kept[t] \subseteq 1..now /\ history[t] \subseteq 0..now
    BY <2>1 DEF FeedShape
  <2>3. 1..now \subseteq Int /\ 0..now \subseteq Int
    BY <2>1
  <2> QED BY <2>1, <2>2, <2>3
<1>2. n.type = "reconnect" /\ n.topic = "" /\ n.placed /\ b <= n.from
  BY DEF Bridges
<1>3. ASSUME NEW t \in Series
      PROVE  /\ \A s \in kept'[t] : ~ (b < s /\ s <= n.from)
             /\ \A s \in history'[t] : ~ (b < s /\ s < n.from)
             /\ b = n.from => b \notin history'[t]
  <2>1. /\ \A s \in kept[t] : ~ (b < s /\ s <= n.from)
        /\ \A s \in history[t] : ~ (b < s /\ s < n.from)
        /\ b = n.from => b \notin history[t]
    BY DEF Bridges
  <2>2. ASSUME NEW s \in kept'[t] PROVE ~ (b < s /\ s <= n.from)
    <3>1. s \in kept[t] \/ now < s
      BY DEF EventsGrow
    <3>2. CASE s \in kept[t]
      BY <2>1, <3>2
    <3>3. CASE now < s /\ s \notin kept[t]
      <4>1. s \in Nat
        <5>1. kept'[t] \subseteq 1..now'
          BY DEF FeedShape
        <5>2. now' \in Nat
          BY Constants DEF FeedShape
        <5> QED BY <5>1, <5>2
      <4> QED BY <1>1, <3>3, <4>1
    <3> QED BY <3>1, <3>2, <3>3
  <2>3. ASSUME NEW s \in history'[t] PROVE ~ (b < s /\ s < n.from)
    <3>1. s \in history[t] \/ s = now
      BY DEF EventsGrow
    <3>2. ~ (now < n.from)
      BY <1>1
    <3> QED BY <2>1, <3>1, <3>2
  <2>4. b = n.from => b \notin history'[t]
    <3>1. SUFFICES ASSUME b = n.from, b \in history'[t] PROVE FALSE
      OBVIOUS
    <3>2. b \notin history[t] /\ b = now /\ now \notin seen'.breaks
      BY <2>1, <3>1 DEF EventsGrow
    <3> QED BY <3>2
  <2> QED BY <2>2, <2>3, <2>4
<1> QED BY <1>2, <1>3 DEF Bridges

\* An outage stays bridged, and an open one stays open or is bridged.
LEMMA BridgeStays ==
  ASSUME AuditInv, AuditInv', BreakInv, Grown, EventsGrow,
         counters'.dropped = 0 =>
           \A b \in seen'.breaks :
             \/ b \in seen.breaks /\ ~StillDown(b)
             \/ StillDown(b)'
             \/ \E i \in DOMAIN records' : Bridges(records[i], b)'
  PROVE  BridgeInv' /\ OrderInv'
<1>1. counters.dropped \in Nat /\ counters'.dropped \in Nat /\ counters.dropped <= counters'.dropped
  <2>1. LogShape /\ LogShape'
    BY DEF AuditInv, ShapeInv
  <2> QED BY <2>1 DEF LogShape, Grown
<1>2. SUFFICES ASSUME counters'.dropped = 0, NEW b \in seen'.breaks
               PROVE  StillDown(b)' \/ \E i \in DOMAIN records' : Bridges(records[i], b)'
  <2>1. OrderInv'
    BY OrderStays DEF BreakInv
  <2>2. (counters'.dropped = 0 =>
           \A b \in seen'.breaks : StillDown(b)' \/ \E i \in DOMAIN records' : Bridges(records[i], b)')
          => BridgeInv'
    BY DEF BridgeInv
  <2> QED BY <2>1, <2>2
<1>3. CASE b \in seen.breaks /\ ~StillDown(b)
  <2>1. PICK i \in DOMAIN records : Bridges(records[i], b)
    BY <1>1, <1>2, <1>3 DEF BreakInv, BridgeInv
  <2>2. i \in DOMAIN records' /\ records'[i] = records[i]
    BY DEF Grown
  <2>3. records[i].from \in Nat /\ records[i].from <= now
    <3>1. records[i].type \in Notices
      BY <2>1 DEF Bridges, Notices
    <3> QED BY <3>1, RecordFacts DEF IsSound
  <2>4. FeedShape'
    BY DEF AuditInv, ShapeInv
  <2> DEFINE n == records[i]
  <2>5. n.from \in Nat /\ n.from <= now /\ Bridges(n, b) /\ records'[i] = n
    BY <2>1, <2>2, <2>3
  <2> HIDE DEF n
  <2>6. \A m : m.from \in Nat /\ m.from <= now /\ Bridges(m, b) => Bridges(m, b)'
    BY <2>4, BridgesStay
  <2> QED BY <2>2, <2>5, <2>6 DEF Bridges
<1> QED BY <1>2, <1>3

\* Steps that add no notice and end no outage.
LEMMA CalmSteps ==
  ASSUME AuditInv, AuditInv', BreakInv, Grown,
         UNCHANGED <<now, kept, history>>,
         seen'.breaks = seen.breaks, seen'.backfills = seen.backfills,
         socket'.first = socket.first, socket'.quiet = socket.quiet,
         socket'.state = "down" <=> socket.state = "down"
  PROVE  BreakInv'
<1>1. SocketInv'
  BY DEF BreakInv, SocketInv
<1>2. EventsGrow
  BY DEF EventsGrow
<1>3. \A b \in seen'.breaks : (b \in seen.breaks /\ ~StillDown(b)) \/ StillDown(b)'
  BY DEF StillDown
<1> QED BY <1>1, <1>2, <1>3, BridgeStays DEF BreakInv

LEMMA SameGrows ==
  ASSUME AuditInv, UNCHANGED records, counters.dropped <= counters'.dropped
  PROVE  Grown
BY DEF Grown

LEMMA CalmBreaks ==
  ASSUME AuditInv, AuditInv', BreakInv, NEW t \in Series, NEW r \in Rounds,
         \/ FallSilent \/ QueueFills \/ Die \/ Stops(t) \/ Resumes(t)
         \/ Finalize(r) \/ Interrupt \/ Sweep \/ ResolveStored \/ IntegrityFails(r)
  PROVE  BreakInv'
<1>1. UNCHANGED <<now, kept, history, records>>
  BY DEF FallSilent, QueueFills, Die, Stops, Resumes, Fault, log, stored, feed,
         Finalize, Interrupt, Sweep, ResolveStored, IntegrityFails
<1>2. counters \in [parse : Nat, dropped : Nat] /\ seen \in Seen /\ socket \in Socket
  BY Fields
<1>3. /\ seen'.breaks = seen.breaks /\ seen'.backfills = seen.backfills
  <2>1. CASE FallSilent \/ QueueFills \/ Die \/ Stops(t) \/ Resumes(t) \/ Finalize(r) \/ Interrupt \/ Sweep
    BY <2>1 DEF FallSilent, QueueFills, Die, Stops, Resumes, Fault, log, stored, feed,
         Finalize, Interrupt, Sweep
  <2>2. CASE ResolveStored
    <3>1. \E K : seen' = [seen EXCEPT !.rewritten = @ \cup K]
      BY <2>2 DEF ResolveStored
    <3> QED BY <1>2, <3>1 DEF Seen
  <2>3. CASE IntegrityFails(r)
    <3>1. seen' = Befallen({r}, 0)
      BY <2>3 DEF IntegrityFails
    <3> QED BY <1>2, <3>1 DEF Seen, Befallen
  <2> QED BY <2>1, <2>2, <2>3
<1>4. /\ socket'.first = socket.first /\ socket'.quiet = socket.quiet
      /\ socket'.state = "down" <=> socket.state = "down"
  <2>1. socket' = socket \/ (socket.state = "up" /\ socket' = [socket EXCEPT !.state = "silent"])
    BY DEF FallSilent, QueueFills, Die, Stops, Resumes, Fault, log, stored, feed,
         Finalize, Interrupt, Sweep, ResolveStored, IntegrityFails
  <2> QED BY <1>2, <2>1 DEF Socket
<1>5. counters.dropped <= counters'.dropped
  <2>1. CASE FallSilent \/ QueueFills \/ Die \/ Stops(t) \/ Resumes(t) \/ Sweep \/ ResolveStored
    <3>1. counters' = counters
      BY <2>1 DEF FallSilent, QueueFills, Die, Stops, Resumes, Fault, log, stored, feed,
           Sweep, ResolveStored
    <3> QED BY <1>2, <3>1
  <2>2. CASE IntegrityFails(r)
    <3>1. counters' = counters \/ counters' = [counters EXCEPT !.dropped = @ + 1]
      BY <2>2 DEF IntegrityFails
    <3> QED BY <1>2, <3>1
  <2>3. ASSUME NEW R \in SUBSET Rounds, FinalizeAll(R) PROVE counters.dropped <= counters'.dropped
    <3> DEFINE lost == IF full THEN Cardinality(R) ELSE 0
    <3>1. counters' = [counters EXCEPT !.dropped = @ + lost]
      BY <2>3 DEF FinalizeAll
    <3>2. lost \in Nat
      <4>1. IsFiniteSet(Rounds)
        BY Constants, FS_Interval DEF Rounds
      <4>2. IsFiniteSet(R) /\ Cardinality(R) \in Nat
        BY <4>1, FS_Subset, FS_CardinalityType
      <4> QED BY <4>2
    <3> HIDE DEF lost
    <3> QED BY <1>2, <3>1, <3>2
  <2>4. CASE Finalize(r)
    BY <2>3, <2>4 DEF Finalize
  <2>5. CASE Interrupt
    <3>1. PICK R \in SUBSET Rounds : FinalizeAll(R)
      BY <2>5 DEF Interrupt
    <3> QED BY <2>3, <3>1
  <2> QED BY <2>1, <2>2, <2>4, <2>5
<1>6. Grown
  BY <1>1, <1>5, SameGrows
<1> QED BY <1>1, <1>3, <1>4, <1>6, CalmSteps

LEMMA FrameFailsBreaks ==
  ASSUME AuditInv, AuditInv', BreakInv, FrameFails
  PROVE  BreakInv'
<1>1. UNCHANGED <<now, socket, kept, history>>
  BY DEF FrameFails, feed, stored
<1>2. now \in Nat /\ seen \in Seen /\ LogShape
  BY Fields
<1>3. PICK n : /\ n \in ControlRecord /\ n.type = "parse_failure" /\ Submitted(<<n>>, 0, 1)
  <2>1. ASSUME NEW rounds \in {{}} \cup {{r} : r \in Rounds}
        PROVE  NamedRecord(now, rounds) \in ControlRecord /\ NamedRecord(now, rounds).type = "parse_failure"
    <3>1. rounds \subseteq Rounds
      OBVIOUS
    <3> QED BY <1>2, <3>1 DEF NamedRecord, Record, ControlRecord
  <2>2. NamelessRecord(now) \in ControlRecord /\ NamelessRecord(now).type = "parse_failure"
    BY <1>2, RoundsOverType DEF NamelessRecord, Record, ControlRecord
  <2> QED BY <2>1, <2>2 DEF FrameFails
<1>4. seen'.breaks = seen.breaks /\ seen'.backfills = seen.backfills
  <2>1. (\E rounds : seen' = Befallen(rounds, 1)) \/ seen' = [seen EXCEPT !.unplaced = TRUE]
    BY DEF FrameFails
  <2> QED BY <1>2, <2>1 DEF Seen, Befallen
<1>5. Grown
  <2> DEFINE new == <<n>>
  <2>1. new \in Seq(ControlRecord) /\ \A j \in DOMAIN new : ~IsNotice(new[j])
    BY <1>3 DEF IsNotice
  <2>2. Submitted(new, 0, 1)
    BY <1>3
  <2> HIDE DEF new
  <2> QED BY <1>2, <2>1, <2>2, SubmittedGrows
<1> QED BY <1>1, <1>4, <1>5, CalmSteps

\* The socket is given up, or fails to open: its outage begins with the last
\* data of it.
LEMMA DownStays ==
  ASSUME AuditInv, AuditInv', BreakInv, Grown,
         UNCHANGED <<now, kept, history>>, seen'.backfills = seen.backfills,
         socket' = [socket EXCEPT !.state = "down"],
         IF socket.state = "down" THEN seen'.breaks = seen.breaks
         ELSE /\ seen'.breaks = seen.breaks \cup {socket.quiet}
              /\ socket.quiet = now => now \notin seen.backfills
  PROVE  BreakInv'
<1>1. socket \in Socket /\ now \in Nat
  BY Fields
<1>2. socket'.state = "down" /\ socket'.first = socket.first /\ socket'.quiet = socket.quiet
  BY <1>1 DEF Socket
<1>3. SocketInv'
  BY <1>2 DEF BreakInv, SocketInv
<1>4. EventsGrow
  BY DEF EventsGrow
<1>5. \A b \in seen'.breaks : (b \in seen.breaks /\ ~StillDown(b)) \/ StillDown(b)'
  <2>1. ASSUME NEW b \in seen.breaks, StillDown(b) PROVE StillDown(b)'
    BY <1>2, <2>1 DEF StillDown
  <2>2. ASSUME socket.state # "down" PROVE StillDown(socket.quiet)'
    <3>1. /\ \A t \in Series : \A s \in kept[t] \cup history[t] : s <= socket.quiet
          /\ \A t \in Series : history[t] \subseteq seen.backfills
      BY <2>2 DEF BreakInv, SocketInv
    <3>2. socket.quiet <= now
      BY <1>1 DEF Socket
    <3> DEFINE b == socket.quiet
    <3>3. /\ b <= now'
          /\ \A t \in Series : /\ \A s \in kept'[t] \cup history'[t] : s <= b
                               /\ b = now' => b \notin history'[t]
      BY <2>2, <3>1, <3>2
    <3>4. socket'.quiet = b
      BY <1>2
    <3> HIDE DEF b
    <3> QED BY <1>2, <3>3, <3>4 DEF StillDown
  <2>3. \A b \in seen'.breaks : b \in seen.breaks \/ (socket.state # "down" /\ b = socket.quiet)
    OBVIOUS
  <2>4. ASSUME NEW b \in seen'.breaks, socket.state # "down", b = socket.quiet PROVE StillDown(b)'
    <3>1. StillDown(socket.quiet)'
      BY <2>2, <2>4
    <3>2. socket.quiet' = socket.quiet
      BY <1>2
    <3> QED BY <2>4, <3>1, <3>2 DEF StillDown
  <2> QED BY <2>1, <2>3, <2>4
<1> QED BY <1>3, <1>4, <1>5, BridgeStays DEF BreakInv

LEMMA BreakBreaks ==
  ASSUME AuditInv, AuditInv', BreakInv, Break
  PROVE  BreakInv'
<1>1. /\ UNCHANGED <<now, kept, history>>
      /\ socket' = [socket EXCEPT !.state = "down"]
      /\ Submitted(<<FailureRecord(now)>>, 0, 1)
      /\ seen' = [Befallen(InWindow(now), 1) EXCEPT
                    !.breaks = IF socket.state = "up" THEN @ \cup {socket.quiet} ELSE @]
      /\ \/ socket.state = "down"
         \/ socket.state = "up" /\ now \notin seen.backfills
  BY DEF Break
<1>2. now \in Nat /\ seen \in Seen /\ LogShape
  BY Fields
<1>3. /\ seen'.breaks = IF socket.state = "up" THEN seen.breaks \cup {socket.quiet} ELSE seen.breaks
      /\ seen'.backfills = seen.backfills
  BY <1>1, <1>2 DEF Seen, Befallen
<1>4. Grown
  <2> DEFINE n == FailureRecord(now)
             new == <<n>>
  <2>1. n \in ControlRecord /\ n.type = "parse_failure"
    BY <1>2, FailureRecordType
  <2>2. Submitted(new, 0, 1)
    BY <1>1
  <2> HIDE DEF n
  <2>3. new \in Seq(ControlRecord) /\ \A j \in DOMAIN new : ~IsNotice(new[j])
    BY <2>1 DEF IsNotice
  <2> HIDE DEF new
  <2> QED BY <1>2, <2>2, <2>3, SubmittedGrows
<1> QED BY <1>1, <1>3, <1>4, DownStays

LEMMA WatchBreaks ==
  ASSUME AuditInv, AuditInv', BreakInv, Watch
  PROVE  BreakInv'
<1> DEFINE stale == {t \in Series : Silent(t)}
           dead == now - socket.quiet > StallTimeout
           topics == {Notice("topic_stalled", t, now) : t \in stale}
           last == IF dead THEN <<Notice("stream_stalled", "", now)>> ELSE <<>>
           new == SetToSeq(topics) \o last
<1>1. FeedShape /\ TrackerInv /\ now \in Nat /\ IsFiniteSet(Series) /\ LogShape
      /\ seen \in Seen /\ socket \in Socket
  BY Fields
<1>2. /\ ~watched
      /\ socket' = IF dead THEN [socket EXCEPT !.state = "down"] ELSE socket
      /\ Submitted(new, 0, 0)
      /\ seen' = IF dead THEN [seen EXCEPT !.breaks = @ \cup {socket.quiet}] ELSE seen
      /\ UNCHANGED <<now, kept, history>>
  BY DEF Watch
<1>3. socket.state # "down"
  BY <1>1, <1>2 DEF TrackerInv
<1>4. new \in Seq(Noticed)
  BY <1>1, WatchNotices
<1>5. Grown
  <2> HIDE DEF new
  <2>1. new \in Seq(ControlRecord) /\ \A j \in DOMAIN new : new[j].from = now
    <3>1. Noticed \subseteq ControlRecord /\ \A n \in Noticed : n.from = now
      BY DEF Noticed
    <3>2. \A j \in DOMAIN new : new[j] \in Noticed
      BY <1>4
    <3>3. new \in Seq(ControlRecord)
      BY <1>4, <3>1
    <3> QED BY <3>1, <3>2, <3>3
  <2> QED BY <1>1, <1>2, <2>1, SubmittedGrows
<1> HIDE DEF stale, new
<1>6. CASE dead
  <2>1. socket.quiet # now
    BY <1>1, <1>6, Constants DEF Socket
  <2>2. /\ seen'.breaks = seen.breaks \cup {socket.quiet} /\ seen'.backfills = seen.backfills
        /\ socket' = [socket EXCEPT !.state = "down"]
    BY <1>1, <1>2, <1>6 DEF Seen
  <2> HIDE DEF dead
  <2> QED BY <1>2, <1>3, <1>5, <2>1, <2>2, DownStays
<1>7. CASE ~dead
  <2>1. seen' = seen /\ socket' = socket
    BY <1>2, <1>7
  <2> HIDE DEF dead
  <2> QED BY <1>2, <1>5, <2>1, CalmSteps
<1> QED BY <1>6, <1>7

\* What a second submits holds no notice, and nothing is received while the
\* socket is down or silent.
LEMMA SecondGrows ==
  ASSUME AuditInv, Second
  PROVE  /\ Grown /\ EventsGrow
         /\ now' = now + 1 /\ history' = history
         /\ \A t \in Series : kept'[t] = kept[t] \/ socket.state = "up"
         /\ socket' = IF socket.state = "up" THEN [socket EXCEPT !.quiet = now + 1] ELSE socket
         /\ seen'.breaks = seen.breaks /\ seen'.backfills = seen.backfills
<1> DEFINE at == now + 1
<1>1. FeedShape /\ LogShape /\ now \in Nat /\ seen \in Seen /\ at \in Nat /\ now < at
  BY Fields
<1>2. PICK bad, undated :
         bad \in {{}} \cup {{t} : t \in Arriving} /\
         LET good == Arriving \ bad
             events == Arriving \ undated
             over == {t \in good : gaps[t].start # None /\ at - gaps[t].start > Material}
             new == SetToSeq({GapRecord(t, gaps[t].start, at) : t \in over})
                      \o SetToSeq({FailureRecord(at) : t \in bad})
         IN /\ now' = at
            /\ kept' = [t \in Series |-> IF t \in events /\ ~full THEN kept[t] \cup {at} ELSE kept[t]]
            /\ Submitted(new, Cardinality(events), Cardinality(bad))
            /\ seen' = Befallen(IF bad = {} THEN {} ELSE InWindow(at), Cardinality(bad))
            /\ socket' = IF socket.state = "up" THEN [socket EXCEPT !.quiet = at] ELSE socket
  BY DEF Second
<1> DEFINE good == Arriving \ bad
           events == Arriving \ undated
           over == {t \in good : gaps[t].start # None /\ at - gaps[t].start > Material}
           new == SetToSeq({GapRecord(t, gaps[t].start, at) : t \in over})
                    \o SetToSeq({FailureRecord(at) : t \in bad})
           parse == Cardinality(bad)
           H == IF bad = {} THEN {} ELSE InWindow(at)
<1>3. /\ now' = at
      /\ kept' = [t \in Series |-> IF t \in events /\ ~full THEN kept[t] \cup {at} ELSE kept[t]]
      /\ Submitted(new, Cardinality(events), parse)
      /\ seen' = Befallen(H, parse)
      /\ socket' = IF socket.state = "up" THEN [socket EXCEPT !.quiet = at] ELSE socket
      /\ history' = history
  BY <1>2 DEF Second
<1> bad \in {{}} \cup {{t} : t \in Arriving}
  BY <1>2
<1>4. /\ good \subseteq Arriving /\ bad \subseteq Arriving /\ Arriving \subseteq Series
      /\ events \subseteq Arriving /\ over \subseteq good
      /\ bad = {} \/ \E t \in Series : bad = {t}
      /\ Arriving # {} => socket.state = "up"
  BY <1>1 DEF Arriving, FeedShape
<1>5. Tells(new, over, bad)
  <2>1. over \in SUBSET Series /\ bad \in SUBSET Series /\ \A t \in over : gaps[t].start # None
    BY <1>4
  <2>2. new = SecondLog(over, bad)
    BY DEF SecondLog
  <2> HIDE DEF new, over, good, events, parse, H
  <2> QED BY <1>4, <2>1, <2>2, SecondRecords
<1>6. Cardinality(events) \in Nat
  <2>1. IsFiniteSet(events)
    BY <1>4, Fields, FS_Subset
  <2> HIDE DEF events
  <2> QED BY <2>1, FS_CardinalityType
<1> HIDE DEF new, over, good, events, parse, H
<1>7. new \in Seq(ControlRecord) /\ \A j \in DOMAIN new : ~IsNotice(new[j])
  <2>1. \A t : ~IsNotice(GapRecord(t, gaps[t].start, now + 1))
    BY DEF GapRecord, Record, IsNotice
  <2>2. ~IsNotice(FailureRecord(now + 1))
    BY DEF FailureRecord, Record, IsNotice
  <2> QED BY <1>5, <2>1, <2>2 DEF Tells
<1>8. Grown
  BY <1>1, <1>3, <1>6, <1>7, SubmittedGrows
<1>9. seen'.breaks = seen.breaks /\ seen'.backfills = seen.backfills
  BY <1>1, <1>3 DEF Seen, Befallen
<1>10. \A t \in Series : kept'[t] = kept[t] \/ (t \in events /\ kept'[t] = kept[t] \cup {at})
  BY <1>3
<1>11. EventsGrow
  <2>1. now < at
    BY <1>1
  <2> HIDE DEF at
  <2> QED BY <1>3, <1>10, <2>1 DEF EventsGrow
<1> QED BY <1>3, <1>4, <1>8, <1>9, <1>10, <1>11

LEMMA SecondBreaks ==
  ASSUME AuditInv, AuditInv', BreakInv, Second
  PROVE  BreakInv'
<1>1. /\ Grown /\ EventsGrow
      /\ now' = now + 1 /\ history' = history
      /\ \A t \in Series : kept'[t] = kept[t] \/ socket.state = "up"
      /\ socket' = IF socket.state = "up" THEN [socket EXCEPT !.quiet = now + 1] ELSE socket
      /\ seen'.breaks = seen.breaks /\ seen'.backfills = seen.backfills
  BY SecondGrows
<1>2. now \in Nat /\ socket \in Socket
  BY Fields
<1>3. /\ socket'.state = socket.state /\ socket'.first = socket.first
      /\ socket'.quiet = IF socket.state = "up" THEN now + 1 ELSE socket.quiet
  BY <1>1, <1>2 DEF Socket
<1>4. \A t \in Series : \A s \in kept'[t] \cup history'[t] : s <= now + 1
  <2>1. FeedShape'
    BY DEF AuditInv, ShapeInv
  <2>2. \A t \in Series : kept'[t] \subseteq 1..now' /\ history'[t] \subseteq 0..now'
    BY <2>1 DEF FeedShape
  <2>3. \A s \in 1..now' : s <= now + 1
    BY <1>1, <1>2
  <2>4. \A s \in 0..now' : s <= now + 1
    BY <1>1, <1>2
  <2> QED BY <2>2, <2>3, <2>4
<1>5. SocketInv'
  <2>1. CASE socket.state = "up"
    BY <1>1, <1>3, <1>4, <2>1 DEF BreakInv, SocketInv
  <2>2. CASE socket.state # "up"
    BY <1>1, <1>3, <2>2 DEF BreakInv, SocketInv
  <2> QED BY <2>1, <2>2
<1>6. ASSUME NEW b \in seen.breaks, StillDown(b) PROVE StillDown(b)'
  <2>1. socket.state = "down" /\ b <= now /\ b \in Nat
    <3>1. seen \in Seen /\ socket.state = "down" /\ b <= now
      BY <1>6, Fields DEF StillDown
    <3>2. b \in 0..now
      BY <3>1 DEF Seen
    <3> QED BY <3>1, <3>2
  <2>2. b <= now' /\ b # now'
    BY <1>1, <1>2, <2>1
  <2>3. \A t \in Series : kept'[t] = kept[t]
    BY <1>1, <2>1
  <2>4. socket'.state = "down"
    BY <1>3, <2>1
  <2> QED BY <1>1, <1>6, <2>2, <2>3, <2>4 DEF StillDown
<1> QED BY <1>1, <1>5, <1>6, BridgeStays DEF BreakInv

LEMMA ConnectBreaks ==
  ASSUME AuditInv, AuditInv', BreakInv, Connect
  PROVE  BreakInv'
<1> DEFINE new == IF socket.first THEN <<>> ELSE <<Notice("reconnect", "", now)>>
<1>1. FeedShape /\ LogShape /\ now \in Nat /\ IsFiniteSet(Series) /\ seen \in Seen /\ socket \in Socket
  BY Fields
<1>2. PICK back \in {{}, on} :
         /\ Submitted(new, Cardinality(back), 0)
         /\ seen' = IF back # {}
                    THEN [seen EXCEPT !.backfills = @ \cup {now}, !.breaks = @ \ {now}]
                    ELSE seen
         /\ history' = [t \in Series |-> IF t \in back /\ ~full THEN history[t] \cup {now} ELSE history[t]]
  BY DEF Connect
<1>3. /\ socket' = [state |-> "up", first |-> FALSE, quiet |-> now]
      /\ socket.state = "down" /\ UNCHANGED <<now, kept, full>>
  BY DEF Connect
<1>4. seen'.breaks \subseteq seen.breaks
      /\ IF back # {} THEN now \notin seen'.breaks /\ seen'.backfills = seen.backfills \cup {now}
                      ELSE seen' = seen
  BY <1>1, <1>2 DEF Seen
<1>5. Cardinality(back) \in Nat
  <2>1. back \subseteq Series
    BY <1>1 DEF FeedShape
  <2> QED BY <1>1, <2>1, FS_Subset, FS_CardinalityType
<1> DEFINE n == Notice("reconnect", "", now)
<1>6. /\ n \in ControlRecord /\ n.from = now /\ n.placed /\ n.type = "reconnect" /\ n.topic = ""
  <2>1. "reconnect" \in Notices /\ "" \in Series \cup {""}
    BY DEF Notices
  <2>2. n.type = "reconnect" /\ n.topic = ""
    BY DEF Notice, Record
  <2> QED BY <1>1, <2>1, <2>2, NoticeType
<1>7. new = IF socket.first THEN <<>> ELSE <<n>>
  OBVIOUS
<1> HIDE DEF n, new
<1>8. /\ new \in Seq(ControlRecord) /\ \A j \in DOMAIN new : new[j].from = now
      /\ ~socket.first => Len(new) > 0 /\ \E j \in DOMAIN new : new[j] = n
  <2>1. CASE socket.first
    BY <1>7, <2>1
  <2>2. CASE ~socket.first
    <3>1. new = <<n>>
      BY <1>7, <2>2
    <3>2. <<n>> \in Seq(ControlRecord)
      <4>1. n \in ControlRecord
        BY <1>6
      <4> HIDE DEF ControlRecord
      <4> QED BY <4>1
    <3>3. DOMAIN <<n>> = {1} /\ <<n>>[1] = n /\ Len(<<n>>) = 1
      OBVIOUS
    <3>4. new \in Seq(ControlRecord) /\ DOMAIN new = {1} /\ new[1] = n /\ Len(new) = 1
      BY <3>1, <3>2, <3>3
    <3>5. \A j \in DOMAIN new : new[j] = n
      BY <3>4
    <3>6. n.from = now
      BY <1>6
    <3>7. \A j \in DOMAIN new : new[j].from = now
      BY <3>5, <3>6
    <3> QED BY <3>4, <3>7
  <2> QED BY <2>1, <2>2
<1>9. /\ Grown
      /\ full /\ Len(new) > 0 => counters'.dropped # 0
      /\ ~full => \A j \in DOMAIN new : \E i \in DOMAIN records' : records'[i] = new[j]
  BY <1>1, <1>2, <1>5, <1>8, SubmittedGrows
<1>10. ASSUME NEW t \in Series
       PROVE  /\ history'[t] = history[t] \/ (back # {} /\ history'[t] = history[t] \cup {now})
              /\ kept'[t] = kept[t]
  BY <1>2, <1>3
<1>11. EventsGrow
  <2>1. \A t \in Series : history'[t] # history[t] => now \notin seen'.breaks
    BY <1>4, <1>10
  <2> QED BY <1>10, <2>1 DEF EventsGrow
<1>12. SocketInv'
  <2>1. \A t \in Series : \A s \in kept'[t] \cup history'[t] : s <= now
    <3>1. \A t \in Series : kept[t] \subseteq 1..now /\ history[t] \subseteq 0..now
      BY <1>1 DEF FeedShape
    <3>2. \A s \in 1..now : s <= now
      BY <1>1
    <3>3. \A s \in 0..now : s <= now
      BY <1>1
    <3>4. now <= now
      BY <1>1
    <3> QED BY <1>10, <3>1, <3>2, <3>3, <3>4
  <2>2. \A t \in Series : history'[t] \subseteq seen'.backfills
    BY <1>4, <1>10 DEF BreakInv, SocketInv
  <2> QED BY <1>3, <2>1, <2>2 DEF SocketInv
<1>13. ASSUME counters'.dropped = 0, NEW b \in seen'.breaks, StillDown(b)
       PROVE  \E i \in DOMAIN records' : Bridges(records[i], b)'
  <2>1. ~socket.first
    BY <1>4, <1>13 DEF BreakInv, SocketInv
  <2>2. ~full
    BY <1>8, <1>9, <1>13, <2>1
  <2>3. PICK i \in DOMAIN records' : records'[i] = n
    BY <1>8, <1>9, <2>1, <2>2
  <2>4. /\ b <= now
        /\ \A t \in Series : /\ \A s \in kept[t] \cup history[t] : s <= b
                             /\ b = now => b \notin history[t]
    BY <1>13 DEF StillDown
  <2>5. ASSUME NEW t \in Series
        PROVE  /\ \A s \in kept'[t] : ~ (b < s /\ s <= now)
               /\ \A s \in history'[t] : ~ (b < s /\ s < now)
               /\ b = now => b \notin history'[t]
    <3>1. b \in Nat
      <4>1. b \in 0..now
        BY <1>1, <1>4 DEF Seen
      <4> QED BY <1>1, <4>1
    <3>2. \A s \in kept[t] \cup history[t] : s \in Nat /\ s <= b
      <4>1. kept[t] \subseteq 1..now /\ history[t] \subseteq 0..now
        BY <1>1 DEF FeedShape
      <4>2. 1..now \subseteq Nat /\ 0..now \subseteq Nat
        BY <1>1
      <4> QED BY <2>4, <4>1, <4>2
    <3>3. \A s \in kept[t] \cup history[t] : ~ (b < s)
      BY <3>1, <3>2
    <3>4. ~ (now < now)
      BY <1>1
    <3>5. b = now => history'[t] = history[t]
      BY <1>4, <1>10
    <3> QED BY <1>10, <2>4, <3>3, <3>4, <3>5
  <2> QED BY <1>6, <2>3, <2>4, <2>5 DEF Bridges
<1> QED BY <1>4, <1>9, <1>11, <1>12, <1>13, BridgeStays DEF BreakInv

LEMMA BreakInit ==
  ASSUME Init
  PROVE  BreakInv
<1>1. /\ socket = [state |-> "down", first |-> TRUE, quiet |-> 0] /\ seen.breaks = {}
      /\ records = <<>>
  BY DEF Init
<1>2. \A t \in Series : history[t] = {}
  BY DEF Init
<1>3. SocketInv
  BY <1>1, <1>2 DEF SocketInv
<1>4. BridgeInv
  BY <1>1 DEF BridgeInv
<1>5. OrderInv
  <2>1. DOMAIN records = {}
    BY <1>1
  <2> QED BY <2>1 DEF OrderInv
<1> QED BY <1>3, <1>4, <1>5 DEF BreakInv

LEMMA BreakInvStep ==
  ASSUME AuditInv, BreakInv, [Next]_vars
  PROVE  BreakInv'
<1>1. AuditInv'
  BY AuditStep
<1>2. CASE UNCHANGED vars
  <2>1. UNCHANGED <<now, socket, kept, history, records, counters, seen>>
    BY <1>2 DEF vars
  <2>2. counters.dropped <= counters'.dropped
    BY <2>1, Fields
  <2>3. Grown
    BY <2>1, <2>2, SameGrows
  <2> QED BY <1>1, <2>1, <2>3, CalmSteps
<1>3. CASE Second \/ Watch \/ Connect
  BY <1>1, <1>3, SecondBreaks, WatchBreaks, ConnectBreaks
<1>4. CASE Break \/ FrameFails
  BY <1>1, <1>4, BreakBreaks, FrameFailsBreaks
<1>5. CASE FallSilent \/ QueueFills \/ Die \/ Interrupt \/ Sweep \/ ResolveStored
  <2>1. 1 \in Rounds /\ Settling \in Series
    BY ReferenceAssumption DEF Rounds
  <2> QED BY <1>1, <1>5, <2>1, CalmBreaks
<1>6. CASE \E t \in Series : Stops(t) \/ Resumes(t)
  <2>1. 1 \in Rounds
    BY ReferenceAssumption DEF Rounds
  <2> QED BY <1>1, <1>6, <2>1, CalmBreaks
<1>7. CASE \E r \in Rounds : IntegrityFails(r) \/ Finalize(r)
  <2>1. Settling \in Series
    BY Constants
  <2> QED BY <1>1, <1>7, <2>1, CalmBreaks
<1> QED BY <1>2, <1>3, <1>4, <1>5, <1>6, <1>7 DEF Next

\* Every outage of the socket is open or bridged by a notice in the store.
THEOREM BreakInvariant == Spec => [](AuditInv /\ BreakInv)
<1>1. Init => AuditInv /\ BreakInv
  BY AuditInit, BreakInit
<1>2. AuditInv /\ BreakInv /\ [Next]_vars => (AuditInv /\ BreakInv)'
  BY AuditStep, BreakInvStep
<1> QED BY <1>1, <1>2, PTL DEF Spec

-----------------------------------------------------------------------------
(***************************************************************************)
(* A round that something befell.                                          *)
(***************************************************************************)

AllEvents == UNION {EventsOf(t) : t \in Series}

LEMMA AllEventsType ==
  ASSUME FeedShape
  PROVE  AllEvents \subseteq 0..now /\ now \in Nat /\ \A e \in AllEvents : e \in Nat /\ e <= now
<1>1. now \in Nat
  BY Constants DEF FeedShape
<1>2. \A t \in Series : kept[t] \subseteq 1..now /\ history[t] \subseteq 0..now
  BY DEF FeedShape
<1>3. 1..now \subseteq 0..now /\ \A e \in 0..now : e \in Nat /\ e <= now
  BY <1>1
<1>4. AllEvents \subseteq 0..now
  BY <1>2, <1>3 DEF AllEvents, EventsOf
<1> QED BY <1>1, <1>3, <1>4

\* The events around a notice of the socket are all there are.
LEMMA AroundAll ==
  ASSUME FeedShape, NEW n \in ControlRecord, Topics(n) = Series
  PROVE  /\ \A e \in AllEvents : e \in Before(n) \/ e \in After(n)
         /\ Before(n) \subseteq AllEvents /\ After(n) \subseteq AllEvents
<1>1. \A t \in Series :
        /\ \A e \in kept[t] : IF e <= n.from THEN e \in Before(n) ELSE e \in After(n)
        /\ \A e \in history[t] : IF e < n.from THEN e \in Before(n) ELSE e \in After(n)
  BY BeforeAfter
<1>2. \A e \in AllEvents : \E t \in Series : e \in kept[t] \/ e \in history[t]
  BY DEF AllEvents, EventsOf
<1>3. Before(n) \subseteq AllEvents /\ After(n) \subseteq AllEvents
  BY DEF Before, After, AllEvents, EventsOf
<1> QED BY <1>1, <1>2, <1>3

\* The notice of an outage is turned into it.
LEMMA BridgeReconstructs ==
  ASSUME FeedShape, NEW c \in ControlRecord, NEW b \in Nat, Bridges(c, b), c.from <= now
  PROVE  /\ Before(c) = {e \in AllEvents : e <= b}
         /\ After(c) = {e \in AllEvents : e > b}
<1>1. c.from \in Nat /\ b <= c.from /\ c.topic = ""
  <2>1. c.from \in Nat
    BY DEF ControlRecord
  <2> QED BY <2>1 DEF Bridges
<1>2. \A t \in Series : /\ \A s \in kept[t] : ~ (b < s /\ s <= c.from)
                        /\ \A s \in history[t] : ~ (b < s /\ s < c.from)
                        /\ b = c.from => b \notin history[t]
  BY DEF Bridges
<1>3. \A t \in Series : kept[t] \subseteq Nat /\ history[t] \subseteq Nat
  <2>1. \A t \in Series : kept[t] \subseteq AllEvents /\ history[t] \subseteq AllEvents
    BY DEF AllEvents, EventsOf
  <2> QED BY <2>1, AllEventsType
<1>4. /\ \A e : e \in Before(c) <=> \E t \in Series : \/ e \in kept[t] /\ e <= c.from
                                                      \/ e \in history[t] /\ e < c.from
      /\ \A e : e \in After(c) <=> \E t \in Series : \/ e \in kept[t] /\ e > c.from
                                                     \/ e \in history[t] /\ e >= c.from
      /\ \A e : e \in AllEvents <=> \E t \in Series : e \in kept[t] \/ e \in history[t]
  <2>1. Topics(c) = Series
    BY <1>1 DEF Topics
  <2> QED BY <2>1 DEF Before, After, AllEvents, EventsOf
<1> DEFINE from == c.from
<1>5. from \in Nat /\ b <= from
  BY <1>1
<1>6. \A t \in Series : \A e \in kept[t] : (e <= from <=> e <= b) /\ (e > from <=> e > b)
  <2>1. \A e \in Nat : ~ (b < e /\ e <= from) => (e <= from <=> e <= b) /\ (e > from <=> e > b)
    <3> HIDE DEF from
    <3> QED BY <1>5
  <2> QED BY <1>2, <1>3, <2>1
<1>7. \A t \in Series : \A e \in history[t] : (e < from <=> e <= b) /\ (e >= from <=> e > b)
  <2>1. \A e \in Nat : ~ (b < e /\ e < from) /\ ~ (e = b /\ b = from)
                         => (e < from <=> e <= b) /\ (e >= from <=> e > b)
    <3> HIDE DEF from
    <3> QED BY <1>5
  <2>2. \A t \in Series : \A e \in history[t] : ~ (b < e /\ e < from) /\ ~ (e = b /\ b = from)
    BY <1>2
  <2> QED BY <1>3, <2>1, <2>2
<1>8. \A e : e \in Before(c) <=> e \in AllEvents /\ e <= b
  BY <1>4, <1>6, <1>7
<1>9. \A e : e \in After(c) <=> e \in AllEvents /\ e > b
  BY <1>4, <1>6, <1>7
<1> QED BY <1>8, <1>9

\* An outage that touches one with a notice before it is that one, or begins
\* with the observation it ends with.
LEMMA TouchingIsSame ==
  ASSUME FeedShape, NEW n \in ControlRecord, NEW c \in ControlRecord,
         Topics(n) = Series, Topics(c) = Series, n.from <= c.from, c.from <= now,
         Before(c) # {}, After(c) # {}, IsMaterial(n), IsMaterial(c), Touching(n, c)
  PROVE  \/ Reconstructed(n) = Reconstructed(c)
         \/ Reconstructed(n).to = Reconstructed(c).from
<1>1. n.from \in Nat /\ c.from \in Nat /\ now \in Nat /\ n.from <= now
  <2>1. n.from \in Nat
    BY DEF ControlRecord
  <2>2. c.from \in Nat
    BY DEF ControlRecord
  <2>3. now \in Nat
    BY AllEventsType
  <2> QED BY <2>1, <2>2, <2>3
<1> DEFINE p == Reconstructed(n)
           o == Reconstructed(c)
<1>2. /\ p = [from |-> p.from, to |-> p.to] /\ p.from \in 0..now /\ p.to \in 0..now
      /\ IF Before(n) = {} THEN p.from = n.from ELSE p.from \in Before(n)
      /\ \A e \in Before(n) : e <= p.from
      /\ IF After(n) = {} THEN p.to = n.from ELSE p.to \in After(n)
      /\ \A e \in After(n) : p.to <= e
  BY <1>1, ReconstructedFacts
<1>3. /\ o = [from |-> o.from, to |-> o.to] /\ o.from \in 0..now /\ o.to \in 0..now
      /\ o.from \in Before(c) /\ \A e \in Before(c) : e <= o.from
      /\ o.to \in After(c) /\ \A e \in After(c) : o.to <= e
  BY <1>1, ReconstructedFacts
<1>4. /\ ~ (p.to - p.from <= Material) /\ ~ (o.to - o.from <= Material)
      /\ o.from <= p.to /\ o.to >= p.from
  BY DEF IsMaterial, Touching
<1>5. After(c) \subseteq After(n)
  <2>1. \A e \in Int : (e > c.from => e > n.from) /\ (e >= c.from => e >= n.from)
    BY <1>1
  <2>2. \A e \in AllEvents : e \in Int
    BY AllEventsType
  <2>3. \A t \in Series : kept[t] \subseteq AllEvents /\ history[t] \subseteq AllEvents
    BY DEF AllEvents, EventsOf
  <2> QED BY <2>1, <2>2, <2>3 DEF After
<1>6. /\ \A e \in AllEvents : e \in Before(n) \/ e \in After(n)
      /\ \A e \in AllEvents : e \in Before(c) \/ e \in After(c)
      /\ Before(n) \subseteq AllEvents /\ After(n) \subseteq AllEvents
      /\ Before(c) \subseteq AllEvents /\ After(c) \subseteq AllEvents
  BY AroundAll
<1> DEFINE a1 == p.from
           b1 == p.to
           a2 == o.from
           b2 == o.to
<1>7. a1 \in Nat /\ b1 \in Nat /\ a2 \in Nat /\ b2 \in Nat /\ a1 < b1 /\ a2 < b2 /\ a2 <= b1
  <2>1. a1 \in Nat /\ b1 \in Nat /\ a2 \in Nat /\ b2 \in Nat
    BY <1>1, <1>2, <1>3
  <2> HIDE DEF p, o
  <2> QED BY <1>4, <2>1 DEF Material
<1>8. b1 \in After(n) /\ b1 <= b2
  BY <1>2, <1>3, <1>5
<1> HIDE DEF p, o
<1>9. b1 = a2 \/ b1 = b2
  <2>1. b1 <= a2 \/ b2 <= b1
    BY <1>3, <1>6, <1>8
  <2> QED BY <1>7, <1>8, <2>1
<1>10. CASE b1 = b2 /\ b1 # a2
  <2>1. a2 \in AllEvents /\ ~ (b1 <= a2)
    BY <1>3, <1>6, <1>7, <1>10
  <2>2. a2 \in Before(n) /\ a2 <= a1
    BY <1>2, <1>6, <2>1
  <2>3. a1 \in AllEvents /\ ~ (b2 <= a1)
    BY <1>2, <1>6, <1>7, <1>10, <2>2
  <2>4. a1 <= a2
    BY <1>3, <1>6, <2>3
  <2>5. a1 = a2
    BY <1>7, <2>2, <2>4
  <2>6. p = [from |-> a1, to |-> b1] /\ o = [from |-> a2, to |-> b2]
    BY <1>2, <1>3
  <2> QED BY <1>10, <2>5, <2>6 DEF p, o
<1> QED BY <1>9, <1>10 DEF p, o

\* A failure of a round is found.
LEMMA HurtIsFound ==
  ASSUME AuditInv, counters.dropped = 0, NEW r \in seen.hurt
  PROVE  ~DataValid(r)
<1>1. CASE r \in mismatched
  BY <1>1 DEF DataValid
<1>2. CASE r \notin mismatched
  <2>1. PICK i \in DOMAIN records : /\ records[i].type = "parse_failure"
                                    /\ records[i].placed /\ r \in records[i].rounds
    BY <1>2 DEF AuditInv, RecordInv
  <2>2. ~IsNotice(records[i])
    BY <2>1 DEF IsNotice
  <2>3. LogShape
    BY DEF AuditInv, ShapeInv
  <2>4. DOMAIN records = 1..Len(records)
    BY <2>3 DEF LogShape
  <2>5. PICK acc : Audited(acc, Len(records)) /\ Failures = acc.out
    BY <2>3, FailuresAudited
  <2>6. records[i] \in Failures
    BY <2>2, <2>4, <2>5 DEF Audited
  <2>7. ParseFailed(r)
    BY <2>1, <2>6 DEF ParseFailed, Touches, IsGap
  <2> QED BY <2>7 DEF DataValid
<1> QED BY <1>1, <1>2

\* An outage of the socket is found.
LEMMA OutageIsFound ==
  ASSUME AuditInv, BreakInv, counters.dropped = 0, NEW r \in Rounds, NEW o \in Outages,
         r \in RoundsOver(o.from, o.to), o.to - o.from > Material, ~Flapping(o)
  PROVE  ~DataValid(r)
<1>1. FeedShape /\ LogShape /\ now \in Nat /\ seen \in Seen
  BY Fields
<1>2. DOMAIN records = 1..Len(records) /\ Len(records) \in Nat
  BY <1>1 DEF LogShape
<1>3. PICK b \in seen.breaks :
        /\ \E e \in AllEvents : e <= b
        /\ \E e \in AllEvents : e > b
        /\ o = [from |-> Largest({e \in AllEvents : e <= b}), to |-> Smallest({e \in AllEvents : e > b})]
  BY DEF Outages, AllEvents
<1>4. b \in Nat
  <2>1. b \in 0..now
    BY <1>1 DEF Seen
  <2> QED BY <1>1, <2>1
<1>5. ~StillDown(b)
  <2>1. SUFFICES ASSUME StillDown(b) PROVE FALSE
    OBVIOUS
  <2>2. \A e \in AllEvents : e <= b
    BY <2>1 DEF StillDown, AllEvents, EventsOf
  <2>3. \A e \in AllEvents : e \in Nat
    BY <1>1, AllEventsType
  <2> QED BY <1>3, <1>4, <2>2, <2>3
<1>6. PICK i \in DOMAIN records : Bridges(records[i], b)
  BY <1>3, <1>5 DEF BreakInv, BridgeInv
<1> DEFINE c == records[i]
<1>7. c \in ControlRecord /\ IsNotice(c) /\ c.from \in Nat /\ c.from <= now /\ c.placed
  <2>1. c.type = "reconnect" /\ c.placed
    BY <1>6 DEF Bridges
  <2>2. c.type \in Notices /\ IsNotice(c)
    BY <2>1 DEF Notices, IsNotice
  <2> QED BY <2>1, <2>2, RecordFacts DEF IsSound
<1>8. Topics(c) = Series /\ c.topic = ""
  BY <1>6 DEF Bridges, Topics
<1>9. /\ Before(c) = {e \in AllEvents : e <= b} /\ After(c) = {e \in AllEvents : e > b}
      /\ Before(c) # {} /\ After(c) # {}
  <2>1. Bridges(c, b)
    BY <1>6
  <2> HIDE DEF c
  <2>2. Before(c) = {e \in AllEvents : e <= b} /\ After(c) = {e \in AllEvents : e > b}
    BY <1>1, <1>4, <1>7, <2>1, BridgeReconstructs
  <2> QED BY <1>3, <2>2
<1>10. o = Reconstructed(c)
  <2> HIDE DEF c
  <2>1. Reconstructed(c) = [from |-> IF Before(c) = {} THEN c.from ELSE Largest(Before(c)),
                            to |-> IF After(c) = {} THEN c.from ELSE Smallest(After(c))]
    BY DEF Reconstructed, Before, After, Topics
  <2> QED BY <1>3, <1>9, <2>1
<1>11. IsMaterial(c)
  <2> HIDE DEF c
  <2>1. Reconstructed(c).from \in Nat /\ Reconstructed(c).to \in Nat
    <3>1. Reconstructed(c).from \in 0..now /\ Reconstructed(c).to \in 0..now
      BY <1>1, <1>7, ReconstructedFacts
    <3> QED BY <1>1, <3>1
  <2> QED BY <1>10, <2>1 DEF IsMaterial, Material
<1>12. PICK acc : Audited(acc, Len(records)) /\ Failures = acc.out
  BY <1>1, FailuresAudited
<1>13. PICK j \in 1..i : /\ IsNotice(records[j]) /\ IsMaterial(records[j])
                         /\ Turned(records[j]) \in Failures
                         /\ j = i \/ Touching(records[j], records[i])
  BY <1>2, <1>7, <1>11, <1>12 DEF Audited
<1> DEFINE n == records[j]
<1>14. j \in DOMAIN records /\ n \in ControlRecord /\ n.from \in Nat
  <2>1. j \in DOMAIN records
    BY <1>2
  <2> QED BY <2>1, RecordFacts
<1>15. n.topic = "" /\ Topics(n) = Series
  <2>1. n.topic = c.topic
    BY <1>13 DEF Touching
  <2> QED BY <1>8, <2>1 DEF Topics
<1>16. n.from <= c.from
  <2>1. CASE j = i
    BY <1>7, <2>1
  <2>2. CASE j # i
    <3>1. j < i
      BY <1>2, <2>2
    <3> QED BY <1>7, <1>13, <1>14, <3>1 DEF BreakInv, OrderInv
  <2> QED BY <2>1, <2>2
<1>17. Reconstructed(n) = Reconstructed(c)
  <2>1. CASE j = i
    BY <2>1
  <2>2. CASE j # i
    <3>1. Touching(n, c) /\ IsMaterial(n)
      BY <1>13, <2>2
    <3>2. ASSUME Reconstructed(n).to = Reconstructed(c).from PROVE FALSE
      <4> DEFINE p == Reconstructed(n)
      <4>1. n.from <= now
        BY <1>13, <1>14, RecordFacts DEF IsSound
      <4>2. p.from \in Nat /\ p.to \in Nat
        <5>1. p.from \in 0..now /\ p.to \in 0..now
          BY <1>1, <1>14, <4>1, ReconstructedFacts
        <5> HIDE DEF p
        <5> QED BY <1>1, <5>1
      <4>3. p.to - p.from > Material
        <5>1. ~ (p.to - p.from <= Material)
          BY <3>1 DEF IsMaterial
        <5> HIDE DEF p
        <5> QED BY <4>2, <5>1 DEF Material
      <4> QED BY <1>10, <1>13, <1>14, <1>15, <3>2, <4>3 DEF Flapping
    <3> HIDE DEF n, c
    <3>3. \/ Reconstructed(n) = Reconstructed(c)
          \/ Reconstructed(n).to = Reconstructed(c).from
      BY <1>1, <1>7, <1>8, <1>9, <1>11, <1>14, <1>15, <1>16, <3>1, TouchingIsSame
    <3> QED BY <3>2, <3>3
  <2> QED BY <2>1, <2>2
<1>18. /\ Turned(n).type = n.type /\ Turned(n).placed = n.placed
       /\ Turned(n).rounds = RoundsOver(o.from, o.to)
  <2> HIDE DEF n, c
  <2> QED BY <1>10, <1>14, <1>17, TurnedFields
<1>19. CASE n.placed
  <2>1. Touches(Turned(n), r)
    <3> HIDE DEF n
    <3> QED BY <1>18, <1>19 DEF Touches
  <2>2. n.type # "parse_failure"
    BY <1>13 DEF IsNotice
  <2>3. IsGap(Turned(n))
    BY <1>18, <2>2 DEF IsGap
  <2>4. GapFound(r)
    BY <1>13, <2>1, <2>3 DEF GapFound
  <2> QED BY <2>4 DEF DataValid
<1>20. CASE ~n.placed
  <2>1. ~IsComplete
    BY <1>14, <1>20 DEF IsComplete
  <2> QED BY <2>1 DEF DataValid, ParseFailed
<1> QED BY <1>19, <1>20

LEMMA AreWhole ==
  ASSUME AuditInv, BreakInv
  PROVE  CleanRoundsAreWhole
<1>1. SUFFICES ASSUME counters.dropped = 0, NEW r \in Rounds, Spoiled(r) PROVE ~DataValid(r)
  BY DEF CleanRoundsAreWhole
<1>2. CASE r \in seen.hurt
  BY <1>1, <1>2, HurtIsFound
<1>3. CASE \E o \in Outages : r \in RoundsOver(o.from, o.to) /\ o.to - o.from > Material /\ ~Flapping(o)
  BY <1>1, <1>3, OutageIsFound
<1> QED BY <1>1, <1>2, <1>3 DEF Spoiled

\* The data of a round that something befell is not accepted, if nothing the
\* capture submitted was dropped.
THEOREM CleanAreWhole == Spec => []CleanRoundsAreWhole
BY BreakInvariant, AreWhole, PTL

-----------------------------------------------------------------------------
(***************************************************************************)
(* What is learned.                                                        *)
(***************************************************************************)

\* The label is compared with an observation no update outside the window can
\* hide, and one the projection looks back to (5 s, against 420 s and 600 s).
TolerancesFit == Tolerance <= Lead + 1 /\ Tolerance <= Lookback

LEMMA Products ==
  ASSUME NEW a \in Nat, NEW b \in Nat, NEW p \in Nat
  PROVE  /\ a * p \in Nat /\ (a + b) * p = a * p + b * p
         /\ a <= b => a * p <= b * p
<1>1. a * p \in Nat /\ (a + b) * p = a * p + b * p
  OBVIOUS
<1>2. ASSUME a <= b PROVE a * p <= b * p
  <2>1. PICK d \in Nat : b = a + d
    <3>1. b - a \in Nat /\ b = a + (b - a)
      BY <1>2
    <3> QED BY <3>1
  <2>2. b * p = a * p + d * p /\ a * p \in Nat /\ d * p \in Nat
    BY <2>1
  <2> QED BY <2>2
<1> QED BY <1>1, <1>2

\* Moments of whole intervals.
LEMMA Moments ==
  /\ Parts \in Nat /\ Parts > 0
  /\ \A a \in Nat : Moment(a) \in Nat
  /\ \A a, b \in Nat : a <= b <=> Moment(a) <= Moment(b)
  /\ \A a, b \in Nat : Moment(a + b) = Moment(a) + Moment(b)
<1>1. Parts \in Nat /\ Parts > 0
  BY ProjectionAssumption
<1>2. \A a \in Nat : Moment(a) \in Nat
  BY <1>1, Products DEF Moment
<1>3. \A a, b \in Nat : Moment(a + b) = Moment(a) + Moment(b)
  BY <1>1, Products DEF Moment
<1>4. \A a, b \in Nat : a <= b => Moment(a) <= Moment(b)
  BY <1>1, Products DEF Moment
<1>5. ASSUME NEW a \in Nat, NEW b \in Nat, Moment(a) <= Moment(b), ~ (a <= b)
      PROVE  FALSE
  <2>1. b + 1 \in Nat /\ b + 1 <= a
    BY <1>5
  <2>2. Moment(b + 1) = Moment(b) + Moment(1) /\ Moment(1) = Parts
    BY <1>1, <1>3 DEF Moment
  <2>3. Moment(b + 1) <= Moment(a)
    BY <1>4, <2>1
  <2>4. Moment(a) \in Nat /\ Moment(b) \in Nat
    BY <1>2
  <2> QED BY <1>1, <1>5, <2>2, <2>3, <2>4
<1> QED BY <1>1, <1>2, <1>3, <1>4, <1>5

LEMMA LastByFacts ==
  ASSUME NEW S, S \subseteq Nat, NEW d \in Nat, LastBy(S, d) # None
  PROVE  /\ LastBy(S, d) \in S /\ Moment(LastBy(S, d)) <= d
         /\ \A s \in S : Moment(s) <= d => s <= LastBy(S, d)
<1> DEFINE B == {s \in S : Moment(s) <= d}
<1>1. B # {} /\ LastBy(S, d) = Largest(B)
  BY DEF LastBy
<1>2. B \subseteq Int /\ \A s \in B : s <= d
  <2>1. ASSUME NEW s \in B PROVE s \in Int /\ s <= d
    <3>1. s \in Nat /\ Moment(s) <= d
      OBVIOUS
    <3>2. s * 1 <= s * Parts
      <4>1. 1 <= Parts /\ Parts \in Nat
        BY Moments
      <4>2. 1 * s <= Parts * s
        BY <3>1, <4>1, Products
      <4>3. 1 * s = s * 1 /\ Parts * s = s * Parts
        BY <3>1, <4>1
      <4> QED BY <4>2, <4>3
    <3>3. s <= Moment(s) /\ Moment(s) \in Nat
      BY <3>1, <3>2, Moments DEF Moment
    <3> QED BY <3>1, <3>3
  <2> QED BY <2>1
<1>3. Largest(B) \in B /\ \A s \in B : s <= Largest(B)
  <2>1. d \in Int
    OBVIOUS
  <2>2. B # {}
    BY <1>1
  <2> HIDE DEF B
  <2> QED BY <1>2, <2>1, <2>2, LargestFacts
<1> QED BY <1>1, <1>3

\* An update that could not be read fails the rounds in whose window it is.
LEMMA UnreadFails ==
  ASSUME AuditInv, NEW r \in Rounds, NEW t \in Series, NEW s \in kept[t] \ heard[t],
         RequiredStart(r) <= s, s <= RequiredEnd(r)
  PROVE  ~DataValid(r)
<1>1. PICK i \in DOMAIN records : records[i] = FailureRecord(s)
  BY DEF AuditInv, RecordInv
<1>2. FeedShape /\ LogShape /\ now \in Nat
  BY Fields
<1>3. s \in Nat
  <2>1. kept[t] \subseteq 1..now
    BY <1>2 DEF FeedShape
  <2> QED BY <1>2, <2>1
<1>4. /\ FailureRecord(s).type = "parse_failure" /\ FailureRecord(s).placed
      /\ r \in FailureRecord(s).rounds
  <2>1. r \in RoundsOver(s, s)
    BY <1>3, RoundTimes DEF RoundsOver
  <2> QED BY <1>3, <2>1, FailureRecordType
<1>5. PICK acc : Audited(acc, Len(records)) /\ Failures = acc.out
  BY <1>2, FailuresAudited
<1>6. DOMAIN records = 1..Len(records)
  BY <1>2 DEF LogShape
<1>7. FailureRecord(s) \in Failures
  <2>1. ~IsNotice(FailureRecord(s))
    BY <1>4 DEF IsNotice
  <2> QED BY <1>1, <1>5, <1>6, <2>1 DEF Audited
<1>8. ParseFailed(r)
  BY <1>4, <1>7 DEF ParseFailed, Touches, IsGap
<1> QED BY <1>8 DEF DataValid

\* A round that is learned from: its row is that of the capture, and its
\* opening value is one the capture read and the store has.
LEMMA IncludedFacts ==
  ASSUME AuditInv, NEW r \in Included
  PROVE  /\ r \in Rounds /\ DataValid(r) /\ world.text[r] # "contradicts"
         /\ ProjectedLabel(r) = world.outcome[r]
         /\ StartPick(r) # None /\ StartPick(r) \in kept[Settling]
         /\ Start(r) - StartPick(r) <= Tolerance
         /\ rows[r].start = world.price[StartPick(r)]
<1>1. r \in Rounds /\ LabelValid(r) /\ DataValid(r) /\ ProjectedLabel(r) # "none"
  BY DEF Included, EligibleRounds, Eligible, Gates
<1>2. world.text[r] # "contradicts"
  <2>1. RuleText(r) \in {"VERIFIED_TRUE", "SOURCE_TEXT_UNAVAILABLE"}
    BY <1>1 DEF LabelValid
  <2> QED BY <2>1 DEF RuleText
<1>3. /\ rows[r].reported # "none" /\ rows[r].declared # "none"
      /\ rows[r].declared = rows[r].reported /\ ProjectedLabel(r) = rows[r].declared
      /\ labels[r] # NoLabel => labels[r].status = "CONFIRMED"
  BY <1>1 DEF ProjectedLabel
<1>4. RowIsSound(r) /\ LabelIsSound(r)
  BY <1>1 DEF AuditInv, RowInv
<1>5. ProjectedLabel(r) = world.outcome[r]
  BY <1>3, <1>4 DEF RowIsSound
<1>6. r \notin seen.rewritten
  BY <1>3, <1>4 DEF LabelIsSound
<1>7. rows[r].metrics[2] = 0
  BY <1>1 DEF DataValid
<1> QED BY <1>1, <1>2, <1>3, <1>4, <1>5, <1>6, <1>7 DEF RowIsSound

\* Between the observation a label is compared with and the end of the round
\* the projection sees what the capture read.
LEMMA ObservedAfterPick ==
  ASSUME AuditInv, TolerancesFit, NEW r \in Included, NEW s \in Observations,
         StartPick(r) <= s, s <= End(r)
  PROVE  s \in heard[Settling]
<1>1. SUFFICES ASSUME s \notin heard[Settling] PROVE FALSE
  OBVIOUS
<1>2. FeedShape /\ now \in Nat /\ Settling \in Series
  BY Fields, Constants
<1>3. /\ r \in Rounds /\ DataValid(r) /\ StartPick(r) # None
      /\ Start(r) - StartPick(r) <= Tolerance
  BY IncludedFacts
<1>4. heard[Settling] \subseteq Nat /\ kept[Settling] \subseteq Nat
  <2>1. heard[Settling] \subseteq 1..now /\ kept[Settling] \subseteq 1..now
    BY <1>2 DEF FeedShape
  <2>2. 1..now \subseteq Nat
    BY <1>2
  <2> QED BY <2>1, <2>2
<1>5. /\ Start(r) \in Nat /\ End(r) \in Nat /\ RequiredStart(r) = Start(r) - Lead
      /\ RequiredEnd(r) = End(r) + Trail
  BY <1>3, RoundTimes
<1>6. StartPick(r) \in heard[Settling]
  BY <1>3, <1>4, <1>5, PickBeforeFacts DEF StartPick
<1>7. s \in kept[Settling] \ heard[Settling]
  BY <1>1 DEF Observations
<1>8. RequiredStart(r) <= s /\ s <= RequiredEnd(r)
  <2> DEFINE h == StartPick(r)
             a == Start(r)
             z == End(r)
  <2>1. h \in Nat /\ s \in Nat /\ h # s /\ h <= s /\ a - h <= Tolerance /\ s <= z
    BY <1>3, <1>4, <1>6, <1>7
  <2>2. a \in Nat /\ z \in Nat
    BY <1>5
  <2> HIDE DEF h, a, z
  <2>3. a - Lead <= s /\ s <= z + Trail
    BY <2>1, <2>2, Constants DEF TolerancesFit
  <2> QED BY <1>5, <2>3 DEF a, z
<1> QED BY <1>2, <1>3, <1>7, <1>8, UnreadFails

\* The values of an example.
LEMMA ExampleFacts ==
  ASSUME AuditInv, TolerancesFit, NEW r \in Included, NEW t \in ValidPoints(r)
  PROVE  /\ P0[r] = rows[r].start
         /\ LastBy(Spots(r), DecisionAt(r, t)) \in heard[Spot]
         /\ LastBy(Twaps(r), DecisionAt(r, t)) \in heard[Settling]
<1>1. FeedShape /\ now \in Nat /\ Settling \in Series /\ Spot \in Series
  BY Fields, Constants, ProjectionAssumption
<1>2. \A u \in Series : heard[u] \subseteq Nat /\ kept[u] \subseteq Nat
  <2>1. \A u \in Series : heard[u] \subseteq 1..now /\ kept[u] \subseteq 1..now
    BY <1>1 DEF FeedShape
  <2>2. 1..now \subseteq Nat
    BY <1>1
  <2> QED BY <2>1, <2>2
<1>3. /\ r \in Rounds /\ StartPick(r) # None /\ StartPick(r) \in kept[Settling]
      /\ Start(r) - StartPick(r) <= Tolerance /\ rows[r].start = world.price[StartPick(r)]
  BY IncludedFacts
<1>4. /\ Start(r) \in Nat /\ End(r) \in Nat /\ End(r) = Start(r) + Length /\ Start(r) <= End(r)
      /\ Length \in Nat
  BY <1>3, RoundTimes, Constants
<1>5. /\ StartPick(r) \in heard[Settling] /\ StartPick(r) <= Start(r)
      /\ \A s \in heard[Settling] : s <= Start(r) => s <= StartPick(r)
  <2>1. Start(r) \in Int /\ heard[Settling] \subseteq Nat
    BY <1>1, <1>2, <1>4
  <2> QED BY <1>3, <2>1, PickBeforeFacts DEF StartPick
<1> DEFINE h == StartPick(r)
<1>6. h \in Nat /\ h \in Observations
  BY <1>1, <1>2, <1>3, <1>5 DEF Observations
<1>7. Observations \subseteq Nat
  BY <1>1, <1>2 DEF Observations
<1>8. P0[r] = rows[r].start
  <2> DEFINE o == PickBefore(Observations, Start(r))
  <2>1. /\ o = None => \A s \in Observations : ~ (s <= Start(r))
        /\ o # None => /\ o \in Observations /\ o <= Start(r)
                       /\ \A s \in Observations : s <= Start(r) => s <= o
    <3>1. Start(r) \in Int
      BY <1>4
    <3> QED BY <1>7, <3>1, PickBeforeFacts
  <2>2. o # None /\ h <= o /\ o \in Observations /\ o <= Start(r)
    BY <1>5, <1>6, <2>1
  <2>3. o \in Nat /\ o <= End(r)
    <3>1. o \in Nat /\ o <= Start(r)
      BY <1>7, <2>2
    <3> HIDE DEF o
    <3> QED BY <1>4, <3>1
  <2>4. o \in heard[Settling]
    BY <2>2, <2>3, ObservedAfterPick
  <2>5. o <= h
    BY <1>5, <2>2, <2>4
  <2>6. o = h
    <3> HIDE DEF o, h
    <3> QED BY <1>6, <2>2, <2>3, <2>5
  <2>7. P0[r] = IF o = None THEN None ELSE world.price[o]
    BY <1>3 DEF P0, OpenPick
  <2> HIDE DEF o
  <2> QED BY <1>3, <2>2, <2>6, <2>7
<1>9. t \in Grid /\ t \in Nat /\ t <= Length * Parts
  <2>1. t \in Grid
    BY DEF ValidPoints
  <2>2. t \in 0..(Length * Parts)
    BY <2>1, TrainingAssumption
  <2>3. Length * Parts \in Nat
    BY <1>4, Moments DEF Moment
  <2> QED BY <2>1, <2>2, <2>3
<1> DEFINE d == DecisionAt(r, t)
<1>10. d \in Nat /\ Moment(Start(r)) <= d /\ d <= Moment(End(r))
  <2>1. /\ Moment(Start(r)) \in Nat /\ Moment(Length) = Length * Parts /\ Moment(Length) \in Nat
        /\ Moment(End(r)) = Moment(Start(r)) + Moment(Length)
    BY <1>4, Moments DEF Moment
  <2> QED BY <1>9, <2>1 DEF DecisionAt
<1>11. LastBy(Spots(r), d) # None /\ LastBy(Twaps(r), d) # None
  <2>1. Validity(r, d) = "valid"
    BY DEF ValidPoints
  <2> QED BY <2>1 DEF Validity
<1>12. LastBy(Spots(r), d) \in heard[Spot]
  <2>1. Spots(r) \subseteq heard[Spot] /\ Spots(r) \subseteq Nat
    BY <1>1, <1>2 DEF Spots
  <2> HIDE DEF d
  <2> QED BY <1>10, <1>11, <2>1, LastByFacts
<1>13. LastBy(Twaps(r), d) \in heard[Settling]
  <2> DEFINE w == LastBy(Twaps(r), d)
  <2>1. Twaps(r) \subseteq Observations /\ Twaps(r) \subseteq Nat
    BY <1>7 DEF Twaps
  <2>2. w \in Twaps(r) /\ Moment(w) <= d /\ \A s \in Twaps(r) : Moment(s) <= d => s <= w
    <3> HIDE DEF d
    <3> QED BY <1>10, <1>11, <2>1, LastByFacts
  <2>3. h \in Twaps(r)
    <3>1. Start(r) - Lookback <= h /\ h <= End(r) + Trailing
      <4> DEFINE a == Start(r)
                 z == End(r)
      <4>1. a \in Nat /\ z \in Nat /\ a <= z /\ h <= a /\ a - h <= Tolerance
        BY <1>3, <1>4, <1>5
      <4>2. Tolerance \in Nat /\ Lookback \in Nat /\ Trailing \in Nat /\ Tolerance <= Lookback
        BY Constants, ProjectionAssumption DEF TolerancesFit
      <4> HIDE DEF a, z, h
      <4>3. a - Lookback <= h /\ h <= z + Trailing
        BY <1>6, <4>1, <4>2
      <4> QED BY <4>3 DEF a, z
    <3> QED BY <1>6, <3>1 DEF Twaps, InLookback
  <2>4. Moment(h) <= d
    <3>1. Moment(h) <= Moment(Start(r)) /\ Moment(h) \in Nat /\ Moment(Start(r)) \in Nat
      BY <1>4, <1>5, <1>6, Moments
    <3> HIDE DEF d, h
    <3> QED BY <1>10, <3>1
  <2>5. h <= w /\ w \in Observations /\ w \in Nat
    BY <2>1, <2>2, <2>3, <2>4
  <2>6. w <= End(r)
    <3>1. Moment(w) \in Nat /\ Moment(End(r)) \in Nat
      BY <1>4, <2>5, Moments
    <3>2. Moment(w) <= Moment(End(r))
      <4> HIDE DEF d, w
      <4> QED BY <1>10, <2>2, <3>1
    <3> QED BY <1>4, <2>5, <3>2, Moments
  <2> HIDE DEF w
  <2>7. w \in heard[Settling]
    BY <2>5, <2>6, ObservedAfterPick
  <2> QED BY <2>7 DEF w
<1> QED BY <1>8, <1>12, <1>13

\* A share of a number in hundredths, and two of them.
LEMMA Share ==
  ASSUME NEW x \in Nat
  PROVE  x \div 100 \in Nat /\ 100 * (x \div 100) <= x
<1>1. x = 100 * (x \div 100) + (x % 100)
      /\ x \div 100 \in Int /\ x % 100 \in 0..99
  OBVIOUS
<1> DEFINE q == x \div 100
           m == x % 100
<1>2. x = 100 * q + m /\ q \in Int /\ m \in Nat /\ m <= 99
  BY <1>1
<1> HIDE DEF q, m
<1>3. q \in Nat /\ 100 * q <= x
  BY <1>2
<1> QED BY <1>3 DEF q

LEMMA Shares ==
  ASSUME NEW n \in Nat
  PROVE  /\ (n * TrainPercent) \div 100 \in Nat /\ (n * CalibratePercent) \div 100 \in Nat
         /\ (n * TrainPercent) \div 100 + (n * CalibratePercent) \div 100 <= n
<1> DEFINE x == n * TrainPercent
           y == n * CalibratePercent
           p == x \div 100
           q == y \div 100
<1>1. /\ TrainPercent \in Nat /\ CalibratePercent \in Nat /\ TrainPercent + CalibratePercent <= 100
  BY TrainingAssumption
<1>2. x \in Nat /\ y \in Nat /\ x + y <= 100 * n
  <2>1. /\ TrainPercent * n \in Nat /\ CalibratePercent * n \in Nat
        /\ (TrainPercent + CalibratePercent) * n = TrainPercent * n + CalibratePercent * n
    BY <1>1, Products
  <2>2. (TrainPercent + CalibratePercent) * n <= 100 * n
    <3>1. TrainPercent + CalibratePercent \in Nat /\ 100 \in Nat
      BY <1>1
    <3> QED BY <1>1, <3>1, Products
  <2>3. x = TrainPercent * n /\ y = CalibratePercent * n
    BY <1>1
  <2> QED BY <2>1, <2>2, <2>3
<1>3. p \in Nat /\ q \in Nat /\ 100 * p <= x /\ 100 * q <= y
  <2> HIDE DEF x, y
  <2> QED BY <1>2, Share
<1>4. p + q <= n
  <2> HIDE DEF x, y, p, q
  <2> QED BY <1>2, <1>3
<1> QED BY <1>3, <1>4

\* When the examples of a round are.
LEMMA WhenDecided ==
  ASSUME NEW e \in Examples
  PROVE  /\ e.round \in Included /\ e.at \in Nat
         /\ Moment(Start(e.round)) < e.at /\ e.at <= Moment(End(e.round))
<1>1. PICK r \in Included : e \in ExamplesOf(r)
  BY DEF Examples
<1>2. PICK t \in ValidPoints(r) : e.round = r /\ e.at = DecisionAt(r, t)
  BY <1>1 DEF ExamplesOf
<1>3. r \in Rounds
  BY DEF Included, EligibleRounds
<1>4. t > 0 /\ t \in Nat /\ t <= Moment(Length) /\ Moment(Length) \in Nat
  <2>1. t \in Grid /\ t > 0
    BY DEF ValidPoints
  <2>2. t \in 0..(Length * Parts)
    BY <2>1, TrainingAssumption
  <2>3. Moment(Length) = Length * Parts /\ Moment(Length) \in Nat
    BY Moments, Constants DEF Moment
  <2> QED BY <2>1, <2>2, <2>3
<1>5. /\ Moment(Start(r)) \in Nat /\ Moment(End(r)) = Moment(Start(r)) + Moment(Length)
  BY <1>3, RoundTimes, Constants, Moments
<1>6. DecisionAt(r, t) = Moment(Start(r)) + t
  BY DEF DecisionAt
<1> DEFINE a == Moment(Start(r))
           z == Moment(End(r))
           l == Moment(Length)
           d == DecisionAt(r, t)
<1>7. a \in Nat /\ l \in Nat /\ z = a + l /\ d = a + t /\ t \in Nat /\ t > 0 /\ t <= l
  BY <1>4, <1>5, <1>6
<1> HIDE DEF a, z, l, d
<1>8. d \in Nat /\ a < d /\ d <= z
  BY <1>7
<1> QED BY <1>2, <1>8 DEF a, z, d

\* Of two rounds the later one starts when the earlier is over.
LEMMA RoundsApart ==
  ASSUME NEW r \in Rounds, NEW q \in Rounds, r < q
  PROVE  End(r) <= Start(q)
<1>1. /\ r \in Nat /\ q \in Nat /\ r - 1 \in Nat /\ q - 1 \in Nat /\ r <= q - 1
  BY Constants DEF Rounds
<1>2. r * Length <= (q - 1) * Length
  BY <1>1, Constants, Products
<1>3. r * Length = (r - 1) * Length + Length /\ (r - 1) * Length \in Nat /\ (q - 1) * Length \in Nat
  <2>1. ((r - 1) + 1) * Length = (r - 1) * Length + 1 * Length /\ (r - 1) * Length \in Nat
        /\ (q - 1) * Length \in Nat
    BY <1>1, Constants, Products
  <2> QED BY <1>1, <2>1, Constants
<1> QED BY <1>2, <1>3, Constants DEF Start, End

\* What is trained on is over before any of the rest begins.
LEMMA SplitsInTime ==
  ASSUME AuditInv, NEW E, E = Examples,
         NEW e \in Split(E).train, NEW f \in Split(E).calibrate \cup Split(E).test
  PROVE  DecisionAt(e.round, Length * Parts) <= DecisionAt(f.round, 0)
<1> DEFINE firstOf(r) == Smallest({x.at : x \in {y \in E : y.round = r}})
           rounds == {x.round : x \in E}
           less == {w \in rounds \X rounds : firstOf(w[1]) < firstOf(w[2])}
           order == InOrder(rounds, less)
           n == Cardinality(rounds)
           nTrain == (n * TrainPercent) \div 100
           nCal == (n * CalibratePercent) \div 100
<1>1. rounds \subseteq Rounds /\ IsFiniteSet(rounds) /\ n \in Nat
  <2>1. rounds \subseteq Rounds
    BY WhenDecided DEF Included, EligibleRounds
  <2>2. IsFiniteSet(Rounds)
    BY Constants, FS_Interval DEF Rounds
  <2> HIDE DEF rounds
  <2> QED BY <2>1, <2>2, FS_Subset, FS_CardinalityType
<1>2. ASSUME NEW r \in rounds
      PROVE  firstOf(r) \in Nat /\ Moment(Start(r)) < firstOf(r) /\ firstOf(r) <= Moment(End(r))
  <2> DEFINE A == {x.at : x \in {y \in E : y.round = r}}
  <2>1. A # {} /\ \A a \in A : a \in Nat /\ Moment(Start(r)) < a /\ a <= Moment(End(r))
    BY WhenDecided
  <2>2. Smallest(A) \in A
    <3> HIDE DEF A
    <3>1. \A a \in A : a \in Int /\ 0 <= a
      BY <2>1
    <3>2. A \subseteq Int /\ A # {} /\ 0 \in Int
      BY <2>1, <3>1
    <3> QED BY <3>1, <3>2, SmallestFacts
  <2> HIDE DEF A
  <2>3. Smallest(A) \in Nat /\ Moment(Start(r)) < Smallest(A) /\ Smallest(A) <= Moment(End(r))
    BY <2>1, <2>2
  <2> QED BY <2>3 DEF A
<1> HIDE DEF firstOf
<1>3. ASSUME NEW r \in rounds, NEW q \in rounds, r < q
      PROVE  firstOf(r) < firstOf(q)
  <2>1. Moment(End(r)) <= Moment(Start(q)) /\ Moment(End(r)) \in Nat /\ Moment(Start(q)) \in Nat
    <3>1. End(r) \in Nat /\ Start(q) \in Nat /\ End(r) <= Start(q)
      BY <1>1, <1>3, RoundsApart, RoundTimes
    <3> QED BY <3>1, Moments
  <2>2. firstOf(r) \in Nat /\ firstOf(q) \in Nat
        /\ firstOf(r) <= Moment(End(r)) /\ Moment(Start(q)) < firstOf(q)
    BY <1>2
  <2> QED BY <2>1, <2>2
<1>4. \A r, q \in rounds : <<r, q>> \in less <=> r < q
  <2> TAKE r, q \in rounds
  <2>1. r \in Nat /\ q \in Nat
    BY <1>1, Constants DEF Rounds
  <2>2. firstOf(r) \in Nat /\ firstOf(q) \in Nat
    BY <1>2
  <2>3. <<r, q>> \in less <=> firstOf(r) < firstOf(q)
    <3> HIDE DEF rounds
    <3> QED OBVIOUS
  <2>4. r < q => firstOf(r) < firstOf(q)
    BY <1>3
  <2>5. q < r => firstOf(q) < firstOf(r)
    BY <1>3
  <2> HIDE DEF less, rounds
  <2> QED BY <2>1, <2>2, <2>3, <2>4, <2>5
<1> HIDE DEF rounds, less
<1>5. IsStrictOrder(rounds, less)
  <2>1. \A r \in rounds : r \in Nat
    BY <1>1, Constants DEF Rounds
  <2>2. \A x \in rounds : ~ (x < x)
    BY <2>1
  <2>3. \A x, y, z \in rounds : x < y /\ y < z => x < z
    BY <2>1
  <2>4. \A x, y \in rounds : x = y \/ x < y \/ y < x
    BY <2>1
  <2> QED BY <1>4, <2>2, <2>3, <2>4 DEF IsStrictOrder
<1>6. /\ order \in [1..n -> rounds]
      /\ \A k, m \in 1..n : k < m <=> <<order[k], order[m]>> \in less
  BY <1>1, <1>5, InOrderSorts
<1>7. nTrain \in Nat /\ nCal \in Nat /\ nTrain + nCal <= n
  <2> HIDE DEF n
  <2> QED BY <1>1, Shares
<1>8. /\ \E k \in 1..nTrain : order[k] = e.round
      /\ \E m \in (nTrain + 1)..n : order[m] = f.round
  <2>1. Split(E) = [train |-> {x \in E : \E k \in 1..nTrain : order[k] = x.round},
                    calibrate |-> {x \in E : \E k \in (nTrain + 1)..(nTrain + nCal) : order[k] = x.round},
                    test |-> {x \in E : \E k \in (nTrain + nCal + 1)..n : order[k] = x.round}]
    BY DEF Split, firstOf, rounds, less
  <2> HIDE DEF order, n, nTrain, nCal
  <2>2. \E k \in 1..nTrain : order[k] = e.round
    BY <2>1
  <2>3. \/ \E m \in (nTrain + 1)..(nTrain + nCal) : order[m] = f.round
        \/ \E m \in (nTrain + nCal + 1)..n : order[m] = f.round
    BY <2>1
  <2>4. /\ \A m \in (nTrain + 1)..(nTrain + nCal) : m \in (nTrain + 1)..n
        /\ \A m \in (nTrain + nCal + 1)..n : m \in (nTrain + 1)..n
    BY <1>1, <1>7
  <2> QED BY <2>2, <2>3, <2>4
<1>9. PICK k \in 1..nTrain, m \in (nTrain + 1)..n : order[k] = e.round /\ order[m] = f.round
  BY <1>8
<1> HIDE DEF order, n, nTrain, nCal
<1>10. k \in 1..n /\ m \in 1..n /\ k < m
  BY <1>1, <1>7
<1>11. e.round \in rounds /\ f.round \in rounds /\ e.round < f.round
  BY <1>4, <1>6, <1>9, <1>10
<1> DEFINE r == e.round
           q == f.round
<1>12. r \in Rounds /\ q \in Rounds /\ r < q
  BY <1>1, <1>11
<1> HIDE DEF r, q
<1>13. Moment(End(r)) <= Moment(Start(q))
  <2>1. End(r) \in Nat /\ Start(q) \in Nat /\ End(r) <= Start(q)
    BY <1>12, RoundsApart, RoundTimes
  <2> QED BY <2>1, Moments
<1>14. /\ DecisionAt(r, Length * Parts) = Moment(End(r))
       /\ DecisionAt(q, 0) = Moment(Start(q))
  <2>1. Moment(End(r)) = Moment(Start(r)) + Moment(Length) /\ Moment(Length) = Length * Parts
    BY <1>12, RoundTimes, Constants, Moments DEF Moment
  <2>2. Moment(Start(q)) \in Nat
    BY <1>12, RoundTimes, Moments
  <2> QED BY <2>1, <2>2 DEF DecisionAt
<1> QED BY <1>13, <1>14 DEF r, q

LEMMA SoundExamples ==
  ASSUME AuditInv, TolerancesFit
  PROVE  ExamplesAreSound
<1> DEFINE E == Examples
<1>1. ASSUME NEW e \in E
      PROVE  /\ world.text[e.round] # "contradicts"
             /\ e.y = world.outcome[e.round]
             /\ e.p0 = rows[e.round].start
             /\ e.spot \in heard[Spot] /\ e.twap \in heard[Settling]
  <2>1. PICK r \in Included : e \in ExamplesOf(r)
    BY DEF Examples
  <2>2. PICK t \in ValidPoints(r) :
          /\ e.round = r /\ e.y = ProjectedLabel(r) /\ e.p0 = P0[r]
          /\ e.spot = LastBy(Spots(r), DecisionAt(r, t))
          /\ e.twap = LastBy(Twaps(r), DecisionAt(r, t))
    BY <2>1 DEF ExamplesOf
  <2>3. world.text[r] # "contradicts" /\ ProjectedLabel(r) = world.outcome[r]
    BY IncludedFacts
  <2>4. /\ P0[r] = rows[r].start
        /\ LastBy(Spots(r), DecisionAt(r, t)) \in heard[Spot]
        /\ LastBy(Twaps(r), DecisionAt(r, t)) \in heard[Settling]
    BY ExampleFacts
  <2> QED BY <2>2, <2>3, <2>4
<1>2. \A e \in Split(E).train, f \in Split(E).calibrate \cup Split(E).test :
         DecisionAt(e.round, Length * Parts) <= DecisionAt(f.round, 0)
  BY SplitsInTime
<1> HIDE DEF E
<1> QED BY <1>1, <1>2 DEF ExamplesAreSound, E

\* What is learned is the outcome the venue resolved to, against the
\* observation the label was compared with and values the capture could
\* read; and what it is tested on comes after all it was trained on.
THEOREM LearnedIsSound ==
  ASSUME TolerancesFit
  PROVE  Spec => []ExamplesAreSound
<1>1. AuditInv => ExamplesAreSound
  BY SoundExamples
<1> QED BY <1>1, AuditInvariant, PTL

=============================================================================
