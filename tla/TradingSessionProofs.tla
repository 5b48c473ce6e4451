------------------------ MODULE TradingSessionProofs ------------------------
(***************************************************************************)
(* Theorems about the trading session.  What its actions do to the books   *)
(* takes three forms only, Ends, Submits and Executes, apart from a        *)
(* repricing; the invariants and the refinement of RiskLedger are proved   *)
(* about these forms.  Before them comes what the risk gate guarantees,    *)
(* what a walk of the book costs, and that every taker the controller may  *)
(* propose keeps the hard limits by itself, whatever it executes at.       *)
(***************************************************************************)
EXTENDS TradingSession, TotalsProofs, SequenceTheorems

-----------------------------------------------------------------------------
(***************************************************************************)
(* The constants, and products of naturals.                                *)
(***************************************************************************)

\* The types of the constants of the risk gate.
LEMMA Constants ==
  /\ Payout \in Nat /\ Payout > 0
  /\ MaxOrders \in Nat /\ ExactSubsetCap \in Nat /\ GMin \in Int
  /\ SpendCap \in Nat /\ PositionLimit \in Nat
  BY PriceAssumption, RiskAssumption

\* Constants of the session.
LEMMA SessionConstants ==
  /\ \A asks \in Ladders : asks \in Seq(Level) /\ Ascending(asks)
  /\ MakerHorizon \in Nat /\ MinActionInterval \in Nat /\ MaxTime \in Nat
  /\ \A s \in Setups : /\ s.opening \in Portfolio /\ s.delay \in Nat
                       /\ s.isReal \in BOOLEAN /\ s.isDynamic \in BOOLEAN
                       /\ s.caller \in {"runner", "live"}
  BY SessionAssumption DEF Setup

\* The fields of a portfolio.
LEMMA PortfolioFields ==
  ASSUME NEW p \in Portfolio
  PROVE  p.U \in Nat /\ p.D \in Nat /\ p.C \in Nat
  BY DEF Portfolio

\* Prices are naturals, and so is what a share costs at each.
LEMMA PriceFacts ==
  ASSUME NEW p \in Prices
  PROVE  /\ p \in Nat /\ 1 <= p /\ p <= Payout
         /\ UnitCost[p] \in Nat /\ p <= UnitCost[p] /\ UnitCost[p] <= Payout
  BY PriceAssumption

\* Products of naturals.
LEMMA Times ==
  ASSUME NEW a \in Nat, NEW b \in Nat, NEW c \in Nat
  PROVE  /\ a * b \in Nat
         /\ (a + b) * c = a * c + b * c
         /\ b <= c => a * b <= a * c /\ b * a <= c * a
<1>1. a * b \in Nat
  OBVIOUS
<1>2. (a + b) * c = a * c + b * c
  OBVIOUS
<1>3. ASSUME b <= c PROVE a * b <= a * c /\ b * a <= c * a
  <2>1. c - b \in Nat /\ c = b + (c - b)
    BY <1>3
  <2>2. PICK d \in Nat : c = b + d
    BY <2>1
  <2>3. a * (b + d) = a * b + a * d /\ (b + d) * a = b * a + d * a
    OBVIOUS
  <2>4. a * d \in Nat /\ d * a \in Nat /\ a * b \in Nat /\ b * a \in Nat
    OBVIOUS
  <2>5. a * c = a * b + a * d /\ c * a = b * a + d * a
    BY <2>2, <2>3
  <2> QED BY <2>4, <2>5
<1> QED
  BY <1>1, <1>2, <1>3

-----------------------------------------------------------------------------
(***************************************************************************)
(* The risk gate.  A session meets the assumptions of RiskLedger, so what  *)
(* is proved of the gate there, for every portfolio and every exposures,   *)
(* holds of the session's own operators.                                   *)
(***************************************************************************)

Promise ==
  INSTANCE RiskLedgerProofs WITH
    ex <- Exposures(order, Active),
    base <- setup.opening,
    Openings <- {s.opening : s \in Setups},
    Offers <- SessionOffers

\* A session offers orders that bring and cost something.
LEMMA OffersArePositive ==
  ASSUME NEW e \in SessionOffers
  PROVE  e \in Exposure /\ e.qty > 0 /\ e.cost > 0
<1>1. /\ e.side \in Sides /\ e.qty \in MinShares..PositionLimit
      /\ \E q \in MinShares..PositionLimit,
            c \in Prices \cup {UnitCost[p] : p \in Prices} : e.cost = q * c
      /\ e = [side |-> e.side, qty |-> e.qty, cost |-> e.cost]
  BY DEF SessionOffers
<1>2. PICK q \in MinShares..PositionLimit,
           c \in Prices \cup {UnitCost[p] : p \in Prices} : e.cost = q * c
  BY <1>1
<1>3. /\ MinShares \in Nat /\ MinShares > 0 /\ PositionLimit \in Nat
      /\ e.qty \in Nat /\ e.qty > 0 /\ q \in Nat /\ q > 0 /\ 1 \in Nat
  BY <1>1, CandidateAssumption, Constants
<1>4. c \in Nat /\ 1 <= c
  <2>1. CASE c \in Prices
    BY <2>1, PriceFacts
  <2>2. CASE c \in {UnitCost[p] : p \in Prices}
    <3>1. PICK p \in Prices : c = UnitCost[p]
      BY <2>2
    <3> QED BY <3>1, PriceFacts
  <2> QED BY <2>1, <2>2
<1>5. q * c \in Nat /\ q * 1 <= q * c /\ q * 1 = q
  BY <1>3, <1>4, Times
<1>6. e.cost \in Nat /\ e.cost > 0
  BY <1>2, <1>3, <1>5
<1> QED
  BY <1>1, <1>3, <1>6 DEF Exposure

\* The ledger's assumptions hold of a session's constants.
LEMMA PromiseAssumptions ==
  Promise!PriceAssumption /\ Promise!RiskAssumption /\ Promise!OfferAssumption
<1>1. Promise!PriceAssumption
  BY PriceAssumption DEF Promise!PriceAssumption
<1>2. Promise!RiskAssumption
  BY RiskAssumption DEF Promise!RiskAssumption
<1>3. Promise!Exposure = Exposure /\ Promise!Portfolio = Portfolio
  BY DEF Promise!Exposure, Exposure, Promise!Sides, Sides, Promise!Portfolio, Portfolio
<1>4. SessionOffers \subseteq {e \in Exposure : e.qty > 0 /\ e.cost > 0}
  BY OffersArePositive
<1>5. {s.opening : s \in Setups} \subseteq Portfolio
  BY SessionConstants
<1>6. Promise!OfferAssumption
  BY <1>3, <1>4, <1>5 DEF Promise!OfferAssumption
<1> QED
  BY <1>1, <1>2, <1>6

\* Sums, margins and fills of the gate are those of the session.
LEMMA GateSums ==
  /\ \A a, b : Promise!Lesser(a, b) = Lesser(a, b)
  /\ \A e, S, side : Promise!SharesOn(e, S, side) = SharesOn(e, S, side)
  /\ \A e, S : Promise!CostOf(e, S) = CostOf(e, S)
  /\ \A p : Promise!G(p) = G(p)
  /\ \A p, e, S : Promise!ScenarioG(p, e, S) = ScenarioG(p, e, S)
  /\ \A p, side, x, paid : Promise!ApplyFill(p, side, x, paid) = ApplyFill(p, side, x, paid)
  /\ \A e, x : Promise!Affordable(e, x) = Affordable(e, x)
  /\ Promise!OrderIds = OrderIds /\ Promise!Exposure = Exposure
  /\ Promise!Portfolio = Portfolio
<1>1. \A f, n : Promise!PartialSums(f, n) = PartialSums(f, n)
  BY DEF Promise!PartialSums, PartialSums
<1>2. \A f, n : Promise!Total(f, n) = Total(f, n)
  BY <1>1 DEF Promise!Total, Total
<1>3. \A a, b : Promise!Lesser(a, b) = Lesser(a, b)
  BY DEF Promise!Lesser, Lesser
<1>4. \A e, S, side : Promise!ShareTerms(e, S, side) = ShareTerms(e, S, side)
  BY DEF Promise!ShareTerms, ShareTerms, Promise!OrderIds, OrderIds
<1>5. \A e, S : Promise!CostTerms(e, S) = CostTerms(e, S)
  BY DEF Promise!CostTerms, CostTerms, Promise!OrderIds, OrderIds
<1>6. \A e, S, side : Promise!SharesOn(e, S, side) = SharesOn(e, S, side)
  BY <1>2, <1>4 DEF Promise!SharesOn, SharesOn
<1>7. \A e, S : Promise!CostOf(e, S) = CostOf(e, S)
  BY <1>2, <1>5 DEF Promise!CostOf, CostOf
<1>8. \A p : Promise!G(p) = G(p)
  BY <1>3 DEF Promise!G, G
<1>9. \A p, e, S : Promise!ScenarioG(p, e, S) = ScenarioG(p, e, S)
  BY <1>3, <1>6, <1>7 DEF Promise!ScenarioG, ScenarioG
<1>10. \A p, side, x, paid : Promise!ApplyFill(p, side, x, paid) = ApplyFill(p, side, x, paid)
  BY DEF Promise!ApplyFill, ApplyFill
<1>11. \A e, x : Promise!Affordable(e, x) = Affordable(e, x)
  BY <1>3 DEF Promise!Affordable, Affordable
<1>12. /\ Promise!OrderIds = OrderIds /\ Promise!Exposure = Exposure
       /\ Promise!Portfolio = Portfolio
  BY DEF Promise!OrderIds, OrderIds, Promise!Exposure, Exposure, Promise!Sides, Sides,
         Promise!Portfolio, Portfolio
<1> QED
  BY <1>3, <1>6, <1>7, <1>8, <1>9, <1>10, <1>11, <1>12

\* So are its worst case and its admission rule.
LEMMA GateAdmits ==
  /\ \A p, e, A : Promise!WorstCaseG(p, e, A) = WorstCaseG(p, e, A)
  /\ \A p, e, A, k, isRecovery :
       Promise!Admits(p, e, A, k, isRecovery) <=> Admits(p, e, A, k, isRecovery)
<1>1. \A S : Promise!Cardinality(S) = Cardinality(S)
  BY DEF Promise!Cardinality, Cardinality
<1>2. \A S : Promise!Least(S) = Least(S)
  BY DEF Promise!Least, Least
<1>3. \A p, e, A : Promise!ConservativeG(p, e, A) = ConservativeG(p, e, A)
  BY GateSums DEF Promise!ConservativeG, ConservativeG
<1>4. ASSUME NEW p, NEW e, NEW A PROVE Promise!WorstCaseG(p, e, A) = WorstCaseG(p, e, A)
  <2>1. {Promise!ScenarioG(p, e, S) : S \in SUBSET A} = {ScenarioG(p, e, S) : S \in SUBSET A}
    BY GateSums
  <2> QED BY <1>1, <1>2, <1>3, <2>1 DEF Promise!WorstCaseG, WorstCaseG
<1>5. ASSUME NEW p, NEW e, NEW A, NEW k, NEW isRecovery
      PROVE  Promise!Admits(p, e, A, k, isRecovery) <=> Admits(p, e, A, k, isRecovery)
  BY <1>4, GateSums DEF Promise!Admits, Admits
<1> QED
  BY <1>4, <1>5

\* The shares of an order are among those of its side.
LEMMA OwnShares ==
  ASSUME NEW e \in [OrderIds -> Exposure], NEW S, NEW k \in OrderIds
  PROVE  /\ SharesOn(e, S \cup {k}, e[k].side) \in Nat
         /\ e[k].qty <= SharesOn(e, S \cup {k}, e[k].side)
<1>1. e \in [Promise!OrderIds -> Promise!Exposure] /\ k \in Promise!OrderIds
  BY GateSums
<1>2. Promise!SharesOn(e, S \cup {k}, e[k].side) \in Nat
  BY <1>1, PromiseAssumptions, Promise!SumsNat
<1>3. e[k].qty <= Promise!SharesOn(e, S \cup {k}, e[k].side)
  BY <1>1, PromiseAssumptions, Promise!OwnShares
<1> QED
  BY <1>2, <1>3, GateSums

\* The worst case is a lower bound of every scenario, and both are integers.
LEMMA WorstCaseBelow ==
  ASSUME NEW p \in Portfolio, NEW e \in [OrderIds -> Exposure], NEW A
  PROVE  /\ WorstCaseG(p, e, A) \in Int
         /\ \A S \in SUBSET A : /\ ScenarioG(p, e, S) \in Int
                                /\ WorstCaseG(p, e, A) <= ScenarioG(p, e, S)
<1>1. p \in Promise!Portfolio /\ e \in [Promise!OrderIds -> Promise!Exposure]
  BY GateSums
<1>2. /\ Promise!WorstCaseG(p, e, A) \in Int
      /\ \A S \in SUBSET A : Promise!WorstCaseG(p, e, A) <= Promise!ScenarioG(p, e, S)
  BY <1>1, PromiseAssumptions, Promise!WorstCaseBelow
<1>3. \A S : Promise!ScenarioG(p, e, S) \in Int
  BY <1>1, PromiseAssumptions, Promise!MarginsInt
<1> QED
  BY <1>2, <1>3, GateSums, GateAdmits

\* A partial fill leaves no less than no fill or a full one does.
LEMMA FillBetween ==
  ASSUME NEW a \in Nat, NEW b \in Nat, NEW q \in Nat, NEW cost \in Nat,
         NEW x \in 0..q, NEW paid \in Nat, paid <= cost, paid <= x * Payout
  PROVE  \/ Payout * Lesser(a + x, b) - paid >= Payout * Lesser(a, b)
         \/ Payout * Lesser(a + x, b) - paid >= Payout * Lesser(a + q, b) - cost
<1>1. \/ Payout * Promise!Lesser(a + x, b) - paid >= Payout * Promise!Lesser(a, b)
      \/ Payout * Promise!Lesser(a + x, b) - paid >= Payout * Promise!Lesser(a + q, b) - cost
  BY PromiseAssumptions, Promise!FillBetween
<1> QED
  BY <1>1, GateSums

\* An admission next to A keeps every margin f <= GMin that the orders around
\* it respected, when A's exposures are the ones they were.
LEMMA AdmissionKeeps ==
  ASSUME NEW p \in Portfolio, NEW e1 \in [OrderIds -> Exposure],
         NEW e2 \in [OrderIds -> Exposure],
         NEW A \in SUBSET OrderIds, NEW k \in OrderIds \ A,
         \A i \in A : e1[i] = e2[i], e2[k].cost > 0,
         NEW isRecovery, Admits(p, e2, A, k, isRecovery),
         NEW f \in Int, f <= GMin, \A S \in SUBSET A : ScenarioG(p, e1, S) >= f
  PROVE  \A S \in SUBSET (A \cup {k}) : ScenarioG(p, e2, S) >= f
<1>1. /\ p \in Promise!Portfolio /\ e1 \in [Promise!OrderIds -> Promise!Exposure]
      /\ e2 \in [Promise!OrderIds -> Promise!Exposure]
      /\ A \in SUBSET Promise!OrderIds /\ k \in Promise!OrderIds \ A
  BY GateSums
<1>2. Promise!Admits(p, e2, A, k, isRecovery)
  BY GateAdmits
<1>3. \A S \in SUBSET A : Promise!ScenarioG(p, e1, S) >= f
  BY GateSums
<1>4. \A S \in SUBSET (A \cup {k}) : Promise!ScenarioG(p, e2, S) >= f
  BY <1>1, <1>2, <1>3, PromiseAssumptions, Promise!AdmissionKeeps
<1> QED
  BY <1>4, GateSums

\* A fill of k keeps every margin that A with k respected.
LEMMA FillKeeps ==
  ASSUME NEW p \in Portfolio, NEW e1 \in [OrderIds -> Exposure],
         NEW e2 \in [OrderIds -> Exposure],
         NEW A \in SUBSET OrderIds, NEW k \in OrderIds \ A,
         \A i \in A : e1[i] = e2[i],
         NEW x \in 0..e1[k].qty, NEW paid \in Affordable(e1[k], x),
         NEW f \in Int, \A S \in SUBSET (A \cup {k}) : ScenarioG(p, e1, S) >= f
  PROVE  \A S \in SUBSET A : ScenarioG(ApplyFill(p, e1[k].side, x, paid), e2, S) >= f
<1>1. /\ p \in Promise!Portfolio /\ e1 \in [Promise!OrderIds -> Promise!Exposure]
      /\ e2 \in [Promise!OrderIds -> Promise!Exposure]
      /\ A \in SUBSET Promise!OrderIds /\ k \in Promise!OrderIds \ A
  BY GateSums
<1>2. paid \in Promise!Affordable(e1[k], x)
  BY GateSums
<1>3. \A S \in SUBSET (A \cup {k}) : Promise!ScenarioG(p, e1, S) >= f
  BY GateSums
<1>4. \A S \in SUBSET A :
        Promise!ScenarioG(Promise!ApplyFill(p, e1[k].side, x, paid), e2, S) >= f
  BY <1>1, <1>2, <1>3, PromiseAssumptions, Promise!FillKeeps
<1> QED
  BY <1>4, GateSums

-----------------------------------------------------------------------------
(***************************************************************************)
(* Candidates.                                                             *)
(***************************************************************************)

\* A non-empty set of integers with an upper bound has a largest element.
LEMMA MaxInt ==
  ASSUME NEW S, S \subseteq Int, S # {}, NEW b \in Int, \A x \in S : x <= b
  PROVE  Max(S) \in S /\ \A x \in S : x <= Max(S)
<1> DEFINE V == {b - x : x \in S}
<1>1. /\ V \subseteq Int
      /\ V # {}
      /\ \A v \in V : 0 <= v
  <2>1. \A x \in S : b - x \in Int /\ 0 <= b - x
    OBVIOUS
  <2>2. PICK x \in S : TRUE
    OBVIOUS
  <2>3. b - x \in V
    OBVIOUS
  <2> QED BY <2>1, <2>3
<1>2. Least(V) \in V /\ \A v \in V : Least(V) <= v
  <2> HIDE DEF V
  <2>1. 0 \in Int /\ \A v \in V : 0 <= v
    BY <1>1
  <2> QED BY <1>1, <2>1, LeastInt
<1>3. PICK m \in S : Least(V) = b - m
  BY <1>2
<1>4. \A x \in S : m >= x
  <2> SUFFICES ASSUME NEW x \in S PROVE m >= x
    OBVIOUS
  <2>1. b - m <= b - x
    BY <1>2, <1>3
  <2> QED BY <2>1
<1>5. \E y \in S : \A x \in S : y >= x
  BY <1>4
<1>6. Max(S) \in S /\ \A x \in S : Max(S) >= x
  BY <1>5 DEF Max
<1> QED
  BY <1>6

\* The largest number in a set of them that may be empty.
LEMMA MaxNat ==
  ASSUME NEW b \in Nat, NEW S, S \subseteq 0..b
  PROVE  /\ Max({0} \cup S) \in 0..b
         /\ Max({0} \cup S) = 0 \/ Max({0} \cup S) \in S
         /\ \A x \in S : x <= Max({0} \cup S)
<1> DEFINE T == {0} \cup S
<1>1. T \subseteq Int /\ T \subseteq 0..b /\ 0 \in T
  OBVIOUS
<1>2. Max(T) \in T /\ \A x \in T : x <= Max(T)
  <2> HIDE DEF T
  <2>1. b \in Int /\ T # {} /\ \A x \in T : x <= b
    BY <1>1
  <2> QED BY <1>1, <2>1, MaxInt
<1>3. Max(T) \in 0..b
  <2> HIDE DEF T
  <2> QED BY <1>1, <1>2
<1>4. S \subseteq T /\ T \subseteq {0} \cup S
  OBVIOUS
<1>5. Max(T) = 0 \/ Max(T) \in S
  BY <1>2
<1>6. \A x \in S : x <= Max(T)
  <2> HIDE DEF T
  <2> QED BY <1>2, <1>4
<1> QED
  BY <1>3, <1>5, <1>6

-----------------------------------------------------------------------------
(***************************************************************************)
(* The walk of the book.                                                   *)
(***************************************************************************)

TakeAt(s, asks, limit, n) ==
  IF Reaches(asks, n, limit) THEN Lesser(s[n - 1].left, asks[n].size) ELSE 0

IsWalk(s, asks, wanted, limit, n) ==
  s = [i \in 0..n |->
         IF i = 0 THEN [left |-> wanted, paid |-> 0]
         ELSE [left |-> s[i - 1].left - TakeAt(s, asks, limit, i),
               paid |-> s[i - 1].paid
                          + TakeAt(s, asks, limit, i) * UnitCost[asks[i].price]]]

\* The recursion that defines a walk has a solution.
LEMMA WalkExists ==
  ASSUME NEW asks \in Seq(Level), NEW wanted, NEW limit
  PROVE  \E s : IsWalk(s, asks, wanted, limit, Len(asks))
<1> DEFINE H == {m \in 0..Len(asks) : \E s : IsWalk(s, asks, wanted, limit, m)}
<1>0. Len(asks) \in Nat
  OBVIOUS
<1>1. 0 \in H
  <2> DEFINE s == [i \in 0..0 |-> [left |-> wanted, paid |-> 0]]
  <2>1. IsWalk(s, asks, wanted, limit, 0)
    BY DEF IsWalk
  <2> QED BY <2>1
<1>2. ASSUME NEW m \in 1..Len(asks), m - 1 \in H PROVE m \in H
  <2>1. PICK s : IsWalk(s, asks, wanted, limit, m - 1)
    BY <1>2
  <2> DEFINE last == [left |-> s[m - 1].left - TakeAt(s, asks, limit, m),
                      paid |-> s[m - 1].paid
                          + TakeAt(s, asks, limit, m) * UnitCost[asks[m].price]]
             r == [i \in 0..m |-> IF i = m THEN last ELSE s[i]]
  <2>2. ASSUME NEW i \in 0..m
        PROVE  r[i] = IF i = 0 THEN [left |-> wanted, paid |-> 0]
                      ELSE [left |-> r[i - 1].left - TakeAt(r, asks, limit, i),
                            paid |-> r[i - 1].paid
                              + TakeAt(r, asks, limit, i) * UnitCost[asks[i].price]]
    <3>1. i # 0 => i - 1 \in 0..m /\ i - 1 # m /\ r[i - 1] = s[i - 1]
      OBVIOUS
    <3>2. i # 0 => TakeAt(r, asks, limit, i) = TakeAt(s, asks, limit, i)
      BY <3>1 DEF TakeAt
    <3>3. CASE i = m
      BY <3>1, <3>2, <3>3
    <3>4. CASE i # m
      <4>1. i \in 0..(m - 1) /\ r[i] = s[i]
        BY <3>4
      <4> HIDE DEF r
      <4>2. s[i] = IF i = 0 THEN [left |-> wanted, paid |-> 0]
                   ELSE [left |-> s[i - 1].left - TakeAt(s, asks, limit, i),
                         paid |-> s[i - 1].paid
                           + TakeAt(s, asks, limit, i) * UnitCost[asks[i].price]]
        BY <4>1, <2>1 DEF IsWalk
      <4> QED BY <4>1, <4>2, <3>1, <3>2
    <3> QED BY <3>3, <3>4
  <2>3. IsWalk(r, asks, wanted, limit, m)
    <3>1. r = [i \in 0..m |-> r[i]]
      OBVIOUS
    <3> HIDE DEF r
    <3> QED BY <2>2, <3>1 DEF IsWalk
  <2> QED BY <2>3
<1>3. Len(asks) \in H
  <2> HIDE DEF H
  <2>1. 0..Len(asks) \subseteq H
    BY <1>0, <1>1, <1>2, Induction
  <2> QED BY <1>0, <2>1
<1> QED
  BY <1>3

\* WalkSteps satisfies its recursion.
LEMMA WalkDef ==
  ASSUME NEW asks \in Seq(Level), NEW wanted, NEW limit
  PROVE  IsWalk(WalkSteps(asks, wanted, limit), asks, wanted, limit, Len(asks))
<1>1. \E s : IsWalk(s, asks, wanted, limit, Len(asks))
  BY WalkExists
<1>2. IsWalk(CHOOSE s : IsWalk(s, asks, wanted, limit, Len(asks)),
             asks, wanted, limit, Len(asks))
  BY <1>1, Zenon
<1>3. WalkSteps(asks, wanted, limit)
        = CHOOSE s : IsWalk(s, asks, wanted, limit, Len(asks))
  BY DEF WalkSteps, IsWalk, TakeAt
<1> QED
  BY <1>2, <1>3

\* One level of the walk.
LEMMA WalkStep ==
  ASSUME NEW asks \in Seq(Level), NEW wanted, NEW limit
  PROVE  LET s == WalkSteps(asks, wanted, limit)
         IN  /\ s[0] = [left |-> wanted, paid |-> 0]
             /\ \A i \in 1..Len(asks) :
                  s[i] = [left |-> s[i - 1].left - TakeAt(s, asks, limit, i),
                          paid |-> s[i - 1].paid
                            + TakeAt(s, asks, limit, i) * UnitCost[asks[i].price]]
<1> DEFINE s == WalkSteps(asks, wanted, limit)
<1>1. IsWalk(s, asks, wanted, limit, Len(asks))
  BY WalkDef
<1>2. Len(asks) \in Nat
  OBVIOUS
<1> HIDE DEF s
<1>3. /\ s[0] = [left |-> wanted, paid |-> 0]
      /\ \A i \in 1..Len(asks) :
           s[i] = [left |-> s[i - 1].left - TakeAt(s, asks, limit, i),
                   paid |-> s[i - 1].paid
                     + TakeAt(s, asks, limit, i) * UnitCost[asks[i].price]]
  <2> DEFINE F(i) ==
         IF i = 0 THEN [left |-> wanted, paid |-> 0]
         ELSE [left |-> s[i - 1].left - TakeAt(s, asks, limit, i),
               paid |-> s[i - 1].paid
                          + TakeAt(s, asks, limit, i) * UnitCost[asks[i].price]]
  <2>1. s = [i \in 0..Len(asks) |-> F(i)]
    BY <1>1 DEF IsWalk
  <2>2. \A i \in 0..Len(asks) : s[i] = F(i)
    <3> HIDE DEF F
    <3> QED BY <2>1
  <2>3. s[0] = F(0)
    <3> HIDE DEF F
    <3> QED BY <1>2, <2>2
  <2>4. ASSUME NEW i \in 1..Len(asks) PROVE s[i] = F(i) /\ i # 0
    <3> HIDE DEF F
    <3> QED BY <1>2, <2>2
  <2>5. \A i \in 1..Len(asks) :
           s[i] = [left |-> s[i - 1].left - TakeAt(s, asks, limit, i),
                   paid |-> s[i - 1].paid
                     + TakeAt(s, asks, limit, i) * UnitCost[asks[i].price]]
    BY <2>4
  <2> QED BY <2>3, <2>5
<1> QED
  BY <1>3 DEF s

\* The levels of a ladder.
LEMMA LevelFields ==
  ASSUME NEW asks \in Seq(Level), NEW i \in 1..Len(asks)
  PROVE  asks[i].price \in Prices /\ asks[i].size \in Nat
<1>1. asks[i] \in Level
  BY ElementOfSeq
<1> QED
  BY <1>1 DEF Level

\* What is taken at a level is at most what is wanted and what is there, and
\* nothing is taken beyond the limit.
LEMMA TakeFacts ==
  ASSUME NEW asks \in Seq(Level), NEW limit, NEW s, NEW i \in 1..Len(asks),
         s[i - 1].left \in Nat
  PROVE  /\ TakeAt(s, asks, limit, i) \in 0..s[i - 1].left
         /\ \/ TakeAt(s, asks, limit, i) = 0
            \/ asks[i].price <= limit
         /\ Reaches(asks, i, limit) =>
              \/ TakeAt(s, asks, limit, i) = s[i - 1].left
              \/ TakeAt(s, asks, limit, i) = asks[i].size
<1>1. asks[i].size \in Nat
  BY LevelFields
<1>2. i \in 1..i
  OBVIOUS
<1>3. Reaches(asks, i, limit) => asks[i].price <= limit
  BY <1>2 DEF Reaches
<1> QED
  BY <1>1, <1>3 DEF TakeAt, Lesser

\* Every share costs at least low and, below the limit, at most top: so do
\* the shares a walk gets.
LEMMA WalkCost ==
  ASSUME NEW asks \in Seq(Level), NEW wanted \in Nat, NEW limit,
         NEW low \in Nat, NEW top \in Nat,
         \A j \in 1..Len(asks) : low <= UnitCost[asks[j].price],
         \A j \in 1..Len(asks) :
           asks[j].price <= limit => UnitCost[asks[j].price] <= top
  PROVE  LET walk == WalkDepth(asks, wanted, limit)
         IN  /\ walk.filled \in 0..wanted
             /\ walk.paid \in Nat
             /\ walk.filled * low <= walk.paid
             /\ walk.paid <= walk.filled * top
<1> DEFINE s == WalkSteps(asks, wanted, limit)
           Got(i) == wanted - s[i].left
           H == {i \in 0..Len(asks) : /\ s[i].left \in 0..wanted
                                      /\ s[i].paid \in Nat
                                      /\ Got(i) * low <= s[i].paid
                                      /\ s[i].paid <= Got(i) * top}
<1>1. Len(asks) \in Nat
  OBVIOUS
<1>0. /\ s[0] = [left |-> wanted, paid |-> 0]
      /\ \A i \in 1..Len(asks) :
           s[i] = [left |-> s[i - 1].left - TakeAt(s, asks, limit, i),
                   paid |-> s[i - 1].paid
                     + TakeAt(s, asks, limit, i) * UnitCost[asks[i].price]]
  BY WalkStep
<1> HIDE DEF s
<1>2. 0 \in H
  <2>1. s[0] = [left |-> wanted, paid |-> 0]
    BY <1>0
  <2>2. Got(0) = 0 /\ s[0].paid = 0 /\ s[0].left = wanted
    BY <2>1
  <2> QED BY <1>1, <2>2
<1>3. ASSUME NEW i \in 1..Len(asks), i - 1 \in H PROVE i \in H
  <2> DEFINE take == TakeAt(s, asks, limit, i)
             u == UnitCost[asks[i].price]
  <2>1. s[i] = [left |-> s[i - 1].left - take, paid |-> s[i - 1].paid + take * u]
    BY <1>0
  <2>2. /\ s[i - 1].left \in 0..wanted /\ s[i - 1].paid \in Nat
        /\ Got(i - 1) * low <= s[i - 1].paid
        /\ s[i - 1].paid <= Got(i - 1) * top
    BY <1>3
  <2>3. u \in Nat /\ low <= u
    <3>1. asks[i].price \in Prices
      BY LevelFields
    <3> QED BY <3>1, PriceFacts
  <2>4. take \in 0..s[i - 1].left /\ (take = 0 \/ u <= top)
    BY <2>2, TakeFacts
  <2> HIDE DEF take, u
  <2>5. s[i].left \in 0..wanted /\ s[i].paid = s[i - 1].paid + take * u
    <3>1. s[i].left = s[i - 1].left - take
      BY <2>1
    <3>2. s[i].paid = s[i - 1].paid + take * u
      BY <2>1
    <3>3. s[i - 1].left \in 0..wanted /\ take \in 0..s[i - 1].left
      BY <2>2, <2>4
    <3>4. s[i].left \in 0..wanted
      BY <3>1, <3>3
    <3> QED BY <3>2, <3>4
  <2>6. Got(i) = Got(i - 1) + take /\ Got(i - 1) \in Nat /\ take \in Nat
    <3>1. s[i].left = s[i - 1].left - take
      BY <2>1
    <3>2. s[i - 1].left \in 0..wanted /\ take \in 0..s[i - 1].left
      BY <2>2, <2>4
    <3> DEFINE a == s[i].left
               b == s[i - 1].left
    <3>3. a = b - take /\ b \in 0..wanted /\ take \in 0..b
      BY <3>1, <3>2
    <3> HIDE DEF a, b
    <3>4. wanted - a = (wanted - b) + take /\ wanted - b \in Nat /\ take \in Nat
      BY <3>3
    <3> QED BY <3>4 DEF a, b
  <2> HIDE DEF Got
  <2>7. take * low <= take * u /\ take * u \in Nat
    BY <2>3, <2>6, Times
  <2>8. take * u <= take * top
    <3>1. CASE take = 0
      BY <3>1, <2>3
    <3>2. CASE u <= top
      BY <3>2, <2>3, <2>6, Times
    <3> QED BY <2>4, <3>1, <3>2
  <2>9. /\ Got(i) * low = Got(i - 1) * low + take * low
        /\ Got(i) * top = Got(i - 1) * top + take * top
    BY <2>6, Times
  <2>10. /\ Got(i - 1) * low \in Nat /\ take * low \in Nat
         /\ Got(i - 1) * top \in Nat /\ take * top \in Nat
    BY <2>6, Times
  <2>11. s[i].paid \in Nat /\ Got(i) * low <= s[i].paid
         /\ s[i].paid <= Got(i) * top
    <3> DEFINE before == s[i - 1].paid
               more == take * u
    <3>1. /\ before \in Nat /\ more \in Nat /\ s[i].paid = before + more
          /\ Got(i - 1) * low <= before /\ before <= Got(i - 1) * top
          /\ take * low <= more /\ more <= take * top
      BY <2>2, <2>5, <2>7, <2>8
    <3> HIDE DEF before, more
    <3>2. Got(i - 1) * low + take * low <= before + more
      BY <2>10, <3>1
    <3>3. before + more <= Got(i - 1) * top + take * top
      BY <2>10, <3>1
    <3> QED BY <2>9, <3>1, <3>2, <3>3
  <2> QED BY <1>1, <2>5, <2>11
<1>4. 0..Len(asks) \subseteq H
  <2> HIDE DEF H
  <2> QED BY <1>1, <1>2, <1>3, Induction
<1>5. Len(asks) \in H
  <2> HIDE DEF H
  <2> QED BY <1>1, <1>4
<1>6. /\ WalkDepth(asks, wanted, limit).filled = Got(Len(asks))
      /\ WalkDepth(asks, wanted, limit).paid = s[Len(asks)].paid
  BY DEF WalkDepth, s
<1>7. Got(Len(asks)) \in 0..wanted
  <2>1. s[Len(asks)].left \in 0..wanted
    BY <1>5
  <2> QED BY <2>1
<1> QED
  BY <1>5, <1>6, <1>7

\* A walk no level stops gets everything wanted that is there.
LEMMA WalkFills ==
  ASSUME NEW asks \in Seq(Level), NEW limit,
         \A j \in 1..Len(asks) : asks[j].price <= limit,
         NEW wanted \in Nat, wanted <= DepthOf(asks)
  PROVE  WalkDepth(asks, wanted, limit).filled = wanted
<1> DEFINE s == WalkSteps(asks, wanted, limit)
           sizes == [i \in 1..Len(asks) |-> asks[i].size]
           sum == PartialSums(sizes, Len(asks))
           H == {i \in 0..Len(asks) : /\ s[i].left \in 0..wanted
                                      /\ sum[i] \in Nat
                                      /\ \/ s[i].left = 0
                                         \/ s[i].left = wanted - sum[i]}
<1>1. Len(asks) \in Nat /\ DOMAIN asks = 1..Len(asks)
  OBVIOUS
<1>2. \A i \in 1..Len(asks) : asks[i].size \in Nat
  BY LevelFields
<1>3. sizes \in [1..Len(asks) -> Int]
  BY <1>2
<1>4. /\ sum[0] = 0
      /\ \A i \in 1..Len(asks) : sum[i] = sum[i - 1] + sizes[i]
  <2> HIDE DEF sizes
  <2> QED BY <1>1, <1>3, PartialSumsStep
<1>0. /\ s[0] = [left |-> wanted, paid |-> 0]
      /\ \A i \in 1..Len(asks) :
           s[i] = [left |-> s[i - 1].left - TakeAt(s, asks, limit, i),
                   paid |-> s[i - 1].paid
                     + TakeAt(s, asks, limit, i) * UnitCost[asks[i].price]]
  BY WalkStep
<1> HIDE DEF s
<1>5. 0 \in H
  <2>1. s[0] = [left |-> wanted, paid |-> 0]
    BY <1>0
  <2> HIDE DEF sum
  <2> QED BY <1>1, <1>4, <2>1
<1>6. ASSUME NEW i \in 1..Len(asks), i - 1 \in H PROVE i \in H
  <2> DEFINE take == TakeAt(s, asks, limit, i)
  <2>1. s[i].left = s[i - 1].left - take
    <3>1. s[i] = [left |-> s[i - 1].left - take,
                  paid |-> s[i - 1].paid + take * UnitCost[asks[i].price]]
      BY <1>0
    <3> QED BY <3>1
  <2>2. /\ s[i - 1].left \in 0..wanted /\ sum[i - 1] \in Nat
        /\ s[i - 1].left = 0 \/ s[i - 1].left = wanted - sum[i - 1]
    BY <1>6
  <2>3. sum[i] = sum[i - 1] + asks[i].size /\ asks[i].size \in Nat
    BY <1>2, <1>4
  <2> HIDE DEF sum
  <2>4. Reaches(asks, i, limit)
    BY <1>1 DEF Reaches
  <2>5. take \in 0..s[i - 1].left /\ (take = s[i - 1].left \/ take = asks[i].size)
    <3>1. s[i - 1].left \in Nat
      BY <2>2
    <3> HIDE DEF sum
    <3> QED BY <3>1, <2>4, TakeFacts
  <2> HIDE DEF take
  <2>6. /\ s[i].left \in 0..wanted /\ sum[i] \in Nat
        /\ s[i].left = 0 \/ s[i].left = wanted - sum[i]
    <3>1. s[i].left \in 0..wanted
      BY <2>1, <2>2, <2>5
    <3>2. sum[i] \in Nat
      BY <2>2, <2>3
    <3>3. CASE take = s[i - 1].left
      BY <2>1, <2>2, <3>1, <3>2, <3>3
    <3>4. CASE take = asks[i].size /\ s[i - 1].left = 0
      BY <2>1, <2>2, <2>5, <3>1, <3>2, <3>4
    <3>5. CASE take = asks[i].size /\ s[i - 1].left = wanted - sum[i - 1]
      <4>1. s[i].left = wanted - sum[i - 1] - asks[i].size
        BY <2>1, <3>5
      <4>2. s[i].left = wanted - sum[i]
        BY <2>2, <2>3, <4>1
      <4> QED BY <3>1, <3>2, <4>2
    <3> QED BY <2>2, <2>5, <3>3, <3>4, <3>5
  <2> QED BY <1>1, <2>6
<1>7. 0..Len(asks) \subseteq H
  <2> HIDE DEF H
  <2> QED BY <1>1, <1>5, <1>6, Induction
<1>8. Len(asks) \in H
  <2> HIDE DEF H
  <2> QED BY <1>1, <1>7
<1>9. sum[Len(asks)] = DepthOf(asks)
  BY <1>1 DEF DepthOf, Total
<1>10. WalkDepth(asks, wanted, limit).filled = wanted - s[Len(asks)].left
  BY DEF WalkDepth, s
<1>11. s[Len(asks)].left = 0
  <2>1. /\ s[Len(asks)].left \in 0..wanted
        /\ sum[Len(asks)] \in Nat
        /\ s[Len(asks)].left = 0 \/ s[Len(asks)].left = wanted - sum[Len(asks)]
    BY <1>8
  <2> HIDE DEF sum
  <2> QED BY <1>9, <2>1
<1> QED
  BY <1>10, <1>11

-----------------------------------------------------------------------------
(***************************************************************************)
(* Limits on one order.                                                    *)
(***************************************************************************)

\* What a ladder offers in all is a natural number.
LEMMA DepthNat ==
  ASSUME NEW asks \in Seq(Level)
  PROVE  DepthOf(asks) \in Nat
<1> DEFINE sizes == [i \in 1..Len(asks) |-> asks[i].size]
           zeros == [i \in 1..Len(asks) |-> 0]
<1>1. Len(asks) \in Nat /\ DOMAIN asks = 1..Len(asks)
  OBVIOUS
<1>2. \A i \in 1..Len(asks) : asks[i].size \in Nat
  BY LevelFields
<1>3. /\ sizes \in [1..Len(asks) -> Int] /\ zeros \in [1..Len(asks) -> Int]
      /\ \A i \in 1..Len(asks) : zeros[i] = 0 /\ zeros[i] <= sizes[i]
  BY <1>2
<1> HIDE DEF sizes, zeros
<1>4. Total(zeros, Len(asks)) = 0
  BY <1>1, <1>3, TotalZero
<1>5. Total(zeros, Len(asks)) <= Total(sizes, Len(asks))
  BY <1>1, <1>3, TotalMonotone
<1>6. Total(sizes, Len(asks)) \in Int
  BY <1>1, <1>3, TotalInt
<1>7. DepthOf(asks) = Total(sizes, Len(asks))
  BY <1>1 DEF DepthOf, sizes
<1> QED
  BY <1>4, <1>5, <1>6, <1>7

\* A fill of natural size and cost leaves a portfolio.
LEMMA FilledPortfolio ==
  ASSUME NEW p \in Portfolio, NEW side, NEW x \in Nat, NEW paid \in Nat
  PROVE  ApplyFill(p, side, x, paid) \in Portfolio
<1>1. p.U \in Nat /\ p.D \in Nat /\ p.C \in Nat
  BY PortfolioFields
<1> QED
  BY <1>1 DEF ApplyFill, Portfolio

\* The margin of a portfolio is an integer.
LEMMA MarginInt ==
  ASSUME NEW p \in Portfolio
  PROVE  G(p) \in Int
<1>1. p.U \in Nat /\ p.D \in Nat /\ p.C \in Nat
  BY PortfolioFields
<1>2. Lesser(p.U, p.D) \in Nat
  BY <1>1 DEF Lesser
<1>3. Payout * Lesser(p.U, p.D) \in Nat
  BY <1>2, Constants, Times
<1> QED
  BY <1>1, <1>3 DEF G

\* What a fill costs comes off the margin it would leave for nothing.
LEMMA MarginOfFill ==
  ASSUME NEW p \in Portfolio, NEW side, NEW x \in Nat, NEW paid \in Nat
  PROVE  G(ApplyFill(p, side, x, paid)) = G(ApplyFill(p, side, x, 0)) - paid
<1> DEFINE a == ApplyFill(p, side, x, paid)
           b == ApplyFill(p, side, x, 0)
<1>1. p.C \in Nat
  BY PortfolioFields
<1>2. a.U = b.U /\ a.D = b.D /\ a.C = p.C + paid /\ b.C = p.C
  BY <1>1 DEF ApplyFill
<1>3. a \in Portfolio /\ b \in Portfolio
  BY FilledPortfolio
<1>4. G(a) \in Int /\ G(b) \in Int
  BY <1>3, MarginInt
<1> HIDE DEF a, b
<1>5. Payout * Lesser(a.U, a.D) \in Int
  <2>1. a.U \in Nat /\ a.D \in Nat
    BY <1>3, PortfolioFields
  <2>2. Lesser(a.U, a.D) \in Nat
    BY <2>1 DEF Lesser
  <2> QED BY <2>2, Constants, Times
<1>6. G(a) = G(b) - paid
  BY <1>1, <1>2, <1>5 DEF G
<1> QED
  BY <1>6 DEF a, b

\* A price DearestWithin finds is on the grid and within the budget, and it is
\* the dearest one.
LEMMA DearestFacts ==
  ASSUME NEW budget, NEW x
  PROVE  LET found == DearestWithin(budget, x)
         IN  /\ found \in 0..Payout
             /\ found # 0 => found \in Prices /\ x * UnitCost[found] <= budget
             /\ \A p \in Prices : x * UnitCost[p] <= budget => p <= found
<1> DEFINE S == {p \in Prices : x * UnitCost[p] <= budget}
<1>1. S \subseteq 0..Payout /\ Payout \in Nat
  <2>1. S \subseteq Prices
    OBVIOUS
  <2>2. \A p \in Prices : p \in 0..Payout
    BY PriceFacts, Constants
  <2> HIDE DEF S
  <2> QED BY <2>1, <2>2, Constants
<1> HIDE DEF S
<1>2. /\ Max({0} \cup S) \in 0..Payout
      /\ Max({0} \cup S) = 0 \/ Max({0} \cup S) \in S
      /\ \A p \in S : p <= Max({0} \cup S)
  BY <1>1, MaxNat
<1>3. DearestWithin(budget, x) = Max({0} \cup S)
  BY DEF DearestWithin, S
<1> QED
  BY <1>2, <1>3 DEF S

\* The two bounds a budget is the lesser of.
LEMMA BudgetFacts ==
  ASSUME NEW p \in Portfolio, NEW side, NEW x \in Nat, NEW floor \in Int
  PROVE  /\ Budget(p, side, x, floor) \in Int
         /\ Budget(p, side, x, floor) <= G(ApplyFill(p, side, x, 0)) - floor
         /\ Budget(p, side, x, floor) <= SpendCap - p.C
         /\ \A paid \in Int :
              /\ paid <= G(ApplyFill(p, side, x, 0)) - floor
              /\ p.C + paid <= SpendCap
              => paid <= Budget(p, side, x, floor)
<1>1. p.C \in Nat /\ SpendCap \in Nat
  BY PortfolioFields, Constants
<1>2. ApplyFill(p, side, x, 0) \in Portfolio
  BY FilledPortfolio
<1>3. G(ApplyFill(p, side, x, 0)) \in Int
  BY <1>2, MarginInt
<1> QED
  BY <1>1, <1>3 DEF Budget, Lesser

\* x shares at price p are affordable above floor, in part as well as in full:
\* a margin falls between the one without the order and the one with all of
\* it, because no share costs more than it may settle for.
LEMMA PricedOrderIsSafe ==
  ASSUME NEW p \in Portfolio, NEW side \in Sides, NEW x \in Nat,
         NEW floor \in Int, NEW price \in Prices,
         x * UnitCost[price] <= Budget(p, side, x, floor), NEW n \in 0..x
  PROVE  LET after == ApplyFill(p, side, n, n * UnitCost[price])
         IN  G(after) >= Lesser(floor, G(p)) /\ after.C <= SpendCap
<1> DEFINE u == UnitCost[price]
           paid == n * u
           cost == x * u
           after == ApplyFill(p, side, n, paid)
           full == ApplyFill(p, side, x, cost)
<1>1. p.U \in Nat /\ p.D \in Nat /\ p.C \in Nat /\ Payout \in Nat
  BY PortfolioFields, Constants
<1>2. u \in Nat /\ u <= Payout
  BY PriceFacts
<1>3. n \in Nat /\ n <= x
  OBVIOUS
<1> HIDE DEF u
<1>4. paid \in Nat /\ cost \in Nat /\ paid <= cost /\ paid <= n * Payout
  BY <1>1, <1>2, <1>3, Times
<1> HIDE DEF paid, cost
<1>5. cost <= Budget(p, side, x, floor)
  BY DEF cost, u
<1>6. after \in Portfolio /\ full \in Portfolio
  BY <1>3, <1>4, FilledPortfolio
<1>7. G(after) \in Int /\ G(full) \in Int /\ G(p) \in Int
  BY <1>6, MarginInt
<1>8. G(full) >= floor
  <2>1. G(full) = G(ApplyFill(p, side, x, 0)) - cost
    BY <1>4, MarginOfFill
  <2>2. ApplyFill(p, side, x, 0) \in Portfolio
    BY FilledPortfolio
  <2>3. G(ApplyFill(p, side, x, 0)) \in Int
    BY <2>2, MarginInt
  <2>4. cost <= G(ApplyFill(p, side, x, 0)) - floor
    <3>1. /\ Budget(p, side, x, floor) \in Int
          /\ Budget(p, side, x, floor) <= G(ApplyFill(p, side, x, 0)) - floor
      BY BudgetFacts
    <3> QED BY <1>4, <1>5, <2>3, <3>1
  <2> HIDE DEF full
  <2> QED BY <1>4, <2>1, <2>3, <2>4
<1>9. G(after) >= G(p) \/ G(after) >= G(full)
  <2>1. CASE side = "UP"
    <3>1. \/ Payout * Lesser(p.U + n, p.D) - paid >= Payout * Lesser(p.U, p.D)
          \/ Payout * Lesser(p.U + n, p.D) - paid
               >= Payout * Lesser(p.U + x, p.D) - cost
      BY <1>1, <1>3, <1>4, FillBetween
    <3>2. /\ G(after) = Payout * Lesser(p.U + n, p.D) - (p.C + paid)
          /\ G(full) = Payout * Lesser(p.U + x, p.D) - (p.C + cost)
          /\ G(p) = Payout * Lesser(p.U, p.D) - p.C
      BY <2>1 DEF G, ApplyFill
    <3>3. /\ Payout * Lesser(p.U + n, p.D) \in Int
          /\ Payout * Lesser(p.U + x, p.D) \in Int
          /\ Payout * Lesser(p.U, p.D) \in Int
      BY <1>1, <1>3 DEF Lesser
    <3> HIDE DEF after, full
    <3> QED BY <1>1, <1>4, <3>1, <3>2, <3>3
  <2>2. CASE side = "DOWN"
    <3>1. \/ Payout * Lesser(p.D + n, p.U) - paid >= Payout * Lesser(p.D, p.U)
          \/ Payout * Lesser(p.D + n, p.U) - paid
               >= Payout * Lesser(p.D + x, p.U) - cost
      BY <1>1, <1>3, <1>4, FillBetween
    <3>2. /\ G(after) = Payout * Lesser(p.U, p.D + n) - (p.C + paid)
          /\ G(full) = Payout * Lesser(p.U, p.D + x) - (p.C + cost)
          /\ G(p) = Payout * Lesser(p.U, p.D) - p.C
      BY <2>2 DEF G, ApplyFill
    <3>3. /\ Lesser(p.U, p.D + n) = Lesser(p.D + n, p.U)
          /\ Lesser(p.U, p.D + x) = Lesser(p.D + x, p.U)
          /\ Lesser(p.U, p.D) = Lesser(p.D, p.U)
      BY <1>1, <1>3 DEF Lesser
    <3>4. /\ Payout * Lesser(p.D + n, p.U) \in Int
          /\ Payout * Lesser(p.D + x, p.U) \in Int
          /\ Payout * Lesser(p.D, p.U) \in Int
      BY <1>1, <1>3 DEF Lesser
    <3> HIDE DEF after, full
    <3> QED BY <1>1, <1>4, <3>1, <3>2, <3>3, <3>4
  <2> QED BY <2>1, <2>2 DEF Sides
<1>10. G(after) >= Lesser(floor, G(p))
  <2> HIDE DEF after, full
  <2> QED BY <1>7, <1>8, <1>9 DEF Lesser
<1>11. after.C <= SpendCap
  <2>1. after.C = p.C + paid
    BY DEF ApplyFill
  <2>2. /\ Budget(p, side, x, floor) \in Int
        /\ Budget(p, side, x, floor) <= SpendCap - p.C
    BY BudgetFacts
  <2>3. p.C + paid <= SpendCap
    BY <1>1, <1>4, <1>5, <2>2, Constants
  <2> QED BY <2>1, <2>3
<1> QED
  BY <1>10, <1>11 DEF paid, u

-----------------------------------------------------------------------------
(***************************************************************************)
(* The taker families.                                                     *)
(***************************************************************************)

\* A candidate bought at its limit is a part of an order that its limit keeps
\* within the budget above the floor, or above the margin held.
Bounded(p, side, c) ==
  /\ c.price \in Prices
  /\ c.qty \in Nat
  /\ \E x \in Nat :
       /\ c.qty <= x
       /\ x * UnitCost[c.price] <= Budget(p, side, x, Lesser(GMin, G(p)))

\* The shares Walkable finds may be held, and so may all before them.
LEMMA WalkableFacts ==
  ASSUME NEW b \in Nat, NEW fits \in SUBSET (0..b)
  PROVE  /\ Walkable(fits) \in 0..b
         /\ \A n \in 1..Walkable(fits) : n \in fits
<1> DEFINE S == {n \in fits : 0..n \subseteq fits}
<1>1. S \subseteq 0..b
  OBVIOUS
<1> HIDE DEF S
<1>2. Max({0} \cup S) \in 0..b /\ (Max({0} \cup S) = 0 \/ Max({0} \cup S) \in S)
  BY <1>1, MaxNat
<1>3. Walkable(fits) = Max({0} \cup S)
  BY DEF Walkable, S
<1>4. ASSUME NEW n \in 1..Walkable(fits) PROVE n \in fits
  <2>1. Walkable(fits) \in S /\ n \in 0..Walkable(fits)
    BY <1>2, <1>3
  <2> QED BY <2>1 DEF S
<1> QED
  BY <1>2, <1>3, <1>4

\* Sizes along the depth of the book are naturals up to the largest.
LEMMA DepthSizesFacts ==
  ASSUME NEW asks \in Seq(Level), NEW most \in Int, NEW n \in DepthSizes(asks, most)
  PROVE  n \in Int /\ n <= most
<1>1. PICK i \in 1..Lesser(DepthLevels, Len(asks)) :
        n = Lesser(DepthOf(SubSeq(asks, 1, i)), most)
  BY DEF DepthSizes
<1>2. Len(asks) \in Nat /\ DepthLevels \in Nat
  BY CandidateAssumption
<1>3. i \in 1..Len(asks)
  BY <1>1, <1>2 DEF Lesser
<1>4. SubSeq(asks, 1, i) \in Seq(Level)
  <2>1. \A j \in 1..i : asks[j] \in Level
    BY <1>3, ElementOfSeq
  <2> QED BY <1>3, <2>1, SubSeqProperties
<1>5. DepthOf(SubSeq(asks, 1, i)) \in Nat
  BY <1>4, DepthNat
<1> QED
  BY <1>1, <1>5 DEF Lesser

\* Sizes in small steps are below the largest.
LEMMA SmallSizesFacts ==
  ASSUME NEW most \in Int, NEW n \in SmallSizes(most)
  PROVE  n \in Int /\ n <= most
  BY CandidateAssumption DEF SmallSizes

\* The levels worth walking are the first ones of the ladder.
LEMMA WorthWalkingFacts ==
  ASSUME NEW asks \in Seq(Level), NEW worth
  PROVE  LET levels == WorthWalking(asks, worth)
         IN  /\ levels \in Seq(Level)
             /\ Len(levels) <= Len(asks)
             /\ \A i \in 1..Len(levels) :
                  levels[i] = asks[i] /\ UnitCost[levels[i].price] < worth
<1> DEFINE S == {i \in DOMAIN asks : \A j \in 1..i : UnitCost[asks[j].price] < worth}
           n == Max({0} \cup S)
           levels == SubSeq(asks, 1, n)
<1>1. Len(asks) \in Nat /\ DOMAIN asks = 1..Len(asks)
  OBVIOUS
<1>2. S \subseteq 0..Len(asks)
  BY <1>1
<1>3. n \in 0..Len(asks) /\ (n = 0 \/ n \in S)
  <2> HIDE DEF S
  <2> QED BY <1>1, <1>2, MaxNat
<1> HIDE DEF n
<1>4. \A j \in 1..n : asks[j] \in Level
  BY <1>1, <1>3, ElementOfSeq
<1>5. \A j \in 1..n : UnitCost[asks[j].price] < worth
  BY <1>1, <1>3
<1>6. /\ levels \in Seq(Level)
      /\ Len(levels) = n
      /\ \A i \in 1..n : levels[i] = asks[i]
  <2>1. /\ levels \in Seq(Level)
        /\ Len(levels) = IF 1 <= n THEN n - 1 + 1 ELSE 0
        /\ \A i \in 1..(n - 1 + 1) : levels[i] = asks[1 + i - 1]
    BY <1>1, <1>3, <1>4, SubSeqProperties
  <2>2. n \in Nat
    BY <1>1, <1>3
  <2> HIDE DEF levels
  <2> QED BY <2>1, <2>2
<1>7. levels = WorthWalking(asks, worth)
  BY DEF WorthWalking, n
<1> HIDE DEF levels, S
<1> QED
  BY <1>1, <1>3, <1>5, <1>6, <1>7

\* A walk of a ladder pays at least its first price for each share.
LEMMA FirstPriceIsLeast ==
  ASSUME NEW asks \in Seq(Level), Ascending(asks), asks # <<>>,
         NEW n \in Nat, n <= DepthOf(asks)
  PROVE  /\ WalkDepth(asks, n, Payout).paid \in Nat
         /\ n * UnitCost[asks[1].price] <= CostOfWalk(asks, n)
<1> DEFINE low == UnitCost[asks[1].price]
<1>1. Len(asks) \in Nat /\ 1 \in 1..Len(asks) /\ DOMAIN asks = 1..Len(asks)
  BY EmptySeq
<1>2. \A j \in 1..Len(asks) : asks[j].price \in Prices
  BY LevelFields
<1>3. low \in Nat
  BY <1>1, <1>2, PriceFacts
<1>4. \A j \in 1..Len(asks) : low <= UnitCost[asks[j].price]
  <2> SUFFICES ASSUME NEW j \in 1..Len(asks) PROVE low <= UnitCost[asks[j].price]
    OBVIOUS
  <2>1. CASE j = 1
    BY <2>1, <1>3
  <2>2. CASE j # 1
    <3>1. asks[1].price < asks[j].price
      BY <1>1, <2>2 DEF Ascending
    <3>2. asks[1].price <= asks[j].price
      BY <1>1, <1>2, <3>1, PriceFacts
    <3> QED BY <1>1, <1>2, <3>2, PriceAssumption
  <2> QED BY <2>1, <2>2
<1>5. \A j \in 1..Len(asks) :
        asks[j].price <= Payout /\ UnitCost[asks[j].price] <= Payout
  BY <1>2, PriceFacts
<1> HIDE DEF low
<1>6. /\ WalkDepth(asks, n, Payout).paid \in Nat
      /\ WalkDepth(asks, n, Payout).filled * low <= WalkDepth(asks, n, Payout).paid
  BY <1>3, <1>4, <1>5, Constants, WalkCost
<1>7. WalkDepth(asks, n, Payout).filled = n
  BY <1>5, WalkFills
<1> QED
  BY <1>6, <1>7 DEF low, CostOfWalk

\* taker_sizing_boundaries gives every size a price of its own: the walk that
\* bounds the size passes the cheapest ask, so some price is affordable.
LEMMA AlphaBounded ==
  ASSUME NEW p \in Portfolio, NEW side \in Sides,
         NEW asks \in Seq(Level), Ascending(asks), NEW worth \in Int,
         NEW c \in AlphaTakers(p, side, asks, worth)
  PROVE  Bounded(p, side, c)
<1> DEFINE levels == WorthWalking(asks, worth)
           fits == {n \in 0..DepthOf(levels) :
                      WithinHardLimits(After(p, side, levels, n))}
           most == Walkable(fits)
           sizes == {n \in SmallSizes(most) \cup {most} \cup DepthSizes(asks, most) :
                       AdmitsSize(n)}
           last == levels[Len(levels)].price
           Own(n) == AlphaCeiling(p, side, n, worth)
           first == levels[1].price
<1>1. /\ levels \in Seq(Level) /\ Len(levels) <= Len(asks)
      /\ \A i \in 1..Len(levels) :
           levels[i] = asks[i] /\ UnitCost[levels[i].price] < worth
  BY WorthWalkingFacts
<1>2. levels # <<>> /\ \E n \in sizes :
        c = [qty |-> n, price |-> IF Own(n) = 0 THEN last ELSE Lesser(Own(n), last)]
  BY DEF AlphaTakers
<1> HIDE DEF levels
<1>3. /\ Len(levels) \in Nat /\ 1 \in 1..Len(levels)
      /\ Len(levels) \in 1..Len(levels) /\ Len(asks) \in Nat
  BY <1>1, <1>2, EmptySeq
<1>4. first \in Prices /\ last \in Prices /\ UnitCost[first] < worth
  <2>1. first \in Prices
    BY <1>1, <1>3, LevelFields
  <2>2. last \in Prices
    BY <1>1, <1>3, LevelFields
  <2> QED BY <1>1, <1>3, <2>1, <2>2
<1>5. Ascending(levels)
  <2>1. DOMAIN levels = 1..Len(levels) /\ DOMAIN asks = 1..Len(asks)
    BY <1>1
  <2>2. \A i \in 1..Len(levels) : i \in DOMAIN asks /\ levels[i] = asks[i]
    BY <1>1, <1>3, <2>1
  <2> QED BY <2>1, <2>2 DEF Ascending
<1>6. DepthOf(levels) \in Nat
  BY <1>1, DepthNat
<1>7. fits \in SUBSET (0..DepthOf(levels))
  OBVIOUS
<1>8. most \in 0..DepthOf(levels) /\ \A n \in 1..most : n \in fits
  <2> HIDE DEF fits
  <2> QED BY <1>6, <1>7, WalkableFacts
<1> HIDE DEF most
<1>9. PICK n \in sizes :
        c = [qty |-> n, price |-> IF Own(n) = 0 THEN last ELSE Lesser(Own(n), last)]
  BY <1>2
<1>10. n \in Nat /\ 1 <= n /\ n <= most
  <2>1. most \in Int /\ n >= MinShares /\ MinShares \in Nat /\ 1 <= MinShares
    BY <1>6, <1>8, CandidateAssumption DEF AdmitsSize
  <2>2. n \in Int /\ n <= most
    BY <2>1, SmallSizesFacts, DepthSizesFacts
  <2> QED BY <2>1, <2>2
<1> DEFINE budget == Budget(p, side, n, GMin)
           paid == CostOfWalk(levels, n)
<1>11. n \in fits /\ n <= DepthOf(levels)
  BY <1>6, <1>8, <1>10
<1>12. /\ G(ApplyFill(p, side, n, paid)) >= GMin
       /\ ApplyFill(p, side, n, paid).C <= SpendCap
  BY <1>11 DEF WithinHardLimits, After
<1>13. paid \in Nat /\ n * UnitCost[first] <= paid
  BY <1>1, <1>2, <1>5, <1>10, <1>11, FirstPriceIsLeast DEF CostOfWalk
<1> HIDE DEF paid
<1>14. /\ budget \in Int
       /\ paid <= budget
  <2>1. G(ApplyFill(p, side, n, paid)) = G(ApplyFill(p, side, n, 0)) - paid
    BY <1>10, <1>13, MarginOfFill
  <2>2. ApplyFill(p, side, n, 0) \in Portfolio
    BY <1>10, FilledPortfolio
  <2>3. G(ApplyFill(p, side, n, 0)) \in Int /\ GMin \in Int
    BY <2>2, MarginInt, Constants
  <2>4. paid <= G(ApplyFill(p, side, n, 0)) - GMin
    BY <1>12, <1>13, <2>1, <2>3
  <2>5. p.C + paid <= SpendCap
    BY <1>12 DEF ApplyFill
  <2>6. paid \in Int
    BY <1>13
  <2> QED BY <1>10, <2>3, <2>4, <2>5, <2>6, BudgetFacts
<1>15. n * UnitCost[first] <= budget /\ n * UnitCost[first] \in Nat
  <2>1. UnitCost[first] \in Nat
    BY <1>4, PriceFacts
  <2>2. n * UnitCost[first] \in Nat
    BY <1>10, <2>1, Times
  <2> HIDE DEF budget
  <2> QED BY <1>13, <1>14, <2>2
<1> DEFINE safe == DearestWithin(budget, n)
           fair == DearestWithin(worth, 1)
<1>16. safe \in Prices /\ n * UnitCost[safe] <= budget /\ first <= safe
  <2> HIDE DEF budget
  <2>1. /\ safe # 0 => safe \in Prices /\ n * UnitCost[safe] <= budget
        /\ first <= safe /\ safe \in 0..Payout
    BY <1>4, <1>15, DearestFacts
  <2>2. safe # 0
    BY <1>4, <2>1, PriceFacts
  <2> QED BY <2>1, <2>2
<1>17. fair \in Prices
  <2>1. 1 * UnitCost[first] <= worth
    <3>1. UnitCost[first] \in Nat
      BY <1>4, PriceFacts
    <3> QED BY <1>4, <3>1
  <2>2. /\ fair # 0 => fair \in Prices
        /\ first <= fair /\ fair \in 0..Payout
    BY <1>4, <2>1, DearestFacts
  <2>3. fair # 0
    BY <1>4, <2>2, PriceFacts
  <2> QED BY <2>2, <2>3
<1>18. Own(n) = Lesser(safe, fair)
  BY DEF AlphaCeiling
<1> HIDE DEF safe, fair, Own
<1>19. c.qty = n /\ c.price \in Prices /\ c.price <= safe
  <2>1. /\ safe \in Nat /\ fair \in Nat /\ last \in Nat
        /\ safe # 0 /\ fair # 0
    BY <1>4, <1>16, <1>17, PriceFacts
  <2>2. Own(n) # 0
    BY <1>18, <2>1 DEF Lesser
  <2>3. c.qty = n /\ c.price = Lesser(Lesser(safe, fair), last)
    BY <1>9, <1>18, <2>2
  <2> HIDE DEF last
  <2> QED BY <1>4, <1>16, <1>17, <2>1, <2>3 DEF Lesser
<1>20. n * UnitCost[c.price] <= n * UnitCost[safe]
  <2>1. UnitCost[c.price] <= UnitCost[safe]
    BY <1>16, <1>19, PriceAssumption
  <2>2. UnitCost[c.price] \in Nat /\ UnitCost[safe] \in Nat
    BY <1>16, <1>19, PriceFacts
  <2> QED BY <1>10, <2>1, <2>2, Times
<1>21. n * UnitCost[c.price] <= budget
  <2>1. n * UnitCost[c.price] \in Int /\ n * UnitCost[safe] \in Int
    BY <1>10, <1>16, <1>19, PriceFacts, Times
  <2> HIDE DEF budget
  <2> QED BY <1>14, <1>16, <1>20, <2>1
<1>22. budget <= Budget(p, side, n, Lesser(GMin, G(p)))
  <2>1. ApplyFill(p, side, n, 0) \in Portfolio
    BY <1>10, FilledPortfolio
  <2>2. G(ApplyFill(p, side, n, 0)) \in Int /\ GMin \in Int /\ G(p) \in Int
    BY <2>1, MarginInt, Constants
  <2>3. Lesser(GMin, G(p)) \in Int /\ Lesser(GMin, G(p)) <= GMin
    BY <2>2 DEF Lesser
  <2>4. /\ budget <= G(ApplyFill(p, side, n, 0)) - GMin
        /\ budget <= SpendCap - p.C
    BY <1>10, <2>2, BudgetFacts
  <2> HIDE DEF budget
  <2>5. p.C \in Nat /\ SpendCap \in Nat
    BY PortfolioFields, Constants
  <2>6. /\ budget <= G(ApplyFill(p, side, n, 0)) - Lesser(GMin, G(p))
        /\ p.C + budget <= SpendCap
    BY <1>14, <2>2, <2>3, <2>4, <2>5
  <2> QED BY <1>10, <1>14, <2>3, <2>6, BudgetFacts
<1>23. n * UnitCost[c.price] <= Budget(p, side, n, Lesser(GMin, G(p)))
  <2>1. GMin \in Int /\ G(p) \in Int
    BY MarginInt, Constants
  <2>2. Lesser(GMin, G(p)) \in Int
    BY <2>1 DEF Lesser
  <2>3. Budget(p, side, n, Lesser(GMin, G(p))) \in Int
    BY <1>10, <2>2, BudgetFacts
  <2>4. n * UnitCost[c.price] \in Int
    BY <1>10, <1>19, PriceFacts, Times
  <2> HIDE DEF budget
  <2> QED BY <1>14, <1>21, <1>22, <2>3, <2>4
<1> QED
  BY <1>10, <1>19, <1>23 DEF Bounded

\* A recovery order's own limit keeps the margin held, or the floor.
LEMMA RecoveryFacts ==
  ASSUME NEW p \in Portfolio, NEW side, NEW x \in Nat, NEW purpose,
         RecoveryCeiling(p, side, x, purpose) # 0
  PROVE  LET limit == RecoveryCeiling(p, side, x, purpose)
         IN  /\ limit \in Prices
             /\ x * UnitCost[limit] <= Budget(p, side, x, Lesser(GMin, G(p)))
<1> DEFINE room == Budget(p, side, x, Lesser(GMin, G(p)))
           gain == G(ApplyFill(p, side, x, 0)) - G(p)
           cap == IF purpose = "BUFFER_BUILD" THEN Lesser(room, gain) ELSE room
           limit == DearestWithin(cap, x)
<1>1. RecoveryCeiling(p, side, x, purpose) = limit
  BY DEF RecoveryCeiling
<1>2. ApplyFill(p, side, x, 0) \in Portfolio
  BY FilledPortfolio
<1>3. gain \in Int /\ Lesser(GMin, G(p)) \in Int
  BY <1>2, MarginInt, Constants DEF Lesser
<1>4. room \in Int
  BY <1>3, BudgetFacts
<1> HIDE DEF room, gain
<1>5. cap \in Int /\ cap <= room
  BY <1>3, <1>4 DEF Lesser
<1> HIDE DEF cap
<1>6. limit \in Prices /\ x * UnitCost[limit] <= cap
  BY <1>1, DearestFacts
<1> HIDE DEF limit
<1>7. x * UnitCost[limit] \in Int
  BY <1>6, PriceFacts, Times
<1>8. x * UnitCost[limit] <= room
  BY <1>4, <1>5, <1>6, <1>7
<1> QED
  BY <1>1, <1>6, <1>8 DEF room

\* generate_hedge_candidate.
LEMMA HedgeBounded ==
  ASSUME NEW p \in Portfolio, NEW side \in Sides, NEW asks \in Seq(Level),
         NEW c \in Hedges(p, side, asks)
  PROVE  Bounded(p, side, c)
<1> DEFINE cost == UnitCost[asks[1].price]
           size == HedgeSize(p, cost)
           limit == RecoveryCeiling(p, side, size, "HEDGE")
<1>1. /\ G(p) < GMin /\ asks # <<>> /\ asks[1].price < Payout /\ limit > 0
      /\ c = [qty |-> size, price |-> limit]
  BY DEF Hedges
<1>2. asks[1].price \in Prices
  <2>1. 1 \in 1..Len(asks)
    BY <1>1, EmptySeq
  <2> QED BY <2>1, LevelFields
<1>3. cost \in Nat /\ cost < Payout /\ Payout \in Nat
  BY <1>1, <1>2, PriceFacts, CandidateAssumption, Constants
<1>4. G(p) \in Int /\ GMin \in Int
  BY MarginInt, Constants
<1> DEFINE gained == Payout - cost
<1>5. size = (GMin - G(p) + gained - 1) \div gained
  BY DEF HedgeSize
<1> HIDE DEF cost, size, limit
<1>6. size \in Nat
  <2>1. gained \in Nat /\ gained > 0
    BY <1>3
  <2>2. GMin - G(p) + gained - 1 \in Nat
    BY <1>1, <1>4, <2>1
  <2> HIDE DEF gained
  <2> QED BY <1>5, <2>1, <2>2
<1>7. limit # 0
  BY <1>1
<1>8. limit \in Prices /\ size * UnitCost[limit] <= Budget(p, side, size, Lesser(GMin, G(p)))
  BY <1>6, <1>7, RecoveryFacts DEF limit
<1>9. c.qty = size /\ c.price = limit
  BY <1>1
<1> QED
  BY <1>6, <1>8, <1>9 DEF Bounded

\* generate_buffer_build_candidates: the size proposed is what the walk gets,
\* a part of the size it was priced for.
LEMMA BufferBounded ==
  ASSUME NEW p \in Portfolio, NEW side \in Sides, NEW asks \in Seq(Level),
         NEW c \in BufferBuilds(p, side, asks)
  PROVE  Bounded(p, side, c)
<1> DEFINE top   == SubSeq(asks, 1, Lesser(DepthLevels, Len(asks)))
           gap   == IF side = "UP" THEN p.D - p.U ELSE p.U - p.D
           Held(n) == After(p, side, top, n)
           pays  == {n \in 0..DepthOf(top) : /\ G(Held(n)) >= G(p)
                                             /\ Held(n).C <= SpendCap}
           safe  == {n \in 0..DepthOf(top) : G(Held(n)) >= GMin}
           most  == Lesser(gap, Walkable(pays))
           sizes == {n \in SmallSizes(most) \cup {most} \cup DepthSizes(asks, most)
                             \cup {Lesser(most, Walkable(safe))} :
                       AdmitsSize(n)}
           Ceiling(n) == RecoveryCeiling(p, side, n, "BUFFER_BUILD")
           Walk(n)    == WalkDepth(asks, n, Ceiling(n))
<1>1. PICK n \in sizes : Ceiling(n) > 0 /\ c = [qty |-> Walk(n).filled, price |-> Ceiling(n)]
  BY DEF BufferBuilds
<1>2. top \in Seq(Level)
  <2> DEFINE k == Lesser(DepthLevels, Len(asks))
  <2>1. Len(asks) \in Nat /\ DepthLevels \in Nat
    BY CandidateAssumption
  <2>2. k \in Nat /\ k <= Len(asks)
    BY <2>1 DEF Lesser
  <2> HIDE DEF k
  <2>3. \A j \in 1..k : asks[j] \in Level
    BY <2>1, <2>2, ElementOfSeq
  <2>4. SubSeq(asks, 1, k) \in Seq(Level)
    BY <2>2, <2>3, SubSeqProperties
  <2> QED BY <2>4 DEF k
<1> HIDE DEF top
<1>3. DepthOf(top) \in Nat
  BY <1>2, DepthNat
<1>4. pays \in SUBSET (0..DepthOf(top)) /\ safe \in SUBSET (0..DepthOf(top))
  OBVIOUS
<1>5. Walkable(pays) \in Nat /\ Walkable(safe) \in Nat
  <2> HIDE DEF pays, safe
  <2>1. Walkable(pays) \in 0..DepthOf(top) /\ Walkable(safe) \in 0..DepthOf(top)
    BY <1>3, <1>4, WalkableFacts
  <2> QED BY <1>3, <2>1
<1>6. gap \in Int
  BY PortfolioFields
<1> HIDE DEF gap, pays, safe
<1>7. most \in Int /\ Lesser(most, Walkable(safe)) \in Int
  BY <1>5, <1>6 DEF Lesser
<1> HIDE DEF most
<1>8. n \in Int /\ n >= MinShares
  BY <1>7, SmallSizesFacts, DepthSizesFacts DEF AdmitsSize
<1>9. n \in Nat
  BY <1>8, CandidateAssumption
<1> HIDE DEF sizes
<1>10. Ceiling(n) # 0
  BY <1>1
<1>11. /\ Ceiling(n) \in Prices
       /\ n * UnitCost[Ceiling(n)] <= Budget(p, side, n, Lesser(GMin, G(p)))
  BY <1>9, <1>10, RecoveryFacts
<1> HIDE DEF Ceiling
<1>12. Walk(n).filled \in 0..n
  <2>1. \A j \in 1..Len(asks) : /\ UnitCost[asks[j].price] \in Nat
                                /\ UnitCost[asks[j].price] <= Payout
    BY LevelFields, PriceFacts
  <2>2. /\ 0 \in Nat /\ Payout \in Nat
        /\ \A j \in 1..Len(asks) : 0 <= UnitCost[asks[j].price]
    BY <2>1, Constants
  <2> QED BY <1>9, <2>1, <2>2, WalkCost
<1>13. c.qty = Walk(n).filled /\ c.price = Ceiling(n)
  BY <1>1
<1> HIDE DEF Walk
<1>14. c.qty \in Nat /\ c.qty <= n
  BY <1>9, <1>12, <1>13
<1> QED
  BY <1>9, <1>11, <1>13, <1>14 DEF Bounded

\* Every taker the controller may propose is bounded.
LEMMA TakersBounded ==
  ASSUME NEW p \in Portfolio, NEW side \in Sides,
         NEW asks \in Seq(Level), Ascending(asks), NEW worth \in Int,
         NEW purpose \in Purposes, NEW c \in Takers(p, side, asks, worth, purpose)
  PROVE  Bounded(p, side, c)
<1>1. CASE purpose = "ALPHA"
  BY <1>1, AlphaBounded DEF Takers
<1>2. CASE purpose = "HEDGE"
  BY <1>2, HedgeBounded DEF Takers
<1>3. CASE purpose = "BUFFER_BUILD"
  BY <1>3, BufferBounded DEF Takers
<1> QED
  BY <1>1, <1>2, <1>3 DEF Purposes

-----------------------------------------------------------------------------
(***************************************************************************)
(* The inductive invariant.                                                *)
(***************************************************************************)

\* Only takers wait for a match; an active order got nothing yet.
OrdersAreSound ==
  \A i \in 1..seq :
    /\ order[i].state = "PENDING_DELAY" => order[i].role = "TAKER"
    /\ i \in Active => /\ order[i].filled = 0
                       /\ order[i].paid = 0
                       /\ order[i].qty \in MinShares..PositionLimit

\* A review takes what it can see off a view that is not fresh, and comes
\* before the dispatch, which only a fresh view reaches.
ReviewIsThorough ==
  /\ phase = "dispatch" => view.data = "fresh"
  /\ phase # "review" => toReview = {}
  /\ setup.caller = "runner" /\ phase \in {"review", "idle"} /\ view.data # "fresh" =>
       \A i \in open \ toReview : order[i].side \notin view.usable

SessionInv ==
  /\ TypeOK
  /\ TrackedMatchesState
  /\ OrdersAreSound
  /\ ReviewIsThorough
  /\ phase # "closed" => now <= MaxTime

-----------------------------------------------------------------------------
(***************************************************************************)
(* Orders.                                                                 *)
(***************************************************************************)

\* The fields of an order.
LEMMA OrderFields ==
  ASSUME NEW o \in Order
  PROVE  /\ o.role \in Roles /\ o.side \in Sides /\ o.price \in Prices
         /\ o.qty \in Nat /\ o.filled \in Nat /\ o.paid \in Nat
         /\ o.submit \in Nat /\ o.matched \in Nat /\ o.ttl \in Nat
         /\ o.acted \in Nat /\ o.state \in States
  BY DEF Order

\* A slot without an order holds none.
LEMMA NoOrder == Unsubmitted \notin Order
  BY DEF Unsubmitted, Order, States

\* What an order may turn into when it ends: it keeps its terms, and what it
\* got is paid for within the cost it was admitted with.
EndOf(o, w) ==
  /\ w \in Order
  /\ w.role = o.role /\ w.side = o.side /\ w.price = o.price /\ w.qty = o.qty
  /\ w.filled \in 0..o.qty
  /\ w.paid \in 0..Lesser(o.qty * UnitPrice(o), w.filled * Payout)

\* The unit price of an order is a natural number, positive and at most what
\* a share settles for.
LEMMA UnitPriceFacts ==
  ASSUME NEW o \in Order
  PROVE  UnitPrice(o) \in Nat /\ 1 <= UnitPrice(o) /\ UnitPrice(o) <= Payout
<1>1. o.price \in Prices
  BY OrderFields
<1> QED
  BY <1>1, PriceFacts DEF UnitPrice

\* A walk ends an order that got nothing before, or leaves it as it is.
LEMMA WalkedEnds ==
  ASSUME NEW o \in Order, o.role = "TAKER", o.filled = 0, o.paid = 0,
         NEW asks \in Seq(Level)
  PROVE  /\ EndOf(o, Walked(o, asks))
         /\ \/ Walked(o, asks).state \in {"FILLED", "PARTIALLY_FILLED", "CANCELED"}
            \/ Walked(o, asks) = o /\ o.state # "PENDING_DELAY"
<1> DEFINE walk == WalkDepth(asks, o.qty, o.price)
<1>1. o.price \in Prices /\ o.qty \in Nat /\ UnitCost[o.price] \in Nat
      /\ UnitCost[o.price] <= Payout /\ Payout \in Nat
  BY OrderFields, PriceFacts, Constants
<1>2. /\ walk.filled \in 0..o.qty /\ walk.paid \in Nat
      /\ walk.paid <= walk.filled * UnitCost[o.price]
  <2>1. ASSUME NEW j \in 1..Len(asks)
        PROVE  /\ 0 <= UnitCost[asks[j].price]
               /\ asks[j].price <= o.price => UnitCost[asks[j].price] <= UnitCost[o.price]
    <3>1. asks[j].price \in Prices
      BY LevelFields
    <3>2. UnitCost[asks[j].price] \in Nat
      BY <3>1, PriceFacts
    <3>3. asks[j].price <= o.price => UnitCost[asks[j].price] <= UnitCost[o.price]
      <4>1. \A p, q \in Prices : p <= q => UnitCost[p] <= UnitCost[q]
        BY PriceAssumption
      <4> QED BY <1>1, <3>1, <4>1
    <3> QED BY <3>2, <3>3
  <2>2. 0 \in Nat
    OBVIOUS
  <2> QED BY <1>1, <2>1, <2>2, WalkCost
<1> HIDE DEF walk
<1>3. walk.filled \in Nat /\ walk.filled <= o.qty
  BY <1>1, <1>2
<1>4. /\ walk.paid <= o.qty * UnitCost[o.price]
      /\ walk.paid <= walk.filled * Payout
      /\ o.qty * UnitCost[o.price] \in Nat /\ walk.filled * Payout \in Nat
  <2>1. /\ walk.filled * UnitCost[o.price] <= o.qty * UnitCost[o.price]
        /\ walk.filled * UnitCost[o.price] <= walk.filled * Payout
    BY <1>1, <1>3, Times
  <2>2. /\ o.qty * UnitCost[o.price] \in Nat /\ walk.filled * Payout \in Nat
        /\ walk.filled * UnitCost[o.price] \in Nat
    BY <1>1, <1>3, Times
  <2> QED BY <1>2, <2>1, <2>2
<1>5. walk.paid \in 0..Lesser(o.qty * UnitPrice(o), walk.filled * Payout)
  BY <1>2, <1>4 DEF UnitPrice, Lesser
<1>6. 0 \in 0..o.qty /\ 0 \in 0..Lesser(o.qty * UnitPrice(o), 0 * Payout)
  <2>1. o.qty * UnitPrice(o) \in Nat /\ 0 * Payout = 0
    BY <1>1, UnitPriceFacts, Times
  <2> QED BY <1>1, <2>1 DEF Lesser
<1>7. CASE walk.filled > 0
  <2> DEFINE w == Reconciled(o, walk.filled, walk.paid)
  <2>1. Walked(o, asks) = w
    BY <1>7 DEF Walked, walk
  <2>2. /\ w.filled = walk.filled /\ w.paid = walk.paid
        /\ w.role = o.role /\ w.side = o.side /\ w.price = o.price /\ w.qty = o.qty
        /\ w.state \in {"FILLED", "PARTIALLY_FILLED"}
    BY DEF Reconciled, Order
  <2>3. w \in Order
    BY <1>2, <1>3 DEF Reconciled, Order, States
  <2> HIDE DEF w
  <2> QED BY <1>2, <1>5, <2>1, <2>2, <2>3 DEF EndOf
<1>8. CASE ~(walk.filled > 0) /\ o.state = "PENDING_DELAY"
  <2> DEFINE w == [o EXCEPT !.state = "CANCELED"]
  <2>1. Walked(o, asks) = w
    BY <1>8 DEF Walked, walk
  <2>2. /\ w.filled = 0 /\ w.paid = 0
        /\ w.role = o.role /\ w.side = o.side /\ w.price = o.price /\ w.qty = o.qty
        /\ w.state = "CANCELED" /\ w \in Order
    BY DEF Order, States
  <2> HIDE DEF w
  <2> QED BY <1>6, <2>1, <2>2 DEF EndOf
<1>9. CASE ~(walk.filled > 0) /\ o.state # "PENDING_DELAY"
  <2>1. Walked(o, asks) = o
    BY <1>9 DEF Walked, walk
  <2> QED BY <1>6, <1>9, <2>1 DEF EndOf
<1> QED
  BY <1>7, <1>8, <1>9

\* A full fill of a maker at its price ends it.
LEMMA FullFillEnds ==
  ASSUME NEW o \in Order, o.role = "MAKER"
  PROVE  EndOf(o, FullFill(o)) /\ FullFill(o).state = "FILLED"
<1> DEFINE w == FullFill(o)
<1>1. o.price \in Prices /\ o.qty \in Nat /\ o.price \in Nat
      /\ o.price <= Payout /\ Payout \in Nat
  BY OrderFields, PriceFacts, Constants
<1>2. /\ w.filled = o.qty /\ w.paid = o.qty * o.price
      /\ w.role = o.role /\ w.side = o.side /\ w.price = o.price /\ w.qty = o.qty
      /\ w.state = "FILLED"
  BY DEF FullFill, Reconciled, Order
<1>3. o.qty * o.price \in Nat /\ o.qty * Payout \in Nat
      /\ o.qty * o.price <= o.qty * Payout
  BY <1>1, Times
<1>4. w \in Order
  BY <1>1, <1>3 DEF FullFill, Reconciled, Order, States
<1> HIDE DEF w
<1>5. w.paid \in 0..Lesser(o.qty * UnitPrice(o), w.filled * Payout)
  BY <1>2, <1>3 DEF UnitPrice, Lesser
<1>6. w.filled \in 0..o.qty
  BY <1>1, <1>2
<1> QED
  BY <1>2, <1>4, <1>5, <1>6 DEF EndOf, w

\* An order that got nothing ends when it is canceled.
LEMMA CanceledEnds ==
  ASSUME NEW o \in Order, o.filled = 0, o.paid = 0, NEW w \in Order,
         w.role = o.role, w.side = o.side, w.price = o.price, w.qty = o.qty,
         w.filled = 0, w.paid = 0
  PROVE  EndOf(o, w)
<1>1. o.qty \in Nat /\ UnitPrice(o) \in Nat /\ Payout \in Nat
  BY OrderFields, UnitPriceFacts, Constants
<1>2. o.qty * UnitPrice(o) \in Nat /\ 0 * Payout = 0
  BY <1>1, Times
<1>3. 0 \in 0..o.qty /\ 0 \in 0..Lesser(o.qty * UnitPrice(o), 0 * Payout)
  BY <1>1, <1>2 DEF Lesser
<1> QED
  BY <1>3 DEF EndOf

-----------------------------------------------------------------------------
(***************************************************************************)
(* What the invariant says of the active orders, and their exposures.      *)
(***************************************************************************)

\* Active orders are handed-out ids with a legal order that got nothing yet;
\* the pending ones are takers, the open ones makers.
LEMMA ActiveOrders ==
  ASSUME SessionInv
  PROVE  /\ Active \in SUBSET OrderIds /\ Active \subseteq 1..seq
         /\ \A i \in Active : /\ order[i] \in Order
                              /\ order[i].filled = 0 /\ order[i].paid = 0
                              /\ order[i].qty \in MinShares..PositionLimit
         /\ \A i \in pending : /\ i \in Active /\ i \notin open
                               /\ order[i].role = "TAKER"
                               /\ order[i].state = "PENDING_DELAY"
         /\ \A i \in open : /\ i \in Active /\ i \notin pending
                            /\ order[i].role = "MAKER" /\ order[i].state = "OPEN"
<1>1. /\ pending \subseteq 1..seq /\ open \subseteq 1..seq /\ seq \in 0..MaxOrders
      /\ MaxOrders \in Nat /\ \A i \in OrderIds : order[i] \in Order <=> i <= seq
  BY Constants DEF SessionInv, TypeOK
<1>2. 1..seq \subseteq OrderIds
  BY <1>1 DEF OrderIds
<1>3. \A i \in 1..seq : order[i] \in Order
  BY <1>1, <1>2
<1> QED
  BY <1>1, <1>2, <1>3 DEF SessionInv, TrackedMatchesState, OrdersAreSound, Active

\* The id after the last one is free.
LEMMA NextId ==
  ASSUME SessionInv, NEW k \in OrderIds, k = seq + 1
  PROVE  /\ k \notin Active /\ k \notin 1..seq
         /\ order[k] = Unsubmitted
         /\ 1..k = (1..seq) \cup {k}
<1>1. seq \in Nat /\ order[k] \in Order \cup {Unsubmitted}
      /\ (order[k] \in Order <=> k <= seq)
  BY Constants DEF SessionInv, TypeOK
<1> QED
  BY <1>1, ActiveOrders

\* The exposure of an order that got nothing yet.
LEMMA ExposureOfFacts ==
  ASSUME NEW o \in Order, o.filled = 0
  PROVE  /\ ExposureOf(o) \in Exposure
         /\ ExposureOf(o).side = o.side /\ ExposureOf(o).qty = o.qty
         /\ ExposureOf(o).cost = o.qty * UnitPrice(o)
<1>1. o.qty \in Nat /\ o.side \in Sides /\ UnitPrice(o) \in Nat
  BY OrderFields, UnitPriceFacts
<1>2. o.qty - o.filled = o.qty /\ o.qty * UnitPrice(o) \in Nat
  BY <1>1, Times
<1> QED
  BY <1>1, <1>2 DEF ExposureOf, Exposure

\* The exposures of orders that got nothing yet.
LEMMA ExposuresTyped ==
  ASSUME NEW orders, NEW A,
         \A i \in A \cap OrderIds : orders[i] \in Order /\ orders[i].filled = 0
  PROVE  /\ Exposures(orders, A) \in [OrderIds -> Exposure]
         /\ \A i \in OrderIds :
              Exposures(orders, A)[i] = IF i \in A THEN ExposureOf(orders[i]) ELSE Idle
<1>1. Idle \in Exposure
  BY DEF Idle, Exposure, Sides
<1>2. \A i \in A \cap OrderIds : ExposureOf(orders[i]) \in Exposure
  BY ExposureOfFacts
<1> QED
  BY <1>1, <1>2 DEF Exposures

\* The book an order k is admitted in, next to some of the active orders.
Booked(k, new, A) == Exposures([order EXCEPT ![k] = new], A \cup {k})

\* In that book the new order stands next to the others as they are.
LEMMA AdmissionBook ==
  ASSUME SessionInv, NEW k \in OrderIds, k = seq + 1, NEW A \in SUBSET Active,
         NEW new \in Order, new.filled = 0
  PROVE  /\ Booked(k, new, A) \in [OrderIds -> Exposure]
         /\ Booked(k, new, A)[k] = ExposureOf(new)
         /\ \A i \in OrderIds : i # k =>
              Booked(k, new, A)[i] = IF i \in A THEN ExposureOf(order[i]) ELSE Idle
<1> DEFINE orders == [order EXCEPT ![k] = new]
<1>1. /\ orders[k] = new /\ \A i \in OrderIds : i # k => orders[i] = order[i]
  BY DEF SessionInv, TypeOK
<1>2. \A i \in (A \cup {k}) \cap OrderIds : orders[i] \in Order /\ orders[i].filled = 0
  <2> HIDE DEF orders
  <2> QED BY <1>1, ActiveOrders
<1> HIDE DEF orders
<1>3. /\ Exposures(orders, A \cup {k}) \in [OrderIds -> Exposure]
      /\ \A i \in OrderIds : Exposures(orders, A \cup {k})[i]
                          = IF i \in A \cup {k} THEN ExposureOf(orders[i]) ELSE Idle
  BY <1>2, ExposuresTyped
<1> QED
  BY <1>1, <1>3 DEF orders, Booked

\* The risk view admits no order beyond the position limit.
LEMMA AdmittedQty ==
  ASSUME SessionInv, NEW k \in OrderIds, k = seq + 1, NEW A \in SUBSET Active,
         NEW new \in Order, new.filled = 0, NEW purpose,
         AdmitsOrder(new, k, A, purpose)
  PROVE  new.qty <= PositionLimit
<1> DEFINE ex == Booked(k, new, A)
<1>1. ex \in [OrderIds -> Exposure] /\ ex[k] = ExposureOf(new)
  BY AdmissionBook
<1>2. /\ pf.U + SharesOn(ex, A \cup {k}, "UP") <= PositionLimit
      /\ pf.D + SharesOn(ex, A \cup {k}, "DOWN") <= PositionLimit
  BY DEF AdmitsOrder, Admits, Booked
<1> HIDE DEF ex
<1>3. new.side \in Sides /\ new.qty \in Nat /\ ex[k].side = new.side /\ ex[k].qty = new.qty
  BY <1>1, ExposureOfFacts, OrderFields
<1>4. pf.U \in Nat /\ pf.D \in Nat /\ PositionLimit \in Nat
  BY PortfolioFields, Constants DEF SessionInv, TypeOK
<1>5. /\ SharesOn(ex, A \cup {k}, new.side) \in Nat
      /\ new.qty <= SharesOn(ex, A \cup {k}, new.side)
  BY <1>1, <1>3, OwnShares
<1>6. CASE new.side = "UP"
  BY <1>2, <1>3, <1>4, <1>5, <1>6
<1>7. CASE new.side = "DOWN"
  BY <1>2, <1>3, <1>4, <1>5, <1>7
<1> QED
  BY <1>3, <1>6, <1>7 DEF Sides

-----------------------------------------------------------------------------
(***************************************************************************)
(* The forms a step of the books takes.                                    *)
(***************************************************************************)

\* An active order ends, and what it got is credited.
Ends(i, w) ==
  /\ i \in Active
  /\ EndOf(order[i], w)
  /\ w.state \notin {"PENDING_DELAY", "OPEN"}
  /\ order' = [order EXCEPT ![i] = w]
  /\ pf' = ApplyFill(pf, w.side, w.filled, w.paid)
  /\ pending' = pending \ {i} /\ open' = open \ {i}
  /\ seq' = seq

\* The next order, admitted beside A.
Fits(k, new, A, purpose) ==
  /\ k = seq + 1 /\ k \in OrderIds
  /\ new \in Order /\ new.filled = 0 /\ new.paid = 0
  /\ new.qty \in MinShares..PositionLimit
  /\ AdmitsOrder(new, k, A, purpose)

\* A taker starts waiting for its match, or a maker starts resting.
Submits(k, new, purpose) ==
  /\ Fits(k, new, Active, purpose)
  /\ order' = [order EXCEPT ![k] = new]
  /\ seq' = k /\ pf' = pf
  /\ \/ /\ new.role = "TAKER" /\ new.state = "PENDING_DELAY"
        /\ pending' = pending \cup {k} /\ open' = open
     \/ /\ new.role = "MAKER" /\ new.state = "OPEN" /\ ~IsRecovery(purpose)
        /\ open' = open \cup {k} /\ pending' = pending

\* A taker is matched as it is submitted.
Executes(k, new, w, purpose) ==
  /\ Fits(k, new, Active, purpose)
  /\ new.role = "TAKER"
  /\ EndOf(new, w) /\ w.state # "PENDING_DELAY"
  /\ order' = [order EXCEPT ![k] = w]
  /\ seq' = k /\ pf' = ApplyFill(pf, w.side, w.filled, w.paid)
  /\ pending' = pending /\ open' = open

\* A resting order makes way for the next one, admitted without it.
Replaces(i, w, k, new) ==
  /\ i \in open
  /\ EndOf(order[i], w) /\ w.filled = 0 /\ w.paid = 0 /\ w.state = "CANCELED"
  /\ Fits(k, new, Active \ {i}, "ALPHA")
  /\ new.role = "MAKER" /\ new.state = "OPEN"
  /\ order' = [order EXCEPT ![i] = w, ![k] = new]
  /\ seq' = k /\ pf' = pf
  /\ pending' = pending /\ open' = (open \ {i}) \cup {k}

BookStep ==
  \/ \E i, w : Ends(i, w)
  \/ \E k, new, purpose : Submits(k, new, purpose)
  \/ \E k, new, w, purpose : Executes(k, new, w, purpose)
  \/ \E i, w, k, new : Replaces(i, w, k, new)
  \/ UNCHANGED book

\* What every step does to the rest of the state.
Control ==
  /\ setup' = setup
  /\ now' \in Nat /\ (phase' # "closed" => now' <= MaxTime)
  /\ phase' \in {"idle", "resolve", "review", "dispatch", "closed"}
  /\ view' \in View
  /\ toReview' \subseteq open'

\* A fill of nothing.
LEMMA NothingFilled ==
  ASSUME NEW p \in Portfolio, NEW side
  PROVE  ApplyFill(p, side, 0, 0) = p
<1>1. p.U \in Nat /\ p.D \in Nat /\ p.C \in Nat
      /\ p = [U |-> p.U, D |-> p.D, C |-> p.C]
  BY DEF Portfolio
<1> QED
  BY <1>1 DEF ApplyFill

\* The times of a session before its round is closed.
LEMMA SessionTimes ==
  ASSUME SessionInv
  PROVE  /\ now \in Nat /\ setup \in Setups /\ setup.delay \in Nat /\ pf \in Portfolio
         /\ phase # "closed" => now <= MaxTime /\ MaxTime - now \in Nat
<1>1. now \in Nat /\ setup \in Setups /\ pf \in Portfolio
      /\ (phase # "closed" => now <= MaxTime)
  BY DEF SessionInv, TypeOK
<1>2. MaxTime \in Nat /\ setup.delay \in Nat
  BY <1>1, SessionConstants
<1> QED
  BY <1>1, <1>2

\* resolve_ready_takers ends a waiting taker.
LEMMA ResolveForm ==
  ASSUME SessionInv, NEW i \in OrderIds, ResolveTaker(i)
  PROVE  (\E w : Ends(i, w)) /\ Control
<1>1. PICK asks \in Ladders : order' = [order EXCEPT ![i] = Walked(order[i], asks)]
  BY DEF ResolveTaker
<1> DEFINE w == Walked(order[i], asks)
<1>2. /\ i \in pending /\ i \in Active /\ i \notin open
      /\ order[i] \in Order /\ order[i].role = "TAKER"
      /\ order[i].filled = 0 /\ order[i].paid = 0 /\ order[i].state = "PENDING_DELAY"
  BY ActiveOrders DEF ResolveTaker, Ready
<1>3. asks \in Seq(Level)
  BY SessionConstants
<1>4. /\ EndOf(order[i], w)
      /\ w.state \in {"FILLED", "PARTIALLY_FILLED", "CANCELED"}
  BY <1>2, <1>3, WalkedEnds
<1> HIDE DEF w
<1>5. order' = [order EXCEPT ![i] = w] /\ order'[i] = w
  BY <1>1 DEF w, SessionInv, TypeOK
<1>6. /\ pf' = ApplyFill(pf, w.side, w.filled, w.paid)
      /\ pending' = pending \ {i} /\ open' = open /\ seq' = seq
      /\ setup' = setup /\ now' = now /\ phase' = phase /\ view' = view
      /\ toReview' = toReview /\ phase = "resolve"
  BY <1>5 DEF ResolveTaker, Credit
<1>7. Ends(i, w)
  BY <1>2, <1>4, <1>5, <1>6 DEF Ends
<1>8. Control
  BY <1>6, SessionTimes DEF Control, SessionInv, TypeOK
<1> QED
  BY <1>7, <1>8

\* What a review of one order leaves alone.
LEMMA ReviewControl ==
  ASSUME SessionInv, NEW i \in OrderIds, Reviewing(i), open \ {i} \subseteq open'
  PROVE  /\ Control /\ pending' = pending /\ phase' = phase /\ phase = "review"
         /\ view' = view
         /\ i \in open /\ toReview' = toReview \ {i}
<1>1. /\ setup' = setup /\ pending' = pending /\ now' = now /\ phase' = phase
      /\ view' = view /\ toReview' = toReview \ {i} /\ phase = "review" /\ i \in toReview
  BY DEF Reviewing
<1>2. toReview \subseteq open /\ view \in View
  BY DEF SessionInv, TypeOK
<1> QED
  BY <1>1, <1>2, SessionTimes DEF Control

\* _expire_maker ends a resting order.
LEMMA ExpireForm ==
  ASSUME SessionInv, NEW i \in OrderIds, Expire(i)
  PROVE  (\E w : Ends(i, w)) /\ Control
<1>1. Reviewing(i) /\ open' = open \ {i} /\ seq' = seq /\ pf' = Credit(order'[i])
  BY DEF Expire
<1>2. Control /\ pending' = pending /\ i \in open
  BY <1>1, ReviewControl
<1>3. /\ i \in Active /\ i \notin pending /\ order[i] \in Order
      /\ order[i].role = "MAKER" /\ order[i].filled = 0 /\ order[i].paid = 0
  BY <1>2, ActiveOrders
<1> DEFINE canceled == [order[i] EXCEPT !.state = "CANCELED"]
<1>4. EndOf(order[i], canceled) /\ canceled.state = "CANCELED"
  <2>1. /\ canceled \in Order /\ canceled.role = order[i].role
        /\ canceled.side = order[i].side /\ canceled.price = order[i].price
        /\ canceled.qty = order[i].qty /\ canceled.filled = 0 /\ canceled.paid = 0
        /\ canceled.state = "CANCELED"
    BY <1>3 DEF Order, States
  <2> HIDE DEF canceled
  <2> QED BY <1>3, <2>1, CanceledEnds
<1>5. EndOf(order[i], FullFill(order[i])) /\ FullFill(order[i]).state = "FILLED"
  BY <1>3, FullFillEnds
<1>6. PICK w \in {canceled, FullFill(order[i])} : order' = [order EXCEPT ![i] = w]
  BY DEF Expire
<1> HIDE DEF canceled
<1>7. EndOf(order[i], w) /\ w.state \notin {"PENDING_DELAY", "OPEN"}
  BY <1>4, <1>5
<1>8. order'[i] = w
  BY <1>6 DEF SessionInv, TypeOK
<1>9. Ends(i, w)
  BY <1>1, <1>2, <1>3, <1>6, <1>7, <1>8 DEF Ends, Credit
<1> QED
  BY <1>2, <1>9

\* The canceled form of a resting order.
LEMMA CancelOfMaker ==
  ASSUME SessionInv, NEW i \in open
  PROVE  LET w == [order[i] EXCEPT !.state = "CANCELED", !.acted = now]
         IN  /\ EndOf(order[i], w) /\ w.filled = 0 /\ w.paid = 0
             /\ w.state = "CANCELED"
<1> DEFINE w == [order[i] EXCEPT !.state = "CANCELED", !.acted = now]
<1>1. order[i] \in Order /\ order[i].filled = 0 /\ order[i].paid = 0 /\ now \in Nat
  BY ActiveOrders, SessionTimes
<1>2. /\ w \in Order /\ w.role = order[i].role
      /\ w.side = order[i].side /\ w.price = order[i].price
      /\ w.qty = order[i].qty /\ w.filled = 0 /\ w.paid = 0
      /\ w.state = "CANCELED"
  BY <1>1 DEF Order, States
<1> HIDE DEF w
<1>3. EndOf(order[i], w)
  BY <1>1, <1>2, CanceledEnds
<1> QED
  BY <1>2, <1>3 DEF w

\* A canceled order ends with nothing.
LEMMA CancelForm ==
  ASSUME SessionInv, NEW i \in OrderIds, Cancel(i)
  PROVE  (\E w : Ends(i, w)) /\ Control
<1> DEFINE w == [order[i] EXCEPT !.state = "CANCELED", !.acted = now]
<1>1. Reviewing(i) /\ open' = open \ {i} /\ seq' = seq /\ pf' = pf
      /\ order' = [order EXCEPT ![i] = w]
  BY DEF Cancel, SessionInv, TypeOK
<1>2. Control /\ pending' = pending /\ i \in open
  BY <1>1, ReviewControl
<1>3. i \in Active /\ i \notin pending
  BY <1>2, ActiveOrders
<1>4. EndOf(order[i], w) /\ w.filled = 0 /\ w.paid = 0 /\ w.state = "CANCELED"
  BY <1>2, CancelOfMaker
<1> HIDE DEF w
<1>5. pf' = ApplyFill(pf, w.side, w.filled, w.paid)
  BY <1>1, <1>4, SessionTimes, NothingFilled
<1>6. Ends(i, w)
  BY <1>1, <1>2, <1>3, <1>4, <1>5 DEF Ends
<1> QED
  BY <1>2, <1>6

\* Makers are quoted on the price grid.
LEMMA GridPricesAreLegal == GridPrices \subseteq Prices
  BY DEF GridPrices, MakerPrices

\* A maker order is a legal order that got nothing yet.
LEMMA MakerOrderFacts ==
  ASSUME SessionInv, NEW side \in Sides, NEW price \in Prices, NEW qty \in Nat,
         NEW ttl \in Nat
  PROVE  LET o == MakerOrder(side, price, qty, ttl)
         IN  /\ o \in Order /\ o.role = "MAKER" /\ o.state = "OPEN"
             /\ o.side = side /\ o.qty = qty /\ o.filled = 0 /\ o.paid = 0
  BY SessionTimes DEF MakerOrder, Order, Roles, States

\* A taker order is a legal order that got nothing yet.
LEMMA TakerOrderFacts ==
  ASSUME SessionInv, NEW side \in Sides, NEW price \in Prices, NEW qty \in Nat
  PROVE  LET o == TakerOrder(side, price, qty)
         IN  /\ o \in Order /\ o.role = "TAKER"
             /\ o.state = IF setup.delay > 0 THEN "PENDING_DELAY" ELSE "OPEN"
             /\ o.side = side /\ o.qty = qty /\ o.filled = 0 /\ o.paid = 0
<1>1. now \in Nat /\ now + setup.delay \in Nat
  BY SessionTimes
<1> QED
  BY <1>1 DEF TakerOrder, Order, Roles, States

\* A size the hard limits' check lets through, and the risk view after it.
LEMMA ValidFits ==
  ASSUME SessionInv, NEW k \in OrderIds, k = seq + 1, NEW A \in SUBSET Active,
         NEW new \in Order, new.filled = 0, new.paid = 0, NEW purpose, NEW after,
         NEW kind, Valid(pf, after, kind, new.qty), AdmitsOrder(new, k, A, purpose)
  PROVE  Fits(k, new, A, purpose)
<1>1. new.qty \in Nat /\ MinShares \in Nat /\ PositionLimit \in Nat
  BY OrderFields, Constants, CandidateAssumption
<1>2. new.qty >= MinShares
  BY DEF Valid, AdmitsSize
<1>3. new.qty <= PositionLimit
  BY AdmittedQty
<1> QED
  BY <1>1, <1>2, <1>3 DEF Fits

\* REPLACE: the old quote ends, the next order rests on the same side.
LEMMA RepriceForm ==
  ASSUME SessionInv, NEW i \in OrderIds, Reprice(i)
  PROVE  (\E w, k, new : Replaces(i, w, k, new)) /\ Control
<1> DEFINE k == seq + 1
           w == [order[i] EXCEPT !.state = "CANCELED", !.acted = now]
<1>1. /\ Reviewing(i) /\ seq' = k /\ pf' = pf /\ open' = (open \ {i}) \cup {k}
      /\ seq < MaxOrders
  BY DEF Reprice
<1>2. Control /\ pending' = pending /\ i \in open
  BY <1>1, ReviewControl
<1>3. /\ order[i] \in Order /\ Active \ {i} \in SUBSET Active /\ i \in 1..seq
  BY <1>2, ActiveOrders
<1>4. k \in OrderIds /\ k # i
  BY <1>1, <1>3, Constants DEF SessionInv, TypeOK, OrderIds
<1>5. PICK price \in GridPrices :
        LET new == MakerOrder(order[i].side, price, order[i].qty, order[i].ttl)
        IN  /\ MakerValid(pf, new.side, new.qty, price)
            /\ AdmitsOrder(new, k, Active \ {i}, "ALPHA")
            /\ order' = [order EXCEPT ![i].state = "CANCELED",
                                      ![i].acted = now, ![k] = new]
  BY DEF Reprice
<1> DEFINE new == MakerOrder(order[i].side, price, order[i].qty, order[i].ttl)
<1>6. /\ new \in Order /\ new.role = "MAKER" /\ new.state = "OPEN"
      /\ new.filled = 0 /\ new.paid = 0
  BY <1>3, GridPricesAreLegal, OrderFields, MakerOrderFacts
<1>7. MakerValid(pf, new.side, new.qty, price) /\ AdmitsOrder(new, k, Active \ {i}, "ALPHA")
  BY <1>5
<1>8. order' = [order EXCEPT ![i] = w, ![k] = new]
  <2>1. order' = [order EXCEPT ![i].state = "CANCELED", ![i].acted = now, ![k] = new]
    BY <1>5
  <2> HIDE DEF new, k
  <2> QED BY <1>4, <2>1 DEF SessionInv, TypeOK
<1>9. EndOf(order[i], w) /\ w.filled = 0 /\ w.paid = 0 /\ w.state = "CANCELED"
  BY <1>2, CancelOfMaker
<1> HIDE DEF new, w
<1>10. Fits(k, new, Active \ {i}, "ALPHA")
  <2>1. \E after : Valid(pf, after, "ALPHA", new.qty)
    BY <1>7 DEF MakerValid
  <2> QED BY <1>3, <1>4, <1>6, <1>7, <2>1, ValidFits
<1>11. Replaces(i, w, k, new)
  BY <1>1, <1>2, <1>6, <1>8, <1>9, <1>10 DEF Replaces
<1> QED
  BY <1>2, <1>11

\* What a submission does to the rest of the state.
LEMMA SubmittingControl ==
  ASSUME SessionInv, Submitting, open \subseteq open'
  PROVE  /\ Control /\ seq' = seq + 1 /\ seq + 1 \in OrderIds
         /\ phase' = "idle" /\ phase = "dispatch" /\ view' = view /\ toReview' = toReview
<1>1. /\ phase = "dispatch" /\ seq < MaxOrders /\ seq' = seq + 1 /\ phase' = "idle"
      /\ setup' = setup /\ now' = now /\ view' = view /\ toReview' = toReview
  BY DEF Submitting
<1>2. toReview \subseteq open /\ view \in View /\ seq \in 0..MaxOrders /\ MaxOrders \in Nat
  BY Constants DEF SessionInv, TypeOK
<1>3. seq + 1 \in OrderIds
  BY <1>1, <1>2 DEF OrderIds
<1> QED
  BY <1>1, <1>2, <1>3, SessionTimes DEF Control

\* What a share may be worth is a number.
LEMMA WorthsInt == Worths \subseteq Int
  BY PriceFacts DEF Worths

\* A valid taker is queued for its match, or walked at once.
LEMMA SubmitTakerForm ==
  ASSUME SessionInv, NEW side \in Sides, NEW purpose \in Purposes,
         SubmitTaker(side, purpose)
  PROVE  /\ \/ \E k, new : Submits(k, new, purpose)
            \/ \E k, new, w : Executes(k, new, w, purpose)
         /\ Control
<1> DEFINE k == seq + 1
<1>1. /\ Submitting /\ open' = open /\ pf' = Credit(order'[k])
      /\ pending' = IF setup.delay > 0 THEN pending \cup {k} ELSE pending
  BY DEF SubmitTaker
<1>2. Control /\ k \in OrderIds /\ seq' = k
  BY <1>1, SubmittingControl
<1>3. PICK asks \in Ladders, worth \in Worths :
        \E c \in Takers(pf, side, asks, worth, purpose) :
          LET new == TakerOrder(side, c.price, c.qty)
          IN  /\ TakerValid(pf, side, asks, c, purpose)
              /\ AdmitsOrder(new, k, Active, purpose)
              /\ order' = [order EXCEPT ![k] = IF setup.delay > 0 THEN new
                                              ELSE Walked(new, asks)]
  BY DEF SubmitTaker
<1>4. PICK c \in Takers(pf, side, asks, worth, purpose) :
        LET new == TakerOrder(side, c.price, c.qty)
        IN  /\ TakerValid(pf, side, asks, c, purpose)
            /\ AdmitsOrder(new, k, Active, purpose)
            /\ order' = [order EXCEPT ![k] = IF setup.delay > 0 THEN new
                                            ELSE Walked(new, asks)]
  BY <1>3
<1>5. asks \in Seq(Level) /\ Ascending(asks) /\ worth \in Int
  BY SessionConstants, WorthsInt
<1>6. c.price \in Prices /\ c.qty \in Nat
  BY <1>5, SessionTimes, TakersBounded DEF Bounded
<1> DEFINE new == TakerOrder(side, c.price, c.qty)
<1>7. /\ new \in Order /\ new.role = "TAKER" /\ new.filled = 0 /\ new.paid = 0
      /\ new.qty = c.qty
      /\ new.state = IF setup.delay > 0 THEN "PENDING_DELAY" ELSE "OPEN"
  BY <1>6, TakerOrderFacts
<1>8. TakerValid(pf, side, asks, c, purpose) /\ AdmitsOrder(new, k, Active, purpose)
  BY <1>4
<1>9. order' = [order EXCEPT ![k] = IF setup.delay > 0 THEN new ELSE Walked(new, asks)]
  BY <1>4
<1> HIDE DEF new
<1>10. Fits(k, new, Active, purpose)
  <2>1. \E after : Valid(pf, after, purpose, new.qty)
    BY <1>7, <1>8 DEF TakerValid
  <2> QED BY <1>2, <1>7, <1>8, <2>1, ValidFits
<1>11. CASE setup.delay > 0
  <2>1. order' = [order EXCEPT ![k] = new] /\ order'[k] = new
    BY <1>2, <1>9, <1>11 DEF SessionInv, TypeOK
  <2>2. pf' = pf
    BY <1>1, <1>7, <2>1, SessionTimes, NothingFilled DEF Credit
  <2>3. Submits(k, new, purpose)
    <3> HIDE DEF k
    <3> QED BY <1>1, <1>2, <1>7, <1>10, <1>11, <2>1, <2>2 DEF Submits
  <2> QED BY <1>2, <2>3
<1>12. CASE ~(setup.delay > 0)
  <2> DEFINE w == Walked(new, asks)
  <2>1. EndOf(new, w) /\ w.state # "PENDING_DELAY"
    BY <1>5, <1>7, <1>12, WalkedEnds
  <2>2. order' = [order EXCEPT ![k] = w] /\ order'[k] = w
    BY <1>2, <1>9, <1>12 DEF SessionInv, TypeOK
  <2> HIDE DEF w, k
  <2>3. pf' = ApplyFill(pf, w.side, w.filled, w.paid)
    BY <1>1, <2>2 DEF Credit
  <2>4. Executes(k, new, w, purpose)
    BY <1>1, <1>2, <1>7, <1>10, <1>12, <2>1, <2>2, <2>3 DEF Executes
  <2> QED BY <1>2, <2>4
<1> QED
  BY <1>11, <1>12

\* The sizes and lifetimes a maker may have.
LEMMA MakerTerms ==
  ASSUME SessionInv, phase # "closed", NEW side, NEW price, NEW isDynamic
  PROVE  /\ MakerSizes(pf, side, price, isDynamic) \subseteq Nat
         /\ MakerLifetimes(MakerHorizon, MaxTime - now, isDynamic) \subseteq Nat
<1>1. MakerRoom(pf, side, price) \in Nat
  <2> DEFINE S == {n \in 0..PositionLimit :
                     \A m \in 0..n : WithinHardLimits(ApplyFill(pf, side, m, m * price))}
  <2>1. S \subseteq 0..PositionLimit /\ PositionLimit \in Nat
    BY Constants
  <2> HIDE DEF S
  <2>2. Max({0} \cup S) \in 0..PositionLimit
    BY <2>1, MaxNat
  <2> QED BY <2>1, <2>2 DEF MakerRoom, S
<1>2. MakerSize \in Nat /\ MinShares \in Nat
  BY CandidateAssumption
<1>3. DynamicSizes(pf, side, price) \subseteq Nat
  BY <1>1, <1>2 DEF DynamicSizes, Lesser
<1>4. MakerHorizon \in Nat /\ MaxTime - now \in Nat
  BY SessionConstants, SessionTimes
<1> QED
  BY <1>2, <1>3, <1>4 DEF MakerSizes, MakerLifetimes, Lesser, Greater

\* A valid maker starts resting.
LEMMA SubmitMakerForm ==
  ASSUME SessionInv, NEW side \in Sides, SubmitMaker(side)
  PROVE  (\E k, new : Submits(k, new, "ALPHA")) /\ Control
<1> DEFINE k == seq + 1
<1>1. Submitting /\ open' = open \cup {k} /\ pf' = pf /\ pending' = pending
  BY DEF SubmitMaker
<1>2. Control /\ k \in OrderIds /\ seq' = k /\ phase = "dispatch"
  BY <1>1, SubmittingControl
<1>3. PICK price \in GridPrices :
        \E qty \in MakerSizes(pf, side, price, setup.isDynamic),
           ttl \in MakerLifetimes(MakerHorizon, MaxTime - now, setup.isDynamic) :
          LET new == MakerOrder(side, price, qty, ttl)
          IN  /\ MakerValid(pf, side, qty, price)
              /\ AdmitsOrder(new, k, Active, "ALPHA")
              /\ order' = [order EXCEPT ![k] = new]
  BY DEF SubmitMaker
<1>4. PICK qty \in MakerSizes(pf, side, price, setup.isDynamic),
           ttl \in MakerLifetimes(MakerHorizon, MaxTime - now, setup.isDynamic) :
          LET new == MakerOrder(side, price, qty, ttl)
          IN  /\ MakerValid(pf, side, qty, price)
              /\ AdmitsOrder(new, k, Active, "ALPHA")
              /\ order' = [order EXCEPT ![k] = new]
  BY <1>3
<1>5. price \in Prices /\ qty \in Nat /\ ttl \in Nat
  BY <1>2, GridPricesAreLegal, MakerTerms
<1> DEFINE new == MakerOrder(side, price, qty, ttl)
<1>6. /\ new \in Order /\ new.role = "MAKER" /\ new.state = "OPEN"
      /\ new.filled = 0 /\ new.paid = 0 /\ new.qty = qty
  BY <1>5, MakerOrderFacts
<1>7. /\ MakerValid(pf, side, qty, price) /\ AdmitsOrder(new, k, Active, "ALPHA")
      /\ order' = [order EXCEPT ![k] = new]
  BY <1>4
<1> HIDE DEF new
<1>8. Fits(k, new, Active, "ALPHA")
  <2>1. \E after : Valid(pf, after, "ALPHA", new.qty)
    BY <1>6, <1>7 DEF MakerValid
  <2> QED BY <1>2, <1>6, <1>7, <2>1, ValidFits
<1>9. ~IsRecovery("ALPHA")
  BY DEF IsRecovery
<1>10. Submits(k, new, "ALPHA")
  <2> HIDE DEF k
  <2> QED BY <1>1, <1>2, <1>6, <1>7, <1>8, <1>9 DEF Submits
<1> QED
  BY <1>2, <1>10

\* Every step takes one of the forms.
LEMMA StepForms ==
  ASSUME SessionInv, [Next]_vars
  PROVE  BookStep /\ Control
<1> USE DEF BookStep
<1>1. view \in View /\ toReview \subseteq open /\ now \in Nat
      /\ phase \in {"idle", "resolve", "review", "dispatch", "closed"}
  BY DEF SessionInv, TypeOK
<1>2. CASE Begin
  <2>1. now + 1 \in Nat /\ MaxTime \in Nat
    BY <1>1, SessionConstants
  <2> QED BY <1>1, <1>2, <2>1 DEF Begin, Control, book
<1>3. ASSUME NEW i \in OrderIds, ResolveTaker(i) PROVE BookStep /\ Control
  BY <1>3, ResolveForm
<1>4. CASE ResolveRaises
  BY <1>1, <1>4, SessionTimes DEF ResolveRaises, Control, book
<1>5. CASE ResolveDone
  BY <1>1, <1>5, SessionTimes DEF ResolveDone, Reviewed, Control, book
<1>6. ASSUME NEW i \in OrderIds, Hold(i) PROVE BookStep /\ Control
  <2>1. open' = open /\ Reviewing(i)
    BY <1>6 DEF Hold
  <2>2. Control
    BY <2>1, ReviewControl
  <2> QED BY <1>6, <2>2 DEF Hold, Reviewing, book
<1>7. ASSUME NEW i \in OrderIds, Expire(i) PROVE BookStep /\ Control
  BY <1>7, ExpireForm
<1>8. ASSUME NEW i \in OrderIds, Cancel(i) PROVE BookStep /\ Control
  BY <1>8, CancelForm
<1>9. ASSUME NEW i \in OrderIds, Reprice(i) PROVE BookStep /\ Control
  BY <1>9, RepriceForm
<1>10. CASE ReviewDone
  BY <1>1, <1>10, SessionTimes DEF ReviewDone, Control, book
<1>11. CASE Wait
  BY <1>1, <1>11, SessionTimes DEF Wait, Control, book
<1>12. ASSUME NEW side \in Sides, NEW purpose \in Purposes, SubmitTaker(side, purpose)
       PROVE  BookStep /\ Control
  BY <1>12, SubmitTakerForm
<1>13. ASSUME NEW side \in Sides, SubmitMaker(side) PROVE BookStep /\ Control
  BY <1>13, SubmitMakerForm
<1>14. CASE Close
  BY <1>1, <1>14, SessionTimes, SessionConstants DEF Close, Control, book
<1>15. CASE UNCHANGED vars
  BY <1>1, <1>15, SessionTimes DEF vars, Control, book
<1> QED
  BY <1>2, <1>3, <1>4, <1>5, <1>6, <1>7, <1>8, <1>9, <1>10, <1>11, <1>12, <1>13,
     <1>14, <1>15 DEF Next

-----------------------------------------------------------------------------
(***************************************************************************)
(* The invariant is inductive.                                             *)
(***************************************************************************)

\* What an order may end with, in numbers.
LEMMA EndNumbers ==
  ASSUME NEW o \in Order, NEW w, EndOf(o, w)
  PROVE  /\ w \in Order /\ w.filled \in Nat /\ w.paid \in Nat
         /\ w.filled \in 0..o.qty
         /\ w.paid <= o.qty * UnitPrice(o) /\ w.paid <= w.filled * Payout
<1>1. w \in Order /\ w.filled \in Nat /\ w.paid \in Nat
  BY OrderFields DEF EndOf
<1>2. o.qty \in Nat /\ UnitPrice(o) \in Nat /\ Payout \in Nat
  BY OrderFields, UnitPriceFacts, Constants
<1>3. o.qty * UnitPrice(o) \in Nat /\ w.filled * Payout \in Nat
  BY <1>1, <1>2, Times
<1> QED
  BY <1>1, <1>3 DEF EndOf, Lesser

\* The books after one order changed from slot i and got the terms of w.
LEMMA OrderAfter ==
  ASSUME SessionInv, NEW i \in OrderIds, NEW w \in Order,
         order' = [order EXCEPT ![i] = w]
  PROVE  /\ order' \in [OrderIds -> Order \cup {Unsubmitted}]
         /\ order'[i] = w
         /\ \A j \in OrderIds : j # i => order'[j] = order[j]
  BY DEF SessionInv, TypeOK

\* An ending keeps the books in order.
LEMMA EndsKeeps ==
  ASSUME SessionInv, Control, NEW i, NEW w, Ends(i, w)
  PROVE  (TypeOK /\ TrackedMatchesState /\ OrdersAreSound)'
<1>1. /\ i \in Active /\ i \in OrderIds /\ i \in 1..seq /\ order[i] \in Order
      /\ EndOf(order[i], w) /\ order' = [order EXCEPT ![i] = w]
      /\ pf' = ApplyFill(pf, w.side, w.filled, w.paid)
      /\ pending' = pending \ {i} /\ open' = open \ {i} /\ seq' = seq
      /\ w.state # "PENDING_DELAY" /\ w.state # "OPEN"
  BY ActiveOrders DEF Ends
<1>2. w \in Order /\ w.filled \in Nat /\ w.paid \in Nat
  BY <1>1, EndNumbers
<1>3. /\ order' \in [OrderIds -> Order \cup {Unsubmitted}]
      /\ order'[i] = w /\ \A j \in OrderIds : j # i => order'[j] = order[j]
  BY <1>1, <1>2, OrderAfter
<1>4. pf' \in Portfolio
  BY <1>1, <1>2, SessionTimes, FilledPortfolio
<1>5. /\ seq \in 0..MaxOrders /\ pending \subseteq 1..seq /\ open \subseteq 1..seq
      /\ setup \in Setups /\ \A j \in OrderIds : order[j] \in Order <=> j <= seq
      /\ 1..seq \subseteq OrderIds /\ seq \in Nat
  BY Constants DEF SessionInv, TypeOK, OrderIds
<1>6. \A j \in OrderIds : order'[j] \in Order <=> j <= seq
  BY <1>1, <1>2, <1>3, <1>5
<1>7. TypeOK'
  BY <1>1, <1>3, <1>4, <1>5, <1>6 DEF TypeOK, Control
<1>8. TrackedMatchesState'
  BY <1>1, <1>3, <1>5 DEF SessionInv, TrackedMatchesState
<1>9. OrdersAreSound'
  BY <1>1, <1>3, <1>5 DEF SessionInv, OrdersAreSound, Active
<1> QED
  BY <1>7, <1>8, <1>9

\* A new order, tracked or ended at once, keeps the books in order.
LEMMA NewOrderKeeps ==
  ASSUME SessionInv, Control, NEW k \in OrderIds, k = seq + 1,
         NEW w \in Order, order' = [order EXCEPT ![k] = w], seq' = k,
         pf' \in Portfolio,
         pending' = pending \cup {k} \/ pending' = pending,
         open' = open \cup {k} \/ open' = open,
         w.state = "PENDING_DELAY" => w.role = "TAKER",
         k \in pending' <=> w.state = "PENDING_DELAY",
         k \in open' <=> w.role = "MAKER" /\ w.state = "OPEN",
         k \in pending' \cup open' =>
           w.filled = 0 /\ w.paid = 0 /\ w.qty \in MinShares..PositionLimit
  PROVE  (TypeOK /\ TrackedMatchesState /\ OrdersAreSound)'
<1>1. /\ order' \in [OrderIds -> Order \cup {Unsubmitted}]
      /\ order'[k] = w /\ \A j \in OrderIds : j # k => order'[j] = order[j]
  BY OrderAfter
<1>2. /\ seq \in 0..MaxOrders /\ pending \subseteq 1..seq /\ open \subseteq 1..seq
      /\ setup \in Setups /\ \A j \in OrderIds : order[j] \in Order <=> j <= seq
      /\ 1..seq \subseteq OrderIds /\ seq \in Nat /\ k \in 0..MaxOrders
  BY Constants DEF SessionInv, TypeOK, OrderIds
<1>3. 1..k = (1..seq) \cup {k} /\ k \notin 1..seq
  BY NextId
<1>4. \A j \in OrderIds : order'[j] \in Order <=> j <= k
  BY <1>1, <1>2 DEF OrderIds
<1>5. pending' \subseteq 1..k /\ open' \subseteq 1..k
  BY <1>2, <1>3
<1>6. TypeOK'
  BY <1>1, <1>2, <1>4, <1>5 DEF TypeOK, Control
<1>7. TrackedMatchesState'
  <2>1. SUFFICES ASSUME NEW j \in 1..k
                 PROVE  /\ j \in pending' <=> order'[j].state = "PENDING_DELAY"
                        /\ j \in open' <=> order'[j].role = "MAKER"
                                             /\ order'[j].state = "OPEN"
    BY DEF TrackedMatchesState
  <2>2. CASE j = k
    BY <1>1, <2>2
  <2>3. CASE j \in 1..seq
    <3>1. order'[j] = order[j] /\ (j \in pending' <=> j \in pending)
          /\ (j \in open' <=> j \in open)
      BY <1>1, <1>2, <1>3, <2>3
    <3> QED BY <2>3, <3>1 DEF SessionInv, TrackedMatchesState
  <2> QED BY <1>3, <2>2, <2>3
<1>8. OrdersAreSound'
  <2>1. SUFFICES ASSUME NEW j \in 1..k
                 PROVE  /\ order'[j].state = "PENDING_DELAY" => order'[j].role = "TAKER"
                        /\ j \in pending' \cup open' =>
                             /\ order'[j].filled = 0
                             /\ order'[j].paid = 0
                             /\ order'[j].qty \in MinShares..PositionLimit
    BY DEF OrdersAreSound, Active
  <2>2. CASE j = k
    BY <1>1, <2>2
  <2>3. CASE j \in 1..seq
    <3>1. order'[j] = order[j] /\ (j \in pending' \cup open' => j \in Active)
      BY <1>1, <1>2, <1>3, <2>3 DEF Active
    <3> QED BY <2>3, <3>1 DEF SessionInv, OrdersAreSound
  <2> QED BY <1>3, <2>2, <2>3
<1> QED
  BY <1>6, <1>7, <1>8

\* A submission keeps the books in order.
LEMMA SubmitsKeeps ==
  ASSUME SessionInv, Control, NEW k, NEW new, NEW purpose, Submits(k, new, purpose)
  PROVE  (TypeOK /\ TrackedMatchesState /\ OrdersAreSound)'
<1>1. /\ k \in OrderIds /\ k = seq + 1 /\ new \in Order
      /\ new.filled = 0 /\ new.paid = 0 /\ new.qty \in MinShares..PositionLimit
      /\ order' = [order EXCEPT ![k] = new] /\ seq' = k /\ pf' \in Portfolio
  BY SessionTimes DEF Submits, Fits
<1>2. k \notin pending /\ k \notin open
  BY <1>1, NextId DEF Active
<1>3. CASE /\ new.role = "TAKER" /\ new.state = "PENDING_DELAY"
           /\ pending' = pending \cup {k} /\ open' = open
  BY <1>1, <1>2, <1>3, NewOrderKeeps
<1>4. CASE /\ new.role = "MAKER" /\ new.state = "OPEN"
           /\ open' = open \cup {k} /\ pending' = pending
  BY <1>1, <1>2, <1>4, NewOrderKeeps
<1> QED
  BY <1>3, <1>4 DEF Submits

\* An immediate match keeps the books in order.
LEMMA ExecutesKeeps ==
  ASSUME SessionInv, Control, NEW k, NEW new, NEW w, NEW purpose,
         Executes(k, new, w, purpose)
  PROVE  (TypeOK /\ TrackedMatchesState /\ OrdersAreSound)'
<1>1. /\ k \in OrderIds /\ k = seq + 1 /\ new \in Order /\ EndOf(new, w)
      /\ order' = [order EXCEPT ![k] = w] /\ seq' = k
      /\ w.state # "PENDING_DELAY" /\ w.role = "TAKER"
      /\ pending' = pending /\ open' = open
      /\ pf' = ApplyFill(pf, w.side, w.filled, w.paid)
  BY DEF Executes, Fits, EndOf
<1>2. w \in Order /\ pf' \in Portfolio
  BY <1>1, EndNumbers, SessionTimes, FilledPortfolio
<1>3. k \notin pending /\ k \notin open
  BY <1>1, NextId DEF Active
<1> QED
  BY <1>1, <1>2, <1>3, NewOrderKeeps

\* A replacement keeps the books in order.
LEMMA ReplacesKeeps ==
  ASSUME SessionInv, Control, NEW i, NEW w, NEW k, NEW new, Replaces(i, w, k, new)
  PROVE  (TypeOK /\ TrackedMatchesState /\ OrdersAreSound)'
<1>1. /\ i \in open /\ i \in Active /\ i \in OrderIds /\ i \in 1..seq
      /\ i \notin pending
      /\ order[i] \in Order /\ w \in Order /\ w.state = "CANCELED"
  BY ActiveOrders DEF Replaces, EndOf
<1>2. /\ k \in OrderIds /\ k = seq + 1 /\ new \in Order
      /\ new.filled = 0 /\ new.paid = 0 /\ new.qty \in MinShares..PositionLimit
      /\ new.role = "MAKER" /\ new.state = "OPEN"
      /\ order' = [order EXCEPT ![i] = w, ![k] = new] /\ seq' = k /\ pf' \in Portfolio
      /\ pending' = pending /\ open' = (open \ {i}) \cup {k}
  BY SessionTimes DEF Replaces, Fits
<1>3. /\ seq \in 0..MaxOrders /\ pending \subseteq 1..seq /\ open \subseteq 1..seq
      /\ setup \in Setups /\ \A j \in OrderIds : order[j] \in Order <=> j <= seq
      /\ 1..seq \subseteq OrderIds /\ seq \in Nat /\ k \in 0..MaxOrders
      /\ order \in [OrderIds -> Order \cup {Unsubmitted}]
  BY <1>2, Constants DEF SessionInv, TypeOK, OrderIds
<1>4. 1..k = (1..seq) \cup {k} /\ k \notin 1..seq /\ k # i
  BY <1>1, <1>2, NextId
<1>5. /\ order' \in [OrderIds -> Order \cup {Unsubmitted}]
      /\ order'[k] = new /\ order'[i] = w
      /\ \A j \in OrderIds : j # k /\ j # i => order'[j] = order[j]
  BY <1>1, <1>2, <1>3, <1>4
<1>6. \A j \in OrderIds : order'[j] \in Order <=> j <= k
  BY <1>1, <1>2, <1>3, <1>5 DEF OrderIds
<1>7. pending' \subseteq 1..k /\ open' \subseteq 1..k
  BY <1>2, <1>3, <1>4
<1>8. TypeOK'
  BY <1>2, <1>3, <1>5, <1>6, <1>7 DEF TypeOK, Control
<1>9. ASSUME NEW j \in 1..seq, j # i
      PROVE  order'[j] = order[j] /\ (j \in pending' <=> j \in pending)
             /\ (j \in open' <=> j \in open)
  BY <1>2, <1>3, <1>4, <1>5, <1>9
<1>10. k \notin pending' /\ k \in open' /\ i \notin pending' /\ i \notin open'
  BY <1>1, <1>2, <1>3, <1>4
<1>11. TrackedMatchesState'
  BY <1>2, <1>4, <1>5, <1>1, <1>9, <1>10 DEF SessionInv, TrackedMatchesState
<1>12. OrdersAreSound'
  <2>1. SUFFICES ASSUME NEW j \in 1..k
                 PROVE  /\ order'[j].state = "PENDING_DELAY" => order'[j].role = "TAKER"
                        /\ j \in pending' \cup open' =>
                             /\ order'[j].filled = 0
                             /\ order'[j].paid = 0
                             /\ order'[j].qty \in MinShares..PositionLimit
    BY <1>2 DEF OrdersAreSound, Active
  <2>2. CASE j = k
    BY <1>2, <1>5, <2>2
  <2>3. CASE j = i
    BY <1>1, <1>5, <1>10, <2>3
  <2>4. CASE j \in 1..seq /\ j # i
    <3>1. order'[j] = order[j] /\ (j \in pending' \cup open' => j \in Active)
      BY <1>9, <2>4 DEF Active
    <3> QED BY <2>4, <3>1 DEF SessionInv, OrdersAreSound
  <2> QED BY <1>4, <2>2, <2>3, <2>4
<1> QED
  BY <1>8, <1>11, <1>12

\* A step that leaves the books alone.
LEMMA IdleKeeps ==
  ASSUME SessionInv, Control, UNCHANGED book
  PROVE  (TypeOK /\ TrackedMatchesState /\ OrdersAreSound)'
<1>1. pf' = pf /\ order' = order /\ pending' = pending /\ open' = open /\ seq' = seq
  BY DEF book
<1> QED
  BY <1>1 DEF SessionInv, Control, TypeOK, TrackedMatchesState, OrdersAreSound, Active

\* A review that sees a stale side cancels or expires what rests there; any
\* other step of the review leaves the orders it has not come to alone.
LEMMA ReviewStep ==
  ASSUME SessionInv, NEW i \in OrderIds, Hold(i) \/ Expire(i) \/ Cancel(i) \/ Reprice(i)
  PROVE  ReviewIsThorough'
<1>1. Reviewing(i)
  BY DEF Hold, Expire, Cancel, Reprice
<1>2. /\ phase' = "review" /\ phase = "review" /\ view' = view /\ setup' = setup
      /\ toReview' = toReview \ {i}
  BY <1>1 DEF Reviewing
<1>3. /\ order \in [OrderIds -> Order \cup {Unsubmitted}] /\ open \subseteq OrderIds
      /\ i \in open
  BY <1>1, ActiveOrders DEF SessionInv, TypeOK, Reviewing
<1>4. SUFFICES ASSUME setup.caller = "runner", view.data # "fresh",
                      NEW j \in open' \ toReview'
               PROVE  order'[j].side \notin view.usable
  BY <1>2 DEF ReviewIsThorough
<1>5. MustCancel(i)
  BY <1>4 DEF MustCancel
<1>6. j \in open \ toReview => order[j].side \notin view.usable
  BY <1>2, <1>4 DEF SessionInv, ReviewIsThorough
<1>7. CASE Hold(i)
  <2>1. order' = order /\ open' = open /\ ~Seen(i)
    BY <1>5, <1>7 DEF Hold
  <2>2. CASE j = i
    BY <2>1, <2>2 DEF Seen
  <2>3. CASE j # i
    BY <1>2, <1>4, <1>6, <2>1, <2>3
  <2> QED BY <2>2, <2>3
<1>8. CASE Expire(i) \/ Cancel(i)
  <2>1. open' = open \ {i} /\ j # i /\ j \in open \ toReview
    BY <1>2, <1>4, <1>8 DEF Expire, Cancel
  <2>2. order'[j] = order[j]
    BY <1>3, <1>8, <2>1 DEF Expire, Cancel
  <2> QED BY <1>6, <2>1, <2>2
<1>9. CASE Reprice(i)
  BY <1>5, <1>9 DEF Reprice
<1> QED
  BY <1>7, <1>8, <1>9

\* The other steps: a review begins with every order to visit and ends with
\* none, and only a fresh view reaches the dispatch.
LEMMA ThoroughStep ==
  ASSUME SessionInv, [Next]_vars
  PROVE  ReviewIsThorough'
<1> USE DEF ReviewIsThorough
<1>1. ReviewIsThorough
  BY DEF SessionInv
<1>2. CASE Begin
  BY <1>1, <1>2 DEF Begin
<1>3. ASSUME NEW i \in OrderIds, ResolveTaker(i) PROVE ReviewIsThorough'
  BY <1>1, <1>3 DEF ResolveTaker
<1>4. CASE ResolveRaises
  BY <1>1, <1>4 DEF ResolveRaises
<1>5. CASE ResolveDone
  <2>1. /\ phase' = "review" /\ setup' = setup /\ open' = open
        /\ toReview' = Reviewed
    BY <1>5 DEF ResolveDone, book
  <2> QED BY <2>1 DEF Reviewed
<1>6. ASSUME NEW i \in OrderIds, Hold(i) \/ Expire(i) \/ Cancel(i) \/ Reprice(i)
      PROVE  ReviewIsThorough'
  BY <1>6, ReviewStep
<1>7. CASE ReviewDone
  BY <1>1, <1>7 DEF ReviewDone, book
<1>8. CASE Wait
  BY <1>1, <1>8 DEF Wait
<1>9. CASE Submitting
  BY <1>1, <1>9 DEF Submitting
<1>10. CASE Close
  BY <1>1, <1>10 DEF Close
<1>11. CASE UNCHANGED vars
  BY <1>1, <1>11 DEF vars
<1> QED
  BY <1>2, <1>3, <1>4, <1>5, <1>6, <1>7, <1>8, <1>9, <1>10, <1>11
     DEF Next, SubmitTaker, SubmitMaker

\* The invariant holds of a session that begins.
LEMMA InitInv == Init => SessionInv
<1> SUFFICES ASSUME Init PROVE SessionInv
  OBVIOUS
<1>1. /\ setup \in Setups /\ setup.opening \in Portfolio /\ MaxTime \in Nat
      /\ MaxOrders \in Nat
  BY SessionConstants, Constants DEF Init
<1>2. \A i \in OrderIds : order[i] = Unsubmitted /\ ~(i <= 0)
  BY <1>1 DEF Init, OrderIds
<1>3. TypeOK
  BY <1>1, <1>2, NoOrder DEF Init, TypeOK, View
<1> QED
  BY <1>1, <1>3 DEF Init, SessionInv, TrackedMatchesState, OrdersAreSound,
                    ReviewIsThorough

\* Every step of a session keeps the invariant.
LEMMA InvStep ==
  ASSUME SessionInv, [Next]_vars
  PROVE  SessionInv'
<1>1. BookStep /\ Control
  BY StepForms
<1>2. (TypeOK /\ TrackedMatchesState /\ OrdersAreSound)'
  <2>1. ASSUME NEW i, NEW w, Ends(i, w)
        PROVE  (TypeOK /\ TrackedMatchesState /\ OrdersAreSound)'
    BY <1>1, <2>1, EndsKeeps
  <2>2. ASSUME NEW k, NEW new, NEW purpose, Submits(k, new, purpose)
        PROVE  (TypeOK /\ TrackedMatchesState /\ OrdersAreSound)'
    BY <1>1, <2>2, SubmitsKeeps
  <2>3. ASSUME NEW k, NEW new, NEW w, NEW purpose, Executes(k, new, w, purpose)
        PROVE  (TypeOK /\ TrackedMatchesState /\ OrdersAreSound)'
    BY <1>1, <2>3, ExecutesKeeps
  <2>4. ASSUME NEW i, NEW w, NEW k, NEW new, Replaces(i, w, k, new)
        PROVE  (TypeOK /\ TrackedMatchesState /\ OrdersAreSound)'
    BY <1>1, <2>4, ReplacesKeeps
  <2>5. CASE UNCHANGED book
    BY <1>1, <2>5, IdleKeeps
  <2> QED BY <1>1, <2>1, <2>2, <2>3, <2>4, <2>5 DEF BookStep
<1>3. ReviewIsThorough'
  BY ThoroughStep
<1> QED
  BY <1>1, <1>2, <1>3 DEF SessionInv, Control

\* The inductive invariant of the session.
THEOREM SessionInvariant == Spec => []SessionInv
<1>1. SessionInv /\ [Next]_vars => SessionInv'
  BY InvStep
<1> QED
  BY <1>1, InitInv, PTL DEF Spec

-----------------------------------------------------------------------------
(***************************************************************************)
(* What follows for every state and every step of a session.               *)
(***************************************************************************)

\* The tables and the order states have the types the code keeps them in.
THEOREM TypeCorrect == Spec => []TypeOK
<1>1. SessionInv => TypeOK
  BY DEF SessionInv
<1> QED
  BY <1>1, SessionInvariant, PTL

\* TakerOrderQueue._pending and OrderSupervisor.orders hold an order exactly
\* while its own state says so.
THEOREM TrackedMatchesStateHolds == Spec => []TrackedMatchesState
<1>1. SessionInv => TrackedMatchesState
  BY DEF SessionInv
<1> QED
  BY <1>1, SessionInvariant, PTL

\* A runner's decision point without a fresh view leaves no order resting on
\* a side it could see, whatever the rate limit of the supervisor says.
THEOREM UnsafeViewClearsSeenHolds == Spec => []UnsafeViewClearsSeen
<1>1. SessionInv => UnsafeViewClearsSeen
  BY DEF SessionInv, ReviewIsThorough, UnsafeViewClearsSeen
<1> QED
  BY <1>1, SessionInvariant, PTL

\* Every quantity candidates.py proposes has a limit price of its own, at
\* which any part of it fills within the floor and the cap by itself.
THEOREM LimitsHoldAloneHolds == Spec => []LimitsHoldAlone
<1>1. SessionInv => LimitsHoldAlone
  <2> SUFFICES ASSUME SessionInv,
                      NEW side \in Sides, NEW asks \in Ladders, NEW worth \in Worths,
                      NEW purpose \in Purposes,
                      NEW c \in Takers(pf, side, asks, worth, purpose),
                      NEW n \in 0..PositionLimit, n <= c.qty
               PROVE  LET after == ApplyFill(pf, side, n, n * UnitCost[c.price])
                      IN  G(after) >= Lesser(GMin, G(pf)) /\ after.C <= SpendCap
    BY DEF LimitsHoldAlone
  <2>1. /\ pf \in Portfolio /\ asks \in Seq(Level) /\ Ascending(asks) /\ worth \in Int
        /\ GMin \in Int /\ PositionLimit \in Nat
    BY SessionTimes, SessionConstants, WorthsInt, Constants
  <2>2. Bounded(pf, side, c)
    BY <2>1, TakersBounded
  <2>3. G(pf) \in Int
    BY <2>1, MarginInt
  <2> DEFINE floor == Lesser(GMin, G(pf))
  <2>4. floor \in Int /\ Lesser(floor, G(pf)) = floor
    BY <2>1, <2>3 DEF Lesser
  <2>5. PICK x \in Nat : /\ c.qty <= x /\ c.price \in Prices /\ c.qty \in Nat
                         /\ x * UnitCost[c.price] <= Budget(pf, side, x, floor)
    BY <2>2 DEF Bounded
  <2>6. n \in 0..x
    BY <2>1, <2>5
  <2> HIDE DEF floor
  <2>7. LET after == ApplyFill(pf, side, n, n * UnitCost[c.price])
        IN  G(after) >= Lesser(floor, G(pf)) /\ after.C <= SpendCap
    BY <2>1, <2>4, <2>5, <2>6, PricedOrderIsSafe
  <2> QED BY <2>4, <2>7 DEF floor
<1> QED
  BY <1>1, SessionInvariant, PTL

\* A canceled or executed order never changes again, and its id is not
\* handed out twice.
THEOREM EndedOrdersAreFinalHolds == Spec => EndedOrdersAreFinal
<1>1. SessionInv /\ [Next]_vars =>
        [\A i \in OrderIds : order[i] # Unsubmitted /\ i \notin Active =>
                               order'[i] = order[i]]_vars
  <2> SUFFICES ASSUME SessionInv, [Next]_vars, NEW j \in OrderIds,
                      order[j] # Unsubmitted, j \notin Active
               PROVE  order'[j] = order[j]
    OBVIOUS
  <2>1. order \in [OrderIds -> Order \cup {Unsubmitted}]
    BY DEF SessionInv, TypeOK
  <2>2. ASSUME NEW i, NEW w, Ends(i, w) PROVE order'[j] = order[j]
    BY <2>1, <2>2 DEF Ends
  <2>3. ASSUME NEW k, NEW new, NEW purpose, Submits(k, new, purpose)
        PROVE  order'[j] = order[j]
    <3>1. k \in OrderIds /\ k = seq + 1
      BY <2>3 DEF Submits, Fits
    <3>2. j # k
      BY <3>1, NextId
    <3> QED BY <2>1, <2>3, <3>2 DEF Submits
  <2>4. ASSUME NEW k, NEW new, NEW w, NEW purpose, Executes(k, new, w, purpose)
        PROVE  order'[j] = order[j]
    <3>1. k \in OrderIds /\ k = seq + 1
      BY <2>4 DEF Executes, Fits
    <3>2. j # k
      BY <3>1, NextId
    <3> QED BY <2>1, <2>4, <3>2 DEF Executes
  <2>5. ASSUME NEW i, NEW w, NEW k, NEW new, Replaces(i, w, k, new)
        PROVE  order'[j] = order[j]
    <3>1. k \in OrderIds /\ k = seq + 1 /\ i \in Active
      BY <2>5, ActiveOrders DEF Replaces, Fits
    <3>2. j # k /\ j # i
      BY <3>1, NextId
    <3> QED BY <2>1, <2>5, <3>2 DEF Replaces
  <2>6. CASE UNCHANGED book
    BY <2>6 DEF book
  <2> QED BY <2>2, <2>3, <2>4, <2>5, <2>6, StepForms DEF BookStep
<1> QED
  BY <1>1, SessionInvariant, PTL DEF Spec, EndedOrdersAreFinal

-----------------------------------------------------------------------------
(***************************************************************************)
(* The books balance: a fill enters the portfolio and the order's record   *)
(* together, and only orders without a fill get one.                       *)
(***************************************************************************)

FillTerms(orders, n, side) ==
  [i \in OrderIds |-> IF i <= n /\ orders[i].side = side THEN orders[i].filled ELSE 0]

PaidTerms(orders, n) == [i \in OrderIds |-> IF i <= n THEN orders[i].paid ELSE 0]

\* The terms of handed-out orders are numbers.
LEMMA TermsTyped ==
  ASSUME NEW orders, NEW n, NEW side,
         \A i \in OrderIds : i <= n => orders[i] \in Order
  PROVE  /\ FillTerms(orders, n, side) \in [1..MaxOrders -> Int]
         /\ PaidTerms(orders, n) \in [1..MaxOrders -> Int]
<1>1. \A i \in OrderIds : i <= n => orders[i].filled \in Nat /\ orders[i].paid \in Nat
  BY OrderFields
<1> QED
  BY <1>1 DEF FillTerms, PaidTerms, OrderIds

\* Books that differ by what the order k got, which had nothing before.
GrowsAt(o1, n1, o2, n2, k) ==
  /\ k \in OrderIds /\ k <= n2
  /\ \A i \in OrderIds : i <= n1 => o1[i] \in Order
  /\ \A i \in OrderIds : i <= n2 => o2[i] \in Order
  /\ \A i \in OrderIds : i # k => (i <= n1 <=> i <= n2) /\ (i <= n1 => o1[i] = o2[i])
  /\ k <= n1 => o1[k].filled = 0 /\ o1[k].paid = 0

\* Their totals differ by that.
LEMMA TotalsGrow ==
  ASSUME NEW o1, NEW n1, NEW o2, NEW n2, NEW k, GrowsAt(o1, n1, o2, n2, k), NEW side
  PROVE  /\ Total(FillTerms(o2, n2, side), MaxOrders)
              = Total(FillTerms(o1, n1, side), MaxOrders)
                  + (IF o2[k].side = side THEN o2[k].filled ELSE 0)
         /\ Total(PaidTerms(o2, n2), MaxOrders)
              = Total(PaidTerms(o1, n1), MaxOrders) + o2[k].paid
<1> DEFINE f1 == FillTerms(o1, n1, side)
           f2 == FillTerms(o2, n2, side)
           p1 == PaidTerms(o1, n1)
           p2 == PaidTerms(o2, n2)
<1>1. /\ f1 \in [1..MaxOrders -> Int] /\ f2 \in [1..MaxOrders -> Int]
      /\ p1 \in [1..MaxOrders -> Int] /\ p2 \in [1..MaxOrders -> Int]
  BY TermsTyped DEF GrowsAt
<1>2. /\ f1[k] = 0 /\ p1[k] = 0 /\ p2[k] = o2[k].paid
      /\ f2[k] = IF o2[k].side = side THEN o2[k].filled ELSE 0
  BY DEF FillTerms, PaidTerms, GrowsAt
<1>3. \A i \in 1..MaxOrders : i # k => f1[i] = f2[i] /\ p1[i] = p2[i]
  BY DEF FillTerms, PaidTerms, OrderIds, GrowsAt
<1>4. k \in 1..MaxOrders /\ MaxOrders \in Nat
  BY Constants DEF OrderIds, GrowsAt
<1> HIDE DEF f1, f2, p1, p2
<1>5. Total(f2, MaxOrders) = Total(f1, MaxOrders) + (f2[k] - f1[k])
  BY <1>1, <1>3, <1>4, TotalUpdate
<1>6. Total(p2, MaxOrders) = Total(p1, MaxOrders) + (p2[k] - p1[k])
  BY <1>1, <1>3, <1>4, TotalUpdate
<1>7. f2[k] \in Int /\ p2[k] \in Int
  BY <1>1, <1>4
<1>8. f2[k] - f1[k] = f2[k] /\ p2[k] - p1[k] = p2[k]
  BY <1>2, <1>7
<1> QED
  BY <1>2, <1>5, <1>6, <1>8 DEF f1, f2, p1, p2

\* The equations of BooksBalance for given books.
Balanced(p, b, orders, n) ==
  /\ p.U = b.U + Total(FillTerms(orders, n, "UP"), MaxOrders)
  /\ p.D = b.D + Total(FillTerms(orders, n, "DOWN"), MaxOrders)
  /\ p.C = b.C + Total(PaidTerms(orders, n), MaxOrders)

\* BooksBalance, term by term.
LEMMA BalanceIs == BooksBalance <=> Balanced(pf, setup.opening, order, seq)
  BY DEF BooksBalance, Balanced, Filled, FillTerms, PaidTerms

\* One slot's fill, credited to the portfolio, keeps the balance.
LEMMA BalanceGrows ==
  ASSUME NEW p \in Portfolio, NEW b \in Portfolio,
         NEW o1, NEW n1, NEW o2, NEW n2, NEW k, GrowsAt(o1, n1, o2, n2, k),
         Balanced(p, b, o1, n1)
  PROVE  Balanced(ApplyFill(p, o2[k].side, o2[k].filled, o2[k].paid), b, o2, n2)
<1> DEFINE up1 == Total(FillTerms(o1, n1, "UP"), MaxOrders)
           up2 == Total(FillTerms(o2, n2, "UP"), MaxOrders)
           down1 == Total(FillTerms(o1, n1, "DOWN"), MaxOrders)
           down2 == Total(FillTerms(o2, n2, "DOWN"), MaxOrders)
           paid1 == Total(PaidTerms(o1, n1), MaxOrders)
           paid2 == Total(PaidTerms(o2, n2), MaxOrders)
           w == o2[k]
<1>1. /\ up2 = up1 + (IF w.side = "UP" THEN w.filled ELSE 0)
      /\ paid2 = paid1 + w.paid
  BY TotalsGrow
<1>2. down2 = down1 + (IF w.side = "DOWN" THEN w.filled ELSE 0)
  BY TotalsGrow
<1>3. up1 \in Int /\ down1 \in Int /\ paid1 \in Int
  <2>1. /\ FillTerms(o1, n1, "UP") \in [1..MaxOrders -> Int]
        /\ FillTerms(o1, n1, "DOWN") \in [1..MaxOrders -> Int]
        /\ PaidTerms(o1, n1) \in [1..MaxOrders -> Int] /\ MaxOrders \in Nat
    BY TermsTyped, Constants DEF GrowsAt
  <2> QED BY <2>1, TotalInt
<1>4. w.side \in Sides /\ w.filled \in Nat /\ w.paid \in Nat
  BY OrderFields DEF GrowsAt
<1>5. b.U \in Nat /\ b.D \in Nat /\ b.C \in Nat
  BY PortfolioFields
<1>6. p.U = b.U + up1 /\ p.D = b.D + down1 /\ p.C = b.C + paid1
  BY DEF Balanced
<1> HIDE DEF up1, up2, down1, down2, paid1, paid2, w
<1> DEFINE q == ApplyFill(p, w.side, w.filled, w.paid)
<1>7. q.U = b.U + up2 /\ q.D = b.D + down2 /\ q.C = b.C + paid2
  <2>1. CASE w.side = "UP"
    BY <1>1, <1>2, <1>3, <1>4, <1>5, <1>6, <2>1 DEF ApplyFill
  <2>2. CASE w.side = "DOWN"
    BY <1>1, <1>2, <1>3, <1>4, <1>5, <1>6, <2>2 DEF ApplyFill
  <2> QED BY <1>4, <2>1, <2>2 DEF Sides
<1> HIDE DEF q
<1>8. Balanced(q, b, o2, n2)
  BY <1>7 DEF Balanced, up2, down2, paid2
<1> QED
  BY <1>8 DEF q, w

\* Books in which nobody got anything more.
SameFills(o1, n1, o2, n2) ==
  \A i \in OrderIds :
    /\ i <= n1 => i <= n2 /\ o2[i].side = o1[i].side
                  /\ o2[i].filled = o1[i].filled /\ o2[i].paid = o1[i].paid
    /\ i <= n2 /\ ~(i <= n1) => o2[i].filled = 0 /\ o2[i].paid = 0

\* Such books balance alike.
LEMMA BalanceSame ==
  ASSUME NEW p, NEW b, NEW o1, NEW n1, NEW o2, NEW n2, SameFills(o1, n1, o2, n2),
         Balanced(p, b, o1, n1)
  PROVE  Balanced(p, b, o2, n2)
<1>1. ASSUME NEW side PROVE FillTerms(o1, n1, side) = FillTerms(o2, n2, side)
  BY DEF FillTerms, SameFills
<1>2. PaidTerms(o1, n1) = PaidTerms(o2, n2)
  BY DEF PaidTerms, SameFills
<1> QED
  BY <1>1, <1>2 DEF Balanced

\* Every step keeps the balance.
LEMMA BalanceStep ==
  ASSUME SessionInv, BooksBalance, [Next]_vars
  PROVE  BooksBalance'
<1> DEFINE b == setup.opening
<1>1. BookStep /\ Control /\ SessionInv'
  BY StepForms, InvStep
<1>2. /\ pf \in Portfolio /\ b \in Portfolio /\ setup' = setup /\ seq \in 0..MaxOrders
      /\ \A i \in OrderIds : i <= seq => order[i] \in Order
      /\ \A i \in OrderIds : i <= seq' => order'[i] \in Order
      /\ order \in [OrderIds -> Order \cup {Unsubmitted}]
      /\ MaxOrders \in Nat
  BY <1>1, SessionConstants, Constants DEF SessionInv, TypeOK, Control
<1>3. Balanced(pf, b, order, seq)
  BY BalanceIs
<1>4. SUFFICES Balanced(pf', b, order', seq')
  <2>1. BooksBalance' <=> Balanced(pf', setup'.opening, order', seq')
    BY DEF BooksBalance, Balanced, Filled, FillTerms, PaidTerms
  <2> QED BY <1>2, <2>1
<1> HIDE DEF b
<1>5. ASSUME NEW i, NEW w, Ends(i, w)
      PROVE  Balanced(pf', b, order', seq')
  <2>1. /\ i \in OrderIds /\ i <= seq /\ order[i].filled = 0 /\ order[i].paid = 0
        /\ order' = [order EXCEPT ![i] = w] /\ seq' = seq
        /\ pf' = ApplyFill(pf, w.side, w.filled, w.paid)
    BY <1>2, <1>5, ActiveOrders DEF Ends
  <2>2. order'[i] = w /\ \A j \in OrderIds : j # i => order'[j] = order[j]
    BY <1>2, <2>1
  <2>3. GrowsAt(order, seq, order', seq', i)
    BY <1>2, <2>1, <2>2 DEF GrowsAt
  <2>4. pf' = ApplyFill(pf, order'[i].side, order'[i].filled, order'[i].paid)
    BY <2>1, <2>2
  <2>5. Balanced(ApplyFill(pf, order'[i].side, order'[i].filled, order'[i].paid),
                 b, order', seq')
    BY <1>2, <1>3, <2>3, BalanceGrows
  <2> QED BY <2>4, <2>5
<1>6. ASSUME NEW k, NEW new, NEW purpose, Submits(k, new, purpose)
      PROVE  Balanced(pf', b, order', seq')
  <2>1. /\ k \in OrderIds /\ k = seq + 1 /\ new.filled = 0 /\ new.paid = 0
        /\ order' = [order EXCEPT ![k] = new] /\ seq' = k /\ pf' = pf
    BY <1>6 DEF Submits, Fits
  <2>2. order'[k] = new /\ \A j \in OrderIds : j # k => order'[j] = order[j]
    BY <1>2, <2>1
  <2>3. \A j \in OrderIds : /\ j <= seq => j <= seq' /\ j # k
                            /\ j <= seq' /\ ~(j <= seq) => j = k
    BY <1>2, <2>1 DEF OrderIds
  <2>4. SameFills(order, seq, order', seq')
    BY <2>1, <2>2, <2>3 DEF SameFills
  <2> QED BY <1>3, <2>1, <2>4, BalanceSame
<1>7. ASSUME NEW k, NEW new, NEW w, NEW purpose, Executes(k, new, w, purpose)
      PROVE  Balanced(pf', b, order', seq')
  <2>1. /\ k \in OrderIds /\ k = seq + 1
        /\ order' = [order EXCEPT ![k] = w] /\ seq' = k
        /\ pf' = ApplyFill(pf, w.side, w.filled, w.paid)
    BY <1>7 DEF Executes, Fits
  <2>2. order'[k] = w /\ \A j \in OrderIds : j # k => order'[j] = order[j]
    BY <1>2, <2>1
  <2>3. /\ ~(k <= seq) /\ k <= seq'
        /\ \A j \in OrderIds : j # k => (j <= seq <=> j <= seq')
    BY <1>2, <2>1 DEF OrderIds
  <2>4. GrowsAt(order, seq, order', seq', k)
    BY <1>2, <2>1, <2>2, <2>3 DEF GrowsAt
  <2>5. pf' = ApplyFill(pf, order'[k].side, order'[k].filled, order'[k].paid)
    BY <2>1, <2>2
  <2>6. Balanced(ApplyFill(pf, order'[k].side, order'[k].filled, order'[k].paid),
                 b, order', seq')
    BY <1>2, <1>3, <2>4, BalanceGrows
  <2> QED BY <2>5, <2>6
<1>8. ASSUME NEW i, NEW w, NEW k, NEW new, Replaces(i, w, k, new)
      PROVE  Balanced(pf', b, order', seq')
  <2>1. /\ i \in OrderIds /\ i \in Active /\ i <= seq
        /\ order[i].filled = 0 /\ order[i].paid = 0
        /\ w.side = order[i].side /\ w.filled = 0 /\ w.paid = 0
    BY <1>2, <1>8, ActiveOrders DEF Replaces, EndOf
  <2>2. /\ k \in OrderIds /\ k = seq + 1 /\ new.filled = 0 /\ new.paid = 0
        /\ order' = [order EXCEPT ![i] = w, ![k] = new] /\ seq' = k /\ pf' = pf
    BY <1>8 DEF Replaces, Fits
  <2>3. i # k
    BY <1>2, <2>1, <2>2
  <2>4. /\ order'[k] = new /\ order'[i] = w
        /\ \A j \in OrderIds : j # k /\ j # i => order'[j] = order[j]
    BY <1>2, <2>1, <2>2, <2>3
  <2>5. \A j \in OrderIds : /\ j <= seq => j <= seq' /\ j # k
                            /\ j <= seq' /\ ~(j <= seq) => j = k
    BY <1>2, <2>2 DEF OrderIds
  <2>6. SameFills(order, seq, order', seq')
    BY <2>1, <2>2, <2>4, <2>5 DEF SameFills
  <2> QED BY <1>3, <2>2, <2>6, BalanceSame
<1>9. CASE UNCHANGED book
  BY <1>3, <1>9 DEF book
<1> QED
  BY <1>1, <1>5, <1>6, <1>7, <1>8, <1>9 DEF BookStep

\* The confirmed portfolio is the opening one plus the fills of the orders,
\* each counted once, however taker resolutions, expiries and replacements
\* interleave.
THEOREM BooksBalanceHolds == Spec => []BooksBalance
<1>1. Init => BooksBalance
  <2> SUFFICES ASSUME Init PROVE BooksBalance
    OBVIOUS
  <2>1. /\ seq = 0 /\ pf = setup.opening /\ setup.opening \in Portfolio
        /\ MaxOrders \in Nat
    BY SessionConstants, Constants DEF Init
  <2>2. \A i \in OrderIds : ~(i <= seq)
    BY <2>1 DEF OrderIds
  <2>3. ASSUME NEW side PROVE Total(FillTerms(order, seq, side), MaxOrders) = 0
    <3>1. /\ FillTerms(order, seq, side) \in [1..MaxOrders -> Int]
          /\ \A i \in 1..MaxOrders : FillTerms(order, seq, side)[i] = 0
      BY <2>2, TermsTyped DEF FillTerms, OrderIds
    <3> QED BY <2>1, <3>1, TotalZero
  <2>4. Total(PaidTerms(order, seq), MaxOrders) = 0
    <3>1. /\ PaidTerms(order, seq) \in [1..MaxOrders -> Int]
          /\ \A i \in 1..MaxOrders : PaidTerms(order, seq)[i] = 0
      BY <2>2, TermsTyped DEF PaidTerms, OrderIds
    <3> QED BY <2>1, <3>1, TotalZero
  <2>5. pf.U \in Nat /\ pf.D \in Nat /\ pf.C \in Nat
    BY <2>1, PortfolioFields
  <2> QED BY <2>1, <2>3, <2>4, <2>5, BalanceIs DEF Balanced
<1>2. SessionInv /\ BooksBalance /\ [Next]_vars => BooksBalance'
  BY BalanceStep
<1> QED
  BY <1>1, <1>2, SessionInvariant, PTL DEF Spec

-----------------------------------------------------------------------------
(***************************************************************************)
(* The forms as the risk view sees them: one slot is cleared, filled or    *)
(* moved, and what an ending order got was reserved for it.                *)
(***************************************************************************)

Reserved == Exposures(order, Active)

\* The exposures the session reserves.
LEMMA ReservedFacts ==
  ASSUME SessionInv
  PROVE  /\ Reserved \in [OrderIds -> Exposure]
         /\ \A i \in OrderIds :
              Reserved[i] = IF i \in Active THEN ExposureOf(order[i]) ELSE Idle
<1>1. \A i \in Active \cap OrderIds : order[i] \in Order /\ order[i].filled = 0
  BY ActiveOrders
<1> QED
  BY <1>1, ExposuresTyped DEF Reserved

\* An order that got nothing yet has something reserved.
LEMMA OfferPositive ==
  ASSUME NEW o \in Order, o.filled = 0, o.qty \in MinShares..PositionLimit
  PROVE  /\ ExposureOf(o) \in Exposure
         /\ ExposureOf(o).qty > 0 /\ ExposureOf(o).cost > 0
         /\ ExposureOf(o).side = o.side /\ ExposureOf(o).qty = o.qty
         /\ ExposureOf(o).cost = o.qty * UnitPrice(o)
<1>1. /\ MinShares \in Nat /\ MinShares > 0 /\ o.qty \in Nat /\ o.qty > 0
      /\ UnitPrice(o) \in Nat /\ 1 <= UnitPrice(o) /\ 1 \in Nat
  BY CandidateAssumption, UnitPriceFacts, Constants
<1>2. o.qty * 1 <= o.qty * UnitPrice(o) /\ o.qty * 1 = o.qty
      /\ o.qty * UnitPrice(o) \in Nat
  BY <1>1, Times
<1>3. o.qty * UnitPrice(o) > 0
  BY <1>1, <1>2
<1> QED
  BY <1>1, <1>3, ExposureOfFacts

\* What an order ends with was reserved for it.
LEMMA EndAffordable ==
  ASSUME NEW o \in Order, o.filled = 0, NEW w, EndOf(o, w)
  PROVE  /\ w.side = ExposureOf(o).side
         /\ w.filled \in 0..ExposureOf(o).qty
         /\ w.paid \in Affordable(ExposureOf(o), w.filled)
  BY ExposureOfFacts DEF EndOf, Affordable

\* An ending clears its slot.
LEMMA EndsReserved ==
  ASSUME SessionInv, SessionInv', NEW i, NEW w, Ends(i, w)
  PROVE  /\ i \in Active /\ i \in OrderIds /\ Active' = Active \ {i}
         /\ Reserved' = [Reserved EXCEPT ![i] = Idle]
         /\ Reserved[i] = ExposureOf(order[i])
<1>1. /\ i \in Active /\ i \in OrderIds /\ order' = [order EXCEPT ![i] = w]
      /\ Active' = Active \ {i}
  BY ActiveOrders DEF Ends, Active
<1>2. \A j \in OrderIds : j # i => order'[j] = order[j]
  BY <1>1 DEF SessionInv, TypeOK
<1>3. Reserved' = [j \in OrderIds |-> IF j \in Active' THEN ExposureOf(order'[j]) ELSE Idle]
  BY DEF Reserved, Exposures
<1>4. Reserved = [j \in OrderIds |-> IF j \in Active THEN ExposureOf(order[j]) ELSE Idle]
  BY DEF Reserved, Exposures
<1> QED
  BY <1>1, <1>2, <1>3, <1>4

\* A submission fills the next slot.
LEMMA SubmitsReserved ==
  ASSUME SessionInv, SessionInv', NEW k, NEW new, NEW purpose, Submits(k, new, purpose)
  PROVE  /\ k \in OrderIds \ Active /\ Active' = Active \cup {k}
         /\ Reserved' = [Reserved EXCEPT ![k] = ExposureOf(new)]
         /\ Reserved' = Booked(k, new, Active)
<1>1. /\ k \in OrderIds /\ k = seq + 1 /\ order' = [order EXCEPT ![k] = new]
      /\ Active' = Active \cup {k}
  BY DEF Submits, Fits, Active
<1>2. k \notin Active
  BY <1>1, NextId
<1>3. order'[k] = new /\ \A j \in OrderIds : j # k => order'[j] = order[j]
  BY <1>1 DEF SessionInv, TypeOK
<1>4. Reserved' = [j \in OrderIds |-> IF j \in Active' THEN ExposureOf(order'[j]) ELSE Idle]
  BY DEF Reserved, Exposures
<1>5. Reserved = [j \in OrderIds |-> IF j \in Active THEN ExposureOf(order[j]) ELSE Idle]
  BY DEF Reserved, Exposures
<1>6. Reserved' = Booked(k, new, Active)
  BY <1>1 DEF Reserved, Booked
<1> QED
  BY <1>1, <1>2, <1>3, <1>4, <1>5, <1>6

\* An immediate match leaves the reserve alone; it was admitted in the book
\* with one more slot filled.
LEMMA ExecutesReserved ==
  ASSUME SessionInv, SessionInv', NEW k, NEW new, NEW w, NEW purpose,
         Executes(k, new, w, purpose)
  PROVE  /\ k \in OrderIds \ Active /\ Active' = Active /\ Reserved' = Reserved
         /\ Booked(k, new, Active) = [Reserved EXCEPT ![k] = ExposureOf(new)]
<1>1. /\ k \in OrderIds /\ k = seq + 1 /\ order' = [order EXCEPT ![k] = w]
      /\ Active' = Active
  BY DEF Executes, Fits, Active
<1>2. k \notin Active
  BY <1>1, NextId
<1>3. \A j \in OrderIds : j # k => order'[j] = order[j]
  BY <1>1 DEF SessionInv, TypeOK
<1>4. Reserved' = [j \in OrderIds |-> IF j \in Active' THEN ExposureOf(order'[j]) ELSE Idle]
  BY DEF Reserved, Exposures
<1>5. Reserved = [j \in OrderIds |-> IF j \in Active THEN ExposureOf(order[j]) ELSE Idle]
  BY DEF Reserved, Exposures
<1>6. /\ [order EXCEPT ![k] = new][k] = new
      /\ \A j \in OrderIds : j # k => [order EXCEPT ![k] = new][j] = order[j]
  BY <1>1 DEF SessionInv, TypeOK
<1>7. Booked(k, new, Active)
        = [j \in OrderIds |-> IF j \in Active \cup {k}
                              THEN ExposureOf([order EXCEPT ![k] = new][j]) ELSE Idle]
  BY DEF Booked, Exposures
<1>8. Booked(k, new, Active) = [Reserved EXCEPT ![k] = ExposureOf(new)]
  BY <1>1, <1>2, <1>5, <1>6, <1>7
<1> QED
  BY <1>1, <1>2, <1>3, <1>4, <1>5, <1>8

\* A replacement clears one slot and fills the next.
LEMMA ReplacesReserved ==
  ASSUME SessionInv, SessionInv', NEW i, NEW w, NEW k, NEW new, Replaces(i, w, k, new)
  PROVE  /\ i \in Active /\ i \in OrderIds /\ k \in OrderIds \ Active
         /\ Active' = (Active \ {i}) \cup {k}
         /\ Reserved' = [Reserved EXCEPT ![i] = Idle, ![k] = ExposureOf(new)]
         /\ Reserved' = Booked(k, new, Active \ {i})
<1>1. /\ k \in OrderIds /\ k = seq + 1 /\ order' = [order EXCEPT ![i] = w, ![k] = new]
      /\ i \in open /\ i \notin pending /\ i \in OrderIds /\ i \in Active
      /\ pending' = pending /\ open' = (open \ {i}) \cup {k}
  BY ActiveOrders DEF Replaces, Fits
<1>2. k \notin Active
  BY <1>1, NextId
<1>3. Active' = (Active \ {i}) \cup {k}
  BY <1>1 DEF Active
<1>4. order'[k] = new /\ \A j \in OrderIds : j # k /\ j # i => order'[j] = order[j]
  BY <1>1, <1>2 DEF SessionInv, TypeOK
<1>5. Reserved' = [j \in OrderIds |-> IF j \in Active' THEN ExposureOf(order'[j]) ELSE Idle]
  BY DEF Reserved, Exposures
<1>6. Reserved = [j \in OrderIds |-> IF j \in Active THEN ExposureOf(order[j]) ELSE Idle]
  BY DEF Reserved, Exposures
<1>7. /\ [order EXCEPT ![k] = new][k] = new
      /\ \A j \in OrderIds : j # k => [order EXCEPT ![k] = new][j] = order[j]
  BY <1>1 DEF SessionInv, TypeOK
<1>8. Booked(k, new, Active \ {i})
        = [j \in OrderIds |-> IF j \in (Active \ {i}) \cup {k}
                              THEN ExposureOf([order EXCEPT ![k] = new][j]) ELSE Idle]
  BY DEF Booked, Exposures
<1> DEFINE after == [j \in OrderIds |->
                        IF j = k THEN ExposureOf(new) ELSE
                        IF j \in Active \ {i} THEN ExposureOf(order[j]) ELSE Idle]
<1>9. Reserved' = after
  <2>1. ASSUME NEW j \in OrderIds
        PROVE  (IF j \in Active' THEN ExposureOf(order'[j]) ELSE Idle) = after[j]
    <3>1. CASE j = k
      BY <1>3, <1>4, <3>1
    <3>2. CASE j = i
      BY <1>1, <1>2, <1>3, <3>2
    <3>3. CASE j # k /\ j # i
      BY <1>3, <1>4, <3>3
    <3> QED BY <3>1, <3>2, <3>3
  <2> QED BY <1>5, <2>1
<1>10. Booked(k, new, Active \ {i}) = after
  BY <1>1, <1>2, <1>7, <1>8
<1>11. [Reserved EXCEPT ![i] = Idle, ![k] = ExposureOf(new)] = after
  <2>1. Reserved \in [OrderIds -> Exposure]
    BY ReservedFacts
  <2> DEFINE moved == [Reserved EXCEPT ![i] = Idle, ![k] = ExposureOf(new)]
  <2>2. /\ moved = [j \in OrderIds |-> moved[j]] /\ i # k
        /\ \A j \in OrderIds : moved[j] = IF j = k THEN ExposureOf(new) ELSE
                                       IF j = i THEN Idle ELSE Reserved[j]
    BY <1>1, <1>2, <2>1
  <2> HIDE DEF moved
  <2>3. \A j \in OrderIds : moved[j] = after[j]
    BY <1>1, <1>2, <1>6, <2>2
  <2>4. moved = after
    BY <2>2, <2>3
  <2> QED BY <2>4 DEF moved
<1> QED
  BY <1>1, <1>2, <1>3, <1>9, <1>10, <1>11

-----------------------------------------------------------------------------
(***************************************************************************)
(* Nothing speculative rests on a breached session.                        *)
(***************************************************************************)

\* No combination of fills of A leaves less than the configured floor.
SafeWith(p, e, A) == \A S \in SUBSET A : ScenarioG(p, e, S) >= GMin

\* An admission that is no recovery finds and leaves the floor respected.
LEMMA PlainAdmission ==
  ASSUME NEW p \in Portfolio, NEW e \in [OrderIds -> Exposure], NEW A, NEW k,
         Admits(p, e, A, k, FALSE)
  PROVE  SafeWith(p, e, A \cup {k})
<1>1. WorstCaseG(p, e, A \cup {k}) >= GMin /\ GMin \in Int
  BY Constants DEF Admits
<1>2. /\ WorstCaseG(p, e, A \cup {k}) \in Int
      /\ \A S \in SUBSET (A \cup {k}) : WorstCaseG(p, e, A \cup {k}) <= ScenarioG(p, e, S)
  BY WorstCaseBelow
<1>3. \A S \in SUBSET (A \cup {k}) : ScenarioG(p, e, S) \in Int
  BY WorstCaseBelow
<1> QED
  BY <1>1, <1>2, <1>3 DEF SafeWith

\* A recovery admission keeps a floor that was respected before.
LEMMA AdmissionKeepsSafe ==
  ASSUME NEW p \in Portfolio, NEW e1 \in [OrderIds -> Exposure],
         NEW e2 \in [OrderIds -> Exposure],
         NEW A \in SUBSET OrderIds, NEW k \in OrderIds \ A,
         \A i \in A : e1[i] = e2[i], e2[k].cost > 0,
         NEW isRecovery, Admits(p, e2, A, k, isRecovery), SafeWith(p, e1, A)
  PROVE  SafeWith(p, e2, A \cup {k})
<1>1. GMin \in Int /\ GMin <= GMin
  BY Constants
<1> QED
  BY <1>1, AdmissionKeeps DEF SafeWith

\* So does a fill.
LEMMA FillKeepsSafe ==
  ASSUME NEW p \in Portfolio, NEW e1 \in [OrderIds -> Exposure],
         NEW e2 \in [OrderIds -> Exposure],
         NEW A \in SUBSET OrderIds, NEW k \in OrderIds \ A,
         \A i \in A : e1[i] = e2[i],
         NEW x \in 0..e1[k].qty, NEW paid \in Affordable(e1[k], x),
         SafeWith(p, e1, A \cup {k})
  PROVE  SafeWith(ApplyFill(p, e1[k].side, x, paid), e2, A)
<1>1. GMin \in Int
  BY Constants
<1> QED
  BY <1>1, FillKeeps DEF SafeWith

\* Every step keeps it.
LEMMA RestingStep ==
  ASSUME SessionInv, RestingOnlyWhileSafe, [Next]_vars
  PROVE  RestingOnlyWhileSafe'
<1>1. BookStep /\ Control /\ SessionInv'
  BY StepForms, InvStep
<1>2. /\ pf \in Portfolio /\ pf' \in Portfolio
      /\ Reserved \in [OrderIds -> Exposure] /\ Active \in SUBSET OrderIds
  BY <1>1, SessionTimes, ReservedFacts, ActiveOrders DEF SessionInv, TypeOK
<1>3. Reserved' \in [OrderIds -> Exposure]
  <2>1. \A i \in Active' \cap OrderIds : order'[i] \in Order /\ order'[i].filled = 0
    BY <1>1 DEF SessionInv, TypeOK, OrdersAreSound, Active
  <2> QED BY <2>1, ExposuresTyped DEF Reserved
<1>4. open # {} => SafeWith(pf, Reserved, Active)
  BY DEF RestingOnlyWhileSafe, SafeWith, Reserved
<1>5. SUFFICES ASSUME open' # {} PROVE SafeWith(pf', Reserved', Active')
  BY DEF RestingOnlyWhileSafe, SafeWith, Reserved
<1>6. ASSUME NEW i, NEW w, Ends(i, w) PROVE SafeWith(pf', Reserved', Active')
  <2>1. /\ i \in Active /\ i \in OrderIds /\ Active' = Active \ {i}
        /\ Reserved' = [Reserved EXCEPT ![i] = Idle]
        /\ Reserved[i] = ExposureOf(order[i])
    BY <1>1, <1>6, EndsReserved
  <2>2. /\ open # {} /\ EndOf(order[i], w)
        /\ pf' = ApplyFill(pf, w.side, w.filled, w.paid)
    BY <1>5, <1>6 DEF Ends
  <2>3. order[i] \in Order /\ order[i].filled = 0
    BY <2>1, ActiveOrders
  <2>4. /\ w.side = Reserved[i].side /\ w.filled \in 0..Reserved[i].qty
        /\ w.paid \in Affordable(Reserved[i], w.filled)
    BY <2>1, <2>2, <2>3, EndAffordable
  <2> DEFINE A == Active \ {i}
             r == Reserved
             q == Reserved'
  <2>5. /\ A \in SUBSET OrderIds /\ i \in OrderIds \ A /\ A \cup {i} = Active
        /\ \A j \in A : r[j] = q[j]
    BY <1>2, <2>1
  <2>6. SafeWith(pf, r, A \cup {i}) /\ r \in [OrderIds -> Exposure]
        /\ q \in [OrderIds -> Exposure]
    BY <1>2, <1>3, <1>4, <2>2, <2>5
  <2> HIDE DEF A, r, q
  <2>7. SafeWith(ApplyFill(pf, r[i].side, w.filled, w.paid), q, A)
    <3>1. w.filled \in 0..r[i].qty /\ w.paid \in Affordable(r[i], w.filled)
      BY <2>4 DEF r
    <3> QED BY <1>2, <2>5, <2>6, <3>1, FillKeepsSafe
  <2> QED BY <2>1, <2>2, <2>4, <2>7 DEF A, r, q
<1>7. ASSUME NEW k, NEW new, NEW purpose, Submits(k, new, purpose)
      PROVE  SafeWith(pf', Reserved', Active')
  <2>1. /\ k \in OrderIds \ Active /\ Active' = Active \cup {k}
        /\ Reserved' = [Reserved EXCEPT ![k] = ExposureOf(new)]
        /\ Reserved' = Booked(k, new, Active)
    BY <1>1, <1>7, SubmitsReserved
  <2>2. /\ Admits(pf, Reserved', Active, k, IsRecovery(purpose)) /\ pf' = pf
        /\ new \in Order /\ new.filled = 0 /\ new.qty \in MinShares..PositionLimit
    BY <1>7, <2>1 DEF Submits, Fits, AdmitsOrder, Booked
  <2> DEFINE q == Reserved'
             r == Reserved
  <2>3. /\ q \in [OrderIds -> Exposure] /\ r \in [OrderIds -> Exposure]
        /\ Admits(pf, q, Active, k, IsRecovery(purpose))
        /\ \A j \in Active : r[j] = q[j]
        /\ q[k] = ExposureOf(new)
    BY <1>2, <1>3, <2>1, <2>2
  <2>4. ~IsRecovery(purpose) => SafeWith(pf', Reserved', Active')
    <3> SUFFICES ASSUME ~IsRecovery(purpose) PROVE SafeWith(pf', Reserved', Active')
      OBVIOUS
    <3>1. IsRecovery(purpose) = FALSE
      BY DEF IsRecovery
    <3> HIDE DEF q, r
    <3>2. SafeWith(pf, q, Active \cup {k})
      BY <1>2, <2>3, <3>1, PlainAdmission
    <3> QED BY <2>1, <2>2, <3>2 DEF q
  <2>5. IsRecovery(purpose) => SafeWith(pf', Reserved', Active')
    <3> SUFFICES ASSUME IsRecovery(purpose) PROVE SafeWith(pf', Reserved', Active')
      OBVIOUS
    <3>1. open' = open
      BY <1>7 DEF Submits
    <3> HIDE DEF q, r
    <3>2. SafeWith(pf, r, Active)
      BY <1>4, <1>5, <3>1 DEF r
    <3>3. q[k].cost > 0
      BY <2>2, <2>3, OfferPositive
    <3>4. SafeWith(pf, q, Active \cup {k})
      BY <1>2, <2>1, <2>3, <3>2, <3>3, AdmissionKeepsSafe
    <3> QED BY <2>1, <2>2, <3>4 DEF q
  <2> QED BY <2>4, <2>5
<1>8. ASSUME NEW k, NEW new, NEW w, NEW purpose, Executes(k, new, w, purpose)
      PROVE  SafeWith(pf', Reserved', Active')
  <2> DEFINE b == Booked(k, new, Active)
  <2>1. /\ k \in OrderIds \ Active /\ Active' = Active /\ Reserved' = Reserved
        /\ b = [Reserved EXCEPT ![k] = ExposureOf(new)]
    BY <1>1, <1>8, ExecutesReserved
  <2>2. /\ Admits(pf, b, Active, k, IsRecovery(purpose))
        /\ pf' = ApplyFill(pf, w.side, w.filled, w.paid) /\ EndOf(new, w)
        /\ new \in Order /\ new.filled = 0 /\ new.qty \in MinShares..PositionLimit
        /\ open' = open
    BY <1>8 DEF Executes, Fits, AdmitsOrder, Booked
  <2> HIDE DEF b
  <2>3. /\ ExposureOf(new) \in Exposure /\ ExposureOf(new).cost > 0
    BY <2>2, OfferPositive
  <2>4. /\ b \in [OrderIds -> Exposure] /\ b[k] = ExposureOf(new)
        /\ \A j \in Active : b[j] = Reserved[j]
    BY <1>2, <2>1, <2>3
  <2>5. SafeWith(pf, Reserved, Active)
    BY <1>4, <1>5, <2>2
  <2>6. SafeWith(pf, b, Active \cup {k})
    <3>1. b[k].cost > 0 /\ \A j \in Active : Reserved[j] = b[j]
      BY <2>3, <2>4
    <3> QED BY <1>2, <2>1, <2>2, <2>4, <2>5, <3>1, AdmissionKeepsSafe
  <2>7. /\ w.side = b[k].side /\ w.filled \in 0..b[k].qty
        /\ w.paid \in Affordable(b[k], w.filled)
    BY <2>2, <2>4, EndAffordable
  <2>8. SafeWith(ApplyFill(pf, b[k].side, w.filled, w.paid), Reserved, Active)
    BY <1>2, <2>1, <2>4, <2>6, <2>7, FillKeepsSafe
  <2> QED BY <2>1, <2>2, <2>7, <2>8
<1>9. ASSUME NEW i, NEW w, NEW k, NEW new, Replaces(i, w, k, new)
      PROVE  SafeWith(pf', Reserved', Active')
  <2>1. /\ Active' = (Active \ {i}) \cup {k}
        /\ Reserved' = Booked(k, new, Active \ {i})
    BY <1>1, <1>9, ReplacesReserved
  <2>2. IsRecovery("ALPHA") = FALSE
    BY DEF IsRecovery
  <2>3. Admits(pf, Reserved', Active \ {i}, k, FALSE) /\ pf' = pf
    BY <1>9, <2>1, <2>2 DEF Replaces, Fits, AdmitsOrder, Booked
  <2> DEFINE q == Reserved'
  <2>4. q \in [OrderIds -> Exposure] /\ Admits(pf, q, Active \ {i}, k, FALSE)
    BY <1>3, <2>3
  <2> HIDE DEF q
  <2>5. SafeWith(pf, q, (Active \ {i}) \cup {k})
    BY <1>2, <2>4, PlainAdmission
  <2> QED BY <2>1, <2>3, <2>5 DEF q
<1>10. CASE UNCHANGED book
  <2>1. /\ pf' = pf /\ Reserved' = Reserved /\ Active' = Active /\ open' = open
    BY <1>10 DEF book, Reserved, Active, Exposures
  <2> QED BY <1>4, <1>5, <2>1
<1> QED
  BY <1>1, <1>6, <1>7, <1>8, <1>9, <1>10 DEF BookStep

\* While any maker rests, every fill subset keeps the margin at the floor:
\* makers are admitted as ALPHA only, and neither a recovery order nor a fill
\* undoes that.
THEOREM RestingOnlyWhileSafeHolds == Spec => []RestingOnlyWhileSafe
<1>1. Init => RestingOnlyWhileSafe
  BY DEF Init, RestingOnlyWhileSafe
<1>2. SessionInv /\ RestingOnlyWhileSafe /\ [Next]_vars => RestingOnlyWhileSafe'
  BY RestingStep
<1> QED
  BY <1>1, <1>2, SessionInvariant, PTL DEF Spec

-----------------------------------------------------------------------------
(***************************************************************************)
(* The refinement of RiskLedger.  Its operators, read through the instance *)
(* Ledger, are the session's own.                                          *)
(***************************************************************************)

\* Sums, margins and fills of the ledger are those of the session.
LEMMA LedgerSums ==
  /\ \A a, b : Ledger!Lesser(a, b) = Lesser(a, b)
  /\ \A e, S, side : Ledger!SharesOn(e, S, side) = SharesOn(e, S, side)
  /\ \A e, S : Ledger!CostOf(e, S) = CostOf(e, S)
  /\ \A p, side, x, paid : Ledger!ApplyFill(p, side, x, paid) = ApplyFill(p, side, x, paid)
  /\ \A e, x : Ledger!Affordable(e, x) = Affordable(e, x)
  /\ Ledger!Idle = Idle /\ Ledger!OrderIds = OrderIds
<1>1. \A f, n : Ledger!PartialSums(f, n) = PartialSums(f, n)
  BY DEF Ledger!PartialSums, PartialSums
<1>2. \A f, n : Ledger!Total(f, n) = Total(f, n)
  BY <1>1 DEF Ledger!Total, Total
<1>3. \A a, b : Ledger!Lesser(a, b) = Lesser(a, b)
  BY DEF Ledger!Lesser, Lesser
<1>4. \A e, S, side : Ledger!ShareTerms(e, S, side) = ShareTerms(e, S, side)
  BY DEF Ledger!ShareTerms, ShareTerms, Ledger!OrderIds, OrderIds
<1>5. \A e, S : Ledger!CostTerms(e, S) = CostTerms(e, S)
  BY DEF Ledger!CostTerms, CostTerms, Ledger!OrderIds, OrderIds
<1>6. \A e, S, side : Ledger!SharesOn(e, S, side) = SharesOn(e, S, side)
  BY <1>2, <1>4 DEF Ledger!SharesOn, SharesOn
<1>7. \A e, S : Ledger!CostOf(e, S) = CostOf(e, S)
  BY <1>2, <1>5 DEF Ledger!CostOf, CostOf
<1>8. \A p, side, x, paid : Ledger!ApplyFill(p, side, x, paid) = ApplyFill(p, side, x, paid)
  BY DEF Ledger!ApplyFill, ApplyFill
<1>9. \A e, x : Ledger!Affordable(e, x) = Affordable(e, x)
  BY <1>3 DEF Ledger!Affordable, Affordable
<1>10. Ledger!Idle = Idle /\ Ledger!OrderIds = OrderIds
  BY DEF Ledger!Idle, Idle, Ledger!OrderIds, OrderIds
<1> QED
  BY <1>3, <1>6, <1>7, <1>8, <1>9, <1>10

\* The ledger's admission is RiskView.admits of the session.
LEMMA LedgerAdmits ==
  ASSUME NEW p, NEW e, NEW A, NEW k, NEW isRecovery
  PROVE  Ledger!Admits(p, e, A, k, isRecovery) <=> Admits(p, e, A, k, isRecovery)
<1>1. \A S : Ledger!Cardinality(S) = Cardinality(S)
  BY DEF Ledger!Cardinality, Cardinality
<1>2. \A S : Ledger!Least(S) = Least(S)
  BY DEF Ledger!Least, Least
<1>3. \A q : Ledger!G(q) = G(q)
  BY LedgerSums DEF Ledger!G, G
<1>4. \A q, S : Ledger!ScenarioG(q, e, S) = ScenarioG(q, e, S)
  BY LedgerSums DEF Ledger!ScenarioG, ScenarioG
<1>5. \A q, B : Ledger!ConservativeG(q, e, B) = ConservativeG(q, e, B)
  BY LedgerSums, <1>3 DEF Ledger!ConservativeG, ConservativeG
<1>6. ASSUME NEW B PROVE Ledger!WorstCaseG(p, e, B) = WorstCaseG(p, e, B)
  <2>1. {Ledger!ScenarioG(p, e, S) : S \in SUBSET B} = {ScenarioG(p, e, S) : S \in SUBSET B}
    BY <1>4
  <2> QED BY <1>1, <1>2, <1>5, <2>1 DEF Ledger!WorstCaseG, WorstCaseG
<1> QED
  BY <1>6, LedgerSums DEF Ledger!Admits, Admits

\* An order is active in the ledger while it is pending or open.
LEMMA LedgerActive ==
  ASSUME SessionInv
  PROVE  Ledger!Active = Active
<1>1. \A i \in OrderIds : Reserved[i] = IF i \in Active THEN ExposureOf(order[i]) ELSE Idle
  BY ReservedFacts
<1>2. \A i \in Active : i \in OrderIds /\ ExposureOf(order[i]).qty > 0
  BY ActiveOrders, OfferPositive
<1>3. Idle.qty = 0
  BY DEF Idle
<1>4. Active = {i \in OrderIds : Reserved[i].qty > 0}
  BY <1>1, <1>2, <1>3
<1>5. Ledger!Active = {i \in OrderIds : Reserved[i].qty > 0}
  BY LedgerSums DEF Ledger!Active, Reserved
<1> QED
  BY <1>4, <1>5

\* A fitting order is on offer in the ledger.
LEMMA FitsOffer ==
  ASSUME NEW k, NEW new, NEW A, NEW purpose, Fits(k, new, A, purpose)
  PROVE  ExposureOf(new) \in SessionOffers
<1>1. /\ new \in Order /\ new.filled = 0 /\ new.qty \in MinShares..PositionLimit
      /\ new.side \in Sides /\ new.price \in Prices /\ new.qty \in Nat
  BY OrderFields DEF Fits
<1>2. UnitPrice(new) \in Prices \cup {UnitCost[p] : p \in Prices}
  BY <1>1 DEF UnitPrice
<1>3. new.qty - new.filled = new.qty
  BY <1>1
<1> QED
  BY <1>1, <1>2, <1>3 DEF ExposureOf, SessionOffers

\* An order that ends settles for what it got.
LEMMA EndsSettles ==
  ASSUME SessionInv, SessionInv', Control, NEW i, NEW w, Ends(i, w)
  PROVE  Ledger!Settle(i) /\ i \in OrderIds
<1>1. /\ i \in Active /\ i \in OrderIds
      /\ Reserved' = [Reserved EXCEPT ![i] = Idle]
      /\ Reserved[i] = ExposureOf(order[i])
  BY EndsReserved
<1>2. order[i] \in Order /\ order[i].filled = 0
  BY <1>1, ActiveOrders
<1>3. /\ EndOf(order[i], w) /\ pf' = ApplyFill(pf, w.side, w.filled, w.paid)
  BY DEF Ends
<1>4. /\ w.side = Reserved[i].side /\ w.filled \in 0..Reserved[i].qty
      /\ w.paid \in Affordable(Reserved[i], w.filled)
  BY <1>1, <1>2, <1>3, EndAffordable
<1>5. \E x \in 0..Reserved[i].qty : \E paid \in Affordable(Reserved[i], x) :
        pf' = ApplyFill(pf, Reserved[i].side, x, paid)
  BY <1>3, <1>4
<1>6. (setup.opening)' = setup.opening
  BY DEF Control
<1>7. /\ i \in Ledger!Active
      /\ Reserved' = [Reserved EXCEPT ![i] = Ledger!Idle]
      /\ \E x \in 0..Reserved[i].qty : \E paid \in Ledger!Affordable(Reserved[i], x) :
           pf' = Ledger!ApplyFill(pf, Reserved[i].side, x, paid)
  BY <1>1, <1>5, LedgerActive, LedgerSums
<1> QED
  BY <1>1, <1>6, <1>7 DEF Ledger!Settle, Reserved

\* A submission reserves.
LEMMA SubmitsReserves ==
  ASSUME SessionInv, SessionInv', Control, NEW k, NEW new, NEW purpose,
         Submits(k, new, purpose)
  PROVE  Ledger!Reserve(k) /\ k \in OrderIds
<1>1. /\ k \in OrderIds \ Active
      /\ Reserved' = [Reserved EXCEPT ![k] = ExposureOf(new)]
      /\ Reserved' = Booked(k, new, Active)
  BY SubmitsReserved
<1>2. Fits(k, new, Active, purpose) /\ pf' = pf /\ (setup.opening)' = setup.opening
  BY DEF Submits, Control
<1>3. Admits(pf, Reserved', Active, k, IsRecovery(purpose))
  BY <1>1, <1>2 DEF Fits, AdmitsOrder, Booked
<1>4. \E isRecovery \in BOOLEAN : Ledger!Admits(pf, Reserved', Ledger!Active, k, isRecovery)
  <2>1. IsRecovery(purpose) \in BOOLEAN
    BY DEF IsRecovery
  <2> QED BY <1>3, <2>1, LedgerAdmits, LedgerActive
<1>5. \E e \in SessionOffers : Reserved' = [Reserved EXCEPT ![k] = e]
  BY <1>1, <1>2, FitsOffer
<1>6. k \notin Ledger!Active
  BY <1>1, LedgerActive
<1> QED
  BY <1>1, <1>2, <1>4, <1>5, <1>6 DEF Ledger!Reserve, Reserved

\* An immediate match that got something is executed; one that got nothing
\* leaves the ledger alone.
LEMMA ExecutesExecutes ==
  ASSUME SessionInv, SessionInv', Control, NEW k, NEW new, NEW w, NEW purpose,
         Executes(k, new, w, purpose)
  PROVE  (Ledger!Execute(k) /\ k \in OrderIds) \/ UNCHANGED Ledger!vars
<1> DEFINE e == ExposureOf(new)
<1>1. /\ k \in OrderIds \ Active /\ Reserved' = Reserved
      /\ Booked(k, new, Active) = [Reserved EXCEPT ![k] = e]
  BY ExecutesReserved
<1>2. /\ Fits(k, new, Active, purpose) /\ EndOf(new, w)
      /\ pf' = ApplyFill(pf, w.side, w.filled, w.paid)
      /\ (setup.opening)' = setup.opening
  BY DEF Executes, Control
<1>3. new \in Order /\ new.filled = 0 /\ new.qty \in Nat
  BY <1>2, OrderFields DEF Fits
<1>4. /\ w.side = e.side /\ w.filled \in 0..e.qty /\ e.qty \in Nat
      /\ w.paid \in Affordable(e, w.filled) /\ w.filled \in Nat
  BY <1>2, <1>3, EndAffordable, ExposureOfFacts, EndNumbers
<1>5. CASE w.filled = 0
  <2>1. w.paid \in Nat /\ w.paid <= w.filled * Payout /\ Payout \in Nat
    BY <1>2, <1>3, EndNumbers, Constants
  <2>2. w.paid = 0
    BY <1>5, <2>1, Times
  <2>3. pf' = pf
    BY <1>2, <1>5, <2>2, SessionTimes, NothingFilled
  <2> QED BY <1>1, <1>2, <2>3 DEF Ledger!vars, Reserved
<1>6. CASE w.filled # 0
  <2>1. Admits(pf, [Reserved EXCEPT ![k] = e], Active, k, IsRecovery(purpose))
    <3>1. Admits(pf, Booked(k, new, Active), Active, k, IsRecovery(purpose))
      BY <1>2 DEF Fits, AdmitsOrder, Booked
    <3> QED BY <1>1, <3>1
  <2>2. e \in SessionOffers
    BY <1>2, FitsOffer
  <2> HIDE DEF e
  <2>3. \E isRecovery \in BOOLEAN :
          Ledger!Admits(pf, [Reserved EXCEPT ![k] = e], Ledger!Active, k, isRecovery)
    <3>1. IsRecovery(purpose) \in BOOLEAN
      BY DEF IsRecovery
    <3> QED BY <2>1, <3>1, LedgerAdmits, LedgerActive
  <2>4. w.filled \in 1..e.qty
    BY <1>4, <1>6
  <2>5. \E x \in 1..e.qty : \E paid \in Ledger!Affordable(e, x) :
          pf' = Ledger!ApplyFill(pf, e.side, x, paid)
    BY <1>2, <1>4, <2>4, LedgerSums
  <2>6. k \notin Ledger!Active
    BY <1>1, LedgerActive
  <2>7. Ledger!Execute(k)
    BY <1>1, <1>2, <2>2, <2>3, <2>5, <2>6 DEF Ledger!Execute, Reserved
  <2> QED BY <1>1, <2>7
<1> QED
  BY <1>5, <1>6

\* A replacement replaces.
LEMMA ReplacesReplaces ==
  ASSUME SessionInv, SessionInv', Control, NEW i, NEW w, NEW k, NEW new,
         Replaces(i, w, k, new)
  PROVE  Ledger!Replace(i, k) /\ i \in OrderIds /\ k \in OrderIds
<1>1. /\ i \in Active /\ i \in OrderIds /\ k \in OrderIds \ Active
      /\ Reserved' = [Reserved EXCEPT ![i] = Idle, ![k] = ExposureOf(new)]
      /\ Reserved' = Booked(k, new, Active \ {i})
  BY ReplacesReserved
<1>2. Fits(k, new, Active \ {i}, "ALPHA") /\ pf' = pf /\ (setup.opening)' = setup.opening
  BY DEF Replaces, Control
<1>3. Admits(pf, Reserved', Active \ {i}, k, IsRecovery("ALPHA"))
  BY <1>1, <1>2 DEF Fits, AdmitsOrder, Booked
<1>4. \E isRecovery \in BOOLEAN :
        Ledger!Admits(pf, Reserved', Ledger!Active \ {i}, k, isRecovery)
  <2>1. IsRecovery("ALPHA") \in BOOLEAN
    BY DEF IsRecovery
  <2> QED BY <1>3, <2>1, LedgerAdmits, LedgerActive
<1>5. \E e \in SessionOffers : Reserved' = [Reserved EXCEPT ![i] = Ledger!Idle, ![k] = e]
  BY <1>1, <1>2, FitsOffer, LedgerSums
<1>6. i \in Ledger!Active /\ k \notin Ledger!Active
  BY <1>1, LedgerActive
<1> QED
  BY <1>1, <1>2, <1>4, <1>5, <1>6 DEF Ledger!Replace, Reserved

\* Every step of a session is a step of the ledger or leaves it alone.
LEMMA LedgerStep ==
  ASSUME SessionInv, [Next]_vars
  PROVE  [Ledger!Next]_Ledger!vars
<1>1. BookStep /\ Control /\ SessionInv'
  BY StepForms, InvStep
<1>2. Ledger!OrderIds = OrderIds
  BY LedgerSums
<1>3. ASSUME NEW i, NEW w, Ends(i, w) PROVE Ledger!Next
  BY <1>1, <1>2, <1>3, EndsSettles DEF Ledger!Next
<1>4. ASSUME NEW k, NEW new, NEW purpose, Submits(k, new, purpose) PROVE Ledger!Next
  BY <1>1, <1>2, <1>4, SubmitsReserves DEF Ledger!Next
<1>5. ASSUME NEW k, NEW new, NEW w, NEW purpose, Executes(k, new, w, purpose)
      PROVE  Ledger!Next \/ UNCHANGED Ledger!vars
  BY <1>1, <1>2, <1>5, ExecutesExecutes DEF Ledger!Next
<1>6. ASSUME NEW i, NEW w, NEW k, NEW new, Replaces(i, w, k, new) PROVE Ledger!Next
  BY <1>1, <1>2, <1>6, ReplacesReplaces DEF Ledger!Next
<1>7. CASE UNCHANGED book
  <2>1. setup' = setup /\ pf' = pf /\ order' = order /\ Active' = Active
    BY <1>1, <1>7 DEF Control, book, Active
  <2> QED BY <2>1 DEF Ledger!vars
<1> QED
  BY <1>1, <1>3, <1>4, <1>5, <1>6, <1>7 DEF BookStep

\* The trading session implements the risk ledger: dispatch, the taker queue,
\* the supervisor and the expiry of makers change the portfolio and the
\* reserve only in the ways the gate allows.
THEOREM SessionImplementsLedger == Spec => ImplementsLedger
<1>1. Init => Ledger!Init
  <2> SUFFICES ASSUME Init PROVE Ledger!Init
    OBVIOUS
  <2>1. /\ setup \in Setups /\ pf = setup.opening /\ Active = {}
    BY DEF Init, Active
  <2>2. pf \in {s.opening : s \in Setups}
    BY <2>1
  <2>3. Exposures(order, Active) = [i \in OrderIds |-> Idle]
    BY <2>1 DEF Exposures
  <2> QED BY <2>1, <2>2, <2>3, LedgerSums DEF Ledger!Init
<1>2. SessionInv /\ [Next]_vars => [Ledger!Next]_Ledger!vars
  BY LedgerStep
<1> QED
  BY <1>1, <1>2, SessionInvariant, PTL DEF Spec, ImplementsLedger, Ledger!Spec

-----------------------------------------------------------------------------
(***************************************************************************)
(* What the ledger promises for every instance holds of every session.     *)
(***************************************************************************)

\* Both instances read the same sums and fills.
LEMMA PromiseSums ==
  /\ \A a, b : Promise!Lesser(a, b) = Ledger!Lesser(a, b)
  /\ \A a, b : Promise!Greater(a, b) = Ledger!Greater(a, b)
  /\ \A e, S, side : Promise!SharesOn(e, S, side) = Ledger!SharesOn(e, S, side)
  /\ \A e, S : Promise!CostOf(e, S) = Ledger!CostOf(e, S)
  /\ \A p : Promise!G(p) = Ledger!G(p)
  /\ \A p, e, S : Promise!ScenarioG(p, e, S) = Ledger!ScenarioG(p, e, S)
  /\ \A p, side, x, paid :
       Promise!ApplyFill(p, side, x, paid) = Ledger!ApplyFill(p, side, x, paid)
  /\ \A e, x : Promise!Affordable(e, x) = Ledger!Affordable(e, x)
  /\ Promise!Idle = Ledger!Idle /\ Promise!OrderIds = Ledger!OrderIds
  /\ Promise!Active = Ledger!Active
<1>1. \A f, n : Promise!PartialSums(f, n) = Ledger!PartialSums(f, n)
  BY DEF Promise!PartialSums, Ledger!PartialSums
<1>2. \A f, n : Promise!Total(f, n) = Ledger!Total(f, n)
  BY <1>1 DEF Promise!Total, Ledger!Total
<1>3. \A a, b : /\ Promise!Lesser(a, b) = Ledger!Lesser(a, b)
                /\ Promise!Greater(a, b) = Ledger!Greater(a, b)
  BY DEF Promise!Lesser, Ledger!Lesser, Promise!Greater, Ledger!Greater
<1>4. Promise!Idle = Ledger!Idle /\ Promise!OrderIds = Ledger!OrderIds
  BY DEF Promise!Idle, Ledger!Idle, Promise!OrderIds, Ledger!OrderIds
<1>5. \A e, S, side : Promise!ShareTerms(e, S, side) = Ledger!ShareTerms(e, S, side)
  BY <1>4 DEF Promise!ShareTerms, Ledger!ShareTerms
<1>6. \A e, S : Promise!CostTerms(e, S) = Ledger!CostTerms(e, S)
  BY <1>4 DEF Promise!CostTerms, Ledger!CostTerms
<1>7. \A e, S, side : Promise!SharesOn(e, S, side) = Ledger!SharesOn(e, S, side)
  BY <1>2, <1>5 DEF Promise!SharesOn, Ledger!SharesOn, Promise!OrderIds, Ledger!OrderIds
<1>8. \A e, S : Promise!CostOf(e, S) = Ledger!CostOf(e, S)
  BY <1>2, <1>6 DEF Promise!CostOf, Ledger!CostOf
<1>9. \A p : Promise!G(p) = Ledger!G(p)
  BY <1>3 DEF Promise!G, Ledger!G
<1>10. \A p, e, S : Promise!ScenarioG(p, e, S) = Ledger!ScenarioG(p, e, S)
  BY <1>3, <1>7, <1>8 DEF Promise!ScenarioG, Ledger!ScenarioG
<1>11. \A p, side, x, paid :
         Promise!ApplyFill(p, side, x, paid) = Ledger!ApplyFill(p, side, x, paid)
  BY DEF Promise!ApplyFill, Ledger!ApplyFill
<1>12. \A e, x : Promise!Affordable(e, x) = Ledger!Affordable(e, x)
  BY <1>3 DEF Promise!Affordable, Ledger!Affordable
<1>13. Promise!Active = Ledger!Active
  BY <1>4 DEF Promise!Active, Ledger!Active
<1> QED
  BY <1>3, <1>4, <1>7, <1>8, <1>9, <1>10, <1>11, <1>12, <1>13

\* Both instances admit the same orders.
LEMMA PromiseAdmits ==
  ASSUME NEW p, NEW e, NEW A, NEW k, NEW isRecovery
  PROVE  Promise!Admits(p, e, A, k, isRecovery) <=> Ledger!Admits(p, e, A, k, isRecovery)
<1>1. \A S : Promise!Cardinality(S) = Ledger!Cardinality(S)
  BY DEF Promise!Cardinality, Ledger!Cardinality
<1>2. \A S : Promise!Least(S) = Ledger!Least(S)
  BY DEF Promise!Least, Ledger!Least
<1>3. \A q, B : Promise!ConservativeG(q, e, B) = Ledger!ConservativeG(q, e, B)
  BY PromiseSums DEF Promise!ConservativeG, Ledger!ConservativeG
<1>4. ASSUME NEW B PROVE Promise!WorstCaseG(p, e, B) = Ledger!WorstCaseG(p, e, B)
  <2>1. {Promise!ScenarioG(p, e, S) : S \in SUBSET B}
          = {Ledger!ScenarioG(p, e, S) : S \in SUBSET B}
    BY PromiseSums
  <2> QED BY <1>1, <1>2, <1>3, <2>1 DEF Promise!WorstCaseG, Ledger!WorstCaseG
<1> QED
  BY <1>4, PromiseSums DEF Promise!Admits, Ledger!Admits

\* The steps of one instance are those of the other.
LEMMA PromiseStep == [Ledger!Next]_Ledger!vars => [Promise!Next]_Promise!vars
<1>1. ASSUME NEW k, Ledger!Reserve(k) PROVE Promise!Reserve(k)
  BY <1>1, PromiseSums, PromiseAdmits DEF Ledger!Reserve, Promise!Reserve
<1>2. ASSUME NEW k, Ledger!Settle(k) PROVE Promise!Settle(k)
  BY <1>2, PromiseSums DEF Ledger!Settle, Promise!Settle
<1>3. ASSUME NEW k, Ledger!Release(k) PROVE Promise!Release(k)
  BY <1>3, PromiseSums DEF Ledger!Release, Promise!Release
<1>4. ASSUME NEW k, Ledger!Execute(k) PROVE Promise!Execute(k)
  BY <1>4, PromiseSums, PromiseAdmits DEF Ledger!Execute, Promise!Execute
<1>5. ASSUME NEW k, NEW n, Ledger!Replace(k, n) PROVE Promise!Replace(k, n)
  BY <1>5, PromiseSums, PromiseAdmits DEF Ledger!Replace, Promise!Replace
<1>6. Ledger!vars = Promise!vars /\ (UNCHANGED Ledger!vars => UNCHANGED Promise!vars)
  BY DEF Ledger!vars, Promise!vars
<1>7. Promise!OrderIds = Ledger!OrderIds
  BY PromiseSums
<1>8. Ledger!Next => Promise!Next
  BY <1>1, <1>2, <1>3, <1>4, <1>5, <1>7 DEF Ledger!Next, Promise!Next
<1> QED
  BY <1>6, <1>8

\* A session is a behaviour the ledger's theorems are about.
LEMMA SessionKeepsPromise == Spec => Promise!Spec
<1>1. Ledger!Init => Promise!Init
  BY PromiseSums DEF Ledger!Init, Promise!Init
<1> QED
  BY <1>1, PromiseStep, SessionImplementsLedger, PTL
     DEF ImplementsLedger, Ledger!Spec, Promise!Spec

\* Whatever subset of a session's pending and resting orders fills, its
\* margin stays at GMin, or where it opened when that was already lower.
THEOREM SessionKeepsFloor == Spec => []Ledger!EnvelopeFloor
<1>1. Promise!Spec => []Promise!EnvelopeFloor
  BY PromiseAssumptions, Promise!EnvelopeFloorHolds
<1>2. Promise!EnvelopeFloor => Ledger!EnvelopeFloor
  BY PromiseSums DEF Promise!EnvelopeFloor, Promise!EnvelopeAtLeast, Promise!Floor,
                     Ledger!EnvelopeFloor, Ledger!EnvelopeAtLeast, Ledger!Floor
<1> QED
  BY <1>1, <1>2, SessionKeepsPromise, PTL

\* Money spent and reserved by a session stays within the spend cap.
THEOREM SessionKeepsSpendCap == Spec => []Ledger!SpendWithinCap
<1>1. Promise!Spec => []Promise!SpendWithinCap
  BY PromiseAssumptions, Promise!SpendWithinCapHolds
<1>2. Promise!SpendWithinCap => Ledger!SpendWithinCap
  BY PromiseSums DEF Promise!SpendWithinCap, Ledger!SpendWithinCap
<1> QED
  BY <1>1, <1>2, SessionKeepsPromise, PTL

\* Shares held and reserved by a session stay within the position limit.
THEOREM SessionKeepsPositionLimit == Spec => []Ledger!PositionWithinLimit
<1>1. Promise!Spec => []Promise!PositionWithinLimit
  BY PromiseAssumptions, Promise!PositionWithinLimitHolds
<1>2. Promise!PositionWithinLimit => Ledger!PositionWithinLimit
  BY PromiseSums DEF Promise!PositionWithinLimit, Ledger!PositionWithinLimit
<1> QED
  BY <1>1, <1>2, SessionKeepsPromise, PTL
=============================================================================
