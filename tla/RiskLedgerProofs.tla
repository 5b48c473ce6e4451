-------------------------- MODULE RiskLedgerProofs --------------------------
(***************************************************************************)
(* The promise of RiskLedger holds for every price grid, every fee table,  *)
(* every limit, every number of orders and every exact-subset cap.         *)
(*                                                                         *)
(* All five properties are inductive together with the type invariant.     *)
(* Three facts carry them: an admission keeps every respected margin       *)
(* (AdmitsKeeps), a fill stays between "nothing" and "in full"             *)
(* (FillBetween), and sums depend on the slots they range over only.       *)
(***************************************************************************)
EXTENDS RiskLedger, TotalsProofs

-----------------------------------------------------------------------------
(***************************************************************************)
(* What the admission rule of RiskEnvelope guarantees for any portfolio pt,*)
(* any exposures bk and any number of orders.                              *)
(***************************************************************************)

\* The types of the constants.
LEMMA Constants ==
  /\ Payout \in Nat /\ Payout > 0
  /\ MaxOrders \in Nat /\ ExactSubsetCap \in Nat /\ GMin \in Int
  /\ SpendCap \in Nat /\ PositionLimit \in Nat
  BY PriceAssumption, RiskAssumption

\* The fields of an exposure.
LEMMA ExposureFields ==
  ASSUME NEW bk \in [OrderIds -> Exposure], NEW i \in OrderIds
  PROVE  bk[i].side \in Sides /\ bk[i].qty \in Nat /\ bk[i].cost \in Nat
  BY DEF Exposure

\* The terms of the two sums are natural numbers.
LEMMA TermsNat ==
  ASSUME NEW bk \in [OrderIds -> Exposure], NEW S, NEW side
  PROVE  /\ CostTerms(bk, S) \in [1..MaxOrders -> Nat]
         /\ ShareTerms(bk, S, side) \in [1..MaxOrders -> Nat]
<1>1. \A i \in OrderIds : /\ (IF i \in S THEN bk[i].cost ELSE 0) \in Nat
                          /\ (IF i \in S /\ bk[i].side = side
                              THEN bk[i].qty ELSE 0) \in Nat
  <2> SUFFICES ASSUME NEW i \in OrderIds
               PROVE  /\ (IF i \in S THEN bk[i].cost ELSE 0) \in Nat
                      /\ (IF i \in S /\ bk[i].side = side
                          THEN bk[i].qty ELSE 0) \in Nat
    OBVIOUS
  <2>1. bk[i].qty \in Nat /\ bk[i].cost \in Nat
    BY ExposureFields
  <2> QED BY <2>1
<1> QED
  BY <1>1 DEF CostTerms, ShareTerms, OrderIds

\* Natural terms are integers, as the lemmas on totals want them.
LEMMA TermsInt ==
  ASSUME NEW bk \in [OrderIds -> Exposure], NEW S, NEW side
  PROVE  /\ CostTerms(bk, S) \in [1..MaxOrders -> Int]
         /\ ShareTerms(bk, S, side) \in [1..MaxOrders -> Int]
<1> DEFINE c == CostTerms(bk, S)
           q == ShareTerms(bk, S, side)
<1>1. c \in [1..MaxOrders -> Nat] /\ q \in [1..MaxOrders -> Nat]
  BY TermsNat
<1> HIDE DEF c, q
<1>2. c \in [1..MaxOrders -> Int] /\ q \in [1..MaxOrders -> Int]
  BY <1>1
<1> QED
  BY <1>2 DEF c, q

\* A term of each sum.
LEMMA TermAt ==
  ASSUME NEW bk, NEW S, NEW side, NEW i \in 1..MaxOrders
  PROVE  /\ CostTerms(bk, S)[i] = IF i \in S THEN bk[i].cost ELSE 0
         /\ ShareTerms(bk, S, side)[i]
              = IF i \in S /\ bk[i].side = side THEN bk[i].qty ELSE 0
  BY DEF CostTerms, ShareTerms, OrderIds

\* Fewer orders cost no more and bring no more.
LEMMA SumsMonotone ==
  ASSUME NEW bk \in [OrderIds -> Exposure], NEW T, NEW S \in SUBSET T, NEW side
  PROVE  /\ CostOf(bk, S) <= CostOf(bk, T)
         /\ SharesOn(bk, S, side) <= SharesOn(bk, T, side)
<1>1. ASSUME NEW i \in 1..MaxOrders
      PROVE  /\ CostTerms(bk, S)[i] <= CostTerms(bk, T)[i]
             /\ ShareTerms(bk, S, side)[i] <= ShareTerms(bk, T, side)[i]
  <2>1. bk[i].cost \in Nat /\ bk[i].qty \in Nat
    BY ExposureFields DEF OrderIds
  <2>2. /\ CostTerms(bk, S)[i] = IF i \in S THEN bk[i].cost ELSE 0
        /\ CostTerms(bk, T)[i] = IF i \in T THEN bk[i].cost ELSE 0
        /\ ShareTerms(bk, S, side)[i]
             = IF i \in S /\ bk[i].side = side THEN bk[i].qty ELSE 0
        /\ ShareTerms(bk, T, side)[i]
             = IF i \in T /\ bk[i].side = side THEN bk[i].qty ELSE 0
    BY DEF CostTerms, ShareTerms, OrderIds
  <2> QED BY <2>1, <2>2
<1>2. /\ CostTerms(bk, S) \in [1..MaxOrders -> Int]
      /\ CostTerms(bk, T) \in [1..MaxOrders -> Int]
      /\ ShareTerms(bk, S, side) \in [1..MaxOrders -> Int]
      /\ ShareTerms(bk, T, side) \in [1..MaxOrders -> Int]
  BY TermsInt
<1>3. Total(CostTerms(bk, S), MaxOrders) <= Total(CostTerms(bk, T), MaxOrders)
  BY <1>1, <1>2, TotalMonotone, Constants
<1>4. Total(ShareTerms(bk, S, side), MaxOrders)
        <= Total(ShareTerms(bk, T, side), MaxOrders)
  BY <1>1, <1>2, TotalMonotone, Constants
<1> QED
  BY <1>3, <1>4 DEF CostOf, SharesOn

\* No orders cost and bring nothing.
LEMMA SumsEmpty ==
  ASSUME NEW bk \in [OrderIds -> Exposure], NEW side
  PROVE  CostOf(bk, {}) = 0 /\ SharesOn(bk, {}, side) = 0
<1>1. \A i \in 1..MaxOrders : /\ CostTerms(bk, {})[i] = 0
                              /\ ShareTerms(bk, {}, side)[i] = 0
  BY TermAt
<1>2. /\ CostTerms(bk, {}) \in [1..MaxOrders -> Int]
      /\ ShareTerms(bk, {}, side) \in [1..MaxOrders -> Int]
  BY TermsInt
<1> QED
  BY <1>1, <1>2, TotalZero, Constants DEF CostOf, SharesOn

\* Sums of any orders are natural numbers.
LEMMA SumsNat ==
  ASSUME NEW bk \in [OrderIds -> Exposure], NEW S, NEW side
  PROVE  CostOf(bk, S) \in Nat /\ SharesOn(bk, S, side) \in Nat
<1>1. CostOf(bk, S) \in Int /\ SharesOn(bk, S, side) \in Int
  <2>1. /\ CostTerms(bk, S) \in [1..MaxOrders -> Int]
        /\ ShareTerms(bk, S, side) \in [1..MaxOrders -> Int]
    BY TermsInt
  <2> QED BY <2>1, TotalInt, Constants DEF CostOf, SharesOn
<1>2. CostOf(bk, {}) <= CostOf(bk, S)
      /\ SharesOn(bk, {}, side) <= SharesOn(bk, S, side)
  BY SumsMonotone
<1> QED
  BY <1>1, <1>2, SumsEmpty

\* The sums of S depend on the exposures of S only.
LEMMA SumsAgree ==
  ASSUME NEW bk \in [OrderIds -> Exposure], NEW ey \in [OrderIds -> Exposure],
         NEW S, \A i \in S \cap OrderIds : bk[i] = ey[i], NEW side
  PROVE  /\ CostOf(bk, S) = CostOf(ey, S)
         /\ SharesOn(bk, S, side) = SharesOn(ey, S, side)
<1>1. CostTerms(bk, S) = CostTerms(ey, S)
  BY DEF CostTerms
<1>2. ShareTerms(bk, S, side) = ShareTerms(ey, S, side)
  BY DEF ShareTerms
<1> QED
  BY <1>1, <1>2 DEF CostOf, SharesOn

\* One more order adds its own cost, and its shares on its side.
LEMMA SumsInsert ==
  ASSUME NEW bk \in [OrderIds -> Exposure], NEW S,
         NEW k \in OrderIds, k \notin S, NEW side
  PROVE  /\ CostOf(bk, S \cup {k}) = CostOf(bk, S) + bk[k].cost
         /\ SharesOn(bk, S \cup {k}, side)
              = SharesOn(bk, S, side)
                  + (IF bk[k].side = side THEN bk[k].qty ELSE 0)
<1> DEFINE T == S \cup {k}
<1>0. MaxOrders \in Nat
  BY Constants
<1>1. /\ CostTerms(bk, S) \in [1..MaxOrders -> Int]
      /\ CostTerms(bk, T) \in [1..MaxOrders -> Int]
      /\ ShareTerms(bk, S, side) \in [1..MaxOrders -> Int]
      /\ ShareTerms(bk, T, side) \in [1..MaxOrders -> Int]
  BY TermsInt
<1>2. k \in 1..MaxOrders
  BY DEF OrderIds
<1>3. \A i \in 1..MaxOrders :
        i # k => /\ CostTerms(bk, S)[i] = CostTerms(bk, T)[i]
                 /\ ShareTerms(bk, S, side)[i] = ShareTerms(bk, T, side)[i]
  BY TermAt
<1>4. /\ CostTerms(bk, S)[k] = 0 /\ CostTerms(bk, T)[k] = bk[k].cost
      /\ ShareTerms(bk, S, side)[k] = 0
      /\ ShareTerms(bk, T, side)[k]
           = IF bk[k].side = side THEN bk[k].qty ELSE 0
  BY <1>2, TermAt
<1>5. bk[k].cost \in Nat /\ bk[k].qty \in Nat
  BY ExposureFields
<1> HIDE DEF T
<1>6. Total(CostTerms(bk, T), MaxOrders)
        = Total(CostTerms(bk, S), MaxOrders)
            + (CostTerms(bk, T)[k] - CostTerms(bk, S)[k])
  <2> DEFINE f == CostTerms(bk, S)
             g == CostTerms(bk, T)
  <2>1. \A i \in 1..MaxOrders : i # k => f[i] = g[i]
    BY <1>3
  <2>2. f \in [1..MaxOrders -> Int] /\ g \in [1..MaxOrders -> Int]
    BY <1>1
  <2> HIDE DEF f, g
  <2>3. Total(g, MaxOrders) = Total(f, MaxOrders) + (g[k] - f[k])
    BY ONLY <1>0, <1>2, <2>1, <2>2, TotalUpdate, Zenon
  <2> QED BY <2>3 DEF f, g
<1>7. Total(ShareTerms(bk, T, side), MaxOrders)
        = Total(ShareTerms(bk, S, side), MaxOrders)
            + (ShareTerms(bk, T, side)[k] - ShareTerms(bk, S, side)[k])
  <2> DEFINE f == ShareTerms(bk, S, side)
             g == ShareTerms(bk, T, side)
  <2>1. \A i \in 1..MaxOrders : i # k => f[i] = g[i]
    BY <1>3
  <2>2. f \in [1..MaxOrders -> Int] /\ g \in [1..MaxOrders -> Int]
    BY <1>1
  <2> HIDE DEF f, g
  <2>3. Total(g, MaxOrders) = Total(f, MaxOrders) + (g[k] - f[k])
    BY ONLY <1>0, <1>2, <2>1, <2>2, TotalUpdate, Zenon
  <2> QED BY <2>3 DEF f, g
<1>8. CostOf(bk, S) \in Nat /\ SharesOn(bk, S, side) \in Nat
  BY SumsNat
<1>9. /\ CostOf(bk, T) = CostOf(bk, S) + bk[k].cost
      /\ SharesOn(bk, T, side)
           = SharesOn(bk, S, side)
               + (IF bk[k].side = side THEN bk[k].qty ELSE 0)
  BY <1>4, <1>5, <1>6, <1>7, <1>8 DEF CostOf, SharesOn
<1> QED
  BY <1>9 DEF T

\* The shares of an order are among those of its side.
LEMMA OwnShares ==
  ASSUME NEW bk \in [OrderIds -> Exposure], NEW S, NEW k \in OrderIds
  PROVE  bk[k].qty <= SharesOn(bk, S \cup {k}, bk[k].side)
<1> DEFINE R == S \ {k}
<1>1. R \cup {k} = S \cup {k} /\ k \notin R
  OBVIOUS
<1>2. SharesOn(bk, R \cup {k}, bk[k].side) = SharesOn(bk, R, bk[k].side) + bk[k].qty
  BY <1>1, SumsInsert
<1>3. SharesOn(bk, R, bk[k].side) \in Nat /\ bk[k].qty \in Nat
  BY SumsNat, ExposureFields
<1> HIDE DEF R
<1>4. bk[k].qty <= SharesOn(bk, R \cup {k}, bk[k].side)
  BY <1>2, <1>3
<1> QED
  BY <1>1, <1>4

-----------------------------------------------------------------------------

\* A settlement pays no less for more winning shares.
LEMMA PayoutMonotone ==
  ASSUME NEW a \in Int, NEW b \in Int, a <= b
  PROVE  Payout * a <= Payout * b
  BY Constants

\* The fields of a portfolio.
LEMMA PortfolioFields ==
  ASSUME NEW pt \in Portfolio
  PROVE  pt.U \in Nat /\ pt.D \in Nat /\ pt.C \in Nat
  BY DEF Portfolio

\* Margins are integers.
LEMMA MarginsInt ==
  ASSUME NEW pt \in Portfolio, NEW bk \in [OrderIds -> Exposure], NEW S
  PROVE  /\ ScenarioG(pt, bk, S) \in Int
         /\ ConservativeG(pt, bk, S) \in Int
         /\ G(pt) \in Int
<1>1. /\ SharesOn(bk, S, "UP") \in Nat /\ SharesOn(bk, S, "DOWN") \in Nat
      /\ CostOf(bk, S) \in Nat
  BY SumsNat
<1> QED
  BY <1>1, PortfolioFields, Constants
  DEF ScenarioG, ConservativeG, G, Lesser

\* The fallback bound is below every scenario.
LEMMA ConservativeBelow ==
  ASSUME NEW pt \in Portfolio, NEW bk \in [OrderIds -> Exposure],
         NEW A, NEW S \in SUBSET A
  PROVE  ConservativeG(pt, bk, A) <= ScenarioG(pt, bk, S)
<1> DEFINE m == Lesser(pt.U, pt.D)
           n == Lesser(pt.U + SharesOn(bk, S, "UP"),
                       pt.D + SharesOn(bk, S, "DOWN"))
<1>1. /\ SharesOn(bk, S, "UP") \in Nat /\ SharesOn(bk, S, "DOWN") \in Nat
      /\ CostOf(bk, S) \in Nat /\ CostOf(bk, A) \in Nat
  BY SumsNat
<1>2. CostOf(bk, S) <= CostOf(bk, A)
  BY SumsMonotone
<1>3. m \in Int /\ n \in Int /\ m <= n
  BY <1>1, PortfolioFields DEF Lesser
<1>4. Payout * m <= Payout * n /\ Payout * m \in Int /\ Payout * n \in Int
  <2> HIDE DEF m, n
  <2> QED BY <1>3, PayoutMonotone, Constants
<1>5. /\ ConservativeG(pt, bk, A) = (Payout * m - pt.C) - CostOf(bk, A)
      /\ ScenarioG(pt, bk, S) = Payout * n - (pt.C + CostOf(bk, S))
  BY DEF ConservativeG, ScenarioG, G
<1> QED
  <2> HIDE DEF m, n
  <2> QED BY <1>1, <1>2, <1>4, <1>5, PortfolioFields

\* worst_case_g really is a lower bound, exact or not.
LEMMA WorstCaseBelow ==
  ASSUME NEW pt \in Portfolio, NEW bk \in [OrderIds -> Exposure], NEW A
  PROVE  /\ WorstCaseG(pt, bk, A) \in Int
         /\ \A S \in SUBSET A : WorstCaseG(pt, bk, A) <= ScenarioG(pt, bk, S)
         /\ Cardinality(A) <= ExactSubsetCap =>
              \E S \in SUBSET A : WorstCaseG(pt, bk, A) = ScenarioG(pt, bk, S)
<1> DEFINE V == {ScenarioG(pt, bk, S) : S \in SUBSET A}
<1>1. V \subseteq Int /\ V # {}
  BY MarginsInt
<1>2. ConservativeG(pt, bk, A) \in Int
      /\ \A v \in V : ConservativeG(pt, bk, A) <= v
  BY MarginsInt, ConservativeBelow
<1>3. Least(V) \in V /\ \A v \in V : Least(V) <= v
  <2> HIDE DEF V
  <2> QED BY <1>1, <1>2, LeastInt
<1>4. CASE Cardinality(A) <= ExactSubsetCap
  <2>1. WorstCaseG(pt, bk, A) = Least(V)
    BY <1>4 DEF WorstCaseG
  <2> QED BY <1>1, <1>3, <2>1
<1>5. CASE ~(Cardinality(A) <= ExactSubsetCap)
  BY <1>2, <1>5 DEF WorstCaseG
<1> QED
  BY <1>4, <1>5

(***************************************************************************)
(* An admitted order leaves every margin f that was respected respected,   *)
(* for f up to the floor.  In recovery mode this needs the conservative    *)
(* bound to admit nothing: it falls with every order that costs something. *)
(***************************************************************************)
LEMMA AdmitsKeeps ==
  ASSUME NEW pt \in Portfolio, NEW bk \in [OrderIds -> Exposure],
         NEW A \in SUBSET OrderIds, NEW k \in OrderIds \ A, bk[k].cost > 0,
         NEW isRecovery, NEW f \in Int, f <= GMin,
         \A S \in SUBSET A : ScenarioG(pt, bk, S) >= f,
         Admits(pt, bk, A, k, isRecovery)
  PROVE  \A S \in SUBSET (A \cup {k}) : ScenarioG(pt, bk, S) >= f
<1> DEFINE before == WorstCaseG(pt, bk, A)
           after == WorstCaseG(pt, bk, A \cup {k})
<1>1. before \in Int /\ after \in Int
  BY WorstCaseBelow
<1>2. \/ before >= GMin /\ after >= GMin
      \/ before < GMin /\ isRecovery /\ after >= before
  BY DEF Admits
<1>3. after >= f
  <2>1. CASE after >= GMin
    BY <2>1, <1>1, Constants
  <2>2. CASE after >= before /\ Cardinality(A) <= ExactSubsetCap
    <3>1. PICK S \in SUBSET A : before = ScenarioG(pt, bk, S)
      BY <2>2, WorstCaseBelow
    <3> QED BY <2>2, <3>1, <1>1
  <2>3. CASE after >= before /\ ~(Cardinality(A) <= ExactSubsetCap)
    <3>1. IsFiniteSet(A)
      <4>1. IsFiniteSet(OrderIds)
        BY FS_Interval, Constants DEF OrderIds
      <4> QED BY <4>1, FS_Subset
    <3>2. Cardinality(A \cup {k}) = Cardinality(A) + 1 /\ Cardinality(A) \in Nat
      BY <3>1, FS_AddElement, FS_CardinalityType
    <3>3. ~(Cardinality(A \cup {k}) <= ExactSubsetCap)
      BY <2>3, <3>2, Constants
    <3>4. before = G(pt) - CostOf(bk, A)
          /\ after = G(pt) - CostOf(bk, A \cup {k})
      BY <2>3, <3>3 DEF WorstCaseG, ConservativeG
    <3>5. CostOf(bk, A \cup {k}) = CostOf(bk, A) + bk[k].cost
      BY SumsInsert
    <3>6. CostOf(bk, A) \in Nat /\ bk[k].cost \in Nat /\ G(pt) \in Int
      BY SumsNat, ExposureFields, MarginsInt
    <3>7. after < before
      BY <3>4, <3>5, <3>6
    <3> QED BY <2>3, <3>7, <1>1
  <2> QED BY <1>2, <2>1, <2>2, <2>3
<1>4. ASSUME NEW S \in SUBSET (A \cup {k}) PROVE ScenarioG(pt, bk, S) >= f
  <2>1. after <= ScenarioG(pt, bk, S) /\ ScenarioG(pt, bk, S) \in Int
    BY WorstCaseBelow, MarginsInt
  <2> QED BY <2>1, <1>1, <1>3
<1> QED
  BY <1>4

(***************************************************************************)
(* A fill of x shares for paid, of an order k that could bring q shares    *)
(* for cost, leaves each scenario at least as good as the worse of the one *)
(* where k does not fill and the one where it fills in full.               *)
(***************************************************************************)
LEMMA FillBetween ==
  ASSUME NEW a \in Nat, NEW b \in Nat, NEW q \in Nat, NEW cost \in Nat,
         NEW x \in 0..q, NEW paid \in Nat, paid <= cost, paid <= x * Payout
  PROVE  \/ Payout * Lesser(a + x, b) - paid >= Payout * Lesser(a, b)
         \/ Payout * Lesser(a + x, b) - paid >= Payout * Lesser(a + q, b) - cost
<1>1. CASE a + x <= b
  <2>1. Lesser(a + x, b) = a + x /\ Lesser(a, b) = a
    BY <1>1 DEF Lesser
  <2>2. Payout * (a + x) = Payout * a + x * Payout
    BY Constants
  <2>3. Payout * a \in Int /\ x * Payout \in Int
    BY Constants
  <2> QED BY <2>1, <2>2, <2>3
<1>2. CASE a + x > b
  <2>1. Lesser(a + x, b) = b /\ Lesser(a + q, b) = b
    BY <1>2 DEF Lesser
  <2>2. Payout * b \in Int
    BY Constants
  <2> QED BY <2>1, <2>2
<1> QED
  BY <1>1, <1>2

-----------------------------------------------------------------------------
(***************************************************************************)
(* One admission and one fill, whatever the state they happen in.          *)
(***************************************************************************)

\* A scenario depends on the exposures of its own orders only.
LEMMA ScenarioAgree ==
  ASSUME NEW p, NEW e1 \in [OrderIds -> Exposure],
         NEW e2 \in [OrderIds -> Exposure],
         NEW S, \A i \in S \cap OrderIds : e1[i] = e2[i]
  PROVE  ScenarioG(p, e1, S) = ScenarioG(p, e2, S)
<1>1. CostOf(e1, S) = CostOf(e2, S) /\ SharesOn(e1, S, "UP") = SharesOn(e2, S, "UP")
  BY SumsAgree
<1>2. SharesOn(e1, S, "DOWN") = SharesOn(e2, S, "DOWN")
  BY SumsAgree
<1> QED
  BY <1>1, <1>2 DEF ScenarioG

\* The portfolio a fill leaves, and what the fill takes from the reserve.
LEMMA FillSums ==
  ASSUME NEW p \in Portfolio, NEW e \in [OrderIds -> Exposure],
         NEW S, NEW k \in OrderIds, k \notin S,
         NEW x \in 0..e[k].qty, NEW paid \in Affordable(e[k], x)
  PROVE  LET q == ApplyFill(p, e[k].side, x, paid)
             T == S \cup {k}
         IN  /\ q \in Portfolio
             /\ q.C + CostOf(e, S) <= p.C + CostOf(e, T)
             /\ q.U + SharesOn(e, S, "UP") <= p.U + SharesOn(e, T, "UP")
             /\ q.D + SharesOn(e, S, "DOWN") <= p.D + SharesOn(e, T, "DOWN")
<1> DEFINE q == ApplyFill(p, e[k].side, x, paid)
           T == S \cup {k}
<1>1. e[k].side \in Sides /\ e[k].qty \in Nat /\ e[k].cost \in Nat
  BY ExposureFields
<1>2. x \in Nat /\ x <= e[k].qty
  BY <1>1
<1>3. paid \in Nat /\ paid <= e[k].cost
  BY <1>1, <1>2, Constants DEF Affordable, Lesser
<1>4. p.U \in Nat /\ p.D \in Nat /\ p.C \in Nat
  BY PortfolioFields
<1>5. /\ q.U = IF e[k].side = "UP" THEN p.U + x ELSE p.U
      /\ q.D = IF e[k].side = "DOWN" THEN p.D + x ELSE p.D
      /\ q.C = p.C + paid
  BY DEF ApplyFill
<1>6. q \in Portfolio
  BY <1>2, <1>3, <1>4 DEF ApplyFill, Portfolio
<1>7. CostOf(e, T) = CostOf(e, S) + e[k].cost /\ CostOf(e, S) \in Nat
  BY SumsInsert, SumsNat
<1>8. /\ SharesOn(e, T, "UP")
           = SharesOn(e, S, "UP") + (IF e[k].side = "UP" THEN e[k].qty ELSE 0)
      /\ SharesOn(e, S, "UP") \in Nat
  BY SumsInsert, SumsNat
<1>9. /\ SharesOn(e, T, "DOWN")
           = SharesOn(e, S, "DOWN")
               + (IF e[k].side = "DOWN" THEN e[k].qty ELSE 0)
      /\ SharesOn(e, S, "DOWN") \in Nat
  BY SumsInsert, SumsNat
<1>10. q.C + CostOf(e, S) <= p.C + CostOf(e, T)
  BY <1>1, <1>3, <1>4, <1>5, <1>7
<1>11. q.U + SharesOn(e, S, "UP") <= p.U + SharesOn(e, T, "UP")
  BY <1>1, <1>2, <1>4, <1>5, <1>8
<1>12. q.D + SharesOn(e, S, "DOWN") <= p.D + SharesOn(e, T, "DOWN")
  BY <1>1, <1>2, <1>4, <1>5, <1>9
<1> QED
  BY <1>6, <1>10, <1>11, <1>12

\* A fill leaves each scenario at least as good as one of the two it resolves.
LEMMA FillScenario ==
  ASSUME NEW p \in Portfolio, NEW e \in [OrderIds -> Exposure],
         NEW S, NEW k \in OrderIds, k \notin S,
         NEW x \in 0..e[k].qty, NEW paid \in Affordable(e[k], x)
  PROVE  LET after == ScenarioG(ApplyFill(p, e[k].side, x, paid), e, S)
         IN  \/ after >= ScenarioG(p, e, S)
             \/ after >= ScenarioG(p, e, S \cup {k})
<1> DEFINE q == ApplyFill(p, e[k].side, x, paid)
           T == S \cup {k}
           u == p.U + SharesOn(e, S, "UP")
           d == p.D + SharesOn(e, S, "DOWN")
           n == e[k].qty
           c == p.C + CostOf(e, S)
           cost == e[k].cost
<1>1. e[k].side \in Sides /\ n \in Nat /\ cost \in Nat
  BY ExposureFields
<1>2. x \in 0..n /\ x \in Nat
  BY <1>1
<1>3. paid \in Nat /\ paid <= cost /\ paid <= x * Payout
  BY <1>1, <1>2, Constants DEF Affordable, Lesser
<1>4. p.U \in Nat /\ p.D \in Nat /\ p.C \in Nat
  BY PortfolioFields
<1>5. /\ SharesOn(e, S, "UP") \in Nat /\ SharesOn(e, S, "DOWN") \in Nat
      /\ CostOf(e, S) \in Nat
  BY SumsNat
<1>6. u \in Nat /\ d \in Nat /\ c \in Nat
  BY <1>4, <1>5
<1>7. p.C + CostOf(e, T) = c + cost
  BY <1>1, <1>4, <1>5, SumsInsert
<1>8. (p.C + paid) + CostOf(e, S) = c + paid
  BY <1>3, <1>4, <1>5
<1>9. /\ SharesOn(e, T, "UP")
           = SharesOn(e, S, "UP") + (IF e[k].side = "UP" THEN n ELSE 0)
      /\ SharesOn(e, S, "UP") \in Nat
  BY SumsInsert, SumsNat
<1>10. /\ SharesOn(e, T, "DOWN")
            = SharesOn(e, S, "DOWN") + (IF e[k].side = "DOWN" THEN n ELSE 0)
       /\ SharesOn(e, S, "DOWN") \in Nat
  BY SumsInsert, SumsNat
<1>11. n \in Nat /\ cost \in Nat /\ u + n \in Nat /\ d + n \in Nat
  <2>1. n \in Nat /\ cost \in Nat
    BY <1>1
  <2> HIDE DEF u, d, n, cost
  <2> QED BY <1>6, <2>1
<1>12. CASE e[k].side = "UP"
  <2>1. /\ p.U + SharesOn(e, T, "UP") = u + n
        /\ p.D + SharesOn(e, T, "DOWN") = d
    <3>1. SharesOn(e, T, "UP") = SharesOn(e, S, "UP") + n
      BY <1>12, <1>9
    <3>2. SharesOn(e, T, "DOWN") = SharesOn(e, S, "DOWN") + 0
      BY <1>12, <1>10
    <3> QED BY <1>1, <1>4, <1>5, <3>1, <3>2
  <2>2. (p.U + x) + SharesOn(e, S, "UP") = u + x
    BY <1>2, <1>4, <1>5
  <2>3. ScenarioG(q, e, S) = Payout * Lesser(u + x, d) - (c + paid)
    BY <1>8, <1>12, <2>2 DEF ScenarioG, ApplyFill
  <2>4. /\ ScenarioG(p, e, S) = Payout * Lesser(u, d) - c
        /\ ScenarioG(p, e, T) = Payout * Lesser(u + n, d) - (c + cost)
    BY <1>7, <2>1 DEF ScenarioG
  <2>5. /\ Payout * Lesser(u + x, d) \in Int /\ Payout * Lesser(u, d) \in Int
        /\ Payout * Lesser(u + n, d) \in Int
    BY <1>1, <1>2, <1>6, Constants DEF Lesser
  <2>6. \/ Payout * Lesser(u + x, d) - paid >= Payout * Lesser(u, d)
        \/ Payout * Lesser(u + x, d) - paid >= Payout * Lesser(u + n, d) - cost
    <3> HIDE DEF u, d, n, cost
    <3> QED BY <1>2, <1>3, <1>6, <1>11, FillBetween
  <2> HIDE DEF u, d, n, c, cost, T, q
  <2>7. \/ ScenarioG(q, e, S) >= ScenarioG(p, e, S)
        \/ ScenarioG(q, e, S) >= ScenarioG(p, e, T)
    BY <1>1, <1>3, <1>6, <2>3, <2>4, <2>5, <2>6
  <2> QED BY <2>7 DEF q, T
<1>13. CASE e[k].side = "DOWN"
  <2>1. /\ p.U + SharesOn(e, T, "UP") = u
        /\ p.D + SharesOn(e, T, "DOWN") = d + n
    <3>1. SharesOn(e, T, "UP") = SharesOn(e, S, "UP") + 0
      BY <1>13, <1>9
    <3>2. SharesOn(e, T, "DOWN") = SharesOn(e, S, "DOWN") + n
      BY <1>13, <1>10
    <3> QED BY <1>1, <1>4, <1>5, <3>1, <3>2
  <2>2. (p.D + x) + SharesOn(e, S, "DOWN") = d + x
    BY <1>2, <1>4, <1>5
  <2>3. ScenarioG(q, e, S) = Payout * Lesser(u, d + x) - (c + paid)
    BY <1>8, <1>13, <2>2 DEF ScenarioG, ApplyFill
  <2>4. /\ ScenarioG(p, e, S) = Payout * Lesser(u, d) - c
        /\ ScenarioG(p, e, T) = Payout * Lesser(u, d + n) - (c + cost)
    BY <1>7, <2>1 DEF ScenarioG
  <2>5. /\ Lesser(u, d + x) = Lesser(d + x, u) /\ Lesser(u, d) = Lesser(d, u)
        /\ Lesser(u, d + n) = Lesser(d + n, u)
    BY <1>1, <1>2, <1>6 DEF Lesser
  <2>6. /\ Payout * Lesser(u, d + x) \in Int /\ Payout * Lesser(u, d) \in Int
        /\ Payout * Lesser(u, d + n) \in Int
    BY <1>1, <1>2, <1>6, Constants DEF Lesser
  <2>7. \/ Payout * Lesser(d + x, u) - paid >= Payout * Lesser(d, u)
        \/ Payout * Lesser(d + x, u) - paid >= Payout * Lesser(d + n, u) - cost
    <3> HIDE DEF u, d, n, cost
    <3> QED BY <1>2, <1>3, <1>6, <1>11, FillBetween
  <2> HIDE DEF u, d, n, c, cost, T, q
  <2>8. \/ ScenarioG(q, e, S) >= ScenarioG(p, e, S)
        \/ ScenarioG(q, e, S) >= ScenarioG(p, e, T)
    BY <1>1, <1>3, <1>6, <2>3, <2>4, <2>5, <2>6, <2>7
  <2> QED BY <2>8 DEF q, T
<1> QED
  BY <1>1, <1>12, <1>13 DEF Sides

\* An admission next to A keeps every margin f <= GMin that the orders around
\* it respected, when A's exposures are the ones they were.
LEMMA AdmissionKeeps ==
  ASSUME NEW p \in Portfolio, NEW e1 \in [OrderIds -> Exposure],
         NEW e2 \in [OrderIds -> Exposure],
         NEW A \in SUBSET OrderIds, NEW k \in OrderIds \ A,
         \A i \in A : e1[i] = e2[i], e2[k].cost > 0,
         NEW isRecovery, Admits(p, e2, A, k, isRecovery),
         NEW f \in Int, f <= GMin, \A S \in SUBSET A : ScenarioG(p, e1, S) >= f
  PROVE  \A S \in SUBSET (A \cup {k}) : ScenarioG(p, e2, S) >= f
<1>1. ASSUME NEW S \in SUBSET A PROVE ScenarioG(p, e2, S) >= f
  <2>1. \A i \in S \cap OrderIds : e1[i] = e2[i]
    OBVIOUS
  <2>2. ScenarioG(p, e1, S) = ScenarioG(p, e2, S)
    BY <2>1, ScenarioAgree
  <2> QED BY <2>2
<1> QED
  BY <1>1, AdmitsKeeps

\* A fill of k keeps every margin that A with k respected.
LEMMA FillKeeps ==
  ASSUME NEW p \in Portfolio, NEW e1 \in [OrderIds -> Exposure],
         NEW e2 \in [OrderIds -> Exposure],
         NEW A \in SUBSET OrderIds, NEW k \in OrderIds \ A,
         \A i \in A : e1[i] = e2[i],
         NEW x \in 0..e1[k].qty, NEW paid \in Affordable(e1[k], x),
         NEW f \in Int, \A S \in SUBSET (A \cup {k}) : ScenarioG(p, e1, S) >= f
  PROVE  \A S \in SUBSET A :
           ScenarioG(ApplyFill(p, e1[k].side, x, paid), e2, S) >= f
<1> DEFINE q == ApplyFill(p, e1[k].side, x, paid)
<1>1. SUFFICES ASSUME NEW S \in SUBSET A PROVE ScenarioG(q, e2, S) >= f
  OBVIOUS
<1>2. k \notin S
  OBVIOUS
<1>3. \A i \in S \cap OrderIds : e1[i] = e2[i]
  OBVIOUS
<1>4. ScenarioG(q, e1, S) = ScenarioG(q, e2, S)
  BY <1>3, ScenarioAgree
<1>5. \/ ScenarioG(q, e1, S) >= ScenarioG(p, e1, S)
      \/ ScenarioG(q, e1, S) >= ScenarioG(p, e1, S \cup {k})
  BY <1>2, FillScenario
<1>6. ScenarioG(p, e1, S) >= f /\ ScenarioG(p, e1, S \cup {k}) >= f
  OBVIOUS
<1>7. q \in Portfolio
  BY <1>2, FillSums
<1>8. /\ ScenarioG(q, e1, S) \in Int /\ ScenarioG(p, e1, S) \in Int
      /\ ScenarioG(p, e1, S \cup {k}) \in Int
  BY <1>7, MarginsInt
<1> QED
  BY <1>4, <1>5, <1>6, <1>8

-----------------------------------------------------------------------------
(***************************************************************************)
(* The actions, reduced to an admission or a fill.                         *)
(***************************************************************************)

\* Inactive slots carry no shares.
LEMMA ActiveIds ==
  ASSUME TypeOK
  PROVE  Active \in SUBSET OrderIds /\ \A i \in OrderIds \ Active : ex[i].qty = 0
  BY ExposureFields DEF Active, TypeOK

\* What a strategy may ask for brings and costs something.
LEMMA OfferFields ==
  ASSUME NEW e \in Offers
  PROVE  e \in Exposure /\ e.qty > 0 /\ e.cost > 0
  BY OfferAssumption

\* The slot of an inactive order is a legal exposure without shares.
LEMMA IdleFields == Idle \in Exposure /\ Idle.qty = 0
  BY DEF Idle, Exposure, Sides

\* Reserve adds one admitted order and leaves the other slots alone.
LEMMA ReserveStep ==
  ASSUME TypeOK, NEW k \in OrderIds, Reserve(k)
  PROVE  /\ TypeOK' /\ pf' = pf /\ base' = base
         /\ k \notin Active /\ Active' = Active \cup {k}
         /\ \A i \in Active : ex'[i] = ex[i]
         /\ ex'[k].cost > 0
         /\ \E isRecovery \in BOOLEAN : Admits(pf, ex', Active, k, isRecovery)
<1>1. PICK e \in Offers : ex' = [ex EXCEPT ![k] = e]
  BY DEF Reserve
<1>2. e \in Exposure /\ e.qty > 0 /\ e.cost > 0
  BY OfferFields
<1>3. ex' \in [OrderIds -> Exposure] /\ ex'[k] = e
      /\ \A i \in OrderIds : i # k => ex'[i] = ex[i]
  BY <1>1, <1>2 DEF TypeOK
<1>4. Active' = Active \cup {k}
  BY <1>2, <1>3 DEF Active
<1> QED
  BY <1>2, <1>3, <1>4 DEF Reserve, TypeOK, Active

\* Replace drops one order and adds one admitted next to the rest.
LEMMA ReplaceStep ==
  ASSUME TypeOK, NEW k \in OrderIds, NEW n \in OrderIds, Replace(k, n)
  PROVE  /\ TypeOK' /\ pf' = pf /\ base' = base
         /\ n \notin Active \ {k} /\ Active' = (Active \ {k}) \cup {n}
         /\ \A i \in Active \ {k} : ex'[i] = ex[i]
         /\ ex'[n].cost > 0
         /\ \E isRecovery \in BOOLEAN :
              Admits(pf, ex', Active \ {k}, n, isRecovery)
<1>1. PICK e \in Offers : ex' = [ex EXCEPT ![k] = Idle, ![n] = e]
  BY DEF Replace
<1>2. e \in Exposure /\ e.qty > 0 /\ e.cost > 0
  BY OfferFields
<1>3. k # n
  BY DEF Replace
<1>4. ex' \in [OrderIds -> Exposure] /\ ex'[n] = e /\ ex'[k] = Idle
      /\ \A i \in OrderIds : i # k /\ i # n => ex'[i] = ex[i]
  BY <1>1, <1>2, <1>3, IdleFields DEF TypeOK
<1>5. Active' = (Active \ {k}) \cup {n}
  BY <1>2, <1>3, <1>4, IdleFields DEF Active
<1>6. \A i \in Active \ {k} : ex'[i] = ex[i]
  BY <1>4 DEF Replace, Active
<1>7. TypeOK'
  BY <1>4 DEF Replace, TypeOK
<1> QED
  BY <1>2, <1>4, <1>5, <1>6, <1>7 DEF Replace

\* Clearing a slot takes exactly that order out of the active ones.
LEMMA ClearedStep ==
  ASSUME TypeOK, NEW k \in OrderIds, k \in Active, ex' = [ex EXCEPT ![k] = Idle]
  PROVE  /\ ex' \in [OrderIds -> Exposure]
         /\ Active' = Active \ {k}
         /\ \A i \in Active \ {k} : ex'[i] = ex[i]
<1>1. ex' \in [OrderIds -> Exposure] /\ ex'[k] = Idle
      /\ \A i \in OrderIds : i # k => ex'[i] = ex[i]
  BY IdleFields DEF TypeOK
<1>2. Active' = Active \ {k}
  BY <1>1, IdleFields DEF Active
<1> QED
  BY <1>1, <1>2 DEF Active

\* Settle credits a bounded part of one active order and clears its slot.
LEMMA SettleStep ==
  ASSUME TypeOK, NEW k \in OrderIds, Settle(k)
  PROVE  \E x \in 0..ex[k].qty : \E paid \in Affordable(ex[k], x) :
           /\ TypeOK' /\ base' = base
           /\ k \in Active /\ Active' = Active \ {k}
           /\ \A i \in Active \ {k} : ex'[i] = ex[i]
           /\ pf' = ApplyFill(pf, ex[k].side, x, paid)
<1>0. PICK x \in 0..ex[k].qty : \E paid \in Affordable(ex[k], x) :
        pf' = ApplyFill(pf, ex[k].side, x, paid)
  BY DEF Settle
<1>1. PICK paid \in Affordable(ex[k], x) :
        pf' = ApplyFill(pf, ex[k].side, x, paid)
  BY <1>0
<1>2. k \in Active /\ ex' = [ex EXCEPT ![k] = Idle] /\ base' = base
  BY DEF Settle
<1>3. /\ ex' \in [OrderIds -> Exposure] /\ Active' = Active \ {k}
      /\ \A i \in Active \ {k} : ex'[i] = ex[i]
  BY <1>2, ClearedStep
<1>4. pf' \in Portfolio
  <2>1. pf \in Portfolio /\ ex \in [OrderIds -> Exposure]
    BY DEF TypeOK
  <2>2. k \notin {}
    OBVIOUS
  <2>3. ApplyFill(pf, ex[k].side, x, paid) \in Portfolio
    BY <2>1, <2>2, FillSums
  <2> QED BY <1>1, <2>3
<1>5. TypeOK'
  BY <1>2, <1>3, <1>4 DEF TypeOK
<1> QED
  BY <1>1, <1>2, <1>3, <1>5

\* Execute credits a bounded part of an order that was admitted.
LEMMA ExecuteStep ==
  ASSUME TypeOK, NEW k \in OrderIds, Execute(k)
  PROVE  \E e2 \in [OrderIds -> Exposure] :
         \E x \in 0..e2[k].qty : \E paid \in Affordable(e2[k], x) :
           /\ TypeOK' /\ base' = base /\ ex' = ex
           /\ k \notin Active /\ Active' = Active
           /\ \A i \in Active : e2[i] = ex[i]
           /\ e2[k].cost > 0
           /\ pf' = ApplyFill(pf, e2[k].side, x, paid)
           /\ \E isRecovery \in BOOLEAN : Admits(pf, e2, Active, k, isRecovery)
<1>1. PICK e \in Offers :
        /\ \E x \in 1..e.qty : \E paid \in Affordable(e, x) :
             pf' = ApplyFill(pf, e.side, x, paid)
        /\ \E isRecovery \in BOOLEAN :
             Admits(pf, [ex EXCEPT ![k] = e], Active, k, isRecovery)
  BY DEF Execute
<1>0. PICK x \in 1..e.qty : \E paid \in Affordable(e, x) :
        pf' = ApplyFill(pf, e.side, x, paid)
  BY <1>1
<1>2. PICK paid \in Affordable(e, x) :
        pf' = ApplyFill(pf, e.side, x, paid)
  BY <1>0
<1>3. e \in Exposure /\ e.qty > 0 /\ e.cost > 0 /\ e.qty \in Nat
  BY OfferFields DEF Exposure
<1> DEFINE e2 == [ex EXCEPT ![k] = e]
<1>4. e2 \in [OrderIds -> Exposure] /\ e2[k] = e
      /\ \A i \in OrderIds : i # k => e2[i] = ex[i]
  BY <1>3 DEF TypeOK
<1>5. k \notin Active /\ ex' = ex /\ base' = base /\ Active' = Active
  BY DEF Execute, Active
<1>6. \A i \in Active : e2[i] = ex[i]
  BY <1>4, <1>5 DEF Active
<1>7. x \in 0..e2[k].qty /\ paid \in Affordable(e2[k], x) /\ e2[k].cost > 0
  BY <1>2, <1>3, <1>4
<1>8. pf' = ApplyFill(pf, e2[k].side, x, paid)
  BY <1>2, <1>4
<1>9. \E isRecovery \in BOOLEAN : Admits(pf, e2, Active, k, isRecovery)
  BY <1>1
<1> HIDE DEF e2
<1>10. pf' \in Portfolio
  <2>1. pf \in Portfolio
    BY DEF TypeOK
  <2>2. k \notin {}
    OBVIOUS
  <2>3. ApplyFill(pf, e2[k].side, x, paid) \in Portfolio
    BY <1>4, <1>7, <2>1, <2>2, FillSums
  <2> QED BY <1>8, <2>3
<1>11. TypeOK'
  BY <1>5, <1>10 DEF TypeOK
<1> QED
  BY <1>4, <1>5, <1>6, <1>7, <1>8, <1>9, <1>11

-----------------------------------------------------------------------------
(***************************************************************************)
(* The inductive steps.                                                    *)
(***************************************************************************)

\* Every step is one of the five operations, or a stutter.
LEMMA NextCases ==
  ASSUME TypeOK, [Next]_vars
  PROVE  \/ \E k \in OrderIds : Reserve(k)
         \/ \E k \in OrderIds : Settle(k)
         \/ \E k \in OrderIds : Release(k)
         \/ \E k, n \in OrderIds : Replace(k, n)
         \/ \E k \in OrderIds : Execute(k)
         \/ UNCHANGED vars
  BY DEF Next

\* Every active order may cost and bring what the envelope charges it with,
\* and the session's margin, once respected for all fill subsets, stays so.
LEMMA EnvelopeStep ==
  ASSUME TypeOK, [Next]_vars, NEW f \in Int, f <= GMin, EnvelopeAtLeast(f)
  PROVE  EnvelopeAtLeast(f)'
<1> USE DEF EnvelopeAtLeast
<1>1. pf \in Portfolio /\ ex \in [OrderIds -> Exposure]
  BY DEF TypeOK
<1>2. Active \in SUBSET OrderIds
  BY ActiveIds
<1>3. ASSUME NEW k \in OrderIds, Reserve(k) PROVE EnvelopeAtLeast(f)'
  <2>1. /\ TypeOK' /\ pf' = pf /\ k \notin Active /\ Active' = Active \cup {k}
        /\ \A i \in Active : ex'[i] = ex[i]
        /\ ex'[k].cost > 0
        /\ \E isRecovery \in BOOLEAN : Admits(pf, ex', Active, k, isRecovery)
    BY <1>3, ReserveStep
  <2>2. PICK isRecovery \in BOOLEAN : Admits(pf, ex', Active, k, isRecovery)
    BY <2>1
  <2>3. ex' \in [OrderIds -> Exposure]
    BY <2>1 DEF TypeOK
  <2>4. \A S \in SUBSET (Active \cup {k}) : ScenarioG(pf, ex', S) >= f
    BY <1>1, <1>2, <2>1, <2>2, <2>3, AdmissionKeeps
  <2> QED BY <2>1, <2>4
<1>4. ASSUME NEW k \in OrderIds, NEW n \in OrderIds, Replace(k, n)
      PROVE  EnvelopeAtLeast(f)'
  <2> DEFINE A == Active \ {k}
  <2>1. /\ TypeOK' /\ pf' = pf /\ n \notin A /\ Active' = A \cup {n}
        /\ \A i \in A : ex'[i] = ex[i]
        /\ ex'[n].cost > 0
        /\ \E isRecovery \in BOOLEAN : Admits(pf, ex', A, n, isRecovery)
    BY <1>4, ReplaceStep
  <2>2. PICK isRecovery \in BOOLEAN : Admits(pf, ex', A, n, isRecovery)
    BY <2>1
  <2>3. ex' \in [OrderIds -> Exposure]
    BY <2>1 DEF TypeOK
  <2>4. A \in SUBSET OrderIds /\ \A S \in SUBSET A : ScenarioG(pf, ex, S) >= f
    BY <1>2
  <2> HIDE DEF A
  <2>5. \A S \in SUBSET (A \cup {n}) : ScenarioG(pf, ex', S) >= f
    BY <1>1, <2>1, <2>2, <2>3, <2>4, AdmissionKeeps
  <2> QED BY <2>1, <2>5
<1>5. ASSUME NEW k \in OrderIds, Release(k) PROVE EnvelopeAtLeast(f)'
  <2>1. k \in Active /\ ex' = [ex EXCEPT ![k] = Idle] /\ pf' = pf
    BY <1>5 DEF Release
  <2>2. /\ ex' \in [OrderIds -> Exposure] /\ Active' = Active \ {k}
        /\ \A i \in Active \ {k} : ex'[i] = ex[i]
    BY <2>1, ClearedStep
  <2>3. ASSUME NEW S \in SUBSET (Active \ {k})
        PROVE  ScenarioG(pf, ex', S) >= f
    <3>1. \A i \in S \cap OrderIds : ex[i] = ex'[i]
      BY <2>2
    <3>2. ScenarioG(pf, ex, S) = ScenarioG(pf, ex', S)
      BY <1>1, <2>2, <3>1, ScenarioAgree
    <3> QED BY <3>2
  <2> QED BY <2>1, <2>2, <2>3
<1>6. ASSUME NEW k \in OrderIds, Settle(k) PROVE EnvelopeAtLeast(f)'
  <2> DEFINE A == Active \ {k}
  <2>1. PICK x \in 0..ex[k].qty :
        \E paid \in Affordable(ex[k], x) :
           /\ TypeOK' /\ k \in Active /\ Active' = A
           /\ \A i \in A : ex'[i] = ex[i]
           /\ pf' = ApplyFill(pf, ex[k].side, x, paid)
    BY <1>6, SettleStep
  <2>2. PICK paid \in Affordable(ex[k], x) :
           /\ TypeOK' /\ k \in Active /\ Active' = A
           /\ \A i \in A : ex'[i] = ex[i]
           /\ pf' = ApplyFill(pf, ex[k].side, x, paid)
    BY <2>1
  <2>3. /\ A \in SUBSET OrderIds /\ k \in OrderIds \ A
        /\ \A S \in SUBSET (A \cup {k}) : ScenarioG(pf, ex, S) >= f
    BY <1>2, <2>2
  <2>4. ex' \in [OrderIds -> Exposure] /\ \A i \in A : ex[i] = ex'[i]
    BY <2>2 DEF TypeOK
  <2> HIDE DEF A
  <2>5. \A S \in SUBSET A :
          ScenarioG(ApplyFill(pf, ex[k].side, x, paid), ex', S) >= f
    BY <1>1, <2>3, <2>4, FillKeeps
  <2> QED BY <2>2, <2>5
<1>7. ASSUME NEW k \in OrderIds, Execute(k) PROVE EnvelopeAtLeast(f)'
  <2>1. PICK e2 \in [OrderIds -> Exposure] :
        \E x \in 0..e2[k].qty : \E paid \in Affordable(e2[k], x) :
           /\ TypeOK' /\ ex' = ex /\ k \notin Active /\ Active' = Active
           /\ \A i \in Active : e2[i] = ex[i]
           /\ e2[k].cost > 0
           /\ pf' = ApplyFill(pf, e2[k].side, x, paid)
           /\ \E isRecovery \in BOOLEAN : Admits(pf, e2, Active, k, isRecovery)
    BY <1>7, ExecuteStep
  <2>2. PICK x \in 0..e2[k].qty : \E paid \in Affordable(e2[k], x) :
           /\ ex' = ex /\ k \notin Active /\ Active' = Active
           /\ \A i \in Active : e2[i] = ex[i]
           /\ e2[k].cost > 0
           /\ pf' = ApplyFill(pf, e2[k].side, x, paid)
           /\ \E isRecovery \in BOOLEAN : Admits(pf, e2, Active, k, isRecovery)
    BY <2>1
  <2>3. PICK paid \in Affordable(e2[k], x) :
           /\ ex' = ex /\ k \notin Active /\ Active' = Active
           /\ \A i \in Active : e2[i] = ex[i]
           /\ e2[k].cost > 0
           /\ pf' = ApplyFill(pf, e2[k].side, x, paid)
           /\ \E isRecovery \in BOOLEAN : Admits(pf, e2, Active, k, isRecovery)
    BY <2>2
  <2>4. PICK isRecovery \in BOOLEAN : Admits(pf, e2, Active, k, isRecovery)
    BY <2>3
  <2>5. k \in OrderIds \ Active /\ \A i \in Active : ex[i] = e2[i]
    BY <2>3
  <2>6. \A S \in SUBSET (Active \cup {k}) : ScenarioG(pf, e2, S) >= f
    BY <1>1, <1>2, <2>3, <2>4, <2>5, AdmissionKeeps
  <2>7. \A S \in SUBSET Active :
          ScenarioG(ApplyFill(pf, e2[k].side, x, paid), ex, S) >= f
    BY <1>1, <1>2, <2>3, <2>5, <2>6, FillKeeps
  <2> QED BY <2>3, <2>7
<1>8. CASE UNCHANGED vars
  BY <1>8 DEF vars, Active
<1> QED
  BY <1>3, <1>4, <1>5, <1>6, <1>7, <1>8, NextCases

\* Each operation keeps the types.
LEMMA TypeStep ==
  ASSUME TypeOK, [Next]_vars
  PROVE  TypeOK' /\ base' = base
<1>1. ASSUME NEW k \in OrderIds, Release(k) PROVE TypeOK' /\ base' = base
  <2>1. /\ k \in Active /\ ex' = [ex EXCEPT ![k] = Idle]
        /\ pf' = pf /\ base' = base
    BY <1>1 DEF Release
  <2>2. ex' \in [OrderIds -> Exposure]
    BY <2>1, ClearedStep
  <2> QED BY <2>1, <2>2 DEF TypeOK
<1>2. ASSUME NEW k \in OrderIds, Settle(k) PROVE TypeOK' /\ base' = base
  BY <1>2, SettleStep
<1>3. ASSUME NEW k \in OrderIds, Execute(k) PROVE TypeOK' /\ base' = base
  BY <1>3, ExecuteStep
<1>4. ASSUME NEW k \in OrderIds, Reserve(k) PROVE TypeOK' /\ base' = base
  BY <1>4, ReserveStep
<1>5. ASSUME NEW k \in OrderIds, NEW n \in OrderIds, Replace(k, n)
      PROVE  TypeOK' /\ base' = base
  BY <1>5, ReplaceStep
<1>6. CASE UNCHANGED vars
  BY <1>6 DEF vars, TypeOK
<1> QED
  BY <1>1, <1>2, <1>3, <1>4, <1>5, <1>6, NextCases

\* apply_fill and the exposure tables keep their types: shares and money are
\* never negative, whatever RiskView.admits lets through.
THEOREM TypeCorrect == Spec => []TypeOK
<1>1. Init => TypeOK
  BY IdleFields, OfferAssumption DEF Init, TypeOK
<1>2. TypeOK /\ [Next]_vars => TypeOK'
  BY TypeStep
<1> QED
  BY <1>1, <1>2, PTL DEF Spec

\* RiskView.admits and apply_fill keep every fill subset's margin at the floor,
\* for any grid, fee schedule, number of orders, subset cap and limits.
THEOREM EnvelopeFloorHolds == Spec => []EnvelopeFloor
<1>1. Init => EnvelopeFloor
  <2> SUFFICES ASSUME Init PROVE EnvelopeFloor
    OBVIOUS
  <2>1. Active = {}
    BY IdleFields DEF Init, Active
  <2>2. TypeOK /\ base = pf
    BY IdleFields, OfferAssumption DEF Init, TypeOK
  <2>3. pf.U \in Nat /\ pf.D \in Nat /\ pf.C \in Nat
    BY <2>2, PortfolioFields DEF TypeOK
  <2>4. /\ SharesOn(ex, {}, "UP") = 0 /\ SharesOn(ex, {}, "DOWN") = 0
        /\ CostOf(ex, {}) = 0
    BY <2>2, SumsEmpty DEF TypeOK
  <2>5. ScenarioG(pf, ex, {}) = G(pf)
    BY <2>3, <2>4 DEF ScenarioG, G
  <2>6. G(pf) \in Int
    BY <2>2, MarginsInt DEF TypeOK
  <2>7. Floor <= G(pf)
    BY <2>2, <2>6, Constants DEF Floor, Lesser
  <2> QED BY <2>1, <2>5, <2>6, <2>7 DEF EnvelopeFloor, EnvelopeAtLeast
<1>2. TypeOK /\ EnvelopeFloor /\ [Next]_vars => EnvelopeFloor'
  <2> SUFFICES ASSUME TypeOK, EnvelopeFloor, [Next]_vars PROVE EnvelopeFloor'
    OBVIOUS
  <2>1. G(base) \in Int
    <3>1. base \in Portfolio /\ ex \in [OrderIds -> Exposure]
      BY DEF TypeOK
    <3> QED BY <3>1, MarginsInt
  <2>2. Floor \in Int /\ Floor <= GMin
    BY <2>1, Constants DEF Floor, Lesser
  <2>3. Floor' = Floor
    BY TypeStep DEF Floor
  <2>4. EnvelopeAtLeast(Floor)
    BY DEF EnvelopeFloor
  <2>5. ASSUME NEW f \in Int, f = Floor PROVE EnvelopeAtLeast(f)'
    BY <2>2, <2>4, <2>5, EnvelopeStep
  <2> QED BY <2>2, <2>3, <2>5 DEF EnvelopeFloor, EnvelopeAtLeast
<1> QED
  BY <1>1, <1>2, TypeCorrect, PTL DEF Spec

\* A margin up to g_min that every fill subset respects is never given up:
\* the recovery branch of RiskView.admits cannot worsen the envelope.
THEOREM EnvelopeNeverWorsensHolds == Spec => EnvelopeNeverWorsens
<1>1. TypeOK /\ [Next]_vars =>
        [\A f \in Floor..GMin : EnvelopeAtLeast(f) => EnvelopeAtLeast(f)']_vars
  <2> SUFFICES ASSUME TypeOK, [Next]_vars, NEW f \in Floor..GMin,
                      EnvelopeAtLeast(f)
               PROVE  EnvelopeAtLeast(f)'
    OBVIOUS
  <2>1. G(base) \in Int
    <3>1. base \in Portfolio /\ ex \in [OrderIds -> Exposure]
      BY DEF TypeOK
    <3> QED BY <3>1, MarginsInt
  <2>2. f \in Int /\ f <= GMin
    BY <2>1, Constants DEF Floor, Lesser
  <2> QED BY <2>2, EnvelopeStep
<1> QED
  BY <1>1, TypeCorrect, PTL DEF Spec, EnvelopeNeverWorsens

-----------------------------------------------------------------------------
(***************************************************************************)
(* Caps: what is spent and reserved, held and reserved.                    *)
(***************************************************************************)

\* Sums over orders whose exposures did not change.
LEMMA SumsOfKept ==
  ASSUME NEW e1 \in [OrderIds -> Exposure], NEW e2 \in [OrderIds -> Exposure],
         NEW A \in SUBSET OrderIds, \A i \in A : e1[i] = e2[i]
  PROVE  /\ CostOf(e1, A) = CostOf(e2, A)
         /\ SharesOn(e1, A, "UP") = SharesOn(e2, A, "UP")
         /\ SharesOn(e1, A, "DOWN") = SharesOn(e2, A, "DOWN")
<1>1. \A i \in A \cap OrderIds : e1[i] = e2[i]
  OBVIOUS
<1> QED
  BY <1>1, SumsAgree

\* What is committed in state <<p, e, A>> and the limits on it.
Committed(p, e, A) ==
  <<p.C + CostOf(e, A), p.U + SharesOn(e, A, "UP"),
    p.D + SharesOn(e, A, "DOWN")>>

Within(c, b) ==
  /\ c[1] <= Greater(SpendCap, b.C)
  /\ c[2] <= Greater(PositionLimit, b.U)
  /\ c[3] <= Greater(PositionLimit, b.D)

\* What is held and reserved is counted in integers.
LEMMA CommittedInt ==
  ASSUME NEW p \in Portfolio, NEW e \in [OrderIds -> Exposure], NEW A
  PROVE  /\ Committed(p, e, A)[1] \in Int /\ Committed(p, e, A)[2] \in Int
         /\ Committed(p, e, A)[3] \in Int
<1>1. CostOf(e, A) \in Nat /\ SharesOn(e, A, "UP") \in Nat
      /\ SharesOn(e, A, "DOWN") \in Nat
  BY SumsNat
<1> QED
  BY <1>1, PortfolioFields DEF Committed

\* So are the caps.
LEMMA CapsInt ==
  ASSUME NEW b \in Portfolio
  PROVE  /\ Greater(SpendCap, b.C) \in Int /\ SpendCap <= Greater(SpendCap, b.C)
         /\ Greater(PositionLimit, b.U) \in Int
         /\ PositionLimit <= Greater(PositionLimit, b.U)
         /\ Greater(PositionLimit, b.D) \in Int
         /\ PositionLimit <= Greater(PositionLimit, b.D)
  BY PortfolioFields, Constants DEF Greater

\* What the gate admits is within the limits.
LEMMA AdmittedWithin ==
  ASSUME NEW p \in Portfolio, NEW e \in [OrderIds -> Exposure],
         NEW A, NEW k, NEW isRecovery, Admits(p, e, A, k, isRecovery),
         NEW b \in Portfolio
  PROVE  Within(Committed(p, e, A \cup {k}), b)
<1> DEFINE T == A \cup {k}
<1>1. /\ p.C + CostOf(e, T) <= SpendCap
      /\ p.U + SharesOn(e, T, "UP") <= PositionLimit
      /\ p.D + SharesOn(e, T, "DOWN") <= PositionLimit
  BY DEF Admits
<1> HIDE DEF T
<1>2. /\ Committed(p, e, T)[1] <= SpendCap
      /\ Committed(p, e, T)[2] <= PositionLimit
      /\ Committed(p, e, T)[3] <= PositionLimit
  BY <1>1 DEF Committed
<1>3. Within(Committed(p, e, T), b)
  BY <1>2, CommittedInt, CapsInt, Constants DEF Within
<1> QED
  BY <1>3 DEF T

\* A smaller commitment is within them too.
LEMMA LessWithin ==
  ASSUME NEW p \in Portfolio, NEW e \in [OrderIds -> Exposure], NEW A,
         NEW q \in Portfolio, NEW e2 \in [OrderIds -> Exposure], NEW B,
         NEW b \in Portfolio, Within(Committed(p, e, A), b),
         q.C + CostOf(e2, B) <= p.C + CostOf(e, A),
         q.U + SharesOn(e2, B, "UP") <= p.U + SharesOn(e, A, "UP"),
         q.D + SharesOn(e2, B, "DOWN") <= p.D + SharesOn(e, A, "DOWN")
  PROVE  Within(Committed(q, e2, B), b)
<1>1. /\ Committed(q, e2, B)[1] <= Committed(p, e, A)[1]
      /\ Committed(q, e2, B)[2] <= Committed(p, e, A)[2]
      /\ Committed(q, e2, B)[3] <= Committed(p, e, A)[3]
  BY DEF Committed
<1> QED
  BY <1>1, CommittedInt, CapsInt DEF Within

\* Filling k out of A \cup {k}.
LEMMA FillWithin ==
  ASSUME NEW p \in Portfolio, NEW e1 \in [OrderIds -> Exposure],
         NEW e2 \in [OrderIds -> Exposure],
         NEW A \in SUBSET OrderIds, NEW k \in OrderIds \ A,
         \A i \in A : e1[i] = e2[i],
         NEW x \in 0..e1[k].qty, NEW paid \in Affordable(e1[k], x),
         NEW b \in Portfolio, Within(Committed(p, e1, A \cup {k}), b)
  PROVE  Within(Committed(ApplyFill(p, e1[k].side, x, paid), e2, A), b)
<1> DEFINE q == ApplyFill(p, e1[k].side, x, paid)
           T == A \cup {k}
<1>1. k \notin A
  OBVIOUS
<1>2. /\ q \in Portfolio
      /\ q.C + CostOf(e1, A) <= p.C + CostOf(e1, T)
      /\ q.U + SharesOn(e1, A, "UP") <= p.U + SharesOn(e1, T, "UP")
      /\ q.D + SharesOn(e1, A, "DOWN") <= p.D + SharesOn(e1, T, "DOWN")
  BY <1>1, FillSums
<1>3. /\ CostOf(e1, A) = CostOf(e2, A)
      /\ SharesOn(e1, A, "UP") = SharesOn(e2, A, "UP")
      /\ SharesOn(e1, A, "DOWN") = SharesOn(e2, A, "DOWN")
  BY SumsOfKept
<1> HIDE DEF q
<1>4. Within(Committed(q, e2, A), b)
  BY <1>2, <1>3, LessWithin
<1> QED
  BY <1>4 DEF q

CapsInv == Within(Committed(pf, ex, Active), base)

\* Each operation keeps what is committed within the caps.
LEMMA CapsStep ==
  ASSUME TypeOK, CapsInv, [Next]_vars
  PROVE  CapsInv'
<1>1. /\ pf \in Portfolio /\ base \in Portfolio /\ ex \in [OrderIds -> Exposure]
  BY DEF TypeOK
<1>2. Active \in SUBSET OrderIds
  BY ActiveIds
<1>3. TypeOK' /\ base' = base
  BY TypeStep
<1>4. pf' \in Portfolio /\ ex' \in [OrderIds -> Exposure]
  BY <1>3 DEF TypeOK
<1>5. ASSUME NEW k \in OrderIds, Reserve(k) PROVE CapsInv'
  <2>1. pf' = pf /\ Active' = Active \cup {k}
        /\ \E isRecovery \in BOOLEAN : Admits(pf, ex', Active, k, isRecovery)
    BY <1>5, ReserveStep
  <2>2. Within(Committed(pf, ex', Active \cup {k}), base)
    BY <1>1, <1>4, <2>1, AdmittedWithin
  <2> QED BY <1>3, <2>1, <2>2 DEF CapsInv
<1>6. ASSUME NEW k \in OrderIds, NEW n \in OrderIds, Replace(k, n) PROVE CapsInv'
  <2>1. pf' = pf /\ Active' = (Active \ {k}) \cup {n}
        /\ \E isRecovery \in BOOLEAN :
             Admits(pf, ex', Active \ {k}, n, isRecovery)
    BY <1>6, ReplaceStep
  <2>2. Within(Committed(pf, ex', (Active \ {k}) \cup {n}), base)
    BY <1>1, <1>4, <2>1, AdmittedWithin
  <2> QED BY <1>3, <2>1, <2>2 DEF CapsInv
<1>7. ASSUME NEW k \in OrderIds, Release(k) PROVE CapsInv'
  <2> DEFINE A == Active \ {k}
  <2>1. k \in Active /\ ex' = [ex EXCEPT ![k] = Idle] /\ pf' = pf
    BY <1>7 DEF Release
  <2>2. Active' = A /\ \A i \in A : ex'[i] = ex[i]
    BY <2>1, ClearedStep
  <2>3. A \in SUBSET OrderIds /\ A \in SUBSET Active
    BY <1>2
  <2>4. \A i \in A : ex[i] = ex'[i]
    BY <2>2
  <2> HIDE DEF A
  <2>5. /\ CostOf(ex, A) = CostOf(ex', A)
        /\ SharesOn(ex, A, "UP") = SharesOn(ex', A, "UP")
        /\ SharesOn(ex, A, "DOWN") = SharesOn(ex', A, "DOWN")
    BY <1>1, <1>4, <2>3, <2>4, SumsOfKept
  <2>6. /\ CostOf(ex, A) <= CostOf(ex, Active)
        /\ SharesOn(ex, A, "UP") <= SharesOn(ex, Active, "UP")
        /\ SharesOn(ex, A, "DOWN") <= SharesOn(ex, Active, "DOWN")
    BY <1>1, <2>3, SumsMonotone
  <2>7. /\ CostOf(ex, A) \in Nat /\ SharesOn(ex, A, "UP") \in Nat
        /\ SharesOn(ex, A, "DOWN") \in Nat
    BY <1>1, SumsNat
  <2>8. /\ CostOf(ex, Active) \in Nat /\ SharesOn(ex, Active, "UP") \in Nat
        /\ SharesOn(ex, Active, "DOWN") \in Nat
    BY <1>1, SumsNat
  <2>9. /\ pf.C + CostOf(ex', A) <= pf.C + CostOf(ex, Active)
        /\ pf.U + SharesOn(ex', A, "UP") <= pf.U + SharesOn(ex, Active, "UP")
        /\ pf.D + SharesOn(ex', A, "DOWN") <= pf.D + SharesOn(ex, Active, "DOWN")
    BY <1>1, <2>5, <2>6, <2>7, <2>8, PortfolioFields
  <2>10. Within(Committed(pf, ex', A), base)
    BY <1>1, <1>4, <2>9, LessWithin DEF CapsInv
  <2> QED BY <1>3, <2>1, <2>2, <2>10 DEF CapsInv
<1>8. ASSUME NEW k \in OrderIds, Settle(k) PROVE CapsInv'
  <2> DEFINE A == Active \ {k}
  <2>1. PICK x \in 0..ex[k].qty : \E paid \in Affordable(ex[k], x) :
           /\ k \in Active /\ Active' = A
           /\ \A i \in A : ex'[i] = ex[i]
           /\ pf' = ApplyFill(pf, ex[k].side, x, paid)
    BY <1>8, SettleStep
  <2>2. PICK paid \in Affordable(ex[k], x) :
           /\ k \in Active /\ Active' = A
           /\ \A i \in A : ex'[i] = ex[i]
           /\ pf' = ApplyFill(pf, ex[k].side, x, paid)
    BY <2>1
  <2>3. A \in SUBSET OrderIds /\ k \in OrderIds \ A /\ A \cup {k} = Active
    BY <1>2, <2>2
  <2>4. \A i \in A : ex[i] = ex'[i]
    BY <2>2
  <2> HIDE DEF A
  <2>5. Within(Committed(pf, ex, A \cup {k}), base)
    BY <2>3 DEF CapsInv
  <2>6. Within(Committed(ApplyFill(pf, ex[k].side, x, paid), ex', A), base)
    BY <1>1, <1>4, <2>3, <2>4, <2>5, FillWithin
  <2> QED BY <1>3, <2>2, <2>6 DEF CapsInv
<1>9. ASSUME NEW k \in OrderIds, Execute(k) PROVE CapsInv'
  <2>1. PICK e2 \in [OrderIds -> Exposure] :
        \E x \in 0..e2[k].qty : \E paid \in Affordable(e2[k], x) :
           /\ ex' = ex /\ k \notin Active /\ Active' = Active
           /\ \A i \in Active : e2[i] = ex[i]
           /\ pf' = ApplyFill(pf, e2[k].side, x, paid)
           /\ \E isRecovery \in BOOLEAN : Admits(pf, e2, Active, k, isRecovery)
    BY <1>9, ExecuteStep
  <2>2. PICK x \in 0..e2[k].qty : \E paid \in Affordable(e2[k], x) :
           /\ ex' = ex /\ k \notin Active /\ Active' = Active
           /\ \A i \in Active : e2[i] = ex[i]
           /\ pf' = ApplyFill(pf, e2[k].side, x, paid)
           /\ \E isRecovery \in BOOLEAN : Admits(pf, e2, Active, k, isRecovery)
    BY <2>1
  <2>3. PICK paid \in Affordable(e2[k], x) :
           /\ ex' = ex /\ k \notin Active /\ Active' = Active
           /\ \A i \in Active : e2[i] = ex[i]
           /\ pf' = ApplyFill(pf, e2[k].side, x, paid)
           /\ \E isRecovery \in BOOLEAN : Admits(pf, e2, Active, k, isRecovery)
    BY <2>2
  <2>4. Within(Committed(pf, e2, Active \cup {k}), base)
    BY <1>1, <2>3, AdmittedWithin
  <2>5. k \in OrderIds \ Active
    BY <2>3
  <2>6. Within(Committed(ApplyFill(pf, e2[k].side, x, paid), ex, Active), base)
    BY <1>1, <1>2, <2>3, <2>4, <2>5, FillWithin
  <2> QED BY <1>3, <2>3, <2>6 DEF CapsInv
<1>10. CASE UNCHANGED vars
  BY <1>10 DEF vars, CapsInv, Active
<1> QED
  BY <1>5, <1>6, <1>7, <1>8, <1>9, <1>10, NextCases

\* The inductive invariant behind the two caps of RiskView.admits.
LEMMA CapsCorrect == Spec => []CapsInv
<1>1. Init => CapsInv
  <2> SUFFICES ASSUME Init PROVE CapsInv
    OBVIOUS
  <2>1. Active = {}
    BY IdleFields DEF Init, Active
  <2>2. TypeOK /\ base = pf
    BY IdleFields, OfferAssumption DEF Init, TypeOK
  <2>3. pf.U \in Nat /\ pf.D \in Nat /\ pf.C \in Nat
    BY <2>2, PortfolioFields DEF TypeOK
  <2>4. /\ SharesOn(ex, {}, "UP") = 0 /\ SharesOn(ex, {}, "DOWN") = 0
        /\ CostOf(ex, {}) = 0
    BY <2>2, SumsEmpty DEF TypeOK
  <2>5. Committed(pf, ex, {}) = <<pf.C, pf.U, pf.D>>
    BY <2>3, <2>4 DEF Committed
  <2> QED
    BY <2>1, <2>2, <2>3, <2>5, Constants DEF CapsInv, Within, Greater
<1>2. TypeOK /\ CapsInv /\ [Next]_vars => CapsInv'
  BY CapsStep
<1> QED
  BY <1>1, <1>2, TypeCorrect, PTL DEF Spec

\* RiskView.admits counts committed_spend: spent and reserved money stays
\* within max_spend across fills, releases and replacements.
THEOREM SpendWithinCapHolds == Spec => []SpendWithinCap
<1>1. CapsInv => SpendWithinCap
  BY DEF CapsInv, Within, Committed, SpendWithinCap
<1> QED
  BY <1>1, CapsCorrect, PTL

\* RiskView.admits counts potential positions: held and reserved shares of a
\* side stay within max_position, whichever orders fill.
THEOREM PositionWithinLimitHolds == Spec => []PositionWithinLimit
<1>1. CapsInv => PositionWithinLimit
  BY DEF CapsInv, Within, Committed, PositionWithinLimit
<1> QED
  BY <1>1, CapsCorrect, PTL
=============================================================================
