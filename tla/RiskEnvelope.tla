---------------------------- MODULE RiskEnvelope ----------------------------
(***************************************************************************)
(* The settlement portfolio and the worst-case admission rule of           *)
(* portfolio/state.py and portfolio/exposure.py.                           *)
(*                                                                         *)
(* Shares are natural numbers, money is counted in price ticks, and one    *)
(* share of the winning side settles for Payout ticks.  A taker pays a fee *)
(* on top of the price; UnitCost[p] is the fee-inclusive cost of one share *)
(* bought at price p, which for a fee rate of at most one is monotone in   *)
(* p and never above Payout (shares * (p + rate * p * (1 - p)), p <= 1).   *)
(***************************************************************************)
EXTENDS Totals, FiniteSets

CONSTANTS
  Prices,          \* the tick grid, a set of prices below Payout
  Payout,          \* ticks one winning share settles for
  UnitCost,        \* [Prices -> Nat]: fee-inclusive taker cost of a share
  MaxOrders,       \* bound: order ids one session hands out
  ExactSubsetCap,  \* up to this many active orders all fill subsets are tried
  GMin,            \* hard floor on the worst-case settlement margin
  SpendCap,        \* hard cap on the money committed in a round
  PositionLimit    \* hard cap on the shares held on one side

ASSUME PriceAssumption ==
  /\ Payout \in Nat \ {0}
  /\ Prices \subseteq 1..Payout
  /\ UnitCost \in [Prices -> Nat]
  /\ \A p \in Prices : p <= UnitCost[p] /\ UnitCost[p] <= Payout
  /\ \A p, q \in Prices : p <= q => UnitCost[p] <= UnitCost[q]

ASSUME RiskAssumption ==
  /\ MaxOrders \in Nat
  /\ ExactSubsetCap \in Nat
  /\ GMin \in Int
  /\ SpendCap \in Nat
  /\ PositionLimit \in Nat

Sides == {"UP", "DOWN"}

OrderIds == 1..MaxOrders

Portfolio == [U : Nat, D : Nat, C : Nat]

\* One active order's contribution if it alone fills in full.
Exposure == [side : Sides, qty : Nat, cost : Nat]

\* The slot of an order that is not active.
Idle == [side |-> "UP", qty |-> 0, cost |-> 0]

-----------------------------------------------------------------------------

\* Worst settlement margin of a confirmed portfolio: min(U, D) - C.
G(pf) == Payout * Lesser(pf.U, pf.D) - pf.C

\* Mutant: the price of a fill is counted as a gain.
ApplyRefund(pf, side, shares, paid) ==
  [U |-> IF side = "UP" THEN pf.U + shares ELSE pf.U,
   D |-> IF side = "DOWN" THEN pf.D + shares ELSE pf.D,
   C |-> pf.C - paid]

ApplyFill(pf, side, shares, paid) ==
  [U |-> IF side = "UP" THEN pf.U + shares ELSE pf.U,
   D |-> IF side = "DOWN" THEN pf.D + shares ELSE pf.D,
   C |-> pf.C + paid]

\* What a fill of x shares may cost: never more than was reserved for the
\* order, never more than the shares can settle for.
Affordable(e, x) == 0..Lesser(e.cost, x * Payout)

-----------------------------------------------------------------------------
(***************************************************************************)
(* Exposure books: ex maps every order id to its exposure, A is the set of *)
(* ids that are active.                                                    *)
(***************************************************************************)

ShareTerms(ex, S, side) ==
  [i \in OrderIds |-> IF i \in S /\ ex[i].side = side THEN ex[i].qty ELSE 0]

CostTerms(ex, S) == [i \in OrderIds |-> IF i \in S THEN ex[i].cost ELSE 0]

SharesOn(ex, S, side) == Total(ShareTerms(ex, S, side), MaxOrders)

CostOf(ex, S) == Total(CostTerms(ex, S), MaxOrders)

\* The margin if exactly the orders of S fill, each in full at its limit.
ScenarioG(pf, ex, S) ==
  Payout * Lesser(pf.U + SharesOn(ex, S, "UP"), pf.D + SharesOn(ex, S, "DOWN"))
    - (pf.C + CostOf(ex, S))

\* Charges every order's cost and credits none of its shares.
ConservativeG(pf, ex, A) == G(pf) - CostOf(ex, A)

\* Mutant: every active order is taken to fill.
AllFillG(pf, ex, A) == ScenarioG(pf, ex, A)

WorstCaseG(pf, ex, A) ==
  IF Cardinality(A) <= ExactSubsetCap
  THEN Least({ScenarioG(pf, ex, S) : S \in SUBSET A})
  ELSE ConservativeG(pf, ex, A)

\* Mutant: the money reserved for other orders is not counted.
AdmitsOwnSpend(pf, ex, A, k, isRecovery) ==
  /\ WorstCaseG(pf, ex, A) >= GMin
  /\ WorstCaseG(pf, ex, A \cup {k}) >= GMin
  /\ pf.C + ex[k].cost <= SpendCap

\* Mutant: the position limit is exposed and never enforced.
AdmitsAnyPosition(pf, ex, A, k, isRecovery) ==
  /\ WorstCaseG(pf, ex, A \cup {k}) >= GMin
  /\ pf.C + CostOf(ex, A \cup {k}) <= SpendCap

\* Mutant: a recovery order is admitted on a breached view as it comes.
AdmitsAnyRecovery(pf, ex, A, k, isRecovery) ==
  /\ isRecovery \/ WorstCaseG(pf, ex, A \cup {k}) >= GMin
  /\ pf.C + CostOf(ex, A \cup {k}) <= SpendCap

\* RiskView.admits: may order k join the active orders A?
Admits(pf, ex, A, k, isRecovery) ==
  LET before == WorstCaseG(pf, ex, A)
      after  == WorstCaseG(pf, ex, A \cup {k})
  IN  /\ \/ before >= GMin /\ after >= GMin
         \/ before < GMin /\ isRecovery /\ after >= before
      /\ pf.C + CostOf(ex, A \cup {k}) <= SpendCap
      /\ pf.U + SharesOn(ex, A \cup {k}, "UP") <= PositionLimit
      /\ pf.D + SharesOn(ex, A \cup {k}, "DOWN") <= PositionLimit

\* evaluate_constraints on the portfolio a fill would leave.
WithinHardLimits(pf) ==
  /\ G(pf) >= GMin
  /\ pf.C <= SpendCap
  /\ pf.U <= PositionLimit
  /\ pf.D <= PositionLimit
=============================================================================
