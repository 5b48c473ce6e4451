---------------------------- MODULE MCRiskLedger ----------------------------
(***************************************************************************)
(* A small instance of RiskLedger: three slots, orders of one and two      *)
(* shares on both sides, a floor that two unhedged orders would break.     *)
(***************************************************************************)
EXTENDS RiskLedger

MinusFour == -4

MCUnitCost == [p \in Prices |-> p]

MCOffers ==
  { [side |-> s, qty |-> 1, cost |-> 2] : s \in Sides }
    \cup { [side |-> s, qty |-> 2, cost |-> 2] : s \in Sides }
    \cup { [side |-> "DOWN", qty |-> 1, cost |-> 1] }

\* A fresh session, and two that start below the floor, one side heavy.
MCOpenings ==
  {[U |-> 0, D |-> 0, C |-> 0], [U |-> 3, D |-> 0, C |-> 5],
   [U |-> 0, D |-> 2, C |-> 6]}
=============================================================================
