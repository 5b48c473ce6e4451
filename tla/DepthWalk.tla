------------------------------ MODULE DepthWalk ------------------------------
(***************************************************************************)
(* execution/taker.py: a marketable fill-and-kill order walks the asks,    *)
(* best first, takes what it needs at levels no worse than its limit and   *)
(* never rests a remainder.                                                *)
(***************************************************************************)
EXTENDS RiskEnvelope, Sequences

Level == [price : Prices, size : Nat]

\* Ladders the feed can deliver: best (cheapest) ask first.
Ascending(asks) ==
  \A i, j \in DOMAIN asks : i < j => asks[i].price < asks[j].price

\* Mutant: the walk goes on through the limit.
ReachesAnyPrice(asks, i, limit) == i \in DOMAIN asks

\* The walk breaks at the first level above the limit.
Reaches(asks, i, limit) == \A j \in 1..i : asks[j].price <= limit

\* Shares still wanted and money spent after the first n levels.
WalkSteps(asks, wanted, limit) ==
  LET step[n \in 0..Len(asks)] ==
        IF n = 0 THEN [left |-> wanted, paid |-> 0]
        ELSE LET take == IF Reaches(asks, n, limit)
                         THEN Lesser(step[n - 1].left, asks[n].size) ELSE 0
             IN  [left |-> step[n - 1].left - take,
                  paid |-> step[n - 1].paid + take * UnitCost[asks[n].price]]
  IN  step

WalkDepth(asks, wanted, limit) ==
  LET end == WalkSteps(asks, wanted, limit)[Len(asks)]
  IN  [filled |-> wanted - end.left, paid |-> end.paid]
=============================================================================
