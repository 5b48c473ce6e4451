-------------------------- MODULE MCTradingSession --------------------------
(***************************************************************************)
(* Instances of TradingSession: three orders on a grid of two prices, with *)
(* a fee on the dearer one, an empty ladder and one of two levels that      *)
(* fills an order in full or in part.                                      *)
(***************************************************************************)
EXTENDS TradingSession

MinusEight == -8

MCUnitCost == [p \in Prices |-> IF p = 2 THEN 2 ELSE 4]

MCLadders ==
  { <<>>,
    << [price |-> 2, size |-> 1], [price |-> 3, size |-> 2] >>,
    << [price |-> 3, size |-> 1] >> }

Flat == [U |-> 0, D |-> 0, C |-> 0]

\* Below the floor, one side heavy.
Breached == [U |-> 3, D |-> 0, C |-> 10]

\* Replays of synthetic rounds, from a safe and from a breached start, and
\* a live session on real data whose markets do not delay takers.
MCSetups ==
  { [opening |-> Flat, delay |-> 2, isReal |-> FALSE, isDynamic |-> TRUE, caller |-> "runner"],
    [opening |-> Breached, delay |-> 0, isReal |-> FALSE, isDynamic |-> FALSE, caller |-> "runner"],
    [opening |-> Flat, delay |-> 2, isReal |-> TRUE, isDynamic |-> FALSE, caller |-> "live"] }

LiveSetups == {s \in MCSetups : s.caller = "live"}

=============================================================================
