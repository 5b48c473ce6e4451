---------------------------- MODULE MCMarketStream ----------------------------
(***************************************************************************)
(* One token from the start and two that are added while the stream runs,  *)
(* by one call or by two.                                                  *)
(***************************************************************************)
EXTENDS MarketStream, TLC

CONSTANTS t1, t2, t3

\* The two added tokens are alike.
AddedAlike == Permutations({t2, t3})
=============================================================================
