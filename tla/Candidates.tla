----------------------------- MODULE Candidates -----------------------------
(***************************************************************************)
(* optimizer/candidates.py: the orders the controller may propose, sized   *)
(* and priced so that no execution of one breaks a hard limit, and the     *)
(* check every one of them passes through (_finalize).                     *)
(*                                                                         *)
(* Sizes are whole shares: a boundary the code computes as a real number   *)
(* is the last whole share inside it, a hedge the first whole share that   *)
(* repairs.  What a share is worth to the model of the market enters as    *)
(* one number, the fee-inclusive cost at which its edge is used up.        *)
(***************************************************************************)
EXTENDS DepthWalk, FiniteSetsExt

CONSTANTS
  MinShares,    \* MarketConstraints.min_order_shares
  GridPoints,   \* taker_qty_grid_points, one share apart
  DepthLevels,  \* max_taker_depth_levels
  MakerSize,    \* maker_quantity
  Offsets       \* maker_price_offsets_ticks

ASSUME CandidateAssumption ==
  /\ MinShares \in Nat \ {0}
  /\ GridPoints \in Nat /\ DepthLevels \in Nat /\ MakerSize \in Nat
  /\ Offsets \subseteq Nat
  /\ \A p \in Prices : p < Payout => UnitCost[p] < Payout

Purposes == {"ALPHA", "HEDGE", "BUFFER_BUILD"}

IsRecovery(purpose) == purpose \in {"HEDGE", "BUFFER_BUILD"}

\* admits_size: an order below the minimum is refused, never rounded up.
AdmitsSize(qty) == qty >= MinShares

-----------------------------------------------------------------------------

DepthOf(asks) == Total([i \in DOMAIN asks |-> asks[i].size], Len(asks))

CostOfWalk(asks, n) == WalkDepth(asks, n, Payout).paid

After(pf, side, asks, n) == ApplyFill(pf, side, n, CostOfWalk(asks, n))

\* The shares that can be bought one after the other, from the best ask on,
\* when fits holds the numbers of shares that may be held on the way.
Walkable(fits) == Max({0} \cup {n \in fits : 0..n \subseteq fits})

\* The dearest tick at which x shares cost at most budget, 0 for none.
DearestWithin(budget, x) ==
  Max({0} \cup {p \in Prices : x * UnitCost[p] <= budget})

\* Mutant: the shares bought are valued without looking at the other side.
BudgetOneSided(pf, side, x, floor) ==
  Lesser(G(pf) + Payout * x - floor, SpendCap - pf.C)

\* What x shares may cost before the margin drops below floor or the cap is
\* reached.
Budget(pf, side, x, floor) ==
  Lesser(G(ApplyFill(pf, side, x, 0)) - floor, SpendCap - pf.C)

\* taker_max_execution_price.
AlphaCeiling(pf, side, x, worth) ==
  Lesser(DearestWithin(Budget(pf, side, x, GMin), x), DearestWithin(worth, 1))

\* purpose_aware_max_execution_price for the recovery purposes.  Once the
\* floor is breached the margin held so far takes its place.
RecoveryCeiling(pf, side, x, purpose) ==
  LET room == Budget(pf, side, x, Lesser(GMin, G(pf)))
      gain == G(ApplyFill(pf, side, x, 0)) - G(pf)
  IN  DearestWithin(IF purpose = "BUFFER_BUILD" THEN Lesser(room, gain)
                    ELSE room, x)

\* Steps of one share from the venue's minimum, below most.
SmallSizes(most) ==
  {n \in MinShares..(MinShares + GridPoints - 1) : n < most}

DepthSizes(asks, most) ==
  {Lesser(DepthOf(SubSeq(asks, 1, i)), most) :
     i \in 1..Lesser(DepthLevels, Len(asks))}

-----------------------------------------------------------------------------
(***************************************************************************)
(* Orders proposed: size and limit price.                                  *)
(***************************************************************************)

\* The walk stops at the first level that is not worth its price.
WorthWalking(asks, worth) ==
  SubSeq(asks, 1,
         Max({0} \cup {i \in DOMAIN asks :
                         \A j \in 1..i : UnitCost[asks[j].price] < worth}))

\* taker_sizing_boundaries.  A size without a price of its own falls back
\* on the last level worth buying (OneStepController.decide).
AlphaTakers(pf, side, asks, worth) ==
  LET levels == WorthWalking(asks, worth)
      most  == Walkable({n \in 0..DepthOf(levels) :
                           WithinHardLimits(After(pf, side, levels, n))})
      sizes == {n \in SmallSizes(most) \cup {most} \cup DepthSizes(asks, most) :
                  AdmitsSize(n)}
      last  == levels[Len(levels)].price
      Limit(n) == LET own == AlphaCeiling(pf, side, n, worth)
                  IN  IF own = 0 THEN last ELSE Lesser(own, last)
  IN  IF levels = <<>> THEN {}
      ELSE {[qty |-> n, price |-> Limit(n)] : n \in sizes}

\* generate_hedge_candidate: the side that settles worse, as many shares as
\* repair the floor at the best ask.
WorseSide(pf) == IF pf.U > pf.D THEN "DOWN" ELSE "UP"

HedgeSize(pf, cost) ==
  LET gained == Payout - cost
  IN  (GMin - G(pf) + gained - 1) \div gained

Hedges(pf, side, asks) ==
  LET size  == HedgeSize(pf, UnitCost[asks[1].price])
      limit == RecoveryCeiling(pf, side, size, "HEDGE")
  IN  IF /\ G(pf) < GMin
         /\ pf.U # pf.D
         /\ side = WorseSide(pf)
         /\ asks # <<>>
         /\ asks[1].price < Payout
         /\ limit > 0
      THEN {[qty |-> size, price |-> limit]}
      ELSE {}

\* generate_buffer_build_candidates: the side held less of, up to parity,
\* while the walk still pays for itself.  The size proposed is what the walk
\* gets at its ceiling.
BufferBuilds(pf, side, asks) ==
  LET top   == SubSeq(asks, 1, Lesser(DepthLevels, Len(asks)))
      gap   == IF side = "UP" THEN pf.D - pf.U ELSE pf.U - pf.D
      Held(n) == After(pf, side, top, n)
      pays  == {n \in 0..DepthOf(top) : /\ G(Held(n)) >= G(pf)
                                        /\ Held(n).C <= SpendCap}
      safe  == {n \in 0..DepthOf(top) : G(Held(n)) >= GMin}
      most  == Lesser(gap, Walkable(pays))
      sizes == {n \in SmallSizes(most) \cup {most} \cup DepthSizes(asks, most)
                        \cup {Lesser(most, Walkable(safe))} :
                  AdmitsSize(n)}
      Ceiling(n) == RecoveryCeiling(pf, side, n, "BUFFER_BUILD")
      Walk(n)    == WalkDepth(asks, n, Ceiling(n))
  IN  {[qty |-> Walk(n).filled, price |-> Ceiling(n)] :
         n \in {m \in sizes :
                  /\ Ceiling(m) > 0
                  /\ Walk(m).filled > 0
                  /\ G(ApplyFill(pf, side, Walk(m).filled, Walk(m).paid)) > G(pf)}}

Takers(pf, side, asks, worth, purpose) ==
  CASE purpose = "ALPHA"        -> AlphaTakers(pf, side, asks, worth)
    [] purpose = "HEDGE"        -> Hedges(pf, side, asks)
    [] purpose = "BUFFER_BUILD" -> BufferBuilds(pf, side, asks)

\* maker_price_grid: from the best bid up, short of the best ask.
MakerPrices(bid, ask) == {p \in Prices : p < ask /\ p - bid \in Offsets}

\* _maker_feasible_quantity: the shares bearable at one fixed price.
MakerRoom(pf, side, price) ==
  Max({0} \cup {n \in 0..PositionLimit :
                  \A m \in 0..n : WithinHardLimits(ApplyFill(pf, side, m, m * price))})

\* dynamic_maker_candidates: the minimum, a size damped by volatility and the
\* largest bearable one.
DynamicSizes(pf, side, price) ==
  LET room == MakerRoom(pf, side, price)
  IN  {n \in {MinShares, room} \cup {Lesser(typical, room) : typical \in 0..MakerSize} :
         AdmitsSize(n) /\ AdmitsSize(room)}

MakerSizes(pf, side, price, isDynamic) ==
  IF isDynamic THEN DynamicSizes(pf, side, price) ELSE {MakerSize}

\* The dynamic lifetime is damped by volatility and never outlives the
\* round; none is offered when the round is over.
MakerLifetimes(horizon, tau, isDynamic) ==
  IF isDynamic THEN {Lesser(Greater(1, h), tau) : h \in 0..horizon} \ {0}
  ELSE {horizon}

-----------------------------------------------------------------------------

\* _finalize, without the floors on expected value: the hard limits on what
\* the evaluation says the order leaves, and below the floor only recovery
\* orders that improve on it.
Valid(pf, after, purpose, qty) ==
  /\ AdmitsSize(qty)
  /\ IF G(pf) < GMin THEN IsRecovery(purpose) /\ G(after) > G(pf)
     ELSE G(after) >= GMin
  /\ after.C <= SpendCap
  /\ after.U <= PositionLimit
  /\ after.D <= PositionLimit

\* evaluate_taker_candidate: the walk of the book as it stands.
TakerValid(pf, side, asks, c, purpose) ==
  LET walk == WalkDepth(asks, c.qty, c.price)
  IN  Valid(pf, ApplyFill(pf, side, walk.filled, walk.paid), purpose, c.qty)

\* evaluate_maker_candidate: the quote as if it filled in full.
MakerValid(pf, side, qty, price) ==
  Valid(pf, ApplyFill(pf, side, qty, qty * price), "ALPHA", qty)
=============================================================================
