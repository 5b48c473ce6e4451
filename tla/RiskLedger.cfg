CONSTANTS
  Prices = {1, 2}
  Payout = 3
  UnitCost <- MCUnitCost
  MaxOrders = 3
  ExactSubsetCap = 2
  GMin <- MinusFour
  SpendCap = 9
  PositionLimit = 4
  Offers <- MCOffers
  Openings <- MCOpenings
SPECIFICATION Spec
INVARIANTS TypeOK EnvelopeFloor SpendWithinCap PositionWithinLimit
PROPERTY EnvelopeNeverWorsens
CHECK_DEADLOCK FALSE
