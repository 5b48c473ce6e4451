CONSTANTS
  Prices = {2, 3}
  Payout = 5
  UnitCost <- MCUnitCost
  MaxOrders = 3
  ExactSubsetCap = 2
  GMin <- MinusEight
  SpendCap = 14
  PositionLimit = 3
  MinShares = 1
  GridPoints = 2
  DepthLevels = 2
  MakerSize = 2
  Offsets = {0, 1}
  Ladders <- MCLadders
  MakerHorizon = 3
  MinActionInterval = 2
  MaxTime = 3
  Setups <- LiveSetups
SPECIFICATION Spec
CHECK_DEADLOCK FALSE
INVARIANT DrainedAtClose
