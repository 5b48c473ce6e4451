CONSTANTS
  Series <- MCSeries
  Settling = "twap"
  NRounds = 2
  FirstStart = 3
  Length = 1
  Lead = 0
  Trail = 1
  Tolerance = 1
  StallTimeout = 3
  AuditGap = 2
  Worlds <- MCWorlds
  Spot = "spot"
  Parts = 3
  Lookback = 2
  Trailing = 1
  Grid <- MCGrid
  Freshness = 4
  VolWindow = 9
  VolSamples = 1
  Horizon = 1
  TrainPercent = 60
  CalibratePercent = 20
  MaxTime = 6
SPECIFICATION Spec
INVARIANTS TypeOK CleanRoundsAreWhole CleanRoundsStayClean ExamplesAreSound UnplacedCondemnsAll
CHECK_DEADLOCK FALSE
