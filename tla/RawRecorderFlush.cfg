CONSTANTS
  f1 = f1
  main1 = main1
  k1 = k1
  k2 = k2
  Feeds = {f1}
  Main = main1
  Keys = {k1, k2}
  Wires <- MCWires
  MaxEvents = 4
  QueueMax = 2
  BatchSize = 2
  DedupeWindow = 1
  StoreFails = FALSE
SPECIFICATION Spec
INVARIANT FlushedIsStored
CHECK_DEADLOCK FALSE
