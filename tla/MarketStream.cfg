CONSTANTS
  t1 = t1
  t2 = t2
  t3 = t3
  Tokens = {t1, t2, t3}
  Initial = {t1}
  StallTimeout = 0
  MaxVersion = 1
  MaxTouched = 1
  MaxFaults = 1
  MaxTime = 1
SPECIFICATION Spec
SYMMETRY AddedAlike
INVARIANTS TypeOK QuotableIsCurrent LossIsInsideGap ServedAtRest
PROPERTY GapEndsResynced
CHECK_DEADLOCK FALSE
