CONSTANTS
  NRounds = 2
  Length = 3
  PreLead = 4
  PostTail = 1
  Grid = {0, 2}
  Begins = {1, 2}
  MaxTime = 13
  Listings <- MCListings
SPECIFICATION Spec
INVARIANTS TypeOK SettledAfterItsGrid FinalizedHasResult FinalizedAfterTail OutcomesArePublished
PROPERTIES OutcomesAreKept CaptureEnds
CHECK_DEADLOCK FALSE
