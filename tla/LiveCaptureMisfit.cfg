CONSTANTS
  NRounds = 2
  Length = 3
  PreLead = 4
  PostTail = 1
  Grid = {0, 2}
  Begins = {2}
  MaxTime = 13
  Listings <- MCListings
SPECIFICATION Spec
INVARIANT NoPointIsSkipped
CHECK_DEADLOCK FALSE
