CONSTANTS
  o1 = o1
  Prices = {1, 2}
  Orders = {o1}
  Offers <- MCOffers
  MaxEvents = 3
  MaxTime = 3
SPECIFICATION Spec
INVARIANT OnlyReceivedEvents
CHECK_DEADLOCK FALSE
