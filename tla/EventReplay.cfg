CONSTANTS
  o1 = o1
  Prices = {1, 2}
  Orders = {o1}
  Offers <- MCOffers
  MaxEvents = 3
  MaxTime = 3
SPECIFICATION Spec
INVARIANTS TypeOK SubmitComesFirst OthersKeepOrder CacheIsTransparent PrefixIsExact
CHECK_DEADLOCK FALSE
