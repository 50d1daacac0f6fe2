SPECIFICATION FairSpec
CONSTANTS
  ponni = ponni
  thirukkural = thirukkural
  s1 = s1
  s2 = s2
  Book <- MCBook
  Sale <- MCSale
  Items <- MCItems
  OpeningStock <- MCStock
  OpeningState <- MCState
  MaxRequests = 1
  MaxDeliveries = 2
  MaxAttempts = 3
  MaxFaults = 1
INVARIANTS StockIsAccountedFor RepeatNeedsMissedAnswer
PROPERTY RequestIsServed
CHECK_DEADLOCK FALSE
