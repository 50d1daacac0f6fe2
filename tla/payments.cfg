SPECIFICATION FairSpec
CONSTANTS
  o1 = o1
  o2 = o2
  p1 = p1
  p2 = p2
  w1 = w1
  w2 = w2
  None = None
  Order <- MCOrders1
  Payment <- MCPayments2
  Worker <- MCWorkers2
  MaxFaults = 1
  MaxDuplicates = 1
  OrderedDelivery = FALSE
INVARIANTS EventsFollowRecords RepeatNeedsRaceOrRegress
PROPERTY CapturedIsFinalized
CHECK_DEADLOCK FALSE
