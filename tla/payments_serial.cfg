SPECIFICATION FairSpec
CONSTANTS
  o1 = o1
  o2 = o2
  p1 = p1
  p2 = p2
  w1 = w1
  w2 = w2
  None = None
  Order <- MCOrders2
  Payment <- MCPayments2
  Worker <- MCWorker1
  MaxFaults = 1
  MaxDuplicates = 2
  OrderedDelivery = TRUE
PROPERTY LedgerSpec
CHECK_DEADLOCK FALSE
