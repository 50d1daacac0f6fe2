SPECIFICATION Spec
CONSTANTS
  o1 = o1
  o2 = o2
  p1 = p1
  p2 = p2
  w1 = w1
  w2 = w2
  None = None
  Order <- MCOrders1
  Payment <- MCPayments2
  Worker <- MCWorker1
  MaxFaults = 0
  MaxDuplicates = 1
  OrderedDelivery = FALSE
INVARIANT OneOrderPaidEvent
CHECK_DEADLOCK FALSE
