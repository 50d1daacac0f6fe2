SPECIFICATION FulfilmentSpec
CONSTANTS
  o1 = o1
  p1 = p1
  w1 = w1
  s1 = s1
  ponni = ponni
  None = None
  Order <- MCOrder
  Payment <- MCPayment
  Worker <- MCWorker
  MaxFaults = 1
  MaxDuplicates = 1
  OrderedDelivery = FALSE
  StoreOrder <- MCStoreOrder
  AdminStatus <- MCAdminStatus
  MaxShipments = 1
  Book <- MCBook
  Items <- MCItems
  OpeningStock <- MCStock
  OpeningState <- MCState
  MaxDeliveries = 2
  MaxAttempts = 2
INVARIANTS StockOnlyForSales SaleTakesStockOnce
PROPERTIES PaidNeedsCapture CapturedTakesStock
CHECK_DEADLOCK FALSE
