SPECIFICATION Spec
CONSTANTS
  v1 = v1
  u2 = u2
  u1 = u1
  b1 = b1
  c1 = c1
  c2 = c2
  o1 = o1
  o2 = o2
  w1 = w1
  w2 = w2
  None = None
  Visitor <- MCVisitor
  User <- MCUser
  Book <- MCBook
  Carts <- MCCarts
  Orders <- MCOrders
  Worker <- MCWorker
  MaxQuantity = 2
  MaxDeliveries = 2
SYMMETRY Symmetry
INVARIANTS OneActiveCart OrderFreezesCart OneOrderPerCart OrderIsListed
CHECK_DEADLOCK FALSE
