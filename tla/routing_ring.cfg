\* OrderRouting
CONSTANTS
  N = 3
  Parts <- RingParts
  Orders <- RingOrders
SPECIFICATION Spec
CHECK_DEADLOCK FALSE
INVARIANTS TypeOK OrdersRouted SameAverage SameList
