\* Transfer
CONSTANTS
  N = 2
  IntBits = 8
  BufferSize = 29
  Containers <- BothContainers
  OrderFiles <- Lineitem
  PartFiles <- Part
  Typed <- Selects
  MaxSent = 2
SPECIFICATION Spec
CHECK_DEADLOCK FALSE
INVARIANTS TypeOK LinesPartitioned Delivered
