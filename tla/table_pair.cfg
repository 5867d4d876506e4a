\* PartTable
CONSTANTS
  N = 2
  Parts <- PairParts
  Orders <- PairOrders
  select_idx = 1
SPECIFICATION Spec
CHECK_DEADLOCK FALSE
INVARIANTS TypeOK TablesComplete ChainComplete AnswerIsRight
