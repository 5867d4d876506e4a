\* FinalQuery
CONSTANTS
  N = 2
  SelectIdx = 2
  Parts <- PairParts
  Orders <- PairOrders
SPECIFICATION FairSpec
CHECK_DEADLOCK FALSE
INVARIANTS TypeOK SumsAgree AnswerIsRight
PROPERTIES ImplementsRing DataDies
