\* FinalQuery
CONSTANTS
  N = 3
  SelectIdx = 1
  Parts <- RingParts
  Orders <- RingOrders
SPECIFICATION Spec
CHECK_DEADLOCK FALSE
INVARIANTS PhaseFlush EverybodyKnows AnswerIsRight
