\* AsyncSend
CONSTANTS
  Capacity = 3
  Rounds = 2
  MaxSent = 4
SPECIFICATION FairSpec
CHECK_DEADLOCK FALSE
INVARIANTS TypeOK WorkIsPending NoLostEvent RunIosFlushes FifoUnlessOverlapped
PROPERTIES WaitEnds RunIosReturns
