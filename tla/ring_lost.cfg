\* RingBarrier
CONSTANTS
  N = 2
  Rounds = 1
  Disturbed = {}
SPECIFICATION FairSpec
CHECK_DEADLOCK FALSE
PROPERTY EveryBarrierPassed
