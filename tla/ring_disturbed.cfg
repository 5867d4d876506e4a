\* RingBarrier
CONSTANTS
  N = 3
  Rounds = 2
  Disturbed = {2}
SPECIFICATION FairSpec
CHECK_DEADLOCK FALSE
INVARIANTS TypeOK BarrierSafety WakeIsCurrent AtMostTwoLaps
PROPERTIES HangsOnlyIfNotifyLost ImplementsBarrier
