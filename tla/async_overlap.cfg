\* AsyncSend
CONSTANTS
  Capacity = 3
  Rounds = 1
  MaxSent = 2
SPECIFICATION Spec
CHECK_DEADLOCK FALSE
INVARIANTS OneWriteAtATime
