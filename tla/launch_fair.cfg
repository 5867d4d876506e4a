\* Launch
CONSTANTS
  t1 = t1
  N = 3
  Targets = {t1}
  Typists = {1}
  Disturbed = {1}
  MaxLines = 2
SPECIFICATION FairSpec
CHECK_DEADLOCK FALSE
INVARIANTS TypeOK CalculatesSelected RingComplete ClientBeforeSend
PROPERTIES StuckOnlyIfMissed
