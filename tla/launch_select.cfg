\* Launch
CONSTANTS
  t1 = t1
  N = 2
  Targets = {t1}
  Typists = {1}
  Disturbed = {}
  MaxLines = 2
SPECIFICATION FairSpec
CHECK_DEADLOCK FALSE
PROPERTIES SelectStartsCalculation
