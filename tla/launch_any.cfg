\* Launch
CONSTANTS
  t1 = t1
  t2 = t2
  N = 3
  Targets = {t1, t2}
  Typists = {2}
  Disturbed = {}
  MaxLines = 3
SPECIFICATION Spec
CHECK_DEADLOCK FALSE
SYMMETRY Symmetry
INVARIANTS CalculatesSelected AgreeOnQuery QuitIsHeard
