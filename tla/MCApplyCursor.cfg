SPECIFICATION Spec
CONSTANT MaxLSN = 7
CHECK_DEADLOCK FALSE
INVARIANTS
  NeverPastHole
  CatchesUp
PROPERTY NeverGoesBack
