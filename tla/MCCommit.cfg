SPECIFICATION FairSpec
CONSTANTS
  Producer = {p1, p2}
  Ticker = ticker
  Records = {0, 2}
  BatchSize = 2
  MaxRequests = 3
CHECK_DEADLOCK FALSE
INVARIANTS
  WaitingHeld
  RangesExact
  CloseCutsApplied
PROPERTY CloseCompletes
