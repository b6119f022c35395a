SPECIFICATION DSpec
CONSTANTS
  Client = {c1}
  Ticker = ticker
  PageSlot = {s1, s2, s3, s4}
  MaxDepth = 0
  MaxAttempts = 2
  DurableLeases = FALSE
  MaxDelay = 0
  Delays = {0, 1}
  Visibility = {1}
  BatchSizes = {1}
  LeaseSizes = {1}
  MaxBody = 1
  MaxMsgID = 2
  MaxNonce = 2
  MaxTime = 1
  WithReplay = TRUE
  LateWrites = FALSE
  MaxLSN = 4
  MaxRestarts = 1
  MaxCheckpoints = 1
SYMMETRY Symmetry
CHECK_DEADLOCK FALSE
INVARIANTS
  
  DeadStaysDead
  ReplayLeavesDead
