SPECIFICATION LiveSpec
CONSTANTS
  Client = {c1, c2}
  Ticker = ticker
  PageSlot = {s1, s2}
  MaxDepth = 1
  MaxAttempts = 2
  DurableLeases = TRUE
  MaxDelay = 1
  Delays = {0, 1}
  Visibility = {1}
  BatchSizes = {1}
  LeaseSizes = {1}
  MaxBody = 2
  MaxMsgID = 2
  MaxNonce = 2
  MaxTime = 1
CHECK_DEADLOCK FALSE
INVARIANT LeasedOnce
PROPERTIES
  LeaseHonoured
  DepthRespected
  CallsReturn
  DeadlinesServed
