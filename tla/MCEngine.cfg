SPECIFICATION Spec
CONSTANTS
  Client = {c1, c2}
  Ticker = ticker
  PageSlot = {s1, s2, s3, s4}
  MaxDepth = 2
  MaxAttempts = 1
  DurableLeases = TRUE
  MaxDelay = 1
  Delays = {0, 1}
  Visibility = {1}
  BatchSizes = {1, 2}
  LeaseSizes = {2}
  MaxBody = 2
  MaxMsgID = 4
  MaxNonce = 2
  MaxTime = 1
SYMMETRY Symmetry
CHECK_DEADLOCK FALSE
INVARIANTS
  EngineInv
  NothingLost
  SlotsOwnedOnce
  ReservedExact
  DeliveredInTime
PROPERTY QueueImplemented
