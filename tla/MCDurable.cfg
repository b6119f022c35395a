SPECIFICATION DSpec
CONSTANTS
  Client = {c1, c2}
  Ticker = ticker
  PageSlot = {s1, s2, s3}
  MaxDepth = 0
  MaxAttempts = 2
  DurableLeases = TRUE
  MaxDelay = 1
  Delays = {0}
  Visibility = {1}
  BatchSizes = {1}
  LeaseSizes = {1}
  MaxBody = 2
  MaxMsgID = 2
  MaxNonce = 1
  MaxTime = 0
  WithReplay = FALSE
  LateWrites = FALSE
  MaxLSN = 4
  MaxRestarts = 2
  MaxCheckpoints = 1
SYMMETRY Symmetry
CHECK_DEADLOCK FALSE
INVARIANTS
  ConfirmedRecoverable
  AckedNotRecoverable
  
PROPERTY CursorImplemented
