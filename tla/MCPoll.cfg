SPECIFICATION FairSpec
CONSTANTS
  w1 = w1
  w2 = w2
  Waiter = {w1, w2}
  BatchSizes = {1, 2}
  LeaseMax = 1
  MaxMessages = 2
  MaxReturns = 2
CHECK_DEADLOCK FALSE
INVARIANT WakeupPending
PROPERTY WaitersServed
