SPECIFICATION FairSpec
CONSTANTS
  SegLimit = 14
  BatchSizes = {1, 2}
  ChanCap = 2
  MaxRec = 4
  MaxCrashes = 1
  MaxTears = 1
CHECK_DEADLOCK FALSE
INVARIANTS
  OnlyAppendedReplayed
  AckedReplayed
  LSNsFresh
PROPERTY AppendsAnswered
