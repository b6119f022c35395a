SPECIFICATION Spec
CONSTANTS
  WordBits = 64
  Thread = {t1}
  Sizes = {262144, 524289}
  Cuts = {1}
  HeaderFaults = FALSE
  None = none
  MaxPage = 2
  MaxAllocs = 2
  MaxTears = 0
  MaxRestarts = 2
SYMMETRY Symmetry
INVARIANT CommittedReadable
CHECK_DEADLOCK FALSE
