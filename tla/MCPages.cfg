\* A slab page has three slots of 256 KiB, in two bitmap words, or one of 512 KiB.
SPECIFICATION Spec
CONSTANTS
  WordBits = 2
  Thread = {t1, t2}
  Sizes = {262144, 524288, 524289}
  Cuts = {1}
  HeaderFaults = TRUE
  None = none
  MaxPage = 2
  MaxAllocs = 3
  MaxTears = 1
  MaxRestarts = 2
SYMMETRY Symmetry
CHECK_DEADLOCK FALSE
INVARIANTS
  CountsExact
  HeldReadable
  ShrinksToZero
  SlotsApart
