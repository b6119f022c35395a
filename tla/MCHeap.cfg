\* Both orders, with aging: five messages of two priorities, a cap reached by aging.
SPECIFICATION Spec
CONSTANTS
  Priority = {0, 1}
  MaxPri = 2
  AgingMs = 1
  Orders = {"FIFO", "LIFO"}
  MaxMsg = 5
  MaxTime = 2
PROPERTIES
  PopsBest
  AgedNotPassed
