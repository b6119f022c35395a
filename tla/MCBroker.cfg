\* Two admins: Create, Delete, Close and restarts overlap in every way.
SPECIFICATION ASpec
CONSTANTS
  Name = {n1, n2}
  Admin = {a1, a2}
  Client = {c1, c2}
  None = None
  MaxQueues = 2
  MaxMsgs = 1
  MaxRestarts = 1
SYMMETRY Symmetry
CHECK_DEADLOCK FALSE
INVARIANTS
  ListingExact
  RestartRestores
  DeletedStays
