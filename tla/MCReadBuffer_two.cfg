SPECIFICATION Spec
CONSTANTS
  Clients = {c1, c2}
  Size = 2
  MaxRead = 3
  MaxBytes = 5
  Ops <- AllOps
  Spurious <- TheClient
SYMMETRY Symmetry
INVARIANTS ShortReadTimedOut
CHECK_DEADLOCK FALSE
