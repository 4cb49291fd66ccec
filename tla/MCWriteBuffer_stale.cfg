SPECIFICATION Spec
CONSTANTS
  Clients <- OneClient
  Size = 2
  MaxWrite = 3
  MaxBytes = 6
  Ops <- AsyncOps
  Spurious = {}
INVARIANTS EqualMeansFull
CHECK_DEADLOCK FALSE
