SPECIFICATION Spec
CONSTANTS
  Clients <- OneClient
  Size = 3
  MaxWrite = 4
  MaxBytes = 7
  Ops <- AllOps
  Spurious <- Anybody
INVARIANTS TypeOK NoSleepOnData
CHECK_DEADLOCK FALSE
