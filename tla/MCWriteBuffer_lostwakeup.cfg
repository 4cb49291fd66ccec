SPECIFICATION FairSpec
CONSTANTS
  Clients <- OneClient
  Size = 2
  MaxWrite = 3
  MaxBytes = 6
  Ops <- Blocking
  Spurious = {}
PROPERTIES WriteReturns
CHECK_DEADLOCK FALSE
