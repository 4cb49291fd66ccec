SPECIFICATION FairSpec
CONSTANTS
  Clients <- OneClient
  Size = 3
  MaxRead = 4
  MaxBytes = 7
  Ops <- AllOps
  Spurious = {}
INVARIANTS TypeOK RingInv NoSleepOnData CountedBytesStay
PROPERTIES ImplementsStream ReadProgress TimedReadReturns
CHECK_DEADLOCK FALSE
