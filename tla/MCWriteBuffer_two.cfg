SPECIFICATION FairSpec
CONSTANTS
  Clients = {c1, c2}
  Size = 2
  MaxWrite = 3
  MaxBytes = 4
  Ops <- NoFlush
  Spurious <- TheClient
INVARIANTS RingInv ShortWriteTimedOut
PROPERTIES ImplementsStream AcceptedIsSent TimedWriteReturns
CHECK_DEADLOCK FALSE
