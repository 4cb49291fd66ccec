SPECIFICATION FairSpec
CONSTANTS
  a = a
  b = b
  Channels = {x, s}
  Tasks = {a, b}
  Halves <- ReadOnly
  Failures = {"open", "param", "speed", "create"}
  Handles = {1, 2}
  Pool = {x}
  Opens <- EachOpensOne
  NoChannel = NoChannel
  Protocols = {p, q}
  Shared = s
  Master = a
INVARIANTS HandlesServed CallsSafe NothingLeaks ReadyIsServed
CHECK_DEADLOCK FALSE
PROPERTIES CloseReturns
