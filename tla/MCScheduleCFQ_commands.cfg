SPECIFICATION FairSpec
CONSTANTS
  Slaves = {s1}
  Selectors = {c1, c2}
  Pollers = {}
  Commands = {sp, sl}
  NoRetry = {sl}
  MAX_WRITE_QUEUE = 1
  MaxCommands = 3
  MaxAnswers = 1
INVARIANTS TypeOK WriteQueueBound ExecutedInOrder RetriesBounded
PROPERTIES ImplementsCommandQueue SelectReturns CommandsSettle
