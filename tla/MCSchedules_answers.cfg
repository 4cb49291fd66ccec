SPECIFICATION SchedulesSpec
CONSTANTS
  Slaves = {s1}
  Selectors = {c1}
  Pollers = {p1, p2}
  Commands = {sp, so}
  NoRetry = {}
  MAX_WRITE_QUEUE = 1
  MaxCommands = 2
  MaxAnswers = 2
  MaxCFQAnswers = 3
SYMMETRY Threads
INVARIANTS AnswersInOrder KeptUnlessCrossed
PROPERTIES KeepsPromise
