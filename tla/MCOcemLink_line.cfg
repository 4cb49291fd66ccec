SPECIFICATION Spec
CONSTANTS
  s1 = s1
  s2 = s2
  Slaves <- TheSlaves
  NoSlave = NoSlave
  MAX_ANSWER_SIZE = 3
  MaxCalls = 3
  MaxAnswers = 2
  MaxMishaps = 1
CHECK_DEADLOCK FALSE
INVARIANTS TypeOK CommandOutcome AnswersAccounted UndamagedText
PROPERTY EveryCallEnds
