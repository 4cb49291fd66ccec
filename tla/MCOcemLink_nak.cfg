SPECIFICATION Spec
CONSTANTS
  s1 = s1
  s2 = s2
  Slaves <- TheSlaves
  NoSlave = NoSlave
  MAX_ANSWER_SIZE = 3
  MaxCalls = 2
  MaxAnswers = 1
  MaxMishaps = 0
CHECK_DEADLOCK FALSE
PROPERTY PollCountsCharacters
