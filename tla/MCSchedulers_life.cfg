SPECIFICATION FairSpec
CONSTANTS
  Slaves = {s1, s2}
  Workers = {w1, w2}
  NoWorker = NoWorker
INVARIANTS TypeOK OneThread StartedRuns QueuesOutlive
PROPERTIES StopReturns
CHECK_DEADLOCK FALSE
