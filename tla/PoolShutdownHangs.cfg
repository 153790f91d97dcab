SPECIFICATION FairSpec
CONSTANTS
  Workers = {w1, w2}
  Tasks = {t1}
  NoTask = NoTask
  NoThread = NoThread
PROPERTIES
  ShutdownReturns
CHECK_DEADLOCK FALSE
