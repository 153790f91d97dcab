SPECIFICATION FairSpec
CONSTANTS
  Workers = {w1, w2, w3}
  Tasks = {t1, t2, t3}
  NoTask = NoTask
  NoThread = NoThread
INVARIANTS
  TypeOK
  FifoNoLoss
  NoLostWakeup
  AtMostOneLateStart
  JoinedQuiescent
PROPERTIES
  ImplementsContract
  EveryTaskStarts
CHECK_DEADLOCK FALSE
