SPECIFICATION FairSpec
CONSTANTS
  Workers = {w1, w2, w3}
  Client = Client
  Tasks = {t1, t2, t3}
  NoTask = NoTask
  Limit = 8
INVARIANTS
  PendingAccurate
  NoLogicError
  FinishedMeansOver
  OneRightCallback
PROPERTIES
  ImplementsContract
  Settles
CHECK_DEADLOCK FALSE
