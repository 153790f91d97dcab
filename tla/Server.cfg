SPECIFICATION FairSpec
CONSTANTS
  Workers = {w1, w2}
  Uploads = {u1, u2}
  Images = {i1, i2}
  NoTask = NoTask
  None = None
INVARIANTS
  MissedOnlyAtTheEnd
  TempEmptyAtExit
PROPERTIES
  ExitsUnlessStuck
CHECK_DEADLOCK FALSE
