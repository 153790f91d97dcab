SPECIFICATION FairSpec
CONSTANTS
  s1 = s1  s2 = s2  f1 = f1  f2 = f2
  Workers = {w1, w2}
  Procs = {p1, p2, p3}
  Images = {i1}
  Sizes <- OneSize
  Formats <- TwoFormats
  MayThrow = TRUE
  None = None
INVARIANTS
  EntryHasOwner
  OneOwner
PROPERTIES
  ImplementsContract
  NoFileTwice
  HookCalledOrBlocked
  TempEmptied
CHECK_DEADLOCK FALSE
