SPECIFICATION Spec
CONSTANTS
  s1 = s1  s2 = s2  f1 = f1  f2 = f2
  Workers = {w1, w2}
  Procs = {p1, p2}
  Images = {i1}
  Sizes <- OneSize
  Formats <- OneFormat
  MayThrow = FALSE
  None = None
INVARIANTS
  CommitsWhatWasStaged
CHECK_DEADLOCK FALSE
