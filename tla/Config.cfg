SPECIFICATION FairSpec
CONSTANTS
  Kilo = 8
  ShortRange = 256
  DefaultPort = 80
  SpecSet <- MCSpecSet
  Lines <- MCLines
  Widths <- MCWidths
  None = None
INVARIANTS
  TypeOK
  AsWritten
  Verdict
  SizesAsDescribed
PROPERTIES
  SizesFound
CHECK_DEADLOCK FALSE
