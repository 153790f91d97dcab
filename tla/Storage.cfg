SPECIFICATION Spec
CONSTANTS
  Users = {u1, u2}
  Hashes = {h1}
  Variants = {v1}
  Original = Original
  Numbers = {0, 1}
  NoFolder = NoFolder
  NoNumber = NoNumber
INVARIANTS
  NothingTorn
  StagedIntact
  NoLitter
PROPERTIES
  ImplementsContract
CHECK_DEADLOCK FALSE
