CONSTANTS
  NumInodes = 4
  BLOCK_SIZE = 5
  ENT = 2
  Names = {a, b, c}
  Paths <- Depths
  Users <- ThreeUsers
  Modes <- SplitMode
  MAX_SIZE = 14
SYMMETRY NameSymmetry
SPECIFICATION Spec
INVARIANTS TypeOK  TreeOK LookupExact
PROPERTY AccessChecked
