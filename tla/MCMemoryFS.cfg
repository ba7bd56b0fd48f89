SPECIFICATION Spec
CONSTANTS
  NumInodes = 4
  Names = {"a", "b"}
  MAX_DEPTH = 2
  Fds = {10}
  INT = 4
  UINT = 8
  Offsets = {0, 5, 9}
  Writes = {1, 3}
INVARIANTS TypeOK ReachableSound AbandonedOnlyByRmdir OpenStays SizesExact
