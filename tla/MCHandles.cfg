SPECIFICATION HSpec
CONSTANTS
  NumInodes = 3
  Names = {"a", "b"}
  MIN_FD = 10
  MAX_FD = 11
  Modes = {"rw", "append"}
  Values = {1}
  MAX_SIZE = 2
  Objects = {1, 2}
  NoObject = 0
INVARIANTS TypeOK RefCounts OpenStaysAllocated NamesSound NoOrphans
PROPERTIES FdStable 
