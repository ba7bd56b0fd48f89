CONSTANTS
  DataSize = 5
  ADDR_PER_NODE = 2
  Images <- ZeroAndPointer
SPECIFICATION FairSpec
INVARIANTS TypeOK ChainOK NoDoubleUse NoLeak
PROPERTIES HeldUntouched ImplementsPool CallsReturn
