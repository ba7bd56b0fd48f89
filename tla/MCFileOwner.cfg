CONSTANTS
  DataSize = 4
  BLOCK_SIZE = 2
  NUM_DIRECT = 1
  TRUNC_BLOCKS = 2
  Inums = {1, 2}
  Writes <- Crossing
  Appends = {}
  Offsets = {}
  SHRINK = FALSE
  Past = {0, 1}
  MAX_GROWN = 2
SPECIFICATION Spec
INVARIANT OneOwner
