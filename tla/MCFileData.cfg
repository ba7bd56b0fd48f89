CONSTANTS
  DataSize = 4
  BLOCK_SIZE = 2
  NUM_DIRECT = 1
  TRUNC_BLOCKS = 2
  Inums = {1, 2}
  Writes <- DeepBlocks
  Appends <- OneByte
  Offsets = {5}
  SHRINK = FALSE
  Past = {1}
  MAX_GROWN = 2
SPECIFICATION Spec
INVARIANTS TypeOK  OneOwner Sparse FullMeansFull
