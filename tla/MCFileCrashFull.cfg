SPECIFICATION Spec
CONSTANTS
  NUM_DIRECT = 1
  ADDRESSES_PER_BLOCK = 2
  Data = {a, b, c}
  Files = {f, g}
  MAX_BLOCK = 2
  TRUNC_BLOCKS = 2
  Jobs <- FlatJobs
  MAX_KILLS = 1
CHECK_DEADLOCK FALSE
INVARIANT InodeWrittenBack
