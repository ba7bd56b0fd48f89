SPECIFICATION Spec
CONSTANTS
  NUM_DIRECT = 1
  ADDRESSES_PER_BLOCK = 2
  Data = {a, b, c, d}
  Files = {f, g}
  MAX_BLOCK = 4
  TRUNC_BLOCKS = 2
  Jobs <- DeepJobs
  MAX_KILLS = 2
SYMMETRY Same
INVARIANTS TreesSound CrashReads LeakBounded
CHECK_DEADLOCK FALSE
