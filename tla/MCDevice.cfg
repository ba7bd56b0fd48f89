SPECIFICATION Spec
CONSTANTS
  NULL = NULL
  FILE_DATA = FILE_DATA
  NUM_BLOCKS = 5
  MAX_KILLS = 3
  Lossy = {0}
  MAX_LOST = 1
INVARIANTS TypeOK CacheCoherent 
