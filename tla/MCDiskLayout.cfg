CONSTANTS
  CELLS = 4
  INODE_CELLS = 2
  INODES_SHARE = 3
  Sizes = {4, 6, 9}
  Fills = {0, 1}
SPECIFICATION Spec
INVARIANTS RegionsFit InodesKept BitmapExact DataKept
