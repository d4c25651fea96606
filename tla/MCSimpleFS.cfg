CONSTANTS
  Names <- MCNames
  Children <- MCChildren
  Data <- MCData
  FS_DIR_BLOCKS = 2
  FS_ENTRIES_PER_BLOCK = 1
  DATA_BLOCKS = 3
  MAP_BITS = 3
  BLOCK_SIZE = 2
  READ_ERRORS = FALSE
  MAX_FREE = 4
SPECIFICATION Spec
INVARIANTS DiskSound 
 
