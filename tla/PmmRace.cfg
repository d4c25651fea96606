CONSTANTS
  TOTAL_FRAMES = 12
  PAGE_SIZE = 2
  LOW_END = 1
  HEAP_END = 2
  BITMAP_FRAMES = 1
  MMIO_START = 11
  MAX_COUNT = 1
  WORD_BITS = 4
SPECIFICATION RaceSpec
INVARIANT HeldFramesMarked
