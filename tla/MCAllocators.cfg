CONSTANTS
  TOTAL_FRAMES = 15
  PAGE_SIZE = 2
  LOW_END = 2
  HEAP_END = 4
  BITMAP_FRAMES = 1
  MMIO_START = 13
  MAX_COUNT = 9
  WORD_BITS = 5
  HEAP_SIZE = 28
  HEADER = 4
  MIN_ALLOC_SIZE = 4
  ALIGN = 2
  Requests = {0, 1, 4, 7, 30}
SPECIFICATION MCSpec
INVARIANTS CountExact OwnershipExact ScansCorrect HeapSound
PROPERTY ImplementsPromise
