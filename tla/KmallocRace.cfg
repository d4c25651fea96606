CONSTANTS
  HEAP_SIZE = 28
  HEADER = 4
  MIN_ALLOC_SIZE = 4
  ALIGN = 2
  Requests = {4, 7}
  Execs = {1, 2}
SPECIFICATION RaceSpec
INVARIANT BlocksInHeap
