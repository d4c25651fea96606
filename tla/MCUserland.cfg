CONSTANTS
  PAGE_SIZE = 4
  KERNEL_END = 4
  FILE_SIZE = 8
  Programs <- MCPrograms
  STACK_PAGE_SIZE = 40
  RESERVED = 4
  USER_STACK_TOP = 120
  ArgLengths <- MCArgLengths
  PRINTF_BUFSZ = 6
  KLOG_MSG_MAX_LEN = 4
  MAX_ITEMS = 2
  Words = {0, 9, 10, 128, 255}
  Widths = {0, 4}
  Precisions = {0, 2, 4}
  Sizes = {0, 1, 2, 5}
  Writers = {w1, w2}
  USER_SPACE_START = 2
  USER_SPACE_END = 6
  CHUNK = 2
  FIFO_SIZE = 2
  Starts = {1, 2, 3, 6}
  Lengths = {0, 1, 3, 7}
  NulAt = {}
SPECIFICATION MCSpec
INVARIANTS  ArgumentsReadable FormatExact OutputExact
 
CHECK_DEADLOCK FALSE
