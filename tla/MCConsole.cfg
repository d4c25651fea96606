CONSTANTS
  MAX_ROWS = 2
  MAX_COLS = 2
  Writers = {w1, w2}
  Chars = {a, b}
  MAX_TEXT = 7
  KLOG_BUFFER_SIZE = 3
  FLUSH_BUF_SIZE = 7
  LINE = 2
  MAX_LOGS = 8
  Tasks = {idle, t1}
  Idle = idle
  Keys = {x, y}
  SpawnKeys = {x}
  ShiftKeys = {lshift, rshift}
  SHELL_BUFFER_SIZE = 3
  MAX_NEST = 2
SPECIFICATION MCSpec
INVARIANTS  LogExact LineExact 
 
