CONSTANTS
  MAX_ROWS = 25
  MAX_COLS = 80
  BYTE = 256
  Writers = {w1, w2}
SPECIFICATION Spec
INVARIANT WritesOnScreen
