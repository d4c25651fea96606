CONSTANTS
  FRAMES = 8
  TASK_MAX_TASKS = 2
  Programs <- CleanPrograms
  ENTRIES = 6
  KERNEL_PDE_COUNT = 2
  POOL_START = 1
  MAX_DIRS = 2
  CodePages <- FirstPage
  UserPages <- TwoPagesAbove
  KernelPages <- TwoPagesAbove
  HeldElsewhere <- LastThree
SPECIFICATION MCSpec
INVARIANT NoPageLeaks
