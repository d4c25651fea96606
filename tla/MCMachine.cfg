CONSTANTS
  Tasks = {boot, t1, t2}
  Boot = boot
  Irqs = {0, 1, 14}
  MAX_OPEN = 2
  TASKS = 3
  SCHED_TIME_SLICE = 2
  TICK_MS = 2
  TICK_MOD = 8
  Durations = {1, 3, 4}
  SECTORS = 3
  Counts = {1, 2}
  Values = {0, 1}
  UserTasks = {u1, u2}
  Exceptions = {0, 13, 14}
  SPT = 63
  HEADS = 16
  BYTE = 256
  WORD = 65536
  MAX_READ = 127
  CHUNK = 18
  PARAS = 32
  STAGE2_SEG = 96
  KERNEL_SEG = 256
  STACK_SEG = 28672
  STAGE2_SECTORS = 4
SPECIFICATION MCSpec
INVARIANTS NoLineBlocked   KernelInPlace ReadyBeforeUse
PROPERTIES TicksDelivered CallReturns FaultsContained BootEnds
