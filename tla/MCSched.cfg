CONSTANTS
  TASK_MAX_TASKS = 3
  SCHED_TIME_SLICE = 2
  SelfTests = TRUE
  BootTcb = BootTcb
  NULL = NULL
  QueueTasks = {BootTcb, t1, t2, t3, t4, t5}
SPECIFICATION MCSpec
INVARIANTS  OneRunning CpuMatchesCurrent  QueueSound
PROPERTIES NoResurrection QueueSteps
