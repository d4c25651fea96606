CONSTANTS
  TASK_MAX_TASKS = 2
  SCHED_TIME_SLICE = 3
  SelfTests = FALSE
SPECIFICATION LatencySpec
INVARIANT LatencyBounded
PROPERTIES EveryTaskRuns DeadAreReaped
