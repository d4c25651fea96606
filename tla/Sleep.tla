-------------------------------- MODULE Sleep --------------------------------
(***************************************************************************)
(* SYS_SLEEP (kernel/arch/syscall.c) on top of the round robin of sched.c  *)
(* and the tick counter of timer.c.  A sleeping task is never blocked: it  *)
(* reads the counter and yields until enough ticks have passed, while the  *)
(* other tasks use up their slices.  The counter is a 32-bit integer that  *)
(* wraps around; time itself is finer than the ticks.                      *)
(*                                                                         *)
(* The tasks are fixed and always READY (Sched.tla creates and ends them). *)
(* Task 0 is the idle loop, which never sleeps.                            *)
(***************************************************************************)
EXTENDS Integers

CONSTANTS
  TASKS,              \* number of tasks
  SCHED_TIME_SLICE,   \* ticks of a time slice (10)
  TICK_MS,            \* milliseconds of a tick (10)
  TICK_MOD,           \* where the tick counter wraps (2^32)
  Durations           \* arguments of SYS_SLEEP, in milliseconds

ticks_to_wait(ms) == IF ms \div TICK_MS = 0 THEN 1 ELSE ms \div TICK_MS

\* The counter does not come round within one sleep: milliseconds have as many bits
\* as ticks, and a tick is several of them.
ASSUME SleepConstants ==
  /\ TASKS \in Nat \ {0} /\ SCHED_TIME_SLICE \in Nat \ {0}
  /\ TICK_MS \in Nat \ {0} /\ TICK_MOD \in Nat \ {0}
  /\ Durations \subseteq Nat
  /\ \A ms \in Durations :
       ticks_to_wait(ms) + (TASKS - 1) * SCHED_TIME_SLICE < TICK_MOD

TaskIds == 0 .. TASKS - 1
Awake == [ms |-> 0, start |-> 0, slept |-> 0]

VARIABLES
  phase,             \* milliseconds since the last tick
  timer_ticks,
  current_task, slice_remaining,
  sleep              \* per task: argument, first tick read, milliseconds slept so far

clock == <<phase, timer_ticks, current_task, slice_remaining, sleep>>

ClockInit ==
  /\ phase = 0
  /\ timer_ticks \in 0 .. TICK_MOD - 1
  /\ current_task = 0 /\ slice_remaining = SCHED_TIME_SLICE
  /\ sleep = [t \in TaskIds |-> Awake]
------------------------------------------------------------------------------
Sleeping(t) == sleep[t] # Awake

\* Mutant of StillWaiting: the deadline is computed, and may wrap around.
ComparesDeadline(t) == timer_ticks < (sleep[t].start + ticks_to_wait(sleep[t].ms)) % TICK_MOD

\* The condition of sys_sleep_handler's loop, unsigned.
StillWaiting(t) ==
  (timer_ticks - sleep[t].start) % TICK_MOD < ticks_to_wait(sleep[t].ms)

\* switch_to the next task of the ring.
SwitchToNext ==
  /\ current_task' = (current_task + 1) % TASKS
  /\ slice_remaining' = IF TASKS = 1 THEN slice_remaining ELSE SCHED_TIME_SLICE

sys_sleep(ms) ==
  /\ current_task # 0 /\ ~Sleeping(current_task) /\ ms # 0
  /\ sleep' = [sleep EXCEPT ![current_task] = [ms |-> ms, start |-> timer_ticks, slept |-> 0]]
  /\ UNCHANGED <<phase, timer_ticks, current_task, slice_remaining>>

\* One round of the loop: sched_yield.
sleep_yield ==
  /\ Sleeping(current_task) /\ StillWaiting(current_task)
  /\ SwitchToNext
  /\ UNCHANGED <<phase, timer_ticks, sleep>>

sleep_return ==
  /\ Sleeping(current_task) /\ ~StillWaiting(current_task)
  /\ sleep' = [sleep EXCEPT ![current_task] = Awake]
  /\ UNCHANGED <<phase, timer_ticks, current_task, slice_remaining>>

\* SYS_YIELD, or any other call of sched_yield.
sys_yield ==
  /\ ~Sleeping(current_task)
  /\ SwitchToNext
  /\ UNCHANGED <<phase, timer_ticks, sleep>>

Slept == [t \in TaskIds |-> IF Sleeping(t) THEN [sleep[t] EXCEPT !.slept = @ + 1] ELSE Awake]

\* A millisecond of a task that computes.  A round of the loop takes far less,
\* so no time passes while a sleeping task is current.
compute ==
  /\ ~Sleeping(current_task) /\ phase < TICK_MS - 1
  /\ phase' = phase + 1
  /\ sleep' = Slept
  /\ UNCHANGED <<timer_ticks, current_task, slice_remaining>>

\* The last millisecond of a tick, and timer_handler with schedule.
timer_handler ==
  /\ ~Sleeping(current_task) /\ phase = TICK_MS - 1
  /\ phase' = 0
  /\ timer_ticks' = (timer_ticks + 1) % TICK_MOD
  /\ sleep' = Slept
  /\ IF slice_remaining > 1
       THEN slice_remaining' = slice_remaining - 1 /\ UNCHANGED current_task
       ELSE SwitchToNext

ClockNext ==
  \/ \E ms \in Durations : sys_sleep(ms)
  \/ sleep_yield \/ sleep_return \/ sys_yield \/ compute \/ timer_handler

ClockSpec == ClockInit /\ [][ClockNext]_clock
------------------------------------------------------------------------------
\* The counters stay in range; in particular a running task always has a tick
\* of its slice left.
ClockTypeOK ==
  /\ phase \in 0 .. TICK_MS - 1 /\ timer_ticks \in 0 .. TICK_MOD - 1
  /\ current_task \in TaskIds /\ slice_remaining \in 1..SCHED_TIME_SLICE
  /\ \A t \in TaskIds : sleep[t].start \in 0 .. TICK_MOD - 1 /\ sleep[t].ms \in Durations \union {0}

\* A sleep ends early by less than two ticks, one lost in the division and one
\* because it starts inside a tick, wherever the counter wraps.
NeverFarTooEarly ==
  \A t \in TaskIds :
    t = current_task /\ Sleeping(t) /\ ~StillWaiting(t) => sleep[t].slept > sleep[t].ms - 2 * TICK_MS + 1

\* A sleep is over at the latest when, counted from the last tick but one that
\* it waits for, every other task has used one time slice: the task is on time
\* although nothing wakes it up.
NeverTooLate ==
  \A t \in TaskIds : Sleeping(t) =>
    sleep[t].slept <= (ticks_to_wait(sleep[t].ms) - 1 + (TASKS - 1) * SCHED_TIME_SLICE) * TICK_MS

\* SYS_SLEEP ends early by less than two ticks, wherever the counter wraps, and at
\* the latest when every other task has used a time slice since the last tick but
\* one that it waits for.
SleepBounded == ClockTypeOK /\ NeverFarTooEarly /\ NeverTooLate
===============================================================================
