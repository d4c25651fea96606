-------------------------------- MODULE Sched --------------------------------
(***************************************************************************)
(* Tasks and their scheduler: kernel/task/task.c and kernel/task/sched.c,  *)
(* driven by the timer interrupt, the tasks' own calls, task creation from *)
(* the shell (which runs inside the keyboard interrupt on top of whatever  *)
(* task is current) and the idle loop of kernel_main that reaps the dead.  *)
(*                                                                         *)
(* A step is a stretch of code that no interrupt can split.  task_exit is  *)
(* two steps, because the timer may fire between marking the task DEAD and *)
(* the cli of sched_yield.  task_reap is several: sched_remove_task ends   *)
(* with sti, so from the first task it unlinks the rest of the scan runs   *)
(* with interrupts enabled, although task_reap began with cli.             *)
(***************************************************************************)
EXTENDS TaskRing

CONSTANTS
  TASK_MAX_TASKS,     \* TCBs in task_pool (64)
  SCHED_TIME_SLICE,   \* ticks of a time slice (10)
  SelfTests           \* the self-test commands, which call sched_disable, run

ASSUME SchedConstants ==
  /\ TASK_MAX_TASKS \in Nat \ {0}
  /\ SCHED_TIME_SLICE \in Nat \ {0}
  /\ SelfTests \in BOOLEAN

Slots == 1..TASK_MAX_TASKS      \* task_pool
Boot == 0                       \* boot_task, the idle task
Tasks == Slots \union {Boot}

BOOT_STACK == -1                \* the esp0 that tss_init loads

VARIABLES
  used,               \* the slots alloc_tcb passes over (id, kernel_stack # 0)
  state,              \* TCB state; a zeroed TCB reads READY
  cr3,                \* the slot's own directory, or 0 for the kernel's
  ring,               \* the ready queue from ready_head on
  current_task, slice_remaining, scheduler_on,
  tss_esp0,           \* whose kernel stack the TSS names
  cpu_cr3,            \* the directory in the CR3 register
  reap_pc,            \* where the idle loop is: "hlt", "release" or "scan"
  reap_i              \* task_reap's loop index

tasks == <<used, state, cr3>>
cpu   == <<current_task, slice_remaining, tss_esp0, cpu_cr3>>
reap  == <<reap_pc, reap_i>>
vars  == <<tasks, ring, cpu, scheduler_on, reap>>

\* sched_init, with the task pool still zero.
Init ==
  /\ used = {}
  /\ state = [t \in Tasks |-> IF t = Boot THEN "RUNNING" ELSE "READY"]
  /\ cr3 = [t \in Tasks |-> 0]
  /\ ring = <<Boot>>
  /\ current_task = Boot
  /\ slice_remaining = SCHED_TIME_SLICE
  /\ scheduler_on = FALSE
  /\ tss_esp0 = BOOT_STACK
  /\ cpu_cr3 = 0
  /\ reap_pc = "hlt"
  /\ reap_i = 0
------------------------------------------------------------------------------
\* The stack top of a pool task is its own; boot_task.esp0 stays 0.
esp0(t) == t

\* Mutants of switch_to: the old task keeps its state; a DEAD one is demoted to
\* READY as well; a kernel task does not get the kernel's directory loaded.
KeepsOldRunning(next, slice) ==
  \/ /\ next = current_task
     /\ slice_remaining' = slice
     /\ UNCHANGED <<state, current_task, tss_esp0, cpu_cr3>>
  \/ /\ next # current_task
     /\ state' = [state EXCEPT ![next] = "RUNNING"]
     /\ current_task' = next
     /\ slice_remaining' = SCHED_TIME_SLICE
     /\ tss_esp0' = esp0(next)
     /\ cpu_cr3' = IF cr3[next] # cr3[current_task] THEN cr3[next] ELSE cpu_cr3

DemotesTheDead(next, slice) ==
  \/ /\ next = current_task
     /\ slice_remaining' = slice
     /\ UNCHANGED <<state, current_task, tss_esp0, cpu_cr3>>
  \/ /\ next # current_task
     /\ state' = [state EXCEPT ![current_task] = "READY", ![next] = "RUNNING"]
     /\ current_task' = next
     /\ slice_remaining' = SCHED_TIME_SLICE
     /\ tss_esp0' = esp0(next)
     /\ cpu_cr3' = IF cr3[next] # cr3[current_task] THEN cr3[next] ELSE cpu_cr3

SkipsKernelDir(next, slice) ==
  \/ /\ next = current_task
     /\ slice_remaining' = slice
     /\ UNCHANGED <<state, current_task, tss_esp0, cpu_cr3>>
  \/ /\ next # current_task
     /\ state' = [state EXCEPT
                    ![current_task] = IF @ = "RUNNING" THEN "READY" ELSE @,
                    ![next] = "RUNNING"]
     /\ current_task' = next
     /\ slice_remaining' = SCHED_TIME_SLICE
     /\ tss_esp0' = esp0(next)
     /\ cpu_cr3' = IF cr3[next] # 0 THEN cr3[next] ELSE cpu_cr3

\* switch_to; "slice" is what remains of the time slice if nothing is switched.
switch_to(next, slice) ==
  \/ /\ next = current_task
     /\ slice_remaining' = slice
     /\ UNCHANGED <<state, current_task, tss_esp0, cpu_cr3>>
  \/ /\ next # current_task
     /\ state' = [state EXCEPT
                    ![current_task] = IF @ = "RUNNING" THEN "READY" ELSE @,
                    ![next] = "RUNNING"]
     /\ current_task' = next
     /\ slice_remaining' = SCHED_TIME_SLICE
     /\ tss_esp0' = esp0(next)
     /\ cpu_cr3' = IF cr3[next] # cr3[current_task] THEN cr3[next] ELSE cpu_cr3

\* The tasks whose state pick_next_ready accepts.
Runnable == {t \in Tasks : state[t] \in {"READY", "RUNNING"}}

\* pick_next_ready, then switch_to.
SwitchToPicked(slice) ==
  \E i \in DOMAIN ring, next \in Tasks :
    /\ ring[i] = current_task
    /\ Picks(ring, i, Runnable, next)
    /\ switch_to(next, slice)
    /\ UNCHANGED <<used, cr3, ring, scheduler_on, reap>>

\* Mutant of schedule: a slice lasts one tick too long.
TickTooLong ==
  \/ ~scheduler_on /\ UNCHANGED vars
  \/ /\ scheduler_on /\ slice_remaining > 0
     /\ slice_remaining' = slice_remaining - 1
     /\ UNCHANGED <<tasks, ring, current_task, tss_esp0, cpu_cr3, scheduler_on, reap>>
  \/ scheduler_on /\ slice_remaining <= 0 /\ SwitchToPicked(0)

\* timer_handler calls schedule.
schedule ==
  \/ ~scheduler_on /\ UNCHANGED vars
  \/ /\ scheduler_on /\ slice_remaining > 1
     /\ slice_remaining' = slice_remaining - 1
     /\ UNCHANGED <<tasks, ring, current_task, tss_esp0, cpu_cr3, scheduler_on, reap>>
  \/ scheduler_on /\ slice_remaining <= 1 /\ SwitchToPicked(0)

\* A task calls sched_yield (SYS_YIELD, SYS_SLEEP).
sched_yield ==
  /\ current_task # Boot /\ state[current_task] = "RUNNING"
  /\ SwitchToPicked(slice_remaining)

\* task_exit: SYS_EXIT, a fault in user mode, or a return from the entry point.
task_exit ==
  /\ current_task # Boot /\ state[current_task] = "RUNNING"
  /\ state' = [state EXCEPT ![current_task] = "DEAD"]
  /\ UNCHANGED <<used, cr3, ring, cpu, scheduler_on, reap>>

\* ... and its call of sched_yield.
task_exit_yield ==
  /\ state[current_task] = "DEAD"
  /\ SwitchToPicked(slice_remaining)
------------------------------------------------------------------------------
\* alloc_tcb returns the first free slot.
IsFreeTcb(s) == s \in Slots \ used /\ \A r \in Slots \ used : s <= r

\* task_create (dir = 0), task_create_user and task_create_user_mapped, from
\* alloc_tcb to sched_add_task.  On a pool that is exhausted they return NULL.
Create(dir) ==
  \/ \E s \in Slots :
       /\ IsFreeTcb(s)
       /\ used' = used \union {s}
       /\ state' = [state EXCEPT ![s] = "READY"]
       /\ cr3' = [cr3 EXCEPT ![s] = dir[s]]
       /\ ring' = Append(ring, s)
       /\ UNCHANGED <<cpu, scheduler_on, reap>>
  \/ used = Slots /\ UNCHANGED vars

KernelDir == [s \in Slots |-> 0]
OwnDir == [s \in Slots |-> s]

task_create == Create(KernelDir)

task_create_user == Create(OwnDir)

sched_enable ==
  /\ ~scheduler_on
  /\ scheduler_on' = TRUE
  /\ UNCHANGED <<tasks, ring, cpu, reap>>

sched_disable ==
  /\ SelfTests
  /\ scheduler_on
  /\ scheduler_on' = FALSE
  /\ UNCHANGED <<tasks, ring, cpu, reap>>
------------------------------------------------------------------------------
\* Mutants of Reapable: the state is not looked at; the loop stops one TCB short.
AnyUsed(s) == s \in used /\ s # current_task

SkipsLastSlot(s) == s \in used /\ state[s] = "DEAD" /\ s < TASK_MAX_TASKS

Reapable(s) == s \in used /\ state[s] = "DEAD"

\* Mutant of sched_remove_task: the task stays linked.
LeavesLinked(s) ==
  /\ reap_pc' = "release"
  /\ reap_i' = s
  /\ UNCHANGED <<tasks, ring, cpu, scheduler_on>>

\* sched_remove_task on slot s, which ends with sti.
sched_remove_task(s) ==
  /\ ring' = Unlink(ring, s)
  /\ reap_pc' = "release"
  /\ reap_i' = s
  /\ UNCHANGED <<tasks, cpu, scheduler_on>>

\* The idle loop wakes from hlt: task_reap scans with interrupts off up to the
\* first dead task and unlinks it; if there is none it ends where it began.
task_reap ==
  /\ current_task = Boot /\ reap_pc = "hlt"
  /\ \E s \in Slots : /\ Reapable(s)
                      /\ \A r \in Slots : Reapable(r) => s <= r
                      /\ sched_remove_task(s)

\* With interrupts on: the stack and the directory are freed, the TCB zeroed.
reap_release ==
  /\ current_task = Boot /\ reap_pc = "release"
  /\ used' = used \ {reap_i}
  /\ state' = [state EXCEPT ![reap_i] = "READY"]
  /\ cr3' = [cr3 EXCEPT ![reap_i] = 0]
  /\ reap_pc' = "scan"
  /\ UNCHANGED <<ring, cpu, scheduler_on, reap_i>>

\* With interrupts still on: the next iteration of the loop, and its end.
reap_scan ==
  /\ current_task = Boot /\ reap_pc = "scan"
  /\ LET i == reap_i + 1 IN
     \/ i \in Slots /\ Reapable(i) /\ sched_remove_task(i)
     \/ /\ i \in Slots /\ ~Reapable(i)
        /\ reap_i' = i
        /\ UNCHANGED <<tasks, ring, cpu, scheduler_on, reap_pc>>
     \/ /\ i \notin Slots
        /\ reap_pc' = "hlt"
        /\ reap_i' = 0
        /\ UNCHANGED <<tasks, ring, cpu, scheduler_on>>

\* What happens between two ticks of the timer.
BetweenTicks ==
  \/ sched_yield \/ task_exit \/ task_exit_yield
  \/ task_create \/ task_create_user
  \/ sched_enable \/ sched_disable
  \/ task_reap \/ reap_release \/ reap_scan

Next == schedule \/ BetweenTicks

Spec == Init /\ [][Next]_vars

\* The timer keeps ticking and kernel_main gets to sched_enable.  Boot is given
\* the processor again and again, each time for a whole slice of 100 ms, and
\* every stretch of task_reap takes far less.
Fairness ==
  /\ WF_vars(schedule)
  /\ WF_vars(sched_enable)
  /\ SF_vars(task_reap) /\ SF_vars(reap_release) /\ SF_vars(reap_scan)

FairSpec == Spec /\ Fairness
------------------------------------------------------------------------------
\* Every variable has its type.
TypeOK ==
  /\ used \subseteq Slots
  /\ state \in [Tasks -> {"READY", "RUNNING", "DEAD"}]
  /\ cr3 \in [Tasks -> Tasks]
  /\ ring \in Seq(Tasks)
  /\ current_task \in Tasks
  /\ slice_remaining \in 0..SCHED_TIME_SLICE
  /\ scheduler_on \in BOOLEAN
  /\ tss_esp0 \in Tasks \union {BOOT_STACK}
  /\ cpu_cr3 \in Tasks
  /\ reap_pc \in {"hlt", "release", "scan"}
  /\ reap_i \in Slots \union {0}

\* The slot task_reap has unlinked and not yet zeroed.
Releasing == IF reap_pc = "release" THEN {reap_i} ELSE {}

\* The ready queue holds the bootstrap task and every living or dead task of
\* the pool exactly once, and nothing else: a zeroed TCB, whose state reads
\* READY, is never in reach of pick_next_ready, whatever is created while
\* task_reap runs with interrupts on.
RingExact ==
  /\ Range(ring) = {Boot} \union (used \ Releasing)
  /\ \A i, j \in DOMAIN ring : ring[i] = ring[j] => i = j

\* At most one task is RUNNING, and it is the current one; the current task is
\* RUNNING, or DEAD in the window of task_exit before it yields.
OneRunning ==
  /\ \A t \in Tasks : state[t] = "RUNNING" => t = current_task
  /\ state[current_task] \in {"RUNNING", "DEAD"}

\* The processor runs the current task in its own address space, and an
\* interrupt from user mode lands on its own kernel stack: switch_to leaves no
\* stale CR3 or TSS behind, although it skips the CR3 load when it can.
CpuMatchesCurrent ==
  /\ cpu_cr3 = cr3[current_task]
  /\ cr3[current_task] # 0 => tss_esp0 = esp0(current_task)

\* task_reap never takes the slot, stack or directory of the task that runs or
\* of one that is alive, not even between its steps: the slot it is releasing
\* stays dead and unlinked until it is zeroed.
ReapOnlyDead ==
  \A s \in Releasing : /\ s \in used /\ state[s] = "DEAD"
                       /\ s # current_task /\ s # Boot
                       /\ s \notin Range(ring)

\* A switch goes to a linked, READY task, so a task that has called task_exit
\* never resumes; only a reaped slot leaves the state DEAD.
NoResurrection ==
  [][/\ current_task' # current_task =>
          state[current_task'] = "READY" /\ current_task' \in Range(ring)
     /\ \A s \in Slots : state[s] = "DEAD" /\ state'[s] # "DEAD" => s \notin used'
    ]_vars

\* Every task that is linked and READY runs eventually: round robin starves
\* nobody, although tasks are created and yield at will.
EveryTaskRuns ==
  \A t \in Tasks :
    (state[t] = "READY" /\ t \in Range(ring)) ~> (current_task = t)

\* Every dead task is reaped eventually and its slot is free again, although
\* the idle loop is preempted between the steps of task_reap.
DeadAreReaped == \A s \in Slots : (state[s] = "DEAD") ~> (s \notin used)
===============================================================================
