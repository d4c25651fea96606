------------------------------ MODULE KernelMain ------------------------------
(***************************************************************************)
(* kernel_main (kernel/sys/kernel_main.c) bringing the machine up, and the *)
(* traps that reach it on the way and afterwards: interrupts, system calls *)
(* and the exceptions of user tasks (kernel/arch/isr.c, idt.c, syscall.c,  *)
(* kernel/mem/paging.c).                                                   *)
(*                                                                         *)
(* A part of the kernel is named after the call that initialises it.  Each *)
(* step, and each trap handler, needs parts that must be up by then; a     *)
(* trap needs a gate.  The kernel itself is assumed not to fault.  The     *)
(* test suite between sti and sched_enable is left out.                    *)
(***************************************************************************)
EXTENDS Integers

CONSTANTS
  UserTasks,     \* the tasks exec may create
  Exceptions     \* the exceptions a user task may raise

KernelMainConstants == Exceptions \subseteq 0..31

GP == 13
PF == 14
SYSCALL == 128
TIMER_LINE == 0
KEYBOARD_LINE == 1
ATA_LINE == 14

NOBODY == "kernel"

VARIABLES
  step,            \* position of kernel_main in Plan
  up,              \* the parts that are initialised
  gates,           \* vectors with a present gate
  handlers,        \* vectors with an entry in interrupt_handlers
  int_flag,        \* the interrupt flag while kernel_main or a user task runs
  blkdev,          \* the block device: "ata", "ram" or "none"
  fs_dev,          \* SimpleFS has been given a device
  scheduler_on,
  alive, running,  \* user tasks, and the one that has the CPU (or kernel_main)
  halted,          \* the exception that has stopped the machine, or -1
  unready          \* history: what was needed before it was up

kernel == <<step, up, gates, handlers, int_flag, blkdev, fs_dev, scheduler_on, alive, running,
          halted, unready>>

BootInit ==
  /\ step = 1 /\ up = {} /\ gates = {} /\ handlers = {}
  /\ int_flag = FALSE
  /\ blkdev = "none" /\ fs_dev = FALSE
  /\ scheduler_on = FALSE
  /\ alive = {} /\ running = NOBODY
  /\ halted = -1
  /\ unready = {}

\* Mutant of Plan: interrupts are enabled before the scheduler is initialised.
StiTooEarly ==
  <<"serial_init", "clear_screen", "gdt_init", "idt_init", "pic_remap", "pit_init",
    "timer_init", "kmalloc_init", "pmm_init", "paging_init", "tss_init", "klog_init",
    "ata_init", "blkdev_init", "fs_init", "keyboard_init", "shell_init", "sti",
    "sched_init", "syscall_init", "sched_enable", "idle">>

\* The calls of kernel_main, in their order.
Plan ==
  <<"serial_init", "clear_screen", "gdt_init", "idt_init", "pic_remap", "pit_init",
    "timer_init", "kmalloc_init", "pmm_init", "paging_init", "tss_init", "klog_init",
    "ata_init", "blkdev_init", "fs_init", "keyboard_init", "shell_init", "sched_init",
    "syscall_init", "sti", "sched_enable", "idle">>

Now == Plan[step]
Running == running = NOBODY /\ halted = -1

\* kprint writes to the screen and to the serial port.
Console == {"serial_init", "clear_screen"}

\* What a call of kernel_main uses: the message after it, alloc_page and alloc_pages,
\* the GDT entry of the TSS, klog_info, the disk, the table that idt_init clears.
Needs(call) ==
  CASE call \in {"serial_init", "clear_screen"} -> {}
    [] call = "paging_init" -> Console \union {"pmm_init"}
    [] call = "tss_init" -> Console \union {"gdt_init"}
    [] call = "blkdev_init" -> Console \union {"ata_init", "pmm_init", "paging_init", "klog_init"}
    [] call = "fs_init" -> Console \union {"blkdev_init", "klog_init"}
    [] call = "syscall_init" -> Console \union {"idt_init"}
    [] call = "sti" -> Console \union {"idt_init", "pic_remap"}
    [] call = "idle" -> Console \union {"sched_init", "pmm_init", "paging_init"}
    [] OTHER -> Console

\* What the handlers use: the timer switches tasks once the scheduler is on; a line
\* of the shell may run any command; a killed task is logged and leaves the CPU.
HandlerNeeds(v) ==
  CASE v = 32 + TIMER_LINE ->
         IF scheduler_on THEN {"sched_init", "tss_init", "paging_init"} ELSE {}
    [] v = 32 + KEYBOARD_LINE ->
         Console \union {"shell_init", "klog_init", "pmm_init", "paging_init", "kmalloc_init",
                         "timer_init", "ata_init", "sched_init"}
    [] v \in {GP, PF} -> Console \union {"klog_init", "sched_init"}
    [] v = SYSCALL -> Console \union {"sched_init", "timer_init"}
    [] OTHER -> {}

Requires(parts) == unready' = unready \union (parts \ up)

idt_init == gates' = 0..47 /\ UNCHANGED <<handlers, int_flag, blkdev, fs_dev, scheduler_on>>

register_interrupt_handler(n) ==
  handlers' = handlers \union {n} /\ UNCHANGED <<gates, int_flag, blkdev, fs_dev, scheduler_on>>

\* Mutant of syscall_init: the handler of #GP is not registered.
SyscallGateOnly ==
  /\ gates' = gates \union {SYSCALL}
  /\ UNCHANGED <<handlers, int_flag, blkdev, fs_dev, scheduler_on>>

\* The gate of INT 0x80, and the handler of #GP.
syscall_init ==
  /\ gates' = gates \union {SYSCALL}
  /\ handlers' = handlers \union {GP}
  /\ UNCHANGED <<int_flag, blkdev, fs_dev, scheduler_on>>

\* The slave disk if there is one, else a RAM disk if there is memory for it.
blkdev_init ==
  /\ blkdev' \in {"ata", "ram", "none"}
  /\ UNCHANGED <<gates, handlers, int_flag, fs_dev, scheduler_on>>

\* fs_init keeps the device even if it cannot mount or format it.
fs_init ==
  /\ fs_dev' = (blkdev # "none")
  /\ UNCHANGED <<gates, handlers, int_flag, blkdev, scheduler_on>>

\* One call of kernel_main.
kernel_main ==
  /\ Running /\ Now # "idle"
  /\ CASE Now = "idt_init" -> idt_init
       [] Now = "timer_init" -> register_interrupt_handler(32 + TIMER_LINE)
       [] Now = "paging_init" -> register_interrupt_handler(PF)
       [] Now = "keyboard_init" -> register_interrupt_handler(32 + KEYBOARD_LINE)
       [] Now = "blkdev_init" -> blkdev_init
       [] Now = "fs_init" -> fs_init
       [] Now = "syscall_init" -> syscall_init
       [] Now = "sti" -> int_flag' = TRUE /\ UNCHANGED <<gates, handlers, blkdev, fs_dev, scheduler_on>>
       [] Now = "sched_enable" ->
            scheduler_on' = TRUE /\ UNCHANGED <<gates, handlers, int_flag, blkdev, fs_dev>>
       [] OTHER -> UNCHANGED <<gates, handlers, int_flag, blkdev, fs_dev, scheduler_on>>
  /\ Requires(Needs(Now))
  /\ up' = up \union {Now}
  /\ step' = step + 1
  /\ UNCHANGED <<alive, running, halted>>
------------------------------------------------------------------------------
\* The vector of line q, before and after pic_remap.
Vector(q) == IF "pic_remap" \in up THEN 32 + q ELSE IF q < 8 THEN 8 + q ELSE 104 + q

\* A trap through vector v, to a handler with these needs.
Trap(v) == unready' = unready \union (IF v \in gates THEN HandlerNeeds(v) \ up ELSE {"gate"})

\* Who may get the CPU when it is given up.
Others(tasks) == tasks \union {NOBODY}

\* irq_handler: a line without a handler is only acknowledged.  A tick may switch
\* tasks, and a key may complete a command that creates one.
irq_handler_runs(q) ==
  LET v == Vector(q) IN
  /\ int_flag /\ halted = -1
  /\ IF v \in handlers THEN Trap(v) ELSE Requires({})
  /\ running' \in IF v \in handlers /\ q = TIMER_LINE /\ scheduler_on THEN Others(alive) ELSE {running}
  /\ alive' \in IF v \in handlers /\ q = KEYBOARD_LINE
                  THEN {alive} \union {alive \union {t} : t \in UserTasks} ELSE {alive}
  /\ UNCHANGED <<step, up, gates, handlers, int_flag, blkdev, fs_dev, scheduler_on, halted>>

\* INT 0x80: SYS_EXIT, SYS_YIELD and SYS_SLEEP give up the CPU, the others come back.
syscall(t) ==
  /\ running = t /\ halted = -1
  /\ Trap(SYSCALL)
  /\ \/ UNCHANGED <<alive, running>>
     \/ UNCHANGED alive /\ running' \in Others(alive)
     \/ alive' = alive \ {t} /\ running' \in Others(alive')
  /\ UNCHANGED <<step, up, gates, handlers, int_flag, blkdev, fs_dev, scheduler_on, halted>>

\* gpf_handler and page_fault_handler end the task when the fault is from Ring 3.
task_killed(t) ==
  /\ alive' = alive \ {t}
  /\ running' \in Others(alive')
  /\ UNCHANGED <<int_flag, halted>>

\* isr_handler: the registered handler, else a message, cli and hlt for ever.
isr_handler(t, v) ==
  /\ running = t /\ halted = -1
  /\ Trap(v)
  /\ IF v \in handlers THEN task_killed(t)
     ELSE halted' = v /\ int_flag' = FALSE /\ UNCHANGED <<alive, running>>
  /\ UNCHANGED <<step, up, gates, handlers, blkdev, fs_dev, scheduler_on>>

\* cli and hlt: nothing happens any more.
stopped == halted # -1 /\ UNCHANGED kernel

BootNext ==
  \/ kernel_main
  \/ \E q \in {TIMER_LINE, KEYBOARD_LINE, ATA_LINE} : irq_handler_runs(q)
  \/ \E t \in alive : syscall(t) \/ \E v \in Exceptions : isr_handler(t, v)
  \/ stopped

\* kernel_main goes on when it has the CPU, and the round robin gives it the CPU again.
BootFairness ==
  /\ WF_kernel(kernel_main)
  /\ SF_kernel(irq_handler_runs(TIMER_LINE) /\ running' = NOBODY)

BootSpec == BootInit /\ [][BootNext]_kernel /\ BootFairness
------------------------------------------------------------------------------
BootTypeOK ==
  /\ step \in DOMAIN Plan /\ up \subseteq {Plan[i] : i \in DOMAIN Plan}
  /\ gates \subseteq 0..255 /\ handlers \subseteq 0..255
  /\ int_flag \in BOOLEAN /\ fs_dev \in BOOLEAN /\ scheduler_on \in BOOLEAN
  /\ blkdev \in {"ata", "ram", "none"}
  /\ alive \subseteq UserTasks /\ running \in alive \union {NOBODY}
  /\ halted \in Exceptions \union {-1}

\* Whatever devices the machine has and whenever its lines, programs and faults come, no
\* call of kernel_main and no handler runs before what it uses is initialised, and no
\* trap goes through an empty gate.
ReadyBeforeUse == BootTypeOK /\ unready = {}

\* No task ends but the one that has the CPU, and not for a fault that has a handler.
EndsOnlyItself ==
  /\ halted' \notin {GP, PF}
  /\ \A t \in alive \ alive' : t = running

\* A general protection or page fault of a program never stops the machine, and takes
\* no task with it but the one that raised it.
FaultsContained == [][EndsOnlyItself]_kernel

\* kernel_main reaches its idle loop, unless an exception without a handler stops the
\* machine first.
BootCompletes == <>(Now = "idle" \/ halted # -1)
===============================================================================
