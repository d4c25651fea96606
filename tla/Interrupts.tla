------------------------------ MODULE Interrupts ------------------------------
(***************************************************************************)
(* Hardware interrupts: the two 8259 controllers (external), irq_handler   *)
(* with its early EOI (kernel/arch/irq.c, pic.c), and the context switches *)
(* that leave a handler half way (kernel/task/sched.c, task.c).            *)
(*                                                                         *)
(* Each task has a stack of interrupt frames.  A switch away from a task   *)
(* leaves its top frame at task_switch until the task is given the         *)
(* processor again; task_switch itself does not touch the interrupt flag,  *)
(* so the next task starts with interrupts off and must enable them.       *)
(***************************************************************************)
EXTENDS Integers, Sequences, FiniteSetsExt

CONSTANTS
  Tasks, Boot,
  Irqs,          \* the interrupt lines in use: 0 timer, 1 keyboard, others
  MAX_OPEN       \* bound on the handlers of one stack that have enabled interrupts

ASSUME InterruptsConstants ==
  Boot \in Tasks /\ Irqs \subseteq 0..15 /\ 0 \in Irqs /\ MAX_OPEN \in Nat

TIMER == 0
KEYBOARD == 1
CASCADE == 2

VARIABLES
  irr,                     \* lines that request service
  master_isr, slave_isr,   \* lines in service
  IF_,                     \* the processor's interrupt flag
  current,
  stk                      \* the frames of each task

vars == <<irr, master_isr, slave_isr, IF_, current, stk>>

pic == <<irr, master_isr, slave_isr>>

\* A frame is at "eoi", before pic_send_eoi; in the "handler"; "open", in a handler
\* that has executed sti; at task_switch in a handler, "switched", or in sched_yield,
\* "yield".  A task that never ran waits as if in sched_yield: task_wrapper's sti,
\* or the flags that the first iret to user mode loads, enable interrupts.
Frame(q, pc) == [irq |-> q, pc |-> pc]
Suspended == {"switched", "yield"}

\* kernel_main executes sti.
Init ==
  /\ irr = {} /\ master_isr = {} /\ slave_isr = {}
  /\ IF_ = TRUE
  /\ current = Boot
  /\ stk = [t \in Tasks |-> IF t = Boot THEN <<>> ELSE <<Frame(0, "yield")>>]
------------------------------------------------------------------------------
\* The controllers (external).
raise(q) == q \in Irqs \ irr /\ irr' = irr \union {q} /\ UNCHANGED <<master_isr, slave_isr, IF_, current, stk>>

MasterLine(q) == IF q < 8 THEN q ELSE CASCADE

\* A line is held back by one of the same or higher priority in service.
Blocked(q) ==
  \/ \E m \in master_isr : m <= MasterLine(q)
  \/ q >= 8 /\ \E s \in slave_isr : s <= q

\* The processor takes the interrupt through an interrupt gate: flag off.
deliver(q) ==
  /\ IF_ /\ q \in irr /\ ~Blocked(q)
  /\ irr' = irr \ {q}
  /\ master_isr' = master_isr \union {MasterLine(q)}
  /\ slave_isr' = IF q >= 8 THEN slave_isr \union {q} ELSE slave_isr
  /\ IF_' = FALSE
  /\ stk' = [stk EXCEPT ![current] = Append(@, Frame(q, "eoi"))]
  /\ UNCHANGED current
------------------------------------------------------------------------------
\* A non-specific EOI ends the line of highest priority in service.
Eoi(isr) == IF isr = {} THEN isr ELSE isr \ {Min(isr)}

\* Mutant of pic_send_eoi: a line of the slave is ended on the slave only.
EndsOneOnly(q) ==
  IF q >= 8 THEN slave_isr' = Eoi(slave_isr) /\ UNCHANGED master_isr
            ELSE master_isr' = Eoi(master_isr) /\ UNCHANGED slave_isr

pic_send_eoi(q) ==
  /\ slave_isr' = IF q >= 8 THEN Eoi(slave_isr) ELSE slave_isr
  /\ master_isr' = Eoi(master_isr)

\* The frame on top of a stack, and the stack below it.
TopFrame(s) == s[Len(s)]
Below(s) == SubSeq(s, 1, Len(s) - 1)

Top == TopFrame(stk[current])
AtTop(pcs) == stk[current] # <<>> /\ Top.pc \in pcs
SetTop(pc) == [stk EXCEPT ![current][Len(stk[current])].pc = pc]
Pop == [stk EXCEPT ![current] = Below(@)]

\* Mutant of irq_handler: the EOI is left to the end of the handler, which a
\* handler that switches to another task reaches late.
EoiAfterHandler ==
  /\ AtTop({"eoi"})
  /\ stk' = SetTop("handler")
  /\ UNCHANGED <<pic, IF_, current>>

irq_handler ==
  /\ AtTop({"eoi"})
  /\ pic_send_eoi(Top.irq)
  /\ stk' = SetTop("handler")
  /\ UNCHANGED <<irr, IF_, current>>

\* The handler returns and the stub executes iret: interrupts were on before.
iret ==
  /\ AtTop({"handler", "open"})
  /\ stk' = Pop /\ IF_' = TRUE
  /\ UNCHANGED <<pic, current>>

\* timer_handler, schedule, switch_to: task_switch to another task.
timer_switch(t) ==
  /\ AtTop({"handler"}) /\ Top.irq = TIMER /\ t # current
  /\ stk' = SetTop("switched")
  /\ current' = t
  /\ UNCHANGED <<pic, IF_>>

\* A shell command in the keyboard handler creates a task: sched_add_task's sti.
keyboard_spawn ==
  /\ AtTop({"handler"}) /\ Top.irq = KEYBOARD
  /\ Cardinality({k \in DOMAIN stk[current] : stk[current][k].pc = "open"}) < MAX_OPEN
  /\ stk' = SetTop("open") /\ IF_' = TRUE
  /\ UNCHANGED <<pic, current>>

\* A task calls sched_yield: cli, switch_to.
sched_yield(t) ==
  /\ stk[current] = <<>> /\ IF_ /\ t # current
  /\ IF_' = FALSE
  /\ stk' = [stk EXCEPT ![current] = <<Frame(0, "yield")>>]
  /\ current' = t
  /\ UNCHANGED pic

\* task_switch has returned: the sti of sched_yield or task_wrapper, or the iret
\* of the handler that was left.
resume ==
  /\ AtTop(Suspended)
  /\ stk' = Pop /\ IF_' = TRUE
  /\ UNCHANGED <<pic, current>>

Kernel == irq_handler \/ iret \/ resume

Next ==
  \/ \E q \in Irqs : raise(q) \/ deliver(q)
  \/ Kernel \/ keyboard_spawn
  \/ \E t \in Tasks : timer_switch(t) \/ sched_yield(t)

Spec == Init /\ [][Next]_vars

\* Handlers and the ends of a switch are straight-line code; the processor takes
\* a timer interrupt that stays requested when it is able to again and again.
Fairness == WF_vars(Kernel) /\ SF_vars(deliver(TIMER))

FairSpec == Spec /\ Fairness
------------------------------------------------------------------------------
\* A frame that was interrupted had executed sti, and a task that is not current
\* was left at a task_switch: no code that counts on interrupts being off, the
\* switch itself included, is ever interrupted.
TypeOK ==
  /\ irr \subseteq Irqs /\ master_isr \subseteq 0..7 /\ slave_isr \subseteq 8..15
  /\ IF_ \in BOOLEAN /\ current \in Tasks
  /\ \A t \in Tasks :
       /\ \A k \in 1 .. Len(stk[t]) - 1 : stk[t][k].pc = "open"
       /\ t # current => stk[t] # <<>> /\ TopFrame(stk[t]).pc \in Suspended

\* Whenever interrupts are enabled no line is in service on either controller,
\* so none is held back: not after a handler that switched to another task, that
\* enabled interrupts itself or that was nested in another one.
NothingInService == IF_ => master_isr = {} /\ slave_isr = {}

\* Whenever interrupts are on, neither controller has a line in service, however
\* handlers nest and switch tasks: irq_handler's early EOI was enough.
NoLineBlocked == TypeOK /\ NothingInService

\* "If the switch happens before EOI, the PIC never un-masks the timer line":
\* every tick requested is delivered, whatever the handlers and tasks do.
TicksDelivered == TIMER \in irr ~> TIMER \notin irr
===============================================================================
