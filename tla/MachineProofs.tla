---------------------------- MODULE MachineProofs -----------------------------
(***************************************************************************)
(* kernel_main and its traps, for any user tasks and exceptions.  How far  *)
(* kernel_main is fixes what is up, which gates are present and which      *)
(* handlers are registered; interrupts, the scheduler and user tasks all   *)
(* come after the parts that their traps use.                              *)
(*                                                                         *)
(* The ATA driver and its drive, for any size of the drive and any calls.  *)
(* Between a command and the return of its call, driver and drive count    *)
(* the same sectors: the driver in the buffer, the drive in its registers. *)
(*                                                                         *)
(* The keyboard's shift state and the shell's line, for any keys, tasks    *)
(* and size of the buffer.                                                 *)
(***************************************************************************)
EXTENDS KernelMain, Ata, Shell, TLAPS

KernelInv ==
  /\ BootTypeOK
  /\ \A i \in 1..22 : Plan[i] \in up <=> i < step
  /\ gates = IF step <= 4 THEN {} ELSE IF step <= 19 THEN 0..47 ELSE (0..47) \union {128}
  /\ handlers \subseteq {13, 14, 32, 33}
  /\ (step > 10 => 14 \in handlers) /\ (step > 19 => 13 \in handlers)
  /\ int_flag \/ scheduler_on \/ alive # {} => step > 20
  /\ unready = {} /\ halted \notin {13, 14}

\* The place of each call in kernel_main.
LEMMA PlanAt ==
  /\ DOMAIN Plan = 1..22
  /\ \A i \in 1..22 :
       /\ Plan[i] = "serial_init" <=> i = 1
       /\ Plan[i] = "clear_screen" <=> i = 2
       /\ Plan[i] = "gdt_init" <=> i = 3
       /\ Plan[i] = "idt_init" <=> i = 4
       /\ Plan[i] = "pic_remap" <=> i = 5
       /\ Plan[i] = "pit_init" <=> i = 6
       /\ Plan[i] = "timer_init" <=> i = 7
       /\ Plan[i] = "kmalloc_init" <=> i = 8
       /\ Plan[i] = "pmm_init" <=> i = 9
       /\ Plan[i] = "paging_init" <=> i = 10
       /\ Plan[i] = "tss_init" <=> i = 11
       /\ Plan[i] = "klog_init" <=> i = 12
       /\ Plan[i] = "ata_init" <=> i = 13
       /\ Plan[i] = "blkdev_init" <=> i = 14
       /\ Plan[i] = "fs_init" <=> i = 15
       /\ Plan[i] = "keyboard_init" <=> i = 16
       /\ Plan[i] = "shell_init" <=> i = 17
       /\ Plan[i] = "sched_init" <=> i = 18
       /\ Plan[i] = "syscall_init" <=> i = 19
       /\ Plan[i] = "sti" <=> i = 20
       /\ Plan[i] = "sched_enable" <=> i = 21
       /\ Plan[i] = "idle" <=> i = 22
BY DEF Plan

\* No call comes twice.
LEMMA PlanInjective ==
  \A i, j \in 1..22 : Plan[i] = Plan[j] => i = j
BY PlanAt DEF Plan

\* kernel_main begins with nothing up and interrupts off.
LEMMA KernelInit == BootInit => KernelInv
<1> SUFFICES ASSUME BootInit PROVE KernelInv
  OBVIOUS
<1>1. step \in DOMAIN Plan
  BY PlanAt DEF BootInit
<1>2. BootTypeOK
  BY Zenon, <1>1 DEF BootInit, BootTypeOK
<1> QED BY <1>2 DEF BootInit, KernelInv

\* What a call of kernel_main, a handler and an exception find up.
LEMMA UpAt ==
  ASSUME KernelInv
  PROVE  /\ step \in 1..22
         /\ "serial_init" \in up <=> step > 1
         /\ "clear_screen" \in up <=> step > 2
         /\ "gdt_init" \in up <=> step > 3
         /\ "idt_init" \in up <=> step > 4
         /\ "pic_remap" \in up <=> step > 5
         /\ "timer_init" \in up <=> step > 7
         /\ "kmalloc_init" \in up <=> step > 8
         /\ "pmm_init" \in up <=> step > 9
         /\ "paging_init" \in up <=> step > 10
         /\ "tss_init" \in up <=> step > 11
         /\ "klog_init" \in up <=> step > 12
         /\ "ata_init" \in up <=> step > 13
         /\ "blkdev_init" \in up <=> step > 14
         /\ "shell_init" \in up <=> step > 17
         /\ "sched_init" \in up <=> step > 18
BY PlanAt DEF KernelInv, BootTypeOK

\* What kernel_main needs for its next call is up.
LEMMA NeedsMet ==
  ASSUME KernelInv
  PROVE  /\ Needs(Now) \subseteq up
         /\ step > 20 => \A v \in (0..31) \union handlers \union {128} :
                           v \in gates /\ HandlerNeeds(v) \subseteq up
<1>1. Needs(Now) \subseteq up
  BY UpAt, PlanAt DEF Needs, Now, Console
<1>2. ASSUME step > 20, NEW v \in (0..31) \union handlers \union {128}
      PROVE  v \in gates /\ HandlerNeeds(v) \subseteq up
  <2>1. v \in gates
    BY <1>2, UpAt DEF KernelInv
  <2>2. HandlerNeeds(v) \subseteq up
    BY <1>2, UpAt DEF HandlerNeeds, Console
  <2> QED BY <2>1, <2>2
<1> QED BY <1>1, <1>2

\* Every call of kernel_main, interrupt, system call and exception keeps KernelInv.
LEMMA KernelStep ==
  ASSUME KernelMainConstants, KernelInv, [BootNext]_kernel
  PROVE  KernelInv'
<1>1. CASE kernel_main
  <2>1. step \in 1..21 /\ step' = step + 1
    BY <1>1, UpAt, PlanAt DEF kernel_main, Now
  <2>2. unready' = {}
    BY <1>1, NeedsMet DEF kernel_main, Requires, KernelInv
  <2>3. \A i \in 1..22 : Plan[i] \in up' <=> i < step'
    BY <1>1, <2>1, PlanInjective DEF kernel_main, Now, KernelInv
  <2>4. /\ step = 4 => idt_init
        /\ step = 7 => register_interrupt_handler(32)
        /\ step = 10 => register_interrupt_handler(14)
        /\ step = 14 => blkdev_init
        /\ step = 15 => fs_init
        /\ step = 16 => register_interrupt_handler(33)
        /\ step = 19 => syscall_init
        /\ step \notin {4, 7, 10, 14, 15, 16, 19} => UNCHANGED <<gates, handlers, blkdev, fs_dev>>
        /\ step # 20 => int_flag' = int_flag
        /\ step = 20 => int_flag' = TRUE
        /\ step # 21 => scheduler_on' = scheduler_on
        /\ step = 21 => scheduler_on' = TRUE
    BY <1>1, <2>1, PlanAt
       DEF kernel_main, Now, idt_init, register_interrupt_handler,
           blkdev_init, fs_init, syscall_init, TIMER_LINE, KEYBOARD_LINE, PF
  <2>5. gates' = IF step' <= 4 THEN {}
                 ELSE IF step' <= 19 THEN 0..47 ELSE (0..47) \union {128}
    BY <2>1, <2>4 DEF KernelInv, idt_init, register_interrupt_handler, blkdev_init,
                      fs_init, syscall_init, SYSCALL
  <2>6. /\ handlers' \subseteq {13, 14, 32, 33}
        /\ (step' > 10 => 14 \in handlers') /\ (step' > 19 => 13 \in handlers')
    <3>1. handlers' = handlers \union IF step = 7 THEN {32} ELSE IF step = 10 THEN {14} ELSE
                                      IF step = 16 THEN {33} ELSE IF step = 19 THEN {13} ELSE {}
      BY <2>1, <2>4 DEF idt_init, register_interrupt_handler, blkdev_init,
                        fs_init, syscall_init, GP
    <3> QED BY <2>1, <3>1 DEF KernelInv
  <2>7. alive' = alive /\ running' = running /\ halted' = halted
    BY <1>1 DEF kernel_main
  <2>8. int_flag' \/ scheduler_on' \/ alive' # {} => step' > 20
    BY <2>1, <2>4, <2>7 DEF KernelInv, BootTypeOK
  <2>9. step' \in DOMAIN Plan /\ up' \subseteq {Plan[i] : i \in DOMAIN Plan}
    BY <1>1, <2>1, PlanAt DEF kernel_main, Now, KernelInv, BootTypeOK
  <2>10. fs_dev' \in BOOLEAN /\ blkdev' \in {"ata", "ram", "none"}
    <3>1. (step # 14 => blkdev' = blkdev) /\ (step # 15 => fs_dev' = fs_dev)
      BY <2>1, <2>4 DEF idt_init, register_interrupt_handler, blkdev_init,
                        fs_init, syscall_init
    <3>2. blkdev' \in {"ata", "ram", "none"}
      BY <2>4, <3>1 DEF KernelInv, BootTypeOK, blkdev_init
    <3>3. CASE step = 15
      <4>1. fs_dev' = (blkdev # "none")
        BY <2>4, <3>3 DEF fs_init
      <4>2. (blkdev # "none") \in BOOLEAN
        OBVIOUS
      <4> QED BY <3>2, <4>1, <4>2
    <3> QED BY <3>1, <3>2, <3>3 DEF KernelInv, BootTypeOK
  <2>11. int_flag' \in BOOLEAN /\ scheduler_on' \in BOOLEAN
    <3>1. int_flag' \in {int_flag, TRUE} /\ scheduler_on' \in {scheduler_on, TRUE}
      BY Zenon, <2>4
    <3>2. int_flag \in BOOLEAN /\ scheduler_on \in BOOLEAN
      BY DEF KernelInv, BootTypeOK
    <3> QED BY <3>1, <3>2, Zenon
  <2>12. gates' \subseteq 0..255 /\ handlers' \subseteq 0..255
    BY <2>5, <2>6
  <2>13. BootTypeOK'
    BY <2>7, <2>9, <2>10, <2>11, <2>12 DEF KernelInv, BootTypeOK
  <2> QED BY <2>2, <2>3, <2>5, <2>6, <2>7, <2>8, <2>13 DEF KernelInv
\* The traps change nothing that kernel_main has set up.
<1> DEFINE Same == UNCHANGED <<step, up, gates, handlers, blkdev, fs_dev, scheduler_on>>
<1>2. ASSUME Same, unready' = {}, step > 20, alive' \subseteq UserTasks,
             running' \in alive' \union {NOBODY}, int_flag' \in BOOLEAN,
             halted' \in (Exceptions \ {13, 14}) \union {-1}
      PROVE  KernelInv'
  BY <1>2 DEF KernelInv, BootTypeOK
<1>3. ASSUME NEW q \in {TIMER_LINE, KEYBOARD_LINE, ATA_LINE}, irq_handler_runs(q)
      PROVE  KernelInv'
  <2>1. step > 20
    BY <1>3 DEF irq_handler_runs, KernelInv
  <2>2. unready' = {}
    BY <1>3, <2>1, NeedsMet DEF irq_handler_runs, Trap, Requires, KernelInv
  <2>3. alive \subseteq alive' /\ alive' \subseteq UserTasks
    BY <1>3 DEF irq_handler_runs, KernelInv, BootTypeOK
  <2>4. running' \in alive \union {NOBODY}
    BY <1>3 DEF irq_handler_runs, Others, KernelInv, BootTypeOK
  <2>5. Same /\ int_flag' = int_flag /\ halted' = halted
    BY Zenon, <1>3 DEF irq_handler_runs
  <2> QED BY <1>2, <2>1, <2>2, <2>3, <2>4, <2>5 DEF KernelInv, BootTypeOK
<1>4. ASSUME NEW t \in alive, syscall(t)
      PROVE  KernelInv'
  <2>1. step > 20
    BY DEF KernelInv
  <2>2. unready' = {}
    BY <1>4, <2>1, NeedsMet DEF syscall, Trap, SYSCALL, KernelInv
  <2>3. alive' \subseteq UserTasks /\ running' \in alive' \union {NOBODY}
    BY <1>4 DEF syscall, Others, KernelInv, BootTypeOK
  <2>4. Same /\ int_flag' = int_flag /\ halted' = halted
    BY Zenon, <1>4 DEF syscall
  <2> QED BY <1>2, <2>1, <2>2, <2>3, <2>4 DEF KernelInv, BootTypeOK
<1>5. ASSUME NEW t \in alive, NEW v \in Exceptions, isr_handler(t, v)
      PROVE  KernelInv'
  <2>1. step > 20 /\ v \in 0..31
    BY DEF KernelInv, KernelMainConstants
  <2>2. unready' = {}
    BY <1>5, <2>1, NeedsMet DEF isr_handler, Trap, KernelInv
  <2>3. alive' \subseteq UserTasks /\ running' \in alive' \union {NOBODY}
    BY <1>5 DEF isr_handler, task_killed, Others, KernelInv, BootTypeOK
  <2>4. Same /\ (int_flag' = int_flag \/ int_flag' = FALSE)
    BY <1>5 DEF isr_handler, task_killed
  <2>5. halted' \in (Exceptions \ {13, 14}) \union {-1}
    <3>1. CASE v \in handlers
      BY <1>5, <3>1 DEF isr_handler, task_killed
    <3>2. CASE v \notin handlers
      <4>1. v # 13 /\ v # 14
        BY <2>1, <3>2, UpAt DEF KernelInv
      <4> QED BY <1>5, <3>2, <4>1 DEF isr_handler
    <3> QED BY <3>1, <3>2
  <2> QED BY Zenon, <1>2, <2>1, <2>2, <2>3, <2>4, <2>5 DEF KernelInv, BootTypeOK
<1>6. CASE UNCHANGED kernel
  BY <1>6 DEF kernel, KernelInv, BootTypeOK
<1>7. CASE stopped
  BY <1>6, <1>7 DEF stopped, kernel
<1> QED BY <1>1, <1>3, <1>4, <1>5, <1>6, <1>7 DEF BootNext

\* A step leaves the machine running after #GP and #PF, by the invariant, and ends no
\* task but the one that runs.
LEMMA KernelFaults ==
  ASSUME KernelMainConstants, KernelInv, [BootNext]_kernel
  PROVE  [EndsOnlyItself]_kernel
<1> SUFFICES ASSUME BootNext PROVE EndsOnlyItself
  OBVIOUS
<1>1. halted' \notin {13, 14}
  BY KernelStep DEF KernelInv
<1>2. \A t \in alive \ alive' : t = running
  <2>1. CASE kernel_main
    BY <2>1 DEF kernel_main
  <2>2. ASSUME NEW q \in {TIMER_LINE, KEYBOARD_LINE, ATA_LINE}, irq_handler_runs(q)
        PROVE  alive \subseteq alive'
    BY <2>2 DEF irq_handler_runs
  <2>3. ASSUME NEW t \in alive, syscall(t)
        PROVE  \A u \in alive \ alive' : u = running
    BY <2>3 DEF syscall
  <2>4. ASSUME NEW t \in alive, NEW v \in Exceptions, isr_handler(t, v)
        PROVE  \A u \in alive \ alive' : u = running
    BY <2>4 DEF isr_handler, task_killed
  <2>5. CASE stopped
    BY <2>5 DEF stopped, kernel
  <2> QED BY <2>1, <2>2, <2>3, <2>4, <2>5 DEF BootNext
<1> QED BY <1>1, <1>2 DEF EndsOnlyItself, GP, PF
\* The order of kernel_main: no call, handler or trap of the boot uses a part that is not
\* initialised or a gate that is not present, for any user tasks and exceptions.
THEOREM BootOrderIsSafe ==
  ASSUME KernelMainConstants
  PROVE  BootSpec => []ReadyBeforeUse
<1>1. KernelInv => ReadyBeforeUse
  BY DEF KernelInv, ReadyBeforeUse
<1>2. KernelInv /\ [BootNext]_kernel => KernelInv'
  BY KernelStep
<1> QED BY <1>1, <1>2, KernelInit, PTL DEF BootSpec

\* isr_handler: a general protection or page fault of a program ends that program and
\* nothing else, because its handler is registered before the first program can run.
THEOREM FaultsEndTheirTaskOnly ==
  ASSUME KernelMainConstants
  PROVE  BootSpec => FaultsContained
<1>1. KernelInv /\ [BootNext]_kernel => KernelInv' /\ [EndsOnlyItself]_kernel
  BY KernelStep, KernelFaults
<1> QED BY <1>1, KernelInit, PTL DEF BootSpec, FaultsContained
------------------------------------------------------------------------------
Moved == Len(buf)

\* Sectors of the call that the drive has taken and is done with.
Settled == IF call.kind = "read" THEN 0 ELSE IF status = "commit" THEN Moved - 1 ELSE Moved

InStep ==
  /\ pc = "flush" <=> Moved = call.count
  /\ pc = "flush" => call.kind = "write"
  /\ pc = "transfer" => status = "drq"
  /\ status \in {"busy", "drq"} => left = call.count - Moved /\ pos = call.lba + Moved
                                   /\ pc # "flush"
  /\ status = "commit" => /\ call.kind = "write" /\ Moved >= 1
                          /\ left = call.count - Moved + 1 /\ pos = call.lba + Moved - 1
  /\ status = "ready" => pc = "flush"

BufferOK == buf \in Seq(Values)

\* DiskTypeOK, with the length of the buffer under its name.
DiskTypes ==
  /\ present \in BOOLEAN /\ media \in [Lbas -> Values]
  /\ status \in {"ready", "busy", "drq", "commit", "err"}
  /\ lba \in Lbas /\ pos \in Lbas /\ left \in 0..255
  /\ attached \in {"nothing", "packet", "disk"} /\ (present => attached = "disk")
  /\ pc \in {"identify", "wait", "idle", "select", "command", "poll", "transfer", "flush"}
  /\ call \in Calls /\ result \in {0, -1}
  /\ Moved \in Nat /\ Moved <= call.count

\* What the sectors hold and what has been read, in the terms of the call.
MediaExact ==
  \A l \in Lbas :
    media[l] = IF l \in call.lba .. call.lba + Settled - 1 /\ l \notin lost
                 THEN call.value ELSE before[l]

ReadExact == call.kind = "read" => \A k \in 1..Moved : buf[k] = before[call.lba + k - 1]

DiskInv ==
  /\ DiskTypes /\ BufferOK /\ before \in [Lbas -> Values]
  /\ MediaExact /\ ReadExact
  /\ lost # {} => status = "err"
  /\ ~present => pc \in {"identify", "wait", "idle"} /\ Moved = 0 /\ lost = {}
  /\ pc \in {"identify", "wait"} => ~present
  /\ pc \in {"identify", "idle", "select", "command"} => status \in {"ready", "err"}
  /\ pc = "wait" => status \in {"busy", "drq", "err"} /\ attached = "disk"
  /\ pc \in {"select", "command"} => Moved = 0 /\ lost = {}
  /\ pc = "command" => lba = call.lba
  /\ pc \in {"poll", "transfer", "flush"} => InStep
  /\ pc = "idle" /\ call.kind = "read" /\ result = 0 /\ present => Moved \in {0, call.count}

\* The calls stay on the drive.
LEMMA CallFacts ==
  ASSUME AtaConstants, NEW c \in Calls
  PROVE  /\ c.kind \in {"read", "write"} /\ c.lba \in Lbas /\ c.value \in Values
         /\ c.count \in 1..255 /\ c.lba + c.count <= SECTORS
BY Zenon DEF AtaConstants, Calls

\* The driver begins without a drive and with an empty buffer.
LEMMA DiskBegins ==
  ASSUME AtaConstants, DiskInit
  PROVE  DiskInv
<1>1. Moved = 0 /\ Settled = 0 /\ BufferOK
  BY DEF DiskInit, Moved, Settled, BufferOK
<1>2. SECTORS \in Nat \ {0} /\ 0 \in Lbas
  BY DEF AtaConstants, Lbas
<1>3. call \in Calls /\ call.count \in 1..255 /\ call.lba \in Nat
  BY CallFacts DEF DiskInit, Lbas
<1>4. DiskTypes
  BY <1>1, <1>2, <1>3 DEF DiskInit, DiskTypes
<1>5. MediaExact /\ ReadExact
  BY <1>1, <1>3 DEF DiskInit, MediaExact, ReadExact
<1> QED BY <1>1, <1>4, <1>5 DEF DiskInit, DiskInv

\* Every step of the driver and of the drive keeps DiskInv.
LEMMA DiskStep ==
  ASSUME AtaConstants, DiskInv, [DiskNext]_disk
  PROVE  DiskInv'
<1> USE DEF Lbas
<1>0. /\ call \in Calls /\ SECTORS \in Nat \ {0} /\ DiskTypes
      /\ call.kind \in {"read", "write"} /\ call.lba \in Nat /\ call.value \in Values
      /\ call.count \in 1..255 /\ call.lba + call.count <= SECTORS
      /\ Moved \in Nat /\ Moved <= call.count /\ pos \in Nat /\ left \in Nat
  BY CallFacts DEF DiskInv, DiskTypes, AtaConstants
<1>a. /\ SECTORS \in Nat \ {0} /\ call.lba \in Nat /\ call.count \in 1..255
      /\ call.lba + call.count <= SECTORS /\ Moved \in Nat /\ Moved <= call.count
      /\ lba \in 0 .. SECTORS - 1 /\ pos \in 0 .. SECTORS - 1 /\ left \in 0..255
  BY <1>0 DEF DiskTypes
\* A step that moves no data.
<1>1. ASSUME UNCHANGED <<call, buf, media, before, lost>>,
             status = "commit" <=> status' = "commit"
      PROVE  /\ MediaExact' /\ ReadExact' /\ BufferOK' /\ before' \in [Lbas -> Values]
             /\ Moved' = Moved
  BY <1>1 DEF DiskInv, BufferOK, MediaExact, ReadExact, Settled, Moved
<1>2. CASE ata_identify_drive
  <2>1. /\ pc = "identify" /\ UNCHANGED <<call, buf, media, before, lost>>
        /\ UNCHANGED <<attached, present, lba, pos, left, result>>
        /\ IF attached = "disk" THEN status' = "busy" /\ pc' = "wait"
                                ELSE pc' = "idle" /\ status' = status
    BY <1>2 DEF ata_identify_drive
  <2>2. /\ MediaExact' /\ ReadExact' /\ BufferOK' /\ before' \in [Lbas -> Values]
        /\ Moved' = Moved
    BY <1>1, <2>1 DEF DiskInv
  <2>3. DiskTypes'
    BY <1>0, <2>1, <2>2 DEF DiskTypes
  <2> QED BY <2>1, <2>2, <2>3 DEF DiskInv
<1>3. CASE identify_wait
  <2>1. /\ pc = "wait" /\ status \in {"drq", "err"} /\ pc' = "idle"
        /\ UNCHANGED <<call, buf, media, before, lost, attached, lba, pos, left, result>>
        /\ present' \in BOOLEAN /\ status' \in {"ready", "err"} /\ attached = "disk"
        /\ (status' = "err" => status = "err")
    <3>1. present' = TRUE \/ present' = FALSE
      BY <1>3 DEF identify_wait
    <3>2. pc = "wait" /\ attached = "disk"
      BY <1>3 DEF identify_wait, DiskInv
    <3> QED BY <1>3, <3>1, <3>2 DEF identify_wait
  <2>2. /\ MediaExact' /\ ReadExact' /\ BufferOK' /\ before' \in [Lbas -> Values]
        /\ Moved' = Moved
    BY <1>1, <2>1 DEF DiskInv
  <2>3. DiskTypes'
    BY <1>0, <2>1, <2>2 DEF DiskTypes
  <2> QED BY <2>1, <2>2, <2>3 DEF DiskInv
<1>4. ASSUME NEW c \in Calls, start(c) PROVE DiskInv'
  <2>1. /\ pc = "idle" /\ call' = c /\ before' = media /\ lost' = {}
        /\ UNCHANGED <<present, attached, media, status, lba, pos, left>>
        /\ IF present THEN pc' = "select" /\ result' = result ELSE pc' = "idle" /\ result' = -1
    BY <1>4 DEF start, device
  <2>2. Moved' = 0 /\ BufferOK'
    BY <1>4 DEF start, Moved, BufferOK
  <2>3. c.count \in 1..255 /\ c.lba \in Nat /\ c.kind \in {"read", "write"}
    BY <1>4, CallFacts
  <2>4. DiskTypes'
    <3>1. lba' \in Lbas /\ pos' \in Lbas /\ left' \in 0..255 /\ Moved' \in Nat /\ Moved' <= call'.count
      BY <1>a, <2>1, <2>2, <2>3
    <3> QED BY <1>0, <2>1, <3>1 DEF DiskTypes
  <2>5. MediaExact' /\ ReadExact' /\ before' \in [Lbas -> Values]
    <3>1. Settled' = 0
      BY <2>1, <2>2 DEF Settled, DiskInv
    <3> QED BY <1>0, <2>1, <2>2, <2>3, <3>1 DEF MediaExact, ReadExact, DiskTypes
  <2> QED BY <2>1, <2>2, <2>4, <2>5 DEF DiskInv
<1>5. CASE select
  <2>1. /\ pc = "select" /\ lba' = call.lba /\ pc' = "command"
        /\ UNCHANGED <<call, buf, media, before, lost, attached, present, status, pos, left, result>>
    BY <1>5 DEF select
  <2>2. /\ MediaExact' /\ ReadExact' /\ BufferOK' /\ before' \in [Lbas -> Values]
        /\ Moved' = Moved
    BY Zenon, <1>1, <2>1 DEF DiskInv
  <2>3. DiskTypes'
    <3>a. /\ lba' = call.lba /\ pos' = pos /\ left' = left /\ Moved' = Moved
          /\ call' = call
      BY <2>1, <2>2
    <3>1. lba' \in Lbas /\ pos' \in Lbas /\ left' \in 0..255 /\ Moved' \in Nat /\ Moved' <= call'.count
      BY <1>a, <3>a
    <3> QED BY <1>0, <2>1, <3>1 DEF DiskTypes
  <2> QED BY <2>1, <2>2, <2>3 DEF DiskInv
<1>6. CASE command
  <2>1. /\ pc = "command" /\ status' = "busy" /\ pos' = lba /\ left' = call.count /\ pc' = "poll"
        /\ UNCHANGED <<call, buf, media, before, lost, attached, present, lba, result>>
    BY <1>6 DEF command
  <2>2. lba = call.lba /\ Moved = 0 /\ status \in {"ready", "err"} /\ lost = {}
    BY <2>1 DEF DiskInv
  <2>3. /\ MediaExact' /\ ReadExact' /\ BufferOK' /\ before' \in [Lbas -> Values]
        /\ Moved' = Moved
    BY <1>1, <2>1, <2>2
  <2>4. DiskTypes' /\ InStep'
    <3>1. lba' \in Lbas /\ pos' \in Lbas /\ left' \in 0..255 /\ Moved' \in Nat /\ Moved' <= call'.count
      BY <1>a, <2>1, <2>2, <2>3
    <3>2. DiskTypes'
      BY <1>0, <2>1, <3>1 DEF DiskTypes
    <3>3. /\ Moved' = 0 /\ status' = "busy" /\ pc' = "poll" /\ call' = call
          /\ left' = call.count /\ pos' = call.lba
      BY <2>1, <2>2, <2>3
    <3>4. call.count # 0 /\ call.count = call.count - 0 /\ call.lba = call.lba + 0
      BY <1>a
    <3>5. InStep'
      BY Zenon, <3>3, <3>4 DEF InStep
    <3> QED BY Zenon, <3>2, <3>5
  <2> QED BY <2>1, <2>2, <2>3, <2>4 DEF DiskInv
<1>7. CASE ata_poll
  <2>1. /\ pc = "poll"
        /\ \/ status = "drq" /\ pc' = "transfer" /\ result' = result
           \/ status = "err" /\ pc' = "idle" /\ result' = -1
        /\ UNCHANGED <<call, buf, media, before, lost, attached, present, status, lba, pos, left>>
    BY <1>7 DEF ata_poll, return, device
  <2>2. /\ MediaExact' /\ ReadExact' /\ BufferOK' /\ before' \in [Lbas -> Values]
        /\ Moved' = Moved
    BY Zenon, <1>1, <2>1
  <2>3. DiskTypes'
    BY Zenon, <1>0, <2>1, <2>2 DEF DiskTypes
  <2>4. pc' = "transfer" => InStep'
    BY Zenon, <2>1, <2>2 DEF DiskInv, InStep
  <2> QED BY <2>1, <2>2, <2>3, <2>4 DEF DiskInv
<1>8. CASE read_sector
  <2>1. /\ pc = "transfer" /\ call.kind = "read" /\ left' = left - 1
        /\ UNCHANGED <<attached, present, media, lba, call, before, lost>>
        /\ IF left = 1 THEN status' = "ready" /\ pos' = pos ELSE status' = "busy" /\ pos' = pos + 1
        /\ IF Moved + 1 = call.count THEN pc' = "idle" /\ result' = 0
                                     ELSE pc' = "poll" /\ result' = result
    BY <1>8 DEF read_sector, return, Moved
  <2>2. status = "drq" /\ lost = {} /\ present /\ Moved # call.count
        /\ pos = call.lba + Moved /\ left = call.count - Moved
    BY Zenon, <2>1 DEF DiskInv, InStep
  <2>3. pos \in Lbas /\ media[pos] \in Values /\ media[pos] = before[pos]
    <3>1. pos \in Lbas /\ media[pos] \in Values
      BY <1>0 DEF DiskTypes
    <3>2. Settled = 0 /\ pos \notin call.lba .. call.lba + 0 - 1
      BY <1>0, <2>1 DEF Settled
    <3> QED BY <3>1, <3>2 DEF DiskInv, MediaExact
  <2>4. /\ BufferOK' /\ Moved' = Moved + 1
        /\ buf'[Moved + 1] = media[pos] /\ \A k \in 1..Moved : buf'[k] = buf[k]
    BY <1>8, <2>3 DEF read_sector, DiskInv, BufferOK, Moved
  <2>5. MediaExact' /\ before' \in [Lbas -> Values]
    BY <2>1 DEF DiskInv, MediaExact, Settled
  <2>6. ReadExact'
    <3> SUFFICES ASSUME NEW k \in 1 .. Moved + 1 PROVE buf'[k] = before[call.lba + k - 1]
      BY Zenon, <2>1, <2>4 DEF ReadExact
    <3>1. CASE k = Moved + 1
      <4>1. call.lba + k - 1 = pos
        BY <1>0, <2>2, <3>1
      <4> QED BY <2>3, <2>4, <3>1, <4>1
    <3>2. CASE k # Moved + 1
      <4>1. k \in 1..Moved
        BY <1>0, <3>2
      <4> QED BY <2>1, <2>4, <4>1 DEF DiskInv, ReadExact
    <3> QED BY Zenon, <3>1, <3>2
  <2>7. left = 1 <=> Moved + 1 = call.count
    BY <1>0, <2>2
  <2>8. DiskTypes'
    <3>a. /\ lba' = lba /\ pos' \in {pos, pos + 1} /\ left' = left - 1 /\ call' = call
          /\ Moved' = Moved + 1 /\ (left = 1 => pos' = pos)
          /\ pos = call.lba + Moved /\ left = call.count - Moved /\ Moved # call.count
      BY <2>1, <2>2, <2>4
    <3>b. pos + 1 \in 0 .. SECTORS - 1 \/ left = 1
      <4>1. \A S, l, c, m \in Nat : l + c <= S /\ m <= c /\ m # c =>
              l + m + 1 \in 0 .. S - 1 \/ c - m = 1
        OBVIOUS
      <4>2. SECTORS \in Nat /\ call.lba \in Nat /\ call.count \in Nat /\ Moved \in Nat
        BY <1>a
      <4>3. call.lba + Moved + 1 \in 0 .. SECTORS - 1 \/ call.count - Moved = 1
        BY <1>a, <3>a, <4>1, <4>2
      <4> QED BY <3>a, <4>3
    <3>c. left - 1 \in 0..255 /\ Moved + 1 \in Nat /\ Moved + 1 <= call.count
      BY <1>a, <3>a
    <3>d. pos' \in 0 .. SECTORS - 1
      BY <1>a, <3>a, <3>b
    <3>1. lba' \in Lbas /\ pos' \in Lbas /\ left' \in 0..255 /\ Moved' \in Nat /\ Moved' <= call'.count
      BY Zenon, <1>a, <3>a, <3>c, <3>d
    <3> QED BY Zenon, <1>0, <2>1, <3>1 DEF DiskTypes
  <2>9. pc' = "poll" => InStep'
    BY <1>0, <2>1, <2>2, <2>4, <2>7 DEF InStep
  <2>10. pc' = "idle" => status' = "ready" /\ Moved' = call.count
    BY Zenon, <1>0, <2>1, <2>4, <2>7
  <2> QED BY <2>1, <2>2, <2>4, <2>5, <2>6, <2>8, <2>9, <2>10 DEF DiskInv
<1>9. CASE write_sector
  <2>1. /\ pc = "transfer" /\ call.kind = "write" /\ status' = "commit"
        /\ pc' = IF Moved + 1 = call.count THEN "flush" ELSE "poll"
        /\ UNCHANGED <<attached, present, media, lba, pos, left, call, result, before, lost>>
    BY <1>9 DEF write_sector, Moved
  <2>2. status = "drq" /\ lost = {} /\ present /\ Moved # call.count
        /\ pos = call.lba + Moved /\ left = call.count - Moved
    BY <2>1 DEF DiskInv, InStep
  <2>3. BufferOK' /\ Moved' = Moved + 1
    BY <1>0, <1>9 DEF write_sector, DiskInv, BufferOK, Moved
  <2>4. MediaExact' /\ ReadExact' /\ before' \in [Lbas -> Values]
    <3>1. Settled' = Settled
      BY <1>0, <2>1, <2>2, <2>3 DEF Settled
    <3> QED BY <2>1, <3>1 DEF DiskInv, MediaExact, ReadExact
  <2>5. DiskTypes' /\ InStep'
    <3>1. lba' \in Lbas /\ pos' \in Lbas /\ left' \in 0..255 /\ Moved' \in Nat /\ Moved' <= call'.count
      BY <1>a, <2>1, <2>2, <2>3
    <3>2. DiskTypes'
      BY <1>0, <2>1, <3>1 DEF DiskTypes
    <3>3. InStep'
      BY <1>a, <2>1, <2>2, <2>3 DEF InStep
    <3> QED BY <3>2, <3>3
  <2> QED BY <2>1, <2>2, <2>3, <2>4, <2>5 DEF DiskInv
<1>10. CASE flush_cache
  <2>1. /\ pc = "flush" /\ status \notin {"busy", "commit"} /\ pc' = "idle" /\ result' = 0
        /\ UNCHANGED <<call, buf, media, before, lost, attached, present, status, lba, pos, left>>
    BY Zenon, <1>10 DEF flush_cache, Busy, return, device
  <2>2. status \in {"ready", "err"} /\ call.kind = "write" /\ present
    BY <1>0, <2>1 DEF DiskInv, InStep, DiskTypes
  <2>3. /\ MediaExact' /\ ReadExact' /\ BufferOK' /\ before' \in [Lbas -> Values]
        /\ Moved' = Moved
    BY Zenon, <1>1, <2>1
  <2>4. DiskTypes'
    BY Zenon, <1>0, <2>1, <2>3 DEF DiskTypes
  <2> QED BY <2>1, <2>2, <2>3, <2>4 DEF DiskInv
\* The drive moves only while a call or ata_identify_drive waits for it.
<1>11. CASE drive_prepare
  <2>1. /\ status = "busy" /\ status' \in {"drq", "err"}
        /\ UNCHANGED <<call, buf, media, before, lost, attached, present, lba, pos, left, pc, result>>
    BY <1>11 DEF drive_prepare, drive_drq, drive_err
  <2>2. /\ MediaExact' /\ ReadExact' /\ BufferOK' /\ before' \in [Lbas -> Values]
        /\ Moved' = Moved
    BY Zenon, <1>1, <2>1
  <2>3. DiskTypes'
    BY Zenon, <1>0, <2>1, <2>2 DEF DiskTypes
  <2>4. pc \in {"poll", "transfer", "flush"} => InStep'
    BY Zenon, <2>1, <2>2 DEF DiskInv, InStep
  <2>5. lost = {} /\ pc \in {"wait", "poll", "transfer", "flush"}
    BY <1>0, <2>1 DEF DiskInv, DiskTypes
  <2> QED BY <2>1, <2>2, <2>3, <2>4, <2>5 DEF DiskInv
<1>12. CASE drive_commit \/ drive_lose
  <2>1. status = "commit" /\ pc \in {"poll", "transfer", "flush"} /\ lost = {} /\ InStep
    BY <1>0, <1>12 DEF drive_commit, drive_lose, DiskInv, DiskTypes
  <2>2. /\ call.kind = "write" /\ Moved >= 1 /\ pc # "transfer"
        /\ left = call.count - Moved + 1 /\ pos = call.lba + Moved - 1
        /\ pc = "flush" <=> Moved = call.count
    BY Zenon, <2>1 DEF InStep
  <2>3. present /\ before \in [Lbas -> Values] /\ pos \in Lbas
    BY Zenon, <1>0, <2>1 DEF DiskInv, DiskTypes
  <2>4. /\ UNCHANGED <<attached, present, lba, pc, call, buf, result, before>>
        /\ status' # "commit"
    BY <1>12 DEF drive_commit, drive_lose
  <2>5. Moved' = Moved /\ BufferOK' /\ Settled' = Moved /\ Settled = Moved - 1 /\ ReadExact'
    BY <2>1, <2>2, <2>4 DEF DiskInv, Settled, Moved, BufferOK, ReadExact
  <2>6. ASSUME NEW l \in Lbas
        PROVE  l \in call.lba .. call.lba + Moved - 1 <=>
                 l \in call.lba .. call.lba + (Moved - 1) - 1 \/ l = pos
    BY <1>0, <2>2, <2>6
  <2>7. ASSUME NEW l \in Lbas
        PROVE  media[l] = IF l \in call.lba .. call.lba + (Moved - 1) - 1
                            THEN call.value ELSE before[l]
    BY <2>1, <2>5, <2>7 DEF DiskInv, MediaExact
  <2>8. pos \notin call.lba .. call.lba + (Moved - 1) - 1
    BY <1>0, <2>2
  <2>9. CASE drive_commit
    <3>1. /\ lost' = lost /\ left' = left - 1 /\ media' = [media EXCEPT ![pos] = call.value]
          /\ IF left = 1 THEN status' = "ready" /\ pos' = pos ELSE status' = "busy" /\ pos' = pos + 1
      BY <2>9 DEF drive_commit
    <3>2. left = 1 <=> Moved = call.count
      BY <1>0, <2>2
    <3>3. media' \in [Lbas -> Values]
      BY <1>0, <3>1 DEF DiskTypes
    <3>4. MediaExact'
      <4> SUFFICES ASSUME NEW l \in Lbas
                   PROVE  media'[l] = IF l \in call.lba .. call.lba + Moved - 1
                                        THEN call.value ELSE before[l]
        BY Zenon, <2>1, <2>4, <2>5, <3>1 DEF MediaExact
      <4> QED BY <1>0, <2>3, <2>6, <2>7, <3>1 DEF DiskTypes
    <3>5. DiskTypes'
      <4>1. lba' \in Lbas /\ pos' \in Lbas /\ left' \in 0..255 /\ Moved' \in Nat /\ Moved' <= call'.count
        <5> DEFINE n == Moved
                   c == call.count
                   b == call.lba
        <5>1. /\ n \in Nat /\ c \in Nat /\ b \in Nat /\ n <= c /\ SECTORS \in Nat /\ b + c <= SECTORS
              /\ lba \in Lbas /\ pos \in Lbas /\ left \in 0..255
          BY <1>a
        <5>2. left = c - n + 1 /\ pos = b + n - 1 /\ n >= 1
          BY <2>2
        <5>3. lba' = lba /\ Moved' = n /\ call'.count = c /\ left' = left - 1
          BY <2>4, <2>5, <3>1
        <5>4. pos' = IF left = 1 THEN pos ELSE pos + 1
          BY <3>1
        <5> HIDE DEF n, c, b
        <5>5. left' \in 0..255
          BY <5>1, <5>2, <5>3
        <5>6. pos' \in Lbas
          BY <5>1, <5>2, <5>4
        <5> QED BY <5>1, <5>3, <5>5, <5>6
      <4> QED BY <1>0, <2>4, <3>1, <3>3, <4>1 DEF DiskTypes
    <3>6. InStep'
      BY <1>0, <2>2, <2>4, <2>5, <3>1, <3>2 DEF InStep
    <3> QED BY <2>1, <2>2, <2>3, <2>4, <2>5, <3>1, <3>4, <3>5, <3>6 DEF DiskInv
  <2>10. CASE drive_lose
    <3>1. UNCHANGED <<media, pos, left>> /\ status' = "err" /\ lost' = {pos}
      BY Zenon, <2>1, <2>10 DEF drive_lose
    <3>2. DiskTypes'
      BY Zenon, <1>0, <2>4, <2>5, <3>1 DEF DiskTypes
    <3>3. InStep'
      BY Zenon, <2>1, <2>2, <2>4, <2>5, <3>1 DEF InStep
    <3>4. MediaExact'
      <4> SUFFICES ASSUME NEW l \in Lbas
                   PROVE  media[l] = IF l \in call.lba .. call.lba + Moved - 1 /\ l \notin {pos}
                                       THEN call.value ELSE before[l]
        BY Zenon, <2>4, <2>5, <3>1 DEF MediaExact
      <4> QED BY Zenon, <2>6, <2>7, <2>8
    <3> QED BY <2>1, <2>2, <2>3, <2>4, <2>5, <3>1, <3>2, <3>3, <3>4 DEF DiskInv
  <2> QED BY Zenon, <1>12, <2>9, <2>10
<1>13. CASE UNCHANGED disk
  <2>1. /\ MediaExact' /\ ReadExact' /\ BufferOK' /\ before' \in [Lbas -> Values]
        /\ Moved' = Moved
    BY Zenon, <1>1, <1>13 DEF disk, device
  <2>2. DiskTypes' /\ (InStep => InStep')
    BY Zenon, <1>0, <1>13, <2>1 DEF disk, device, DiskTypes, InStep
  <2> QED BY Zenon, <1>13, <2>1, <2>2 DEF disk, device, DiskInv
<1> QED BY <1>2, <1>3, <1>4, <1>5, <1>6, <1>7, <1>8, <1>9, <1>10, <1>11, <1>12, <1>13
        DEF DiskNext, Driver, Drive

\* The properties of the driver follow from the invariant.
LEMMA DiskExact ==
  ASSUME DiskInv
  PROVE  /\ DiskTypeOK /\ TransferOnRequest
         /\ ReadReturnsSectors /\ WriteChangesTaken
<1>1. DiskTypeOK
  BY DEF DiskInv, DiskTypes, Moved, DiskTypeOK
<1>2. TransferOnRequest
  BY DEF DiskInv, InStep, TransferOnRequest
<1>3. ReadReturnsSectors
  <2> SUFFICES ASSUME Finished, call.kind = "read", result = 0
               PROVE  buf = [k \in 1..call.count |-> before[call.lba + k - 1]]
    BY DEF ReadReturnsSectors
  <2>1. buf = [k \in 1..Len(buf) |-> buf[k]] /\ (Len(buf) = 0 => buf = <<>>)
    BY DEF DiskInv, BufferOK
  <2>2. Len(buf) = call.count
    BY Zenon, <2>1 DEF DiskInv, Moved, Finished
  <2>3. \A k \in 1..Len(buf) : buf[k] = before[call.lba + k - 1]
    BY DEF DiskInv, ReadExact, Moved
  <2> QED BY <2>1, <2>2, <2>3
<1>4. WriteChangesTaken
  <2> SUFFICES ASSUME pc = "idle", call.kind = "write"
               PROVE  Settled = Len(buf)
    BY DEF WriteChangesTaken, DiskInv, MediaExact
  <2> QED BY Zenon DEF DiskInv, Settled, Moved
<1> QED BY <1>1, <1>2, <1>3, <1>4

\* ata_read_sectors and ata_write_sectors, for any drive size, counts and contents: data
\* moves only on request, a read that returns 0 has the call's sectors in order, and a
\* write changes exactly the sectors whose data the drive took and kept.
THEOREM SectorsMoveExactly ==
  ASSUME AtaConstants
  PROVE  DiskSpec => []SectorsExact
<1>1. DiskInv => SectorsExact
  BY DiskExact DEF SectorsExact
<1>2. DiskInv /\ [DiskNext]_disk => DiskInv'
  BY DiskStep
<1>3. DiskInit => DiskInv
  BY DiskBegins
<1> QED BY <1>1, <1>2, <1>3, PTL DEF DiskSpec
------------------------------------------------------------------------------
\* A sequence is empty or has elements.
LEMMA EmptyIs ==
  ASSUME NEW S, NEW s \in Seq(S)
  PROVE  Len(s) \in Nat /\ (Len(s) = 0 <=> s = <<>>)
OBVIOUS

\* The first elements of a sequence, or all of them.
LEMMA PrefixIs ==
  ASSUME NEW S, NEW s \in Seq(S), NEW n \in Nat, n <= Len(s)
  PROVE  /\ SubSeq(s, 1, n) \in Seq(S) /\ Len(SubSeq(s, 1, n)) = n
         /\ \A i \in 1..n : SubSeq(s, 1, n)[i] = s[i]
         /\ SubSeq(s, 1, Len(s)) = s
OBVIOUS

\* A sequence without its last element.
LEMMA FrontOf ==
  ASSUME NEW S, NEW l \in Seq(S), l # <<>>
  PROVE  LET n == Len(l) - 1
         IN  /\ n \in Nat /\ SubSeq(l, 1, n) \in Seq(S) /\ Len(SubSeq(l, 1, n)) = n
             /\ \A i \in 1..n : SubSeq(l, 1, n)[i] = l[i]
<1> DEFINE n == Len(l) - 1
<1>1. n \in Nat /\ n <= Len(l)
  BY EmptyIs
<1> HIDE DEF n
<1>2. /\ SubSeq(l, 1, n) \in Seq(S) /\ Len(SubSeq(l, 1, n)) = n
      /\ \A i \in 1..n : SubSeq(l, 1, n)[i] = l[i]
  BY <1>1, PrefixIs
<1> QED BY <1>1, <1>2 DEF n

\* A command that has not reached its end was executed from a line that is over:
\* nothing has been typed since, or a key has overtaken it.
LineInv ==
  /\ LineExact
  /\ held \subseteq ShiftKeys /\ typed \in Seq(Keys \X BOOLEAN) /\ {asTyped, overtaken} \subseteq BOOLEAN
  /\ ~overtaken /\ Unfinished => typed = <<>>

\* A character at the end of a line, while there is room for it and the terminator.
LEMMA Longer ==
  ASSUME NEW S, NEW l \in Seq(S), NEW c \in S
  PROVE  Add(l, c) \in Seq(S) /\ (Len(l) < SHELL_BUFFER_SIZE => Len(Add(l, c)) < SHELL_BUFFER_SIZE)
BY ShellConstants DEF Add

\* A line without its last character.
LEMMA Shorter ==
  ASSUME NEW S, NEW l \in Seq(S)
  PROVE  DropLast(l) \in Seq(S) /\ (Len(l) < SHELL_BUFFER_SIZE => Len(DropLast(l)) < SHELL_BUFFER_SIZE)
BY FrontOf, ShellConstants DEF DropLast

\* Every step of the editor keeps the invariant.
LEMMA LineStep == LineInv /\ [ShellNext]_editing => LineInv'
<1> SUFFICES ASSUME LineInv, [ShellNext]_editing PROVE LineInv'
  OBVIOUS
<1> USE DEF LineInv, LineExact, LineTypeOK, LinesIntact, NoStuckShift, Unfinished, keyboard, tasks, history
<1>1. ASSUME NEW k \in ShiftKeys, shift_press(k) \/ shift_release(k) PROVE LineInv'
  BY Zenon, <1>1 DEF shift_press, shift_release
<1>2. ASSUME NEW k \in Keys, shell_char(k) PROVE LineInv'
  BY Zenon, <1>2, Longer DEF shell_char, Overtakes
<1>3. CASE shell_backspace
  <2>1. DropLast(<<>>) = <<>>
    BY DEF DropLast
  <2> QED BY <1>3, <2>1, Shorter DEF shell_backspace, Overtakes
<1>4. CASE shell_enter
  BY <1>4, ShellConstants DEF shell_enter, Overtakes
<1>5. CASE shell_enter_spawn
  BY <1>5, ShellConstants DEF shell_enter_spawn, Overtakes
<1>6. CASE shell_enter_end
  BY <1>6, ShellConstants DEF shell_enter_end
<1>7. CASE timer_switch
  BY Zenon, <1>7 DEF timer_switch
<1>8. CASE task_exit
  BY Zenon, <1>8 DEF task_exit
<1>9. CASE UNCHANGED editing
  BY <1>9 DEF editing
<1> QED BY Zenon, <1>1, <1>2, <1>3, <1>4, <1>5, <1>6, <1>7, <1>8, <1>9 DEF ShellNext

THEOREM LinesStayIntact == ShellSpec => []LineExact
<1>1. ShellInit => LineInv
  <2> SUFFICES ASSUME ShellInit PROVE LineInv
    OBVIOUS
  <2>1. <<>> \in Seq(Keys \X BOOLEAN) /\ Len(<<>>) = 0 /\ 0 \in 0..MAX_NEST /\ 0 < SHELL_BUFFER_SIZE
    BY ShellConstants
  <2>2. LineTypeOK
    BY Zenon, <2>1, ShellConstants DEF ShellInit, LineTypeOK
  <2>3. ~Unfinished
    BY DEF ShellInit, Unfinished
  <2> QED BY Zenon, <2>1, <2>2, <2>3 DEF ShellInit, LineInv, LineExact, LinesIntact, NoStuckShift
<1>2. LineInv => LineExact
  BY DEF LineInv
<1> QED BY <1>1, <1>2, LineStep, PTL DEF ShellSpec
\* The screen (display.c).
===============================================================================
