------------------------------ MODULE MCMachine ------------------------------
(***************************************************************************)
(* The machine from power-on: the loaders, kernel_main with the traps that *)
(* reach it, the interrupt controllers with handlers that switch tasks,    *)
(* SYS_SLEEP with a tick counter that wraps, and the ATA driver with its   *)
(* drive.  They share no state; a behaviour moves the one that "part"      *)
(* names.  The loaders have the constants of the code.                     *)
(***************************************************************************)
EXTENDS Interrupts, Sleep, Ata, BootLoad, KernelMain

VARIABLE part

machine == <<part, vars, clock, disk, loading, kernel>>

ASSUME MachineConstants == AtaConstants /\ KernelMainConstants

\* Of a part that does not move, one initial state is enough.
MCInit ==
  /\ part \in {"interrupts", "clock", "disk", "loaders", "kernel"}
  /\ part # "clock" => timer_ticks = 0
  /\ part # "disk" => attached = "nothing" /\ media = [l \in Lbas |-> CHOOSE v \in Values : TRUE]
                      /\ call = CHOOSE c \in Calls : TRUE
  /\ part # "loaders" => sectors = 0
  /\ Init /\ ClockInit /\ DiskInit /\ LoadInit /\ BootInit

MCNext ==
  \/ part = "interrupts" /\ Next /\ UNCHANGED <<part, clock, disk, loading, kernel>>
  \/ part = "clock" /\ ClockNext /\ UNCHANGED <<part, vars, disk, loading, kernel>>
  \/ part = "disk" /\ DiskNext /\ UNCHANGED <<part, vars, clock, loading, kernel>>
  \/ part = "loaders" /\ LoadNext /\ UNCHANGED <<part, vars, clock, disk, kernel>>
  \/ part = "kernel" /\ BootNext /\ UNCHANGED <<part, vars, clock, disk, loading>>

\* The fairness of each part, for the part that moves.
MCFairness ==
  /\ Fairness
  /\ WF_disk(part = "disk" /\ Driver) /\ WF_disk(part = "disk" /\ Drive)
  /\ WF_loading(part = "loaders" /\ Loaders)
  /\ WF_kernel(part = "kernel" /\ kernel_main)
  /\ SF_kernel(part = "kernel" /\ irq_handler_runs(TIMER_LINE) /\ running' = NOBODY)

MCSpec == MCInit /\ [][MCNext]_machine /\ MCFairness
------------------------------------------------------------------------------
\* Every call of the ATA driver, ata_identify_drive included, returns.
CallReturns == part = "disk" => Returns

\* The machine comes up: the loops of the loaders end in the kernel, or hanging after
\* a disk error, and kernel_main reaches its idle loop unless a program's exception
\* without a handler stops the machine first.
BootEnds == (part = "loaders" => LoadersEnd) /\ (part = "kernel" => BootCompletes)
===============================================================================
