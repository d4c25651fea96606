------------------------------- MODULE BootLoad -------------------------------
(***************************************************************************)
(* The loaders of boot/: disk_load, with which the boot sector reads stage *)
(* 2, and load_kernel_stage2, which reads the kernel track by track and    *)
(* jumps to it.  Counters have the width the assembler gives them.  Memory *)
(* is what each 512-byte piece of it holds: the number of a disk sector.   *)
(***************************************************************************)
EXTENDS Integers

CONSTANTS
  SPT, HEADS,           \* sectors per track, heads (63, 16)
  BYTE, WORD,           \* values of a byte and of a word (2^8, 2^16)
  MAX_READ, CHUNK,      \* sectors per read: stage 2's limit, disk_load's (127, 18)
  PARAS,                \* paragraphs per sector (512 / 16)
  STAGE2_SEG, KERNEL_SEG, STACK_SEG,   \* 0x60, 0x100, 0x7000
  STAGE2_SECTORS        \* 4

FIRST == 1 + STAGE2_SECTORS     \* the kernel's first sector

\* disk_load compares signed bytes, and reads one track.  A track fits one read of
\* stage 2, and the largest kernel ends in the track where a byte ends.  Stage 2,
\* kernel and stack do not meet.
ASSUME BootLoadConstants ==
  /\ {SPT, HEADS, BYTE, WORD, MAX_READ, CHUNK, PARAS, STAGE2_SECTORS} \subseteq Nat \ {0}
  /\ 2 * STAGE2_SECTORS < BYTE /\ 1 + STAGE2_SECTORS <= SPT
  /\ SPT < BYTE /\ SPT <= MAX_READ
  /\ FIRST + BYTE - 1 <= ((BYTE - 1) \div SPT + 1) * SPT
  /\ {STAGE2_SEG, KERNEL_SEG, STACK_SEG} \subseteq Nat
  /\ STAGE2_SEG + PARAS * STAGE2_SECTORS <= KERNEL_SEG
  /\ KERNEL_SEG + PARAS * (BYTE - 1) <= STACK_SEG /\ STACK_SEG < WORD

UNKNOWN == -1

VARIABLES
  loader,               \* whose code runs, or "hang" after a disk error
  sectors,              \* the kernel's size
  sectors_remaining,    \* of the loader that runs
  sector,               \* disk_load's current_sector, stage 2's lba_sector
  seg,                  \* the paragraph the next read goes to
  memory

loading == <<loader, sectors, sectors_remaining, sector, seg, memory>>

LoadInit ==
  /\ loader = "boot_sector"
  /\ sectors \in 0 .. BYTE - 1     \* the byte that the makefile patches in
  /\ sectors_remaining = STAGE2_SECTORS
  /\ sector = 2 /\ seg = STAGE2_SEG
  /\ memory = [a \in {} |-> 0]
------------------------------------------------------------------------------
\* INT 13h, function 2 (the BIOS): n sectors of one track.  What a read past the
\* end of the track brings is not defined.
int13(c, h, s, n) ==
  LET first == (c * HEADS + h) * SPT + s - 1
      to == {seg + PARAS * i : i \in 0 .. n - 1}
  IN memory' = [a \in DOMAIN memory \union to |->
                  IF a \notin to THEN memory[a]
                  ELSE LET i == (a - seg) \div PARAS
                       IN IF s + i <= SPT THEN first + i ELSE UNKNOWN]

\* The BIOS reports an error: a message, and jmp $.
disk_error ==
  /\ loader \in {"boot_sector", "stage_2"} /\ sectors_remaining # 0
  /\ loader' = "hang"
  /\ UNCHANGED <<sectors, sectors_remaining, sector, seg, memory>>

Advance(n) ==
  /\ sectors_remaining' = (sectors_remaining - n) % BYTE
  /\ sector' = (sector + n) % BYTE
  /\ seg' = (seg + n * PARAS) % WORD
  /\ UNCHANGED <<loader, sectors>>

Lesser(a, b) == IF a <= b THEN a ELSE b

\* disk_load: cylinder 0, head 0, from sector 2 on.
disk_load ==
  /\ loader = "boot_sector"
  /\ \/ /\ sectors_remaining # 0
        /\ LET n == Lesser(sectors_remaining, CHUNK) IN
           int13(0, 0, sector, n) /\ Advance(n)
     \/ /\ sectors_remaining = 0         \* load_stage2 returns, jmp 0x0000:0x0600
        /\ loader' = "stage_2"
        /\ sectors_remaining' = sectors /\ sector' = FIRST /\ seg' = KERNEL_SEG
        /\ UNCHANGED <<sectors, memory>>

\* Mutant of SectorsLeft: a track has one sector more.
OneTooMany(s) == SPT + 2 - s

\* Mutant of SectorsLeft: a track has one sector less.
OneTooFew(s) == SPT - s

\* The sectors from s to the end of its track.
SectorsLeft(s) == SPT + 1 - s

\* load_kernel_stage2: as much of the current track as the kernel needs.
load_kernel_stage2 ==
  LET s == (sector % SPT) + 1
      track == sector \div SPT
      n == Lesser(Lesser(SectorsLeft(s), sectors_remaining), MAX_READ)
  IN
  /\ loader = "stage_2"
  /\ \/ /\ sectors_remaining # 0
        /\ int13(track \div HEADS, track % HEADS, s, n) /\ Advance(n)
     \/ /\ sectors_remaining = 0         \* switch_to_pm_stage2, jmp eax
        /\ loader' = "kernel"
        /\ UNCHANGED <<sectors, sectors_remaining, sector, seg, memory>>

\* jmp $ after an error, or the kernel runs.
loaders_over == loader \in {"hang", "kernel"} /\ UNCHANGED loading

LoadNext == disk_load \/ load_kernel_stage2 \/ disk_error \/ loaders_over

\* The processor executes the loaders; nothing else runs.  No error has to come.
Loaders == disk_load \/ load_kernel_stage2

LoadFairness == WF_loading(Loaders)

LoadSpec == LoadInit /\ [][LoadNext]_loading /\ LoadFairness
------------------------------------------------------------------------------
LoadTypeOK ==
  /\ loader \in {"boot_sector", "stage_2", "kernel", "hang"}
  /\ {sectors, sectors_remaining, sector} \subseteq 0 .. BYTE - 1
  /\ seg \in 0 .. WORD - 1

\* When stage 2 jumps to the kernel every sector of it is in memory, in order
\* and without a gap, for every size the makefile can patch in, although the
\* sector counter is a byte; and stage 2 itself and its stack were not written over.
Placed ==
  loader = "kernel" =>
    /\ \A k \in 0 .. sectors - 1 : memory[KERNEL_SEG + PARAS * k] = FIRST + k
    /\ \A k \in 0 .. STAGE2_SECTORS - 1 : memory[STAGE2_SEG + PARAS * k] = 1 + k
    /\ \A a \in DOMAIN memory : a + PARAS <= STACK_SEG

\* The loaders bring every kernel to its place, and the machine to the kernel with
\* stage 2 and its stack as they were.
KernelInPlace == LoadTypeOK /\ Placed

\* The loops end: in the kernel, or hanging after a disk error.
LoadersEnd == <>(loader \in {"kernel", "hang"})
===============================================================================
