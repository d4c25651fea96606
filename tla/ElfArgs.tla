------------------------------- MODULE ElfArgs -------------------------------
(***************************************************************************)
(* setup_user_stack_args (kernel/exec/elf.c) writes argc and argv onto the *)
(* stack page of a new program, through the page's physical address and    *)
(* with the virtual addresses the program will see; _start (libc/crt0.c)   *)
(* reads them back.                                                        *)
(*                                                                         *)
(* A byte of the page is a character <<i, k>> of argument i (its last one  *)
(* the terminator), one of the four bytes of a word, or zero.              *)
(***************************************************************************)
EXTENDS Integers, SequencesExt

CONSTANTS
  PAGE_SIZE,        \* 4096
  RESERVED,         \* bytes kept for stack frames (256)
  USER_STACK_TOP,   \* virtual end of the stack page
  ArgLengths        \* sequences of argument lengths, terminator not counted

ElfArgsConstants ==
  /\ PAGE_SIZE \in Nat \ {0} /\ RESERVED \in 0..PAGE_SIZE
  /\ PAGE_SIZE % 4 = 0 /\ USER_STACK_TOP % 4 = 0 /\ USER_STACK_TOP >= PAGE_SIZE

ARGV_MAX_TOTAL == PAGE_SIZE - RESERVED

Char(j, k) == [kind |-> "char", arg |-> j, index |-> k]
WordByte(v, k) == [kind |-> "word", value |-> v, index |-> k]
Zero == [kind |-> "zero"]

VARIABLES
  argv,          \* the lengths of the arguments
  page,          \* the bytes of the stack page
  cursor,        \* str_cursor, then slot, as an offset into the page
  virt_addrs,    \* virtual addresses of the strings
  pc, j,         \* the step, and the loop variable
  esp            \* the stack pointer the program starts with

vars == <<argv, page, cursor, virt_addrs, pc, j, esp>>

argc == Len(argv)

Init ==
  /\ argv \in ArgLengths
  /\ page = [a \in 0 .. PAGE_SIZE - 1 |-> Zero]
  /\ cursor = PAGE_SIZE
  /\ virt_addrs = <<>>
  /\ pc = "check" /\ j = argc /\ esp = 0
------------------------------------------------------------------------------
\* USER_STACK_TOP - (page_top - p)
Virtual(offset) == USER_STACK_TOP - (PAGE_SIZE - offset)

\* Strings with their terminators, argc + 1 pointers, argv and argc.
TooLarge ==
  FoldLeft(LAMBDA sum, n : sum + n + 1, 0, argv) + (argc + 1 + 1 + 1) * 4 > ARGV_MAX_TOTAL

\* Without arguments, or with too many, nothing is written.
check ==
  /\ pc = "check"
  /\ IF argc = 0 \/ TooLarge
       THEN pc' = "done" /\ esp' = USER_STACK_TOP
       ELSE pc' = "strings" /\ UNCHANGED esp
  /\ UNCHANGED <<argv, page, cursor, virt_addrs, j>>

\* One string, the last one first.
copy_string ==
  /\ pc = "strings" /\ j > 0
  /\ LET at == cursor - (argv[j] + 1) IN
     /\ page' = [a \in DOMAIN page |->
                   IF a \in at .. cursor - 1 THEN Char(j, a - at) ELSE page[a]]
     /\ cursor' = at
     /\ virt_addrs' = <<Virtual(at)>> \o virt_addrs
  /\ j' = j - 1
  /\ UNCHANGED <<argv, pc, esp>>

\* *(--slot) = value
Push(value) ==
  /\ cursor' = cursor - 4
  /\ page' = [a \in DOMAIN page |->
                IF a \in cursor - 4 .. cursor - 1 THEN WordByte(value, a - (cursor - 4)) ELSE page[a]]

align ==
  /\ pc = "strings" /\ j = 0
  /\ cursor' = cursor - (cursor % 4)
  /\ pc' = "sentinel"
  /\ UNCHANGED <<argv, page, virt_addrs, j, esp>>

push_sentinel ==
  /\ pc = "sentinel"
  /\ Push(0)
  /\ pc' = "pointers" /\ j' = argc
  /\ UNCHANGED <<argv, virt_addrs, esp>>

push_pointer ==
  /\ pc = "pointers" /\ j > 0
  /\ Push(virt_addrs[j])
  /\ j' = j - 1
  /\ UNCHANGED <<argv, virt_addrs, pc, esp>>

\* Mutant of push_argv: the pointer is to its own slot.
PointsToItself ==
  /\ pc = "pointers" /\ j = 0
  /\ Push(Virtual(cursor - 4))
  /\ pc' = "argc"
  /\ UNCHANGED <<argv, virt_addrs, j, esp>>

push_argv ==
  /\ pc = "pointers" /\ j = 0
  /\ Push(Virtual(cursor))
  /\ pc' = "argc"
  /\ UNCHANGED <<argv, virt_addrs, j, esp>>

push_argc ==
  /\ pc = "argc"
  /\ Push(argc)
  /\ esp' = Virtual(cursor')
  /\ pc' = "done"
  /\ UNCHANGED <<argv, virt_addrs, j>>

Next ==
  \/ check \/ copy_string \/ align \/ push_sentinel
  \/ push_pointer \/ push_argv \/ push_argc

Spec == Init /\ [][Next]_vars
------------------------------------------------------------------------------
\* The cursor stays in the page and leaves the reserved bytes, and up to three
\* lost by the alignment, for the program's frames; the stack pointer is a
\* multiple of four.
TypeOK ==
  /\ cursor \in 0..PAGE_SIZE /\ cursor >= RESERVED - 3
  /\ esp % 4 = 0

\* What the program reads at a virtual address: a word, or FAULT outside the
\* page and BAD where no whole word was stored.
FAULT == -1
BAD == -2

Load(addr) ==
  LET o == addr - Virtual(0) IN
  IF o < 0 \/ o + 3 >= PAGE_SIZE THEN FAULT
  ELSE IF page[o].kind # "word" THEN IF \A k \in 0..3 : page[o + k] = Zero THEN 0 ELSE BAD
  ELSE IF \A k \in 0..3 : page[o + k] = WordByte(page[o].value, k)
         THEN page[o].value ELSE BAD

\* The whole of argument k is at addr, its terminator included.
StringAt(addr, k) ==
  \A n \in 0..argv[k] : LET o == addr - Virtual(0) + n IN
                         o \in DOMAIN page /\ page[o] = Char(k, n)

\* A program whose arguments fit finds argc at ESP, argv at ESP + 4, in argv the
\* addresses of all its arguments, in order and whole, and a null pointer behind.
ArgumentsReadable ==
  pc = "done" /\ esp # USER_STACK_TOP =>
    /\ Load(esp) = argc
    /\ LET table == Load(esp + 4) IN
       /\ \A k \in 1..argc : StringAt(Load(table + 4 * (k - 1)), k)
       /\ Load(table + 4 * argc) = 0

\* "If no arguments were provided, argc=0 and argv points to just a NULL"
\* (crt0.c): _start loads both words from the stack in any case.
NoArgumentsReadable ==
  pc = "done" /\ argc = 0 => Load(esp) = 0 /\ Load(Load(esp + 4)) = 0
===============================================================================
