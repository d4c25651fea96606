------------------------------ MODULE MCUserland ------------------------------
(***************************************************************************)
(* Programs: load_segments, the arguments on the stack, the formatting     *)
(* functions, and the way of what is printed to the serial line.  They     *)
(* share no state; a behaviour moves the one that "part" names.            *)
(*                                                                         *)
(* Programs have up to two headers: the first segment at every alignment   *)
(* and length of up to three pages, the second one fixed, two pages higher *)
(* or right behind.  There are up to four arguments of up to three         *)
(* characters: every alignment of the strings, and vectors on both sides   *)
(* of the limit.  Words have 8 bits when they are formatted (0, a digit,   *)
(* two digits, the least and the last negative number) and 3 when they are *)
(* addresses of buffers: in user space, across either end of it, and       *)
(* wrapping around.                                                        *)
(***************************************************************************)
EXTENDS Elf

CONSTANTS
  STACK_PAGE_SIZE, RESERVED, USER_STACK_TOP, ArgLengths,
  PRINTF_BUFSZ, KLOG_MSG_MAX_LEN, MAX_ITEMS, Words, Widths, Precisions, Sizes,
  Writers, USER_SPACE_START, USER_SPACE_END, CHUNK, FIFO_SIZE, Starts, Lengths, NulAt

VARIABLES part, argv, page, cursor, virt_addrs, pc, j, esp, fmt, task, fifo, wire

stack == <<argv, page, cursor, virt_addrs, pc, j, esp>>
output == <<task, fifo, wire>>

Args == INSTANCE ElfArgs WITH PAGE_SIZE <- STACK_PAGE_SIZE

Fmt == INSTANCE Format WITH WORD <- 256, Lengths <- {-1, 0, 2, 5}
Out == INSTANCE Output WITH WORD <- 8

ASSUME Args!ElfArgsConstants /\ Fmt!FormatConstants /\ Out!OutputConstants

Header(type, vaddr, memsz, filesz, offset, w) ==
  [p_type |-> type, p_vaddr |-> vaddr, p_memsz |-> memsz, p_filesz |-> filesz,
   p_offset |-> offset, writable |-> w]

First == {Header(t, v, m, f, o, FALSE) :
            t \in {"PT_LOAD", "PT_NOTE"}, v \in 3..7, m \in 0..9, f \in 0..6, o \in {0, 3}}

Second == {Header("PT_LOAD", 18, 5, 3, 2, TRUE), Header("PT_LOAD", 9, 3, 3, 1, TRUE)}

MCPrograms == {<<h>> : h \in First} \union {<<h, g>> : h \in First, g \in Second}
MCArgLengths == UNION {[1..n -> 0..3] : n \in 0..4}

\* Of a part that does not move, one initial state is enough.
MCInit ==
  /\ part \in {"segments", "args", "format", "output"}
  /\ part # "segments" => phdrs = <<CHOOSE h \in First : TRUE>>
  /\ part # "args" => argv = <<>>
  /\ Init /\ Args!Init /\ Fmt!Init /\ Out!Init

MCNext ==
  \/ part = "segments" /\ Next /\ UNCHANGED <<part, stack, fmt, output>>
  \/ part = "args" /\ Args!Next /\ UNCHANGED <<part, vars, fmt, output>>
  \/ part = "format" /\ Fmt!Next /\ UNCHANGED <<part, vars, stack, output>>
  \/ part = "output" /\ Out!Next /\ UNCHANGED <<part, vars, stack, fmt>>

MCSpec == MCInit /\ [][MCNext]_<<part, vars, stack, fmt, output>> /\ Out!Fairness
------------------------------------------------------------------------------
\* setup_user_stack_args writes inside the stack page, and _start finds argc, an
\* argv array ended by NULL, and each argument with its terminator, through the
\* addresses computed for it, whenever there are arguments and they fit.
ArgumentsReadable == part = "args" => Args!TypeOK /\ Args!ArgumentsReadable

\* "If no arguments were provided, argc=0 and argv points to just a NULL" (crt0.c).
\* It does not hold: see README.md.
NoArgumentsReadable == part = "args" => Args!NoArgumentsReadable

\* Numbers that vsnprintf formats read back as the argument, whatever the flags, the
\* width and the precision; the text is cut where the buffer ends, with a terminator, and
\* its length is returned; kprintf and klog agree with it on the conversions they share.
FormatExact ==
  part = "format" => /\ Fmt!TypeOK /\ Fmt!NumbersReadBack
                     /\ Fmt!TruncationExact /\ Fmt!FormattersAgree

\* However programs that print alternate, what SYS_WRITE has given to the transmitter and
\* what it still holds are the bytes of the buffer, in order, each once, and only bytes
\* of user space.
OutputExact == part = "output" => Out!TypeOK /\ Out!OutputExact

\* Every SYS_WRITE returns, with all of its bytes on the wire in the end.
WritesEnd == part = "output" => Out!WritesEnd
===============================================================================
