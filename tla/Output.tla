-------------------------------- MODULE Output --------------------------------
(***************************************************************************)
(* What programs print: the system call dispatcher and SYS_WRITE           *)
(* (kernel/arch/syscall.c), kprint's copy of every character to the serial *)
(* port (drivers/screen.c, drivers/serial.c), and the transmitter behind   *)
(* it.                                                                     *)
(*                                                                         *)
(* INT 0x80 is a trap gate: interrupts stay on, and a task can lose the    *)
(* CPU to another writer between any two steps, also between finding the   *)
(* transmitter empty and giving it the character.  A byte of a program is  *)
(* its task and its address; the screen is the subject of Screen.tla.      *)
(***************************************************************************)
EXTENDS Integers, FiniteSets, SequencesExt

CONSTANTS
  Writers,                            \* the tasks that print
  WORD,                               \* 2^32
  USER_SPACE_START, USER_SPACE_END,
  CHUNK,                              \* bytes copied to kbuf at a time (128)
  FIFO_SIZE,                          \* characters the transmitter holds (16)
  NulAt,                              \* addresses that hold a NUL
  Starts, Lengths                     \* the buffers programs name

OutputConstants ==
  /\ {WORD, CHUNK, FIFO_SIZE} \subseteq Nat \ {0}
  /\ USER_SPACE_START \in 0 .. USER_SPACE_END /\ USER_SPACE_END < WORD
  /\ Starts \union Lengths \subseteq 0 .. WORD - 1
  /\ Cardinality(Writers) <= FIFO_SIZE

VARIABLES
  task,     \* the call of each task, with the locals of sys_write_handler and kprint
  fifo,     \* the characters in the transmitter
  wire      \* the characters of each task that have left it

vars == <<task, fifo, wire>>

User == [pc |-> "user", start |-> 0, len |-> 0, written |-> 0, kbuf |-> <<>>, ret |-> 0]

Init ==
  /\ task = [t \in Writers |-> User]
  /\ fifo = <<>>
  /\ wire = [t \in Writers |-> <<>>]
------------------------------------------------------------------------------
Returns(t, ret) == task' = [task EXCEPT ![t].pc = "back", ![t].ret = ret]

\* syscall_dispatcher for a number without a handler.
unknown_syscall(t) ==
  /\ task[t].pc = "user"
  /\ Returns(t, -1)
  /\ UNCHANGED <<fifo, wire>>

\* Mutant: the sum is not looked at for a carry.
WrapsAround(start, len) ==
  start >= USER_SPACE_START /\ (start + len) % WORD <= USER_SPACE_END

\* In 32-bit arithmetic: a range that wraps around ends before it starts.
validate_user_ptr(start, len) ==
  LET end == (start + len) % WORD
  IN end >= start /\ start >= USER_SPACE_START /\ end <= USER_SPACE_END

\* sys_write_handler up to its loop.
sys_write_handler(t, start, len) ==
  /\ task[t].pc = "user"
  /\ IF len = 0 \/ ~validate_user_ptr(start, len)
       THEN Returns(t, IF len = 0 THEN 0 ELSE -1)
       ELSE task' = [task EXCEPT ![t].pc = "copy", ![t].start = start, ![t].len = len]
  /\ UNCHANGED <<fifo, wire>>

\* What kprint finds in kbuf: the bytes before the first NUL.
UpToNul(bytes) ==
  LET nuls == {k \in DOMAIN bytes : bytes[k] \in NulAt}
  IN IF nuls = {} THEN bytes ELSE SubSeq(bytes, 1, Min(nuls) - 1)

\* Mutant of copy: the loop goes on while written <= len.
CopiesForever(t) ==
  LET me == task[t]
      rest == me.len - me.written
      chunk == IF rest > CHUNK THEN CHUNK ELSE rest
      bytes == [k \in 1..chunk |-> me.start + me.written + k - 1]
  IN /\ me.pc = "copy"
     /\ task' = [task EXCEPT ![t].pc = "kprint", ![t].kbuf = UpToNul(bytes),
                             ![t].written = @ + chunk]
     /\ UNCHANGED <<fifo, wire>>

\* The loop of sys_write_handler: copy a chunk, or return.
copy(t) ==
  LET me == task[t]
      rest == me.len - me.written
      chunk == IF rest > CHUNK THEN CHUNK ELSE rest
      bytes == [k \in 1..chunk |-> me.start + me.written + k - 1]
  IN /\ me.pc = "copy"
     /\ IF rest > 0
          THEN task' = [task EXCEPT ![t].pc = "kprint", ![t].kbuf = UpToNul(bytes),
                                    ![t].written = @ + chunk]
          ELSE Returns(t, me.written)
     /\ UNCHANGED <<fifo, wire>>

\* kprint_at: the next character, or back to the loop.
kprint_at(t) ==
  /\ task[t].pc = "kprint"
  /\ task' = [task EXCEPT ![t].pc = IF task[t].kbuf = <<>> THEN "copy" ELSE "poll"]
  /\ UNCHANGED <<fifo, wire>>

\* Mutant of is_transmit_empty: any room in the transmitter will do.
HasRoom == Len(fifo) <= FIFO_SIZE

\* Bit 5 of the line status register.
is_transmit_empty == fifo = <<>>

\* serial_putc waits for an empty transmitter ...
serial_poll(t) ==
  /\ task[t].pc = "poll"
  /\ is_transmit_empty
  /\ task' = [task EXCEPT ![t].pc = "send"]
  /\ UNCHANGED <<fifo, wire>>

\* ... and gives it the character, which is lost if the FIFO has filled up meanwhile.
serial_send(t) ==
  /\ task[t].pc = "send"
  /\ fifo' = IF Len(fifo) < FIFO_SIZE THEN Append(fifo, <<t, Head(task[t].kbuf)>>) ELSE fifo
  /\ task' = [task EXCEPT ![t].pc = "kprint", ![t].kbuf = Tail(@)]
  /\ UNCHANGED wire

\* The transmitter sends its oldest character.
transmit ==
  /\ fifo # <<>>
  /\ fifo' = Tail(fifo)
  /\ LET c == Head(fifo) IN wire' = [wire EXCEPT ![c[1]] = Append(@, c[2])]
  /\ UNCHANGED task

Next ==
  \/ \E t \in Writers :
       \/ unknown_syscall(t)
       \/ \E start \in Starts, len \in Lengths : sys_write_handler(t, start, len)
       \/ copy(t) \/ kprint_at(t) \/ serial_poll(t) \/ serial_send(t)
  \/ transmit

\* Every task goes on while it can, and the transmitter empties by itself.  The poll
\* is strongly fair: a time slice is hundreds of characters long and no other task
\* feeds the transmitter during it.
Fairness ==
  /\ WF_vars(transmit)
  /\ \A t \in Writers : /\ WF_vars(copy(t) \/ kprint_at(t) \/ serial_send(t))
                        /\ SF_vars(serial_poll(t))

Spec == Init /\ [][Next]_vars /\ Fairness
------------------------------------------------------------------------------
TypeOK ==
  /\ \A t \in Writers : /\ task[t].pc \in {"user", "copy", "kprint", "poll", "send", "back"}
                        /\ task[t].written \in 0..task[t].len
  /\ Len(fifo) <= FIFO_SIZE
  /\ DOMAIN wire = Writers

\* The addresses of task t that have been given to the transmitter, in order.
Given(t) ==
  wire[t] \o [k \in DOMAIN SelectSeq(fifo, LAMBDA c : c[1] = t) |->
                SelectSeq(fifo, LAMBDA c : c[1] = t)[k][2]]

\* However writers alternate, nothing a program prints is lost, doubled, out of order or
\* from outside user space: what has been given to the transmitter and what kprint
\* still holds are together the buffer up to the bytes copied.
OutputExact ==
  \A t \in Writers :
    LET me == task[t] IN
    /\ Given(t) \o me.kbuf = [k \in 1..me.written |-> me.start + k - 1]
    /\ \A k \in DOMAIN Given(t) : Given(t)[k] \in USER_SPACE_START .. USER_SPACE_END - 1

\* Every SYS_WRITE returns, with all of its bytes on the wire in the end.
WritesEnd ==
  \A t \in Writers :
    [](task[t].pc # "user" => <>(task[t].pc = "back" /\ Len(wire[t]) = task[t].written))

\* "Returns: number of bytes written" (sys_write_handler): it does not hold for a buffer
\* with a NUL: see README.md.
CountsWhatItShows ==
  \A t \in Writers : task[t].pc = "back" /\ task[t].ret > 0 => Len(Given(t)) = task[t].ret
===============================================================================
