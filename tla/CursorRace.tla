------------------------------ MODULE CursorRace ------------------------------
(***************************************************************************)
(* The cursor registers of the screen (drivers/screen.c), one port access  *)
(* at a time.  A register is reached by writing its number to one port and *)
(* moving a byte through another; get_cursor_offset and set_cursor_offset  *)
(* do that twice.  SYS_WRITE enters through a trap gate and prints with    *)
(* interrupts on, so the timer can switch between two tasks that print at  *)
(* any of these accesses.                                                  *)
(***************************************************************************)
EXTENDS Integers

CONSTANTS
  MAX_ROWS, MAX_COLS,   \* 25, 80
  BYTE,                 \* values of a register (256)
  Writers               \* the tasks that print

SIZE == MAX_ROWS * MAX_COLS
HIGH == 14
LOW == 15

VARIABLES
  crtc,         \* the two registers
  index,        \* the register the data port reaches
  pc, offset,   \* where each writer is, and its position in cells
  cell          \* the cell that was written last

vars == <<crtc, index, pc, offset, cell>>

Init ==
  /\ crtc = [r \in {HIGH, LOW} |-> 0] /\ index = HIGH
  /\ pc = [w \in Writers |-> "idle"] /\ offset = [w \in Writers |-> 0]
  /\ cell = 0

Step(w, from, to) == pc[w] = from /\ pc' = [pc EXCEPT ![w] = to]

\* port_byte_out(REG_SCREEN_CTRL, r)
Select(r) == index' = r /\ UNCHANGED <<crtc, offset, cell>>

\* get_cursor_offset
get_cursor_offset(w) ==
  \/ Step(w, "idle", "read high") /\ Select(HIGH)
  \/ /\ Step(w, "read high", "select low")
     /\ offset' = [offset EXCEPT ![w] = crtc[index] * BYTE]
     /\ UNCHANGED <<crtc, index, cell>>
  \/ Step(w, "select low", "read low") /\ Select(LOW)
  \/ /\ Step(w, "read low", "print")
     /\ offset' = [offset EXCEPT ![w] = @ + crtc[index]]
     /\ UNCHANGED <<crtc, index, cell>>

\* print_char up to its last call: a character or a newline.
print_char(w) ==
  /\ Step(w, "print", "set")
  /\ \E newline \in BOOLEAN :
       LET next == IF newline THEN (offset[w] \div MAX_COLS + 1) * MAX_COLS
                              ELSE offset[w] + 1
       IN /\ cell' = IF newline THEN cell ELSE offset[w]
          /\ offset' = [offset EXCEPT ![w] =
                          IF next >= SIZE THEN SIZE - MAX_COLS ELSE next]
  /\ UNCHANGED <<crtc, index>>

Store(byte) == crtc' = [crtc EXCEPT ![index] = byte] /\ UNCHANGED <<index, offset, cell>>

\* set_cursor_offset, print_char's last call
set_cursor_offset(w) ==
  \/ Step(w, "set", "set high") /\ Select(HIGH)
  \/ Step(w, "set high", "select") /\ Store((offset[w] \div BYTE) % BYTE)
  \/ Step(w, "select", "set low") /\ Select(LOW)
  \/ Step(w, "set low", "print") /\ Store(offset[w] % BYTE)

\* The end of the message.
kprint_end(w) == Step(w, "print", "idle") /\ UNCHANGED <<crtc, index, offset, cell>>

Next == \E w \in Writers : \/ get_cursor_offset(w) \/ print_char(w)
                           \/ set_cursor_offset(w) \/ kprint_end(w)

Spec == Init /\ [][Next]_vars
------------------------------------------------------------------------------
\* "Write a buffer to the screen" (SYS_WRITE in syscall.c): every character goes
\* to one of the screen's cells.
WritesOnScreen == cell \in 0 .. SIZE - 1
===============================================================================
