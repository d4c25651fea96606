-------------------------------- MODULE Screen --------------------------------
(***************************************************************************)
(* The text screen (drivers/screen.c).  kprint reads the cursor from the   *)
(* VGA registers once, then prints character by character at a position of *)
(* its own and moves the cursor along.                                     *)
(*                                                                         *)
(* SYS_WRITE prints with interrupts on, so another task, or the keyboard   *)
(* interrupt that echoes a key, may print between two characters.  A step  *)
(* prints one character; the two cursor registers are written in one step. *)
(***************************************************************************)
EXTENDS Integers, Sequences, FiniteSets

CONSTANTS
  MAX_ROWS, MAX_COLS,   \* 25, 80
  Writers,              \* who prints
  Chars,                \* characters besides the newline
  MAX_TEXT              \* bound on the characters printed since clear_screen

ASSUME ScreenConstants ==
  /\ {MAX_ROWS, MAX_COLS} \subseteq Nat \ {0} /\ MAX_TEXT \in Nat

NL == "newline"
BLANK == "blank"
SIZE == MAX_ROWS * MAX_COLS
Cells == 0 .. SIZE - 1

VARIABLES
  vidmem,        \* the character cells
  cursor,        \* the cursor registers
  at,            \* where each writer prints next; -1 when it is not in kprint
  text,          \* history: what was printed since clear_screen, in order: the
                 \* characters, each with its place on a screen without an end
  end,           \* history: the place behind the last one
  bottom,        \* history: the lowest line of the text reached since then
  mixed          \* history: a kprint has begun inside another one

screen == <<vidmem, cursor, at, text, end, bottom, mixed>>

ScreenInit ==
  /\ vidmem = [c \in Cells |-> BLANK]
  /\ cursor = 0
  /\ at = [w \in Writers |-> -1]
  /\ text = <<>> /\ end = 0 /\ bottom = 0 /\ mixed = FALSE
------------------------------------------------------------------------------
\* The position after character c at position p of a screen without an end.
Behind(c, p) == IF c = NL THEN (p \div MAX_COLS + 1) * MAX_COLS ELSE p + 1
------------------------------------------------------------------------------
get_offset_row(offset) == offset \div MAX_COLS

\* Mutant of scroll_screen: the last line keeps its text.
KeepsLastLine(cells) ==
  [c \in Cells |-> IF c + MAX_COLS < SIZE THEN cells[c + MAX_COLS] ELSE cells[c]]

scroll_screen(cells) ==
  [c \in Cells |-> IF c + MAX_COLS < SIZE THEN cells[c + MAX_COLS] ELSE BLANK]

\* print_char at an offset, in cells: the screen and the offset after it.
print_char(c, offset) ==
  LET cells == IF c = NL THEN vidmem ELSE [vidmem EXCEPT ![offset] = c]
      next  == IF c = NL THEN (get_offset_row(offset) + 1) * MAX_COLS ELSE offset + 1
  IN IF next >= SIZE THEN [cells |-> scroll_screen(cells), offset |-> SIZE - MAX_COLS]
                     ELSE [cells |-> cells, offset |-> next]

\* kprint_at reads the cursor.
kprint(w) ==
  /\ at[w] = -1
  /\ at' = [at EXCEPT ![w] = cursor]
  /\ mixed' = (mixed \/ \E v \in Writers : at[v] # -1)
  /\ UNCHANGED <<vidmem, cursor, text, end, bottom>>

\* The next character of w's message.
kprint_char(w, c) ==
  /\ at[w] # -1 /\ Len(text) < MAX_TEXT
  /\ LET p == print_char(c, at[w]) IN
     /\ vidmem' = p.cells
     /\ cursor' = p.offset
     /\ at' = [at EXCEPT ![w] = p.offset]
  /\ text' = Append(text, [char |-> c, place |-> end])
  /\ end' = Behind(c, end)
  /\ bottom' = IF end' \div MAX_COLS > bottom THEN end' \div MAX_COLS ELSE bottom
  /\ UNCHANGED mixed

kprint_end(w) ==
  /\ at[w] # -1
  /\ at' = [at EXCEPT ![w] = -1]
  /\ UNCHANGED <<vidmem, cursor, text, end, bottom, mixed>>

\* kprint_backspace, which the shell calls only for a character it has echoed.
kprint_backspace ==
  /\ \A w \in Writers : at[w] = -1
  /\ \/ /\ cursor > 0 /\ text # <<>> /\ text[Len(text)].char # NL
        /\ vidmem' = [vidmem EXCEPT ![cursor - 1] = BLANK]
        /\ cursor' = cursor - 1
        /\ text' = SubSeq(text, 1, Len(text) - 1)
        /\ end' = text[Len(text)].place
     \/ cursor = 0 /\ UNCHANGED <<vidmem, cursor, text, end>>
  /\ UNCHANGED <<at, bottom, mixed>>

clear_screen ==
  /\ \A w \in Writers : at[w] = -1
  /\ vidmem' = [c \in Cells |-> BLANK]
  /\ cursor' = 0
  /\ text' = <<>> /\ end' = 0 /\ bottom' = 0 /\ mixed' = FALSE
  /\ UNCHANGED at

ScreenNext ==
  \/ \E w \in Writers : kprint(w) \/ kprint_end(w)
  \/ \E w \in Writers, c \in Chars \union {NL} : kprint_char(w, c)
  \/ kprint_backspace \/ clear_screen

ScreenSpec == ScreenInit /\ [][ScreenNext]_screen
------------------------------------------------------------------------------
\* Cursor and print positions stay on the screen, however the writers
\* interleave: no character is written behind the last cell.
ScreenTypeOK ==
  /\ vidmem \in [Cells -> Chars \union {BLANK}]
  /\ cursor \in Cells
  /\ at \in [Writers -> Cells \union {-1}]

\* The first line of the text that is still on the screen.
Top == IF bottom < MAX_ROWS THEN 0 ELSE bottom - MAX_ROWS + 1

\* The character of text t at place p.
Canvas(t, p) ==
  LET here == {k \in DOMAIN t : t[k].char # NL /\ t[k].place = p}
  IN IF here = {} THEN BLANK ELSE t[CHOOSE k \in here : TRUE].char

\* As long as no two writers print at the same time, the screen shows the last
\* lines of what was printed, wrapped at the right edge, with the cursor behind
\* the last character, after any number of scrolls and backspaces.
DisplayExact ==
  ~mixed =>
    /\ \A c \in Cells : vidmem[c] = Canvas(text, Top * MAX_COLS + c)
    /\ cursor = end - Top * MAX_COLS

\* As long as no two writers mix in kprint, video memory shows the last rows of
\* the text printed, after newlines, wrapping, scrolling and backspaces; and no
\* cell outside the screen is ever written.
ScreenExact == ScreenTypeOK /\ DisplayExact

\* "Write a buffer to the screen" (SYS_WRITE in syscall.c): until the screen
\* scrolls, every character printed is on it.
AllCharactersShown ==
  Top = 0 => Cardinality({c \in Cells : vidmem[c] # BLANK})
               = Cardinality({k \in DOMAIN text : text[k].char # NL})
===============================================================================
