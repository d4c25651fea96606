------------------------------- MODULE MCConsole -------------------------------
(***************************************************************************)
(* What a user sees and types: the screen, the kernel log, the shell's     *)
(* line, and the commands that a line stands for.  The four share no       *)
(* state; a behaviour moves the one that "part" names.                     *)
(*                                                                         *)
(* Lines for the commands: with and without arguments, spaces in front of, *)
(* between and behind them, names with a directory, names and lines that   *)
(* are too long; exec with every line of up to six spaces and letters.     *)
(***************************************************************************)
EXTENDS Screen, Klog, Shell

VARIABLES
  part,
  files, color, reply, saved

shell == <<files, color, reply, saved>>

\* The characters of lines: space, slash, a letter, and one for each command's name.
sp == 0
sl == 1
ch == 2
FileNames == {<<ch>>, <<ch, sl, ch>>, <<ch, ch>>}
Spaces(n) == [k \in 1..n |-> sp]

MCLines ==
  {<<>>, <<sp>>, <<9, 11>>}
    \union {<<c, sp>> \o a : c \in 11..14, a \in FileNames \union {<<>>, <<ch, ch, ch, ch>>, <<ch, sp>>}}
    \union {<<11>> \o Spaces(k) \o n \o Spaces(j) \o t :
              n \in FileNames, t \in {<<ch>>, <<ch, sp, ch>>}, k \in 1..2, j \in 1..2}
    \union {<<15, sp>> \o a : a \in {<<>>, <<ch>>, <<ch, ch, sp, ch, ch>>, <<ch, sp, ch, ch, ch>>}}
    \union {<<sp, 16, sp>> \o a : a \in UNION {[1..n -> {sp, ch}] : n \in 0..6}}

Commands == INSTANCE Commands
  WITH Lines <- MCLines,
       WRITE <- <<11>>, CAT <- <<12>>, MKDIR <- <<13>>, RM <- <<14>>, COLOR <- <<15>>, EXEC <- <<16>>,
       FS_NAME_MAX <- 3, FS_MAX_ENTRIES <- 2, MAX_EXEC_ARGS <- 2, ARG_BUF <- 6,
       READ_BUF <- 3, NAME_BUF <- 4,
       Colors <- {<<ch>>, <<ch, ch>>}, WHITE <- <<ch, ch>>, BLACK <- <<ch>>

ASSUME Commands!CommandsConstants

MCInit ==
  /\ part \in {"screen", "log", "line", "commands"}
  /\ ScreenInit /\ klog_init /\ ShellInit /\ Commands!Init

MCNext ==
  \/ part = "screen" /\ ScreenNext /\ UNCHANGED <<part, log, editing, shell>>
  \/ part = "log" /\ LogNext /\ UNCHANGED <<part, screen, editing, shell>>
  \/ part = "line" /\ ShellNext /\ UNCHANGED <<part, screen, log, shell>>
  \/ part = "commands" /\ Commands!Next /\ UNCHANGED <<part, screen, log, editing>>

MCSpec == MCInit /\ [][MCNext]_<<part, screen, log, editing, shell>>
------------------------------------------------------------------------------
\* What the shell tells the user is so: exec hands over the words as typed, as many as
\* the limit allows; a file holds the text last reported as written, through every later
\* command, failed ones included; and cat shows it, up to the size of its buffer.
CommandsAsTold ==
  part = "commands" => Commands!TypeOK /\ Commands!ArgumentsAsTyped /\ Commands!FilesAsTold

\* A command changes no name but the one on its line and, where that is a directory,
\* the names below it; the colour changes only to colours named on the line.
OnlyTheNamed == [][part = "commands" => Commands!OnlyTheNamed]_shell
===============================================================================
