-------------------------------- MODULE Shell --------------------------------
(***************************************************************************)
(* The keyboard driver (drivers/keyboard.c) and the line editor of the     *)
(* shell (shell/shell.c), which run inside the keyboard interrupt on the   *)
(* stack of whatever task is current.                                      *)
(*                                                                         *)
(* The interrupt gate keeps interrupts off, so a key is one step, unless   *)
(* the command it completes creates a task: sched_add_task ends with sti,  *)
(* and from there to its end the handler can be interrupted by the next    *)
(* key, on the same stack, or by a timer tick that switches to another     *)
(* task.  Characters are pairs of a key and the shift state.               *)
(***************************************************************************)
EXTENDS Integers, Sequences

CONSTANTS
  Tasks,               \* the tasks that keys may interrupt
  Idle,                \* the one of them that never exits
  Keys,                \* keys with a character
  SpawnKeys,           \* commands that begin with one of these create a task
  ShiftKeys,           \* KEY_LSHIFT, KEY_RSHIFT
  SHELL_BUFFER_SIZE,   \* 256
  MAX_NEST             \* bound on the handlers unfinished on one stack

ASSUME ShellConstants ==
  /\ Idle \in Tasks /\ SpawnKeys \subseteq Keys
  /\ SHELL_BUFFER_SIZE \in Nat \ {0} /\ MAX_NEST \in Nat

VARIABLES
  shift_pressed,       \* keyboard.c
  command_buffer,      \* shell.c: the characters up to buffer_pos
  current, dead,       \* the current task, and those that have called task_exit
  unfinished,          \* handlers on each task's stack that have reached sti
  held,                \* history: the shift keys that are down
  typed,               \* history: the line as typed since the last Enter
  asTyped,             \* history: the last command was the line as typed
  overtaken            \* history: a key has met an unfinished handler, or one
                       \* was left behind on the stack of a dead task

keyboard == <<shift_pressed, command_buffer>>
tasks    == <<current, dead>>
history  == <<held, typed, asTyped, overtaken>>
editing  == <<keyboard, tasks, unfinished, history>>

ShellInit ==
  /\ shift_pressed = FALSE
  /\ command_buffer = <<>>
  /\ current = Idle
  /\ dead = {}
  /\ unfinished = [t \in Tasks |-> 0]
  /\ held = {}
  /\ typed = <<>>
  /\ asTyped = TRUE
  /\ overtaken = FALSE

Unfinished == \E t \in Tasks : unfinished[t] > 0

\* A key arrives while some handler is unfinished.
Overtakes == overtaken' = (overtaken \/ Unfinished)
------------------------------------------------------------------------------
\* keyboard_handler on the make code and on the break code of a shift key.
shift_press(k) ==
  /\ shift_pressed' = TRUE
  /\ held' = held \union {k}
  /\ UNCHANGED <<command_buffer, tasks, unfinished, typed, asTyped, overtaken>>

shift_release(k) ==
  /\ k \in held
  /\ shift_pressed' = FALSE
  /\ held' = held \ {k}
  /\ UNCHANGED <<command_buffer, tasks, unfinished, typed, asTyped, overtaken>>

Add(line, c) == IF Len(line) < SHELL_BUFFER_SIZE - 1 THEN Append(line, c) ELSE line
DropLast(line) == IF line = <<>> THEN line ELSE SubSeq(line, 1, Len(line) - 1)

\* shell_input: a character, a backspace, and Enter.
shell_char(k) ==
  /\ command_buffer' = Add(command_buffer, <<k, shift_pressed>>)
  /\ typed' = Add(typed, <<k, shift_pressed>>)
  /\ Overtakes
  /\ UNCHANGED <<shift_pressed, tasks, unfinished, held, asTyped>>

shell_backspace ==
  /\ command_buffer' = DropLast(command_buffer)
  /\ typed' = DropLast(typed)
  /\ Overtakes
  /\ UNCHANGED <<shift_pressed, tasks, unfinished, held, asTyped>>

Spawns(line) == line # <<>> /\ line[1][1] \in SpawnKeys

\* Mutant of shell_enter: the buffer is not reset.
EnterKeepsLine ==
  /\ ~Spawns(command_buffer)
  /\ typed' = <<>>
  /\ asTyped' = (command_buffer = typed)
  /\ Overtakes
  /\ UNCHANGED <<keyboard, tasks, unfinished, held>>

\* shell_execute of a command that leaves interrupts off, then the reset of the
\* buffer; an empty line is not executed.
shell_enter ==
  /\ ~Spawns(command_buffer)
  /\ command_buffer' = <<>>
  /\ typed' = <<>>
  /\ asTyped' = (command_buffer = typed)
  /\ Overtakes
  /\ UNCHANGED <<shift_pressed, tasks, unfinished, held>>

\* shell_execute of a command that creates a task, up to the sti.
shell_enter_spawn ==
  /\ Spawns(command_buffer)
  /\ unfinished[current] < MAX_NEST
  /\ unfinished' = [unfinished EXCEPT ![current] = @ + 1]
  /\ typed' = <<>>
  /\ asTyped' = (command_buffer = typed)
  /\ Overtakes
  /\ UNCHANGED <<keyboard, tasks, held>>

\* The rest of the handler on top of the current stack: the reset of the buffer.
shell_enter_end ==
  /\ unfinished[current] > 0
  /\ unfinished' = [unfinished EXCEPT ![current] = @ - 1]
  /\ command_buffer' = <<>>
  /\ UNCHANGED <<shift_pressed, tasks, history>>

\* A tick of the timer that ends the time slice: another task goes on, and a
\* dead one never will.
timer_switch ==
  /\ \E t \in Tasks \ ({current} \union dead) : current' = t
  /\ overtaken' = (overtaken \/ (current \in dead /\ unfinished[current] > 0))
  /\ UNCHANGED <<keyboard, dead, unfinished, held, typed, asTyped>>

\* The current task has marked itself DEAD, and has not yet yielded.
task_exit ==
  /\ current \notin dead \union {Idle}
  /\ unfinished[current] = 0
  /\ dead' = dead \union {current}
  /\ UNCHANGED <<keyboard, current, unfinished, history>>

ShellNext ==
  \/ \E k \in ShiftKeys : shift_press(k) \/ shift_release(k)
  \/ \E k \in Keys : shell_char(k)
  \/ shell_backspace
  \/ shell_enter \/ shell_enter_spawn \/ shell_enter_end
  \/ timer_switch \/ task_exit

ShellSpec == ShellInit /\ [][ShellNext]_editing
------------------------------------------------------------------------------
\* The line never outgrows the buffer with its terminator, however keys and
\* unfinished handlers interleave.
LineTypeOK ==
  /\ shift_pressed \in BOOLEAN
  /\ command_buffer \in Seq(Keys \X BOOLEAN) /\ Len(command_buffer) < SHELL_BUFFER_SIZE
  /\ current \in Tasks /\ dead \subseteq Tasks \ {Idle}
  /\ unfinished \in [Tasks -> 0..MAX_NEST]

\* As long as no key arrives while a command is still creating its task, every
\* Enter executes the line that was typed since the one before, and between
\* commands the buffer holds the line typed so far: the editor keeps up with
\* the user across task switches.
LinesIntact ==
  ~overtaken => /\ asTyped
                /\ ~Unfinished => command_buffer = typed

\* Letters do not stay capital once both shift keys are up.
NoStuckShift == held = {} => ~shift_pressed

\* Until a key overtakes a command that is still creating its task, Enter executes
\* and command_buffer holds what was typed; the line never outgrows the buffer;
\* and once both shift keys are up, shift_pressed is clear.
LineExact == LineTypeOK /\ LinesIntact /\ NoStuckShift

\* "Sending EOI first is safe because interrupts are disabled (IF=0) throughout
\* the ISR stub, so no nested interrupt can arrive until iret restores EFLAGS"
\* (irq_handler): no two handlers are ever on one stack.
NoNestedInterrupt == \A t \in Tasks : unfinished[t] <= 1

\* "Enter - Executes command and resets buffer" (shell_input in the Phase 7
\* document): what Enter executes is what was typed since the last Enter.
CommandsAsTyped == asTyped

\* "Apply shift if shift key is held" (keyboard_handler): the driver's notion of
\* shift is that of the keys.
ShiftTracksKeys == shift_pressed <=> held # {}
===============================================================================
