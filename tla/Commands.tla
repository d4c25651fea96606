------------------------------- MODULE Commands -------------------------------
(***************************************************************************)
(* shell_execute and the commands with arguments (shell/shell.c), on a     *)
(* store that promises what SimpleFS promises (FileStore.tla): a call that *)
(* fails leaves the store as it was.                                       *)
(*                                                                         *)
(* A line is a sequence of characters.  Commands run inside the keyboard   *)
(* interrupt, with interrupts off until a task is created, so a line is    *)
(* executed in one step.                                                   *)
(***************************************************************************)
EXTENDS Integers, SequencesExt

CONSTANTS
  Lines,               \* the lines a user enters
  WRITE, CAT, MKDIR, RM, COLOR, EXEC,   \* the names of the commands
  FS_NAME_MAX,         \* 23
  FS_MAX_ENTRIES,
  MAX_EXEC_ARGS,       \* 16
  ARG_BUF,             \* size of arg_buf in cmd_exec (256)
  READ_BUF,            \* size of read_buf in cmd_cat (4096)
  NAME_BUF,            \* size of fg_name and bg_name (32)
  Colors,              \* the names parse_color_name knows
  WHITE, BLACK         \* two of them, the initial colours

SPACE == 0
SLASH == 1

CommandsConstants ==
  /\ Lines \subseteq Seq(Nat)
  /\ {FS_NAME_MAX, FS_MAX_ENTRIES, MAX_EXEC_ARGS, ARG_BUF, READ_BUF, NAME_BUF}
       \subseteq Nat \ {0}
  /\ {WHITE, BLACK} \subseteq Colors
  /\ \A c \in Colors : Len(c) < NAME_BUF - 1
  /\ Cardinality({WRITE, CAT, MKDIR, RM, COLOR, EXEC}) = 6

VARIABLES
  files,    \* name -> the text of a file, or Directory
  color,    \* foreground and background
  reply,    \* the line last executed, and what came of it
  saved     \* history: what the user was last told a file holds

vars == <<files, color, reply, saved>>

Directory == <<-1>>
Empty == [name \in {} |-> <<>>]

Prompt == [line |-> <<>>, said |-> "prompt", value |-> <<>>]

Init ==
  /\ files = Empty /\ saved = Empty
  /\ color = <<WHITE, BLACK>>
  /\ reply = Prompt
------------------------------------------------------------------------------
\* The loops over *p: the first position from p on that is, or is not, a space;
\* the terminator is neither and ends both.
Skip(l, p) == Min({q \in p .. Len(l) + 1 : q > Len(l) \/ l[q] # SPACE})
End(l, p)  == Min({q \in p .. Len(l) + 1 : q > Len(l) \/ l[q] = SPACE})
From(l, p) == SubSeq(l, p, Len(l))
First(n, l) == SubSeq(l, 1, Min({n, Len(l)}))

\* shell_execute: the first word, and the arguments behind the spaces after it.
Parse(l) ==
  LET cmd == From(l, Skip(l, 1))
      args == End(cmd, 1)
  IN [cmd |-> SubSeq(cmd, 1, args - 1), args |-> From(cmd, Skip(cmd, args))]

\* Mutant: the character behind a token is looked at again for the next one, and
\* the limit is one too high.
OneArgumentMore(args) ==
  LET buf == First(ARG_BUF - 1, args)
      tokens[p \in 1 .. Len(buf) + 1] ==
        LET s == Skip(buf, p)
            e == End(buf, s)
        IN IF s > Len(buf) THEN <<>> ELSE <<SubSeq(buf, s, e - 1)>> \o tokens[e]
      all == tokens[1]
  IN First(MAX_EXEC_ARGS + 1, all)

\* cmd_exec cuts its copy of the arguments into tokens, at most MAX_EXEC_ARGS.
Tokens(args) ==
  LET buf == First(ARG_BUF - 1, args)
      tokens[p \in 1 .. Len(buf) + 1] ==
        LET s == Skip(buf, p)
            e == End(buf, s)
        IN IF s > Len(buf) THEN <<>>
           ELSE <<SubSeq(buf, s, e - 1)>> \o tokens[IF e > Len(buf) THEN e ELSE e + 1]
      all == tokens[1]
  IN First(MAX_EXEC_ARGS, all)

Says(l, said, value) == reply' = [line |-> l, said |-> said, value |-> value]
Refuses(l, why) == Says(l, why, <<>>) /\ UNCHANGED <<files, color, saved>>

Put(f, name, x) == [n \in DOMAIN f \union {name} |-> IF n = name THEN x ELSE f[n]]
Drop(f, names) == [n \in DOMAIN f \ names |-> f[n]]

\* fs_create succeeds for a new name of legal length while there is a free entry.
Creatable(name) ==
  /\ Len(name) \in 1..FS_NAME_MAX
  /\ name \notin DOMAIN files
  /\ Cardinality(DOMAIN files) < FS_MAX_ENTRIES
------------------------------------------------------------------------------
\* Mutant of cmd_write: the text begins right behind the file name.
KeepsSpaces(args) == From(args, End(args, 1))

\* The text begins behind the spaces after the file name.
TextOf(args) == From(args, Skip(args, End(args, 1)))

\* cmd_write creates a file that is not there, then writes it; either may fail,
\* and a file that was created stays.
cmd_write(l, args) ==
  LET name == SubSeq(args, 1, End(args, 1) - 1)
      text == TextOf(args)
      new == name \notin DOMAIN files
  IN IF args = <<>> \/ Len(name) > FS_NAME_MAX \/ text = <<>> THEN Refuses(l, "usage")
     ELSE \/ Refuses(l, IF new THEN "not created" ELSE "not written")
          \/ /\ new /\ Creatable(name)
             /\ files' = Put(files, name, <<>>)
             /\ Says(l, "not written", <<>>)
             /\ UNCHANGED <<color, saved>>
          \/ /\ Creatable(name) \/ (~new /\ files[name] # Directory)
             /\ files' = Put(files, name, text)
             /\ Says(l, "written", text)
             /\ saved' = Put(saved, name, text)
             /\ UNCHANGED color

\* cmd_cat looks up the whole rest of the line, and shows what fits in read_buf.
cmd_cat(l, args) ==
  IF args = <<>> THEN Refuses(l, "usage")
  ELSE \/ Refuses(l, "not found")
       \/ /\ args \in DOMAIN files /\ files[args] # Directory
          /\ Says(l, "shown", First(READ_BUF - 1, files[args]))
          /\ UNCHANGED <<files, color, saved>>

cmd_mkdir(l, args) ==
  IF args = <<>> THEN Refuses(l, "usage")
  ELSE \/ Refuses(l, "not created")
       \/ /\ Creatable(args)
          /\ files' = Put(files, args, Directory)
          /\ Says(l, "created", <<>>)
          /\ UNCHANGED <<color, saved>>

\* Mutant: a name that only begins with the directory's counts as below it.
StartsLike(name, n) == Len(n) > Len(name) /\ SubSeq(n, 1, Len(name)) = name

\* fs_delete takes the names "<name>/..." for the children of directory name.
Below(name, n) ==
  /\ Len(n) > Len(name)
  /\ SubSeq(n, 1, Len(name)) = name /\ n[Len(name) + 1] = SLASH

\* cmd_rm removes a file, or a directory with the names below it.  A child whose
\* entry cannot be written stays, and so may the directory when its children are gone.
cmd_rm(l, args) ==
  IF args = <<>> THEN Refuses(l, "usage")
  ELSE \/ Refuses(l, "not found")
       \/ /\ args \in DOMAIN files
          /\ \E gone \in SUBSET {n \in DOMAIN files : files[args] = Directory /\ Below(args, n)},
                done \in BOOLEAN :
               LET names == IF done THEN gone \union {args} ELSE gone
               IN /\ files' = Drop(files, names)
                  /\ saved' = Drop(saved, names)
                  /\ Says(l, IF done THEN "deleted" ELSE "not found", <<>>)
          /\ UNCHANGED color

\* cmd_color: both names have to be known before the colour is set.
cmd_color(l, args) ==
  LET fg == First(NAME_BUF - 1, SubSeq(args, 1, End(args, 1) - 1))
      rest == From(args, Skip(args, End(args, 1)))
      bg == First(NAME_BUF - 1, SubSeq(rest, 1, End(rest, 1) - 1))
  IN IF args = <<>> THEN Refuses(l, "usage")
     ELSE IF fg \notin Colors \/ (rest # <<>> /\ bg \notin Colors) THEN Refuses(l, "invalid")
     ELSE /\ color' = <<fg, IF rest = <<>> THEN BLACK ELSE bg>>
          /\ Says(l, "coloured", <<>>)
          /\ UNCHANGED <<files, saved>>

\* cmd_exec gives its tokens to elf_exec; the new task is not part of this module.
cmd_exec(l, args) ==
  LET argv == Tokens(args)
  IN IF args = <<>> \/ argv = <<>> THEN Refuses(l, "usage")
     ELSE Says(l, "executed", argv) /\ UNCHANGED <<files, color, saved>>

shell_execute(l) ==
  LET cmd == Parse(l).cmd
      args == Parse(l).args
  IN CASE cmd = <<>> -> Refuses(l, "nothing")
       [] cmd = WRITE -> cmd_write(l, args)
       [] cmd = CAT -> cmd_cat(l, args)
       [] cmd = MKDIR -> cmd_mkdir(l, args)
       [] cmd = RM -> cmd_rm(l, args)
       [] cmd = COLOR -> cmd_color(l, args)
       [] cmd = EXEC -> cmd_exec(l, args)
       [] OTHER -> Refuses(l, "unknown")

\* The user enters a line, and reads what it says before the next one.
Enter == reply = Prompt /\ \E l \in Lines : shell_execute(l)
Read  == reply # Prompt /\ reply' = Prompt /\ UNCHANGED <<files, color, saved>>

Next == Enter \/ Read
Spec == Init /\ [][Next]_vars
------------------------------------------------------------------------------
\* The words of a line, by what a word is: a longest run without spaces.
WordStarts(l) == {k \in DOMAIN l : l[k] # SPACE /\ (k = 1 \/ l[k - 1] = SPACE)}
WordAt(l, k) ==
  SubSeq(l, k, Min({e \in k .. Len(l) : e = Len(l) \/ l[e + 1] = SPACE}))
LineWords(l) ==
  LET starts == SetToSortSeq(WordStarts(l), <)
  IN [k \in DOMAIN starts |-> WordAt(l, starts[k])]

\* The line from its k-th word on.
FromWord(l, k) == From(l, SetToSortSeq(WordStarts(l), <)[k])

TypeOK ==
  /\ \A n \in DOMAIN files : Len(n) \in 1..FS_NAME_MAX /\ files[n] \in Seq(Int)
  /\ Cardinality(DOMAIN files) <= FS_MAX_ENTRIES
  /\ color \in Colors \X Colors
  /\ DOMAIN saved \subseteq DOMAIN files

\* exec hands over the words behind the command, as many as the limit allows, when
\* they fit in arg_buf.
ArgumentsAsTyped ==
  reply.said = "executed" =>
    LET words == Tail(LineWords(reply.line)) IN
    Len(FromWord(reply.line, 2)) < ARG_BUF =>
      reply.value = First(MAX_EXEC_ARGS, words)

\* What a user was told stays true through every later command, failed writes and
\* deletes included: a file holds the text last reported as written, from the third
\* word of that line on, and cat shows it, up to the size of its buffer.
FilesAsTold ==
  /\ \A n \in DOMAIN saved : files[n] = saved[n]
  /\ reply.said = "written" => /\ Len(LineWords(reply.line)) >= 3
                               /\ reply.value = FromWord(reply.line, 3)
                               /\ saved[LineWords(reply.line)[2]] = reply.value
  /\ reply.said = "shown" =>
       \A n \in DOMAIN saved : n = FromWord(reply.line, 2) =>
         reply.value = First(READ_BUF - 1, saved[n])

\* A step: a command changes no name but the one on its line and, where that is a directory,
\* the names below it; the colour changes only to colours named on the line.
OnlyTheNamed ==
  /\ \A n \in DOMAIN files \union DOMAIN files' :
       (n \in DOMAIN files) # (n \in DOMAIN files') \/ files[n] # files'[n] =>
         LET words == LineWords(reply'.line)
             rest == FromWord(reply'.line, 2)
         IN \/ n = words[2] \/ n = rest
            \/ files[rest] = Directory /\ rest \o <<SLASH>> = First(Len(rest) + 1, n)
  /\ color # color' =>
       LET words == LineWords(reply'.line)
       IN color' = IF Len(words) = 2 THEN <<words[2], BLACK>> ELSE <<words[2], words[3]>>

\* "If deleting a directory, also remove all children" (fs_delete).  It does not hold
\* when the write of a child's entry fails: see README.md.
DeletedWithChildren ==
  reply.said = "deleted" => \A n \in DOMAIN files : ~Below(FromWord(reply.line, 2), n)
===============================================================================
