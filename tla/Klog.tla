--------------------------------- MODULE Klog ---------------------------------
(***************************************************************************)
(* The kernel log (kernel/sys/klog.c): a ring of entries, read back by     *)
(* klog_get_entry and klog_dump and saved by klog_flush_to_file.           *)
(*                                                                         *)
(* Most calls of klog run with interrupts off: during boot, in a fault     *)
(* handler, in the keyboard interrupt.  The message that elf_load_internal *)
(* logs after sched_add_task does not, and another task's fault or command *)
(* may log between its steps.  Messages are numbered; an entry is whole if *)
(* level, timestamp and text come from the same message.                   *)
(***************************************************************************)
EXTENDS Integers, Sequences

CONSTANTS
  KLOG_BUFFER_SIZE,   \* entries of the ring (256)
  FLUSH_BUF_SIZE,     \* bytes klog_flush_to_file can hold (4096)
  LINE,               \* characters of a formatted entry, newline not counted
  MAX_LOGS            \* bound on the messages between two klog_clear

ASSUME KlogConstants ==
  /\ KLOG_BUFFER_SIZE \in Nat \ {0} /\ FLUSH_BUF_SIZE \in Nat /\ FLUSH_BUF_SIZE > 2
  /\ LINE \in Nat \ {0} /\ MAX_LOGS \in Nat

Ring == 0 .. KLOG_BUFFER_SIZE - 1
Blank == [level |-> 0, text |-> 0]
Whole(m) == [level |-> m, text |-> m]
NoCall == [slot |-> 0, msg |-> 0]

VARIABLES
  log_buffer, log_head, log_count,
  call,             \* the call of klog that can be interrupted, or NoCall
  logged,           \* history: the messages, in the order their calls ended
  overlapped        \* history: two calls have overlapped since the log was clear

log == <<log_buffer, log_head, log_count, call, logged, overlapped>>

klog_init ==
  /\ log_buffer = [i \in Ring |-> Blank]
  /\ log_head = 0 /\ log_count = 0
  /\ call = NoCall
  /\ logged = <<>> /\ overlapped = FALSE
------------------------------------------------------------------------------
\* The end of klog: the next slot, one more message.
Advance == log_head' = (log_head + 1) % KLOG_BUFFER_SIZE /\ log_count' = log_count + 1

\* The number of the next message.
NextMsg == Len(logged) + (IF call = NoCall THEN 1 ELSE 2)

\* klog with interrupts off.
klog ==
  /\ NextMsg <= MAX_LOGS
  /\ log_buffer' = [log_buffer EXCEPT ![log_head] = Whole(NextMsg)]
  /\ Advance
  /\ logged' = Append(logged, NextMsg)
  /\ overlapped' = (overlapped \/ call # NoCall)
  /\ UNCHANGED call

\* klog with interrupts on: it takes the slot at the head and sets level and
\* timestamp; then it formats, copies the text, and moves the head that it
\* finds.
klog_begin ==
  /\ call = NoCall /\ NextMsg <= MAX_LOGS
  /\ call' = [slot |-> log_head, msg |-> NextMsg]
  /\ log_buffer' = [log_buffer EXCEPT ![log_head].level = NextMsg]
  /\ UNCHANGED <<log_head, log_count, logged, overlapped>>

klog_end ==
  /\ call # NoCall
  /\ log_buffer' = [log_buffer EXCEPT ![call.slot].text = call.msg]
  /\ Advance
  /\ logged' = Append(logged, call.msg)
  /\ call' = NoCall
  /\ UNCHANGED overlapped

klog_clear ==
  /\ log_buffer' = [i \in Ring |-> Blank]
  /\ log_head' = 0 /\ log_count' = 0
  /\ logged' = <<>>
  /\ overlapped' = (call # NoCall)
  /\ UNCHANGED call

LogNext == klog \/ klog_begin \/ klog_end \/ klog_clear

LogSpec == klog_init /\ [][LogNext]_log
------------------------------------------------------------------------------
\* klog_get_stats: how many entries can be read.
current_size == IF log_count < KLOG_BUFFER_SIZE THEN log_count ELSE KLOG_BUFFER_SIZE

\* Mutant of start_pos: a ring that is more than full is read from slot 0.
AlwaysFromZero == 0

start_pos == IF log_count <= KLOG_BUFFER_SIZE THEN 0 ELSE log_head

klog_get_entry(i) == log_buffer[(start_pos + i) % KLOG_BUFFER_SIZE]

\* What klog_dump prints, oldest first.
klog_dump == [i \in 1..current_size |-> klog_get_entry(i - 1)]

NEWLINE == <<0, 0>>
EntryLine(e) == [k \in 1..LINE |-> <<e.text, k>>]

\* The loops copy while pos < FLUSH_BUF_SIZE - 2.
PutChars(buf, chars) ==
  LET room == FLUSH_BUF_SIZE - 2 - Len(buf)
  IN buf \o SubSeq(chars, 1, IF Len(chars) < room THEN Len(chars) ELSE room)

PutNewline(buf) == IF Len(buf) < FLUSH_BUF_SIZE - 1 THEN Append(buf, NEWLINE) ELSE buf

PutEntry(buf, e) ==
  IF Len(buf) < FLUSH_BUF_SIZE - 2 THEN PutNewline(PutChars(buf, EntryLine(e))) ELSE buf

\* What klog_flush_to_file writes: flush_buf after its entries.
klog_flush_to_file ==
  LET flush_buf[i \in 0..current_size] ==
        IF i = 0 THEN <<>> ELSE PutEntry(flush_buf[i - 1], klog_dump[i])
  IN flush_buf[current_size]
------------------------------------------------------------------------------
\* The head is in the ring and an entry's parts come from messages.
LogTypeOK ==
  /\ log_buffer \in [Ring -> [level : 0..MAX_LOGS, text : 0..MAX_LOGS]]
  /\ log_head \in Ring /\ log_count \in 0..MAX_LOGS
  /\ call \in [slot : Ring, msg : 0..MAX_LOGS]

\* The last messages of those logged, as many as the ring holds.
LastLogged ==
  LET n == Len(logged)
      k == IF n < KLOG_BUFFER_SIZE THEN n ELSE KLOG_BUFFER_SIZE
  IN [i \in 1..k |-> Whole(logged[n - k + i])]

\* When no two calls of klog have overlapped, a dump shows the last messages,
\* each one whole and in order, also when the ring is exactly full and after
\* it has gone round.
DumpExact == call = NoCall /\ ~overlapped => klog_dump = LastLogged

\* The lines of n entries of the dump, one behind the other.
LogText(n) ==
  [p \in 1 .. n * (LINE + 1) |->
     LET e == klog_dump[((p - 1) \div (LINE + 1)) + 1]
         k == ((p - 1) % (LINE + 1)) + 1
     IN IF k <= LINE THEN EntryLine(e)[k] ELSE NEWLINE]

\* A log that fits the flush buffer, the last newline and the terminator
\* included, is saved complete; one that does not is cut off inside the buffer.
FlushFits ==
  /\ Len(klog_flush_to_file) <= FLUSH_BUF_SIZE - 1
  /\ current_size * (LINE + 1) <= FLUSH_BUF_SIZE - 1 => klog_flush_to_file = LogText(current_size)

\* As long as no two calls of klog overlapped, klog_dump shows the last messages,
\* as many as the ring holds, whole and in order; klog_flush_to_file saves a log
\* that fits its buffer complete, and never writes past the buffer.
LogExact == LogTypeOK /\ DumpExact /\ FlushFits

\* "Dump all log entries to screen" (klog.h): no message of the last ones is
\* missing from a dump, whoever logs at the same time.
DumpComplete ==
  call = NoCall =>
    \A i \in DOMAIN LastLogged : \E j \in DOMAIN klog_dump : klog_dump[j] = LastLogged[i]

\* "Write all buffered log entries to a file" (klog.h).
FlushComplete ==
  \A i \in DOMAIN klog_dump :
    \E p \in DOMAIN klog_flush_to_file : klog_flush_to_file[p][1] = klog_dump[i].text
===============================================================================
