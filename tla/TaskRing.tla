------------------------------- MODULE TaskRing -------------------------------
(***************************************************************************)
(* The scheduler's circular ready queue as a sequence that starts at       *)
(* ready_head.  ReadyRing.tla shows that the pointer code of               *)
(* kernel/task/sched.c maintains and searches this sequence.               *)
(***************************************************************************)
EXTENDS Integers, Sequences, Functions

\* The queue after task t, which is in it, is unlinked.
Unlink(r, t) ==
  LET i == CHOOSE k \in 1..Len(r) : r[k] = t
  IN SubSeq(r, 1, i - 1) \o SubSeq(r, i + 1, Len(r))

\* The task k places after the one at position i, going round the circle.
Following(r, i, k) == r[((i - 1 + k) % Len(r)) + 1]

\* Mutant of Picks: the search starts at the head of the queue.
PicksFromHead(r, i, R, t) ==
  IF \E k \in 1..Len(r) : r[k] \in R
  THEN \E k \in 1..Len(r) :
         /\ t = r[k]
         /\ t \in R
         /\ \A j \in 1 .. k - 1 : r[j] \notin R
  ELSE t = r[i]

\* pick_next_ready may return t when the task at position i is current and the
\* tasks of R are READY or RUNNING: the first of R after position i, which may
\* be the current task itself after a full turn; the current task if R is empty.
Picks(r, i, R, t) ==
  IF \E k \in 1..Len(r) : Following(r, i, k) \in R
  THEN \E k \in 1..Len(r) :
         /\ t = Following(r, i, k)
         /\ t \in R
         /\ \A j \in 1 .. k - 1 : Following(r, i, j) \notin R
  ELSE t = r[i]
===============================================================================
