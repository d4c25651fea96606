------------------------------- MODULE MCSched -------------------------------
(***************************************************************************)
(* The scheduler with three task slots and slices of two ticks, and beside *)
(* it the pointer code of its ready queue with the bootstrap task and five *)
(* pool TCBs.  The second implements the sequence that the first works     *)
(* with; a behaviour moves the one that "part" names.                      *)
(***************************************************************************)
EXTENDS Sched

CONSTANTS QueueTasks, BootTcb, NULL

VARIABLES part, next, ready_head

Queue == INSTANCE ReadyRing WITH Tasks <- QueueTasks, Boot <- BootTcb

ASSUME Queue!RingTasks

MCInit == part \in {"sched", "queue"} /\ Init /\ Queue!Init

MCNext ==
  \/ part = "sched" /\ Next /\ UNCHANGED <<part, next, ready_head>>
  \/ part = "queue" /\ Queue!Next /\ UNCHANGED <<part, vars>>

MCSpec == MCInit /\ [][MCNext]_<<part, vars, next, ready_head>>
------------------------------------------------------------------------------
\* The linked TCBs in sched.c form one closed circle through the bootstrap task,
\* every other TCB has a null link, so the loops over the queue terminate, and
\* pick_next_ready returns the first runnable task after the current one.
QueueSound == part = "queue" => Queue!TypeOK /\ Queue!OneCircle /\ Queue!PickCorrect

\* sched_add_task appends at the tail, and sched_remove_task takes out one task
\* and keeps the order of the others, which is what Sched assumes of them.
QueueSteps == [][part = "queue" => Queue!QueueStep]_<<next, ready_head>>
===============================================================================
