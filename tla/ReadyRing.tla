------------------------------ MODULE ReadyRing ------------------------------
(***************************************************************************)
(* The circular ready queue of kernel/task/sched.c as linked TCBs: the     *)
(* next pointers, ready_head, and the loops that walk them.  Each          *)
(* operation runs between cli and sti, so it is one step.                  *)
(***************************************************************************)
EXTENDS TaskRing, FiniteSetsExt

CONSTANTS Tasks,      \* the TCBs: the pool and the bootstrap task
          Boot,       \* &boot_task
          NULL

RingTasks == Boot \in Tasks /\ NULL \notin Tasks /\ IsFiniteSet(Tasks)

VARIABLES next,        \* task->next
          ready_head

vars == <<next, ready_head>>

Link(p) == IF p = NULL THEN NULL ELSE next[p]

\* The pointer reached after n steps along next from p.
Walk(p, n) ==
  LET w[k \in 0..n] == IF k = 0 THEN p ELSE Link(w[k - 1]) IN w[n]

\* The number of steps a loop "do ... while (p != start)" makes from p: the
\* least number after which it is back at p or falls off the list.
Turn(p) ==
  Min({n \in 1 .. Cardinality(Tasks) + 1 :
         \/ Walk(p, n) = p
         \/ \E m \in 1..n : Walk(p, m) = NULL})

\* The TCBs met on one turn round the circle from ready_head.
Circle == {Walk(ready_head, k) : k \in 0 .. Turn(ready_head) - 1}

\* Mutants of sched_remove_task, which keeps the link of the TCB removed, and of
\* sched_add_task, which inserts at the head.
KeepsLink(task) ==
  \E prev \in Circle : /\ task # Boot /\ next[prev] = task
                       /\ next' = [next EXCEPT ![prev] = next[task]]
                       /\ UNCHANGED ready_head

InsertsAtHead(task) ==
  /\ next[task] = NULL
  /\ next' = [next EXCEPT ![task] = next[ready_head], ![ready_head] = task]
  /\ UNCHANGED ready_head
------------------------------------------------------------------------------
sched_init ==
  /\ next = [t \in Tasks |-> IF t = Boot THEN Boot ELSE NULL]
  /\ ready_head = Boot

insert_after(after, task) ==
  next' = [next EXCEPT ![task] = next[after], ![after] = task]

\* The code's branches for an empty queue, here and in sched_remove_task, cannot
\* be reached: boot_task is linked from sched_init on and never unlinked.
\* Callers link a TCB that they have just taken from the pool (t->next = 0).
sched_add_task(task) ==
  /\ next[task] = NULL
  /\ LET tail == CHOOSE t \in Circle : next[t] = ready_head IN
     insert_after(tail, task)
  /\ UNCHANGED ready_head

sched_remove_task(task) ==
  \/ task = Boot /\ UNCHANGED vars                  \* never removed
  \/ /\ task # Boot
     /\ \E prev \in Circle :
          /\ next[prev] = task
          /\ next' = [next EXCEPT ![prev] = next[task], ![task] = NULL]
     /\ ready_head' = IF ready_head = task THEN next[task] ELSE ready_head
  \/ /\ task # Boot
     /\ \A prev \in Circle : next[prev] # task      \* already removed
     /\ UNCHANGED vars

\* pick_next_ready's loop from current->next; R are the READY and RUNNING TCBs.
pick_next_ready(current, R) ==
  LET start == next[current]
      found == {k \in 0 .. Turn(start) - 1 : Walk(start, k) \in R}
  IN IF found = {} THEN current ELSE Walk(start, Min(found))

Init == sched_init

Next == \E t \in Tasks : sched_add_task(t) \/ sched_remove_task(t)

Spec == Init /\ [][Next]_vars
------------------------------------------------------------------------------
\* Pointers lead to TCBs or nowhere.
TypeOK == next \in [Tasks -> Tasks \union {NULL}] /\ ready_head \in Tasks

\* The queue the pointers represent.
ring == [k \in 1 .. Turn(ready_head) |-> Walk(ready_head, k - 1)]

\* The linked TCBs form one closed circle through the bootstrap task, and every
\* other TCB has a null link: the loops of sched_add_task, sched_remove_task
\* and pick_next_ready terminate, and no TCB hangs off the circle.
OneCircle ==
  /\ Boot \in Circle
  /\ Walk(ready_head, Turn(ready_head)) = ready_head
  /\ \A t \in Tasks : next[t] # NULL <=> t \in Circle

\* Whatever tasks are runnable and whichever linked task is current,
\* pick_next_ready returns the first runnable one in round-robin order.
PickCorrect ==
  \A R \in SUBSET Tasks, i \in DOMAIN ring :
    Picks(ring, i, R, pick_next_ready(ring[i], R))

\* A step of the code appends a task at the tail of the queue or takes one out
\* and keeps the order of the others; the head stays the bootstrap task.
QueueStep ==
  /\ Head(ring) = Boot
  /\ \/ \E t \in Tasks \ Circle : ring' = Append(ring, t)
     \/ \E t \in Circle \ {Boot} : ring' = Unlink(ring, t)
===============================================================================
