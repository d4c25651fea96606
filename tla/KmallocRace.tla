----------------------------- MODULE KmallocRace -----------------------------
(***************************************************************************)
(* kfree statement by statement.  elf_exec (kernel/exec/elf.c) runs in the *)
(* keyboard interrupt with interrupts off until it adds the task:          *)
(* sched_add_task ends with sti, so its last statement, kfree(buf), can be *)
(* interrupted by the next exec, on the same stack or on that of a task    *)
(* the timer has switched to.  An exec that fails before it adds a task    *)
(* frees its buffer with interrupts still off.                             *)
(***************************************************************************)
EXTENDS KmallocWalk

CONSTANT Execs      \* the execs that are under way

NoExec == 0

VARIABLES
  pc,               \* where each exec is
  block, next,      \* the locals of its kfree
  masked            \* the exec that runs with interrupts off, if any

race == <<pc, block, next, masked>>

RaceInit ==
  /\ kmalloc_init
  /\ pc = [c \in Execs |-> "idle"]
  /\ block = [c \in Execs |-> 0] /\ next = [c \in Execs |-> 0]
  /\ masked = NoExec

At(c, label) == pc[c] = label /\ masked \in {NoExec, c}

Goto(c, label) == pc' = [pc EXCEPT ![c] = label]

\* elf_exec up to its kfree: it takes a buffer of n bytes, if there is one, and
\* has added its task or not.
elf_exec(c, n) ==
  /\ At(c, "idle")
  /\ kmalloc(n)
  /\ \/ /\ live' = live
        /\ UNCHANGED race
     \/ \E b \in DOMAIN live' \ DOMAIN live :
          /\ block' = [block EXCEPT ![c] = b]
          /\ Goto(c, "mark")
          /\ masked' \in {NoExec, c}
          /\ UNCHANGED next

\* block->is_free = 1
mark(c) ==
  /\ At(c, "mark") /\ Goto(c, "next")
  /\ is_free' = [is_free EXCEPT ![block[c]] = TRUE]
  /\ live' = [h \in DOMAIN live \ {block[c]} |-> live[h]]
  /\ UNCHANGED <<size, heads, block, next, masked>>

\* The address of the next block, and whether it is free.
find_next(c) ==
  LET n == block[c] + size[block[c]] IN
  /\ At(c, "next")
  /\ next' = [next EXCEPT ![c] = n]
  /\ Goto(c, IF n \in Addr /\ is_free[n] THEN "merge" ELSE "prev")
  /\ UNCHANGED <<heap, block, masked>>

\* block->size += next->size
merge_next(c) ==
  /\ At(c, "merge") /\ Goto(c, "prev")
  /\ size' = [size EXCEPT ![block[c]] = @ + size[next[c]]]
  /\ heads' = heads \ {next[c]}
  /\ UNCHANGED <<is_free, live, block, next, masked>>

\* The backward scan and merge, the end of kfree, and the interrupt's iret.
merge_prev(c) ==
  LET b == block[c]
      p == {h \in Addr : h \in Walk /\ h + size[h] = b /\ is_free[h]}
  IN
  /\ At(c, "prev") /\ Goto(c, "idle")
  /\ size' = [h \in Addr |-> IF h \in p THEN size[h] + size[b] ELSE size[h]]
  /\ heads' = IF p = {} THEN heads ELSE heads \ {b}
  /\ masked' = IF masked = c THEN NoExec ELSE masked
  /\ UNCHANGED <<is_free, live, block, next>>

RaceNext ==
  \E c \in Execs :
    \/ \E n \in Requests : elf_exec(c, n)
    \/ mark(c) \/ find_next(c) \/ merge_next(c) \/ merge_prev(c)

RaceSpec == RaceInit /\ [][RaceNext]_<<heap, race>>
------------------------------------------------------------------------------
\* "Heap memory region (1MB - 2MB)" (kmalloc.h), and in each header the "total
\* size of block": every block that kmalloc's walk meets ends inside the heap.
BlocksInHeap == Walk \subseteq Addr \union {HEAP_SIZE}
===============================================================================
