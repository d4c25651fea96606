------------------------------ MODULE AddrSpace ------------------------------
(***************************************************************************)
(* Who holds which page frame: task creation (kernel/task/task.c), the ELF *)
(* loader (kernel/exec/elf.c), per-process page directories                *)
(* (kernel/mem/paging.c) and the reaper, over the frame pool that Pmm      *)
(* describes.                                                              *)
(*                                                                         *)
(* A creation runs inside the keyboard interrupt with interrupts off, so   *)
(* it is one step, whichever of its allocations fails.  The reaper frees   *)
(* one frame per step: it runs with interrupts on (see Sched), and a       *)
(* creation may come between any two of its free_page calls.               *)
(***************************************************************************)
EXTENDS Integers, SequencesExt

CONSTANTS
  FRAMES,          \* frames of the pool
  TASK_MAX_TASKS,
  Programs         \* executables: what load_segments meets, in order

\* A program is a sequence of virtual pages <<pde, pte>> of its PT_LOAD segments;
\* BAD stands for a segment that fails one of the sanity checks.
BAD == <<0, 0>>
STACK == <<9, 0>>      \* USER_STACK_VIRT, in a page table of its own

ASSUME AddrSpaceConstants ==
  /\ FRAMES \in Nat /\ TASK_MAX_TASKS \in Nat \ {0}
  /\ \A p \in Programs : ToSet(p) \subseteq (1..8) \X Nat \union {BAD}

Pool  == 1..FRAMES
Slots == 1..TASK_MAX_TASKS

VARIABLES
  mem,        \* memory: the frames in use, the directories, the frames lost
  tcb,        \* task_pool: kernel_stack, page_dir (0: none) and DEAD or not
  reaping,    \* the slot task_reap is releasing, or 0
  todo        \* the frames it has still to free, in the order of the code

holders == <<mem, tcb, reaping, todo>>

NoTable == [x \in {} |-> 0]
FreeTcb == [kernel_stack |-> 0, page_dir |-> 0, dead |-> FALSE]

FramesInit ==
  /\ mem = [used |-> {}, dirs |-> NoTable, lost |-> {}]
  /\ tcb = [s \in Slots |-> FreeTcb]
  /\ reaping = 0
  /\ todo = <<>>
------------------------------------------------------------------------------
\* alloc_page: the frame it returns (0: out of memory) and the memory after it.
alloc_page(m) ==
  IF m.used = Pool
  THEN [frame |-> 0, mem |-> m]
  ELSE LET f == Min(Pool \ m.used) IN
       [frame |-> f, mem |-> [m EXCEPT !.used = @ \union {f}]]

free_page(m, f) == [m EXCEPT !.used = @ \ {f}]

\* Mutant of FramesOf: each table is freed before its pages.
TablesFirst(m, d) ==
  LET dir == m.dirs[d]
      ptes(p) == SetToSortSeq({v[2] : v \in {w \in DOMAIN dir.pages : w[1] = p}}, <)
      one(p) == <<dir.tables[p]>>
                  \o [k \in DOMAIN ptes(p) |-> dir.pages[<<p, ptes(p)[k]>>]]
      pdes == SetToSortSeq(DOMAIN dir.tables, <)
  IN <<dir.pt0>> \o FlattenSeq([k \in DOMAIN pdes |-> one(pdes[k])]) \o <<d>>

\* The frames paging_free_directory frees, in its order: the private table of
\* PDE 0, then for each user PDE the pages it maps and the table, last the
\* directory.
FramesOf(m, d) ==
  LET dir == m.dirs[d]
      ptes(p) == SetToSortSeq({v[2] : v \in {w \in DOMAIN dir.pages : w[1] = p}}, <)
      one(p) == [k \in DOMAIN ptes(p) |-> dir.pages[<<p, ptes(p)[k]>>]]
                  \o <<dir.tables[p]>>
      pdes == SetToSortSeq(DOMAIN dir.tables, <)
  IN <<dir.pt0>> \o FlattenSeq([k \in DOMAIN pdes |-> one(pdes[k])]) \o <<d>>

\* A directory stops being one when its own frame is freed.
DropDir(m, d) == [m EXCEPT !.dirs = Restrict(@, DOMAIN @ \ {d})]

\* paging_free_directory, all at once.
FreeDirectory(m, d) ==
  DropDir(FoldLeft(free_page, m, FramesOf(m, d)), d)

\* Mutant of CloneDirectory: the directory is kept when its first table
\* cannot be had.
KeepsHalfClone(m) ==
  LET d   == alloc_page(m)
      pt0 == alloc_page(d.mem)
  IN IF d.frame = 0 THEN d
     ELSE IF pt0.frame = 0 THEN [frame |-> 0, mem |-> d.mem]
     ELSE [frame |-> d.frame,
           mem |-> [pt0.mem EXCEPT
             !.dirs = (d.frame :> [pt0 |-> pt0.frame, tables |-> NoTable,
                                   pages |-> NoTable]) @@ @]]

\* paging_clone_directory: a directory and its private first table.
CloneDirectory(m) ==
  LET d   == alloc_page(m)
      pt0 == alloc_page(d.mem)
  IN IF d.frame = 0 THEN d
     ELSE IF pt0.frame = 0 THEN [frame |-> 0, mem |-> free_page(d.mem, d.frame)]
     ELSE [frame |-> d.frame,
           mem |-> [pt0.mem EXCEPT
             !.dirs = (d.frame :> [pt0 |-> pt0.frame, tables |-> NoTable,
                                   pages |-> NoTable]) @@ @]]

\* paging_map_page_in for user page v and frame f.  When no page table can be
\* had it returns without a sign, and nothing maps f; a page that was mapped
\* before is replaced, and nothing maps its frame any more.  Either way the
\* frame is lost to every later paging_free_directory.
MapPageIn(m, d, v, f) ==
  LET dir   == m.dirs[d]
      have  == v[1] \in DOMAIN dir.tables
      table == IF have THEN [frame |-> dir.tables[v[1]], mem |-> m] ELSE alloc_page(m)
      old   == IF v \in DOMAIN dir.pages THEN {dir.pages[v]} ELSE {}
  IN IF table.frame = 0
     THEN [m EXCEPT !.lost = @ \union {f}]
     ELSE [table.mem EXCEPT
             !.dirs[d].tables = (v[1] :> table.frame) @@ @,
             !.dirs[d].pages = (v :> f) @@ @,
             !.lost = @ \union old]

\* load_segments, one page at a time.
LoadPage(d, r, v) ==
  LET a == alloc_page(r.mem) IN
  IF ~r.ok THEN r
  ELSE IF v = BAD \/ a.frame = 0 THEN [r EXCEPT !.ok = FALSE]
  ELSE [r EXCEPT !.mem = MapPageIn(a.mem, d, v, a.frame)]

load_segments(m, d, prog) ==
  FoldLeft(LAMBDA r, v : LoadPage(d, r, v), [ok |-> TRUE, mem |-> m], prog)
------------------------------------------------------------------------------
\* alloc_tcb: the first free slot, 0 when the pool is exhausted.
alloc_tcb ==
  LET free == {s \in Slots : tcb[s].kernel_stack = 0} IN
  IF free = {} THEN 0 ELSE Min(free)

\* A creation ends with the TCB filled in and the memory m ...
Created(s, kstack, dir, m) ==
  /\ mem' = m
  /\ tcb' = [tcb EXCEPT ![s] = [kernel_stack |-> kstack, page_dir |-> dir, dead |-> FALSE]]
  /\ UNCHANGED <<reaping, todo>>

\* ... or fails, with the TCB zero and the memory m.
Failed(m) == mem' = m /\ UNCHANGED <<tcb, reaping, todo>>

task_create ==
  LET s == alloc_tcb
      k == alloc_page(mem)
  IN IF s = 0 \/ k.frame = 0 THEN Failed(mem) ELSE Created(s, k.frame, 0, k.mem)

\* The kernel text pages it opens to user mode live in the private PDE 0 table
\* and own no frame.
task_create_user ==
  LET s == alloc_tcb
      k == alloc_page(mem)
      c == CloneDirectory(k.mem)
      u == alloc_page(c.mem)
  IN CASE s = 0 \/ k.frame = 0 -> Failed(mem)
       [] s # 0 /\ k.frame # 0 /\ c.frame = 0 -> Failed(free_page(c.mem, k.frame))
       [] s # 0 /\ k.frame # 0 /\ c.frame # 0 /\ u.frame = 0 ->
            Failed(free_page(FreeDirectory(c.mem, c.frame), k.frame))
       [] OTHER ->
            Created(s, k.frame, c.frame,
                    MapPageIn(u.mem, c.frame, STACK, u.frame))

\* elf_load_internal on a program with a valid header; its last allocation is
\* the kernel stack of task_create_user_mapped.
elf_load_internal(prog) ==
  LET c == CloneDirectory(mem)
      l == load_segments(c.mem, c.frame, prog)
      u == alloc_page(l.mem)
      m == MapPageIn(u.mem, c.frame, STACK, u.frame)
      s == alloc_tcb
      k == alloc_page(m)
  IN IF c.frame = 0 THEN Failed(c.mem)
     ELSE IF ~l.ok \/ u.frame = 0 THEN Failed(FreeDirectory(l.mem, c.frame))
     ELSE IF s = 0 \/ k.frame = 0 THEN Failed(FreeDirectory(m, c.frame))
     ELSE Created(s, k.frame, c.frame, k.mem)

task_exit(s) ==
  /\ tcb[s].kernel_stack # 0 /\ ~tcb[s].dead
  /\ tcb' = [tcb EXCEPT ![s].dead = TRUE]
  /\ UNCHANGED <<mem, reaping, todo>>
------------------------------------------------------------------------------
\* task_reap takes up a dead task, which sched_remove_task has unlinked.
task_reap(s) ==
  /\ reaping = 0 /\ tcb[s].dead
  /\ reaping' = s
  /\ todo' = <<tcb[s].kernel_stack>>
               \o IF tcb[s].page_dir = 0 THEN <<>> ELSE FramesOf(mem, tcb[s].page_dir)
  /\ UNCHANGED <<mem, tcb>>

\* One free_page of task_reap or of the paging_free_directory it calls.
reap_free ==
  /\ todo # <<>>
  /\ LET f == Head(todo)
         m == free_page(mem, f)
     IN mem' = IF f = tcb[reaping].page_dir THEN DropDir(m, f) ELSE m
  /\ todo' = Tail(todo)
  /\ UNCHANGED <<tcb, reaping>>

reap_zero ==
  /\ reaping # 0 /\ todo = <<>>
  /\ tcb' = [tcb EXCEPT ![reaping] = FreeTcb]
  /\ reaping' = 0
  /\ UNCHANGED <<mem, todo>>

FramesNext ==
  \/ task_create \/ task_create_user
  \/ \E prog \in Programs : elf_load_internal(prog)
  \/ \E s \in Slots : task_exit(s) \/ task_reap(s)
  \/ reap_free \/ reap_zero

FramesSpec == FramesInit /\ [][FramesNext]_holders
------------------------------------------------------------------------------
\* Memory and the task table have their types.
FramesTypeOK ==
  /\ mem.used \subseteq Pool /\ mem.lost \subseteq Pool /\ DOMAIN mem.dirs \subseteq Pool
  /\ \A s \in Slots : {tcb[s].kernel_stack, tcb[s].page_dir} \subseteq Pool \union {0}
  /\ reaping \in Slots \union {0}
  /\ todo \in Seq(Pool)

\* The frames a task holds: its kernel stack and all of its directory; of the
\* task being reaped, what has not been freed yet.
Held(s) ==
  IF s = reaping THEN todo
  ELSE IF tcb[s].kernel_stack = 0 THEN <<>>
  ELSE <<tcb[s].kernel_stack>>
         \o IF tcb[s].page_dir = 0 THEN <<>> ELSE FramesOf(mem, tcb[s].page_dir)

AllHeld == FlattenSeq([s \in Slots |-> Held(s)])

\* No frame has two uses: no two tasks share a stack, a page or a table, no task
\* uses one frame twice, and no frame in use is on the free list, while tasks
\* are created between the steps of a reap and whichever allocation fails.
NoSharing ==
  /\ ToSet(AllHeld) \subseteq mem.used \ mem.lost
  /\ IsInjective(AllHeld)

\* Every used frame is held by a task, or was dropped by paging_map_page_in: the
\* error paths of every creation give back exactly what it had taken.
AllAccounted == mem.used = ToSet(AllHeld) \union mem.lost

\* While the reaper frees the pages of a table the table itself is still held,
\* and the directory is held until the end: paging_free_directory never reads
\* a frame that it has given back, and that a new task may have taken.
TablesOutliveEntries ==
  reaping # 0 /\ tcb[reaping].page_dir \in DOMAIN mem.dirs =>
    LET d   == tcb[reaping].page_dir
        dir == mem.dirs[d]
    IN /\ todo # <<>> => Last(todo) = d
       /\ \A v \in DOMAIN dir.pages :
            dir.pages[v] \in ToSet(todo) => dir.tables[v[1]] \in ToSet(todo)

\* Once all tasks have exited and been reaped the pool is as it was before they
\* were created (success criterion 6 of the Phase 15 document).  It holds while
\* memory is ample and no program maps a page twice, and fails otherwise.
NoPageLeaks == (\A s \in Slots : tcb[s] = FreeTcb) => mem.used = {}
===============================================================================
