-------------------------------- MODULE Paging --------------------------------
(***************************************************************************)
(* The two-level page tables of kernel/mem/paging.c: the kernel's own      *)
(* directory, the directories cloned from it for user tasks, and what the  *)
(* MMU makes of them.                                                      *)
(*                                                                         *)
(* Directories and tables are frames of memory and keep what was written   *)
(* to them after they are freed.  What a program stores in its own pages   *)
(* is left out.  AddrSpace.tla says which calls a task's creation makes    *)
(* and what happens to the frames when one of them fails.                  *)
(***************************************************************************)
EXTENDS Integers, FiniteSets

CONSTANTS
  ENTRIES,            \* entries of a directory and of a table (1024)
  KERNEL_PDE_COUNT,   \* directory entries of the identity map (4)
  POOL_START,         \* first frame that alloc_page gives out
  CodePages,          \* identity-mapped pages with user code, in entry 0
  UserPages,          \* pages of segments and stacks, above the identity map
  KernelPages,        \* pages the kernel maps for itself, also above it
  HeldElsewhere,      \* what the rest of the kernel may hold of the pool for good
  MAX_DIRS            \* bound on the directories of tasks

\* Memory has room for the kernel's directory and tables; user code is part of the
\* kernel's image, which the pool lies above.
PagingConstants ==
  /\ ENTRIES \in Nat /\ KERNEL_PDE_COUNT \in 1..ENTRIES
  /\ POOL_START \in Nat \ {0} /\ MAX_DIRS \in Nat
  /\ POOL_START + KERNEL_PDE_COUNT < KERNEL_PDE_COUNT * ENTRIES
  /\ CodePages \subseteq {0} \X (0 .. ENTRIES - 1)
  /\ \A v \in CodePages : v[2] < POOL_START
  /\ UserPages \union KernelPages
       \subseteq (KERNEL_PDE_COUNT .. ENTRIES - 1) \X (0 .. ENTRIES - 1)
  /\ HeldElsewhere \subseteq SUBSET (POOL_START .. KERNEL_PDE_COUNT * ENTRIES - 1)
  /\ {} \in HeldElsewhere

Index == 0 .. ENTRIES - 1
RAM   == 0 .. KERNEL_PDE_COUNT * ENTRIES - 1      \* frames: all are identity-mapped

\* Pages are pairs of a directory index and a table index.
Identity(v) == v[1] * ENTRIES + v[2]

NONE == [frame |-> 0, flags |-> {}, present |-> FALSE]
Entry(f, flags) == [frame |-> f, flags |-> flags, present |-> TRUE]
Zeroed == [i \in Index |-> NONE]

VARIABLES
  memory,            \* what each frame holds, read as a table
  used,              \* the frames of the pool in use
  pd_tables,         \* pd_tables: the kernel's tables (0: none)
  kmap,              \* history: the frame each kernel page was last mapped to
  granted            \* history: per task directory, the pages given to Ring 3

vars == <<memory, used, pd_tables, kmap, granted>>

kernel_directory == POOL_START
KernelTable(i) == POOL_START + 1 + i
KernelRange == (0 .. KERNEL_PDE_COUNT - 1) \X Index

\* paging_init: a directory and the tables of the identity map, supervisor only.
\* The RAM disk and the kernel's stacks take frames of the same pool.
Init ==
  LET tables == {KernelTable(i) : i \in 0 .. KERNEL_PDE_COUNT - 1} IN
  /\ memory = [f \in RAM |->
       IF f = kernel_directory
       THEN [i \in Index |->
               IF i < KERNEL_PDE_COUNT THEN Entry(KernelTable(i), {"W"}) ELSE NONE]
       ELSE IF f \in tables
       THEN [j \in Index |->
               Entry(Identity(<<f - KernelTable(0), j>>), {"W"})]
       ELSE Zeroed]
  /\ \E held \in HeldElsewhere : used = {kernel_directory} \union tables \union held
  /\ pd_tables = [i \in Index |-> IF i < KERNEL_PDE_COUNT THEN KernelTable(i) ELSE 0]
  /\ kmap = [v \in KernelRange |-> Identity(v)]
  /\ granted = [d \in {} |-> 0]
------------------------------------------------------------------------------
\* What alloc_page returns with the frames of "taken" in use (see Pmm.tla); 0: out of
\* memory.
FirstFree(taken) ==
  LET free == {f \in RAM : f >= POOL_START} \ taken IN
  IF free = {} THEN 0 ELSE CHOOSE f \in free : \A g \in free : f <= g

\* Mutant of SetEntry: a new table is not cleared.
KeepsOldTable(d, v, f, flags, table) ==
  LET pde == memory[d][v[1]]
      new == Entry(table, {"W"} \union (flags \cap {"U"}))
  IN IF pde.present
     THEN [memory EXCEPT ![d][v[1]].flags = @ \union (flags \cap {"U"}),
                         ![table][v[2]] = Entry(f, flags)]
     ELSE [memory EXCEPT ![d][v[1]] = new, ![table][v[2]] = Entry(f, flags)]

\* Memory after page v of directory d is mapped to frame f through the table:
\* the one that is there, or a new one that is cleared first.
SetEntry(d, v, f, flags, table) ==
  LET pde == memory[d][v[1]]
      new == Entry(table, {"W"} \union (flags \cap {"U"}))
  IN IF pde.present
     THEN [memory EXCEPT ![d][v[1]].flags = @ \union (flags \cap {"U"}),
                         ![table][v[2]] = Entry(f, flags)]
     ELSE [memory EXCEPT ![d][v[1]] = new,
                         ![table] = [Zeroed EXCEPT ![v[2]] = Entry(f, flags)]]

Grant(d, v, f, flags) ==
  granted' = [granted EXCEPT ![d] = [w \in DOMAIN @ \union {v} |->
                                       IF w = v THEN Entry(f, flags) ELSE @[w]]]

\* paging_map_page_in, on a frame that the caller has put in "taken".
paging_map_page_in(d, v, f, flags, taken) ==
  LET pde   == memory[d][v[1]]
      table == IF pde.present THEN pde.frame ELSE FirstFree(taken)
  IN /\ \/ /\ table = 0                               \* out of memory: no sign
           /\ used' = taken
           /\ UNCHANGED <<memory, granted>>
        \/ /\ table # 0
           /\ used' = taken \union {table}
           /\ memory' = SetEntry(d, v, f, flags, table)
           /\ Grant(d, v, f, flags)
     /\ UNCHANGED <<pd_tables, kmap>>

\* MAP_USER_PAGE of task_create_user: a page of kernel text is opened to Ring 3.
map_code_page(d, v) ==
  paging_map_page_in(d, v, Identity(v), {"W", "U"}, used)

\* load_segments and the creation of the user stack map a fresh frame.  Segments
\* that share a page are left to Elf.tla.
map_fresh_page(d, v, flags) ==
  LET f == FirstFree(used) IN
  v \notin DOMAIN granted[d] /\ f # 0 /\ paging_map_page_in(d, v, f, flags, used \union {f})
------------------------------------------------------------------------------
\* Mutant of Clone: the shared entries begin one too late.
SharesOneLess(d, pt0) ==
  [memory EXCEPT
     ![d] = [i \in Index |->
               IF i = 0 THEN Entry(pt0, {"W"})
               ELSE IF i \in 2 .. KERNEL_PDE_COUNT - 1 THEN memory[kernel_directory][i]
               ELSE NONE],
     ![pt0] = memory[pd_tables[0]]]

\* Entry 0 leads to a private copy of the kernel's first table, the rest of the
\* kernel's range to the kernel's own tables.
Clone(d, pt0) ==
  [memory EXCEPT
     ![d] = [i \in Index |->
               IF i = 0 THEN Entry(pt0, {"W"})
               ELSE IF i < KERNEL_PDE_COUNT THEN memory[kernel_directory][i]
               ELSE NONE],
     ![pt0] = memory[pd_tables[0]]]

paging_clone_directory ==
  LET d   == FirstFree(used)
      pt0 == FirstFree(used \union {d})
  IN /\ Cardinality(DOMAIN granted) < MAX_DIRS
     /\ \/ /\ d = 0 \/ pt0 = 0                          \* returns NULL
           /\ UNCHANGED vars
        \/ /\ d # 0 /\ pt0 # 0
           /\ used' = used \union {d, pt0}
           /\ memory' = Clone(d, pt0)
           /\ granted' = [e \in DOMAIN granted \union {d} |->
                            IF e = d THEN [v \in {} |-> NONE] ELSE granted[e]]
           /\ UNCHANGED <<pd_tables, kmap>>

Present(t) == {memory[t][j].frame : j \in {k \in Index : memory[t][k].present}}

\* What paging_free_directory frees: the private table, the tables above the
\* kernel's range with the pages they map, and the directory.
DirFrames(d) ==
  LET own == {memory[d][i].frame :
                i \in {k \in Index : k >= KERNEL_PDE_COUNT /\ memory[d][k].present}}
  IN {memory[d][0].frame, d} \union own \union UNION {Present(t) : t \in own}

paging_free_directory(d) ==
  /\ used' = used \ DirFrames(d)
  /\ granted' = [e \in DOMAIN granted \ {d} |-> granted[e]]
  /\ UNCHANGED <<memory, pd_tables, kmap>>
------------------------------------------------------------------------------
\* paging_map_page: as paging_map_page_in, but the table is found in pd_tables.
paging_map_page(v) ==
  LET f     == FirstFree(used)
      taken == used \union {f}
      pde   == memory[kernel_directory][v[1]]
      table == IF pde.present THEN pd_tables[v[1]] ELSE FirstFree(taken)
  IN /\ f # 0 /\ v \notin DOMAIN kmap
     /\ \/ /\ table = 0
           /\ UNCHANGED vars            \* the caller gives f back
        \/ /\ table # 0
           /\ used' = taken \union {table}
           /\ memory' = SetEntry(kernel_directory, v, f, {"W"}, table)
           /\ pd_tables' = [pd_tables EXCEPT ![v[1]] = table]
           /\ kmap' = [w \in DOMAIN kmap \union {v} |-> IF w = v THEN f ELSE kmap[w]]
           /\ UNCHANGED granted

\* Mutant of ClearEntry: the directory's entry is cleared.
ClearsDirectory(v) == [memory EXCEPT ![kernel_directory][v[1]] = NONE]

ClearEntry(v) == [memory EXCEPT ![pd_tables[v[1]]][v[2]] = NONE]

\* paging_unmap_page; the caller frees the frame and the table stays.
paging_unmap_page(v) ==
  /\ v \in DOMAIN kmap \ KernelRange
  /\ memory' = ClearEntry(v)
  /\ used' = used \ {kmap[v]}
  /\ kmap' = [w \in DOMAIN kmap \ {v} |-> kmap[w]]
  /\ UNCHANGED <<pd_tables, granted>>

paging_translate(v) ==
  LET pde == memory[kernel_directory][v[1]]
      pte == memory[pd_tables[v[1]]][v[2]]
  IN IF pde.present /\ pd_tables[v[1]] # 0 /\ pte.present THEN pte.frame ELSE 0

Next ==
  \/ paging_clone_directory
  \/ \E d \in DOMAIN granted :
       \/ \E v \in CodePages : map_code_page(d, v)
       \/ \E v \in UserPages, w \in {{}, {"W"}} : map_fresh_page(d, v, w \union {"U"})
       \/ paging_free_directory(d)
  \/ \E v \in KernelPages : paging_map_page(v) \/ paging_unmap_page(v)

Spec == Init /\ [][Next]_vars
------------------------------------------------------------------------------
\* The MMU's walk from directory d: the frame of page v, with the flags that
\* both levels grant.
MMU(d, v) ==
  LET pde == memory[d][v[1]]
      pte == memory[pde.frame][v[2]]
  IN IF pde.present /\ pte.present
     THEN Entry(pte.frame, pde.flags \cap pte.flags) ELSE NONE

Pages == Index \X Index
Directories == DOMAIN granted \union {kernel_directory}

\* Entries and histories only name frames.
TypeOK ==
  /\ memory \in [RAM -> [Index -> [frame : RAM, flags : SUBSET {"W", "U"},
                                   present : BOOLEAN]]]
  /\ used \subseteq RAM
  /\ pd_tables \in [Index -> RAM]
  /\ kmap \in [DOMAIN kmap -> RAM] /\ DOMAIN kmap \subseteq Pages
  /\ DOMAIN granted \subseteq used
  /\ \A d \in DOMAIN granted : DOMAIN granted[d] \subseteq Pages

\* With a task's directory loaded, Ring 3 reaches the pages its creation mapped
\* for it, at their frames and with their write permission, and no others: not
\* what an earlier owner of a recycled table mapped, and not the rest of the
\* kernel's range, whose directory entry carries the user flag too.  With the
\* kernel's directory it reaches nothing.
UserReachesGranted ==
  \A d \in Directories, v \in Pages :
    LET e == MMU(d, v) IN
    IF d \in DOMAIN granted /\ v \in DOMAIN granted[d]
    THEN e = granted[d][v]
    ELSE "U" \notin e.flags

\* Whatever directory is loaded, the kernel's range is mapped to itself and
\* writable: the kernel uses physical addresses as pointers whichever task it
\* has interrupted.
KernelEverywhere ==
  \A d \in Directories, v \in KernelRange :
    MMU(d, v).frame = Identity(v) /\ "W" \in MMU(d, v).flags

\* The frames that are directories or tables now.
Structures ==
  Directories
    \union UNION {{memory[d][i].frame : i \in {k \in Index : memory[d][k].present}} :
                    d \in Directories}

\* No directory or table is a page that Ring 3 can reach, in any task, and all of
\* them are in use as far as the allocator knows.
StructuresProtected ==
  /\ Structures \subseteq used
  /\ \A d \in DOMAIN granted, v \in Pages :
       "U" \in MMU(d, v).flags => MMU(d, v).frame \notin Structures

\* paging_translate returns the frame that a kernel page was last mapped to and 0
\* for one that is not mapped: pd_tables and the directory agree.
TranslateExact ==
  \A v \in Pages :
    paging_translate(v) = IF v \in DOMAIN kmap THEN kmap[v] ELSE 0

\* The kernel's range is mapped to itself and writable in every directory, whichever
\* of paging_clone_directory's allocations fail; and paging_translate returns the frame
\* that paging_map_page put there last, and 0 after paging_unmap_page.
TablesExact == TypeOK /\ KernelEverywhere /\ TranslateExact

\* Ring 3 reaches what paging_map_page_in granted its own task, nothing that
\* another task or an earlier owner of a recycled table was granted, and no
\* directory or table; and none of these is free.
UsersIsolated == UserReachesGranted /\ StructuresProtected
===============================================================================
