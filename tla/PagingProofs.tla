----------------------------- MODULE PagingProofs -----------------------------
(***************************************************************************)
(* The page tables are exact and tasks are isolated, for any number of     *)
(* entries, tasks and pages: every call of paging.c preserves an           *)
(* inductive invariant of who holds which frame and what the tables hold.  *)
(*                                                                         *)
(* A directory owns some of its tables; a clone shares the kernel's others *)
(* with it.  What an owned table holds is what was mapped, and no frame is *)
(* held twice: as a directory, as a table or as a page.                    *)
(***************************************************************************)
EXTENDS Paging, WellFoundedInduction, TLAPS

TableEntries == [frame : RAM, flags : SUBSET {"W", "U"}, present : BOOLEAN]

\* The entries of directory d whose tables no other directory owns.
Own(d) == IF d = kernel_directory THEN Index ELSE {i \in Index : i = 0 \/ i >= KERNEL_PDE_COUNT}

\* What page v of directory d was mapped to, in a table that d owns.
Mapped(d, v) ==
  IF d = kernel_directory
  THEN IF v \in DOMAIN kmap THEN Entry(kmap[v], {"W"}) ELSE NONE
  ELSE IF v \in DOMAIN granted[d] THEN granted[d][v]
  ELSE IF v[1] = 0 THEN Entry(Identity(v), {"W"}) ELSE NONE

Types ==
  /\ memory \in [RAM -> [Index -> TableEntries]]
  /\ used \subseteq RAM /\ pd_tables \in [Index -> RAM]

\* What kernel pages and pages for Ring 3 may be mapped to.
MappingsInv ==
  /\ kernel_directory \notin DOMAIN granted
  /\ KernelRange \subseteq DOMAIN kmap /\ DOMAIN kmap \subseteq KernelRange \union KernelPages
  /\ kmap \in [DOMAIN kmap -> RAM] /\ \A v \in KernelRange : kmap[v] = Identity(v)
  /\ \A d \in DOMAIN granted :
       /\ DOMAIN granted[d] \subseteq CodePages \union UserPages
       /\ \A v \in DOMAIN granted[d] :
            /\ granted[d][v] \in TableEntries /\ granted[d][v].present /\ "U" \in granted[d][v].flags
            /\ v \in CodePages => granted[d][v] = Entry(Identity(v), {"W", "U"})

\* The kernel's directory and pd_tables agree; a clone shares the kernel's tables
\* but the first; and the entry of a page that was mapped is present, for Ring 3 if
\* the page is.
DirectoriesInv ==
  /\ \A i \in Index : memory[kernel_directory][i] =
       IF pd_tables[i] = 0 THEN NONE ELSE Entry(pd_tables[i], {"W"})
  /\ \A i \in 0 .. KERNEL_PDE_COUNT - 1 : pd_tables[i] = KernelTable(i)
  /\ \A v \in DOMAIN kmap : pd_tables[v[1]] # 0
  /\ \A d \in DOMAIN granted :
       /\ \A i \in 1 .. KERNEL_PDE_COUNT - 1 : memory[d][i] = Entry(KernelTable(i), {"W"})
       /\ memory[d][0].present /\ "W" \in memory[d][0].flags
       /\ \A i \in KERNEL_PDE_COUNT .. ENTRIES - 1 :
            memory[d][i].present => memory[d][i].flags = {"W", "U"}
       /\ \A v \in DOMAIN granted[d] : memory[d][v[1]].present /\ "U" \in memory[d][v[1]].flags

\* A table holds what was mapped, and nothing else.
TablesInv ==
  \A d \in Directories : \A i \in Own(d), j \in Index :
    memory[d][i].present => memory[memory[d][i].frame][j] = Mapped(d, <<i, j>>)

\* Directory d holds itself (no table, no page), its tables and its pages.
Slots == -1 .. ENTRIES - 1

Held(d, i, j) ==
  \/ i = -1 /\ j = -1
  \/ i \in Own(d) /\ memory[d][i].present /\ j = -1
  \/ i >= KERNEL_PDE_COUNT /\ j \in Index /\ Mapped(d, <<i, j>>).present

FrameOf(d, i, j) ==
  IF i = -1 THEN d ELSE IF j = -1 THEN memory[d][i].frame ELSE Mapped(d, <<i, j>>).frame

HoldersInv ==
  \A d, e \in Directories, i, j, k, l \in Slots :
    Held(d, i, j) =>
      /\ FrameOf(d, i, j) \in used /\ FrameOf(d, i, j) >= POOL_START
      /\ Held(e, k, l) /\ FrameOf(d, i, j) = FrameOf(e, k, l) => d = e /\ i = k /\ j = l

PagingInv == Types /\ MappingsInv /\ DirectoriesInv /\ TablesInv /\ HoldersInv
------------------------------------------------------------------------------
\* A nonempty set of naturals has a least element.
LEMMA LeastFrame ==
  ASSUME NEW S \in SUBSET Nat, S # {}
  PROVE  (CHOOSE f \in S : \A g \in S : f <= g) \in S
<1>1. PICK m \in S : \A y \in S : ~(<<y, m>> \in OpToRel(<, Nat))
  BY NatLessThanWellFounded, WFMin
<1>2. \A y \in S : ~(y < m)
  BY <1>1, Zenon DEF OpToRel
<1>3. \A y \in S : m <= y
  BY <1>2
<1> QED BY <1>3, Zenon

\* The sizes of tables and of memory, and where the kernel's own tables are.
LEMMA Sizes ==
  ASSUME PagingConstants
  PROVE  /\ ENTRIES \in Nat \ {0} /\ KERNEL_PDE_COUNT \in Nat \ {0} /\ KERNEL_PDE_COUNT <= ENTRIES
         /\ POOL_START \in Nat \ {0} /\ RAM \subseteq Nat /\ 0 \in RAM
         /\ Index \subseteq Nat /\ 0 \in Index
         /\ kernel_directory \in RAM /\ kernel_directory = POOL_START
         /\ \A i \in 0 .. KERNEL_PDE_COUNT - 1 :
              KernelTable(i) \in RAM /\ KernelTable(i) = POOL_START + 1 + i /\ i \in Index
         /\ \A v \in KernelRange : Identity(v) \in RAM
<1>1. /\ ENTRIES \in Nat \ {0} /\ KERNEL_PDE_COUNT \in Nat \ {0} /\ KERNEL_PDE_COUNT <= ENTRIES
      /\ POOL_START \in Nat \ {0} /\ POOL_START + KERNEL_PDE_COUNT < KERNEL_PDE_COUNT * ENTRIES
  BY DEF PagingConstants
<1> DEFINE size == KERNEL_PDE_COUNT * ENTRIES
<1>2. size \in Nat /\ POOL_START + KERNEL_PDE_COUNT < size
  BY <1>1
<1>3. \A a \in 0 .. KERNEL_PDE_COUNT - 1, b \in 0 .. ENTRIES - 1 : a * ENTRIES + b \in 0 .. size - 1
  <2> TAKE a \in 0 .. KERNEL_PDE_COUNT - 1, b \in 0 .. ENTRIES - 1
  <2>1. a * ENTRIES \in Nat /\ a * ENTRIES <= (KERNEL_PDE_COUNT - 1) * ENTRIES
    BY <1>1
  <2>2. (KERNEL_PDE_COUNT - 1) * ENTRIES = size - ENTRIES
    BY <1>1
  <2> QED BY <1>1, <1>2, <2>1, <2>2
<1> HIDE DEF size
<1>4. RAM = 0 .. size - 1
  BY DEF RAM, size
<1>5. \A v \in KernelRange : Identity(v) \in RAM
  BY <1>3, <1>4 DEF KernelRange, Index, Identity
<1> QED BY <1>1, <1>2, <1>4, <1>5 DEF kernel_directory, KernelTable, Index

\* Which entries are the kernel's, and which are not.
LEMMA IndexRanges ==
  ASSUME PagingConstants
  PROVE  /\ \A i \in 1 .. KERNEL_PDE_COUNT - 1 :
              i \in Index /\ i \in 0 .. KERNEL_PDE_COUNT - 1 /\ i # 0 /\ i < KERNEL_PDE_COUNT
         /\ \A i \in KERNEL_PDE_COUNT .. ENTRIES - 1 :
              i \in Index /\ i # 0 /\ ~(i < KERNEL_PDE_COUNT) /\ i >= KERNEL_PDE_COUNT
BY Sizes DEF Index

\* Where pages lie.
LEMMA PageShape ==
  ASSUME PagingConstants
  PROVE  /\ \A v \in CodePages : /\ v = <<0, v[2]>> /\ v[1] = 0 /\ v[2] \in Index
                                  /\ v[2] < POOL_START /\ v \in KernelRange
         /\ \A v \in UserPages \union KernelPages :
              /\ v = <<v[1], v[2]>> /\ v[1] \in KERNEL_PDE_COUNT .. ENTRIES - 1 /\ v[1] \in Index
              /\ v[2] \in Index /\ v \notin KernelRange /\ v \notin CodePages
         /\ \A v \in KernelRange :
              /\ v = <<v[1], v[2]>> /\ v[1] \in 0 .. KERNEL_PDE_COUNT - 1 /\ v[1] \in Index
              /\ v[2] \in Index
  BY Sizes DEF PagingConstants, KernelRange, Index

\* FirstFree returns 0 or a frame of the pool that is not taken.
LEMMA Allocated ==
  ASSUME PagingConstants, NEW taken, FirstFree(taken) # 0
  PROVE  /\ FirstFree(taken) \in RAM /\ FirstFree(taken) >= POOL_START
         /\ FirstFree(taken) \notin taken
<1> DEFINE free == {f \in RAM : f >= POOL_START} \ taken
           first == CHOOSE f \in free : \A g \in free : f <= g
<1>1. free # {} /\ FirstFree(taken) = first
  BY DEF FirstFree
<1>2. first \in free
  BY <1>1, LeastFrame, Sizes, Zenon
<1> QED BY <1>1, <1>2

\* Entries are entries.
LEMMA EntryFacts ==
  ASSUME NEW f \in RAM, NEW flags \in SUBSET {"W", "U"}
  PROVE  /\ Entry(f, flags) \in TableEntries /\ Entry(f, flags).frame = f
         /\ Entry(f, flags).flags = flags /\ Entry(f, flags).present = TRUE
  BY DEF Entry, TableEntries

\* An empty entry.
LEMMA NoneFacts ==
  ASSUME PagingConstants
  PROVE  NONE \in TableEntries /\ NONE.present = FALSE /\ NONE.flags = {} /\ NONE.frame = 0
  BY Sizes DEF NONE, TableEntries

\* No frame is a directory and a table, the table of two entries, or a page and
\* one of these; and all of them are in use.
LEMMA HolderFacts ==
  ASSUME PagingConstants, PagingInv
  PROVE  /\ \A d \in Directories : d \in used /\ d >= POOL_START /\ d \in RAM
         /\ \A d \in Directories : \A i \in Own(d) : memory[d][i].present =>
              /\ memory[d][i].frame \in used /\ memory[d][i].frame >= POOL_START
              /\ memory[d][i].frame \in RAM /\ memory[d][i].frame \notin Directories
         /\ \A d, e \in Directories : \A i \in Own(d), k \in Own(e) :
              memory[d][i].present /\ memory[e][k].present /\ memory[d][i].frame = memory[e][k].frame
                => d = e /\ i = k
         /\ \A d, e \in Directories, i \in KERNEL_PDE_COUNT .. ENTRIES - 1, j \in Index :
              Mapped(d, <<i, j>>).present =>
                /\ Mapped(d, <<i, j>>).frame \notin Directories
                /\ \A k \in Own(e) : memory[e][k].present =>
                     Mapped(d, <<i, j>>).frame # memory[e][k].frame
<1>1. Types /\ HoldersInv /\ used \subseteq RAM
  BY DEF PagingInv, Types
<1>2. /\ -1 \in Slots /\ \A d : Own(d) \subseteq Slots /\ -1 \notin Own(d)
      /\ Index \subseteq Slots /\ -1 \notin Index
      /\ KERNEL_PDE_COUNT .. ENTRIES - 1 \subseteq Slots /\ -1 \notin KERNEL_PDE_COUNT .. ENTRIES - 1
      /\ \A i \in KERNEL_PDE_COUNT .. ENTRIES - 1 : i >= KERNEL_PDE_COUNT
  BY Sizes DEF Slots, Own, Index
<1>3. \A d \in Directories : Held(d, -1, -1) /\ FrameOf(d, -1, -1) = d
  BY DEF Held, FrameOf
<1>4. \A d \in Directories : \A i \in Own(d) : memory[d][i].present =>
        Held(d, i, -1) /\ FrameOf(d, i, -1) = memory[d][i].frame
  BY <1>2 DEF Held, FrameOf
<1>5. \A d \in Directories, i \in KERNEL_PDE_COUNT .. ENTRIES - 1, j \in Index :
        Mapped(d, <<i, j>>).present => Held(d, i, j) /\ FrameOf(d, i, j) = Mapped(d, <<i, j>>).frame
  BY <1>2 DEF Held, FrameOf
<1>6. \A d \in Directories : d \in used /\ d >= POOL_START /\ d \in RAM
  BY <1>1, <1>2, <1>3 DEF HoldersInv
<1>7. \A d \in Directories : \A i \in Own(d) : memory[d][i].present =>
        /\ memory[d][i].frame \in used /\ memory[d][i].frame >= POOL_START
        /\ memory[d][i].frame \in RAM /\ memory[d][i].frame \notin Directories
  BY <1>1, <1>2, <1>3, <1>4 DEF HoldersInv
<1>8. \A d, e \in Directories : \A i \in Own(d), k \in Own(e) :
        memory[d][i].present /\ memory[e][k].present /\ memory[d][i].frame = memory[e][k].frame
          => d = e /\ i = k
  BY <1>1, <1>2, <1>4 DEF HoldersInv
<1>9. ASSUME NEW d \in Directories, NEW e \in Directories, NEW i \in KERNEL_PDE_COUNT .. ENTRIES - 1,
             NEW j \in Index, Mapped(d, <<i, j>>).present
      PROVE  /\ Mapped(d, <<i, j>>).frame \notin Directories
             /\ \A k \in Own(e) : memory[e][k].present =>
                  Mapped(d, <<i, j>>).frame # memory[e][k].frame
  <2>1. Held(d, i, j) /\ FrameOf(d, i, j) = Mapped(d, <<i, j>>).frame /\ i \in Slots /\ j \in Slots
        /\ j # -1 /\ i # -1
    BY <1>2, <1>5, <1>9
  <2>2. \A x \in Directories, k, l \in Slots :
          Held(x, k, l) /\ FrameOf(d, i, j) = FrameOf(x, k, l) => d = x /\ i = k /\ j = l
    BY <1>1, <2>1 DEF HoldersInv
  <2>3. \A x \in Directories : FrameOf(d, i, j) # x
    BY <1>2, <1>3, <2>1, <2>2
  <2>4. \A k \in Own(e) : memory[e][k].present => FrameOf(d, i, j) # memory[e][k].frame
    BY <1>2, <1>4, <2>1, <2>2, Zenon
  <2> QED BY <2>1, <2>3, <2>4
<1> QED BY <1>6, <1>7, <1>8, <1>9

\* A flag more.
LEMMA AddFlags ==
  ASSUME NEW e \in TableEntries, e.present, NEW g \in SUBSET {"W", "U"}
  PROVE  /\ Entry(e.frame, e.flags \union g) \in TableEntries
         /\ [e EXCEPT !.flags = @ \union g] = Entry(e.frame, e.flags \union g)
<1> DEFINE x == [e EXCEPT !.flags = @ \union g]
<1>1. x \in TableEntries
  BY DEF TableEntries
<1>2. x.frame = e.frame /\ x.flags = e.flags \union g /\ x.present = TRUE
  BY DEF TableEntries
<1> HIDE DEF x
<1>3. x = Entry(e.frame, e.flags \union g)
  BY <1>1, <1>2 DEF TableEntries, Entry
<1> QED BY <1>1, <1>3 DEF x

\* What SetEntry writes, when the table is not the directory.
Written(d, a, b, f, flags, table) ==
  /\ memory' \in [RAM -> [Index -> TableEntries]]
  /\ \A x \in RAM \ {d, table} : memory'[x] = memory[x]
  /\ \A i \in Index \ {a} : memory'[d][i] = memory[d][i]
  /\ memory'[d][a] = IF memory[d][a].present
                     THEN Entry(memory[d][a].frame, memory[d][a].flags \union (flags \cap {"U"}))
                     ELSE Entry(table, {"W"} \union (flags \cap {"U"}))
  /\ memory'[table][b] = Entry(f, flags)
  /\ \A j \in Index \ {b} :
       memory'[table][j] = IF memory[d][a].present THEN memory[table][j] ELSE NONE

\* SetEntry writes two entries, and clears a table that is new.
LEMMA SetEntryFacts ==
  ASSUME PagingConstants, Types, NEW d \in RAM, NEW table \in RAM, d # table,
         NEW a \in Index, NEW b \in Index, NEW f \in RAM, NEW flags \in SUBSET {"W", "U"},
         memory' = SetEntry(d, <<a, b>>, f, flags, table)
  PROVE  Written(d, a, b, f, flags, table)
<1>1. memory \in [RAM -> [Index -> TableEntries]]
  BY DEF Types
<1>2. Entry(f, flags) \in TableEntries /\ NONE \in TableEntries
  BY EntryFacts, NoneFacts, Zenon
<1>3. Zeroed \in [Index -> TableEntries] /\ \A j \in Index : Zeroed[j] = NONE
  BY <1>2 DEF Zeroed
<1>4. CASE memory[d][a].present
  <2> DEFINE pde == [memory[d][a] EXCEPT !.flags = @ \union (flags \cap {"U"})]
             p == [memory[d] EXCEPT ![a] = pde]
             q == [memory[table] EXCEPT ![b] = Entry(f, flags)]
  <2>1. memory[d][a] \in TableEntries
    BY <1>1
  <2>2. /\ pde \in TableEntries
        /\ pde = Entry(memory[d][a].frame, memory[d][a].flags \union (flags \cap {"U"}))
    <3>1. flags \cap {"U"} \in SUBSET {"W", "U"}
      OBVIOUS
    <3> QED BY <1>4, <2>1, <3>1, AddFlags, Zenon
  <2>3. memory' = [memory EXCEPT ![d] = p, ![table] = q]
    BY <1>4, <1>1, Zenon DEF SetEntry
  <2> HIDE DEF pde
  <2>4. p \in [Index -> TableEntries] /\ p[a] = pde /\ \A i \in Index \ {a} : p[i] = memory[d][i]
    BY <1>1, <2>2, Zenon
  <2>5. /\ q \in [Index -> TableEntries] /\ q[b] = Entry(f, flags)
        /\ \A j \in Index \ {b} : q[j] = memory[table][j]
    BY <1>1, <1>2
  <2> HIDE DEF p, q
  <2>6. memory'[d] = p /\ memory'[table] = q /\ \A x \in RAM \ {d, table} : memory'[x] = memory[x]
    BY <1>1, <2>3
  <2>7. memory' \in [RAM -> [Index -> TableEntries]]
    BY <1>1, <2>3, <2>4, <2>5, Zenon
  <2> QED BY <1>4, <2>2, <2>4, <2>5, <2>6, <2>7 DEF Written
<1>5. CASE ~memory[d][a].present
  <2> DEFINE pde == Entry(table, {"W"} \union (flags \cap {"U"}))
             p == [memory[d] EXCEPT ![a] = pde]
             q == [Zeroed EXCEPT ![b] = Entry(f, flags)]
  <2>2. pde \in TableEntries
    BY EntryFacts, Zenon
  <2>3. memory' = [memory EXCEPT ![d] = p, ![table] = q]
    BY <1>5, <1>1 DEF SetEntry
  <2> HIDE DEF pde
  <2>4. p \in [Index -> TableEntries] /\ p[a] = pde /\ \A i \in Index \ {a} : p[i] = memory[d][i]
    BY <1>1, <2>2
  <2>5. /\ q \in [Index -> TableEntries] /\ q[b] = Entry(f, flags)
        /\ \A j \in Index \ {b} : q[j] = NONE
    BY <1>2, <1>3
  <2> HIDE DEF p, q
  <2>6. memory'[d] = p /\ memory'[table] = q /\ \A x \in RAM \ {d, table} : memory'[x] = memory[x]
    BY <1>1, <2>3
  <2>7. memory' \in [RAM -> [Index -> TableEntries]]
    BY Zenon, <1>1, <2>3, <2>4, <2>5
  <2> QED BY <1>5, <2>4, <2>5, <2>6, <2>7 DEF pde, Written
<1> QED BY <1>4, <1>5

\* Between two states the holders stay, but for two new ones of directory d with
\* frames that were free.
Adds(d, i, j, f, k, g) ==
  \A e \in Directories', m, n \in Slots : Held(e, m, n)' =>
    \/ e \in Directories /\ Held(e, m, n) /\ FrameOf(e, m, n)' = FrameOf(e, m, n)
    \/ e = d /\ m = i /\ n = j /\ FrameOf(e, m, n)' = f /\ f \in used' \ used /\ f >= POOL_START
    \/ e = d /\ m = k /\ n = -1 /\ FrameOf(e, m, n)' = g /\ g \in used' \ used /\ g >= POOL_START

\* A step that adds two holders of fresh frames at most keeps every frame with one.
LEMMA HoldersAdded ==
  ASSUME HoldersInv, used \subseteq used', NEW d, NEW i, NEW j, NEW f, NEW k, NEW g, f # g,
         Adds(d, i, j, f, k, g)
  PROVE  HoldersInv'
<1> SUFFICES ASSUME NEW x \in Directories', NEW y \in Directories',
                    NEW m \in Slots, NEW n \in Slots, NEW p \in Slots, NEW q \in Slots,
                    Held(x, m, n)'
             PROVE  /\ FrameOf(x, m, n)' \in used' /\ FrameOf(x, m, n)' >= POOL_START
                    /\ Held(y, p, q)' /\ FrameOf(x, m, n)' = FrameOf(y, p, q)' => x = y /\ m = p /\ n = q
  BY DEF HoldersInv
<1> DEFINE Old(e, r, s) == e \in Directories /\ Held(e, r, s) /\ FrameOf(e, r, s)' = FrameOf(e, r, s)
           First(e, r, s) == e = d /\ r = i /\ s = j /\ FrameOf(e, r, s)' = f /\ f \in used' \ used
                             /\ f >= POOL_START
           Second(e, r, s) == e = d /\ r = k /\ s = -1 /\ FrameOf(e, r, s)' = g /\ g \in used' \ used
                              /\ g >= POOL_START
<1>1. Old(x, m, n) \/ First(x, m, n) \/ Second(x, m, n)
  BY DEF Adds
<1>2. Held(y, p, q)' => Old(y, p, q) \/ First(y, p, q) \/ Second(y, p, q)
  BY DEF Adds
<1>3. FrameOf(x, m, n)' \in used' /\ FrameOf(x, m, n)' >= POOL_START
  BY <1>1 DEF HoldersInv
<1>4. ASSUME Held(y, p, q)', FrameOf(x, m, n)' = FrameOf(y, p, q)'
      PROVE  x = y /\ m = p /\ n = q
  <2>1. CASE Old(x, m, n)
    <3>1. FrameOf(x, m, n) \in used
      BY <2>1 DEF HoldersInv
    <3>2. Old(y, p, q)
      BY <1>2, <1>4, <2>1, <3>1
    <3>3. FrameOf(x, m, n) = FrameOf(y, p, q)
      BY <1>4, <2>1, <3>2, Zenon
    <3> QED BY <2>1, <3>2, <3>3 DEF HoldersInv
  <2>2. CASE First(x, m, n)
    <3>1. ~Old(y, p, q)
      BY <1>4, <2>2 DEF HoldersInv
    <3> QED BY <1>2, <1>4, <2>2, <3>1
  <2>3. CASE Second(x, m, n)
    <3>1. ~Old(y, p, q)
      BY <1>4, <2>3 DEF HoldersInv
    <3> QED BY <1>2, <1>4, <2>3, <3>1
  <2> QED BY <1>1, <2>1, <2>2, <2>3
<1> QED BY <1>3, <1>4

\* Every directory's entries lead to frames, and a page without a table has not
\* been mapped.
LEMMA MappedFacts ==
  ASSUME PagingConstants, PagingInv, NEW d \in Directories, NEW i \in Own(d), NEW j \in Index
  PROVE  /\ Own(d) \subseteq Index
         /\ ~memory[d][i].present => Mapped(d, <<i, j>>) = NONE
<1>1. Own(d) \subseteq Index
  BY DEF Own
<1>2. CASE d = kernel_directory
  <2>1. memory[d][i] = IF pd_tables[i] = 0 THEN NONE ELSE Entry(pd_tables[i], {"W"})
    BY <1>1, <1>2 DEF PagingInv, DirectoriesInv
  <2>2. pd_tables[i] \in RAM
    BY <1>1 DEF PagingInv, Types
  <2>3. ~memory[d][i].present => pd_tables[i] = 0
    BY <2>1 DEF Entry
  <2>4. <<i, j>> \in DOMAIN kmap => pd_tables[i] # 0
    BY DEF PagingInv, DirectoriesInv
  <2> QED BY <1>1, <1>2, <2>3, <2>4 DEF Mapped
<1>3. CASE d # kernel_directory
  <2>1. d \in DOMAIN granted
    BY <1>3 DEF Directories
  <2>2. memory[d][0].present
    BY <2>1 DEF PagingInv, DirectoriesInv
  <2>3. <<i, j>> \in DOMAIN granted[d] => memory[d][i].present
    BY <2>1 DEF PagingInv, DirectoriesInv
  <2> QED BY <1>1, <1>3, <2>2, <2>3 DEF Mapped
<1> QED BY <1>2, <1>3

\* Directory d gets page <<a, b>> through its table, or through a new one.
MapsPage(d, a, b, f, flags, table) ==
  /\ memory[d][a].present => table = memory[d][a].frame
  /\ ~memory[d][a].present => table \in RAM \ used /\ table >= POOL_START
  /\ f # table /\ used \subseteq used' /\ used' \subseteq RAM /\ table \in used'
  /\ a >= KERNEL_PDE_COUNT => f \in used' \ used /\ f >= POOL_START
  /\ memory' = SetEntry(d, <<a, b>>, f, flags, table)
  /\ Directories' = Directories
  /\ \A e \in Directories, i, j \in Index :
       Mapped(e, <<i, j>>)' = IF e = d /\ i = a /\ j = b THEN Entry(f, flags) ELSE Mapped(e, <<i, j>>)

\* paging_map_page_in and paging_map_page write one entry, through a table that was
\* there or a fresh one: tables hold what was mapped, and no frame is held twice.
LEMMA PageMapped ==
  ASSUME PagingConstants, PagingInv, NEW d \in Directories, NEW a \in Own(d), NEW b \in Index,
         NEW f \in RAM, NEW flags \in SUBSET {"W", "U"}, NEW table,
         MapsPage(d, a, b, f, flags, table)
  PROVE  /\ memory' \in [RAM -> [Index -> TableEntries]]
         /\ \A e \in Directories, i \in Index : e # d \/ i # a => memory'[e][i] = memory[e][i]
         /\ memory'[d][a] = Entry(table, IF memory[d][a].present
                                         THEN memory[d][a].flags \union (flags \cap {"U"})
                                         ELSE {"W"} \union (flags \cap {"U"}))
         /\ TablesInv' /\ HoldersInv'
<1>1. /\ d \in RAM /\ a \in Index /\ Own(d) \subseteq Index /\ Directories \subseteq used
      /\ Directories \subseteq RAM /\ used \subseteq RAM
  BY HolderFacts, MappedFacts, Zenon DEF PagingInv, Types
<1>2. table \in RAM /\ table \notin Directories /\ table >= POOL_START
  <2>1. CASE memory[d][a].present
    BY <2>1, HolderFacts DEF MapsPage
  <2>2. CASE ~memory[d][a].present
    BY <1>1, <2>2 DEF MapsPage
  <2> QED BY <2>1, <2>2
<1>3. d # table /\ memory' = SetEntry(d, <<a, b>>, f, flags, table) /\ Types
  BY <1>2 DEF MapsPage, PagingInv
<1>4. Written(d, a, b, f, flags, table)
  BY <1>1, <1>2, <1>3, SetEntryFacts
<1>5. \A e \in Directories, i \in Index : e # d \/ i # a => memory'[e][i] = memory[e][i]
  BY <1>1, <1>2, <1>4 DEF Written
<1>6. memory'[d][a] = Entry(table, IF memory[d][a].present
                                  THEN memory[d][a].flags \union (flags \cap {"U"})
                                  ELSE {"W"} \union (flags \cap {"U"}))
  <2>2. memory[d][a].present => table = memory[d][a].frame
    BY DEF MapsPage
  <2> QED BY <1>4, <2>2 DEF Written
<1>7. memory'[d][a].present /\ memory'[d][a].frame = table
  BY <1>6 DEF Entry
<1>8. \A e \in Directories, i, j \in Index :
        Mapped(e, <<i, j>>)' = IF e = d /\ i = a /\ j = b THEN Entry(f, flags) ELSE Mapped(e, <<i, j>>)
  BY DEF MapsPage
<1>9. TablesInv'
  <2> SUFFICES ASSUME NEW e \in Directories, NEW i \in Own(e), NEW j \in Index, memory'[e][i].present
               PROVE  memory'[memory'[e][i].frame][j] = Mapped(e, <<i, j>>)'
    BY DEF TablesInv, MapsPage
  <2>1. i \in Index
    BY DEF Own
  <2>2. CASE e = d /\ i = a
    <3>1. j # b => memory'[table][j] = Mapped(d, <<a, j>>)
      BY <1>1, <1>4, MappedFacts DEF MapsPage, PagingInv, TablesInv, Written
    <3> QED BY Zenon, <1>1, <1>4, <1>7, <1>8, <2>2, <3>1 DEF Written
  <2>3. CASE e # d \/ i # a
    <3>1. memory'[e][i] = memory[e][i] /\ Mapped(e, <<i, j>>)' = Mapped(e, <<i, j>>)
      BY <1>5, <1>8, <2>1, <2>3
    <3> DEFINE t == memory[e][i].frame
    <3>2. memory[e][i].present /\ t \in RAM /\ t \notin Directories /\ t \in used
      BY Zenon, <3>1, HolderFacts
    <3>3. t # table
      BY <2>3, <3>2, HolderFacts DEF MapsPage
    <3>4. memory'[t] = memory[t]
      BY <1>2, <1>4, <3>2, <3>3 DEF Written
    <3> QED BY <3>1, <3>2, <3>4 DEF PagingInv, TablesInv
  <2> QED BY Zenon, <2>2, <2>3
<1>10. HoldersInv'
  <2>1. Adds(d, a, b, f, a, table)
    <3> SUFFICES ASSUME NEW e \in Directories, NEW m \in Slots, NEW n \in Slots, Held(e, m, n)'
                 PROVE  \/ Held(e, m, n) /\ FrameOf(e, m, n)' = FrameOf(e, m, n)
                        \/ /\ e = d /\ m = a /\ n = b /\ FrameOf(e, m, n)' = f /\ f \in used' \ used
                           /\ f >= POOL_START
                        \/ /\ e = d /\ m = a /\ n = -1 /\ FrameOf(e, m, n)' = table
                           /\ table \in used' \ used /\ table >= POOL_START
      BY DEF Adds, MapsPage
    <3>1. CASE m = -1
      BY <3>1, Sizes DEF Held, FrameOf, Own
    <3>2. CASE m # -1 /\ n = -1
      <4>1. m \in Own(e) /\ memory'[e][m].present /\ m \in Index /\ n \notin Index
        BY <3>2, Sizes DEF Held, Own, Index
      <4>2. FrameOf(e, m, n)' = memory'[e][m].frame /\ FrameOf(e, m, n) = memory[e][m].frame
        BY <3>2 DEF FrameOf
      <4>3. CASE memory[e][m].present
        <5>1. Held(e, m, n)
          BY Zenon, <3>2, <4>1, <4>3 DEF Held
        <5>2. memory'[e][m].frame = memory[e][m].frame
          BY Zenon, <1>5, <1>7, <4>1, <4>3 DEF MapsPage
        <5> QED BY Zenon, <4>2, <5>1, <5>2
      <4>4. CASE ~memory[e][m].present
        <5>1. e = d /\ m = a
          BY <1>5, <4>1, <4>4
        <5> QED BY Zenon, <1>2, <1>7, <3>2, <4>2, <4>4, <5>1 DEF MapsPage
      <4> QED BY <4>3, <4>4
    <3>3. CASE m # -1 /\ n # -1
      <4>1. m >= KERNEL_PDE_COUNT /\ n \in Index /\ Mapped(e, <<m, n>>)'.present /\ m \in Index
        BY <3>3, Sizes DEF Held, Slots, Index
      <4>2. FrameOf(e, m, n)' = Mapped(e, <<m, n>>)'.frame /\ FrameOf(e, m, n) = Mapped(e, <<m, n>>).frame
        BY <3>3 DEF FrameOf
      <4>3. CASE e = d /\ m = a /\ n = b
        <5>1. Mapped(e, <<m, n>>)' = Entry(f, flags)
          BY <1>8, <4>1, <4>3
        <5>2. FrameOf(e, m, n)' = f
          BY <4>2, <5>1, EntryFacts, Zenon
        <5> QED BY <4>1, <4>3, <5>2 DEF MapsPage
      <4>4. CASE ~(e = d /\ m = a /\ n = b)
        <5>1. Mapped(e, <<m, n>>)' = Mapped(e, <<m, n>>)
          BY <1>8, <4>1, <4>4
        <5>2. Held(e, m, n)
          BY <4>1, <5>1 DEF Held
        <5> QED BY <4>2, <5>1, <5>2
      <4> QED BY Zenon, <4>3, <4>4
    <3> QED BY Zenon, <3>1, <3>2, <3>3
  <2>2. f # table /\ used \subseteq used' /\ HoldersInv
    BY DEF MapsPage, PagingInv
  <2> QED BY <2>1, <2>2, HoldersAdded
<1> QED BY <1>4, <1>5, <1>6, <1>9, <1>10 DEF Written

\* Between two states no holder is new, and those that are left keep their frames,
\* which are none of those that are freed.
Keeps(freed) ==
  \A e \in Directories', m, n \in Slots : Held(e, m, n)' =>
    /\ e \in Directories /\ Held(e, m, n) /\ FrameOf(e, m, n)' = FrameOf(e, m, n)
    /\ FrameOf(e, m, n) \notin freed

\* A step that adds no holder, and frees what nobody holds any more, keeps every
\* frame with one.
LEMMA HoldersKept ==
  ASSUME HoldersInv, NEW freed, used \ freed \subseteq used', Keeps(freed)
  PROVE  HoldersInv'
<1> SUFFICES ASSUME NEW x \in Directories', NEW y \in Directories',
                    NEW m \in Slots, NEW n \in Slots, NEW p \in Slots, NEW q \in Slots,
                    Held(x, m, n)'
             PROVE  /\ FrameOf(x, m, n)' \in used' /\ FrameOf(x, m, n)' >= POOL_START
                    /\ Held(y, p, q)' /\ FrameOf(x, m, n)' = FrameOf(y, p, q)' => x = y /\ m = p /\ n = q
  BY DEF HoldersInv
<1>1. /\ x \in Directories /\ Held(x, m, n) /\ FrameOf(x, m, n)' = FrameOf(x, m, n)
      /\ FrameOf(x, m, n) \notin freed
  BY DEF Keeps
<1>2. Held(y, p, q)' => y \in Directories /\ Held(y, p, q) /\ FrameOf(y, p, q)' = FrameOf(y, p, q)
  BY DEF Keeps
<1>3. FrameOf(x, m, n) \in used /\ FrameOf(x, m, n) >= POOL_START
  BY <1>1 DEF HoldersInv
<1>4. ASSUME Held(y, p, q)', FrameOf(x, m, n)' = FrameOf(y, p, q)'
      PROVE  x = y /\ m = p /\ n = q
  <2>1. y \in Directories /\ Held(y, p, q) /\ FrameOf(x, m, n) = FrameOf(y, p, q)
    BY <1>1, <1>2, <1>4
  <2> QED BY <1>1, <2>1 DEF HoldersInv
<1> QED BY <1>1, <1>3, <1>4

\* A frame that is taken and forgotten disturbs nothing.
LEMMA UsedGrows ==
  ASSUME PagingInv, used \subseteq used', used' \subseteq RAM,
         UNCHANGED <<memory, pd_tables, kmap, granted>>
  PROVE  PagingInv'
<1>1. Directories' = Directories
  BY DEF Directories
<1>2. \A d, v : Mapped(d, v)' = Mapped(d, v)
  BY DEF Mapped
<1>3. \A d, i, j : (Held(d, i, j)' <=> Held(d, i, j)) /\ FrameOf(d, i, j)' = FrameOf(d, i, j)
  BY <1>2 DEF Held, FrameOf
<1>4. HoldersInv'
  <2>1. Keeps({})
    BY <1>1, <1>3 DEF Keeps
  <2> QED BY <2>1, HoldersKept DEF PagingInv
<1>5. Types'
  BY DEF Types, PagingInv
<1>6. MappingsInv'
  BY DEF MappingsInv, PagingInv
<1>7. DirectoriesInv'
  BY DEF DirectoriesInv, PagingInv
<1>8. TablesInv'
  BY <1>1, <1>2 DEF TablesInv, PagingInv
<1> QED BY <1>4, <1>5, <1>6, <1>7, <1>8 DEF PagingInv

\* What Grant records.
LEMMA GrantFacts ==
  ASSUME NEW d \in DOMAIN granted, NEW v, NEW f, NEW flags, Grant(d, v, f, flags)
  PROVE  /\ DOMAIN granted' = DOMAIN granted
         /\ \A e \in DOMAIN granted \ {d} : granted'[e] = granted[e]
         /\ DOMAIN granted'[d] = DOMAIN granted[d] \union {v}
         /\ granted'[d][v] = Entry(f, flags)
         /\ \A w \in DOMAIN granted[d] \ {v} : granted'[d][w] = granted[d][w]
<1> DEFINE new == [w \in DOMAIN granted[d] \union {v} |->
                     IF w = v THEN Entry(f, flags) ELSE granted[d][w]]
<1>1. granted' = [granted EXCEPT ![d] = new]
  BY DEF Grant
<1>2. /\ DOMAIN new = DOMAIN granted[d] \union {v} /\ new[v] = Entry(f, flags)
      /\ \A w \in DOMAIN granted[d] \ {v} : new[w] = granted[d][w]
  OBVIOUS
<1> HIDE DEF new
<1>3. DOMAIN granted' = DOMAIN granted /\ granted'[d] = new
      /\ \A e \in DOMAIN granted \ {d} : granted'[e] = granted[e]
  BY <1>1
<1> QED BY <1>2, <1>3

\* paging_map_page_in for a task: a page of code at its own frame, or another page
\* at a frame that was free.
LEMMA PageGranted ==
  ASSUME PagingConstants, PagingInv, NEW d \in DOMAIN granted, NEW v \in CodePages \union UserPages,
         NEW f \in RAM, NEW flags \in SUBSET {"W", "U"}, "U" \in flags,
         NEW taken \in SUBSET RAM, used \subseteq taken,
         v \in CodePages => f = Identity(v) /\ flags = {"W", "U"},
         v \in UserPages => f \in taken \ used /\ f >= POOL_START,
         paging_map_page_in(d, v, f, flags, taken)
  PROVE  PagingInv'
<1> DEFINE a == v[1]
           b == v[2]
           table == IF memory[d][a].present THEN memory[d][a].frame ELSE FirstFree(taken)
<1>1. CASE table = 0
  <2>1. d \in RAM /\ (memory[d][a].present => table # 0)
    <3>1. d \in Directories /\ a \in Own(d)
      BY PageShape DEF Directories, Own, PagingInv, MappingsInv
    <3> QED BY <3>1, HolderFacts, Sizes
  <2>2. used' = taken /\ UNCHANGED <<memory, granted, pd_tables, kmap>>
    BY Zenon, <1>1, Allocated, Sizes DEF paging_map_page_in
  <2> QED BY Zenon, <2>2, UsedGrows
<1>2. CASE table # 0
  <2>1. /\ used' = taken \union {table} /\ memory' = SetEntry(d, v, f, flags, table)
        /\ Grant(d, v, f, flags) /\ UNCHANGED <<pd_tables, kmap>>
    BY <1>2 DEF paging_map_page_in
  <2>2. /\ v = <<a, b>> /\ b \in Index /\ a \in Index /\ (a = 0 \/ a >= KERNEL_PDE_COUNT)
        /\ (a = 0 => v \in CodePages) /\ (a >= KERNEL_PDE_COUNT => v \in UserPages)
    BY PageShape, Sizes
  <2>3. d # kernel_directory /\ d \in Directories /\ a \in Own(d)
    BY Zenon, <2>2 DEF PagingInv, MappingsInv, Directories, Own
  <2>4. /\ DOMAIN granted' = DOMAIN granted
        /\ \A e \in DOMAIN granted \ {d} : granted'[e] = granted[e]
        /\ DOMAIN granted'[d] = DOMAIN granted[d] \union {v}
        /\ granted'[d][v] = Entry(f, flags)
        /\ \A w \in DOMAIN granted[d] \ {v} : granted'[d][w] = granted[d][w]
    BY <2>1, GrantFacts
  <2>5. Directories' = Directories
    BY <2>4 DEF Directories, kernel_directory
  <2>6. \A e \in Directories, i, j \in Index :
          Mapped(e, <<i, j>>)' = IF e = d /\ i = a /\ j = b THEN Entry(f, flags) ELSE Mapped(e, <<i, j>>)
    <3> TAKE e \in Directories, i, j \in Index
    <3>1. CASE e = kernel_directory
      BY Zenon, <2>1, <2>3, <3>1 DEF Mapped, kernel_directory
    <3>2. CASE e # kernel_directory /\ e # d
      BY <2>4, <3>2 DEF Mapped, Directories, kernel_directory, Identity
    <3>3. CASE e = d
      <4>1. <<i, j>> = v <=> i = a /\ j = b
        BY <2>2
      <4>2. CASE <<i, j>> = v
        BY Zenon, <2>3, <2>4, <3>3, <4>1, <4>2 DEF Mapped, kernel_directory
      <4>3. CASE <<i, j>> # v
        BY Zenon, <2>3, <2>4, <3>3, <4>1, <4>3 DEF Mapped, kernel_directory, Identity
      <4> QED BY <4>2, <4>3
    <3> QED BY <3>1, <3>2, <3>3
  <2>7. ~memory[d][a].present => table \in RAM \ taken /\ table >= POOL_START
    BY Zenon, <1>2, Allocated
  <2>8. memory[d][a].present => table \in used /\ table \in RAM /\ table >= POOL_START
    BY Zenon, <2>3, HolderFacts
  <2>9. f # table
    <3>1. CASE v \in CodePages
      <4>1. f = b /\ b < POOL_START /\ b \in Nat /\ ENTRIES \in Nat
        BY <3>1, PageShape, Sizes DEF Identity
      <4> QED BY <4>1, <2>7, <2>8, Sizes
    <3>2. CASE v \in UserPages
      BY <2>7, <2>8, <3>2
    <3> QED BY Zenon, <3>1, <3>2
  <2>10. a >= KERNEL_PDE_COUNT => f \in used' \ used /\ f >= POOL_START
    BY Zenon, <2>1, <2>2
  <2>11. MapsPage(d, a, b, f, flags, table)
    BY <2>1, <2>2, <2>5, <2>6, <2>7, <2>8, <2>9, <2>10 DEF MapsPage
  <2>12. /\ memory' \in [RAM -> [Index -> TableEntries]]
         /\ \A e \in Directories, i \in Index : e # d \/ i # a => memory'[e][i] = memory[e][i]
         /\ memory'[d][a] = Entry(table, IF memory[d][a].present
                                         THEN memory[d][a].flags \union (flags \cap {"U"})
                                         ELSE {"W"} \union (flags \cap {"U"}))
         /\ TablesInv' /\ HoldersInv'
    <3> HIDE DEF a, b, table
    <3> QED BY <2>2, <2>3, <2>11, PageMapped, Zenon
  <2> HIDE DEF table
  <2>13. Types'
    BY <2>1, <2>7, <2>8, <2>12, Zenon DEF Types, PagingInv
  <2>14. MappingsInv'
    <3>1. Entry(f, flags) \in TableEntries /\ Entry(f, flags).present /\ "U" \in Entry(f, flags).flags
      BY EntryFacts, Zenon
    <3>2. /\ DOMAIN granted'[d] \subseteq CodePages \union UserPages
          /\ \A w \in DOMAIN granted'[d] :
               /\ granted'[d][w] \in TableEntries /\ granted'[d][w].present
               /\ "U" \in granted'[d][w].flags
               /\ w \in CodePages => granted'[d][w] = Entry(Identity(w), {"W", "U"})
      BY <2>4, <3>1, Zenon DEF PagingInv, MappingsInv
    <3> QED BY <2>1, <2>4, <3>2 DEF PagingInv, MappingsInv, kernel_directory
  <2>15. DirectoriesInv'
    <3>1. memory'[d][a].present /\ "U" \in memory'[d][a].flags
      <4> DEFINE all == IF memory[d][a].present THEN memory[d][a].flags \union (flags \cap {"U"})
                        ELSE {"W"} \union (flags \cap {"U"})
      <4>1. "U" \in all
        OBVIOUS
      <4>2. memory'[d][a] = Entry(table, all)
        BY <2>12
      <4>3. Entry(table, all).present /\ Entry(table, all).flags = all
        BY Zenon DEF Entry
      <4> HIDE DEF all
      <4> QED BY <4>1, <4>2, <4>3, Zenon
    <3>2. "W" \in memory[d][0].flags /\ memory[d][0].present
      BY Zenon DEF PagingInv, DirectoriesInv
    <3>3. /\ a >= KERNEL_PDE_COUNT => memory'[d][a].flags = {"W", "U"}
          /\ a = 0 => "W" \in memory'[d][a].flags
      <4>1. a >= KERNEL_PDE_COUNT /\ memory[d][a].present => memory[d][a].flags = {"W", "U"}
        BY <2>2 DEF PagingInv, DirectoriesInv, Index
      <4> QED BY <2>12, <3>2, <4>1 DEF Entry
    <3>4. \A i \in Index : memory'[kernel_directory][i] = memory[kernel_directory][i]
      BY Zenon, <2>3, <2>12 DEF Directories
    <3>5. ASSUME NEW e \in DOMAIN granted
          PROVE  /\ \A i \in 1 .. KERNEL_PDE_COUNT - 1 : memory'[e][i] = Entry(KernelTable(i), {"W"})
                 /\ memory'[e][0].present /\ "W" \in memory'[e][0].flags
                 /\ \A i \in KERNEL_PDE_COUNT .. ENTRIES - 1 :
                      memory'[e][i].present => memory'[e][i].flags = {"W", "U"}
                 /\ \A w \in DOMAIN granted'[e] :
                      memory'[e][w[1]].present /\ "U" \in memory'[e][w[1]].flags
      <4>1. \A i \in Index : e # d \/ i # a => memory'[e][i] = memory[e][i]
        BY Zenon, <2>12 DEF Directories
      <4>2. /\ \A i \in 1 .. KERNEL_PDE_COUNT - 1 : memory[e][i] = Entry(KernelTable(i), {"W"})
            /\ memory[e][0].present /\ "W" \in memory[e][0].flags
            /\ \A i \in KERNEL_PDE_COUNT .. ENTRIES - 1 :
                 memory[e][i].present => memory[e][i].flags = {"W", "U"}
            /\ \A w \in DOMAIN granted[e] : memory[e][w[1]].present /\ "U" \in memory[e][w[1]].flags
            /\ \A w \in DOMAIN granted[e] : w[1] \in Index
        BY Zenon, PageShape DEF PagingInv, DirectoriesInv, MappingsInv
      <4>3. \A i \in 1 .. KERNEL_PDE_COUNT - 1 : memory'[e][i] = Entry(KernelTable(i), {"W"})
        BY <2>2, <4>1, <4>2, Sizes
      <4>4. memory'[e][0].present /\ "W" \in memory'[e][0].flags
        BY Zenon, <3>1, <3>3, <4>1, <4>2, Sizes
      <4>5. \A i \in KERNEL_PDE_COUNT .. ENTRIES - 1 :
              memory'[e][i].present => memory'[e][i].flags = {"W", "U"}
        BY <3>3, <4>1, <4>2, Sizes DEF Index
      <4>6. \A w \in DOMAIN granted'[e] : memory'[e][w[1]].present /\ "U" \in memory'[e][w[1]].flags
        BY <2>4, <3>1, <4>1, <4>2
      <4> QED BY Zenon, <4>3, <4>4, <4>5, <4>6
    <3>6. /\ \A i \in Index : memory'[kernel_directory][i] =
               IF pd_tables[i] = 0 THEN NONE ELSE Entry(pd_tables[i], {"W"})
          /\ \A i \in 0 .. KERNEL_PDE_COUNT - 1 : pd_tables[i] = KernelTable(i)
          /\ \A w \in DOMAIN kmap : pd_tables[w[1]] # 0
      BY Zenon, <3>4 DEF PagingInv, DirectoriesInv
    <3> QED BY Zenon, <2>1, <2>4, <3>5, <3>6 DEF DirectoriesInv, kernel_directory, KernelTable
  <2> QED BY Zenon, <2>12, <2>13, <2>14, <2>15 DEF PagingInv
<1> QED BY <1>1, <1>2

------------------------------------------------------------------------------
\* The kernel's directory: its entries and pd_tables.
LEMMA KernelEntry ==
  ASSUME PagingConstants, PagingInv, NEW i \in Index
  PROVE  /\ pd_tables[i] \in RAM
         /\ memory[kernel_directory][i].present <=> pd_tables[i] # 0
         /\ pd_tables[i] # 0 => /\ memory[kernel_directory][i].frame = pd_tables[i]
                                /\ memory[kernel_directory][i].flags = {"W"}
         /\ kernel_directory \in Directories /\ i \in Own(kernel_directory)
<1>1. memory[kernel_directory][i] = IF pd_tables[i] = 0 THEN NONE ELSE Entry(pd_tables[i], {"W"})
  BY DEF PagingInv, DirectoriesInv
<1>2. pd_tables[i] \in RAM
  BY DEF PagingInv, Types
<1> QED BY <1>1, <1>2 DEF Directories, Own, Entry, NONE

\* paging_map_page keeps the invariant.
LEMMA MapStep ==
  ASSUME PagingConstants, PagingInv, NEW v \in KernelPages, paging_map_page(v)
  PROVE  PagingInv'
<1> DEFINE a == v[1]
           b == v[2]
           f == FirstFree(used)
           taken == used \union {f}
           table == IF memory[kernel_directory][a].present THEN pd_tables[a] ELSE FirstFree(taken)
<1>1. /\ v = <<a, b>> /\ a \in Index /\ b \in Index /\ a >= KERNEL_PDE_COUNT
      /\ a \in KERNEL_PDE_COUNT .. ENTRIES - 1
  BY PageShape, Sizes
<1>2. f # 0 /\ f \in RAM /\ f >= POOL_START /\ f \notin used
  BY Allocated DEF paging_map_page
<1>3. CASE table = 0
  <2>1. UNCHANGED vars
    BY <1>3 DEF paging_map_page
  <2>2. used \subseteq RAM
    BY Zenon DEF PagingInv, Types
  <2> QED BY <2>1, <2>2, UsedGrows DEF vars
<1>4. CASE table # 0
  <2>1. /\ used' = taken \union {table} /\ memory' = SetEntry(kernel_directory, v, f, {"W"}, table)
        /\ pd_tables' = [pd_tables EXCEPT ![a] = table]
        /\ kmap' = [w \in DOMAIN kmap \union {v} |-> IF w = v THEN f ELSE kmap[w]]
        /\ granted' = granted
    BY Zenon, <1>4 DEF paging_map_page
  <2>2. /\ DOMAIN kmap' = DOMAIN kmap \union {v} /\ kmap'[v] = f
        /\ \A w \in DOMAIN kmap \ {v} : kmap'[w] = kmap[w]
    BY <2>1
  <2>3. Directories' = Directories
    BY <2>1 DEF Directories
  <2>4. \A e \in Directories, i, j \in Index :
          Mapped(e, <<i, j>>)' = IF e = kernel_directory /\ i = a /\ j = b
                                 THEN Entry(f, {"W"}) ELSE Mapped(e, <<i, j>>)
    <3> TAKE e \in Directories, i, j \in Index
    <3>1. <<i, j>> = v <=> i = a /\ j = b
      BY <1>1
    <3>2. CASE e # kernel_directory
      BY <2>1, <3>2 DEF Mapped
    <3>3. CASE e = kernel_directory
      BY Zenon, <2>2, <3>1, <3>3 DEF Mapped
    <3> QED BY <3>2, <3>3
  <2>5. /\ kernel_directory \in Directories /\ a \in Own(kernel_directory)
        /\ memory[kernel_directory][a].present <=> pd_tables[a] # 0
        /\ pd_tables[a] # 0 => /\ memory[kernel_directory][a].frame = pd_tables[a]
                               /\ memory[kernel_directory][a].flags = {"W"}
    BY Zenon, <1>1, KernelEntry
  <2>6. /\ memory[kernel_directory][a].present => table = memory[kernel_directory][a].frame
        /\ memory[kernel_directory][a].present => table \in RAM /\ table \in used
    BY Zenon, <2>5, HolderFacts
  <2>7. ~memory[kernel_directory][a].present =>
          table \in RAM \ used /\ table >= POOL_START /\ table # f
    BY Zenon, <1>4, Allocated
  <2>8. used \subseteq RAM
    BY DEF PagingInv, Types
  <2>9. MapsPage(kernel_directory, a, b, f, {"W"}, table)
    <3> HIDE DEF f, table
    <3> QED BY <1>1, <1>2, <2>1, <2>3, <2>4, <2>6, <2>7, <2>8 DEF MapsPage
  <2>10. /\ memory' \in [RAM -> [Index -> TableEntries]]
         /\ \A e \in Directories, i \in Index :
              e # kernel_directory \/ i # a => memory'[e][i] = memory[e][i]
         /\ memory'[kernel_directory][a] =
              Entry(table, IF memory[kernel_directory][a].present
                           THEN memory[kernel_directory][a].flags \union ({"W"} \cap {"U"})
                           ELSE {"W"} \union ({"W"} \cap {"U"}))
         /\ TablesInv' /\ HoldersInv'
    <3> HIDE DEF a, b, f, table
    <3> QED BY <1>1, <1>2, <2>5, <2>9, PageMapped, Zenon
  <2>11. memory'[kernel_directory][a] = Entry(table, {"W"})
    <3>1. {"W"} \union ({"W"} \cap {"U"}) = {"W"}
      OBVIOUS
    <3> QED BY <2>5, <2>10, <3>1, Zenon
  <2> HIDE DEF f, table
  <2>12. Types'
    BY Zenon, <1>1, <1>2, <2>1, <2>6, <2>7, <2>8, <2>10 DEF Types, PagingInv
  <2>13. MappingsInv'
    <3>1. v \notin KernelRange
      BY PageShape
    <3>2. kmap' \in [DOMAIN kmap' -> RAM]
      BY <1>2, <2>1, <2>2 DEF PagingInv, MappingsInv
    <3>3. /\ KernelRange \subseteq DOMAIN kmap' /\ DOMAIN kmap' \subseteq KernelRange \union KernelPages
          /\ \A w \in KernelRange : kmap'[w] = Identity(w)
      BY <2>2, <3>1 DEF PagingInv, MappingsInv
    <3> QED BY Zenon, <2>1, <3>2, <3>3 DEF PagingInv, MappingsInv
  <2>14. DirectoriesInv'
    <3>1. /\ pd_tables'[a] = table /\ \A i \in Index \ {a} : pd_tables'[i] = pd_tables[i]
      BY Zenon, <1>1, <2>1 DEF PagingInv, Types
    <3>2. \A i \in Index : memory'[kernel_directory][i] =
            IF pd_tables'[i] = 0 THEN NONE ELSE Entry(pd_tables'[i], {"W"})
      BY SMTT(20), <1>4, <2>5, <2>10, <2>11, <3>1 DEF PagingInv, DirectoriesInv
    <3>3. \A i \in 0 .. KERNEL_PDE_COUNT - 1 : pd_tables'[i] = KernelTable(i)
      BY <1>1, <3>1, Sizes DEF PagingInv, DirectoriesInv
    <3>4. \A w \in DOMAIN kmap' : pd_tables'[w[1]] # 0
      <4>1. \A w \in DOMAIN kmap : w[1] \in Index /\ pd_tables[w[1]] # 0
        BY PageShape DEF PagingInv, MappingsInv, DirectoriesInv
      <4> QED BY Zenon, <1>4, <2>2, <3>1, <4>1
    <3>5. \A e \in DOMAIN granted, i \in Index : memory'[e][i] = memory[e][i]
      BY Zenon, <2>10 DEF PagingInv, MappingsInv, Directories
    <3>6. ASSUME NEW e \in DOMAIN granted
          PROVE  /\ \A i \in 1 .. KERNEL_PDE_COUNT - 1 : memory'[e][i] = Entry(KernelTable(i), {"W"})
                 /\ memory'[e][0].present /\ "W" \in memory'[e][0].flags
                 /\ \A i \in KERNEL_PDE_COUNT .. ENTRIES - 1 :
                      memory'[e][i].present => memory'[e][i].flags = {"W", "U"}
                 /\ \A w \in DOMAIN granted[e] :
                      memory'[e][w[1]].present /\ "U" \in memory'[e][w[1]].flags
      <4>1. 0 \in Index /\ \A i \in 1 .. KERNEL_PDE_COUNT - 1 : i \in Index
        BY Sizes
      <4>2. \A i \in KERNEL_PDE_COUNT .. ENTRIES - 1 : i \in Index
        BY Sizes DEF Index
      <4>3. \A w \in DOMAIN granted[e] : w[1] \in Index
        BY PageShape DEF PagingInv, MappingsInv
      <4> QED BY <3>5, <4>1, <4>2, <4>3 DEF PagingInv, DirectoriesInv
    <3> QED BY <2>1, <3>2, <3>3, <3>4, <3>6 DEF DirectoriesInv
  <2> QED BY Zenon, <2>10, <2>12, <2>13, <2>14 DEF PagingInv
<1> QED BY <1>3, <1>4

\* paging_unmap_page keeps the invariant.
LEMMA UnmapStep ==
  ASSUME PagingConstants, PagingInv, NEW v \in KernelPages, paging_unmap_page(v)
  PROVE  PagingInv'
<1> DEFINE a == v[1]
           b == v[2]
           table == pd_tables[a]
<1>1. /\ v = <<a, b>> /\ a \in Index /\ b \in Index /\ a >= KERNEL_PDE_COUNT
      /\ a \in KERNEL_PDE_COUNT .. ENTRIES - 1 /\ v \notin KernelRange
  BY PageShape, Sizes
<1>2. /\ v \in DOMAIN kmap /\ memory' = [memory EXCEPT ![table][b] = NONE]
      /\ used' = used \ {kmap[v]} /\ kmap' = [w \in DOMAIN kmap \ {v} |-> kmap[w]]
      /\ UNCHANGED <<pd_tables, granted>>
  BY DEF paging_unmap_page, ClearEntry
<1>3. DOMAIN kmap' = DOMAIN kmap \ {v} /\ \A w \in DOMAIN kmap \ {v} : kmap'[w] = kmap[w]
  BY Zenon, <1>2
<1>4. /\ kernel_directory \in Directories /\ a \in Own(kernel_directory)
      /\ memory[kernel_directory][a].present /\ memory[kernel_directory][a].frame = table
  BY Zenon, <1>1, <1>2, KernelEntry DEF PagingInv, DirectoriesInv
<1>5. table \in RAM /\ table \notin Directories
  BY Zenon, <1>4, HolderFacts
<1>6. memory \in [RAM -> [Index -> TableEntries]] /\ NONE \in TableEntries
  BY NoneFacts DEF PagingInv, Types
<1>7. /\ memory' \in [RAM -> [Index -> TableEntries]]
      /\ \A x \in RAM \ {table} : memory'[x] = memory[x]
      /\ memory'[table][b] = NONE /\ \A j \in Index \ {b} : memory'[table][j] = memory[table][j]
  <2> DEFINE q == [memory[table] EXCEPT ![b] = NONE]
  <2>1. q \in [Index -> TableEntries] /\ q[b] = NONE /\ \A j \in Index \ {b} : q[j] = memory[table][j]
    BY Zenon, <1>1, <1>5, <1>6
  <2>2. memory' = [memory EXCEPT ![table] = q]
    BY Zenon, <1>2, <1>5, <1>6
  <2> HIDE DEF q, table
  <2> QED BY <1>5, <1>6, <2>1, <2>2
<1> HIDE DEF table
<1>8. \A d \in Directories : d \in RAM /\ memory'[d] = memory[d]
  BY <1>5, <1>7, HolderFacts
<1>9. Directories' = Directories
  BY <1>2 DEF Directories
<1>10. \A e \in Directories, i, j \in Index :
         Mapped(e, <<i, j>>)' = IF e = kernel_directory /\ i = a /\ j = b
                                THEN NONE ELSE Mapped(e, <<i, j>>)
  <2> TAKE e \in Directories, i, j \in Index
  <2>1. <<i, j>> = v <=> i = a /\ j = b
    BY <1>1
  <2>2. CASE e # kernel_directory
    BY <1>2, <2>2 DEF Mapped
  <2>3. CASE e = kernel_directory
    BY Zenon, <1>3, <2>1, <2>3 DEF Mapped
  <2> QED BY <2>2, <2>3
<1>11. TablesInv'
  <2> SUFFICES ASSUME NEW e \in Directories, NEW i \in Own(e), NEW j \in Index, memory[e][i].present
               PROVE  memory'[memory[e][i].frame][j] = Mapped(e, <<i, j>>)'
    BY <1>8, <1>9 DEF TablesInv
  <2>1. i \in Index /\ memory[memory[e][i].frame][j] = Mapped(e, <<i, j>>)
    BY Zenon DEF Own, PagingInv, TablesInv
  <2>2. CASE e = kernel_directory /\ i = a
    BY Zenon, <1>4, <1>7, <1>10, <2>1, <2>2
  <2>3. CASE e # kernel_directory \/ i # a
    <3>1. memory[e][i].frame \in RAM /\ memory[e][i].frame # table
      BY <1>4, <2>3, HolderFacts
    <3> QED BY Zenon, <1>7, <1>10, <2>1, <2>3, <3>1
  <2> QED BY Zenon, <2>2, <2>3
<1>12. HoldersInv'
  <2>1. Held(kernel_directory, a, b) /\ FrameOf(kernel_directory, a, b) = kmap[v]
    <3>1. Mapped(kernel_directory, <<a, b>>) = Entry(kmap[v], {"W"})
      BY <1>1, <1>2 DEF Mapped
    <3>2. a # -1 /\ b # -1
      BY <1>1, Sizes
    <3> QED BY <1>1, <3>1, <3>2 DEF Held, FrameOf, Entry
  <2>2. Keeps({kmap[v]})
    <3> SUFFICES ASSUME NEW e \in Directories, NEW m \in Slots, NEW n \in Slots, Held(e, m, n)'
                 PROVE  /\ Held(e, m, n) /\ FrameOf(e, m, n)' = FrameOf(e, m, n)
                        /\ FrameOf(e, m, n) # kmap[v]
      BY <1>9 DEF Keeps
    <3>1. /\ Held(e, m, n) /\ FrameOf(e, m, n)' = FrameOf(e, m, n)
          /\ ~(e = kernel_directory /\ m = a /\ n = b)
      <4>1. CASE m = -1
        BY <1>1, <4>1, Sizes DEF Held, FrameOf, Own
      <4>2. CASE m # -1 /\ n = -1
        BY <1>1, <1>8, <4>2, Sizes DEF Held, FrameOf
      <4>3. CASE m # -1 /\ n # -1
        <5>1. m >= KERNEL_PDE_COUNT /\ n \in Index /\ Mapped(e, <<m, n>>)'.present /\ m \in Index
          BY <4>3, Sizes DEF Held, Slots, Index
        <5>2. FrameOf(e, m, n)' = Mapped(e, <<m, n>>)'.frame
              /\ FrameOf(e, m, n) = Mapped(e, <<m, n>>).frame
          BY <4>3 DEF FrameOf
        <5>3. ~(e = kernel_directory /\ m = a /\ n = b)
          BY <1>10, <5>1, NoneFacts, Zenon
        <5>4. Mapped(e, <<m, n>>)' = Mapped(e, <<m, n>>)
          BY <1>10, <5>1, <5>3
        <5>5. Held(e, m, n)
          BY <5>1, <5>4 DEF Held
        <5> QED BY <5>2, <5>3, <5>4, <5>5
      <4> QED BY Zenon, <4>1, <4>2, <4>3
    <3>2. a \in Slots /\ b \in Slots
      BY <1>1, Sizes DEF Slots, Index
    <3> QED BY <1>4, <2>1, <3>1, <3>2 DEF PagingInv, HoldersInv
  <2> QED BY <1>2, <2>2, HoldersKept DEF PagingInv
<1>13. Types'
  BY <1>2, <1>7 DEF PagingInv, Types
<1>14. MappingsInv'
  <2>1. kmap' \in [DOMAIN kmap' -> RAM]
    BY <1>2, <1>3 DEF PagingInv, MappingsInv
  <2>2. /\ KernelRange \subseteq DOMAIN kmap' /\ DOMAIN kmap' \subseteq KernelRange \union KernelPages
        /\ \A w \in KernelRange : kmap'[w] = Identity(w)
    BY Zenon, <1>1, <1>3 DEF PagingInv, MappingsInv
  <2> QED BY <1>2, <2>1, <2>2 DEF PagingInv, MappingsInv
<1>15. DirectoriesInv'
  <2>1. \A w \in DOMAIN kmap' : pd_tables[w[1]] # 0
    BY <1>3 DEF PagingInv, DirectoriesInv
  <2>2. \A d \in Directories : memory'[d] = memory[d]
    BY <1>8
  <2> QED BY <1>2, <2>1, <2>2 DEF PagingInv, DirectoriesInv, Directories
<1> QED BY Zenon, <1>11, <1>12, <1>13, <1>14, <1>15 DEF PagingInv

\* paging_free_directory keeps the invariant: what it frees no other directory holds.
LEMMA FreeStep ==
  ASSUME PagingConstants, PagingInv, NEW d \in DOMAIN granted, paging_free_directory(d)
  PROVE  PagingInv'
<1>1. /\ used' = used \ DirFrames(d) /\ granted' = [e \in DOMAIN granted \ {d} |-> granted[e]]
      /\ UNCHANGED <<memory, pd_tables, kmap>>
  BY DEF paging_free_directory
<1>2. DOMAIN granted' = DOMAIN granted \ {d} /\ \A e \in DOMAIN granted \ {d} : granted'[e] = granted[e]
  BY <1>1
<1>3. d # kernel_directory /\ d \in Directories /\ 0 \in Own(d) /\ 0 \in Index
  BY Sizes DEF PagingInv, MappingsInv, Directories, Own
<1>4. Directories' = Directories \ {d}
  BY Zenon, <1>2, <1>3 DEF Directories, kernel_directory
<1>5. \A e \in Directories \ {d}, v \in Pages : Mapped(e, v)' = Mapped(e, v)
  BY <1>1, <1>2 DEF Mapped, Directories, kernel_directory, Identity
<1>6. \A x \in DirFrames(d) : \E i, j \in Slots : Held(d, i, j) /\ FrameOf(d, i, j) = x
  <2>1. -1 \in Slots /\ Index \subseteq Slots /\ -1 \notin Index
    BY Sizes DEF Slots, Index
  <2>2. Held(d, -1, -1) /\ FrameOf(d, -1, -1) = d
    BY Zenon DEF Held, FrameOf
  <2>3. \A i \in Index : i = 0 \/ (i >= KERNEL_PDE_COUNT /\ memory[d][i].present) =>
          Held(d, i, -1) /\ FrameOf(d, i, -1) = memory[d][i].frame
    <3>1. memory[d][0].present
      BY Zenon DEF PagingInv, DirectoriesInv
    <3> QED BY Zenon, <1>3, <2>1, <3>1 DEF Held, FrameOf, Own
  <2>4. \A i, j \in Index :
          i >= KERNEL_PDE_COUNT /\ memory[d][i].present /\ memory[memory[d][i].frame][j].present =>
            Held(d, i, j) /\ FrameOf(d, i, j) = memory[memory[d][i].frame][j].frame
    <3> SUFFICES ASSUME NEW i \in Index, NEW j \in Index, i >= KERNEL_PDE_COUNT,
                        memory[d][i].present, memory[memory[d][i].frame][j].present
                 PROVE  Held(d, i, j) /\ FrameOf(d, i, j) = memory[memory[d][i].frame][j].frame
      OBVIOUS
    <3>1. memory[memory[d][i].frame][j] = Mapped(d, <<i, j>>)
      BY Zenon, <1>3 DEF PagingInv, TablesInv, Own
    <3> QED BY Zenon, <2>1, <3>1 DEF Held, FrameOf
  <2>5. ASSUME NEW x \in DirFrames(d)
        PROVE  \/ x = d \/ x = memory[d][0].frame
               \/ \E i \in Index : /\ i >= KERNEL_PDE_COUNT /\ memory[d][i].present
                                   /\ \/ x = memory[d][i].frame
                                      \/ \E j \in Index : /\ memory[memory[d][i].frame][j].present
                                                          /\ x = memory[memory[d][i].frame][j].frame
    BY SMTT(20), <2>5 DEF DirFrames, Present
  <2>6. ASSUME NEW x \in DirFrames(d)
        PROVE  \E i, j \in Slots : Held(d, i, j) /\ FrameOf(d, i, j) = x
    <3>1. CASE x = d
      BY Zenon, <2>1, <2>2, <3>1
    <3>2. CASE x = memory[d][0].frame
      BY <1>3, <2>1, <2>3, <3>2
    <3>3. ASSUME NEW i \in Index, i >= KERNEL_PDE_COUNT, memory[d][i].present, x = memory[d][i].frame
          PROVE  \E k, l \in Slots : Held(d, k, l) /\ FrameOf(d, k, l) = x
      BY Zenon, <2>1, <2>3, <3>3
    <3>4. ASSUME NEW i \in Index, i >= KERNEL_PDE_COUNT, memory[d][i].present, NEW j \in Index,
                 memory[memory[d][i].frame][j].present, x = memory[memory[d][i].frame][j].frame
          PROVE  \E k, l \in Slots : Held(d, k, l) /\ FrameOf(d, k, l) = x
      BY <2>1, <2>4, <3>4
    <3> QED BY <2>5, <3>1, <3>2, <3>3, <3>4
  <2> QED BY <2>6
<1>7. HoldersInv'
  <2>1. Keeps(DirFrames(d))
    <3> SUFFICES ASSUME NEW e \in Directories \ {d}, NEW m \in Slots, NEW n \in Slots, Held(e, m, n)'
                 PROVE  /\ Held(e, m, n) /\ FrameOf(e, m, n)' = FrameOf(e, m, n)
                        /\ FrameOf(e, m, n) \notin DirFrames(d)
      BY <1>4 DEF Keeps
    <3>1. Held(e, m, n) /\ FrameOf(e, m, n)' = FrameOf(e, m, n)
      <4>1. CASE m = -1
        BY <4>1, Sizes DEF Held, FrameOf, Own
      <4>2. CASE m # -1 /\ n = -1
        BY <1>1, <4>2, Sizes DEF Held, FrameOf
      <4>3. CASE m # -1 /\ n # -1
        <5>1. m >= KERNEL_PDE_COUNT /\ n \in Index /\ Mapped(e, <<m, n>>)'.present /\ m \in Index
          BY <4>3, Sizes DEF Held, Slots, Index
        <5>2. Mapped(e, <<m, n>>)' = Mapped(e, <<m, n>>)
          BY <1>5, <5>1 DEF Pages
        <5> QED BY <4>3, <5>1, <5>2 DEF Held, FrameOf
      <4> QED BY Zenon, <4>1, <4>2, <4>3
    <3>2. ASSUME FrameOf(e, m, n) \in DirFrames(d) PROVE FALSE
      <4>1. PICK i, j \in Slots : Held(d, i, j) /\ FrameOf(d, i, j) = FrameOf(e, m, n)
        BY <1>6, <3>2
      <4> QED BY <1>3, <3>1, <4>1 DEF PagingInv, HoldersInv
    <3> QED BY <3>1, <3>2
  <2> QED BY <1>1, <2>1, HoldersKept DEF PagingInv
<1>8. TablesInv'
  <2> SUFFICES ASSUME NEW e \in Directories \ {d}, NEW i \in Own(e), NEW j \in Index, memory[e][i].present
               PROVE  memory[memory[e][i].frame][j] = Mapped(e, <<i, j>>)'
    BY <1>1, <1>4 DEF TablesInv
  <2>1. <<i, j>> \in Pages
    BY DEF Own, Pages
  <2> QED BY Zenon, <1>5, <2>1 DEF PagingInv, TablesInv
<1>9. Types'
  BY <1>1 DEF PagingInv, Types
<1>10. MappingsInv'
  BY <1>1, <1>2 DEF PagingInv, MappingsInv
<1>11. DirectoriesInv'
  BY <1>1, <1>2 DEF PagingInv, DirectoriesInv
<1> QED BY <1>7, <1>8, <1>9, <1>10, <1>11 DEF PagingInv

\* The new directory's first table holds what the kernel's does, and its other entries
\* are the kernel's or empty.
LEMMA DirectoryCloned ==
  ASSUME PagingConstants, PagingInv, NEW d \in RAM, NEW pt0 \in RAM,
         d \notin used, pt0 \notin used, d # pt0, d >= POOL_START, pt0 >= POOL_START,
         used' = used \union {d, pt0}, memory' = Clone(d, pt0),
         granted' = [e \in DOMAIN granted \union {d} |->
                       IF e = d THEN [v \in {} |-> NONE] ELSE granted[e]],
         UNCHANGED <<pd_tables, kmap>>
  PROVE  PagingInv'
<1>1. /\ Directories \subseteq used /\ Directories \subseteq RAM /\ kernel_directory \in Directories
      /\ d # kernel_directory /\ d \notin DOMAIN granted
  BY HolderFacts, Zenon DEF Directories
<1>2. /\ DOMAIN granted' = DOMAIN granted \union {d} /\ DOMAIN granted'[d] = {}
      /\ \A e \in DOMAIN granted : granted'[e] = granted[e]
  BY <1>1
<1>3. Directories' = Directories \union {d}
  BY <1>2 DEF Directories, kernel_directory
<1>4. memory \in [RAM -> [Index -> TableEntries]] /\ pd_tables[0] \in RAM /\ 0 \in Index
  BY Zenon, Sizes DEF PagingInv, Types
<1>5. \A i \in Index : i # 0 /\ i < KERNEL_PDE_COUNT =>
        memory[kernel_directory][i] = Entry(KernelTable(i), {"W"})
  <2> SUFFICES ASSUME NEW i \in Index, i # 0, i < KERNEL_PDE_COUNT
               PROVE  memory[kernel_directory][i] = Entry(KernelTable(i), {"W"})
    OBVIOUS
  <2>1. i \in 0 .. KERNEL_PDE_COUNT - 1
    BY Sizes DEF Index
  <2>2. pd_tables[i] = KernelTable(i) /\ KernelTable(i) # 0
    <3>1. pd_tables[i] = KernelTable(i)
      BY <2>1, Zenon DEF PagingInv, DirectoriesInv
    <3> QED BY <2>1, <3>1, Sizes
  <2> QED BY Zenon, <2>2 DEF PagingInv, DirectoriesInv
<1>6. /\ memory' \in [RAM -> [Index -> TableEntries]]
      /\ \A x \in RAM \ {d, pt0} : memory'[x] = memory[x]
      /\ memory'[pt0] = memory[pd_tables[0]] /\ memory'[d][0] = Entry(pt0, {"W"})
      /\ \A i \in Index : i # 0 /\ i < KERNEL_PDE_COUNT => memory'[d][i] = Entry(KernelTable(i), {"W"})
      /\ \A i \in Index : i # 0 /\ ~(i < KERNEL_PDE_COUNT) => memory'[d][i] = NONE
  <2> DEFINE p == [i \in Index |-> IF i = 0 THEN Entry(pt0, {"W"})
                                   ELSE IF i < KERNEL_PDE_COUNT THEN memory[kernel_directory][i]
                                   ELSE NONE]
  <2>1. Entry(pt0, {"W"}) \in TableEntries /\ NONE \in TableEntries
    BY EntryFacts, NoneFacts, Zenon
  <2>2. p \in [Index -> TableEntries]
    BY Zenon, <1>1, <1>4, <2>1
  <2>3. /\ p[0] = Entry(pt0, {"W"})
        /\ \A i \in Index : i # 0 /\ i < KERNEL_PDE_COUNT => p[i] = Entry(KernelTable(i), {"W"})
        /\ \A i \in Index : i # 0 /\ ~(i < KERNEL_PDE_COUNT) => p[i] = NONE
    BY <1>4, <1>5
  <2>4. memory' = [memory EXCEPT ![d] = p, ![pt0] = memory[pd_tables[0]]]
    BY DEF Clone
  <2> HIDE DEF p
  <2>5. /\ memory'[d] = p /\ memory'[pt0] = memory[pd_tables[0]]
        /\ \A x \in RAM \ {d, pt0} : memory'[x] = memory[x]
    BY <1>4, <2>4
  <2>6. memory' \in [RAM -> [Index -> TableEntries]]
    BY Zenon, <1>4, <2>2, <2>4
  <2> QED BY <2>3, <2>5, <2>6
<1>7. \A e \in Directories : memory'[e] = memory[e]
  BY Zenon, <1>1, <1>6
<1>8. \A e \in Directories, v \in Pages : Mapped(e, v)' = Mapped(e, v)
  BY Zenon, <1>1, <1>2 DEF Mapped, Directories, kernel_directory, Identity
<1>9. \A v \in Pages : Mapped(d, v)' = IF v[1] = 0 THEN Entry(Identity(v), {"W"}) ELSE NONE
  BY <1>1, <1>2 DEF Mapped, kernel_directory, Identity
<1>10. \A i \in Own(d) : memory'[d][i].present => i = 0
  <2> SUFFICES ASSUME NEW i \in Own(d), i # 0 PROVE ~memory'[d][i].present
    OBVIOUS
  <2>1. i \in Index /\ i >= KERNEL_PDE_COUNT
    BY Zenon, <1>1 DEF Own
  <2>2. i \in Index /\ ~(i < KERNEL_PDE_COUNT)
    BY <2>1, Sizes
  <2>3. memory'[d][i] = NONE
    BY Zenon, <1>6, <2>2
  <2> QED BY <2>3, NoneFacts, Zenon
<1>11. TablesInv'
  <2> SUFFICES ASSUME NEW e \in Directories \union {d}, NEW i \in Own(e), NEW j \in Index,
                      memory'[e][i].present
               PROVE  memory'[memory'[e][i].frame][j] = Mapped(e, <<i, j>>)'
    BY Zenon, <1>3 DEF TablesInv
  <2>1. i \in Index /\ <<i, j>> \in Pages
    BY Zenon DEF Own, Pages
  <2>2. CASE e \in Directories
    <3>1. memory'[e][i] = memory[e][i] /\ memory[e][i].present
      BY Zenon, <1>7, <2>2
    <3>2. memory[e][i].frame \in used /\ memory[e][i].frame \in RAM
      BY Zenon, <2>2, <3>1, HolderFacts
    <3>3. memory'[memory[e][i].frame] = memory[memory[e][i].frame]
      BY <1>6, <3>2
    <3> QED BY SMTT(20), <1>8, <2>1, <2>2, <3>1, <3>3 DEF PagingInv, TablesInv
  <2>3. CASE e = d
    <3>1. i = 0
      BY Zenon, <1>10, <2>3
    <3>2. pd_tables[0] # 0 /\ <<0, j>> \in KernelRange
      <4>1. 0 \in 0 .. KERNEL_PDE_COUNT - 1
        BY DEF PagingConstants
      <4>2. pd_tables[0] = KernelTable(0)
        BY <4>1, Zenon DEF PagingInv, DirectoriesInv
      <4>3. KernelTable(0) # 0
        BY <4>1, Sizes
      <4> QED BY <4>1, <4>2, <4>3 DEF KernelRange
    <3>3. memory[pd_tables[0]][j] = Mapped(kernel_directory, <<0, j>>)
      BY <1>4, <3>2, KernelEntry DEF PagingInv, TablesInv
    <3>4. Mapped(kernel_directory, <<0, j>>) = Entry(Identity(<<0, j>>), {"W"})
      BY Zenon, <3>2 DEF Mapped, PagingInv, MappingsInv
    <3>5. memory'[d][0].frame = pt0
      BY <1>6 DEF Entry
    <3> QED BY <1>6, <1>9, <2>1, <2>3, <3>1, <3>3, <3>4, <3>5, Zenon
  <2> QED BY Zenon, <2>2, <2>3
<1>12. HoldersInv'
  <2>1. Adds(d, -1, -1, d, 0, pt0)
    <3> SUFFICES ASSUME NEW e \in Directories \union {d}, NEW m \in Slots, NEW n \in Slots, Held(e, m, n)'
                 PROVE  \/ e \in Directories /\ Held(e, m, n) /\ FrameOf(e, m, n)' = FrameOf(e, m, n)
                        \/ e = d /\ m = -1 /\ n = -1 /\ FrameOf(e, m, n)' = d
                        \/ e = d /\ m = 0 /\ n = -1 /\ FrameOf(e, m, n)' = pt0
      BY <1>3 DEF Adds
    <3>1. CASE m = -1
      <4>1. n = -1 /\ FrameOf(e, m, n)' = e /\ FrameOf(e, m, n) = e /\ Held(e, m, n)
        BY SMTT(20), <3>1, Sizes DEF Held, FrameOf, Own
      <4> QED BY Zenon, <3>1, <4>1
    <3>2. CASE m # -1 /\ n = -1
      <4>1. m \in Own(e) /\ memory'[e][m].present /\ m \in Index
        BY <3>2, Sizes DEF Held, Own, Index
      <4>2. FrameOf(e, m, n)' = memory'[e][m].frame /\ FrameOf(e, m, n) = memory[e][m].frame
        BY Zenon, <3>2 DEF FrameOf
      <4>3. CASE e \in Directories
        BY Zenon, <1>7, <3>2, <4>1, <4>2, <4>3 DEF Held
      <4>4. CASE e = d
        <5>1. m = 0
          BY <1>10, <4>1, <4>4
        <5>2. memory'[d][0].frame = pt0
          BY <1>6 DEF Entry
        <5>3. FrameOf(e, m, n)' = pt0
          BY <4>2, <4>4, <5>1, <5>2, Zenon
        <5> QED BY <3>2, <4>4, <5>1, <5>3, Zenon
      <4> QED BY Zenon, <4>3, <4>4
    <3>3. CASE m # -1 /\ n # -1
      <4>1. m >= KERNEL_PDE_COUNT /\ n \in Index /\ Mapped(e, <<m, n>>)'.present /\ m \in Index
        BY <3>3, Sizes DEF Held, Slots, Index
      <4>2. <<m, n>> \in Pages /\ m # 0
        BY <4>1, Sizes DEF Pages
      <4>3. e # d
        BY <1>9, <4>1, <4>2, NoneFacts, Zenon
      <4>4. Mapped(e, <<m, n>>)' = Mapped(e, <<m, n>>)
        BY Zenon, <1>8, <4>2, <4>3
      <4> QED BY <3>3, <4>1, <4>3, <4>4, Zenon DEF Held, FrameOf
    <3> QED BY Zenon, <3>1, <3>2, <3>3
  <2>2. d # pt0 /\ used \subseteq used' /\ HoldersInv
    BY Zenon DEF PagingInv
  <2> QED BY Zenon, <2>1, <2>2, HoldersAdded
<1>13. Types'
  BY Zenon, <1>6 DEF PagingInv, Types
<1>14. MappingsInv'
  BY <1>1, <1>2 DEF PagingInv, MappingsInv
<1>15. DirectoriesInv'
  <2>1. /\ \A i \in 1 .. KERNEL_PDE_COUNT - 1 : memory'[d][i] = Entry(KernelTable(i), {"W"})
        /\ memory'[d][0].present /\ "W" \in memory'[d][0].flags
        /\ \A i \in KERNEL_PDE_COUNT .. ENTRIES - 1 :
             memory'[d][i].present => memory'[d][i].flags = {"W", "U"}
    <3>1. memory'[d][0].present /\ "W" \in memory'[d][0].flags
      BY <1>6 DEF Entry
    <3> QED BY <1>6, <3>1, IndexRanges, NoneFacts, Zenon
  <2>2. \A e \in DOMAIN granted : memory'[e] = memory[e]
    BY <1>7, Zenon DEF Directories
  <2>3. memory'[kernel_directory] = memory[kernel_directory]
    BY <1>1, <1>7, Zenon
  <2>4. \A i \in Index : memory'[kernel_directory][i] =
          IF pd_tables[i] = 0 THEN NONE ELSE Entry(pd_tables[i], {"W"})
    BY <2>3, Zenon DEF PagingInv, DirectoriesInv
  <2>5. ASSUME NEW e \in DOMAIN granted \union {d}
        PROVE  /\ \A i \in 1 .. KERNEL_PDE_COUNT - 1 : memory'[e][i] = Entry(KernelTable(i), {"W"})
               /\ memory'[e][0].present /\ "W" \in memory'[e][0].flags
               /\ \A i \in KERNEL_PDE_COUNT .. ENTRIES - 1 :
                    memory'[e][i].present => memory'[e][i].flags = {"W", "U"}
               /\ \A v \in DOMAIN granted'[e] :
                    memory'[e][v[1]].present /\ "U" \in memory'[e][v[1]].flags
    <3>1. CASE e = d
      BY <1>2, <2>1, <3>1, Zenon
    <3>2. CASE e \in DOMAIN granted
      <4>1. memory'[e] = memory[e] /\ granted'[e] = granted[e]
        BY <1>2, <2>2, <3>2, Zenon
      <4>2. /\ \A i \in 1 .. KERNEL_PDE_COUNT - 1 : memory[e][i] = Entry(KernelTable(i), {"W"})
            /\ memory[e][0].present /\ "W" \in memory[e][0].flags
            /\ \A i \in KERNEL_PDE_COUNT .. ENTRIES - 1 :
                 memory[e][i].present => memory[e][i].flags = {"W", "U"}
            /\ \A v \in DOMAIN granted[e] : memory[e][v[1]].present /\ "U" \in memory[e][v[1]].flags
        BY <3>2, Zenon DEF PagingInv, DirectoriesInv
      <4> QED BY <4>1, <4>2, Zenon
    <3> QED BY <3>1, <3>2
  <2>6. /\ \A i \in 0 .. KERNEL_PDE_COUNT - 1 : pd_tables[i] = KernelTable(i)
        /\ \A v \in DOMAIN kmap : pd_tables[v[1]] # 0
    BY DEF PagingInv, DirectoriesInv
  <2> QED BY <1>2, <2>4, <2>5, <2>6, Zenon DEF DirectoriesInv, kernel_directory, KernelTable
<1> QED BY <1>11, <1>12, <1>13, <1>14, <1>15 DEF PagingInv

\* paging_clone_directory keeps the invariant.
LEMMA CloneStep ==
  ASSUME PagingConstants, PagingInv, paging_clone_directory
  PROVE  PagingInv'
<1> DEFINE d   == FirstFree(used)
           pt0 == FirstFree(used \union {d})
<1>1. CASE d = 0 \/ pt0 = 0
  <2>1. UNCHANGED vars
    BY <1>1 DEF paging_clone_directory
  <2>2. used \subseteq RAM
    BY Zenon DEF PagingInv, Types
  <2> QED BY Zenon, <2>1, <2>2, UsedGrows DEF vars
<1>2. CASE d # 0 /\ pt0 # 0
  <2>1. /\ used' = used \union {d, pt0} /\ memory' = Clone(d, pt0)
        /\ granted' = [e \in DOMAIN granted \union {d} |->
                         IF e = d THEN [v \in {} |-> NONE] ELSE granted[e]]
        /\ UNCHANGED <<pd_tables, kmap>>
    BY <1>2, Zenon DEF paging_clone_directory
  <2>2. /\ d \in RAM /\ d >= POOL_START /\ d \notin used
        /\ pt0 \in RAM /\ pt0 >= POOL_START /\ pt0 \notin used /\ d # pt0
    BY <1>2, Allocated
  <2> HIDE DEF d, pt0
  <2> QED BY <2>1, <2>2, DirectoryCloned
<1> QED BY <1>1, <1>2

\* paging_init establishes the invariant.
LEMMA InitInv ==
  ASSUME PagingConstants, Init
  PROVE  PagingInv
<1> DEFINE tables == {KernelTable(i) : i \in 0 .. KERNEL_PDE_COUNT - 1}
<1>0. PICK held \in HeldElsewhere : used = {kernel_directory} \union tables \union held
  BY Zenon DEF Init
<1>1. /\ memory = [f \in RAM |->
           IF f = kernel_directory
           THEN [i \in Index |-> IF i < KERNEL_PDE_COUNT THEN Entry(KernelTable(i), {"W"}) ELSE NONE]
           ELSE IF f \in tables
           THEN [j \in Index |-> Entry(Identity(<<f - KernelTable(0), j>>), {"W"})]
           ELSE Zeroed]
      /\ used = {kernel_directory} \union tables \union held
      /\ pd_tables = [i \in Index |-> IF i < KERNEL_PDE_COUNT THEN KernelTable(i) ELSE 0]
      /\ kmap = [v \in KernelRange |-> Identity(v)]
      /\ granted = [d \in {} |-> 0]
  BY Zenon, <1>0 DEF Init
<1>2. /\ \A i \in Index : i < KERNEL_PDE_COUNT => i \in 0 .. KERNEL_PDE_COUNT - 1
      /\ \A i \in 0 .. KERNEL_PDE_COUNT - 1 :
           /\ KernelTable(i) \in RAM /\ KernelTable(i) # kernel_directory /\ KernelTable(i) \in tables
           /\ KernelTable(i) - KernelTable(0) = i /\ KernelTable(i) # 0 /\ KernelTable(i) >= POOL_START
           /\ i \in Index /\ i < KERNEL_PDE_COUNT
      /\ \A f \in tables : f \in RAM /\ f - KernelTable(0) \in 0 .. KERNEL_PDE_COUNT - 1
      /\ kernel_directory \in RAM /\ kernel_directory >= POOL_START
  BY Sizes DEF Index
<1> HIDE DEF tables
<1>3. \A i \in Index : memory[kernel_directory][i] =
        IF i < KERNEL_PDE_COUNT THEN Entry(KernelTable(i), {"W"}) ELSE NONE
  BY Zenon, <1>1, <1>2
<1>4. \A i \in 0 .. KERNEL_PDE_COUNT - 1, j \in Index :
        memory[KernelTable(i)][j] = Entry(Identity(<<i, j>>), {"W"})
  BY <1>1, <1>2
<1>5. Directories = {kernel_directory} /\ DOMAIN granted = {}
  BY <1>1 DEF Directories
<1>6. Types
  <2>1. [i \in Index |-> IF i < KERNEL_PDE_COUNT THEN Entry(KernelTable(i), {"W"}) ELSE NONE]
          \in [Index -> TableEntries]
    BY <1>2, EntryFacts, NoneFacts, Zenon
  <2>2. \A f \in tables : [j \in Index |-> Entry(Identity(<<f - KernelTable(0), j>>), {"W"})]
                              \in [Index -> TableEntries]
    <3> TAKE f \in tables
    <3>1. \A j \in Index : <<f - KernelTable(0), j>> \in KernelRange
      BY <1>2 DEF KernelRange
    <3>2. \A j \in Index : Identity(<<f - KernelTable(0), j>>) \in RAM
      BY Zenon, <3>1, Sizes
    <3> QED BY <3>2, EntryFacts, Zenon
  <2>3. Zeroed \in [Index -> TableEntries]
    BY Zenon, NoneFacts DEF Zeroed
  <2>4. memory \in [RAM -> [Index -> TableEntries]]
    BY Zenon, <1>1, <2>1, <2>2, <2>3
  <2>5. pd_tables \in [Index -> RAM]
    BY <1>1, <1>2, Sizes
  <2>6. held \subseteq RAM
    BY DEF PagingConstants, RAM
  <2>7. used \subseteq RAM
    BY Zenon, <1>1, <1>2, <2>6
  <2> QED BY <2>4, <2>5, <2>7 DEF Types
<1>7. MappingsInv
  BY Zenon, <1>1, <1>5, Sizes DEF MappingsInv
<1>8. DirectoriesInv
  <2>1. \A i \in Index : pd_tables[i] = IF i < KERNEL_PDE_COUNT THEN KernelTable(i) ELSE 0
    BY Zenon, <1>1
  <2>2. \A v \in DOMAIN kmap : pd_tables[v[1]] # 0
    BY Zenon, <1>1, <1>2, <2>1, PageShape
  <2> QED BY Zenon, <1>2, <1>3, <1>5, <2>1, <2>2 DEF DirectoriesInv
<1>9. \A i, j \in Index : Mapped(kernel_directory, <<i, j>>) =
        IF i < KERNEL_PDE_COUNT THEN Entry(Identity(<<i, j>>), {"W"}) ELSE NONE
  <2> TAKE i, j \in Index
  <2>1. <<i, j>> \in KernelRange <=> i < KERNEL_PDE_COUNT
    BY <1>2 DEF KernelRange
  <2>2. DOMAIN kmap = KernelRange /\ \A v \in KernelRange : kmap[v] = Identity(v)
    BY <1>1
  <2> QED BY <2>1, <2>2 DEF Mapped
<1>10. \A i \in Index : memory[kernel_directory][i].present =>
         i < KERNEL_PDE_COUNT /\ memory[kernel_directory][i].frame = KernelTable(i)
  <2> TAKE i \in Index
  <2>1. CASE i < KERNEL_PDE_COUNT
    <3>1. memory[kernel_directory][i] = Entry(KernelTable(i), {"W"})
      BY <1>3, <2>1
    <3> QED BY <2>1, <3>1 DEF Entry
  <2>2. CASE ~(i < KERNEL_PDE_COUNT)
    <3>1. memory[kernel_directory][i] = NONE
      BY Zenon, <1>3, <2>2
    <3> QED BY <3>1, NoneFacts
  <2> QED BY Zenon, <2>1, <2>2
<1>11. TablesInv
  <2> SUFFICES ASSUME NEW i \in Index, NEW j \in Index, memory[kernel_directory][i].present
               PROVE  memory[memory[kernel_directory][i].frame][j] = Mapped(kernel_directory, <<i, j>>)
    BY Zenon, <1>5 DEF TablesInv, Own
  <2>1. i < KERNEL_PDE_COUNT /\ memory[kernel_directory][i].frame = KernelTable(i)
    BY Zenon, <1>10
  <2> QED BY <1>2, <1>4, <1>9, <2>1
<1>12. HoldersInv
  <2>1. ASSUME NEW i \in Slots, NEW j \in Slots, Held(kernel_directory, i, j)
        PROVE  /\ j = -1
               /\ \/ i = -1 /\ FrameOf(kernel_directory, i, j) = kernel_directory
                  \/ /\ i \in 0 .. KERNEL_PDE_COUNT - 1
                     /\ FrameOf(kernel_directory, i, j) = KernelTable(i)
    <3>1. CASE i = -1
      BY <2>1, <3>1, Sizes DEF Held, FrameOf, Own
    <3>2. CASE i # -1
      <4>1. i \in Index
        BY <3>2, Sizes DEF Slots, Index
      <4>2. j = -1
        <5>1. ASSUME j # -1 PROVE FALSE
          <6>1. i >= KERNEL_PDE_COUNT /\ j \in Index /\ Mapped(kernel_directory, <<i, j>>).present
            BY Zenon, <2>1, <3>2, <5>1, Sizes DEF Held
          <6>2. ~(i < KERNEL_PDE_COUNT)
            BY <4>1, <6>1, Sizes
          <6> QED BY <1>9, <4>1, <6>1, <6>2, NoneFacts, Zenon
        <5> QED BY <5>1
      <4>3. memory[kernel_directory][i].present
        BY <2>1, <3>2, <4>2, Sizes DEF Held
      <4>4. i < KERNEL_PDE_COUNT /\ memory[kernel_directory][i].frame = KernelTable(i)
        BY Zenon, <1>10, <4>1, <4>3
      <4> QED BY Zenon, <1>2, <3>2, <4>1, <4>2, <4>4 DEF FrameOf
    <3> QED BY Zenon, <3>1, <3>2
  <2>2. \A i, k \in 0 .. KERNEL_PDE_COUNT - 1 : KernelTable(i) = KernelTable(k) => i = k
    BY Sizes
  <2> QED BY SMTT(20), <1>1, <1>2, <1>5, <2>1, <2>2 DEF HoldersInv
<1> QED BY Zenon, <1>6, <1>7, <1>8, <1>11, <1>12 DEF PagingInv

\* Every step keeps the invariant.
LEMMA StepInv ==
  ASSUME PagingConstants, PagingInv, [Next]_vars
  PROVE  PagingInv'
<1>1. used \subseteq RAM
  BY DEF PagingInv, Types
<1>2. CASE paging_clone_directory
  BY Zenon, <1>2, CloneStep
<1>3. ASSUME NEW d \in DOMAIN granted, NEW v \in CodePages, map_code_page(d, v)
      PROVE  PagingInv'
  <2>1. Identity(v) \in RAM /\ v \notin UserPages
    BY PageShape, Sizes
  <2>2. paging_map_page_in(d, v, Identity(v), {"W", "U"}, used)
    BY Zenon, <1>3 DEF map_code_page
  <2> QED BY Zenon, <1>1, <2>1, <2>2, PageGranted
<1>4. ASSUME NEW d \in DOMAIN granted, NEW v \in UserPages, NEW w \in {{}, {"W"}},
             map_fresh_page(d, v, w \union {"U"})
      PROVE  PagingInv'
  <2> DEFINE f == FirstFree(used)
             flags == w \union {"U"}
  <2>1. f # 0 /\ paging_map_page_in(d, v, f, flags, used \union {f})
    BY <1>4 DEF map_fresh_page
  <2>2. f \in RAM /\ f >= POOL_START /\ f \notin used
    BY <2>1, Allocated
  <2>3. flags \in SUBSET {"W", "U"} /\ "U" \in flags
    OBVIOUS
  <2>4. v \notin CodePages
    BY PageShape
  <2> HIDE DEF f, flags
  <2>5. used \union {f} \in SUBSET RAM /\ used \subseteq used \union {f} /\ f \in (used \union {f}) \ used
    BY <1>1, <2>2
  <2> QED BY <2>1, <2>2, <2>3, <2>4, <2>5, PageGranted
<1>5. ASSUME NEW d \in DOMAIN granted, paging_free_directory(d)
      PROVE  PagingInv'
  BY <1>5, FreeStep
<1>6. ASSUME NEW v \in KernelPages, paging_map_page(v)
      PROVE  PagingInv'
  BY <1>6, MapStep
<1>7. ASSUME NEW v \in KernelPages, paging_unmap_page(v)
      PROVE  PagingInv'
  BY <1>7, UnmapStep
<1>8. CASE UNCHANGED vars
  BY Zenon, <1>1, <1>8, UsedGrows DEF vars
<1> QED BY Zenon, <1>2, <1>3, <1>4, <1>5, <1>6, <1>7, <1>8 DEF Next
------------------------------------------------------------------------------
\* What the MMU finds, through a table that the directory owns and through one that
\* it shares with the kernel.
LEMMA WalkFacts ==
  ASSUME PagingConstants, PagingInv, NEW d \in Directories, NEW v \in Pages
  PROVE  /\ v = <<v[1], v[2]>> /\ v[1] \in Index /\ v[2] \in Index
         /\ v[1] \in Own(d) =>
              MMU(d, v) = IF memory[d][v[1]].present /\ Mapped(d, v).present
                          THEN Entry(Mapped(d, v).frame, memory[d][v[1]].flags \cap Mapped(d, v).flags)
                          ELSE NONE
         /\ v[1] \notin Own(d) =>
              /\ d \in DOMAIN granted /\ v \in KernelRange /\ v[1] \in 1 .. KERNEL_PDE_COUNT - 1
              /\ MMU(d, v) = Entry(Identity(v), {"W"})
<1>1. v = <<v[1], v[2]>> /\ v[1] \in Index /\ v[2] \in Index
  BY DEF Pages
<1>2. ASSUME v[1] \in Own(d)
      PROVE  MMU(d, v) = IF memory[d][v[1]].present /\ Mapped(d, v).present
                         THEN Entry(Mapped(d, v).frame, memory[d][v[1]].flags \cap Mapped(d, v).flags)
                         ELSE NONE
  <2>1. memory[d][v[1]].present => memory[memory[d][v[1]].frame][v[2]] = Mapped(d, v)
    BY <1>1, <1>2 DEF PagingInv, TablesInv
  <2> QED BY <2>1, Zenon DEF MMU
<1>3. ASSUME v[1] \notin Own(d)
      PROVE  /\ d \in DOMAIN granted /\ v \in KernelRange /\ v[1] \in 1 .. KERNEL_PDE_COUNT - 1
             /\ MMU(d, v) = Entry(Identity(v), {"W"})
  <2>1. d \in DOMAIN granted /\ v[1] \in 1 .. KERNEL_PDE_COUNT - 1
    BY <1>1, <1>3, Sizes DEF Own, Directories
  <2>2. v[1] \in 0 .. KERNEL_PDE_COUNT - 1 /\ v \in KernelRange
    BY <1>1, <2>1, Sizes DEF KernelRange
  <2>3. memory[d][v[1]] = Entry(KernelTable(v[1]), {"W"}) /\ pd_tables[v[1]] = KernelTable(v[1])
    BY <2>1, <2>2 DEF PagingInv, DirectoriesInv
  <2>4. pd_tables[v[1]] # 0
    BY <2>2, <2>3, Sizes
  <2>5. memory[KernelTable(v[1])][v[2]] = Mapped(kernel_directory, v)
    BY <1>1, <2>3, <2>4, KernelEntry DEF PagingInv, TablesInv
  <2>6. Mapped(kernel_directory, v) = Entry(Identity(v), {"W"})
    BY Zenon, <2>2 DEF Mapped, PagingInv, MappingsInv
  <2>7. /\ memory[d][v[1]].present /\ memory[d][v[1]].frame = KernelTable(v[1])
        /\ memory[d][v[1]].flags = {"W"}
    BY <2>3 DEF Entry
  <2>8. /\ Mapped(kernel_directory, v).present /\ Mapped(kernel_directory, v).frame = Identity(v)
        /\ Mapped(kernel_directory, v).flags = {"W"}
    BY <2>6 DEF Entry
  <2>9. MMU(d, v) = Entry(Identity(v), {"W"} \cap {"W"})
    BY <2>5, <2>7, <2>8 DEF MMU
  <2>10. {"W"} \cap {"W"} = {"W"}
    OBVIOUS
  <2> QED BY <2>1, <2>2, <2>9, <2>10
<1> QED BY <1>1, <1>2, <1>3

\* The invariant says what TablesExact says.
LEMMA InvTables ==
  ASSUME PagingConstants, PagingInv
  PROVE  TablesExact
<1>1. TypeOK
  <2>1. DOMAIN granted \subseteq used
    BY HolderFacts DEF Directories
  <2>2. KernelRange \union KernelPages \subseteq Pages /\ CodePages \union UserPages \subseteq Pages
    BY PageShape DEF Pages
  <2> QED BY Zenon, <2>1, <2>2 DEF PagingInv, Types, MappingsInv, TypeOK, TableEntries
<1>2. ASSUME NEW d \in Directories, NEW v \in KernelRange
      PROVE  MMU(d, v).frame = Identity(v) /\ "W" \in MMU(d, v).flags
  <2>1. v \in Pages /\ v[1] \in 0 .. KERNEL_PDE_COUNT - 1 /\ v[1] \in Index
    BY PageShape DEF Pages
  <2>2. CASE v[1] \notin Own(d)
    BY <2>1, <2>2, WalkFacts DEF Entry
  <2>3. CASE v[1] \in Own(d)
    <3>1. memory[d][v[1]].present /\ "W" \in memory[d][v[1]].flags
      <4>1. CASE d = kernel_directory
        <5>1. pd_tables[v[1]] # 0
          BY <2>1, Sizes DEF PagingInv, DirectoriesInv
        <5> QED BY Zenon, <2>1, <4>1, <5>1, KernelEntry
      <4>2. CASE d # kernel_directory
        <5>1. v[1] = 0 /\ d \in DOMAIN granted
          BY <2>1, <2>3, <4>2, Sizes DEF Own, Directories
        <5> QED BY <5>1, Zenon DEF PagingInv, DirectoriesInv
      <4> QED BY Zenon, <4>1, <4>2
    <3>2. Mapped(d, v).present /\ Mapped(d, v).frame = Identity(v) /\ "W" \in Mapped(d, v).flags
      <4>1. CASE d = kernel_directory
        BY Zenon, <4>1 DEF Mapped, Entry, PagingInv, MappingsInv
      <4>2. CASE d # kernel_directory
        <5>1. v[1] = 0 /\ d \in DOMAIN granted
          BY <2>1, <2>3, <4>2, Sizes DEF Own, Directories
        <5>2. v \in DOMAIN granted[d] => granted[d][v] = Entry(Identity(v), {"W", "U"})
          BY Zenon, <5>1, PageShape DEF PagingInv, MappingsInv
        <5> QED BY <4>2, <5>1, <5>2 DEF Mapped, Entry
      <4> QED BY Zenon, <4>1, <4>2
    <3>3. MMU(d, v) = Entry(Mapped(d, v).frame, memory[d][v[1]].flags \cap Mapped(d, v).flags)
      BY Zenon, <2>1, <2>3, <3>1, <3>2, WalkFacts
    <3> QED BY <3>1, <3>2, <3>3 DEF Entry
  <2> QED BY <2>2, <2>3
<1>3. ASSUME NEW v \in Pages
      PROVE  paging_translate(v) = IF v \in DOMAIN kmap THEN kmap[v] ELSE 0
  <2>1. v = <<v[1], v[2]>> /\ v[1] \in Index /\ v[2] \in Index
    BY DEF Pages
  <2>2. CASE pd_tables[v[1]] = 0
    <3>1. v \notin DOMAIN kmap
      BY Zenon, <2>2 DEF PagingInv, DirectoriesInv
    <3> QED BY Zenon, <2>2, <3>1 DEF paging_translate
  <2>3. CASE pd_tables[v[1]] # 0
    <3>1. memory[kernel_directory][v[1]].present
          /\ memory[pd_tables[v[1]]][v[2]] = Mapped(kernel_directory, v)
      BY <2>1, <2>3, KernelEntry DEF PagingInv, TablesInv
    <3>2. paging_translate(v) = IF Mapped(kernel_directory, v).present
                                THEN Mapped(kernel_directory, v).frame ELSE 0
      BY Zenon, <2>3, <3>1 DEF paging_translate
    <3> QED BY Zenon, <3>2 DEF Mapped, Entry, NONE
  <2> QED BY <2>2, <2>3
<1> QED BY Zenon, <1>1, <1>2, <1>3 DEF TablesExact, KernelEverywhere, TranslateExact

\* The invariant says what UsersIsolated says.
LEMMA InvUsers ==
  ASSUME PagingConstants, PagingInv
  PROVE  UsersIsolated
<1>1. ASSUME NEW d \in DOMAIN granted, NEW v \in DOMAIN granted[d]
      PROVE  /\ v \in Pages /\ v[1] \in Own(d) /\ Mapped(d, v) = granted[d][v]
             /\ MMU(d, v) = granted[d][v]
  <2>1. d \in Directories /\ d # kernel_directory /\ v \in CodePages \union UserPages
    BY DEF PagingInv, MappingsInv, Directories
  <2>2. v \in Pages /\ v[1] \in Index /\ (v[1] = 0 \/ v[1] \in KERNEL_PDE_COUNT .. ENTRIES - 1)
    BY <2>1, PageShape DEF Pages
  <2>3. v[1] \in Own(d)
    BY <2>1, <2>2, Sizes DEF Own
  <2>4. /\ granted[d][v] \in TableEntries /\ granted[d][v].present
        /\ memory[d][v[1]].present /\ "U" \in memory[d][v[1]].flags /\ memory[d][v[1]] \in TableEntries
    <3>1. granted[d][v] \in TableEntries /\ granted[d][v].present
      BY Zenon DEF PagingInv, MappingsInv
    <3>2. memory[d][v[1]].present /\ "U" \in memory[d][v[1]].flags
      BY Zenon DEF PagingInv, DirectoriesInv
    <3>3. d \in RAM
      BY <2>1, HolderFacts, Zenon
    <3>4. memory[d][v[1]] \in TableEntries
      BY Zenon, <2>2, <3>3 DEF PagingInv, Types
    <3> QED BY <3>1, <3>2, <3>4
  <2>5. "W" \in memory[d][v[1]].flags
    <3>1. CASE v[1] = 0
      BY <3>1, Zenon DEF PagingInv, DirectoriesInv
    <3>2. CASE v[1] \in KERNEL_PDE_COUNT .. ENTRIES - 1
      <4>1. memory[d][v[1]].flags = {"W", "U"}
        BY <2>4, <3>2, Zenon DEF PagingInv, DirectoriesInv
      <4> QED BY <4>1
    <3> QED BY <2>2, <3>1, <3>2
  <2>6. Mapped(d, v) = granted[d][v]
    BY <2>1 DEF Mapped
  <2>7. MMU(d, v) = Entry(granted[d][v].frame, memory[d][v[1]].flags \cap granted[d][v].flags)
    BY <2>1, <2>2, <2>3, <2>4, <2>6, WalkFacts, Zenon
  <2>8. memory[d][v[1]].flags \cap granted[d][v].flags = granted[d][v].flags
    BY Zenon, <2>4, <2>5 DEF TableEntries
  <2>9. granted[d][v] = Entry(granted[d][v].frame, granted[d][v].flags)
    BY <2>4 DEF TableEntries, Entry
  <2> QED BY <2>2, <2>3, <2>6, <2>7, <2>8, <2>9, Zenon
<1>2. ASSUME NEW d \in Directories, NEW v \in Pages, ~(d \in DOMAIN granted /\ v \in DOMAIN granted[d])
      PROVE  "U" \notin MMU(d, v).flags
  <2>1. CASE v[1] \notin Own(d)
    BY <2>1, WalkFacts DEF Entry
  <2>2. CASE v[1] \in Own(d)
    <3>1. Mapped(d, v).present => "U" \notin Mapped(d, v).flags
      BY Zenon, <1>2 DEF Mapped, Directories, Entry, NONE
    <3>2. MMU(d, v) = NONE \/ (Mapped(d, v).present /\ MMU(d, v) =
            Entry(Mapped(d, v).frame, memory[d][v[1]].flags \cap Mapped(d, v).flags))
      BY Zenon, <2>2, WalkFacts
    <3> QED BY <3>1, <3>2 DEF Entry, NONE
  <2> QED BY <2>1, <2>2
<1>3. \A x \in Structures : /\ x \in used /\ x >= POOL_START /\ x \in RAM
                           /\ \/ x \in Directories
                              \/ \E e \in Directories : \E k \in Own(e) :
                                   memory[e][k].present /\ x = memory[e][k].frame
  <2> SUFFICES ASSUME NEW d \in Directories, NEW i \in Index, memory[d][i].present, i \notin Own(d)
               PROVE  \E k \in Own(kernel_directory) :
                        /\ memory[kernel_directory][k].present
                        /\ memory[d][i].frame = memory[kernel_directory][k].frame
    <3>1. kernel_directory \in Directories
      BY DEF Directories
    <3> QED BY SMTT(20), <3>1, HolderFacts DEF Structures
  <2>1. d \in DOMAIN granted /\ i \in 1 .. KERNEL_PDE_COUNT - 1
    BY Sizes DEF Own, Directories, Index
  <2>2. i \in 0 .. KERNEL_PDE_COUNT - 1
    BY <2>1, Sizes
  <2>3. memory[d][i].frame = KernelTable(i) /\ pd_tables[i] = KernelTable(i) /\ KernelTable(i) # 0
    <3>1. memory[d][i] = Entry(KernelTable(i), {"W"}) /\ pd_tables[i] = KernelTable(i)
      BY Zenon, <2>1, <2>2 DEF PagingInv, DirectoriesInv
    <3>2. KernelTable(i) # 0
      BY <2>2, Sizes
    <3> QED BY <3>1, <3>2 DEF Entry
  <2> QED BY Zenon, <2>3, KernelEntry
<1>4. ASSUME NEW d \in DOMAIN granted, NEW v \in Pages, "U" \in MMU(d, v).flags
      PROVE  MMU(d, v).frame \notin Structures
  <2>1. v \in DOMAIN granted[d] /\ d \in Directories
    BY Zenon, <1>2, <1>4 DEF Directories
  <2>2. MMU(d, v) = granted[d][v] /\ Mapped(d, v) = granted[d][v]
    BY Zenon, <1>1, <2>1
  <2>3. CASE v \in CodePages
    <3>1. granted[d][v].frame = Identity(v)
      BY <2>1, <2>3 DEF PagingInv, MappingsInv, Entry
    <3>2. Identity(v) = v[2] /\ v[2] < POOL_START /\ v[2] \in Nat
      BY <2>3, PageShape, Sizes DEF Identity
    <3> QED BY <1>3, <2>2, <3>1, <3>2, Sizes
  <2>4. CASE v \in UserPages
    <3>1. v = <<v[1], v[2]>> /\ v[1] \in KERNEL_PDE_COUNT .. ENTRIES - 1 /\ v[2] \in Index
      BY Zenon, <2>4, PageShape
    <3>2. Mapped(d, <<v[1], v[2]>>).present
      BY <2>1, <2>2, <3>1 DEF PagingInv, MappingsInv
    <3> QED BY SMTT(20), <1>3, <2>1, <2>2, <3>1, <3>2, HolderFacts
  <2> QED BY Zenon, <2>1, <2>3, <2>4 DEF PagingInv, MappingsInv
<1> QED BY <1>1, <1>2, <1>3, <1>4 DEF UsersIsolated, UserReachesGranted, StructuresProtected

\* The invariant holds in every state.
LEMMA PagingAlways ==
  ASSUME PagingConstants
  PROVE  Spec => []PagingInv
<1>1. Init => PagingInv
  BY InitInv
<1>2. PagingInv /\ [Next]_vars => PagingInv'
  BY StepInv
<1> QED BY <1>1, <1>2, PTL DEF Spec

\* For any number of entries, tasks, pages and frames: every directory maps the
\* kernel's range to itself and writable, whichever allocations of
\* paging_clone_directory and paging_map_page_in failed, and paging_translate agrees
\* with what paging_map_page and paging_unmap_page did.
THEOREM TablesStayExact ==
  ASSUME PagingConstants
  PROVE  Spec => []TablesExact
<1>1. PagingInv => TablesExact
  BY InvTables
<1> QED BY <1>1, PagingAlways, PTL

\* For any number of entries, tasks, pages and frames: Ring 3 reaches the pages that
\* paging_map_page_in granted its own task and no others, none of these is a
\* directory or a table of anyone, and no directory or table is free.
THEOREM TasksStayIsolated ==
  ASSUME PagingConstants
  PROVE  Spec => []UsersIsolated
<1>1. PagingInv => UsersIsolated
  BY InvUsers
<1> QED BY <1>1, PagingAlways, PTL
===============================================================================
