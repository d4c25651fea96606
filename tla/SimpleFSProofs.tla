---------------------------- MODULE SimpleFSProofs ----------------------------
(***************************************************************************)
(* SimpleFS keeps the disk sound and counts its free blocks exactly, for   *)
(* every set of names and contents and every size of the directory, the    *)
(* data region and a block.                                                *)
(*                                                                         *)
(* It also implements FileStore: every step, one of a call that ends in    *)
(* the middle and a crash included, is a step of the store or changes      *)
(* nothing that the store sees.                                            *)
(***************************************************************************)
EXTENDS MCSimpleFS, FiniteSetTheorems, TLAPS

\* A nonempty set of naturals has a least element, which Min chooses.
LEMMA MinOfNaturals ==
  ASSUME NEW S \in SUBSET Nat, S # {}
  PROVE  Min(S) \in S /\ \A x \in S : Min(S) <= x
<1>1. PICK m \in S : \A y \in S : ~(<<y, m>> \in OpToRel(<, Nat))
  BY NatLessThanWellFounded, WFMin
<1>2. \A y \in S : ~(y < m)
  BY Zenon, <1>1 DEF OpToRel
<1>3. \A y \in S : m <= y
  BY <1>2
<1> QED BY Zenon, <1>3 DEF Min

------------------------------------------------------------------------------
DirEntries ==
  [name : Names \union {NoName}, type : {"FREE", "FILE", "DIR"}, start_block : Blocks, size : Nat]
BlockContents == [1..BLOCK_SIZE -> Nat]
Disks == [magic : BOOLEAN, free_blocks : 0..MAX_FREE, dir : [Entries -> DirEntries],
          data : [Blocks -> BlockContents]]

WriteOps  == [pc : {"data", "recount"}, name : Names, data : Data, index : Entries,
              start : Blocks, i : Nat]
DeleteOps == [pc : {"children", "self", "free"}, name : Names, index : Entries, i : Nat,
              freed : Nat]
FormatOps == [pc : {"format"}, i : 0..FS_DIR_BLOCKS]

FSTypes ==
  /\ disk \in Disks /\ superblock \in 0..MAX_FREE /\ faulty \in BOOLEAN
  /\ \/ op = Unmounted \/ op = Idle
     \/ op \in FormatOps \/ op \in WriteOps \/ op \in DeleteOps

\* A directory without two entries of one name and without shared blocks.
Sound(dir) ==
  /\ \A i \in Entries : Extent(dir[i]) \subseteq Blocks
  /\ \A i, j \in Entries : i # j =>
       /\ Extent(dir[i]) \cap Extent(dir[j]) = {}
       /\ dir[i].type # "FREE" /\ dir[j].type # "FREE" => dir[i].name # dir[j].name

InUse(dir) == UNION {Extent(dir[i]) : i \in Entries}

\* The blocks and the number of blocks of the write in progress.
Needed == BlockCount(Len(op.data))
Fresh  == op.start .. op.start + Needed - 1

\* What the locals of a call are worth while it goes on.
LocalsInv ==
  /\ op.pc = "format" =>
       \A j \in Entries : j \div FS_ENTRIES_PER_BLOCK < op.i - 1 => disk.dir[j] = FreeEntry
  /\ op.pc = "data" =>
       /\ op.i <= Needed /\ Fresh \subseteq Blocks
       /\ disk.dir[op.index].type = "FILE" /\ disk.dir[op.index].name = op.name
       /\ \A i \in Entries : Extent(disk.dir[i]) \cap Fresh = {}
       /\ \A k \in 0 .. op.i - 1 : disk.data[op.start + k] = BlockOf(op.data, k)
  /\ op.pc = "children" => disk.dir[op.index].type = "DIR"
  /\ op.pc \in {"children", "self"} =>
       disk.dir[op.index].type # "FREE" /\ disk.dir[op.index].name = op.name
  /\ op.pc = "free" => disk.dir[op.index] = FreeEntry

\* The counts of free blocks, as long as nothing has failed.
CountsInv ==
  ~faulty =>
    /\ op = Unmounted /\ disk.magic => disk.free_blocks = DATA_BLOCKS - Cardinality(InUse(disk.dir))
    /\ op = Idle => /\ superblock = DATA_BLOCKS - Cardinality(InUse(disk.dir))
                    /\ disk.free_blocks = superblock
    /\ op.pc = "format" => superblock = DATA_BLOCKS /\ (op.i > 0 => disk.free_blocks = superblock)
    /\ op.pc \in {"children", "self", "free"} =>
         superblock + op.freed =
           DATA_BLOCKS - Cardinality(InUse(disk.dir) \ Extent(disk.dir[op.index]))

FSInv == FSTypes /\ Sound(disk.dir) /\ LocalsInv /\ CountsInv
------------------------------------------------------------------------------
\* The sizes of the directory and of the data region.
LEMMA Constants ==
  /\ FS_DIR_BLOCKS \in Nat \ {0} /\ FS_ENTRIES_PER_BLOCK \in Nat \ {0}
  /\ DATA_BLOCKS \in Nat \ {0} /\ MAP_BITS \in Nat \ {0} /\ BLOCK_SIZE \in Nat \ {0}
  /\ MAX_FREE \in Nat /\ DATA_BLOCKS <= MAX_FREE /\ FS_MAX_ENTRIES \in Nat
  /\ Entries \subseteq Nat /\ FS_MAX_ENTRIES \notin Entries /\ IsFiniteSet(Entries)
  /\ Blocks \subseteq Nat /\ IsFiniteSet(Blocks) /\ Cardinality(Blocks) = DATA_BLOCKS
  /\ 0 \in Blocks
<1>1. /\ FS_DIR_BLOCKS \in Nat \ {0} /\ FS_ENTRIES_PER_BLOCK \in Nat \ {0}
      /\ DATA_BLOCKS \in Nat \ {0} /\ MAP_BITS \in Nat \ {0} /\ BLOCK_SIZE \in Nat \ {0}
      /\ MAX_FREE \in Nat /\ DATA_BLOCKS <= MAX_FREE
  BY SimpleFSConstants
<1>2. FS_MAX_ENTRIES \in Nat
  BY <1>1 DEF FS_MAX_ENTRIES
<1>3. Entries \subseteq Nat /\ FS_MAX_ENTRIES \notin Entries /\ Blocks \subseteq Nat /\ 0 \in Blocks
  BY <1>1, <1>2 DEF Entries, Blocks
<1>4. IsFiniteSet(Entries)
  BY <1>2, FS_Interval DEF Entries
<1>5. IsFiniteSet(Blocks) /\ Cardinality(Blocks) = DATA_BLOCKS
  BY <1>1, FS_Interval DEF Blocks
<1> QED BY <1>1, <1>2, <1>3, <1>4, <1>5

\* The number of blocks that n bytes take.
LEMMA BlockCounts ==
  /\ BlockCount(0) = 0
  /\ \A n \in Nat : BlockCount(n) \in Nat
<1>1. BLOCK_SIZE \in Nat \ {0}
  BY Constants
<1>2. \A n \in Nat : (n + BLOCK_SIZE - 1) \div BLOCK_SIZE \in Nat
  BY <1>1
<1>3. (0 + BLOCK_SIZE - 1) \div BLOCK_SIZE = 0
  BY <1>1
<1> QED BY <1>2, <1>3 DEF BlockCount

\* Byte k of n lies in one of their blocks.
LEMMA BlockOfByte ==
  ASSUME NEW n \in Nat, NEW k \in 1..n
  PROVE  /\ (k - 1) \div BLOCK_SIZE \in 0 .. BlockCount(n) - 1
         /\ ((k - 1) % BLOCK_SIZE) + 1 \in 1..BLOCK_SIZE
         /\ ((k - 1) \div BLOCK_SIZE) * BLOCK_SIZE + (((k - 1) % BLOCK_SIZE) + 1) = k
<1> DEFINE q == (k - 1) \div BLOCK_SIZE
           r == (k - 1) % BLOCK_SIZE
           c == BlockCount(n)
<1>1. BLOCK_SIZE \in Nat \ {0} /\ c \in Nat
  BY Constants, BlockCounts
<1>2. q \in Nat /\ r \in 0 .. BLOCK_SIZE - 1 /\ k - 1 = BLOCK_SIZE * q + r
  BY <1>1
<1>3. n + BLOCK_SIZE - 1 < BLOCK_SIZE * (c + 1)
  BY <1>1 DEF BlockCount
<1> HIDE DEF q, r, c
<1>4. BLOCK_SIZE * q < BLOCK_SIZE * c
  BY <1>1, <1>2, <1>3
<1>5. q < c
  BY <1>1, <1>2, <1>4
<1>6. q \in 0 .. c - 1 /\ r + 1 \in 1..BLOCK_SIZE /\ q * BLOCK_SIZE + (r + 1) = k
  BY <1>1, <1>2, <1>5
<1> QED BY <1>6 DEF q, r, c

\* The blocks of an entry.
LEMMA Extents ==
  ASSUME NEW e \in DirEntries
  PROVE  /\ IsFiniteSet(Extent(e))
         /\ Cardinality(Extent(e)) = IF e.type = "FILE" THEN BlockCount(e.size) ELSE 0
         /\ e.size = 0 => Extent(e) = {}
<1>1. e.size \in Nat /\ e.start_block \in Nat /\ BlockCount(e.size) \in Nat
  BY Zenon, Constants, BlockCounts DEF DirEntries
<1>2. CASE e.type = "FILE"
  <2>1. Extent(e) = e.start_block .. e.start_block + BlockCount(e.size) - 1
    BY <1>2 DEF Extent
  <2>2. /\ IsFiniteSet(Extent(e)) /\ Cardinality(Extent(e)) = BlockCount(e.size)
    <3> DEFINE b == e.start_block + BlockCount(e.size) - 1
    <3>1. e.start_block \in Int /\ b \in Int
      BY <1>1
    <3>2. /\ IsFiniteSet(e.start_block .. b)
          /\ Cardinality(e.start_block .. b) = IF e.start_block > b THEN 0 ELSE b - e.start_block + 1
      BY <3>1, FS_Interval
    <3>3. (IF e.start_block > b THEN 0 ELSE b - e.start_block + 1) = BlockCount(e.size)
      BY <1>1
    <3> QED BY <2>1, <3>2, <3>3
  <2>3. e.size = 0 => Extent(e) = {}
    BY <1>1, <2>1, BlockCounts
  <2> QED BY <1>2, <2>2, <2>3
<1>3. CASE e.type # "FILE"
  BY <1>3, FS_EmptySet DEF Extent
<1> QED BY <1>2, <1>3

\* A cleared entry is an entry without blocks.
LEMMA FreeEntryFacts == FreeEntry \in DirEntries /\ FreeEntry.type = "FREE" /\ Extent(FreeEntry) = {}
  BY Constants DEF FreeEntry, DirEntries, Extent

\* The sequences that callers write.
LEMMA DataFacts ==
  ASSUME NEW d \in Data
  PROVE  /\ Len(d) \in Nat /\ BlockCount(Len(d)) \in Nat
         /\ \A i \in Nat : BlockOf(d, i) \in BlockContents
<1>1. d \in Seq(Nat)
  BY SimpleFSConstants
<1>2. Len(d) \in Nat /\ \A k \in 1..Len(d) : d[k] \in Nat
  BY <1>1
<1>3. BLOCK_SIZE \in Nat \ {0}
  BY Constants
<1>4. ASSUME NEW i \in Nat PROVE BlockOf(d, i) \in BlockContents
  <2>1. ASSUME NEW k \in 1..BLOCK_SIZE
        PROVE  (IF i * BLOCK_SIZE + k <= Len(d) THEN d[i * BLOCK_SIZE + k] ELSE 0) \in Nat
    <3>1. i * BLOCK_SIZE \in Nat /\ k \in Nat \ {0}
      BY <1>3
    <3>2. i * BLOCK_SIZE + k <= Len(d) => i * BLOCK_SIZE + k \in 1..Len(d)
      BY <1>2, <3>1
    <3> QED BY <1>2, <3>2
  <2> QED BY <2>1 DEF BlockOf, BlockContents
<1> QED BY <1>2, <1>4, BlockCounts

\* A directory with one entry rewritten.
LEMMA EntryWritten ==
  ASSUME NEW dir \in [Entries -> DirEntries], Sound(dir), NEW i \in Entries,
         NEW e \in DirEntries, Extent(e) \subseteq Blocks,
         \A j \in Entries \ {i} : /\ Extent(dir[j]) \cap Extent(e) = {}
                                  /\ dir[j].type # "FREE" => dir[j].name # e.name \/ e.type = "FREE"
  PROVE  /\ [dir EXCEPT ![i] = e] \in [Entries -> DirEntries]
         /\ Sound([dir EXCEPT ![i] = e])
<1> DEFINE new == [dir EXCEPT ![i] = e]
<1>1. new \in [Entries -> DirEntries] /\ new[i] = e /\ \A j \in Entries \ {i} : new[j] = dir[j]
  OBVIOUS
<1> HIDE DEF new
<1>2. Sound(new)
  BY <1>1 DEF Sound
<1> QED BY <1>1, <1>2 DEF new

\* Clearing an entry frees its blocks and no others.
LEMMA EntryCleared ==
  ASSUME NEW dir \in [Entries -> DirEntries], Sound(dir), NEW i \in Entries
  PROVE  /\ [dir EXCEPT ![i] = FreeEntry] \in [Entries -> DirEntries]
         /\ Sound([dir EXCEPT ![i] = FreeEntry])
         /\ InUse([dir EXCEPT ![i] = FreeEntry]) = InUse(dir) \ Extent(dir[i])
<1> DEFINE new == [dir EXCEPT ![i] = FreeEntry]
<1>1. new[i] = FreeEntry /\ \A j \in Entries \ {i} : new[j] = dir[j]
  OBVIOUS
<1>2. new \in [Entries -> DirEntries] /\ Sound(new)
  BY Zenon, FreeEntryFacts, EntryWritten
<1> HIDE DEF new
<1>3. InUse(new) = InUse(dir) \ Extent(dir[i])
  <2>1. \A j \in Entries : Extent(new[j]) = IF j = i THEN {} ELSE Extent(dir[j])
    BY <1>1, FreeEntryFacts
  <2>2. \A j \in Entries \ {i} : Extent(dir[j]) \cap Extent(dir[i]) = {}
    BY DEF Sound
  <2> QED BY <2>1, <2>2 DEF InUse
<1> QED BY Zenon, <1>2, <1>3 DEF new

\* The blocks in use are finitely many, and fs_write_file's recount counts them.
LEMMA InUseCount ==
  ASSUME NEW dir \in [Entries -> DirEntries], Sound(dir)
  PROVE  /\ InUse(dir) \subseteq Blocks /\ IsFiniteSet(InUse(dir))
         /\ Cardinality(InUse(dir)) \in 0..DATA_BLOCKS
         /\ Recount(dir, Entries) = DATA_BLOCKS - Cardinality(InUse(dir))
<1>1. InUse(dir) \subseteq Blocks
  BY DEF InUse, Sound
<1>2. IsFiniteSet(InUse(dir)) /\ Cardinality(InUse(dir)) <= DATA_BLOCKS
  BY <1>1, Constants, FS_Subset
<1>3. Cardinality(InUse(dir)) \in 0..DATA_BLOCKS
  BY <1>2, Constants, FS_CardinalityType
<1> DEFINE P == UNION {{i} \X Extent(dir[i]) : i \in Entries}
           f == [p \in P |-> p[2]]
<1>4. \A p \in P : p[1] \in Entries /\ p[2] \in Extent(dir[p[1]]) /\ p = <<p[1], p[2]>>
  OBVIOUS
<1>5. f \in Bijection(P, InUse(dir))
  <2>1. f \in [P -> InUse(dir)]
    BY <1>4 DEF InUse
  <2>2. ASSUME NEW p \in P, NEW q \in P, f[p] = f[q] PROVE p = q
    <3>1. p[1] = q[1]
      BY <1>4, <2>2 DEF Sound
    <3> QED BY <1>4, <2>2, <3>1
  <2>3. ASSUME NEW b \in InUse(dir) PROVE \E p \in P : f[p] = b
    <3>1. PICK i \in Entries : b \in Extent(dir[i])
      BY <2>3 DEF InUse
    <3>2. <<i, b>> \in P /\ f[<<i, b>>] = b
      BY <3>1
    <3> QED BY Zenon, <3>2
  <2> QED BY Zenon, <2>1, <2>2, <2>3 DEF Bijection, Injection, Surjection, IsInjective
<1>6. Cardinality(P) = Cardinality(InUse(dir))
  <2>1. P \subseteq Entries \X Blocks
    BY <1>1, <1>4 DEF Sound
  <2>2. IsFiniteSet(P)
    BY Zenon, <2>1, Constants, FS_Product, FS_Subset
  <2>3. ExistsBijection(P, InUse(dir))
    BY <1>5 DEF ExistsBijection
  <2> QED BY <2>2, <2>3, FS_Bijection
<1>7. Recount(dir, Entries) =
        IF DATA_BLOCKS > Cardinality(P) THEN DATA_BLOCKS - Cardinality(P) ELSE 0
  BY DEF Recount
<1>8. Recount(dir, Entries) = DATA_BLOCKS - Cardinality(InUse(dir))
  <2> HIDE DEF P
  <2> QED BY <1>3, <1>6, <1>7, Constants
<1> QED BY <1>1, <1>2, <1>3, <1>8
------------------------------------------------------------------------------
\* A zeroed image has an empty directory.
LEMMA FSInit == Init => FSInv
<1> SUFFICES ASSUME Init PROVE FSInv
  OBVIOUS
<1>1. /\ disk.dir = [i \in Entries |-> FreeEntry] /\ disk.magic = FALSE /\ op = Unmounted
      /\ superblock = 0 /\ faulty = FALSE
  BY DEF Init
<1>2. ZeroBlock \in BlockContents /\ 0 \in 0..MAX_FREE
  BY Constants DEF ZeroBlock, BlockContents
<1>3. disk \in Disks
  BY <1>2, FreeEntryFacts DEF Init, Disks
<1>4. FSTypes
  BY Zenon, <1>1, <1>2, <1>3 DEF FSTypes
<1>5. Sound(disk.dir)
  BY <1>1, FreeEntryFacts DEF Sound
<1>6. LocalsInv /\ CountsInv
  BY <1>1 DEF LocalsInv, CountsInv, Unmounted, Idle
<1> QED BY <1>4, <1>5, <1>6 DEF FSInv

\* The place that a call has reached says which locals it has.
LEMMA OpShape ==
  ASSUME FSTypes
  PROVE  /\ op.pc = "unmounted" => op = Unmounted
         /\ op.pc = "idle" => op = Idle
         /\ op.pc = "format" => op \in FormatOps
         /\ op.pc \in {"data", "recount"} => op \in WriteOps
         /\ op.pc \in {"children", "self", "free"} => op \in DeleteOps
         /\ op.pc \in {"unmounted", "idle", "format", "data", "recount", "children", "self", "free"}
  BY DEF FSTypes, Unmounted, Idle, FormatOps, WriteOps, DeleteOps

\* The fields of a disk after one write.
LEMMA DiskFields ==
  ASSUME NEW d \in Disks
  PROVE  /\ d.magic \in BOOLEAN /\ d.free_blocks \in 0..MAX_FREE
         /\ d.dir \in [Entries -> DirEntries] /\ d.data \in [Blocks -> BlockContents]
         /\ \A i \in Entries, e \in DirEntries :
              LET w == [d EXCEPT !.dir[i] = e] IN
              /\ w \in Disks /\ w.dir = [d.dir EXCEPT ![i] = e]
              /\ w.data = d.data /\ w.magic = d.magic /\ w.free_blocks = d.free_blocks
         /\ \A b \in Blocks, c \in BlockContents :
              LET w == [d EXCEPT !.data[b] = c] IN
              /\ w \in Disks /\ w.data = [d.data EXCEPT ![b] = c]
              /\ w.dir = d.dir /\ w.magic = d.magic /\ w.free_blocks = d.free_blocks
         /\ \A n \in 0..MAX_FREE :
              LET w == [d EXCEPT !.free_blocks = n] IN
              /\ w \in Disks /\ w.free_blocks = n
              /\ w.dir = d.dir /\ w.data = d.data /\ w.magic = d.magic
<1>1. /\ d.magic \in BOOLEAN /\ d.free_blocks \in 0..MAX_FREE
      /\ d.dir \in [Entries -> DirEntries] /\ d.data \in [Blocks -> BlockContents]
  BY DEF Disks
<1>2. ASSUME NEW i \in Entries, NEW e \in DirEntries
      PROVE  LET w == [d EXCEPT !.dir[i] = e] IN
             /\ w \in Disks /\ w.dir = [d.dir EXCEPT ![i] = e]
             /\ w.data = d.data /\ w.magic = d.magic /\ w.free_blocks = d.free_blocks
  BY <1>1, <1>2 DEF Disks
<1>3. ASSUME NEW b \in Blocks, NEW c \in BlockContents
      PROVE  LET w == [d EXCEPT !.data[b] = c] IN
             /\ w \in Disks /\ w.data = [d.data EXCEPT ![b] = c]
             /\ w.dir = d.dir /\ w.magic = d.magic /\ w.free_blocks = d.free_blocks
  BY <1>1, <1>3 DEF Disks
<1>4. ASSUME NEW n \in 0..MAX_FREE
      PROVE  LET w == [d EXCEPT !.free_blocks = n] IN
             /\ w \in Disks /\ w.free_blocks = n
             /\ w.dir = d.dir /\ w.data = d.data /\ w.magic = d.magic
  BY <1>1, <1>4 DEF Disks
<1> QED BY <1>1, <1>2, <1>3, <1>4

\* A call that gives up after a failed write leaves everything in order.
LEMMA GivesUp ==
  ASSUME FSInv, disk' = disk, op' = Idle, faulty' = TRUE, superblock' \in 0..MAX_FREE
  PROVE  FSInv'
  BY DEF FSInv, FSTypes, LocalsInv, CountsInv, Idle, Unmounted

\* Without read errors a scan reads the whole directory.
LEMMA FullScans == ~READ_ERRORS => Scans = {Entries}
  BY DEF Scans

\* fs_init takes the count from the medium, or begins to format.
LEMMA StepInit == FSInv /\ ~READ_ERRORS /\ fs_init => FSInv'
<1> SUFFICES ASSUME FSInv, ~READ_ERRORS, fs_init PROVE FSInv'
  OBVIOUS
<1>1. disk' = disk /\ faulty' = faulty /\ op = Unmounted
  BY DEF fs_init
<1>2. CASE disk.magic /\ superblock' = disk.free_blocks /\ op' = Idle
  BY <1>1, <1>2, DiskFields DEF FSInv, FSTypes, LocalsInv, CountsInv, Idle, Unmounted
<1>3. CASE superblock' = DATA_BLOCKS /\ op' = [pc |-> "format", i |-> 0]
  <2>1. superblock' \in 0..MAX_FREE /\ op' \in FormatOps
    BY <1>3, Constants DEF FormatOps
  <2>2. FSTypes' /\ Sound(disk.dir)'
    BY <1>1, <2>1 DEF FSInv, FSTypes
  <2>3. LocalsInv'
    <3>1. \A j \in Entries : ~(j \div FS_ENTRIES_PER_BLOCK < 0 - 1)
      BY Constants
    <3> QED BY <1>1, <1>3, <3>1 DEF LocalsInv
  <2>4. CountsInv'
    BY <1>3 DEF CountsInv, Idle, Unmounted
  <2> QED BY <2>2, <2>3, <2>4 DEF FSInv
<1> QED BY <1>2, <1>3 DEF fs_init

\* fs_format has cleared the directory when it returns.
LEMMA StepFormat == FSInv /\ fs_format => FSInv'
<1> SUFFICES ASSUME FSInv, fs_format PROVE FSInv'
  OBVIOUS
<1> DEFINE block(j) == j \div FS_ENTRIES_PER_BLOCK
           zeroed == [j \in Entries |-> IF block(j) = op.i - 1 THEN FreeEntry ELSE disk.dir[j]]
           written == IF op.i = 0
                      THEN [disk EXCEPT !.magic = TRUE, !.free_blocks = superblock]
                      ELSE [disk EXCEPT !.dir = zeroed]
           next == IF op.i = FS_DIR_BLOCKS THEN Idle ELSE [op EXCEPT !.i = @ + 1]
<1>1. /\ op.pc = "format" /\ op \in FormatOps /\ op.i \in 0..FS_DIR_BLOCKS
      /\ disk \in Disks /\ superblock' = superblock /\ superblock \in 0..MAX_FREE
      /\ disk.dir \in [Entries -> DirEntries] /\ faulty \in BOOLEAN
  BY OpShape, DiskFields DEF fs_format, FSInv, FSTypes, FormatOps
<1>2. DeviceWrite(written, next, Idle)
  BY DEF fs_format
<1> HIDE DEF block
<1>3. CASE disk' = written /\ op' = next /\ faulty' = faulty
  <2>1. written.dir \in [Entries -> DirEntries] /\ Sound(written.dir) /\ written \in Disks
    <3>1. CASE op.i = 0
      BY Zenon, <1>1, <3>1 DEF Disks, FSInv
    <3>2. CASE op.i # 0
      <4>1. zeroed \in [Entries -> DirEntries]
        BY <1>1, FreeEntryFacts
      <4>2. Sound(zeroed)
        BY FreeEntryFacts DEF FSInv, Sound
      <4>3. written = [disk EXCEPT !.dir = zeroed]
        BY <3>2
      <4> HIDE DEF zeroed, written
      <4>4. written.dir = zeroed /\ written \in Disks
        BY <1>1, <4>1, <4>3 DEF Disks
      <4> QED BY <4>1, <4>2, <4>4
    <3> QED BY <3>1, <3>2
  <2>2. op.i > 0 => \A j \in Entries : block(j) < op.i => written.dir[j] = FreeEntry
    <3> SUFFICES ASSUME op.i > 0, NEW j \in Entries, block(j) < op.i
                 PROVE  written.dir[j] = FreeEntry
      OBVIOUS
    <3>1. block(j) \in Int /\ (block(j) < op.i - 1 \/ block(j) = op.i - 1)
      BY <1>1, Constants DEF block
    <3>2. written.dir = zeroed
      BY <1>1 DEF Disks
    <3>3. zeroed[j] = FreeEntry
      BY <1>1, <3>1 DEF FSInv, LocalsInv, block
    <3> QED BY <3>2, <3>3
  <2>3. ~faulty => superblock = DATA_BLOCKS /\ written.free_blocks = superblock
    BY <1>1 DEF FSInv, CountsInv, Disks
  <2>4. CASE op.i = FS_DIR_BLOCKS
    <3>1. op' = Idle
      BY <1>3, <2>4
    <3>2. \A j \in Entries : block(j) < FS_DIR_BLOCKS
      BY Constants DEF Entries, FS_MAX_ENTRIES, block
    <3>3. \A j \in Entries : disk'.dir[j] = FreeEntry
      BY <1>3, <2>2, <2>4, <3>2, Constants
    <3>4. InUse(disk'.dir) = {}
      BY <3>3, FreeEntryFacts DEF InUse
    <3>5. DATA_BLOCKS - Cardinality(InUse(disk'.dir)) = DATA_BLOCKS
      BY <3>4, FS_EmptySet, Constants
    <3>a. ~faulty' => superblock' = DATA_BLOCKS /\ disk'.free_blocks = superblock'
      BY <1>1, <1>3, <2>3
    <3>b. CountsInv'
      BY Zenon, <3>1, <3>5, <3>a DEF CountsInv, Idle, Unmounted
    <3>6. LocalsInv' /\ FSTypes'
      BY <1>1, <1>3, <2>1, <3>1 DEF LocalsInv, FSTypes, Idle
    <3> QED BY <1>3, <2>1, <3>b, <3>6 DEF FSInv
  <2>5. CASE op.i # FS_DIR_BLOCKS
    <3>1. op' = [op EXCEPT !.i = @ + 1] /\ op' \in FormatOps /\ op'.pc = "format" /\ op'.i = op.i + 1
      BY <1>1, <1>3, <2>5, Constants DEF FormatOps
    <3>2. LocalsInv'
      <4>1. ASSUME NEW j \in Entries, block(j) < op'.i - 1 PROVE disk'.dir[j] = FreeEntry
        <5>1. block(j) < op.i /\ block(j) \in Nat
          BY <1>1, <3>1, <4>1, Constants DEF block
        <5> QED BY <1>1, <1>3, <2>2, <5>1
      <4> QED BY <3>1, <4>1 DEF LocalsInv, block
    <3>3. CountsInv'
      BY <1>1, <1>3, <2>3, <3>1 DEF CountsInv, Idle, Unmounted
    <3>4. FSTypes'
      BY <1>1, <1>3, <2>1, <3>1 DEF FSTypes
    <3> QED BY <1>3, <2>1, <3>2, <3>3, <3>4 DEF FSInv
  <2> QED BY <2>4, <2>5
<1>4. CASE disk' = disk /\ op' = Idle /\ faulty' = TRUE
  BY <1>1, <1>4, GivesUp
<1> QED BY Zenon, <1>2, <1>3, <1>4 DEF DeviceWrite

\* fs_create writes an entry without blocks, under a name that no other entry has.
LEMMA StepCreate ==
  ASSUME FSInv, ~READ_ERRORS, NEW name \in Names, NEW type \in {"FILE", "DIR"},
         fs_create(name, type)
  PROVE  FSInv'
<1> DEFINE slot == fs_find_free_slot(disk.dir, Entries)
           new  == [FreeEntry EXCEPT !.name = name, !.type = type]
<1>1. /\ op = Idle /\ superblock' = superblock /\ disk \in Disks
      /\ superblock \in 0..MAX_FREE /\ disk.dir \in [Entries -> DirEntries] /\ Sound(disk.dir)
  BY DiskFields DEF fs_create, FSInv, FSTypes
<1>2. \/ UNCHANGED vars
      \/ /\ fs_find_entry(disk.dir, name, Entries) = FS_MAX_ENTRIES /\ slot # FS_MAX_ENTRIES
         /\ DeviceWrite([disk EXCEPT !.dir[slot] = new], Idle, Idle)
  BY Zenon, FullScans DEF fs_create
<1>3. CASE UNCHANGED vars
  BY <1>3 DEF vars, FSInv, FSTypes, LocalsInv, CountsInv, Needed, Fresh
<1>4. CASE disk' = disk /\ op' = Idle /\ faulty' = TRUE
  BY <1>1, <1>4, GivesUp
<1>5. CASE /\ fs_find_entry(disk.dir, name, Entries) = FS_MAX_ENTRIES /\ slot # FS_MAX_ENTRIES
           /\ disk' = [disk EXCEPT !.dir[slot] = new] /\ op' = Idle /\ faulty' = faulty
  <2>1. \A j \in Entries : disk.dir[j].type # "FREE" => disk.dir[j].name # name
    <3> DEFINE S == {j \in Entries : disk.dir[j].type # "FREE" /\ disk.dir[j].name = name}
    <3>1. S # {} => Min(S) \in S
      BY MinOfNaturals, Constants
    <3>2. S = {}
      BY <1>5, <3>1, Constants DEF fs_find_entry, FirstOf
    <3> QED BY <3>2
  <2>2. slot \in Entries /\ disk.dir[slot].type = "FREE"
    <3> DEFINE S == {j \in Entries : disk.dir[j].type = "FREE"}
    <3>1. S # {} => Min(S) \in S
      BY MinOfNaturals, Constants
    <3> QED BY <1>5, <3>1 DEF fs_find_free_slot, FirstOf
  <2>3. new \in DirEntries /\ new.size = 0 /\ new.name = name
    BY Zenon, Constants DEF FreeEntry, DirEntries
  <2> HIDE DEF slot, new
  <2>4. Extent(new) = {} /\ Extent(disk.dir[slot]) = {}
    BY <2>2, <2>3, Extents DEF Extent
  <2>5. /\ disk' \in Disks /\ disk'.dir = [disk.dir EXCEPT ![slot] = new]
        /\ disk'.free_blocks = disk.free_blocks /\ disk'.magic = disk.magic
    BY <1>1, <1>5, <2>2, <2>3, DiskFields
  <2>6. Sound(disk'.dir)
    BY <1>1, <2>1, <2>2, <2>3, <2>4, <2>5, EntryWritten
  <2>7. InUse(disk'.dir) = InUse(disk.dir)
    <3>1. \A j \in Entries : Extent(disk'.dir[j]) = Extent(disk.dir[j])
      BY <1>1, <2>2, <2>4, <2>5
    <3> QED BY <3>1 DEF InUse
  <2>8. FSTypes'
    BY <1>1, <1>5, <2>5 DEF FSInv, FSTypes
  <2>9. LocalsInv'
    BY <1>5 DEF LocalsInv, Idle
  <2>10. CountsInv'
    BY <1>1, <1>5, <2>5, <2>7 DEF FSInv, CountsInv, Idle, Unmounted
  <2> QED BY <2>6, <2>8, <2>9, <2>10 DEF FSInv
<1> QED BY Zenon, <1>2, <1>3, <1>4, <1>5 DEF DeviceWrite

\* fs_write_file allocates blocks that no entry has.
LEMMA AllocatesFresh ==
  ASSUME NEW count \in Nat \ {0}, fs_alloc_blocks(count, Entries) # NO_SPACE
  PROVE  LET start == fs_alloc_blocks(count, Entries)
             run == start .. start + count - 1
         IN /\ start \in Blocks /\ run \subseteq Blocks
            /\ \A i \in Entries : Extent(disk.dir[i]) \cap run = {}
<1> DEFINE inUse  == UNION {Extent(disk.dir[i]) : i \in Entries}
           usable == {b \in Blocks : b < MAP_BITS} \ inUse
           starts == {b \in usable : b .. b + count - 1 \subseteq usable}
<1>1. starts # {} /\ fs_alloc_blocks(count, Entries) = Min(starts)
  BY DEF fs_alloc_blocks
<1>2. starts \subseteq Nat
  BY Zenon, Constants
<1>3. Min(starts) \in starts
  BY <1>1, <1>2, MinOfNaturals
<1>4. Min(starts) \in Blocks /\ Min(starts) .. Min(starts) + count - 1 \subseteq usable
  BY <1>3
<1>5. usable \subseteq Blocks /\ \A i \in Entries : Extent(disk.dir[i]) \cap usable = {}
  OBVIOUS
<1> HIDE DEF usable, starts
<1> QED BY Zenon, <1>1, <1>4, <1>5

\* fs_find_entry returns the entry of the name.
LEMMA FindsEntry ==
  ASSUME NEW dir, NEW name, fs_find_entry(dir, name, Entries) # FS_MAX_ENTRIES
  PROVE  LET i == fs_find_entry(dir, name, Entries)
         IN i \in Entries /\ dir[i].type # "FREE" /\ dir[i].name = name
<1> DEFINE S == {j \in Entries : dir[j].type # "FREE" /\ dir[j].name = name}
<1>1. S # {} => Min(S) \in S
  BY MinOfNaturals, Constants
<1> QED BY <1>1 DEF fs_find_entry, FirstOf

\* fs_write_file leaves the disk alone until its blocks are allocated.
LEMMA StepWriteFile ==
  ASSUME FSInv, ~READ_ERRORS, NEW name \in Names, NEW data \in Data, fs_write_file(name, data)
  PROVE  FSInv'
<1> DEFINE index == fs_find_entry(disk.dir, name, Entries)
           count == BlockCount(Len(data))
           start == IF count = 0 THEN 0 ELSE fs_alloc_blocks(count, Entries)
<1>1. /\ op = Idle /\ disk' = disk /\ superblock' = superblock /\ faulty' = faulty
      /\ index # FS_MAX_ENTRIES /\ disk.dir[index].type = "FILE" /\ start # NO_SPACE
      /\ op' = [pc |-> "data", name |-> name, data |-> data, index |-> index,
                start |-> start, i |-> 0]
  BY Zenon, FullScans DEF fs_write_file
<1>2. index \in Entries /\ disk.dir[index].name = name
  BY <1>1, FindsEntry
<1>3. count \in Nat
  BY DataFacts
<1>4. /\ start \in Blocks /\ start .. start + count - 1 \subseteq Blocks
      /\ \A i \in Entries : Extent(disk.dir[i]) \cap (start .. start + count - 1) = {}
  <2>1. CASE count = 0
    <3>1. start = 0 /\ start .. start + count - 1 = {}
      BY <2>1
    <3> QED BY <3>1, Constants
  <2>2. CASE count # 0
    BY Zenon, <1>1, <1>3, <2>2, AllocatesFresh
  <2> QED BY <2>1, <2>2
<1> HIDE DEF index, start
<1>5. op' \in WriteOps /\ op'.pc = "data"
  BY <1>1, <1>2, <1>4 DEF WriteOps
<1>6. FSTypes' /\ Sound(disk.dir)'
  BY Zenon, <1>1, <1>5 DEF FSInv, FSTypes
<1>7. LocalsInv'
  <2>1. /\ op'.i = 0 /\ Needed' = count /\ Fresh' = start .. start + count - 1
        /\ op'.index = index /\ op'.name = name
    BY <1>1 DEF Needed, Fresh
  <2>2. 0 <= count /\ 0 .. 0 - 1 = {}
    BY <1>3
  <2> QED BY Zenon, <1>1, <1>2, <1>4, <1>5, <2>1, <2>2 DEF LocalsInv
<1>8. CountsInv'
  BY <1>1, <1>5 DEF CountsInv, Idle, Unmounted
<1> QED BY Zenon, <1>6, <1>7, <1>8 DEF FSInv

\* The data of a file goes to its fresh blocks and to no others.
LEMMA StepWriteData ==
  ASSUME FSInv, write_data
  PROVE  FSInv'
<1> DEFINE b == op.start + op.i
           c == BlockOf(op.data, op.i)
<1>1. /\ op.pc = "data" /\ op \in WriteOps /\ disk \in Disks /\ superblock \in 0..MAX_FREE
      /\ superblock' = superblock /\ op.i < Needed /\ faulty \in BOOLEAN
  BY OpShape DEF FSInv, FSTypes, write_data, Needed
<1>2. /\ op.data \in Data /\ op.i \in Nat /\ op.start \in Nat /\ op.index \in Entries
  BY Zenon, <1>1, Constants DEF WriteOps
<1>3. Needed \in Nat /\ c \in BlockContents
  BY <1>2, DataFacts DEF Needed
<1>4. /\ Fresh \subseteq Blocks
      /\ \A k \in 0 .. op.i - 1 : disk.data[op.start + k] = BlockOf(op.data, k)
      /\ disk.dir[op.index].type = "FILE" /\ disk.dir[op.index].name = op.name
      /\ \A i \in Entries : Extent(disk.dir[i]) \cap Fresh = {}
  BY <1>1 DEF FSInv, LocalsInv
<1>5. b \in Blocks /\ \A k \in 0 .. op.i - 1 : op.start + k \in Blocks /\ op.start + k # b
  <2>1. b \in Fresh /\ \A k \in 0 .. op.i - 1 : op.start + k \in Fresh /\ op.start + k # b
    BY <1>1, <1>2, <1>3 DEF Fresh
  <2> QED BY <1>4, <2>1
<1>6. CASE disk' = disk /\ op' = Idle /\ faulty' = TRUE
  BY <1>1, <1>6, GivesUp
<1>7. CASE /\ disk' = [disk EXCEPT !.data[b] = c] /\ op' = [op EXCEPT !.i = @ + 1]
           /\ faulty' = faulty
  <2>1. /\ disk' \in Disks /\ disk'.data = [disk.data EXCEPT ![b] = c] /\ disk'.dir = disk.dir
        /\ disk.data \in [Blocks -> BlockContents]
    BY <1>1, <1>3, <1>5, <1>7, DiskFields
  <2>2. /\ op' \in WriteOps /\ op'.pc = "data" /\ op'.i = op.i + 1 /\ op'.data = op.data
        /\ op'.start = op.start /\ op'.index = op.index /\ op'.name = op.name
    BY <1>1, <1>2, <1>7 DEF WriteOps
  <2>3. FSTypes'
    BY <1>1, <1>7, <2>1, <2>2 DEF FSTypes
  <2>4. Needed' = Needed /\ Fresh' = Fresh /\ op.i + 1 <= Needed
    BY <1>1, <1>2, <1>3, <2>2 DEF Needed, Fresh
  <2>5. \A k \in 0 .. (op.i + 1) - 1 : disk'.data[op.start + k] = BlockOf(op.data, k)
    <3> TAKE k \in 0 .. (op.i + 1) - 1
    <3>1. k = op.i \/ k \in 0 .. op.i - 1
      BY <1>2
    <3>2. CASE k = op.i
      BY Zenon, <1>5, <2>1, <3>2
    <3>3. CASE k \in 0 .. op.i - 1
      BY Zenon, <1>4, <1>5, <2>1, <3>3
    <3> QED BY <3>1, <3>2, <3>3
  <2> HIDE DEF b, c
  <2>6. LocalsInv'
    BY Zenon, <1>4, <2>1, <2>2, <2>4, <2>5 DEF LocalsInv
  <2>7. CountsInv'
    BY <2>2 DEF CountsInv, Idle, Unmounted
  <2> QED BY <2>1, <2>3, <2>6, <2>7 DEF FSInv
<1> QED BY Zenon, <1>6, <1>7 DEF write_data, DeviceWrite

\* The entry is written last, and takes the fresh blocks.
LEMMA EntryTakesFresh ==
  ASSUME FSInv, op.pc = "data"
  PROVE  LET e == [name |-> op.name, type |-> "FILE", start_block |-> op.start,
                   size |-> Len(op.data)]
         IN /\ e \in DirEntries /\ Extent(e) = Fresh /\ op.index \in Entries
            /\ [disk.dir EXCEPT ![op.index] = e] \in [Entries -> DirEntries]
            /\ Sound([disk.dir EXCEPT ![op.index] = e])
<1> DEFINE e == [name |-> op.name, type |-> "FILE", start_block |-> op.start,
                 size |-> Len(op.data)]
<1>1. op \in WriteOps /\ disk.dir \in [Entries -> DirEntries] /\ Sound(disk.dir)
  BY OpShape, DiskFields DEF FSInv, FSTypes
<1>2. /\ op.data \in Data /\ op.start \in Blocks /\ op.index \in Entries /\ op.name \in Names
  BY Zenon, <1>1 DEF WriteOps
<1>3. e \in DirEntries
  BY <1>2, DataFacts DEF DirEntries
<1>4. Extent(e) = Fresh /\ e.name = op.name
  BY DEF Extent, Fresh, Needed
<1>5. /\ Fresh \subseteq Blocks /\ \A j \in Entries : Extent(disk.dir[j]) \cap Fresh = {}
      /\ disk.dir[op.index].type = "FILE" /\ disk.dir[op.index].name = op.name
  BY DEF FSInv, LocalsInv
<1>6. \A j \in Entries \ {op.index} : disk.dir[j].type # "FREE" => disk.dir[j].name # op.name
  BY Zenon, <1>1, <1>2, <1>5 DEF Sound
<1> HIDE DEF e
<1>7. Sound([disk.dir EXCEPT ![op.index] = e])
      /\ [disk.dir EXCEPT ![op.index] = e] \in [Entries -> DirEntries]
  BY Zenon, <1>1, <1>2, <1>3, <1>4, <1>5, <1>6, EntryWritten
<1> QED BY <1>2, <1>3, <1>4, <1>7 DEF e

\* The write of the entry commits the new content.
LEMMA StepWriteEntry ==
  ASSUME FSInv, write_entry
  PROVE  FSInv'
<1> DEFINE e == [name |-> op.name, type |-> "FILE", start_block |-> op.start,
                 size |-> Len(op.data)]
<1>1. /\ op.pc = "data" /\ op \in WriteOps /\ disk \in Disks /\ superblock \in 0..MAX_FREE
      /\ superblock' = superblock /\ faulty \in BOOLEAN
  BY OpShape DEF FSInv, FSTypes, write_entry
<1>2. e \in DirEntries /\ op.index \in Entries /\ Sound([disk.dir EXCEPT ![op.index] = e])
  BY <1>1, EntryTakesFresh
<1>3. CASE disk' = disk /\ op' = Idle /\ faulty' = TRUE
  BY <1>1, <1>3, GivesUp
<1>4. CASE /\ disk' = [disk EXCEPT !.dir[op.index] = e] /\ op' = [op EXCEPT !.pc = "recount"]
           /\ faulty' = faulty
  <2>1. op' \in WriteOps /\ op'.pc = "recount"
    BY <1>1, <1>4 DEF WriteOps
  <2> HIDE DEF e
  <2>2. disk' \in Disks /\ disk'.dir = [disk.dir EXCEPT ![op.index] = e]
    BY <1>1, <1>2, <1>4, DiskFields
  <2>3. FSTypes'
    BY Zenon, <1>1, <1>4, <2>1, <2>2 DEF FSTypes
  <2>4. LocalsInv' /\ CountsInv'
    BY <2>1 DEF LocalsInv, CountsInv, Idle, Unmounted
  <2> QED BY <1>2, <2>2, <2>3, <2>4 DEF FSInv
<1> QED BY Zenon, <1>3, <1>4 DEF write_entry, DeviceWrite

\* The recount at the end of fs_write_file sets both counts right again.
LEMMA StepRecount ==
  ASSUME FSInv, ~READ_ERRORS, write_recount
  PROVE  FSInv'
<1>1. /\ disk \in Disks /\ disk.dir \in [Entries -> DirEntries] /\ Sound(disk.dir)
      /\ op' = Idle /\ superblock' = Recount(disk.dir, Entries)
  BY DiskFields, FullScans DEF FSInv, FSTypes, write_recount
<1>2. superblock' = DATA_BLOCKS - Cardinality(InUse(disk.dir)) /\ superblock' \in 0..MAX_FREE
  BY <1>1, InUseCount, Constants
<1>3. CASE disk' = disk /\ faulty' = TRUE
  BY <1>1, <1>2, <1>3, GivesUp
<1>4. CASE disk' = [disk EXCEPT !.free_blocks = superblock'] /\ faulty' = FALSE
  <2>1. disk' \in Disks /\ disk'.dir = disk.dir /\ disk'.free_blocks = superblock'
    BY <1>1, <1>2, <1>4, DiskFields
  <2>2. FSTypes' /\ LocalsInv'
    BY Zenon, <1>1, <1>2, <1>4, <2>1 DEF FSTypes, LocalsInv, Idle
  <2>3. CountsInv'
    BY <1>1, <1>2, <2>1 DEF CountsInv, Idle, Unmounted
  <2> QED BY <1>1, <2>1, <2>2, <2>3 DEF FSInv
<1> QED BY Zenon, <1>3, <1>4, FullScans DEF write_recount

\* Taking part of a finite set away.
LEMMA CountTakenAway ==
  ASSUME NEW S, IsFiniteSet(S), NEW T \in SUBSET S
  PROVE  /\ Cardinality(S \ T) = Cardinality(S) - Cardinality(T)
         /\ Cardinality(S) \in Nat /\ Cardinality(T) \in Nat /\ IsFiniteSet(S \ T)
<1>1. IsFiniteSet(T) /\ S \cap T = T
  BY FS_Subset
<1> QED BY <1>1, FS_Difference, FS_CardinalityType

\* fs_delete adds up what it frees, beginning with the blocks of the entry itself.
LEMMA StepDelete ==
  ASSUME FSInv, ~READ_ERRORS, NEW name \in Names, fs_delete(name)
  PROVE  FSInv'
<1> DEFINE index == fs_find_entry(disk.dir, name, Entries)
           e == disk.dir[index]
           freed == IF e.type = "FILE" THEN BlockCount(e.size) ELSE 0
<1>1. /\ op = Idle /\ disk' = disk /\ superblock' = superblock /\ faulty' = faulty
      /\ index # FS_MAX_ENTRIES
      /\ op' = [pc |-> IF e.type = "DIR" THEN "children" ELSE "self",
                name |-> name, index |-> index, i |-> 0, freed |-> freed]
  BY FullScans DEF fs_delete
<1>2. index \in Entries /\ e.type # "FREE" /\ e.name = name
  BY <1>1, FindsEntry
<1>3. disk.dir \in [Entries -> DirEntries] /\ Sound(disk.dir) /\ superblock \in 0..MAX_FREE
  BY DiskFields DEF FSInv, FSTypes
<1> HIDE DEF index
<1>4. e \in DirEntries /\ Extent(e) \subseteq InUse(disk.dir)
  BY Zenon, <1>2, <1>3 DEF InUse
<1>5. freed = Cardinality(Extent(e)) /\ IsFiniteSet(Extent(e)) /\ freed \in Nat
  BY Zenon, <1>4, Extents, FS_CardinalityType
<1> HIDE DEF freed
<1>6. op' \in DeleteOps /\ op'.index = index /\ op'.name = name /\ op'.freed = freed
      /\ op'.pc \in {"children", "self"} /\ (op'.pc = "children" => e.type = "DIR")
  BY Zenon, <1>1, <1>2, <1>5 DEF DeleteOps
<1>7. FSTypes' /\ Sound(disk.dir)'
  BY Zenon, <1>1, <1>6 DEF FSInv, FSTypes
<1>8. LocalsInv'
  BY Zenon, <1>1, <1>2, <1>6 DEF LocalsInv
<1>9. CountsInv'
  <2>1. ~faulty => superblock = DATA_BLOCKS - Cardinality(InUse(disk.dir))
    BY Zenon, <1>1 DEF FSInv, CountsInv
  <2>2. /\ Cardinality(InUse(disk.dir) \ Extent(e)) = Cardinality(InUse(disk.dir)) - freed
        /\ Cardinality(InUse(disk.dir)) \in Nat
    BY Zenon, <1>3, <1>4, <1>5, InUseCount, CountTakenAway
  <2>3. ~faulty => superblock + freed = DATA_BLOCKS - Cardinality(InUse(disk.dir) \ Extent(e))
    BY <1>3, <1>5, <2>1, <2>2, Constants
  <2> QED BY Zenon, <1>1, <1>6, <2>3 DEF CountsInv, Idle, Unmounted
<1> QED BY Zenon, <1>7, <1>8, <1>9 DEF FSInv

\* The child that delete_children clears next.
LEMMA NextChild ==
  ASSUME FSInv, op.pc = "children"
  PROVE  LET S == {j \in Entries : /\ j >= op.i
                                   /\ disk.dir[j].type # "FREE"
                                   /\ disk.dir[j].name \in Children[op.name]}
             next == FirstOf(S)
         IN next # FS_MAX_ENTRIES =>
              /\ next \in Entries /\ next # op.index /\ disk.dir[next].type # "FREE"
              /\ disk.dir[next].name \in Children[op.name]
<1> DEFINE S == {j \in Entries : /\ j >= op.i
                                 /\ disk.dir[j].type # "FREE"
                                 /\ disk.dir[j].name \in Children[op.name]}
<1>1. S # {} => Min(S) \in S
  BY Zenon, MinOfNaturals, Constants
<1>2. FirstOf(S) # FS_MAX_ENTRIES => FirstOf(S) \in S
  BY <1>1 DEF FirstOf
<1>3. op \in DeleteOps /\ disk.dir[op.index].name = op.name
  BY OpShape DEF FSInv, LocalsInv
<1>4. op.name \notin Children[op.name]
  BY <1>3, SimpleFSConstants DEF DeleteOps
<1> QED BY Zenon, <1>2, <1>3, <1>4

\* fs_delete clears the children of a directory one by one.
LEMMA StepChildren ==
  ASSUME FSInv, ~READ_ERRORS, delete_children
  PROVE  FSInv'
<1> DEFINE next == FirstOf({j \in Entries : /\ j >= op.i
                                            /\ disk.dir[j].type # "FREE"
                                            /\ disk.dir[j].name \in Children[op.name]})
           e == disk.dir[next]
           on == [op EXCEPT !.i = next + 1, !.freed = @ + Cardinality(Extent(e))]
<1>1. /\ op.pc = "children" /\ op \in DeleteOps /\ disk \in Disks /\ superblock \in 0..MAX_FREE
      /\ disk.dir \in [Entries -> DirEntries] /\ Sound(disk.dir) /\ faulty \in BOOLEAN
      /\ superblock' = superblock
  BY Zenon, OpShape, DiskFields DEF FSInv, FSTypes, delete_children
<1>2. /\ op.index \in Entries /\ op.freed \in Nat
      /\ disk.dir[op.index].type = "DIR" /\ disk.dir[op.index].name = op.name
  BY Zenon, <1>1 DEF FSInv, LocalsInv, DeleteOps
<1>3. \/ next = FS_MAX_ENTRIES /\ op' = [op EXCEPT !.pc = "self"] /\ disk' = disk /\ faulty' = faulty
      \/ next # FS_MAX_ENTRIES /\ DeviceWrite([disk EXCEPT !.dir[next] = FreeEntry], on, on)
  BY Zenon, FullScans DEF delete_children
<1>4. next # FS_MAX_ENTRIES => next \in Entries /\ next # op.index
  BY <1>1, NextChild
<1> HIDE DEF next
<1>5. CASE next = FS_MAX_ENTRIES /\ op' = [op EXCEPT !.pc = "self"] /\ disk' = disk /\ faulty' = faulty
  <2>1. /\ op' \in DeleteOps /\ op'.pc = "self" /\ op'.index = op.index /\ op'.name = op.name
        /\ op'.freed = op.freed
    BY <1>1, <1>5 DEF DeleteOps
  <2>2. FSTypes' /\ Sound(disk.dir)'
    BY <1>1, <1>5, <2>1 DEF FSTypes
  <2>3. LocalsInv'
    BY <1>2, <1>5, <2>1 DEF LocalsInv
  <2>4. CountsInv'
    BY <1>1, <1>5, <2>1 DEF FSInv, CountsInv, Idle, Unmounted
  <2> QED BY <2>2, <2>3, <2>4 DEF FSInv
<1>6. CASE next # FS_MAX_ENTRIES /\ DeviceWrite([disk EXCEPT !.dir[next] = FreeEntry], on, on)
  <2>1. /\ e \in DirEntries /\ IsFiniteSet(Extent(e)) /\ Cardinality(Extent(e)) \in Nat
        /\ next \in Entries /\ next # op.index /\ next + 1 \in Nat
    BY <1>1, <1>4, <1>6, Extents, FS_CardinalityType, Constants
  <2>2. /\ op' \in DeleteOps /\ op'.pc = "children" /\ op'.index = op.index /\ op'.name = op.name
        /\ op'.freed = op.freed + Cardinality(Extent(e))
    <3>1. op' = on
      BY <1>6 DEF DeviceWrite
    <3>2. op.freed + Cardinality(Extent(e)) \in Nat
      BY <1>2, <2>1
    <3> QED BY Zenon, <1>1, <2>1, <3>1, <3>2 DEF DeleteOps
  <2>3. CASE disk' = disk /\ faulty' = TRUE
    BY Zenon, <1>1, <1>2, <2>2, <2>3 DEF FSInv, FSTypes, LocalsInv, CountsInv
  <2>4. CASE disk' = [disk EXCEPT !.dir[next] = FreeEntry] /\ faulty' = faulty
    <3>1. disk' \in Disks /\ disk'.dir = [disk.dir EXCEPT ![next] = FreeEntry]
      BY <1>1, <2>1, <2>4, DiskFields, FreeEntryFacts
    <3>2. Sound(disk'.dir) /\ InUse(disk'.dir) = InUse(disk.dir) \ Extent(e)
      BY <1>1, <2>1, <3>1, EntryCleared
    <3>3. disk'.dir[op.index] = disk.dir[op.index]
      BY <1>1, <1>2, <2>1, <3>1
    <3>4. FSTypes'
      BY Zenon, <1>1, <2>2, <2>4, <3>1 DEF FSTypes
    <3>5. LocalsInv'
      BY <1>2, <2>2, <3>3 DEF LocalsInv
    <3>6. CountsInv'
      <4> DEFINE others == InUse(disk.dir) \ Extent(disk.dir[op.index])
      <4>1. ~faulty => superblock + op.freed = DATA_BLOCKS - Cardinality(others)
        BY Zenon, <1>1 DEF FSInv, CountsInv
      <4>2. IsFiniteSet(others) /\ Extent(e) \subseteq others
        <5>1. Extent(e) \subseteq InUse(disk.dir) /\ Extent(e) \cap Extent(disk.dir[op.index]) = {}
          BY Zenon, <1>1, <1>2, <2>1 DEF InUse, Sound
        <5>2. IsFiniteSet(InUse(disk.dir))
          BY Zenon, <1>1, InUseCount
        <5> QED BY Zenon, <5>1, <5>2, FS_Subset
      <4>3. InUse(disk'.dir) \ Extent(disk'.dir[op.index]) = others \ Extent(e)
        BY <3>2, <3>3
      <4> HIDE DEF others
      <4>4. /\ Cardinality(others \ Extent(e)) = Cardinality(others) - Cardinality(Extent(e))
            /\ Cardinality(others) \in Nat
        BY Zenon, <4>2, CountTakenAway
      <4>5. ~faulty => superblock + (op.freed + Cardinality(Extent(e))) =
                         DATA_BLOCKS - Cardinality(others \ Extent(e))
        BY <1>1, <1>2, <2>1, <4>1, <4>4, Constants
      <4>6. ~faulty' => superblock' + op'.freed =
                          DATA_BLOCKS - Cardinality(InUse(disk'.dir) \ Extent(disk'.dir[op'.index]))
        <5> HIDE DEF e
        <5> QED BY Zenon, <1>1, <2>2, <2>4, <4>3, <4>5
      <4>7. op' # Idle /\ op' # Unmounted /\ op'.pc = "children"
        BY <2>2 DEF Idle, Unmounted
      <4> HIDE DEF e, on
      <4> QED BY <4>6, <4>7 DEF CountsInv
    <3> QED BY <3>2, <3>4, <3>5, <3>6 DEF FSInv
  <2> QED BY Zenon, <1>6, <2>3, <2>4 DEF DeviceWrite
<1> QED BY Zenon, <1>3, <1>5, <1>6

\* fs_delete clears the entry it was called for.
LEMMA StepSelf ==
  ASSUME FSInv, delete_self
  PROVE  FSInv'
<1>1. /\ op.pc = "self" /\ op \in DeleteOps /\ disk \in Disks /\ superblock \in 0..MAX_FREE
      /\ disk.dir \in [Entries -> DirEntries] /\ Sound(disk.dir) /\ faulty \in BOOLEAN
      /\ superblock' = superblock /\ op.index \in Entries
  BY OpShape, DiskFields DEF FSInv, FSTypes, delete_self, DeleteOps
<1>2. CASE disk' = disk /\ op' = Idle /\ faulty' = TRUE
  BY <1>1, <1>2, GivesUp
<1>3. CASE /\ disk' = [disk EXCEPT !.dir[op.index] = FreeEntry]
           /\ op' = [op EXCEPT !.pc = "free"] /\ faulty' = faulty
  <2>1. op' \in DeleteOps /\ op'.pc = "free" /\ op'.index = op.index /\ op'.freed = op.freed
    BY <1>1, <1>3 DEF DeleteOps
  <2>2. disk' \in Disks /\ disk'.dir = [disk.dir EXCEPT ![op.index] = FreeEntry]
    BY <1>1, <1>3, DiskFields, FreeEntryFacts
  <2>3. /\ Sound(disk'.dir) /\ disk'.dir[op.index] = FreeEntry
        /\ InUse(disk'.dir) = InUse(disk.dir) \ Extent(disk.dir[op.index])
    BY <1>1, <2>2, EntryCleared
  <2>4. FSTypes'
    BY Zenon, <1>1, <1>3, <2>1, <2>2 DEF FSTypes
  <2>5. LocalsInv'
    BY Zenon, <2>1, <2>3 DEF LocalsInv
  <2>6. InUse(disk'.dir) \ Extent(disk'.dir[op.index]) =
          InUse(disk.dir) \ Extent(disk.dir[op.index])
    BY Zenon, <2>3, FreeEntryFacts
  <2>7. ~faulty => superblock + op.freed =
                     DATA_BLOCKS - Cardinality(InUse(disk.dir) \ Extent(disk.dir[op.index]))
    BY <1>1 DEF FSInv, CountsInv
  <2>8. ~faulty' => superblock' + op'.freed =
                      DATA_BLOCKS - Cardinality(InUse(disk'.dir) \ Extent(disk'.dir[op'.index]))
    BY Zenon, <1>1, <1>3, <2>1, <2>6, <2>7
  <2>9. CountsInv'
    BY <2>1, <2>8 DEF CountsInv, Idle, Unmounted
  <2> QED BY <2>3, <2>4, <2>5, <2>9 DEF FSInv
<1> QED BY Zenon, <1>2, <1>3 DEF delete_self, DeviceWrite

\* What fs_delete has added up is what became free.
LEMMA StepFlush ==
  ASSUME FSInv, delete_flush
  PROVE  FSInv'
<1>1. /\ op.pc = "free" /\ op \in DeleteOps /\ disk \in Disks /\ superblock \in 0..MAX_FREE
      /\ Sound(disk.dir) /\ superblock' = superblock + op.freed /\ superblock + op.freed <= MAX_FREE
      /\ disk.dir[op.index] = FreeEntry /\ op.freed \in Nat /\ faulty \in BOOLEAN
  BY OpShape DEF FSInv, FSTypes, LocalsInv, delete_flush, DeleteOps
<1>2. superblock' \in 0..MAX_FREE
  BY <1>1, Constants
<1>3. CASE disk' = disk /\ op' = Idle /\ faulty' = TRUE
  BY <1>2, <1>3, GivesUp
<1>4. CASE disk' = [disk EXCEPT !.free_blocks = superblock'] /\ op' = Idle /\ faulty' = faulty
  <2>1. disk' \in Disks /\ disk'.dir = disk.dir /\ disk'.free_blocks = superblock'
    BY <1>1, <1>2, <1>4, DiskFields
  <2>2. FSTypes' /\ LocalsInv'
    BY Zenon, <1>1, <1>2, <1>4, <2>1 DEF FSTypes, LocalsInv, Idle
  <2>3. InUse(disk.dir) \ Extent(disk.dir[op.index]) = InUse(disk.dir)
    BY Zenon, <1>1, FreeEntryFacts
  <2>4. ~faulty => superblock + op.freed = DATA_BLOCKS - Cardinality(InUse(disk.dir))
    BY Zenon, <1>1, <2>3 DEF FSInv, CountsInv
  <2>5. ~faulty' => superblock' = DATA_BLOCKS - Cardinality(InUse(disk'.dir))
    BY <1>1, <1>4, <2>1, <2>4
  <2>6. CountsInv'
    BY <1>4, <2>1, <2>5 DEF CountsInv, Idle, Unmounted
  <2> QED BY <1>1, <2>1, <2>2, <2>6 DEF FSInv
<1> QED BY Zenon, <1>3, <1>4 DEF delete_flush, DeviceWrite

\* Power may be lost at any moment.
LEMMA StepCrash ==
  ASSUME FSInv, crash
  PROVE  FSInv'
<1>1. /\ op' = Unmounted /\ superblock' = 0 /\ disk' = disk /\ faulty' = (faulty \/ op # Idle)
  BY Zenon DEF crash
<1>2. FSTypes' /\ Sound(disk.dir)' /\ LocalsInv'
  BY <1>1, Constants DEF FSInv, FSTypes, LocalsInv, Unmounted
<1>3. ~faulty' => disk'.free_blocks = DATA_BLOCKS - Cardinality(InUse(disk'.dir))
  BY Zenon, <1>1 DEF FSInv, CountsInv
<1>4. CountsInv'
  BY <1>1, <1>3 DEF CountsInv, Unmounted, Idle
<1> QED BY <1>2, <1>4 DEF FSInv

\* Every step of SimpleFS, and every crash and failed write, keeps FSInv.
LEMMA FSStep ==
  ASSUME FSInv, ~READ_ERRORS, [Next]_vars
  PROVE  FSInv'
<1>1. CASE UNCHANGED vars
  BY <1>1 DEF vars, FSInv, FSTypes, LocalsInv, CountsInv, Needed, Fresh
<1>2. CASE fs_init
  BY <1>2, StepInit
<1>3. CASE fs_format
  BY <1>3, StepFormat
<1>4. CASE \E name \in Names, type \in {"FILE", "DIR"} : fs_create(name, type)
  BY <1>4, StepCreate
<1>5. CASE \E name \in Names, data \in Data : fs_write_file(name, data)
  BY <1>5, StepWriteFile
<1>6. CASE write_data
  BY <1>6, StepWriteData
<1>7. CASE write_entry
  BY <1>7, StepWriteEntry
<1>8. CASE write_recount
  BY <1>8, StepRecount
<1>9. CASE \E name \in Names : fs_delete(name)
  BY Zenon, <1>9, StepDelete
<1>10. CASE delete_children
  BY <1>10, StepChildren
<1>11. CASE delete_self
  BY <1>11, StepSelf
<1>12. CASE delete_flush
  BY <1>12, StepFlush
<1>13. CASE crash
  BY <1>13, StepCrash
<1> QED BY Zenon, <1>1, <1>2, <1>3, <1>4, <1>5, <1>6, <1>7, <1>8, <1>9, <1>10, <1>11, <1>12, <1>13 DEF Next

\* When no read fails, FSInv holds at every moment.
LEMMA FSAlways ==
  ASSUME ~READ_ERRORS
  PROVE  Spec => []FSInv
<1>1. Init => FSInv
  BY FSInit
<1>2. FSInv /\ [Next]_vars => FSInv'
  BY FSStep
<1> QED BY <1>1, <1>2, PTL DEF Spec
------------------------------------------------------------------------------
\* When no read of the device fails, what SimpleFS finds on it is well formed at
\* every moment, whatever write fails and wherever the machine stops: no two
\* entries have the same name, no two files share a block, and every block of a
\* file is on the device.
THEOREM DirectoryStaysSound ==
  ASSUME ~READ_ERRORS
  PROVE  Spec => []DiskSound
<1>1. FSInv => DiskSound
  <2> SUFFICES ASSUME FSInv PROVE DiskSound
    OBVIOUS
  <2>1. FSTypes /\ Sound(disk.dir) /\ disk \in Disks
    BY DEF FSInv, FSTypes
  <2>2. TypeOK
    <3>1. /\ disk.magic \in BOOLEAN /\ disk.free_blocks \in 0..MAX_FREE
          /\ disk.dir \in [Entries -> DirEntries] /\ disk.data \in [Blocks -> BlockContents]
      BY <2>1, DiskFields
    <3> QED BY <2>1, <3>1, OpShape DEF TypeOK, FSTypes, DirEntries, BlockContents
  <2>3. DirectorySound
    BY <2>1 DEF Sound, DirectorySound
  <2> QED BY <2>2, <2>3 DEF DiskSound
<1> QED BY <1>1, FSAlways, PTL

\* When the count is exact, it never keeps fs_alloc_blocks from a run of free
\* blocks, and neither does the map when it covers the data region.
LEMMA GapIsFound ==
  ASSUME FSInv, DATA_BLOCKS <= MAP_BITS, op = Idle, ~faulty
  PROVE  AllocFindsGap
<1> DEFINE used == UNION {Extent(disk.dir[i]) : i \in Entries}
           free == Blocks \ used
           usable == {b \in Blocks : b < MAP_BITS} \ used
<1>1. /\ disk.dir \in [Entries -> DirEntries] /\ Sound(disk.dir)
      /\ superblock = DATA_BLOCKS - Cardinality(InUse(disk.dir))
  BY Zenon, DiskFields DEF FSInv, FSTypes, CountsInv
<1>2. used = InUse(disk.dir) /\ used \subseteq Blocks
  BY Zenon, <1>1, InUseCount DEF InUse
<1>3. superblock = Cardinality(free) /\ IsFiniteSet(free)
  BY Zenon, <1>1, <1>2, Constants, CountTakenAway
<1>4. usable = free
  BY Constants DEF Blocks
<1> HIDE DEF free
<1>5. ASSUME NEW b \in Blocks, NEW count \in 1..DATA_BLOCKS, b .. b + count - 1 \subseteq free
      PROVE  fs_alloc_blocks(count, Entries) # NO_SPACE
  <2>1. b \in Nat /\ count \in Nat \ {0} /\ b + count - 1 \in Int
    BY Constants
  <2>2. Cardinality(b .. b + count - 1) = count
    BY <2>1, FS_Interval
  <2>3. count <= superblock /\ superblock \in Nat
    <3>1. Cardinality(b .. b + count - 1) <= Cardinality(free)
      BY Zenon, <1>3, <1>5, FS_Subset
    <3>2. Cardinality(free) \in Nat
      BY <1>3, FS_CardinalityType
    <3> QED BY <1>3, <2>2, <3>1, <3>2
  <2> DEFINE starts == {s \in usable : s .. s + count - 1 \subseteq usable}
  <2>4. b \in b .. b + count - 1
    BY <2>1
  <2>5. b \in starts
    BY <1>4, <1>5, <2>4
  <2>6. starts \subseteq Nat
    BY Zenon, Constants
  <2>7. Min(starts) \in starts
    BY Zenon, <2>5, <2>6, MinOfNaturals
  <2>8. Min(starts) \in Nat
    BY Zenon, <2>6, <2>7
  <2>9. fs_alloc_blocks(count, Entries) = Min(starts)
    <3>1. ~(count > superblock) /\ starts # {}
      BY <2>1, <2>3, <2>5
    <3> QED BY <3>1 DEF fs_alloc_blocks
  <2> HIDE DEF starts
  <2> QED BY <2>8, <2>9 DEF NO_SPACE
<1> QED BY <1>5 DEF AllocFindsGap, free, used

\* When no read fails and the map of fs_alloc_blocks covers the data region, data
\* goes only to blocks that no entry refers to; and between calls, unless
\* something has failed, the counts of free blocks are right and an allocation
\* succeeds whenever there is room for it.
THEOREM SpaceStaysExact ==
  ASSUME ~READ_ERRORS, DATA_BLOCKS <= MAP_BITS
  PROVE  Spec => []SpaceExact
<1>1. FSInv => SpaceExact
  <2> SUFFICES ASSUME FSInv PROVE SpaceExact
    OBVIOUS
  <2>1. FreshBlocksUnused
    BY DEF FSInv, LocalsInv, FreshBlocksUnused, Fresh, Needed
  <2>2. FreeCountExact
    BY DEF FSInv, CountsInv, FreeCountExact, InUse
  <2>3. AllocFindsGap
    BY GapIsFound DEF AllocFindsGap
  <2> QED BY <2>1, <2>2, <2>3 DEF SpaceExact
<1> QED BY <1>1, FSAlways, PTL
------------------------------------------------------------------------------
\* Entry i is the one of name n.
Has(dir, n, i) == dir[i].type # "FREE" /\ dir[i].name = n

\* What a caller sees of entry e, and under name n, on disk d.
Holds(d, e) ==
  IF e.type = "DIR" THEN [kind |-> "directory"]
  ELSE [kind |-> "file", data |-> fs_read_file(d, e, e.size)]

ContentsOn(d, n) ==
  LET i == fs_find_entry(d.dir, n, Entries)
  IN IF i = FS_MAX_ENTRIES THEN [kind |-> "absent"] ELSE Holds(d, d.dir[i])

Files == [n \in Names |-> Contents(n)]
Formatted == disk.magic /\ op.pc # "format"

\* The caller sees what is on the disk.
LEMMA FilesAre ==
  /\ Files = [n \in Names |-> ContentsOn(disk, n)]
  /\ Files' = [n \in Names |-> ContentsOn(disk', n)]
<1>1. \A n : Contents(n) = ContentsOn(disk, n)
  BY DEF Contents, ContentsOn, Holds
<1>2. \A n : Contents(n)' = ContentsOn(disk', n)
  BY DEF Contents, ContentsOn, Holds
<1> QED BY Zenon, <1>1, <1>2 DEF Files

\* Since names are unique, a name stands for the entry that has it.
LEMMA ContentsFacts ==
  ASSUME NEW d, NEW n, Sound(d.dir)
  PROVE  /\ \A i \in Entries : Has(d.dir, n, i) => ContentsOn(d, n) = Holds(d, d.dir[i])
         /\ (\A i \in Entries : ~Has(d.dir, n, i)) => ContentsOn(d, n) = [kind |-> "absent"]
<1> DEFINE S == {i \in Entries : d.dir[i].type # "FREE" /\ d.dir[i].name = n}
           f == fs_find_entry(d.dir, n, Entries)
<1>1. f = IF S = {} THEN FS_MAX_ENTRIES ELSE Min(S)
  BY Zenon DEF fs_find_entry, FirstOf
<1>2. S # {} => f \in S
  BY <1>1, MinOfNaturals, Constants
<1>3. ASSUME NEW i \in Entries, Has(d.dir, n, i)
      PROVE  ContentsOn(d, n) = Holds(d, d.dir[i])
  <2>1. i \in S
    BY <1>3 DEF Has
  <2>2. f \in S
    BY <1>2, <2>1
  <2>3. f = i
    BY <2>1, <2>2 DEF Sound
  <2>4. f # FS_MAX_ENTRIES
    BY <2>3, Constants
  <2> QED BY <2>3, <2>4 DEF ContentsOn
<1>4. ASSUME \A i \in Entries : ~Has(d.dir, n, i)
      PROVE  ContentsOn(d, n) = [kind |-> "absent"]
  <2>1. S = {}
    BY <1>4 DEF Has
  <2> QED BY <1>1, <2>1 DEF ContentsOn
<1> QED BY <1>3, <1>4

\* A name that the same entries have, with the same content, holds the same.
LEMMA SameContents ==
  ASSUME NEW d, NEW w, NEW n, Sound(d.dir), Sound(w.dir),
         \A i \in Entries : Has(w.dir, n, i) <=> Has(d.dir, n, i),
         \A i \in Entries : Has(w.dir, n, i) => Holds(w, w.dir[i]) = Holds(d, d.dir[i])
  PROVE  ContentsOn(w, n) = ContentsOn(d, n)
<1>1. ASSUME NEW i \in Entries, Has(d.dir, n, i)
      PROVE  ContentsOn(w, n) = ContentsOn(d, n)
  <2>1. Has(w.dir, n, i) /\ Holds(w, w.dir[i]) = Holds(d, d.dir[i])
    BY <1>1 DEF Has
  <2>2. ContentsOn(d, n) = Holds(d, d.dir[i])
    BY <1>1, ContentsFacts
  <2>3. ContentsOn(w, n) = Holds(w, w.dir[i])
    BY <2>1, ContentsFacts
  <2> QED BY <2>1, <2>2, <2>3
<1>2. CASE \A i \in Entries : ~Has(d.dir, n, i)
  <2>1. \A i \in Entries : ~Has(w.dir, n, i)
    BY <1>2 DEF Has
  <2>2. ContentsOn(w, n) = [kind |-> "absent"]
    BY <2>1, ContentsFacts
  <2>3. ContentsOn(d, n) = [kind |-> "absent"]
    BY <1>2, ContentsFacts
  <2> QED BY <2>2, <2>3
<1> QED BY <1>1, <1>2

\* What an entry holds is in the data blocks.
LEMMA HoldsData ==
  ASSUME NEW d, NEW w, w.data = d.data, NEW e
  PROVE  Holds(w, e) = Holds(d, e)
  BY Zenon DEF Holds, fs_read_file

\* Rewriting entry i touches no name but the one it had and the one it gets.
LEMMA OtherNamesKept ==
  ASSUME NEW d, NEW w, d.dir \in [Entries -> DirEntries], Sound(d.dir), Sound(w.dir),
         NEW i \in Entries, NEW e \in DirEntries,
         w.dir = [d.dir EXCEPT ![i] = e], w.data = d.data,
         NEW n, ~Has(d.dir, n, i), e.type = "FREE" \/ e.name # n
  PROVE  ContentsOn(w, n) = ContentsOn(d, n)
<1>1. w.dir[i] = e /\ \A j \in Entries \ {i} : w.dir[j] = d.dir[j]
  OBVIOUS
<1>2. ~Has(w.dir, n, i)
  BY <1>1 DEF Has
<1>3. \A j \in Entries : Has(w.dir, n, j) <=> Has(d.dir, n, j)
  BY Zenon, <1>1, <1>2 DEF Has
<1>4. \A j \in Entries : Has(w.dir, n, j) => Holds(w, w.dir[j]) = Holds(d, d.dir[j])
  BY <1>1, <1>2, HoldsData
<1> QED BY <1>3, <1>4, SameContents

\* Clearing entry i removes the name it had and no other.
LEMMA NameRemoved ==
  ASSUME NEW d, NEW w, d.dir \in [Entries -> DirEntries], Sound(d.dir), Sound(w.dir),
         NEW i \in Entries, d.dir[i].type # "FREE", d.dir[i].name \in Names,
         w.dir = [d.dir EXCEPT ![i] = FreeEntry], w.data = d.data
  PROVE  \A n : ContentsOn(w, n) = IF n = d.dir[i].name THEN [kind |-> "absent"] ELSE ContentsOn(d, n)
<1> TAKE n
<1>1. CASE n = d.dir[i].name
  <2>1. \A j \in Entries \ {i} : d.dir[j].type # "FREE" => d.dir[j].name # n
    BY Zenon, <1>1 DEF Sound
  <2>2. \A j \in Entries : ~Has(w.dir, n, j)
    BY Zenon, <2>1, FreeEntryFacts DEF Has
  <2> QED BY Zenon, <1>1, <2>2, ContentsFacts
<1>2. CASE n # d.dir[i].name
  <2>1. ~Has(d.dir, n, i)
    BY <1>2 DEF Has
  <2> QED BY <1>2, <2>1, FreeEntryFacts, OtherNamesKept
<1> QED BY <1>1, <1>2

\* fs_read_file reads the blocks of its entry and no others.
LEMMA ReadsOwnBlocks ==
  ASSUME NEW d, NEW w, NEW e \in DirEntries, e.type # "FREE",
         \A b \in Extent(e) : w.data[b] = d.data[b]
  PROVE  Holds(w, e) = Holds(d, e)
<1>1. CASE e.type = "DIR"
  BY <1>1 DEF Holds
<1>2. CASE e.type = "FILE"
  <2>1. /\ e.size \in Nat /\ e.start_block \in Nat /\ BlockCount(e.size) \in Nat
        /\ Extent(e) = e.start_block .. e.start_block + BlockCount(e.size) - 1
    BY Zenon, <1>2, Constants, BlockCounts DEF DirEntries, Extent
  <2>2. (IF e.size > e.size THEN e.size ELSE e.size) = e.size
    OBVIOUS
  <2>3. ASSUME NEW k \in 1..e.size
        PROVE  w.data[e.start_block + (k - 1) \div BLOCK_SIZE] =
                 d.data[e.start_block + (k - 1) \div BLOCK_SIZE]
    <3>1. (k - 1) \div BLOCK_SIZE \in 0 .. BlockCount(e.size) - 1
      BY Zenon, <2>1, BlockOfByte
    <3>2. e.start_block + (k - 1) \div BLOCK_SIZE \in Extent(e)
      BY <2>1, <3>1
    <3> QED BY <3>2
  <2>4. fs_read_file(w, e, e.size) = fs_read_file(d, e, e.size)
    BY Zenon, <2>2, <2>3 DEF fs_read_file
  <2> QED BY <1>2, <2>4 DEF Holds
<1> QED BY Zenon, <1>1, <1>2 DEF DirEntries

\* What is written is what is read: a file of the blocks of some data holds that
\* data.
LEMMA ReadsWhatIsWritten ==
  ASSUME NEW w, NEW data \in Data, NEW e \in DirEntries, e.type = "FILE", e.size = Len(data),
         \A k \in 0 .. BlockCount(Len(data)) - 1 : w.data[e.start_block + k] = BlockOf(data, k)
  PROVE  Holds(w, e) = [kind |-> "file", data |-> data]
<1>1. data \in Seq(Nat) /\ Len(data) \in Nat
  BY SimpleFSConstants
<1>2. data = [k \in 1..Len(data) |-> data[k]]
  BY <1>1
<1>3. ASSUME NEW k \in 1..Len(data)
      PROVE  w.data[e.start_block + (k - 1) \div BLOCK_SIZE][((k - 1) % BLOCK_SIZE) + 1] = data[k]
  <2> DEFINE q == (k - 1) \div BLOCK_SIZE
             r == ((k - 1) % BLOCK_SIZE) + 1
  <2>1. /\ q \in 0 .. BlockCount(Len(data)) - 1 /\ r \in 1..BLOCK_SIZE
        /\ q * BLOCK_SIZE + r = k
    BY <1>1, BlockOfByte
  <2> HIDE DEF q, r
  <2>2. w.data[e.start_block + q] = BlockOf(data, q)
    BY <2>1
  <2>3. k <= Len(data)
    BY <1>1
  <2>4. BlockOf(data, q)[r] = data[k]
    BY <2>1, <2>3 DEF BlockOf
  <2> QED BY <2>2, <2>4 DEF q, r
<1>4. (IF e.size > e.size THEN e.size ELSE e.size) = Len(data)
  OBVIOUS
<1>5. fs_read_file(w, e, e.size) = data
  BY <1>2, <1>3, <1>4 DEF fs_read_file
<1> QED BY <1>5 DEF Holds

\* A file without bytes is read as the empty sequence.
LEMMA EmptyFile ==
  ASSUME NEW d, NEW e, e.type = "FILE", e.size = 0
  PROVE  Holds(d, e) = [kind |-> "file", data |-> <<>>]
<1>1. (IF e.size > e.size THEN e.size ELSE e.size) = 0 /\ 1..0 = {}
  OBVIOUS
<1>2. fs_read_file(d, e, e.size) = <<>>
  BY <1>1 DEF fs_read_file
<1> QED BY <1>2 DEF Holds

\* The caller sees a change where the contents change, and nowhere else.
LEMMA FilesKept ==
  ASSUME \A n \in Names : ContentsOn(disk', n) = ContentsOn(disk, n)
  PROVE  Files' = Files
  BY FilesAre

\* One name changes.
LEMMA FileChanged ==
  ASSUME NEW m \in Names, NEW x,
         \A n \in Names : ContentsOn(disk', n) = IF n = m THEN x ELSE ContentsOn(disk, n)
  PROVE  Files' = [Files EXCEPT ![m] = x]
<1> DEFINE before == [n \in Names |-> ContentsOn(disk, n)]
           after  == [n \in Names |-> ContentsOn(disk', n)]
<1>1. after = [before EXCEPT ![m] = x]
  BY Zenon
<1> QED BY <1>1, FilesAre

\* The contents are the directory and the data.
LEMMA SameDisk ==
  ASSUME disk'.dir = disk.dir, disk'.data = disk.data
  PROVE  Files' = Files
<1>1. \A n : ContentsOn(disk', n) = ContentsOn(disk, n)
  BY DEF ContentsOn, Holds, fs_read_file
<1> QED BY Zenon, <1>1, FilesKept

------------------------------------------------------------------------------
\* A step of FileStore, or of nothing it speaks about.
StoreStep == [Store!Next]_<<Files, Request, Formatted>>

\* The steps of FileStore, in the terms of SimpleFS.
LEMMA Stutters ==
  ASSUME Files' = Files, Request' = Request, Formatted' = Formatted
  PROVE  StoreStep
  BY DEF StoreStep

\* A call begins.
LEMMA Starts ==
  ASSUME Request = [call |-> "none"], Request'.call # "none", Files' = Files, Formatted' = Formatted
  PROVE  StoreStep
<1>1. Request' # [call |-> "none"]
  OBVIOUS
<1> QED BY <1>1 DEF StoreStep, Store!Next, Store!Start, Store!NoRequest, Files, Formatted

\* A call ends.
LEMMA Finishes ==
  ASSUME Request' = [call |-> "none"], Files' = Files, Formatted' = Formatted
  PROVE  StoreStep
  BY DEF StoreStep, Store!Next, Store!Finish, Store!NoRequest, Files, Formatted

\* A file gets its new content.
LEMMA Writes ==
  ASSUME Request.call = "write", Files[Request.name].kind = "file",
         Files' = [Files EXCEPT ![Request.name] = [kind |-> "file", data |-> Request.data]],
         Request' = Request, Formatted' = Formatted
  PROVE  StoreStep
<1>1. Store!Effect
  BY DEF Store!Effect, Store!File, Files
<1> QED BY Zenon, <1>1 DEF StoreStep, Store!Next, Store!Apply, Formatted

\* A name goes.
LEMMA Removes ==
  ASSUME Request.call = "delete", NEW n \in {Request.name} \union Children[Request.name],
         Files' = [Files EXCEPT ![n] = [kind |-> "absent"]],
         Request' = Request, Formatted' = Formatted
  PROVE  StoreStep
<1>1. Store!Effect
  BY Zenon DEF Store!Effect, Store!Absent, Files
<1> QED BY <1>1 DEF StoreStep, Store!Next, Store!Apply, Formatted

\* A name appears.
LEMMA Creates ==
  ASSUME Request = [call |-> "none"], Request' = Request, Formatted' = Formatted,
         NEW n \in Names, Files[n] = [kind |-> "absent"],
         NEW new \in {[kind |-> "file", data |-> <<>>], [kind |-> "directory"]},
         Files' = [Files EXCEPT ![n] = new]
  PROVE  StoreStep
<1>1. Store!Create
  BY Zenon DEF Store!Create, Store!NoRequest, Store!File, Store!Directory, Store!Absent, Files, Formatted
<1> QED BY <1>1 DEF StoreStep, Store!Next

\* Before the store is formatted, names may vanish.
LEMMA Formats ==
  ASSUME ~Formatted, Request = [call |-> "none"], Request' = Request, Formatted' \in BOOLEAN,
         \A n \in Names : Files'[n] \in {Files[n], [kind |-> "absent"]}
  PROVE  StoreStep
<1>1. Store!Format
  BY Zenon DEF Store!Format, Store!NoRequest, Store!Absent, Files, Formatted
<1> QED BY <1>1 DEF StoreStep, Store!Next

\* What the caller has asked for is in the call's locals.
LEMMA Requests ==
  /\ op.pc \in {"unmounted", "idle", "format"} => Request = [call |-> "none"]
  /\ op.pc \in {"data", "recount"} => Request = [call |-> "write", name |-> op.name, data |-> op.data]
  /\ op.pc \in {"children", "self", "free"} => Request = [call |-> "delete", name |-> op.name]
  /\ op'.pc \in {"unmounted", "idle", "format"} => Request' = [call |-> "none"]
  /\ op'.pc \in {"data", "recount"} => Request' = [call |-> "write", name |-> op'.name, data |-> op'.data]
  /\ op'.pc \in {"children", "self", "free"} => Request' = [call |-> "delete", name |-> op'.name]
  BY Zenon DEF Request

\* Between calls nothing is asked for.
LEMMA NoCall ==
  /\ Idle.pc = "idle" /\ Unmounted.pc = "unmounted"
  /\ op = Idle \/ op = Unmounted => Request = [call |-> "none"] /\ op.pc # "format"
  /\ op' = Idle \/ op' = Unmounted => Request' = [call |-> "none"] /\ op'.pc # "format"
  BY Requests DEF Idle, Unmounted

\* A call that gives up, or is done, ends the request.
LEMMA CallEnds ==
  ASSUME op.pc # "format", op' = Idle, disk'.dir = disk.dir, disk'.data = disk.data,
         disk'.magic = disk.magic
  PROVE  StoreStep
<1>1. Formatted' = Formatted /\ Request' = [call |-> "none"]
  BY NoCall DEF Formatted
<1> QED BY Zenon, <1>1, SameDisk, Finishes

\* fs_init changes nothing that a caller sees.
LEMMA MapInit ==
  ASSUME ~READ_ERRORS, fs_init
  PROVE  StoreStep
<1>1. disk' = disk /\ op = Unmounted /\ Files' = Files
  BY SameDisk DEF fs_init
<1>2. CASE op' = Idle
  BY Zenon, <1>1, <1>2, NoCall, Stutters DEF Formatted
<1>3. CASE ~disk.magic /\ op' = [pc |-> "format", i |-> 0]
  <2>1. op'.pc = "format"
    BY <1>3
  <2>2. Request = Request'
    BY Zenon, <1>1, <2>1, NoCall, Requests
  <2>3. Formatted' = Formatted
    BY Zenon, <1>1, <1>3, <2>1 DEF Formatted
  <2> QED BY Zenon, <1>1, <2>2, <2>3, Stutters
<1> QED BY <1>2, <1>3 DEF fs_init

\* fs_format clears entries while the store is not formatted yet.
LEMMA MapFormat ==
  ASSUME FSInv, FSInv', fs_format
  PROVE  StoreStep
<1>1. /\ op.pc = "format" /\ op \in FormatOps /\ ~Formatted /\ Request = [call |-> "none"]
      /\ disk \in Disks /\ disk.dir \in [Entries -> DirEntries]
      /\ Sound(disk.dir) /\ Sound(disk'.dir)
  BY OpShape, Requests, DiskFields DEF FSInv, FSTypes, fs_format, Formatted
<1>2. op'.pc \in {"idle", "format"}
  BY Zenon, <1>1, NoCall DEF fs_format, DeviceWrite, FormatOps
<1>3. Request' = [call |-> "none"]
  BY <1>2, Requests
<1>4. /\ disk'.data = disk.data
      /\ \A j \in Entries : disk'.dir[j] \in {FreeEntry, disk.dir[j]}
  <2> DEFINE zeroed == [j \in Entries |->
                         IF j \div FS_ENTRIES_PER_BLOCK = op.i - 1 THEN FreeEntry ELSE disk.dir[j]]
  <2>1. \A j \in Entries : zeroed[j] \in {FreeEntry, disk.dir[j]}
    OBVIOUS
  <2>2. \/ disk' = disk
        \/ disk' = [disk EXCEPT !.magic = TRUE, !.free_blocks = superblock]
        \/ disk' = [disk EXCEPT !.dir = zeroed]
    BY DEF fs_format, DeviceWrite
  <2> HIDE DEF zeroed
  <2>3. disk'.data = disk.data /\ (disk'.dir = disk.dir \/ disk'.dir = zeroed)
    BY Zenon, <1>1, <2>2 DEF Disks
  <2> QED BY <2>1, <2>3
<1>5. \A n \in Names : ContentsOn(disk', n) \in {ContentsOn(disk, n), [kind |-> "absent"]}
  <2> TAKE n \in Names
  <2>1. ASSUME NEW j \in Entries, Has(disk'.dir, n, j)
        PROVE  ContentsOn(disk', n) = ContentsOn(disk, n)
    <3>1. disk'.dir[j] = disk.dir[j] /\ Has(disk.dir, n, j)
      BY <1>4, <2>1, FreeEntryFacts DEF Has
    <3>2. ContentsOn(disk', n) = Holds(disk', disk'.dir[j])
      BY Zenon, <1>1, <2>1, ContentsFacts
    <3>3. ContentsOn(disk, n) = Holds(disk, disk.dir[j])
      BY Zenon, <1>1, <3>1, ContentsFacts
    <3> QED BY Zenon, <1>4, <3>1, <3>2, <3>3, HoldsData
  <2>2. CASE \A j \in Entries : ~Has(disk'.dir, n, j)
    BY Zenon, <1>1, <2>2, ContentsFacts
  <2> QED BY <2>1, <2>2
<1>6. \A n \in Names : Files'[n] \in {Files[n], [kind |-> "absent"]}
  BY <1>5, FilesAre
<1>7. Formatted' \in BOOLEAN
  BY DEF Formatted
<1> QED BY Zenon, <1>1, <1>3, <1>6, <1>7, Formats

\* fs_create makes one absent name an empty file or a directory.
LEMMA MapCreate ==
  ASSUME FSInv, FSInv', ~READ_ERRORS, NEW name \in Names, NEW type \in {"FILE", "DIR"},
         fs_create(name, type)
  PROVE  StoreStep
<1> DEFINE slot == fs_find_free_slot(disk.dir, Entries)
           new  == [FreeEntry EXCEPT !.name = name, !.type = type]
<1>1. /\ op = Idle /\ disk \in Disks /\ disk.dir \in [Entries -> DirEntries]
      /\ Sound(disk.dir) /\ Sound(disk'.dir)
  BY DiskFields DEF fs_create, FSInv, FSTypes
<1>2. \/ UNCHANGED vars
      \/ /\ fs_find_entry(disk.dir, name, Entries) = FS_MAX_ENTRIES /\ slot # FS_MAX_ENTRIES
         /\ DeviceWrite([disk EXCEPT !.dir[slot] = new], Idle, Idle)
  BY FullScans DEF fs_create
<1>3. CASE UNCHANGED vars
  BY Zenon, <1>1, <1>3, NoCall, CallEnds DEF vars
<1>4. CASE disk' = disk /\ op' = Idle
  BY Zenon, <1>1, <1>4, NoCall, CallEnds
<1>5. CASE /\ fs_find_entry(disk.dir, name, Entries) = FS_MAX_ENTRIES /\ slot # FS_MAX_ENTRIES
           /\ disk' = [disk EXCEPT !.dir[slot] = new] /\ op' = Idle
  <2>1. ContentsOn(disk, name) = [kind |-> "absent"]
    BY <1>5 DEF ContentsOn
  <2>2. slot \in Entries /\ disk.dir[slot].type = "FREE"
    <3> DEFINE S == {j \in Entries : disk.dir[j].type = "FREE"}
    <3>1. S # {} => Min(S) \in S
      BY MinOfNaturals, Constants
    <3> QED BY Zenon, <1>5, <3>1 DEF fs_find_free_slot, FirstOf
  <2>3. new \in DirEntries /\ new.size = 0 /\ new.name = name /\ new.type = type
    BY Zenon, Constants DEF FreeEntry, DirEntries
  <2> HIDE DEF slot, new
  <2>4. /\ disk'.dir = [disk.dir EXCEPT ![slot] = new] /\ disk'.data = disk.data
        /\ disk'.magic = disk.magic
    BY <1>1, <1>5, <2>2, <2>3, DiskFields
  <2>5. disk'.dir[slot] = new /\ Has(disk'.dir, name, slot)
    BY Zenon, <1>1, <2>2, <2>3, <2>4 DEF Has
  <2> DEFINE held == IF type = "DIR" THEN [kind |-> "directory"] ELSE [kind |-> "file", data |-> <<>>]
  <2>6. ContentsOn(disk', name) = held
    <3>1. ContentsOn(disk', name) = Holds(disk', new)
      BY Zenon, <1>1, <2>2, <2>5, ContentsFacts
    <3>2. CASE type = "DIR"
      BY Zenon, <2>3, <3>1, <3>2 DEF Holds
    <3>3. CASE type = "FILE"
      BY Zenon, <2>3, <3>1, <3>3, EmptyFile
    <3> QED BY <3>2, <3>3
  <2>7. ASSUME NEW n \in Names, n # name
        PROVE  ContentsOn(disk', n) = ContentsOn(disk, n)
    <3>1. ~Has(disk.dir, n, slot)
      BY <2>2 DEF Has
    <3> QED BY <1>1, <2>2, <2>3, <2>4, <2>7, <3>1, OtherNamesKept
  <2>8. Files' = [Files EXCEPT ![name] = held]
    <3> HIDE DEF held
    <3> QED BY Zenon, <2>6, <2>7, FileChanged
  <2>9. Files[name] = [kind |-> "absent"]
    BY <2>1, FilesAre
  <2>10. Request = [call |-> "none"] /\ Request' = Request /\ Formatted' = Formatted
    BY Zenon, <1>1, <1>5, <2>4, NoCall DEF Formatted
  <2>11. held \in {[kind |-> "file", data |-> <<>>], [kind |-> "directory"]}
    OBVIOUS
  <2> HIDE DEF held
  <2> QED BY Zenon, <2>8, <2>9, <2>10, <2>11, Creates
<1> QED BY Zenon, <1>2, <1>3, <1>4, <1>5 DEF DeviceWrite

\* fs_write_file and fs_delete begin a request.
LEMMA MapCallBegins ==
  ASSUME op = Idle, disk' = disk, op'.pc \in {"data", "children", "self"}
  PROVE  StoreStep
<1>1. Request = [call |-> "none"] /\ Formatted' = Formatted /\ Files' = Files
  BY Zenon, NoCall, SameDisk DEF Formatted
<1>2. Request'.call # "none"
  BY Requests
<1> QED BY Zenon, <1>1, <1>2, Starts

\* The data goes where no file is, so that no caller sees it yet.
LEMMA MapWriteData ==
  ASSUME FSInv, write_data
  PROVE  StoreStep
<1> DEFINE b == op.start + op.i
           c == BlockOf(op.data, op.i)
<1>1. /\ op.pc = "data" /\ op \in WriteOps /\ disk \in Disks /\ op.i < Needed
      /\ disk.dir \in [Entries -> DirEntries] /\ Sound(disk.dir)
  BY Zenon, OpShape, DiskFields DEF FSInv, FSTypes, write_data, Needed
<1>2. /\ op.data \in Data /\ op.i \in Nat /\ op.start \in Nat
      /\ Needed \in Nat /\ c \in BlockContents
  BY Zenon, <1>1, Constants, DataFacts DEF WriteOps, Needed
<1>3. b \in Blocks /\ \A i \in Entries : b \notin Extent(disk.dir[i])
  <2>1. Fresh \subseteq Blocks /\ \A i \in Entries : Extent(disk.dir[i]) \cap Fresh = {}
    BY Zenon, <1>1 DEF FSInv, LocalsInv
  <2>2. b \in Fresh
    BY <1>1, <1>2 DEF Fresh
  <2> QED BY Zenon, <2>1, <2>2
<1>4. CASE disk' = disk /\ op' = Idle
  BY <1>1, <1>4, CallEnds
<1>5. CASE disk' = [disk EXCEPT !.data[b] = c] /\ op' = [op EXCEPT !.i = @ + 1]
  <2>1. op'.pc = "data" /\ op'.name = op.name /\ op'.data = op.data
    BY <1>1, <1>5 DEF WriteOps
  <2> HIDE DEF b, c
  <2>2. /\ disk'.data = [disk.data EXCEPT ![b] = c] /\ disk'.dir = disk.dir
        /\ disk'.magic = disk.magic /\ disk.data \in [Blocks -> BlockContents]
    BY <1>1, <1>2, <1>3, <1>5, DiskFields
  <2>3. ASSUME NEW n \in Names
        PROVE  ContentsOn(disk', n) = ContentsOn(disk, n)
    <3>1. ASSUME NEW i \in Entries, Has(disk'.dir, n, i)
          PROVE  Holds(disk', disk'.dir[i]) = Holds(disk, disk.dir[i])
      <4>1. disk.dir[i] \in DirEntries /\ disk.dir[i].type # "FREE" /\ disk'.dir[i] = disk.dir[i]
        BY Zenon, <1>1, <2>2, <3>1 DEF Has
      <4>2. Extent(disk.dir[i]) \subseteq Blocks
        BY Zenon, <1>1 DEF Sound
      <4>3. \A x \in Extent(disk.dir[i]) : disk'.data[x] = disk.data[x]
        BY <1>3, <2>2, <4>2
      <4> QED BY <4>1, <4>3, ReadsOwnBlocks
    <3>2. \A i \in Entries : Has(disk'.dir, n, i) <=> Has(disk.dir, n, i)
      BY <2>2 DEF Has
    <3>3. Sound(disk'.dir)
      BY <1>1, <2>2
    <3> QED BY Zenon, <1>1, <3>1, <3>2, <3>3, SameContents
  <2>4. Files' = Files
    BY Zenon, <2>3, FilesKept
  <2>5. Request' = Request /\ Formatted' = Formatted
    BY Zenon, <1>1, <2>1, <2>2, Requests DEF Formatted
  <2> QED BY Zenon, <2>4, <2>5, Stutters
<1> QED BY <1>4, <1>5 DEF write_data, DeviceWrite

\* The write of the entry gives the file all its new content at once.
LEMMA MapWriteEntry ==
  ASSUME FSInv, FSInv', write_entry
  PROVE  StoreStep
<1> DEFINE e == [name |-> op.name, type |-> "FILE", start_block |-> op.start,
                 size |-> Len(op.data)]
<1>1. /\ op.pc = "data" /\ op \in WriteOps /\ disk \in Disks /\ op.i = Needed
      /\ disk.dir \in [Entries -> DirEntries] /\ Sound(disk.dir) /\ Sound(disk'.dir)
  BY Zenon, OpShape, DiskFields DEF FSInv, FSTypes, write_entry, Needed
<1>2. e \in DirEntries /\ op.index \in Entries
  BY <1>1, EntryTakesFresh
<1>3. op.name \in Names /\ op.data \in Data
  BY Zenon, <1>1 DEF WriteOps
<1>4. /\ disk.dir[op.index].type = "FILE" /\ disk.dir[op.index].name = op.name
      /\ \A k \in 0 .. BlockCount(Len(op.data)) - 1 : disk.data[op.start + k] = BlockOf(op.data, k)
  BY <1>1 DEF FSInv, LocalsInv, Needed
<1>5. CASE disk' = disk /\ op' = Idle
  BY Zenon, <1>1, <1>5, CallEnds
<1>6. CASE disk' = [disk EXCEPT !.dir[op.index] = e] /\ op' = [op EXCEPT !.pc = "recount"]
  <2>1. op'.pc = "recount" /\ op'.name = op.name /\ op'.data = op.data
    BY Zenon, <1>1, <1>6 DEF WriteOps
  <2>2. /\ e.type = "FILE" /\ e.name = op.name /\ e.size = Len(op.data) /\ e.start_block = op.start
    OBVIOUS
  <2> HIDE DEF e
  <2>3. /\ disk'.dir = [disk.dir EXCEPT ![op.index] = e] /\ disk'.data = disk.data
        /\ disk'.magic = disk.magic
    BY <1>1, <1>2, <1>6, DiskFields
  <2>4. Files[op.name].kind = "file"
    <3>1. Has(disk.dir, op.name, op.index)
      BY <1>4 DEF Has
    <3>2. ContentsOn(disk, op.name) = Holds(disk, disk.dir[op.index])
      BY Zenon, <1>1, <1>2, <3>1, ContentsFacts
    <3>3. ContentsOn(disk, op.name).kind = "file"
      BY <1>4, <3>2 DEF Holds
    <3> QED BY Zenon, <1>3, <3>3, FilesAre
  <2>5. ContentsOn(disk', op.name) = [kind |-> "file", data |-> op.data]
    <3>1. disk'.dir[op.index] = e /\ Has(disk'.dir, op.name, op.index)
      BY Zenon, <1>1, <1>2, <2>2, <2>3 DEF Has
    <3>2. ContentsOn(disk', op.name) = Holds(disk', e)
      BY Zenon, <1>1, <1>2, <3>1, ContentsFacts
    <3>a. \A k \in 0 .. BlockCount(Len(op.data)) - 1 :
            disk'.data[e.start_block + k] = BlockOf(op.data, k)
      BY Zenon, <1>4, <2>2, <2>3
    <3>3. Holds(disk', e) = [kind |-> "file", data |-> op.data]
      BY Zenon, <1>2, <1>3, <2>2, <3>a, ReadsWhatIsWritten
    <3> QED BY Zenon, <3>2, <3>3
  <2>6. ASSUME NEW n \in Names, n # op.name
        PROVE  ContentsOn(disk', n) = ContentsOn(disk, n)
    <3>1. ~Has(disk.dir, n, op.index)
      BY Zenon, <1>4, <2>6 DEF Has
    <3> QED BY SMTT(20), <1>1, <1>2, <2>2, <2>3, <2>6, <3>1, OtherNamesKept
  <2>7. Files' = [Files EXCEPT ![op.name] = [kind |-> "file", data |-> op.data]]
    BY Zenon, <1>3, <2>5, <2>6, FileChanged
  <2>8. /\ Request = [call |-> "write", name |-> op.name, data |-> op.data] /\ Request' = Request
        /\ Formatted' = Formatted
    BY Zenon, <1>1, <2>1, <2>3, Requests DEF Formatted
  <2>9. Request.call = "write" /\ Request.name = op.name /\ Request.data = op.data
    BY <2>8
  <2> QED BY Zenon, <2>4, <2>7, <2>8, <2>9, Writes
<1> QED BY Zenon, <1>5, <1>6 DEF write_entry, DeviceWrite

\* A cleared child is gone, and nothing else.
LEMMA MapChildren ==
  ASSUME FSInv, FSInv', ~READ_ERRORS, delete_children
  PROVE  StoreStep
<1> DEFINE next == FirstOf({j \in Entries : /\ j >= op.i
                                            /\ disk.dir[j].type # "FREE"
                                            /\ disk.dir[j].name \in Children[op.name]})
           on == [op EXCEPT !.i = next + 1, !.freed = @ + Cardinality(Extent(disk.dir[next]))]
<1>1. /\ op.pc = "children" /\ op \in DeleteOps /\ disk \in Disks /\ op.name \in Names
      /\ disk.dir \in [Entries -> DirEntries] /\ Sound(disk.dir) /\ Sound(disk'.dir)
  BY Zenon, OpShape, DiskFields DEF FSInv, FSTypes, delete_children, DeleteOps
<1>2. \/ next = FS_MAX_ENTRIES /\ op' = [op EXCEPT !.pc = "self"] /\ disk' = disk
      \/ next # FS_MAX_ENTRIES /\ DeviceWrite([disk EXCEPT !.dir[next] = FreeEntry], on, on)
  BY Zenon, FullScans DEF delete_children
<1>3. next # FS_MAX_ENTRIES =>
        /\ next \in Entries /\ disk.dir[next].type # "FREE"
        /\ disk.dir[next].name \in Children[op.name]
  BY Zenon, <1>1, NextChild
<1> HIDE DEF next
<1>4. op'.pc \in {"children", "self"} /\ op'.name = op.name
  BY Zenon, <1>1, <1>2 DEF DeviceWrite, DeleteOps
<1>5. Request = [call |-> "delete", name |-> op.name] /\ Request' = Request
  BY <1>1, <1>4, Requests
<1>6. CASE disk' = disk
  <2>1. Formatted' = Formatted /\ Files' = Files
    BY <1>1, <1>4, <1>6, SameDisk DEF Formatted
  <2> QED BY Zenon, <1>5, <2>1, Stutters
<1>7. CASE next # FS_MAX_ENTRIES /\ disk' = [disk EXCEPT !.dir[next] = FreeEntry]
  <2> DEFINE m == disk.dir[next].name
  <2>1. next \in Entries /\ disk.dir[next].type # "FREE" /\ m \in Children[op.name] /\ m \in Names
    BY <1>1, <1>3, <1>7, SimpleFSConstants
  <2>2. /\ disk'.dir = [disk.dir EXCEPT ![next] = FreeEntry] /\ disk'.data = disk.data
        /\ disk'.magic = disk.magic
    BY <1>1, <1>7, <2>1, DiskFields, FreeEntryFacts
  <2>3. \A n : ContentsOn(disk', n) = IF n = m THEN [kind |-> "absent"] ELSE ContentsOn(disk, n)
    BY <1>1, <2>1, <2>2, NameRemoved
  <2> HIDE DEF m
  <2>4. Files' = [Files EXCEPT ![m] = [kind |-> "absent"]]
    BY Zenon, <2>1, <2>3, FileChanged
  <2>5. Formatted' = Formatted
    BY Zenon, <1>1, <1>4, <2>2 DEF Formatted
  <2>6. Request.call = "delete" /\ m \in {Request.name} \union Children[Request.name]
    BY <1>5, <2>1
  <2> QED BY Zenon, <1>5, <2>4, <2>5, <2>6, Removes
<1> QED BY Zenon, <1>2, <1>6, <1>7 DEF DeviceWrite

\* The cleared entry's name is gone, and nothing else.
LEMMA MapSelf ==
  ASSUME FSInv, FSInv', delete_self
  PROVE  StoreStep
<1>1. /\ op.pc = "self" /\ op \in DeleteOps /\ disk \in Disks
      /\ disk.dir \in [Entries -> DirEntries] /\ Sound(disk.dir) /\ Sound(disk'.dir)
      /\ op.index \in Entries /\ op.name \in Names
      /\ disk.dir[op.index].type # "FREE" /\ disk.dir[op.index].name = op.name
  BY OpShape, DiskFields DEF FSInv, FSTypes, LocalsInv, delete_self, DeleteOps
<1>2. CASE disk' = disk /\ op' = Idle
  BY Zenon, <1>1, <1>2, CallEnds
<1>3. CASE disk' = [disk EXCEPT !.dir[op.index] = FreeEntry] /\ op' = [op EXCEPT !.pc = "free"]
  <2>1. op'.pc = "free" /\ op'.name = op.name
    BY <1>1, <1>3 DEF DeleteOps
  <2>2. /\ disk'.dir = [disk.dir EXCEPT ![op.index] = FreeEntry] /\ disk'.data = disk.data
        /\ disk'.magic = disk.magic
    BY <1>1, <1>3, DiskFields, FreeEntryFacts
  <2>3. \A n : ContentsOn(disk', n) =
                 IF n = op.name THEN [kind |-> "absent"] ELSE ContentsOn(disk, n)
    <3>1. \A n : ContentsOn(disk', n) =
                   IF n = disk.dir[op.index].name THEN [kind |-> "absent"] ELSE ContentsOn(disk, n)
      BY <1>1, <2>2, NameRemoved
    <3> QED BY Zenon, <1>1, <3>1
  <2>4. Files' = [Files EXCEPT ![op.name] = [kind |-> "absent"]]
    BY Zenon, <1>1, <2>3, FileChanged
  <2>5. /\ Request = [call |-> "delete", name |-> op.name] /\ Request' = Request
        /\ Formatted' = Formatted
    BY Zenon, <1>1, <2>1, <2>2, Requests DEF Formatted
  <2>6. Request.call = "delete" /\ op.name \in {Request.name} \union Children[Request.name]
    BY <2>5
  <2> QED BY Zenon, <2>4, <2>5, <2>6, Removes
<1> QED BY Zenon, <1>2, <1>3 DEF delete_self, DeviceWrite

\* A crash ends the request, or the format.
LEMMA MapCrash ==
  ASSUME crash
  PROVE  StoreStep
<1>1. disk' = disk /\ op' = Unmounted /\ Files' = Files /\ Request' = [call |-> "none"]
  BY SameDisk, NoCall DEF crash
<1>2. CASE op.pc = "format"
  <2>1. ~Formatted /\ Request = [call |-> "none"] /\ Formatted' \in BOOLEAN
    BY <1>2, Requests DEF Formatted
  <2> QED BY Zenon, <1>1, <2>1, Formats
<1>3. CASE op.pc # "format"
  BY Zenon, <1>1, <1>3, NoCall, Finishes DEF Formatted
<1> QED BY <1>2, <1>3

\* Every step of SimpleFS is a step of FileStore or none.
LEMMA MapStep ==
  ASSUME FSInv, FSInv', ~READ_ERRORS, [Next]_vars
  PROVE  StoreStep
<1>1. CASE UNCHANGED vars
  BY <1>1, Stutters DEF vars, Files, Contents, Request, Formatted
<1>2. CASE fs_init
  BY <1>2, MapInit
<1>3. CASE fs_format
  BY <1>3, MapFormat
<1>4. CASE \E name \in Names, type \in {"FILE", "DIR"} : fs_create(name, type)
  BY <1>4, MapCreate
<1>5. CASE \E name \in Names, data \in Data : fs_write_file(name, data)
  <2>1. op = Idle /\ disk' = disk /\ op'.pc = "data"
    BY <1>5 DEF fs_write_file
  <2> QED BY Zenon, <2>1, MapCallBegins
<1>6. CASE write_data
  BY Zenon, <1>6, MapWriteData
<1>7. CASE write_entry
  BY <1>7, MapWriteEntry
<1>8. CASE write_recount
  <2>1. op.pc = "recount" /\ op' = Idle /\ disk \in Disks
    BY <1>8 DEF write_recount, FSInv, FSTypes
  <2>2. disk'.dir = disk.dir /\ disk'.data = disk.data /\ disk'.magic = disk.magic
    BY <1>8, <2>1 DEF write_recount, Disks
  <2> QED BY Zenon, <2>1, <2>2, CallEnds
<1>9. CASE \E name \in Names : fs_delete(name)
  <2>1. op = Idle /\ disk' = disk /\ op'.pc \in {"children", "self"}
    BY <1>9 DEF fs_delete
  <2> QED BY Zenon, <2>1, MapCallBegins
<1>10. CASE delete_children
  BY Zenon, <1>10, MapChildren
<1>11. CASE delete_self
  BY <1>11, MapSelf
<1>12. CASE delete_flush
  <2>1. op.pc = "free" /\ op' = Idle /\ disk \in Disks
    BY <1>12 DEF delete_flush, DeviceWrite, FSInv, FSTypes
  <2>2. disk'.dir = disk.dir /\ disk'.data = disk.data /\ disk'.magic = disk.magic
    BY <1>12, <2>1 DEF delete_flush, DeviceWrite, Disks
  <2> QED BY Zenon, <2>1, <2>2, CallEnds
<1>13. CASE crash
  BY <1>13, MapCrash
<1> QED BY Zenon, <1>1, <1>2, <1>3, <1>4, <1>5, <1>6, <1>7, <1>8, <1>9, <1>10, <1>11, <1>12, <1>13 DEF Next

\* SimpleFS keeps its promise when no read fails: whatever write fails and wherever
\* the machine stops, a file holds its old content or all of its new one, and no
\* call touches a name that it was not asked to touch.
THEOREM FileStoreImplemented ==
  ASSUME ~READ_ERRORS
  PROVE  Spec => ImplementsFileStore
<1>1. Init => Store!Init
  <2> SUFFICES ASSUME Init PROVE Store!Init
    OBVIOUS
  <2>1. /\ op = Unmounted /\ disk.magic = FALSE
        /\ \A i \in Entries : disk.dir[i] = FreeEntry
    BY DEF Init
  <2>2. Sound(disk.dir)
    BY Zenon, FSInit DEF FSInv
  <2>3. \A n \in Names : ContentsOn(disk, n) = [kind |-> "absent"]
    BY Zenon, <2>1, <2>2, ContentsFacts, FreeEntryFacts DEF Has
  <2>4. Files = [n \in Names |-> [kind |-> "absent"]]
    BY Zenon, <2>3, FilesAre
  <2>5. Request = [call |-> "none"]
    BY <2>1, NoCall
  <2> QED BY <2>1, <2>4, <2>5 DEF Store!Init, Store!Absent, Store!NoRequest, Files
<1>2. FSInv /\ FSInv' /\ [Next]_vars => [Store!Next]_<<Files, Request, Formatted>>
  BY MapStep DEF StoreStep
<1>3. FSInv /\ FSInv' /\ [Next]_vars =>
        [Store!Next]_<<[n \in Names |-> Contents(n)], Request, disk.magic /\ op.pc # "format">>
  BY <1>2 DEF Files, Formatted
<1> QED BY <1>1, <1>3, FSAlways, PTL DEF Spec, ImplementsFileStore, Store!Spec
===============================================================================
