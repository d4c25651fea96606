------------------------------- MODULE SimpleFS -------------------------------
(***************************************************************************)
(* SimpleFS (fs/simplefs.c) on a block device that may fail and a machine  *)
(* that may stop at any moment.                                            *)
(*                                                                         *)
(* The shell calls the filesystem from the keyboard interrupt, one call at *)
(* a time, so calls do not interleave.  A step is one write to the device  *)
(* with the computation before it; a crash may come between any two.  A    *)
(* write that fails leaves the block as it was: the ATA driver gives up    *)
(* before it transfers the sector, the RAM disk before it copies.          *)
(***************************************************************************)
EXTENDS Integers, Sequences, FiniteSetsExt

CONSTANTS
  Names, Children,        \* names, and those that begin with "<name>/"
  FS_DIR_BLOCKS, FS_ENTRIES_PER_BLOCK,
  DATA_BLOCKS,            \* total_blocks - data_start_block
  MAP_BITS,               \* blocks the map of fs_alloc_blocks covers (1024)
  BLOCK_SIZE,
  Data,                   \* the byte sequences callers write
  READ_ERRORS,            \* whether reads of the device may fail
  MAX_FREE                \* bound on free_blocks, which may exceed DATA_BLOCKS
                          \* when a crash has left it stale

FS_MAX_ENTRIES == FS_DIR_BLOCKS * FS_ENTRIES_PER_BLOCK

ASSUME SimpleFSConstants ==
  /\ Children \in [Names -> SUBSET Names] /\ \A n \in Names : n \notin Children[n]
  /\ {FS_DIR_BLOCKS, FS_ENTRIES_PER_BLOCK, DATA_BLOCKS, MAP_BITS, BLOCK_SIZE}
       \subseteq Nat \ {0}
  /\ Data \subseteq Seq(Nat)
  /\ READ_ERRORS \in BOOLEAN
  /\ MAX_FREE \in Nat /\ DATA_BLOCKS <= MAX_FREE

Entries == 0 .. FS_MAX_ENTRIES - 1
Blocks  == 0 .. DATA_BLOCKS - 1

NoName == "no name"
NO_SPACE == -1          \* 0xFFFFFFFF

FreeEntry == [name |-> NoName, type |-> "FREE", start_block |-> 0, size |-> 0]
ZeroBlock == [k \in 1..BLOCK_SIZE |-> 0]

VARIABLES
  disk,         \* the medium: superblock (magic, free_blocks), directory, data
  superblock,   \* free_blocks of the copy in memory
  op,           \* the call in progress, with its locals
  faulty        \* history: a write failed, or a crash cut a call short, since
                \* the free blocks were last counted

vars == <<disk, superblock, op, faulty>>

Unmounted == [pc |-> "unmounted"]
Idle      == [pc |-> "idle"]

\* A fresh disk image is all zero.
Init ==
  /\ disk = [magic |-> FALSE, free_blocks |-> 0,
             dir |-> [i \in Entries |-> FreeEntry],
             data |-> [b \in Blocks |-> ZeroBlock]]
  /\ superblock = 0
  /\ op = Unmounted
  /\ faulty = FALSE
------------------------------------------------------------------------------
\* One write to the device: it succeeds and the call goes on with "next", or it
\* fails and the call goes on with "fail".
DeviceWrite(written, next, fail) ==
  \/ disk' = written /\ op' = next /\ UNCHANGED faulty
  \/ disk' = disk /\ op' = fail /\ faulty' = TRUE

\* The entries a scan of the directory manages to read: fs_read_entry reads the
\* block anew for each, and the loops pass over those that fail.
Scans == IF READ_ERRORS THEN SUBSET Entries ELSE {Entries}

BlockCount(size) == (size + BLOCK_SIZE - 1) \div BLOCK_SIZE

\* The data blocks of an entry; directories have none.
Extent(e) ==
  IF e.type = "FILE" THEN e.start_block .. e.start_block + BlockCount(e.size) - 1 ELSE {}

\* fs_find_entry and fs_find_free_slot: the first entry of the scan that fits.
FirstOf(S) == IF S = {} THEN FS_MAX_ENTRIES ELSE Min(S)

fs_find_entry(dir, name, scan) ==
  FirstOf({i \in scan : dir[i].type # "FREE" /\ dir[i].name = name})

fs_find_free_slot(dir, scan) == FirstOf({i \in scan : dir[i].type = "FREE"})

\* Mutants of fs_alloc_blocks: the map has one block too many; only the first
\* block of the run is looked at; the last free block is never given out.
AllocPastTheEnd(count, scan) ==
  LET inUse  == UNION {Extent(disk.dir[i]) : i \in scan}
      usable == (Blocks \union {DATA_BLOCKS}) \ inUse
      starts == {b \in usable : b .. b + count - 1 \subseteq usable}
  IN IF count > superblock \/ starts = {} THEN NO_SPACE ELSE Min(starts)

AllocFirstOnly(count, scan) ==
  LET inUse  == UNION {Extent(disk.dir[i]) : i \in scan}
      starts == {b \in Blocks \ inUse : b + count <= DATA_BLOCKS}
  IN IF count > superblock \/ starts = {} THEN NO_SPACE ELSE Min(starts)

AllocKeepsOne(count, scan) ==
  LET inUse  == UNION {Extent(disk.dir[i]) : i \in scan}
      usable == {b \in Blocks : b < MAP_BITS} \ inUse
      starts == {b \in usable : b .. b + count - 1 \subseteq usable}
  IN IF count >= superblock \/ starts = {} THEN NO_SPACE ELSE Min(starts)

\* The lowest run of "count" blocks that are not in use by an entry of the scan,
\* within the device and the map.
fs_alloc_blocks(count, scan) ==
  LET inUse  == UNION {Extent(disk.dir[i]) : i \in scan}
      usable == {b \in Blocks : b < MAP_BITS} \ inUse
      starts == {b \in usable : b .. b + count - 1 \subseteq usable}
  IN IF count > superblock \/ starts = {} THEN NO_SPACE ELSE Min(starts)

\* The recount at the end of fs_write_file: the blocks of each file, one by one.
Recount(dir, scan) ==
  LET total_used == Cardinality(UNION {{i} \X Extent(dir[i]) : i \in scan})
  IN IF DATA_BLOCKS > total_used THEN DATA_BLOCKS - total_used ELSE 0

\* Block i of the data, the last one filled up with zeros.
BlockOf(data, i) ==
  [k \in 1..BLOCK_SIZE |->
     IF i * BLOCK_SIZE + k <= Len(data) THEN data[i * BLOCK_SIZE + k] ELSE 0]

\* What fs_read_file copies for entry e into a buffer of max bytes: byte by byte
\* from its blocks, in order.
fs_read_file(dk, e, max) ==
  LET to_read == IF e.size > max THEN max ELSE e.size IN
  [k \in 1..to_read |->
     dk.data[e.start_block + (k - 1) \div BLOCK_SIZE][((k - 1) % BLOCK_SIZE) + 1]]
------------------------------------------------------------------------------
\* fs_init: mount, or start to format.
fs_init ==
  /\ op = Unmounted
  /\ \/ /\ disk.magic
        /\ superblock' = disk.free_blocks
        /\ op' = Idle
     \/ /\ ~disk.magic \/ READ_ERRORS
        /\ superblock' = DATA_BLOCKS
        /\ op' = [pc |-> "format", i |-> 0]
  /\ UNCHANGED <<disk, faulty>>

\* fs_format writes the superblock, then a zero block over each directory block.
fs_format ==
  /\ op.pc = "format"
  /\ LET zeroed == [j \in Entries |->
                      IF j \div FS_ENTRIES_PER_BLOCK = op.i - 1 THEN FreeEntry
                      ELSE disk.dir[j]]
         written == IF op.i = 0
                    THEN [disk EXCEPT !.magic = TRUE, !.free_blocks = superblock]
                    ELSE [disk EXCEPT !.dir = zeroed]
     IN DeviceWrite(written,
                    IF op.i = FS_DIR_BLOCKS THEN Idle ELSE [op EXCEPT !.i = @ + 1],
                    Idle)
  /\ UNCHANGED superblock

\* fs_create is a single device write; it refuses a name it finds and a full
\* directory.
fs_create(name, type) ==
  /\ op = Idle
  /\ \E s1 \in Scans, s2 \in Scans :
       LET slot == fs_find_free_slot(disk.dir, s2)
           new  == [FreeEntry EXCEPT !.name = name, !.type = type]
       IN IF fs_find_entry(disk.dir, name, s1) # FS_MAX_ENTRIES \/ slot = FS_MAX_ENTRIES
          THEN UNCHANGED vars
          ELSE DeviceWrite([disk EXCEPT !.dir[slot] = new], Idle, Idle)
  /\ UNCHANGED superblock
------------------------------------------------------------------------------
\* Mutant of fs_write_file: a file that has enough blocks is written in place.
OverwritesInPlace(name, data) ==
  /\ op = Idle
  /\ \E s1 \in Scans, s2 \in Scans :
       LET index == fs_find_entry(disk.dir, name, s1)
           old   == disk.dir[index]
           count == BlockCount(Len(data))
           start == IF count <= BlockCount(old.size) THEN old.start_block
                    ELSE fs_alloc_blocks(count, s2)
       IN /\ index # FS_MAX_ENTRIES /\ old.type = "FILE"
          /\ start # NO_SPACE
          /\ op' = [pc |-> "data", name |-> name, data |-> data, index |-> index,
                    start |-> start, i |-> 0]
  /\ UNCHANGED <<disk, superblock, faulty>>

\* fs_write_file up to its first write: find the file, allocate fresh blocks.
fs_write_file(name, data) ==
  /\ op = Idle
  /\ \E s1 \in Scans, s2 \in Scans :
       LET index == fs_find_entry(disk.dir, name, s1)
           count == BlockCount(Len(data))
           start == IF count = 0 THEN 0 ELSE fs_alloc_blocks(count, s2)
       IN /\ index # FS_MAX_ENTRIES /\ disk.dir[index].type = "FILE"
          /\ start # NO_SPACE
          /\ op' = [pc |-> "data", name |-> name, data |-> data, index |-> index,
                    start |-> start, i |-> 0]
  /\ UNCHANGED <<disk, superblock, faulty>>

write_data ==
  /\ op.pc = "data" /\ op.i < BlockCount(Len(op.data))
  /\ DeviceWrite([disk EXCEPT !.data[op.start + op.i] = BlockOf(op.data, op.i)],
                 [op EXCEPT !.i = @ + 1], Idle)
  /\ UNCHANGED superblock

write_entry ==
  /\ op.pc = "data" /\ op.i = BlockCount(Len(op.data))
  /\ DeviceWrite([disk EXCEPT !.dir[op.index] =
                    [name |-> op.name, type |-> "FILE",
                     start_block |-> op.start, size |-> Len(op.data)]],
                 [op EXCEPT !.pc = "recount"], Idle)
  /\ UNCHANGED superblock

\* The free blocks are counted anew; the result of the flush is not looked at.
write_recount ==
  /\ op.pc = "recount"
  /\ \E scan \in Scans :
       /\ superblock' = Recount(disk.dir, scan)
       /\ \/ disk' = [disk EXCEPT !.free_blocks = superblock'] /\ faulty' = FALSE
          \/ disk' = disk /\ faulty' = TRUE
  /\ op' = Idle
------------------------------------------------------------------------------
\* fs_delete up to its first write.
fs_delete(name) ==
  /\ op = Idle
  /\ \E scan \in Scans :
       LET index == fs_find_entry(disk.dir, name, scan)
           e     == disk.dir[index]
       IN /\ index # FS_MAX_ENTRIES
          /\ op' = [pc |-> IF e.type = "DIR" THEN "children" ELSE "self",
                    name |-> name, index |-> index, i |-> 0,
                    freed |-> IF e.type = "FILE" THEN BlockCount(e.size) ELSE 0]
  /\ UNCHANGED <<disk, superblock, faulty>>

\* Mutant of delete_children: the blocks of the children are not counted.
ForgetsChildBlocks ==
  /\ op.pc = "children"
  /\ \E scan \in Scans :
       LET next == FirstOf({j \in scan : /\ j >= op.i
                                         /\ disk.dir[j].type # "FREE"
                                         /\ disk.dir[j].name \in Children[op.name]})
           on   == [op EXCEPT !.i = next + 1]
       IN IF next = FS_MAX_ENTRIES
          THEN op' = [op EXCEPT !.pc = "self"] /\ UNCHANGED <<disk, faulty>>
          ELSE DeviceWrite([disk EXCEPT !.dir[next] = FreeEntry], on, on)
  /\ UNCHANGED superblock

\* One child is cleared, and counted whether or not the write succeeds; after
\* the last one it is the directory's own turn.
delete_children ==
  /\ op.pc = "children"
  /\ \E scan \in Scans :
       LET next == FirstOf({j \in scan : /\ j >= op.i
                                         /\ disk.dir[j].type # "FREE"
                                         /\ disk.dir[j].name \in Children[op.name]})
           e    == disk.dir[next]
           on   == [op EXCEPT !.i = next + 1,
                              !.freed = @ + Cardinality(Extent(e))]
       IN IF next = FS_MAX_ENTRIES
          THEN op' = [op EXCEPT !.pc = "self"] /\ UNCHANGED <<disk, faulty>>
          ELSE DeviceWrite([disk EXCEPT !.dir[next] = FreeEntry], on, on)
  /\ UNCHANGED superblock

delete_self ==
  /\ op.pc = "self"
  /\ DeviceWrite([disk EXCEPT !.dir[op.index] = FreeEntry],
                 [op EXCEPT !.pc = "free"], Idle)
  /\ UNCHANGED superblock

delete_flush ==
  /\ op.pc = "free" /\ superblock + op.freed <= MAX_FREE
  /\ superblock' = superblock + op.freed
  /\ DeviceWrite([disk EXCEPT !.free_blocks = superblock'], Idle, Idle)

\* Power is lost; what is in memory is gone.
crash ==
  /\ op # Unmounted
  /\ op' = Unmounted
  /\ superblock' = 0
  /\ faulty' = (faulty \/ op # Idle)
  /\ UNCHANGED disk

Next ==
  \/ fs_init \/ fs_format
  \/ \E name \in Names, type \in {"FILE", "DIR"} : fs_create(name, type)
  \/ \E name \in Names, data \in Data : fs_write_file(name, data)
  \/ write_data \/ write_entry \/ write_recount
  \/ \E name \in Names : fs_delete(name)
  \/ delete_children \/ delete_self \/ delete_flush
  \/ crash

Spec == Init /\ [][Next]_vars
------------------------------------------------------------------------------
\* The medium and the call in progress have their types.
TypeOK ==
  /\ disk.magic \in BOOLEAN /\ disk.free_blocks \in 0..MAX_FREE
  /\ disk.dir \in [Entries -> [name : Names \union {NoName}, type : {"FREE", "FILE", "DIR"},
                               start_block : Blocks, size : Nat]]
  /\ disk.data \in [Blocks -> [1..BLOCK_SIZE -> Nat]]
  /\ superblock \in 0..MAX_FREE
  /\ op.pc \in {"unmounted", "idle", "format", "data", "recount", "children", "self", "free"}
  /\ faulty \in BOOLEAN

\* At every moment, so after every crash as well, no two entries have the same
\* name, no two files share a data block, and every block of a file is on the
\* device.
DirectorySound ==
  \A i, j \in Entries :
    LET e == disk.dir[i]
        f == disk.dir[j]
    IN /\ Extent(e) \subseteq Blocks
       /\ i # j /\ e.type # "FREE" /\ f.type # "FREE" =>
            e.name # f.name /\ Extent(e) \cap Extent(f) = {}

\* The blocks that a call in progress has allocated belong to no file until it
\* commits them: data is never written over what an entry still refers to.
FreshBlocksUnused ==
  op.pc = "data" =>
    LET fresh == op.start .. op.start + BlockCount(Len(op.data)) - 1
    IN \A i \in Entries : Extent(disk.dir[i]) \cap fresh = {}

\* Between calls, unless something failed since it was last counted, the number
\* of free blocks is right in memory and on the medium, whether it came from
\* fs_format, the recount of fs_write_file or the running sum of fs_delete.
FreeCountExact ==
  op = Idle /\ ~faulty =>
    LET count == DATA_BLOCKS - Cardinality(UNION {Extent(disk.dir[i]) : i \in Entries})
    IN superblock = count /\ disk.free_blocks = count

\* Between calls, when nothing has failed, fs_alloc_blocks finds a run of free
\* blocks whenever the data region has one that is long enough: neither its
\* count of free blocks nor its map stands in the way.
AllocFindsGap ==
  op = Idle /\ ~faulty =>
    LET free == Blocks \ UNION {Extent(disk.dir[i]) : i \in Entries}
    IN \A b \in Blocks, count \in 1..DATA_BLOCKS :
         b .. b + count - 1 \subseteq free => fs_alloc_blocks(count, Entries) # NO_SPACE

\* What a name holds, as a caller of fs_stat and fs_read_file sees it.
Contents(name) ==
  LET i == fs_find_entry(disk.dir, name, Entries)
      e == disk.dir[i]
  IN IF i = FS_MAX_ENTRIES THEN [kind |-> "absent"]
     ELSE IF e.type = "DIR" THEN [kind |-> "directory"]
     ELSE [kind |-> "file", data |-> fs_read_file(disk, e, e.size)]

\* The write or delete in progress.
Request ==
  IF op.pc \in {"data", "recount"}
  THEN [call |-> "write", name |-> op.name, data |-> op.data]
  ELSE IF op.pc \in {"children", "self", "free"}
  THEN [call |-> "delete", name |-> op.name]
  ELSE [call |-> "none"]

Store == INSTANCE FileStore
           WITH files <- [n \in Names |-> Contents(n)], request <- Request,
                formatted <- disk.magic /\ op.pc # "format"

\* SimpleFS keeps its promise: whatever fails and wherever the machine stops, a
\* file holds its old content or its new one and never a mixture, and no call
\* touches a name that it was not asked to touch, once fs_format has got as far
\* as writing the superblock.
ImplementsFileStore == Store!Spec

\* "If the device has a valid superblock (correct magic), mounts it" (fs_init in
\* simplefs.h).  A read error of block 0 makes fs_init format it instead.
MountsValid ==
  [][op = Unmounted /\ disk.magic => op'.pc # "format"]_vars

\* "Files created via write command persist across QEMU restarts" (success
\* criterion 3 of the Phase 14 document): no file vanishes unless a delete is
\* in progress.
FilesPersist ==
  [][\A n \in Names :
       Contents(n).kind = "file" /\ Request.call # "delete" => Contents(n).kind' = "file"
    ]_vars
===============================================================================
