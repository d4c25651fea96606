--------------------------------- MODULE Pmm ---------------------------------
(***************************************************************************)
(* The physical memory manager (kernel/mem/pmm.c): a bitmap with one bit   *)
(* per page frame and a counter of the bits that are set.                  *)
(*                                                                         *)
(* A call of the allocator is one step here; PmmRace.tla looks inside the  *)
(* calls.  Addresses are byte addresses, so that free_page's alignment and *)
(* range checks are visible; PAGE_SIZE may be as small as 2.               *)
(***************************************************************************)
EXTENDS Integers, FiniteSets

CONSTANTS
  TOTAL_FRAMES,   \* frames of physical memory (4096)
  PAGE_SIZE,      \* bytes of a frame (4096)
  LOW_END,        \* first frame above low memory (256)
  HEAP_END,       \* first frame above the kernel heap (512): the bitmap's own
  BITMAP_FRAMES,  \* frames the bitmap occupies (1)
  MMIO_START,     \* first frame of the device region (3840)
  MAX_COUNT       \* largest count a caller passes to alloc_pages

ASSUME PmmLayout ==
  /\ TOTAL_FRAMES \in Nat /\ LOW_END \in Nat /\ HEAP_END \in Nat
  /\ BITMAP_FRAMES \in Nat /\ MMIO_START \in Nat
  /\ 0 < LOW_END /\ LOW_END <= HEAP_END
  /\ 0 < BITMAP_FRAMES
  /\ HEAP_END + BITMAP_FRAMES <= MMIO_START
  /\ MMIO_START <= TOTAL_FRAMES
  /\ PAGE_SIZE \in Nat \ {0} /\ MAX_COUNT \in Nat

VARIABLES
  bitmap,         \* pmm.bitmap: the frames whose bit is set
  used_frames,    \* pmm.used_frames
  owned           \* history: frames handed out and not given back

vars == <<bitmap, used_frames, owned>>

Frames == 0 .. TOTAL_FRAMES - 1

\* The four loops of pmm_mark_reserved_regions, in order.
ReservedRegions ==
  << 0 .. LOW_END - 1,
     LOW_END .. HEAP_END - 1,
     HEAP_END .. HEAP_END + BITMAP_FRAMES - 1,
     MMIO_START .. TOTAL_FRAMES - 1 >>

Reserved == UNION {ReservedRegions[i] : i \in 1..4}

\* pmm_set_frame runs once per frame of each region and counts every call.
ReservedCalls ==
  LOW_END + (HEAP_END - LOW_END) + BITMAP_FRAMES + (TOTAL_FRAMES - MMIO_START)

Init ==
  /\ bitmap = Reserved
  /\ used_frames = ReservedCalls
  /\ owned = {}
------------------------------------------------------------------------------
\* pmm_set_frame for each frame of S, which the caller then holds.
SetFrames(S, n) ==
  /\ bitmap' = bitmap \union S
  /\ used_frames' = used_frames + n
  /\ owned' = owned \union S

IsFirstFree(f) ==
  /\ f \in Frames \ bitmap
  /\ \A g \in Frames \ bitmap : f <= g

alloc_page ==
  \/ \E f \in Frames : IsFirstFree(f) /\ SetFrames({f}, 1)
  \/ bitmap = Frames /\ UNCHANGED vars               \* returns 0

\* All of the n frames from s on are free: the windows the scan can return.
IsWindow(s, n) == s + n <= TOTAL_FRAMES /\ (s .. s + n - 1) \cap bitmap = {}

\* Mutant of alloc_pages: the frames need not follow one another.
TakesScattered(n) ==
  LET free == Frames \ bitmap
      taken == {f \in free : Cardinality({g \in free : g < f}) < n}
  IN IF Cardinality(free) < n THEN UNCHANGED vars ELSE SetFrames(taken, n)

alloc_pages(n) ==
  \/ n = 0 /\ UNCHANGED vars                         \* returns 0
  \/ n = 1 /\ alloc_page
  \/ /\ n > 1
     /\ \E s \in Frames :
          /\ IsWindow(s, n)
          /\ \A r \in Frames : IsWindow(r, n) => s <= r
          /\ SetFrames(s .. s + n - 1, n)
  \/ /\ n > 1
     /\ \A s \in Frames : ~IsWindow(s, n)
     /\ UNCHANGED vars                               \* returns 0

\* Mutants of FreeRejects: without the double-free check, and without the
\* alignment check.
AllowsDoubleFree(addr) ==
  addr % PAGE_SIZE # 0 \/ addr \div PAGE_SIZE >= TOTAL_FRAMES

AllowsUnaligned(addr) ==
  \/ addr \div PAGE_SIZE >= TOTAL_FRAMES
  \/ addr \div PAGE_SIZE \notin bitmap

\* The checks of free_page, in the order the code makes them.
FreeRejects(addr) ==
  \/ addr % PAGE_SIZE # 0
  \/ addr \div PAGE_SIZE >= TOTAL_FRAMES
  \/ addr \div PAGE_SIZE \notin bitmap

free_page(addr) ==
  LET frame == addr \div PAGE_SIZE IN
  \/ FreeRejects(addr) /\ UNCHANGED vars
  \/ /\ ~FreeRejects(addr)
     /\ bitmap' = bitmap \ {frame}
     /\ used_frames' = used_frames - 1
     /\ owned' = owned \ {frame}

\* Every address up to and past the end of memory, aligned or not, save the
\* frames of the reserved regions: no caller in the kernel frees those, and
\* free_page would not stop one that did.
Addresses ==
  {a \in 0 .. (TOTAL_FRAMES + 1) * PAGE_SIZE :
     a % PAGE_SIZE = 0 => a \div PAGE_SIZE \notin Reserved}

Next ==
  \/ alloc_page
  \/ \E n \in 0..MAX_COUNT : alloc_pages(n)
  \/ \E addr \in Addresses : free_page(addr)

Spec == Init /\ [][Next]_vars
------------------------------------------------------------------------------
\* The bitmap and the history only name frames; the counter is a number.
TypeOK ==
  /\ bitmap \subseteq Frames
  /\ used_frames \in Nat
  /\ owned \subseteq Frames

\* used_frames is the number of bits set, whatever was allocated, refused or
\* freed twice: get_used_memory and get_free_memory report from it alone, and
\* pmm_set_frame counts without looking at the bit.
CountExact == used_frames = Cardinality(bitmap)

\* Every used frame is either reserved or held by exactly the callers that were
\* given it: nothing leaks inside the allocator, no reserved frame (frame 0,
\* whose address means "out of memory", among them) is ever handed out, and
\* no frame is handed out twice.
OwnershipExact ==
  /\ bitmap = Reserved \union owned
  /\ owned \cap Reserved = {}
  /\ used_frames = Cardinality(Reserved) + Cardinality(owned)

\* The allocator implements its abstract promise: steps of alloc_page,
\* alloc_pages and free_page only grant runs of free pool frames and only take
\* back frames that are out.
Promise == INSTANCE FrameAllocator
             WITH Pool <- Frames \ Reserved, free <- Frames \ bitmap

ImplementsPromise == Promise!Spec
===============================================================================
