----------------------------- MODULE MCAllocators -----------------------------
(***************************************************************************)
(* The two allocators, which share no state: a behaviour moves the one     *)
(* that "part" names.  The frame allocator has fifteen frames: low memory  *)
(* 0-1, heap 2-3, bitmap 4, a pool of eight frames 5-12 and two device     *)
(* frames 13-14.  The heap has 28 bytes with headers of 4.                 *)
(***************************************************************************)
EXTENDS PmmScan, KmallocWalk

ASSUME WholeWords /\ KmallocConstants

VARIABLE part

MCInit == part \in {"pmm", "heap"} /\ Init /\ kmalloc_init

MCNext ==
  \/ part = "pmm" /\ Next /\ UNCHANGED <<part, heap>>
  \/ part = "heap" /\ HeapNext /\ UNCHANGED <<part, vars>>

MCSpec == MCInit /\ [][MCNext]_<<part, vars, heap>>
------------------------------------------------------------------------------
\* alloc_page's loop over words and bits finds the lowest free frame, alloc_pages'
\* loop the lowest run of free frames that is long enough, and each gives up only
\* if there is none.  The loops of kmalloc.c, which follow the sizes, meet exactly the
\* blocks and never a stale header; kmalloc's search returns the best fit, kfree's the
\* block before.
ScansCorrect ==
  /\ part = "pmm" => FirstFreeCorrect /\ WindowScanCorrect
  /\ part = "heap" => WalkFindsBlocks /\ SearchesCorrect
===============================================================================
