------------------------------- MODULE Kmalloc -------------------------------
(***************************************************************************)
(* The kernel heap (kernel/mem/kmalloc.c): best-fit allocation from blocks *)
(* that tile the heap, each with a header in front, and coalescing with    *)
(* both neighbours on kfree.                                               *)
(*                                                                         *)
(* Headers live in memory and are never erased, so size and is_free keep   *)
(* what was last written at every address; "heads" names the addresses     *)
(* that are headers now.  KmallocWalk checks that the code's walk over the *)
(* heap, from block to block by size, meets exactly those.                 *)
(***************************************************************************)
EXTENDS Integers, FiniteSets

CONSTANTS
  HEAP_SIZE,
  HEADER,           \* sizeof(block_header_t) (8)
  MIN_ALLOC_SIZE,   \* 16
  ALIGN,            \* 4
  Requests          \* the sizes that are asked for

KmallocConstants ==
  /\ ALIGN \in Nat \ {0} /\ HEADER \in Nat \ {0} /\ MIN_ALLOC_SIZE \in Nat
  /\ HEAP_SIZE \in Nat /\ HEADER <= HEAP_SIZE
  /\ HEADER % ALIGN = 0 /\ MIN_ALLOC_SIZE % ALIGN = 0 /\ HEAP_SIZE % ALIGN = 0
  /\ Requests \subseteq Nat

Addr == {a \in 0 .. HEAP_SIZE - 1 : a % ALIGN = 0}

VARIABLES
  size, is_free,    \* the header fields at each address
  heads,            \* the addresses of the blocks
  live              \* history: blocks handed out, with the size asked for

heap == <<size, is_free, heads, live>>

kmalloc_init ==
  /\ size = [a \in Addr |-> IF a = 0 THEN HEAP_SIZE ELSE 0]
  /\ is_free = [a \in Addr |-> a = 0]
  /\ heads = {0}
  /\ live = [a \in {} |-> 0]
------------------------------------------------------------------------------
\* Mutant of RoundUp: rounds down.
RoundDown(n) == n - (n % ALIGN)

RoundUp(n) == IF n % ALIGN # 0 THEN n + (ALIGN - (n % ALIGN)) ELSE n

\* The free blocks that can hold total bytes.
Fits(total) == {h \in heads : is_free[h] /\ size[h] >= total}

\* The smallest of them, the first one among equals.
IsBestFit(b, total) ==
  /\ b \in Fits(total)
  /\ \A c \in Fits(total) : size[b] < size[c] \/ (size[b] = size[c] /\ b <= c)

\* Block b is cut after total bytes if the rest can hold a minimal block.
Split(b, total) ==
  IF size[b] >= total + HEADER + MIN_ALLOC_SIZE
  THEN /\ size' = [size EXCEPT ![b] = total, ![b + total] = size[b] - total]
       /\ is_free' = [is_free EXCEPT ![b] = FALSE, ![b + total] = TRUE]
       /\ heads' = heads \union {b + total}
  ELSE /\ is_free' = [is_free EXCEPT ![b] = FALSE]
       /\ UNCHANGED <<size, heads>>

kmalloc(n) ==
  LET total == RoundUp(n) + HEADER IN
  \/ /\ n = 0 \/ Fits(total) = {}                        \* returns NULL
     /\ UNCHANGED heap
  \/ /\ n # 0
     /\ \E b \in heads :
          /\ IsBestFit(b, total)
          /\ Split(b, total)
          /\ live' = [h \in DOMAIN live \union {b} |-> IF h = b THEN n ELSE live[h]]

\* The block after b, if it is free: the one forward coalescing absorbs.
FreeNext(b) == {h \in heads : h = b + size[b] /\ is_free[h]}

\* Mutant of FreePrev: there is no backward coalescing.
NoPrev(b) == {}

\* The block before b, if it is free: the one that absorbs b.
FreePrev(b) == {h \in heads : h + size[h] = b /\ is_free[h]}

kfree(b) ==
  LET grown == IF FreeNext(b) = {} THEN size[b] ELSE size[b] + size[b + size[b]] IN
  /\ b \in DOMAIN live
  /\ is_free' = [is_free EXCEPT ![b] = TRUE]
  /\ \/ /\ FreePrev(b) = {}
        /\ size' = [size EXCEPT ![b] = grown]
        /\ heads' = heads \ FreeNext(b)
     \/ \E p \in FreePrev(b) :
          /\ size' = [size EXCEPT ![b] = grown, ![p] = size[p] + grown]
          /\ heads' = heads \ (FreeNext(b) \union {b})
  /\ live' = [h \in DOMAIN live \ {b} |-> live[h]]

HeapNext ==
  \/ \E n \in Requests : kmalloc(n)
  \/ \E b \in heads : kfree(b)

HeapSpec == kmalloc_init /\ [][HeapNext]_heap
------------------------------------------------------------------------------
\* Headers are at aligned addresses and what they say has its type.
HeapTypeOK ==
  /\ size \in [Addr -> 0..HEAP_SIZE]
  /\ is_free \in [Addr -> BOOLEAN]
  /\ heads \subseteq Addr
  /\ DOMAIN live \subseteq heads /\ \A h \in DOMAIN live : live[h] \in Nat

\* The blocks tile the heap: the first begins where the heap does, each one ends
\* where the next begins or where the heap ends, and no header lies inside
\* another block, whatever was split and merged before.
Tiled ==
  /\ 0 \in heads
  /\ \A h \in heads :
       /\ size[h] >= HEADER
       /\ h + size[h] \in heads \union {HEAP_SIZE}
       /\ \A g \in heads : ~(h < g /\ g < h + size[h])

\* A block is in use exactly while a caller holds it, and its payload has the
\* size the caller asked for: with Tiled, no two callers' payloads overlap.
LiveExact ==
  \A h \in heads : /\ ~is_free[h] <=> h \in DOMAIN live
                   /\ h \in DOMAIN live => live[h] <= size[h] - HEADER

\* No two free blocks are neighbours, so the largest free run is one block, and
\* a heap that all callers have given back is a single block again.
Coalesced ==
  /\ \A h \in heads : is_free[h] => FreeNext(h) = {}
  /\ DOMAIN live = {} => heads = {0} /\ size[0] = HEAP_SIZE

\* After any sequence of kmalloc and kfree the blocks lie end to end from HEAP_START
\* to HEAP_END, no two free ones are neighbours, and every block that a caller holds
\* is as large as asked for and overlaps no other.
HeapSound == HeapTypeOK /\ Tiled /\ LiveExact /\ Coalesced
===============================================================================
