----------------------------- MODULE KmallocWalk -----------------------------
(***************************************************************************)
(* The loops of kernel/mem/kmalloc.c over the heap: from HEAP_START, each  *)
(* block found by adding the size of the one before, stale headers of      *)
(* merged blocks still in memory.                                          *)
(***************************************************************************)
EXTENDS Kmalloc

MAX_BLOCKS == HEAP_SIZE \div HEADER     \* no heap holds more

\* The address the walk is at after k blocks; it stays where it leaves the heap.
\* A block of size 0 would hold it for ever.
WalkAt ==
  LET at[k \in 0 .. MAX_BLOCKS] ==
        IF k = 0 THEN 0
        ELSE LET a == at[k - 1] IN IF a \in Addr THEN a + size[a] ELSE a
  IN at

Walk == {WalkAt[k] : k \in 0 .. MAX_BLOCKS}

\* Mutant of Search: the first block that fits.
FirstFit(total) ==
  LET ks == {k \in 0 .. MAX_BLOCKS : WalkAt[k] \in Fits(total)}
  IN IF ks = {} THEN -1 ELSE WalkAt[CHOOSE k \in ks : \A j \in ks : k <= j]

\* kmalloc's search: the best block so far after k blocks, -1 before the first.
\* It stops at a perfect fit.
Search(total) ==
  LET at == WalkAt
      best[k \in 0 .. MAX_BLOCKS] ==
        IF k = 0 THEN -1
        ELSE LET b == best[k - 1]
                 a == at[k - 1]
             IN IF \/ a \notin Addr
                   \/ b # -1 /\ size[b] = total
                   \/ ~is_free[a] \/ size[a] < total
                   \/ b # -1 /\ size[a] >= size[b]
                THEN b ELSE a
  IN best[MAX_BLOCKS]

\* kfree's backward scan: the block visited last before block.
ScanPrev(block) ==
  LET at == WalkAt
      ks == {k \in 0 .. MAX_BLOCKS : at[k] = block}
  IN IF block = 0 THEN -1 ELSE at[(CHOOSE k \in ks : \A j \in ks : k <= j) - 1]

\* The walk meets every block and nothing else, and leaves the heap exactly at
\* its end: no stale header is ever taken for a block, and the loops end.
WalkFindsBlocks == Walk = heads \union {HEAP_SIZE}

\* The search finds the best fit, or nothing when no block fits; the backward
\* scan finds the block that ends where the freed one begins.
SearchesCorrect ==
  /\ \A n \in Requests \ {0} :
       LET total == RoundUp(n) + HEADER IN
       IF Fits(total) = {} THEN Search(total) = -1 ELSE IsBestFit(Search(total), total)
  /\ \A b \in DOMAIN live \ {0} :
       ScanPrev(b) \in heads /\ ScanPrev(b) + size[ScanPrev(b)] = b
===============================================================================
