--------------------------- MODULE AllocatorProofs ---------------------------
(***************************************************************************)
(* The physical memory manager is correct for every memory layout: the     *)
(* counter is exact, every used frame has exactly one owner, and the       *)
(* allocator implements FrameAllocator.                                    *)
(*                                                                         *)
(* kmalloc and kfree keep the heap sound, for every heap size, alignment,  *)
(* header size and every sequence of requests.                             *)
(***************************************************************************)
EXTENDS Pmm, Kmalloc, FiniteSetTheorems, TLAPS

\* The size of a disjoint union is the sum of the sizes.
LEMMA DisjointUnionCount ==
  ASSUME NEW S, NEW T, IsFiniteSet(S), IsFiniteSet(T), S \cap T = {}
  PROVE  /\ IsFiniteSet(S \union T)
         /\ Cardinality(S \union T) = Cardinality(S) + Cardinality(T)
<1>1. Cardinality(S) \in Nat /\ Cardinality(T) \in Nat
  BY FS_CardinalityType
<1>2. Cardinality(S \cap T) = 0
  BY FS_EmptySet
<1>3. /\ IsFiniteSet(S \union T)
      /\ Cardinality(S \union T) =
           Cardinality(S) + Cardinality(T) - Cardinality(S \cap T)
  BY FS_Union
<1> QED BY <1>1, <1>2, <1>3

\* The four reserved regions, written as a union.
LEMMA ReservedUnion ==
  Reserved = (0 .. HEAP_END + BITMAP_FRAMES - 1) \union (MMIO_START .. TOTAL_FRAMES - 1)
<1>1. Reserved = ReservedRegions[1] \union ReservedRegions[2]
                   \union ReservedRegions[3] \union ReservedRegions[4]
  <2>1. 1..4 = {1, 2, 3, 4}
    OBVIOUS
  <2> QED BY <2>1 DEF Reserved
<1> QED BY <1>1, PmmLayout DEF ReservedRegions

\* Every reserved frame is a frame of memory, frame 0 among them.
LEMMA ReservedInFrames == Reserved \subseteq Frames /\ 0 \in Reserved
BY ReservedUnion, PmmLayout DEF Frames

\* Memory is finite.
LEMMA FramesFinite ==
  /\ IsFiniteSet(Frames)
  /\ \A S \in SUBSET Frames : IsFiniteSet(S) /\ Cardinality(S) \in Nat
<1>1. 0 \in Int /\ TOTAL_FRAMES - 1 \in Int
  BY PmmLayout
<1>2. IsFiniteSet(Frames)
  BY <1>1, FS_Interval DEF Frames
<1>3. ASSUME NEW S \in SUBSET Frames PROVE IsFiniteSet(S) /\ Cardinality(S) \in Nat
  BY <1>2, FS_Subset, FS_CardinalityType
<1> QED BY <1>2, <1>3

\* The regions do not overlap, so counting one per pmm_set_frame call is exact.
LEMMA ReservedCount == Cardinality(Reserved) = ReservedCalls
<1> DEFINE Lo == 0 .. HEAP_END + BITMAP_FRAMES - 1
           Hi == MMIO_START .. TOTAL_FRAMES - 1
<1>1. IsFiniteSet(Lo) /\ Cardinality(Lo) = HEAP_END + BITMAP_FRAMES
  <2>1. 0 \in Int /\ HEAP_END + BITMAP_FRAMES - 1 \in Int
    BY PmmLayout
  <2>2. IsFiniteSet(Lo)
         /\ Cardinality(Lo) = IF 0 > HEAP_END + BITMAP_FRAMES - 1
                              THEN 0 ELSE (HEAP_END + BITMAP_FRAMES - 1) - 0 + 1
    BY <2>1, FS_Interval
  <2> QED BY <2>2, PmmLayout
<1>2. IsFiniteSet(Hi) /\ Cardinality(Hi) = TOTAL_FRAMES - MMIO_START
  <2>1. MMIO_START \in Int /\ TOTAL_FRAMES - 1 \in Int
    BY PmmLayout
  <2>2. IsFiniteSet(Hi)
         /\ Cardinality(Hi) = IF MMIO_START > TOTAL_FRAMES - 1
                              THEN 0 ELSE (TOTAL_FRAMES - 1) - MMIO_START + 1
    BY <2>1, FS_Interval
  <2> QED BY <2>2, PmmLayout
<1>3. Lo \cap Hi = {}
  BY PmmLayout
<1>4. Cardinality(Lo \union Hi) = Cardinality(Lo) + Cardinality(Hi)
  <2> HIDE DEF Lo, Hi
  <2> QED BY <1>1, <1>2, <1>3, DisjointUnionCount
<1> QED BY <1>1, <1>2, <1>4, ReservedUnion, PmmLayout DEF ReservedCalls
------------------------------------------------------------------------------
\* The inductive invariant: the types, the partition of the used frames, and
\* the counter.  The counter alone is not inductive: that setting a frame adds
\* one to the number of set bits needs the frame to have been clear, and that
\* clearing one leaves the reserved frames alone needs the partition.
IInv ==
  /\ TypeOK
  /\ CountExact
  /\ bitmap = Reserved \union owned
  /\ owned \cap Reserved = {}

LEMMA InitIInv == Init => IInv
<1> SUFFICES ASSUME Init PROVE IInv
  OBVIOUS
<1>1. ReservedCalls \in Nat
  BY PmmLayout DEF ReservedCalls
<1> QED BY <1>1, ReservedInFrames, ReservedCount DEF Init, IInv, TypeOK, CountExact

\* Handing out n clear frames keeps the invariant.
LEMMA SetFramesIInv ==
  ASSUME IInv, NEW S \in SUBSET (Frames \ bitmap), NEW n \in Nat,
         Cardinality(S) = n, SetFrames(S, n)
  PROVE  IInv'
<1>1. IsFiniteSet(bitmap) /\ IsFiniteSet(S)
  BY FramesFinite DEF IInv, TypeOK
<1>2. bitmap \cap S = {}
  OBVIOUS
<1>3. Cardinality(bitmap \union S) = Cardinality(bitmap) + n
  BY <1>1, <1>2, DisjointUnionCount
<1>4. CountExact'
  BY <1>3 DEF IInv, CountExact, SetFrames
<1>5. TypeOK'
  BY DEF IInv, TypeOK, SetFrames
<1> QED BY <1>4, <1>5 DEF IInv, SetFrames

LEMMA alloc_pageIInv == IInv /\ alloc_page => IInv'
<1> SUFFICES ASSUME IInv, alloc_page PROVE IInv'
  OBVIOUS
<1>1. ASSUME NEW f \in Frames, IsFirstFree(f), SetFrames({f}, 1) PROVE IInv'
  <2>1. Cardinality({f}) = 1
    BY FS_Singleton
  <2>2. {f} \in SUBSET (Frames \ bitmap)
    BY <1>1 DEF IsFirstFree
  <2> QED BY <1>1, <2>1, <2>2, SetFramesIInv
<1>2. CASE UNCHANGED vars
  BY <1>2 DEF vars, IInv, TypeOK, CountExact
<1> QED BY Zenon, <1>1, <1>2 DEF alloc_page

LEMMA alloc_pagesIInv ==
  ASSUME IInv, NEW n \in 0..MAX_COUNT, alloc_pages(n)
  PROVE  IInv'
<1>1. CASE UNCHANGED vars
  BY Zenon, <1>1 DEF vars, IInv, TypeOK, CountExact
<1>2. CASE alloc_page
  BY <1>2, alloc_pageIInv
<1>3. ASSUME n > 1, NEW s \in Frames, IsWindow(s, n), SetFrames(s .. s + n - 1, n)
      PROVE  IInv'
  <2>1. n \in Nat /\ s \in Int /\ s + n - 1 \in Int
    BY PmmLayout DEF Frames
  <2>2. Cardinality(s .. s + n - 1) =
          IF s > s + n - 1 THEN 0 ELSE (s + n - 1) - s + 1
    BY <2>1, FS_Interval
  <2>3. Cardinality(s .. s + n - 1) = n
    BY <1>3, <2>1, <2>2
  <2>4. s .. s + n - 1 \in SUBSET (Frames \ bitmap)
    BY <1>3, <2>1, PmmLayout DEF IsWindow, Frames
  <2> QED BY <1>3, <2>1, <2>3, <2>4, SetFramesIInv
<1> QED BY <1>1, <1>2, <1>3 DEF alloc_pages

\* free_page that gets past its checks releases a frame some caller holds.
LEMMA FreedIsOwned ==
  ASSUME IInv, NEW addr \in Addresses, ~FreeRejects(addr)
  PROVE  addr \div PAGE_SIZE \in owned /\ addr \div PAGE_SIZE \in Frames \ Reserved
BY DEF IInv, TypeOK, Addresses, FreeRejects

LEMMA free_pageIInv ==
  ASSUME IInv, NEW addr \in Addresses, free_page(addr)
  PROVE  IInv'
<1> DEFINE frame == addr \div PAGE_SIZE
<1>1. CASE FreeRejects(addr)
  BY <1>1 DEF free_page, vars, IInv, TypeOK, CountExact
<1>2. CASE ~FreeRejects(addr)
  <2>1. frame \in owned /\ frame \in bitmap
    BY <1>2, FreedIsOwned DEF IInv
  <2>2. /\ bitmap' = bitmap \ {frame}
        /\ used_frames' = used_frames - 1
        /\ owned' = owned \ {frame}
    BY <1>2 DEF free_page
  <2> HIDE DEF frame
  <2>3. IsFiniteSet(bitmap) /\ Cardinality(bitmap) \in Nat
    BY FramesFinite DEF IInv, TypeOK
  <2>4. Cardinality(bitmap \ {frame}) = Cardinality(bitmap) - 1
    BY Zenon, <2>1, <2>3, FS_RemoveElement
  <2>5. CountExact'
    BY <2>2, <2>4 DEF IInv, CountExact
  <2>6. Cardinality(bitmap \ {frame}) \in Nat
    BY FramesFinite DEF IInv, TypeOK
  <2>7. TypeOK'
    BY <2>2, <2>5, <2>6 DEF IInv, TypeOK, CountExact
  <2>8. frame \notin Reserved
    BY <2>1 DEF IInv
  <2> QED BY <2>2, <2>5, <2>7, <2>8 DEF IInv
<1> QED BY <1>1, <1>2

\* IInv holds in every reachable state.
THEOREM Invariance == Spec => []IInv
<1>1. IInv /\ [Next]_vars => IInv'
  <2> SUFFICES ASSUME IInv, [Next]_vars PROVE IInv'
    OBVIOUS
  <2>1. CASE alloc_page
    BY <2>1, alloc_pageIInv
  <2>2. CASE \E n \in 0..MAX_COUNT : alloc_pages(n)
    BY <2>2, alloc_pagesIInv
  <2>3. CASE \E addr \in Addresses : free_page(addr)
    BY <2>3, free_pageIInv
  <2>4. CASE UNCHANGED vars
    BY Zenon, <2>4 DEF vars, IInv, TypeOK, CountExact
  <2> QED BY <2>1, <2>2, <2>3, <2>4 DEF Next
<1> QED BY <1>1, InitIInv, PTL DEF Spec

\* used_frames counts the set bits exactly, for every layout of memory.
THEOREM CounterCorrect == Spec => [](TypeOK /\ CountExact)
<1>1. IInv => TypeOK /\ CountExact
  BY DEF IInv
<1> QED BY <1>1, Invariance, PTL

\* Every used frame is reserved or held, never both, and the counts add up.
THEOREM OwnershipCorrect == Spec => []OwnershipExact
<1>1. IInv => OwnershipExact
  <2> SUFFICES ASSUME IInv PROVE used_frames = Cardinality(Reserved) + Cardinality(owned)
    BY DEF IInv, OwnershipExact
  <2>1. IsFiniteSet(Reserved) /\ IsFiniteSet(owned)
    BY FramesFinite, ReservedInFrames DEF IInv, TypeOK
  <2>2. Reserved \cap owned = {}
    BY DEF IInv
  <2>3. Cardinality(Reserved \union owned) = Cardinality(Reserved) + Cardinality(owned)
    BY <2>1, <2>2, DisjointUnionCount
  <2> QED BY <2>3 DEF IInv, CountExact
<1> QED BY <1>1, Invariance, PTL
------------------------------------------------------------------------------
\* Handing out a run of clear frames is a Grant of the abstract allocator.
LEMMA SetFramesGrants ==
  ASSUME IInv, NEW S \in SUBSET (Frames \ bitmap), NEW a \in S, NEW b \in S,
         S = a..b, NEW n, SetFrames(S, n)
  PROVE  Promise!Next
<1>1. a <= b /\ a..b \subseteq Frames \ bitmap
  BY DEF Frames
<1>2. (Frames \ bitmap)' = (Frames \ bitmap) \ (a..b)
  BY DEF SetFrames, Frames
<1>3. Promise!Grant
  BY <1>1, <1>2 DEF Promise!Grant
<1> QED BY <1>3 DEF Promise!Next

\* alloc_page, alloc_pages and free_page implement FrameAllocator: every call
\* grants a run of free pool frames, takes one back, or changes nothing.
THEOREM Refinement == Spec => ImplementsPromise
<1>1. Init => Promise!Init
  BY ReservedInFrames DEF Init, Promise!Init
<1>2. IInv /\ [Next]_vars => [Promise!Next]_(Frames \ bitmap)
  <2> SUFFICES ASSUME IInv, [Next]_vars
               PROVE  Promise!Next \/ UNCHANGED (Frames \ bitmap)
    OBVIOUS
  <2>0. CASE UNCHANGED vars
    BY <2>0 DEF vars, Frames
  <2>1. CASE alloc_page
    <3>1. ASSUME NEW f \in Frames, IsFirstFree(f), SetFrames({f}, 1)
          PROVE  Promise!Next
      <4>1. {f} = f..f
        BY DEF Frames
      <4>2. {f} \in SUBSET (Frames \ bitmap)
        BY <3>1 DEF IsFirstFree
      <4> QED BY Zenon, <3>1, <4>1, <4>2, SetFramesGrants
    <3> QED BY Zenon, <2>0, <2>1, <3>1 DEF alloc_page
  <2>2. ASSUME NEW n \in 0..MAX_COUNT, alloc_pages(n)
        PROVE  Promise!Next \/ UNCHANGED (Frames \ bitmap)
    <3>1. ASSUME n > 1, NEW s \in Frames, IsWindow(s, n), SetFrames(s .. s + n - 1, n)
          PROVE  Promise!Next
      <4>1. s \in s .. s + n - 1 /\ s + n - 1 \in s .. s + n - 1
        BY <3>1, PmmLayout DEF Frames
      <4>2. s .. s + n - 1 \in SUBSET (Frames \ bitmap)
        BY <3>1, PmmLayout DEF IsWindow, Frames
      <4> QED BY Zenon, <3>1, <4>1, <4>2, SetFramesGrants
    <3> QED BY <2>0, <2>1, <2>2, <3>1 DEF alloc_pages
  <2>3. ASSUME NEW addr \in Addresses, free_page(addr)
        PROVE  Promise!Next \/ UNCHANGED (Frames \ bitmap)
    <3> DEFINE frame == addr \div PAGE_SIZE
    <3>1. CASE ~FreeRejects(addr)
      <4>1. frame \in bitmap /\ frame \in Frames \ Reserved
        BY <3>1, FreedIsOwned DEF IInv
      <4>2. bitmap' = bitmap \ {frame}
        BY <2>3, <3>1 DEF free_page
      <4> HIDE DEF frame
      <4>3. (Frames \ bitmap)' = (Frames \ bitmap) \union {frame}
        BY <4>1, <4>2 DEF Frames
      <4>4. frame \in (Frames \ Reserved) \ (Frames \ bitmap)
        BY <4>1
      <4> QED BY <4>3, <4>4 DEF Promise!Next, Promise!Release
    <3> QED BY <2>0, <2>3, <3>1 DEF free_page
  <2> QED BY <2>0, <2>1, <2>2, <2>3 DEF Next
<1> QED BY <1>1, <1>2, Invariance, PTL DEF Spec, ImplementsPromise, Promise!Spec
------------------------------------------------------------------------------
\* Coalesced, as far as one block and its neighbour go.
NoFreeNeighbours == \A h \in heads : is_free[h] => FreeNext(h) = {}

HeapInv == HeapTypeOK /\ Tiled /\ LiveExact /\ NoFreeNeighbours

\* Sums of aligned numbers are aligned.
LEMMA AlignedSum ==
  ASSUME NEW k \in Nat \ {0}, NEW a \in Nat, NEW b \in Nat, a % k = 0, b % k = 0
  PROVE  (a + b) % k = 0
<1>1. /\ a = k * (a \div k) + (a % k) /\ b = k * (b \div k) + (b % k)
      /\ a \div k \in Int /\ b \div k \in Int
  OBVIOUS
<1>2. a + b = k * ((a \div k) + (b \div k)) + 0
  BY <1>1
<1>3. ASSUME NEW q \in Int, NEW c \in Nat, c = k * q + 0 PROVE c % k = 0
  BY <1>3
<1>4. (a \div k) + (b \div k) \in Int /\ a + b \in Nat
  BY <1>1
<1> QED BY Zenon, <1>2, <1>3, <1>4

\* kmalloc's rounding gives the caller at least what was asked for, aligned.
LEMMA RoundsUp ==
  ASSUME KmallocConstants, NEW n \in Nat
  PROVE  RoundUp(n) \in Nat /\ RoundUp(n) >= n /\ RoundUp(n) % ALIGN = 0
<1>1. ALIGN \in Nat \ {0} /\ n % ALIGN \in 0 .. ALIGN - 1
  BY DEF KmallocConstants
<1>2. CASE n % ALIGN = 0
  BY <1>2 DEF RoundUp
<1>3. CASE n % ALIGN # 0
  <2>1. n = ALIGN * (n \div ALIGN) + (n % ALIGN) /\ n \div ALIGN \in Int
    BY <1>1
  <2>2. RoundUp(n) = ALIGN * ((n \div ALIGN) + 1) + 0 /\ RoundUp(n) \in Nat /\ RoundUp(n) >= n
    BY <1>1, <1>3, <2>1 DEF RoundUp
  <2>3. ASSUME NEW q \in Int, NEW c \in Nat, c = ALIGN * q + 0 PROVE c % ALIGN = 0
    BY <1>1, <2>3
  <2> QED BY <2>1, <2>2, <2>3
<1> QED BY <1>2, <1>3

\* What the invariant says of single blocks, in numbers.
LEMMA BlockFacts ==
  ASSUME KmallocConstants, HeapInv
  PROVE  /\ HEAP_SIZE \in Nat /\ HEADER \in Nat \ {0} /\ MIN_ALLOC_SIZE \in Nat
         /\ \A h \in heads : /\ h \in Addr /\ h \in Nat /\ h < HEAP_SIZE /\ h % ALIGN = 0
                             /\ size[h] \in Nat /\ size[h] >= HEADER
                             /\ h + size[h] <= HEAP_SIZE
<1>1. HEAP_SIZE \in Nat /\ HEADER \in Nat \ {0} /\ MIN_ALLOC_SIZE \in Nat
  BY DEF KmallocConstants
<1>2. \A a \in Addr : a \in Nat /\ a < HEAP_SIZE /\ a % ALIGN = 0
  BY <1>1 DEF Addr
<1>3. ASSUME NEW h \in heads
      PROVE  /\ h \in Addr /\ size[h] \in Nat /\ size[h] >= HEADER /\ h + size[h] <= HEAP_SIZE
  <2>1. h \in Addr /\ size[h] \in 0..HEAP_SIZE /\ size[h] >= HEADER
    BY DEF HeapInv, HeapTypeOK, Tiled
  <2>2. h + size[h] \in Addr \union {HEAP_SIZE}
    BY DEF HeapInv, HeapTypeOK, Tiled
  <2> QED BY <1>1, <1>2, <2>1, <2>2
<1> QED BY <1>1, <1>2, <1>3

\* A block ends where or before any later block begins, so no two end together.
LEMMA InOrder ==
  ASSUME KmallocConstants, HeapInv, NEW h \in heads, NEW g \in heads
  PROVE  /\ h < g => h + size[h] <= g
         /\ h # g => h + size[h] # g + size[g]
<1>1. /\ h \in Nat /\ g \in Nat /\ size[h] \in Nat \ {0} /\ size[g] \in Nat \ {0}
  BY BlockFacts
<1>2. ~(h < g /\ g < h + size[h]) /\ ~(g < h /\ h < g + size[g])
  BY DEF HeapInv, Tiled
<1> QED BY <1>1, <1>2

\* kmalloc_init makes the heap one free block.
LEMMA HeapInit == KmallocConstants /\ kmalloc_init => HeapInv
<1> SUFFICES ASSUME KmallocConstants, kmalloc_init PROVE HeapInv
  OBVIOUS
<1>1. /\ HEAP_SIZE \in Nat \ {0} /\ HEADER \in Nat \ {0} /\ HEADER <= HEAP_SIZE
      /\ ALIGN \in Nat \ {0}
  BY DEF KmallocConstants
<1>2. 0 \in Addr /\ \A a \in Addr : a \in Nat
  <2>1. 0 % ALIGN = 0
    BY <1>1
  <2> QED BY <1>1, <2>1 DEF Addr
<1>3. /\ heads = {0} /\ size[0] = HEAP_SIZE /\ is_free[0] = TRUE /\ DOMAIN live = {}
  BY <1>2 DEF kmalloc_init
<1>4. HeapTypeOK
  BY <1>1, <1>2, <1>3 DEF kmalloc_init, HeapTypeOK
<1>5. Tiled /\ NoFreeNeighbours
  BY <1>1, <1>3 DEF Tiled, NoFreeNeighbours, FreeNext
<1>6. LiveExact
  BY <1>3 DEF LiveExact
<1> QED BY <1>4, <1>5, <1>6 DEF HeapInv

\* kmalloc takes block b and cuts it after total bytes, or takes all of it.
LEMMA KmallocStep ==
  ASSUME KmallocConstants, HeapInv, NEW n \in Nat \ {0}, NEW b \in heads,
         IsBestFit(b, RoundUp(n) + HEADER), Split(b, RoundUp(n) + HEADER),
         live' = [h \in DOMAIN live \union {b} |-> IF h = b THEN n ELSE live[h]]
  PROVE  HeapInv'
<1> DEFINE total == RoundUp(n) + HEADER
           c == b + total
<1>1. /\ HEAP_SIZE \in Nat /\ HEADER \in Nat \ {0} /\ MIN_ALLOC_SIZE \in Nat
      /\ b \in Addr /\ b \in Nat /\ b < HEAP_SIZE /\ b % ALIGN = 0
      /\ size[b] \in Nat /\ b + size[b] <= HEAP_SIZE /\ size[b] >= HEADER
      /\ total \in Nat /\ total >= n + HEADER
  BY BlockFacts, RoundsUp
<1>2. total % ALIGN = 0
  BY RoundsUp, AlignedSum DEF KmallocConstants
<1>3. is_free[b] /\ size[b] >= total
  BY DEF IsBestFit, Fits
<1>4. /\ HeapTypeOK /\ Tiled /\ LiveExact /\ NoFreeNeighbours
      /\ DOMAIN live' = DOMAIN live \union {b} /\ live'[b] = n
      /\ \A h \in DOMAIN live \ {b} : live'[h] = live[h]
  BY DEF HeapInv
<1>5. Split(b, total)
  OBVIOUS
<1> HIDE DEF total
<1>6. CASE size[b] >= total + HEADER + MIN_ALLOC_SIZE
  <2>1. c \in Nat /\ b < c /\ c < b + size[b] /\ c < HEAP_SIZE
    BY <1>1, <1>6
  <2>2. c \in Addr
    <3>1. c % ALIGN = 0
      BY Zenon, <1>1, <1>2, AlignedSum DEF KmallocConstants
    <3> QED BY <1>1, <2>1, <3>1 DEF Addr
  <2>3. c \notin heads /\ c # b /\ c # HEAP_SIZE
    BY <1>1, <1>4, <2>1 DEF Tiled
  <2>4. /\ size' = [size EXCEPT ![b] = total, ![c] = size[b] - total]
        /\ is_free' = [is_free EXCEPT ![b] = FALSE, ![c] = TRUE]
        /\ heads' = heads \union {c}
    BY <1>5, <1>6 DEF Split
  <2>5. size[b] - total \in 0..HEAP_SIZE /\ total \in 0..HEAP_SIZE /\ size[b] - total >= HEADER
    BY <1>1, <1>6
  <2> HIDE DEF c
  <2>6. /\ size'[b] = total /\ size'[c] = size[b] - total
        /\ \A h \in heads \ {b} : size'[h] = size[h] /\ is_free'[h] = is_free[h]
        /\ is_free'[b] = FALSE /\ is_free'[c] = TRUE
    BY Zenon, <1>1, <1>4, <2>2, <2>3, <2>4 DEF HeapTypeOK
  <2>7. b + total = c /\ c + (size[b] - total) = b + size[b]
    BY <1>1 DEF c
  <2>8. HeapTypeOK'
    BY Zenon, <1>1, <1>4, <2>2, <2>4, <2>5 DEF HeapTypeOK
  <2>a. heads' = heads \union {c}
    BY <2>4
  <2>9. Tiled'
    <3>1. 0 \in heads'
      BY <1>4, <2>4 DEF Tiled
    <3>2. ASSUME NEW h \in heads'
          PROVE  /\ size'[h] >= HEADER /\ h + size'[h] \in heads' \union {HEAP_SIZE}
                 /\ \A g \in heads' : ~(h < g /\ g < h + size'[h])
      <4>1. CASE h = b
        <5>1. \A g \in heads : ~(b < g /\ g < b + size[b]) /\ g \in Nat
          BY <1>4, BlockFacts DEF Tiled
        <5>2. \A g \in heads' : ~(b < g /\ g < c)
          BY <1>1, <2>1, <2>a, <5>1
        <5>3. h + size'[h] = c /\ size'[h] >= HEADER
          BY <1>1, <2>6, <2>7, <4>1
        <5> QED BY <2>a, <4>1, <5>2, <5>3
      <4>2. CASE h = c
        <5>1. \A g \in heads : ~(b < g /\ g < b + size[b]) /\ g \in Nat
          BY <1>4, BlockFacts DEF Tiled
        <5>2. b + size[b] \in heads \union {HEAP_SIZE}
          BY <1>4 DEF Tiled
        <5>3. \A g \in heads' : ~(c < g /\ g < b + size[b])
          BY <1>1, <2>1, <2>a, <5>1
        <5>4. h + size'[h] = b + size[b] /\ size'[h] >= HEADER
          BY <2>5, <2>6, <2>7, <4>2
        <5> QED BY <2>a, <4>2, <5>2, <5>3, <5>4
      <4>3. CASE h \in heads \ {b}
        <5>1. /\ h \in Nat /\ size[h] \in Nat /\ size'[h] = size[h] /\ size[h] >= HEADER
              /\ h + size[h] \in heads \union {HEAP_SIZE}
              /\ \A g \in heads : ~(h < g /\ g < h + size[h])
          BY <1>4, <2>6, <4>3, BlockFacts DEF Tiled
        <5>2. (h < b => h + size[h] <= b) /\ (b < h => b + size[b] <= h)
          BY <4>3, InOrder
        <5>3. ~(h < c /\ c < h + size[h])
          BY <1>1, <2>1, <4>3, <5>1, <5>2
        <5>4. h + size'[h] = h + size[h] /\ size'[h] >= HEADER
          BY <5>1
        <5>5. \A g \in heads' : ~(h < g /\ g < h + size[h])
          BY <2>a, <5>1, <5>3
        <5> QED BY Zenon, <2>a, <5>1, <5>4, <5>5
      <4> QED BY <2>a, <4>1, <4>2, <4>3
    <3> QED BY <3>1, <3>2 DEF Tiled
  <2>10. LiveExact'
    <3>1. c \notin DOMAIN live'
      BY <1>4, <2>3 DEF HeapTypeOK
    <3>2. n <= total - HEADER
      BY <1>1
    <3>3. ASSUME NEW h \in heads \ {b}
          PROVE  /\ ~is_free'[h] <=> h \in DOMAIN live'
                 /\ h \in DOMAIN live' => live'[h] <= size'[h] - HEADER
      BY <1>4, <2>6, <3>3 DEF LiveExact
    <3> QED BY Zenon, <1>4, <2>4, <2>6, <3>1, <3>2, <3>3 DEF LiveExact
  <2>11. NoFreeNeighbours'
    <3> SUFFICES ASSUME NEW h \in heads', NEW g \in heads', is_free'[h], is_free'[g],
                        g = h + size'[h]
                 PROVE  FALSE
      BY DEF NoFreeNeighbours, FreeNext
    <3>1. h # b /\ g # b
      BY <2>6
    <3>2. CASE h = c
      <4>1. g = b + size[b]
        BY <2>6, <2>7, <3>2
      <4>2. g \in heads
        BY <2>1, <2>4, <4>1, <1>1
      <4>3. is_free[g]
        BY <2>6, <3>1, <4>2
      <4> QED BY <1>3, <1>4, <4>1, <4>2, <4>3 DEF NoFreeNeighbours, FreeNext
    <3>3. CASE h \in heads \ {b}
      <4>1. g = h + size[h] /\ is_free[h]
        BY <2>6, <3>3
      <4>2. g \in heads
        BY Zenon, <1>4, <2>3, <2>4, <3>3, <4>1 DEF Tiled
      <4>3. is_free[g]
        BY <2>6, <3>1, <4>2
      <4> QED BY <1>4, <3>3, <4>1, <4>2, <4>3 DEF NoFreeNeighbours, FreeNext
    <3> QED BY <2>4, <3>1, <3>2, <3>3
  <2> QED BY <2>8, <2>9, <2>10, <2>11 DEF HeapInv
<1>7. CASE ~(size[b] >= total + HEADER + MIN_ALLOC_SIZE)
  <2>1. is_free' = [is_free EXCEPT ![b] = FALSE] /\ size' = size /\ heads' = heads
    BY <1>5, <1>7 DEF Split
  <2>2. /\ is_free' \in [Addr -> BOOLEAN] /\ is_free'[b] = FALSE
        /\ \A h \in heads \ {b} : is_free'[h] = is_free[h]
    BY <1>1, <1>4, <2>1 DEF HeapTypeOK
  <2>3. HeapTypeOK'
    BY <1>4, <2>1, <2>2 DEF HeapTypeOK
  <2>4. Tiled'
    BY <1>4, <2>1 DEF Tiled
  <2>5. n <= size[b] - HEADER
    BY <1>1, <1>3
  <2>6. LiveExact'
    BY <1>4, <2>1, <2>2, <2>5 DEF LiveExact
  <2>7. NoFreeNeighbours'
    BY <1>4, <2>1, <2>2 DEF NoFreeNeighbours, FreeNext
  <2> QED BY <2>3, <2>4, <2>6, <2>7 DEF HeapInv
<1> QED BY <1>6, <1>7

\* kfree gives block b back and merges it with its free neighbours.
LEMMA KfreeStep ==
  ASSUME KmallocConstants, HeapInv, NEW b \in heads, kfree(b)
  PROVE  HeapInv'
<1> DEFINE grown == IF FreeNext(b) = {} THEN size[b] ELSE size[b] + size[b + size[b]]
<1>1. HeapTypeOK /\ Tiled /\ LiveExact /\ NoFreeNeighbours
  BY DEF HeapInv
<1>2. /\ HEAP_SIZE \in Nat /\ HEADER \in Nat \ {0}
      /\ b \in Addr /\ b \in Nat /\ size[b] \in Nat /\ size[b] >= HEADER
      /\ b + size[b] <= HEAP_SIZE
  BY BlockFacts
<1>3. /\ b \in DOMAIN live /\ ~is_free[b]
      /\ is_free' = [is_free EXCEPT ![b] = TRUE]
      /\ live' = [h \in DOMAIN live \ {b} |-> live[h]]
  BY Zenon, <1>1 DEF kfree, LiveExact
\* The grown block takes in the free next one, and what follows it is not free.
<1>4. /\ grown \in Nat /\ grown >= size[b] /\ b + grown <= HEAP_SIZE
      /\ b + grown \in heads \union {HEAP_SIZE}
      /\ b + grown \in heads => ~is_free[b + grown]
      /\ \A g \in heads \ FreeNext(b) : ~(b < g /\ g < b + grown)
      /\ \A g \in FreeNext(b) : g \in heads /\ is_free[g] /\ g = b + size[b] /\ g > b
  <2>1. CASE FreeNext(b) = {}
    <3>1. grown = size[b]
      BY <2>1
    <3> QED BY <1>1, <1>2, <2>1, <3>1 DEF Tiled, FreeNext
  <2>2. CASE FreeNext(b) # {}
    <3> DEFINE x == b + size[b]
    <3>1. x \in heads /\ is_free[x] /\ FreeNext(b) = {x} /\ grown = size[b] + size[x]
      BY <2>2 DEF FreeNext
    <3>2. /\ x \in Nat /\ x > b /\ size[x] \in Nat /\ x + size[x] <= HEAP_SIZE
          /\ b + grown = x + size[x]
      BY <1>2, <3>1, BlockFacts
    <3>3. /\ x + size[x] \in heads \union {HEAP_SIZE}
          /\ x + size[x] \in heads => ~is_free[x + size[x]]
      BY <1>1, <3>1 DEF Tiled, NoFreeNeighbours, FreeNext
    <3>4. ASSUME NEW g \in heads, g # x PROVE ~(b < g /\ g < x + size[x])
      <4>1. g \in Nat /\ ~(b < g /\ g < x) /\ ~(x < g /\ g < x + size[x])
        BY Zenon, <1>1, <3>1, BlockFacts DEF Tiled
      <4> QED BY <3>2, <3>4, <4>1
    <3>5. grown \in Nat /\ grown >= size[b]
      BY <1>2, <3>1, <3>2
    <3> HIDE DEF x, grown
    <3>6. \A g \in heads \ FreeNext(b) : ~(b < g /\ g < b + grown)
      BY <3>1, <3>2, <3>4
    <3>7. \A g \in FreeNext(b) : g \in heads /\ is_free[g] /\ g = b + size[b] /\ g > b
      BY <3>1, <3>2 DEF x
    <3> QED BY <3>2, <3>3, <3>5, <3>6, <3>7
  <2> QED BY Zenon, <2>1, <2>2
<1>5. \/ /\ FreePrev(b) = {}
         /\ size' = [size EXCEPT ![b] = grown]
         /\ heads' = heads \ FreeNext(b)
      \/ \E p \in FreePrev(b) :
           /\ size' = [size EXCEPT ![b] = grown, ![p] = size[p] + grown]
           /\ heads' = heads \ (FreeNext(b) \union {b})
  BY DEF kfree
<1> HIDE DEF grown
<1>6. /\ is_free' \in [Addr -> BOOLEAN] /\ is_free'[b] = TRUE
      /\ \A h \in heads \ {b} : is_free'[h] = is_free[h]
  BY <1>1, <1>2, <1>3 DEF HeapTypeOK
<1>7. /\ DOMAIN live' = DOMAIN live \ {b} /\ \A h \in DOMAIN live' : live'[h] = live[h]
      /\ \A h \in FreeNext(b) : h \notin DOMAIN live
  BY <1>1, <1>3, <1>4 DEF LiveExact
<1>8. b + grown \notin FreeNext(b) /\ b + grown # b
  BY <1>2, <1>4
\* No other block ends where the absorbed one begins.
<1>9. ASSUME NEW h \in heads, h # b PROVE h + size[h] \notin FreeNext(b)
  BY <1>4, <1>9, InOrder
<1>10. CASE FreePrev(b) = {} /\ size' = [size EXCEPT ![b] = grown] /\ heads' = heads \ FreeNext(b)
  <2>1. /\ size' \in [Addr -> 0..HEAP_SIZE] /\ size'[b] = grown
        /\ \A h \in heads \ {b} : size'[h] = size[h]
    <3>1. grown \in 0..HEAP_SIZE
      BY <1>2, <1>4
    <3> QED BY <1>1, <1>2, <1>10, <3>1 DEF HeapTypeOK
  <2>2. heads' \subseteq heads /\ b \in heads' /\ heads' = heads \ FreeNext(b)
    BY <1>2, <1>4, <1>10
  <2>3. HeapTypeOK'
    BY <1>1, <1>6, <1>7, <2>1, <2>2 DEF HeapTypeOK
  <2>4. Tiled'
    <3>1. 0 \in heads'
      BY <1>1, <1>2, <1>4, <2>2 DEF Tiled
    <3>2. ASSUME NEW h \in heads'
          PROVE  /\ size'[h] >= HEADER /\ h + size'[h] \in heads' \union {HEAP_SIZE}
                 /\ \A g \in heads' : ~(h < g /\ g < h + size'[h])
      <4>1. CASE h = b
        <5>1. grown >= HEADER
          BY <1>2, <1>4
        <5> QED BY <1>4, <1>8, <2>1, <2>2, <4>1, <5>1
      <4>2. CASE h # b
        <5>1. /\ size'[h] = size[h] /\ size[h] >= HEADER
              /\ h + size[h] \in heads \union {HEAP_SIZE}
              /\ \A g \in heads : ~(h < g /\ g < h + size[h])
          BY <1>1, <2>1, <2>2, <4>2 DEF Tiled
        <5>2. h + size[h] \in heads' \union {HEAP_SIZE}
          BY <1>9, <2>2, <4>2, <5>1
        <5> QED BY <2>2, <5>1, <5>2
      <4> QED BY <4>1, <4>2
    <3> QED BY <3>1, <3>2 DEF Tiled
  <2>5. LiveExact'
    <3>1. ASSUME NEW h \in heads'
          PROVE  /\ ~is_free'[h] <=> h \in DOMAIN live'
                 /\ h \in DOMAIN live' => live'[h] <= size'[h] - HEADER
      BY <1>1, <1>6, <1>7, <2>1, <2>2 DEF LiveExact
    <3> QED BY Zenon, <3>1 DEF LiveExact
  <2>6. NoFreeNeighbours'
    <3> SUFFICES ASSUME NEW h \in heads', NEW g \in heads', is_free'[h], is_free'[g],
                        g = h + size'[h]
                 PROVE  FALSE
      BY DEF NoFreeNeighbours, FreeNext
    <3>1. CASE h = b
      BY Zenon, <1>4, <1>6, <1>8, <2>1, <2>2, <3>1
    <3>2. CASE h # b
      <4>1. h \in heads /\ g \in heads /\ is_free[h] /\ g = h + size[h]
        BY <1>6, <2>1, <2>2, <3>2
      <4>2. g # b
        BY <1>10, <4>1 DEF FreePrev
      <4> QED BY <1>1, <1>6, <4>1, <4>2 DEF NoFreeNeighbours, FreeNext
    <3> QED BY <3>1, <3>2
  <2> QED BY <2>3, <2>4, <2>5, <2>6 DEF HeapInv
<1>11. ASSUME NEW p \in FreePrev(b),
              size' = [size EXCEPT ![b] = grown, ![p] = size[p] + grown],
              heads' = heads \ (FreeNext(b) \union {b})
       PROVE  HeapInv'
  <2>1. /\ p \in heads /\ is_free[p] /\ p + size[p] = b /\ p \in Nat /\ p \in Addr
        /\ size[p] \in Nat /\ size[p] >= HEADER
    BY <1>11, BlockFacts DEF FreePrev
  <2>2. /\ p # b /\ p \notin FreeNext(b) /\ b # 0
        /\ p + (size[p] + grown) = b + grown /\ size[p] + grown >= HEADER
        /\ size[p] + grown \in 0..HEAP_SIZE /\ grown \in 0..HEAP_SIZE
    BY <1>2, <1>4, <2>1
  <2>3. /\ size' \in [Addr -> 0..HEAP_SIZE] /\ size'[p] = size[p] + grown
        /\ \A h \in heads \ {b, p} : size'[h] = size[h]
    BY Zenon, <1>1, <1>2, <1>11, <2>1, <2>2 DEF HeapTypeOK
  <2>4. heads' \subseteq heads /\ p \in heads' /\ b \notin heads' /\ heads' = heads \ (FreeNext(b) \union {b})
    BY Zenon, <1>11, <2>1, <2>2
  <2>5. HeapTypeOK'
    BY <1>1, <1>6, <1>7, <2>3, <2>4 DEF HeapTypeOK
  <2>6. Tiled'
    <3>1. 0 \in heads'
      BY <1>1, <1>2, <1>4, <2>2, <2>4 DEF Tiled
    <3>2. ASSUME NEW h \in heads'
          PROVE  /\ size'[h] >= HEADER /\ h + size'[h] \in heads' \union {HEAP_SIZE}
                 /\ \A g \in heads' : ~(h < g /\ g < h + size'[h])
      <4>1. CASE h = p
        <5>1. h + size'[h] = b + grown /\ size'[h] >= HEADER
          BY <2>2, <2>3, <4>1
        <5>2. b + grown \in heads' \union {HEAP_SIZE}
          BY <1>4, <1>8, <2>4
        <5>3. ASSUME NEW g \in heads' PROVE ~(p < g /\ g < b + grown)
          <6>1. /\ g \in Nat /\ g # b /\ ~(p < g /\ g < b) /\ ~(b < g /\ g < b + grown)
            BY Zenon, <1>1, <1>4, <2>1, <2>4, <5>3, BlockFacts DEF Tiled
          <6> QED BY <1>2, <2>1, <6>1
        <5> QED BY <4>1, <5>1, <5>2, <5>3
      <4>2. CASE h # p
        <5>1. /\ size'[h] = size[h] /\ size[h] >= HEADER
              /\ h + size[h] \in heads \union {HEAP_SIZE}
              /\ \A g \in heads : ~(h < g /\ g < h + size[h])
          BY <1>1, <2>3, <2>4, <4>2 DEF Tiled
        <5>2. h + size[h] # b
          BY <2>1, <2>4, <4>2, InOrder
        <5>3. h + size[h] \in heads' \union {HEAP_SIZE}
          BY <1>9, <2>4, <5>1, <5>2
        <5> QED BY <2>4, <5>1, <5>3
      <4> QED BY <4>1, <4>2
    <3> QED BY <3>1, <3>2 DEF Tiled
  <2>7. LiveExact'
    <3>1. ASSUME NEW h \in heads'
          PROVE  /\ ~is_free'[h] <=> h \in DOMAIN live'
                 /\ h \in DOMAIN live' => live'[h] <= size'[h] - HEADER
      <4>1. /\ h \in heads /\ h # b /\ is_free'[h] = is_free[h]
            /\ ~is_free[h] <=> h \in DOMAIN live
            /\ h \in DOMAIN live => h # p /\ live[h] <= size[h] - HEADER
        BY <1>1, <1>6, <2>1, <2>4, <3>1 DEF LiveExact
      <4> QED BY <1>7, <2>3, <4>1
    <3> QED BY <3>1 DEF LiveExact
  <2>8. NoFreeNeighbours'
    <3> SUFFICES ASSUME NEW h \in heads', NEW g \in heads', is_free'[h], is_free'[g],
                        g = h + size'[h]
                 PROVE  FALSE
      BY DEF NoFreeNeighbours, FreeNext
    <3>1. h \in heads /\ g \in heads /\ h # b /\ g # b /\ is_free[h] /\ is_free[g]
      BY <1>6, <2>4
    <3>2. CASE h = p
      BY Zenon, <1>4, <2>2, <2>3, <3>1, <3>2
    <3>3. CASE h # p
      BY <1>1, <2>3, <3>1, <3>3 DEF NoFreeNeighbours, FreeNext
    <3> QED BY <3>2, <3>3
  <2> QED BY <2>5, <2>6, <2>7, <2>8 DEF HeapInv
<1> QED BY <1>5, <1>10, <1>11

\* The heap is sound after every sequence of calls.  A heap that is all free is one
\* block because the block at HEAP_START has no free neighbour.
THEOREM HeapCorrect == ASSUME KmallocConstants PROVE HeapSpec => []HeapSound
<1>1. HeapInv /\ [HeapNext]_heap => HeapInv'
  <2> SUFFICES ASSUME HeapInv, [HeapNext]_heap PROVE HeapInv'
    OBVIOUS
  <2>1. ASSUME NEW n \in Requests, kmalloc(n) PROVE HeapInv'
    <3>1. CASE UNCHANGED heap
      BY <3>1 DEF heap, HeapInv, HeapTypeOK, Tiled, LiveExact, NoFreeNeighbours, FreeNext
    <3>2. CASE ~UNCHANGED heap
      <4>1. n \in Nat \ {0}
        BY <2>1, <3>2 DEF kmalloc, KmallocConstants
      <4> QED BY Zenon, <2>1, <3>2, <4>1, KmallocStep DEF kmalloc
    <3> QED BY <3>1, <3>2
  <2>2. CASE UNCHANGED heap
    BY <2>2 DEF heap, HeapInv, HeapTypeOK, Tiled, LiveExact, NoFreeNeighbours, FreeNext
  <2> QED BY <2>1, <2>2, KfreeStep DEF HeapNext
<1>2. HeapInv => HeapSound
  <2> SUFFICES ASSUME HeapInv, DOMAIN live = {} PROVE heads = {0} /\ size[0] = HEAP_SIZE
    BY DEF HeapInv, HeapSound, Coalesced, NoFreeNeighbours
  <2>1. 0 \in heads /\ \A h \in heads : is_free[h]
    BY DEF HeapInv, Tiled, LiveExact
  <2>2. 0 + size[0] = HEAP_SIZE
    BY <2>1 DEF HeapInv, Tiled, NoFreeNeighbours, FreeNext
  <2>3. size[0] = HEAP_SIZE
    BY <2>1, <2>2, BlockFacts
  <2>4. ASSUME NEW h \in heads PROVE h = 0
    <3>1. h \in Nat /\ h < HEAP_SIZE /\ ~(0 < h /\ h < 0 + size[0])
      BY <2>1, BlockFacts DEF HeapInv, Tiled
    <3> QED BY <2>2, <3>1
  <2> QED BY <2>1, <2>3, <2>4
<1> QED BY <1>1, <1>2, HeapInit, PTL DEF HeapSpec
===============================================================================
