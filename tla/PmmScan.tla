------------------------------- MODULE PmmScan -------------------------------
(***************************************************************************)
(* The two searches of kernel/mem/pmm.c as the code runs them: a scan by   *)
(* bitmap words for one frame, a scan with a run counter for several.  Pmm *)
(* says what they find; the invariants below say the loops find it.        *)
(***************************************************************************)
EXTENDS Pmm, FiniteSetsExt

CONSTANT WORD_BITS      \* bits of a bitmap word (32)

WholeWords == WORD_BITS \in Nat \ {0} /\ TOTAL_FRAMES % WORD_BITS = 0

bitmap_size == (TOTAL_FRAMES + WORD_BITS - 1) \div WORD_BITS

\* The clear bits of word i.
ClearBits(i) == {j \in 0 .. WORD_BITS - 1 : i * WORD_BITS + j \notin bitmap}

pmm_first_free_frame ==
  LET words == {i \in 0 .. bitmap_size - 1 : ClearBits(i) # {}} IN
  IF words = {}
  THEN TOTAL_FRAMES
  ELSE Min(words) * WORD_BITS + Min(ClearBits(Min(words)))

\* Mutant of ScanState: a used frame does not reset the run counter.
KeepsCounting(n) ==
  LET scan[k \in 0 .. TOTAL_FRAMES] ==
        IF k = 0 THEN [start |-> 0, consecutive |-> 0, found |-> TOTAL_FRAMES]
        ELSE LET s == scan[k - 1] IN
             IF s.found # TOTAL_FRAMES \/ k - 1 \in bitmap THEN s
             ELSE LET start == IF s.consecutive = 0 THEN k - 1 ELSE s.start
                      run   == s.consecutive + 1
                  IN [start |-> start, consecutive |-> run,
                      found |-> IF run = n THEN start ELSE TOTAL_FRAMES]
  IN scan[TOTAL_FRAMES]

\* alloc_pages' locals after the loop body has run for frames 0..k-1; "found"
\* holds the start once the run is long enough, which is where the loop stops.
ScanState(n) ==
  LET scan[k \in 0 .. TOTAL_FRAMES] ==
        IF k = 0 THEN [start |-> 0, consecutive |-> 0, found |-> TOTAL_FRAMES]
        ELSE LET s == scan[k - 1] IN
             IF s.found # TOTAL_FRAMES THEN s
             ELSE IF k - 1 \in bitmap THEN [s EXCEPT !.consecutive = 0]
             ELSE LET start == IF s.consecutive = 0 THEN k - 1 ELSE s.start
                      run   == s.consecutive + 1
                  IN [start |-> start, consecutive |-> run,
                      found |-> IF run = n THEN start ELSE TOTAL_FRAMES]
  IN scan[TOTAL_FRAMES]
------------------------------------------------------------------------------
\* pmm_first_free_frame's word-by-word search returns the lowest free frame of
\* the whole bitmap, and TOTAL_FRAMES exactly when every bit is set.
FirstFreeCorrect ==
  IF pmm_first_free_frame = TOTAL_FRAMES
  THEN bitmap = Frames
  ELSE IsFirstFree(pmm_first_free_frame)

\* alloc_pages' run counter finds the lowest window of n free frames, and
\* gives up exactly when there is none: a run that ends at the last frame, or
\* restarts after a used one, is neither missed nor overrun.
WindowScanCorrect ==
  \A n \in 2..MAX_COUNT :
    LET s == ScanState(n).found IN
    IF s = TOTAL_FRAMES
    THEN \A r \in Frames : ~IsWindow(r, n)
    ELSE IsWindow(s, n) /\ \A r \in Frames : IsWindow(r, n) => s <= r
===============================================================================
