------------------------------- MODULE PmmRace -------------------------------
(***************************************************************************)
(* pmm_clear_frame instruction by instruction.  task_reap frees frames     *)
(* with interrupts on, because sched_remove_task has ended with sti; the   *)
(* kernel is built without optimisation, so each of the two updates of     *)
(* pmm_clear_frame loads, computes and stores.  An exec in the keyboard    *)
(* interrupt allocates, and frees again if it fails, in between.           *)
(***************************************************************************)
EXTENDS Pmm

CONSTANT WORD_BITS      \* bits of a bitmap word (32)

VARIABLES
  pc,           \* how far pmm_clear_frame has got
  clearing,     \* the frame it clears
  word, count   \* what it has loaded

race == <<pc, clearing, word, count>>

\* The frames whose bits share a word with that of f.
Word(f) == {g \in Frames : g \div WORD_BITS = f \div WORD_BITS}

RaceInit ==
  /\ Init
  /\ pc = "idle" /\ clearing = 0 /\ word = {} /\ count = 0

\* pmm.bitmap[idx] &= ~(1 << off)
load_word(f) ==
  /\ pc = "idle" /\ f \in owned
  /\ pc' = "word" /\ clearing' = f /\ word' = Word(f) \cap bitmap
  /\ UNCHANGED <<vars, count>>

store_word ==
  /\ pc = "word"
  /\ bitmap' = (bitmap \ Word(clearing)) \union (word \ {clearing})
  /\ owned' = owned \ {clearing}
  /\ pc' = "cleared"
  /\ UNCHANGED <<used_frames, clearing, word, count>>

\* pmm.used_frames--
load_count ==
  /\ pc = "cleared"
  /\ pc' = "count" /\ count' = used_frames
  /\ UNCHANGED <<vars, clearing, word>>

store_count ==
  /\ pc = "count"
  /\ used_frames' = count - 1
  /\ pc' = "idle" /\ clearing' = 0 /\ word' = {} /\ count' = 0
  /\ UNCHANGED <<bitmap, owned>>

\* The keyboard interrupt: exec allocates, and frees if it cannot go on.
interrupt ==
  /\ \/ alloc_page
     \/ \E f \in owned \ {clearing} : free_page(f * PAGE_SIZE)
  /\ UNCHANGED race

RaceNext ==
  \/ \E f \in Frames : load_word(f)
  \/ store_word \/ load_count \/ store_count
  \/ interrupt

RaceSpec == RaceInit /\ [][RaceNext]_<<vars, race>>
------------------------------------------------------------------------------
\* "Each bit in the bitmap represents the allocation status of one page frame"
\* (pmm.c): the bit of a frame that a caller holds is set, so that no one else
\* is given the frame.
HeldFramesMarked == owned \subseteq bitmap

\* "Number of currently allocated frames" (used_frames in pmm.c), while no
\* update is under way.
CountExactAtRest == pc = "idle" => CountExact
===============================================================================
