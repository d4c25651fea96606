---------------------------- MODULE FrameAllocator ----------------------------
(***************************************************************************)
(* What the physical memory manager promises its callers: it owns a pool   *)
(* of page frames, hands out non-empty runs of consecutive frames that     *)
(* nobody holds, and takes back single frames that somebody holds.         *)
(***************************************************************************)
EXTENDS Integers

CONSTANT Pool       \* the frames that may ever be handed out

VARIABLE free       \* the frames nobody holds

Init == free = Pool

Grant ==
  \E a, b \in free : a <= b /\ a..b \subseteq free /\ free' = free \ (a..b)

Release == \E f \in Pool \ free : free' = free \union {f}

Next == Grant \/ Release

Spec == Init /\ [][Next]_free
===============================================================================
