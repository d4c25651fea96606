------------------------------ MODULE MCSimpleFS ------------------------------
(***************************************************************************)
(* A directory, a file below it and a file beside it; two directory        *)
(* blocks of one entry; contents of none, one and two blocks, the last     *)
(* one partly filled.                                                      *)
(***************************************************************************)
EXTENDS SimpleFS

MCNames == {"d", "d/f", "g"}
MCChildren == [n \in MCNames |-> IF n = "d" THEN {"d/f"} ELSE {}]
MCData == {<<>>, <<1>>, <<2, 3, 4>>}

\* At every moment, so after every crash as well, what SimpleFS finds on the
\* device is well formed: no two entries have the same name, no two files share a
\* data block, and every block of a file is on the device.
DiskSound == TypeOK /\ DirectorySound

\* Data goes only to blocks that no entry refers to; and between calls, unless
\* something has failed, the count of free blocks is right in memory and on the
\* medium, and fs_alloc_blocks finds a run of free blocks whenever there is one.
SpaceExact == FreshBlocksUnused /\ FreeCountExact /\ AllocFindsGap
===============================================================================
