----------------------------- MODULE MCAddrSpaces -----------------------------
(***************************************************************************)
(* Address spaces seen from two sides: what the page tables say (Paging)   *)
(* and who holds which frame (AddrSpace).  The two views share no state; a *)
(* behaviour moves the one that "part" names.  The tables are those of a   *)
(* machine with twelve frames, either with five of them to give out and a  *)
(* kernel that maps pages for itself too, or with eight, enough for two    *)
(* tasks that each have a page above the kernel's range.                   *)
(*                                                                         *)
(* Programs: of one page, of two pages in one table, of two tables, of two *)
(* segments that share a page, one whose second segment is bad, and one    *)
(* without a loadable page.                                                *)
(***************************************************************************)
EXTENDS Paging, AddrSpace

ASSUME PagingConstants

VARIABLE part

FirstPage     == {<<0, 0>>}
TwoPagesAbove == {<<2, 0>>, <<2, 1>>}
LastThree     == {{}, 9..11}

NoPages  == << >>
OnePage  == << <<1, 0>> >>
TwoPages == << <<1, 0>>, <<1, 1>> >>
TwoPdes  == << <<1, 0>>, <<2, 0>> >>
Overlap  == << <<1, 0>>, <<1, 0>> >>
HalfBad  == << <<1, 0>>, BAD >>

AllPrograms   == {OnePage, TwoPages, TwoPdes, Overlap, HalfBad}
CleanPrograms == {NoPages, HalfBad}

MCInit ==
  /\ part \in {"frames", "kernel", "users"}
  /\ Init /\ (part = "kernel" <=> 11 \in used)
  /\ FramesInit

MCNext ==
  \/ part = "frames" /\ FramesNext /\ UNCHANGED <<part, vars>>
  \/ part = "kernel" /\ Next /\ UNCHANGED <<part, holders>>
  \/ /\ part = "users" /\ Next /\ UNCHANGED <<part, holders, kmap>>
     /\ \A d \in DOMAIN granted' : <<2, 1>> \notin DOMAIN granted'[d]

MCSpec == MCInit /\ [][MCNext]_<<part, vars, holders>>
------------------------------------------------------------------------------
\* Whatever allocation of a task creation fails, and whatever comes between the
\* reaper's steps, every frame that alloc_page handed out has exactly one holder,
\* or is counted as lost by paging_map_page_in; and a table is held until its entries
\* have been given back, so that paging_free_directory never reads a frame it freed.
FramesAccounted ==
  FramesTypeOK /\ NoSharing /\ AllAccounted /\ TablesOutliveEntries
===============================================================================
