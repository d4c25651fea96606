--------------------------------- MODULE Elf ---------------------------------
(***************************************************************************)
(* load_segments (kernel/exec/elf.c): the PT_LOAD segments of a program    *)
(* become pages of its address space.  Addresses are bytes; a frame from   *)
(* the allocator still holds what its last owner left in it (GARBAGE).     *)
(* AddrSpace.tla follows the frames; here it is what they contain.         *)
(***************************************************************************)
EXTENDS Integers, Sequences

CONSTANTS
  PAGE_SIZE,       \* 4096
  KERNEL_END,      \* KERNEL_PDE_COUNT * 4 MB
  FILE_SIZE,       \* bytes of the file; byte k of it is the number k
  Programs         \* sequences of program headers whose sums fit a word

Headers ==
  [p_type : STRING, p_vaddr : Nat, p_memsz : Nat, p_filesz : Nat, p_offset : Nat,
   writable : BOOLEAN]

ASSUME ElfConstants ==
  /\ PAGE_SIZE \in Nat \ {0} /\ FILE_SIZE \in Nat
  /\ KERNEL_END \in Nat \ {0} /\ KERNEL_END % PAGE_SIZE = 0
  /\ \A prog \in Programs : prog \in Seq(Headers)

ZERO == -1
GARBAGE == -2

VARIABLES
  phdrs,         \* the program
  i, vpage,      \* the loops of load_segments: header, next page (0: not begun)
  pages,         \* mapped pages: virtual page to bytes and writability
  result         \* 1 while loading, then 0 or -1

vars == <<phdrs, i, vpage, pages, result>>

NoPages == [p \in {} |-> 0]

Init ==
  /\ phdrs \in Programs
  /\ i = 1 /\ vpage = 0
  /\ pages = NoPages
  /\ result = 1
------------------------------------------------------------------------------
PageOf(a) == (a \div PAGE_SIZE) * PAGE_SIZE

seg_start(ph) == PageOf(ph.p_vaddr)
seg_end(ph) == PageOf(ph.p_vaddr + ph.p_memsz + PAGE_SIZE - 1)

Skipped(ph) == ph.p_type # "PT_LOAD" \/ ph.p_memsz = 0

Rejected(ph) ==
  \/ ph.p_filesz > ph.p_memsz
  \/ ph.p_offset + ph.p_filesz > FILE_SIZE
  \/ ph.p_vaddr < KERNEL_END

\* Mutant of Frame: the copy starts at the segment's offset on every page.
RestartsFile(ph, page) ==
  LET copy_start == IF ph.p_vaddr > page THEN ph.p_vaddr ELSE page
      copy_end   == IF ph.p_vaddr + ph.p_filesz < page + PAGE_SIZE
                      THEN ph.p_vaddr + ph.p_filesz ELSE page + PAGE_SIZE
  IN [k \in 0 .. PAGE_SIZE - 1 |->
        IF page + k \in copy_start .. copy_end - 1 THEN ph.p_offset + page + k - copy_start
        ELSE ZERO]

\* The frame for one page: zeroed, then the overlap of the page with the part
\* of the segment that is in the file.
Frame(ph, page) ==
  LET copy_start == IF ph.p_vaddr > page THEN ph.p_vaddr ELSE page
      copy_end   == IF ph.p_vaddr + ph.p_filesz < page + PAGE_SIZE
                      THEN ph.p_vaddr + ph.p_filesz ELSE page + PAGE_SIZE
      dst_offset  == copy_start - page
      file_offset == ph.p_offset + (copy_start - ph.p_vaddr)
  IN [k \in 0 .. PAGE_SIZE - 1 |->
        IF k \in dst_offset .. dst_offset + (copy_end - copy_start) - 1
          THEN file_offset + (k - dst_offset) ELSE ZERO]

\* The next header: passed over, refused, or begun.
next_header ==
  /\ result = 1 /\ i <= Len(phdrs) /\ vpage = 0
  /\ LET ph == phdrs[i] IN
     \/ Skipped(ph) /\ i' = i + 1 /\ UNCHANGED <<vpage, result>>
     \/ ~Skipped(ph) /\ Rejected(ph) /\ result' = -1 /\ UNCHANGED <<i, vpage>>
     \/ ~Skipped(ph) /\ ~Rejected(ph) /\ vpage' = seg_start(ph) /\ UNCHANGED <<i, result>>
  /\ UNCHANGED <<phdrs, pages>>

\* One page: alloc_page may fail; paging_map_page_in replaces what was mapped.
load_page ==
  /\ result = 1 /\ vpage # 0 /\ vpage < seg_end(phdrs[i])
  /\ \/ /\ pages' = [p \in DOMAIN pages \union {vpage} |->
                       IF p = vpage
                         THEN [bytes |-> Frame(phdrs[i], vpage), writable |-> phdrs[i].writable]
                         ELSE pages[p]]
        /\ vpage' = vpage + PAGE_SIZE
        /\ UNCHANGED result
     \/ result' = -1 /\ UNCHANGED <<pages, vpage>>
  /\ UNCHANGED <<phdrs, i>>

end_segment ==
  /\ result = 1 /\ vpage # 0 /\ vpage >= seg_end(phdrs[i])
  /\ i' = i + 1 /\ vpage' = 0
  /\ UNCHANGED <<phdrs, pages, result>>

end_load ==
  /\ result = 1 /\ i > Len(phdrs)
  /\ result' = 0
  /\ UNCHANGED <<phdrs, i, vpage, pages>>

Next == next_header \/ load_page \/ end_segment \/ end_load

Spec == Init /\ [][Next]_vars
------------------------------------------------------------------------------
\* Pages are aligned, above the kernel and filled with file bytes or zeros:
\* nothing of a frame's last owner shows through.
TypeOK ==
  /\ i \in 1 .. Len(phdrs) + 1 /\ result \in {-1, 0, 1}
  /\ \A p \in DOMAIN pages :
       /\ p % PAGE_SIZE = 0 /\ p >= KERNEL_END
       /\ \A k \in 0 .. PAGE_SIZE - 1 : pages[p].bytes[k] \in {ZERO} \union 0 .. FILE_SIZE - 1

Loaded(k) == phdrs[k].p_type = "PT_LOAD" /\ phdrs[k].p_memsz # 0

Span(ph) == {p \in PageOf(ph.p_vaddr) .. ph.p_vaddr + ph.p_memsz - 1 : p % PAGE_SIZE = 0}

SharesPages ==
  \E k, l \in DOMAIN phdrs :
    k # l /\ Loaded(k) /\ Loaded(l) /\ Span(phdrs[k]) \cap Span(phdrs[l]) # {}

\* The byte of segment ph at address a, as the ELF format defines it.
Expected(ph, a) == IF a - ph.p_vaddr < ph.p_filesz THEN ph.p_offset + (a - ph.p_vaddr) ELSE ZERO

HoldsSegment(ph) ==
  \A a \in ph.p_vaddr .. ph.p_vaddr + ph.p_memsz - 1 :
    /\ PageOf(a) \in DOMAIN pages
    /\ pages[PageOf(a)].bytes[a - PageOf(a)] = Expected(ph, a)

\* When no two segments share a page, a program that loads has every byte of
\* every segment where its header says, whatever the alignment of its start,
\* of its file part and of its end.
ImageCorrect ==
  result = 0 /\ ~SharesPages => \A k \in DOMAIN phdrs : Loaded(k) => HoldsSegment(phdrs[k])

\* ... and no other page is mapped, and a page is writable only if its segment is.
NothingElseMapped ==
  result = 0 /\ ~SharesPages =>
    /\ DOMAIN pages = UNION {Span(phdrs[k]) : k \in {l \in DOMAIN phdrs : Loaded(l)}}
    /\ \A k \in DOMAIN phdrs : Loaded(k) =>
         \A p \in Span(phdrs[k]) : pages[p].writable = phdrs[k].writable

\* load_segments maps the pages of the loadable segments and no others, and a page
\* that one segment has to itself holds its file bytes followed by zeros.
ImageExact == TypeOK /\ ImageCorrect /\ NothingElseMapped

\* "Copies p_filesz bytes from the file buffer into the pages" (load_segments),
\* for each PT_LOAD segment of a program that loads.
EverySegmentCopied ==
  result = 0 => \A k \in DOMAIN phdrs : Loaded(k) => HoldsSegment(phdrs[k])
===============================================================================
