------------------------------ MODULE ElfProofs -------------------------------
(***************************************************************************)
(* load_segments, for any programs and any sizes of pages and of the file. *)
(*                                                                         *)
(* The pages mapped are those of the segments up to the page that is next, *)
(* and each is the page of one of the segments.  When no two segments      *)
(* share a page, that one is the page's own.                               *)
(***************************************************************************)
EXTENDS Elf, TLAPS

\* A product does not decrease.
LEMMA TimesMonotone ==
  ASSUME NEW p \in Nat, NEW a \in Int, NEW b \in Int, a <= b
  PROVE  p * a \in Int /\ p * b \in Int /\ p * a <= p * b
<1>1. p * (b - a) >= 0 /\ p * (b - a) = p * b - p * a
  OBVIOUS
<1> QED BY <1>1

\* Division with remainder, and that there is only one.
LEMMA DivMod ==
  ASSUME NEW m \in Nat, m >= 1, NEW x \in Int
  PROVE  /\ x \div m \in Int /\ x % m \in 0 .. m - 1 /\ x = m * (x \div m) + (x % m)
         /\ \A q \in Int, r \in 0 .. m - 1 : x = m * q + r => x \div m = q /\ x % m = r
<1> DEFINE d == x \div m
           y == x % m
<1>1. d \in Int /\ y \in 0 .. m - 1 /\ x = m * d + y
  OBVIOUS
<1> HIDE DEF d, y
<1>2. ASSUME NEW q \in Int, NEW r \in 0 .. m - 1, x = m * q + r
      PROVE  d = q /\ y = r
  <2>1. m * (d - q) = r - y /\ m * (q - d) = y - r
    BY <1>1, <1>2
  <2>2. ~(d - q >= 1)
    <3>1. SUFFICES ASSUME d - q >= 1 PROVE FALSE
      OBVIOUS
    <3>2. m * 1 <= m * (d - q) /\ m * 1 = m
      BY <1>1, <3>1, TimesMonotone
    <3> QED BY <1>1, <2>1, <3>2
  <2>3. ~(q - d >= 1)
    <3>1. SUFFICES ASSUME q - d >= 1 PROVE FALSE
      OBVIOUS
    <3>2. m * 1 <= m * (q - d) /\ m * 1 = m
      BY <1>1, <3>1, TimesMonotone
    <3> QED BY <1>1, <2>1, <3>2
  <2>4. d = q
    BY <1>1, <2>2, <2>3
  <2>5. m * q \in Int
    OBVIOUS
  <2> QED BY <1>1, <1>2, <2>4, <2>5
<1> QED BY <1>1, <1>2 DEF d, y

\* Header k wants pages of its own and has been accepted.
Accepted(k) == Loaded(k) /\ ~Rejected(phdrs[k])

\* The pages of header k that are mapped so far.
Done(k) ==
  IF k < i THEN Span(phdrs[k])
  ELSE IF k = i /\ vpage # 0 THEN {p \in Span(phdrs[k]) : p < vpage} ELSE {}

PageFor(k, p) == [bytes |-> Frame(phdrs[k], p), writable |-> phdrs[k].writable]

\* The pages mapped are those of the headers up to the page that is next, and each is
\* the page of one of them.
ImageInv ==
  /\ phdrs \in Programs /\ i \in 1 .. Len(phdrs) + 1 /\ result \in {-1, 0, 1} /\ vpage \in Nat
  /\ vpage # 0 => /\ i <= Len(phdrs) /\ Accepted(i) /\ vpage % PAGE_SIZE = 0
                  /\ seg_start(phdrs[i]) <= vpage /\ vpage <= seg_end(phdrs[i])
  /\ result = 0 => i > Len(phdrs)
  /\ \A k \in DOMAIN phdrs : k < i /\ Loaded(k) => Accepted(k)
  /\ \A k \in DOMAIN phdrs : Loaded(k) => Done(k) \subseteq DOMAIN pages
  /\ \A p \in DOMAIN pages :
       \E k \in DOMAIN phdrs : Accepted(k) /\ p \in Done(k) /\ pages[p] = PageFor(k, p)

\* What a header holds.
LEMMA HeaderFacts ==
  ASSUME NEW prog \in Programs
  PROVE  /\ Len(prog) \in Nat /\ DOMAIN prog = 1 .. Len(prog)
         /\ \A k \in DOMAIN prog : prog[k] \in Headers
BY ElfConstants

\* The page of an address, and that it is the only aligned one that holds it.
LEMMA PageFacts ==
  ASSUME NEW a \in Nat
  PROVE  /\ PageOf(a) \in Nat /\ PageOf(a) <= a /\ a < PageOf(a) + PAGE_SIZE
         /\ PageOf(a) % PAGE_SIZE = 0
<1>1. PAGE_SIZE \in Nat /\ PAGE_SIZE >= 1
  BY ElfConstants
<1> DEFINE q == a \div PAGE_SIZE
           r == a % PAGE_SIZE
<1>2. q \in Int /\ r \in 0 .. PAGE_SIZE - 1 /\ a = PAGE_SIZE * q + r
  BY <1>1, DivMod
<1> HIDE DEF q, r
<1> DEFINE b == q * PAGE_SIZE
<1>3. b = PAGE_SIZE * q /\ b \in Int
  BY <1>1, <1>2
<1>4. q >= 0
  <2>1. SUFFICES ASSUME q <= -1 PROVE FALSE
    BY <1>2
  <2>2. PAGE_SIZE * q <= PAGE_SIZE * (-1) /\ PAGE_SIZE * (-1) = -PAGE_SIZE
    BY <1>1, <1>2, <2>1, TimesMonotone
  <2> QED BY <1>1, <1>2, <1>3, <2>2
<1>5. b >= 0
  <2>1. PAGE_SIZE * 0 <= PAGE_SIZE * q /\ PAGE_SIZE * 0 = 0
    BY <1>1, <1>2, <1>4, TimesMonotone
  <2> QED BY <1>3, <2>1
<1>6. b % PAGE_SIZE = 0
  <2>1. 0 \in 0 .. PAGE_SIZE - 1 /\ b = PAGE_SIZE * q + 0
    BY <1>1, <1>3
  <2> QED BY <1>1, <1>2, <1>3, <2>1, DivMod
<1>7. PageOf(a) = b
  BY DEF PageOf, q
<1> HIDE DEF b
<1> QED BY <1>1, <1>2, <1>3, <1>5, <1>6, <1>7

\* Two aligned addresses are a page apart.
LEMMA PagesApart ==
  ASSUME NEW p \in Nat, NEW q \in Nat, p % PAGE_SIZE = 0, q % PAGE_SIZE = 0, p < q
  PROVE  p + PAGE_SIZE <= q
<1>1. PAGE_SIZE \in Nat /\ PAGE_SIZE >= 1
  BY ElfConstants
<1> DEFINE m == p \div PAGE_SIZE
           n == q \div PAGE_SIZE
<1>2. m \in Int /\ n \in Int /\ p = PAGE_SIZE * m + 0 /\ q = PAGE_SIZE * n + 0
  BY <1>1, DivMod
<1> HIDE DEF m, n
<1>3. PAGE_SIZE * m \in Int /\ PAGE_SIZE * n \in Int /\ PAGE_SIZE * (m + 1) = PAGE_SIZE * m + PAGE_SIZE
  BY <1>1, <1>2
<1>4. m < n
  <2>1. SUFFICES ASSUME n <= m PROVE FALSE
    BY <1>2
  <2>2. PAGE_SIZE * n <= PAGE_SIZE * m
    BY <1>1, <1>2, <2>1, TimesMonotone
  <2> QED BY <1>2, <1>3, <2>2
<1>5. PAGE_SIZE * (m + 1) <= PAGE_SIZE * n
  <2>1. m + 1 \in Int /\ m + 1 <= n
    BY <1>2, <1>4
  <2> QED BY <1>1, <1>2, <2>1, TimesMonotone
<1> QED BY <1>1, <1>2, <1>3, <1>5

\* An aligned address plus a page is aligned.
LEMMA NextAligned ==
  ASSUME NEW p \in Nat, p % PAGE_SIZE = 0
  PROVE  (p + PAGE_SIZE) % PAGE_SIZE = 0
<1>1. PAGE_SIZE \in Nat /\ PAGE_SIZE >= 1
  BY ElfConstants
<1> DEFINE m == p \div PAGE_SIZE
<1>2. m \in Int /\ p = PAGE_SIZE * m + 0
  BY <1>1, DivMod
<1> HIDE DEF m
<1>3. PAGE_SIZE * m \in Int /\ PAGE_SIZE * (m + 1) = PAGE_SIZE * m + PAGE_SIZE
  BY <1>1, <1>2
<1> DEFINE x == p + PAGE_SIZE
<1>4. x \in Int /\ m + 1 \in Int /\ 0 \in 0 .. PAGE_SIZE - 1 /\ x = PAGE_SIZE * (m + 1) + 0
  BY <1>1, <1>2, <1>3
<1> HIDE DEF x
<1>5. x % PAGE_SIZE = 0
  BY <1>1, <1>4, DivMod
<1> QED BY <1>5 DEF x

\* The pages of a segment are the aligned addresses from its first page on that are
\* below seg_end.
LEMMA SpanIs ==
  ASSUME NEW ph \in Headers
  PROVE  /\ seg_start(ph) \in Nat /\ seg_end(ph) \in Nat
         /\ seg_start(ph) % PAGE_SIZE = 0 /\ seg_end(ph) % PAGE_SIZE = 0
         /\ ph.p_vaddr \in Nat /\ ph.p_memsz \in Nat /\ ph.p_filesz \in Nat /\ ph.p_offset \in Nat
         /\ seg_start(ph) <= ph.p_vaddr
         /\ ph.p_vaddr + ph.p_memsz <= seg_end(ph)
         /\ \A p \in Nat : p % PAGE_SIZE = 0 =>
              (p \in Span(ph) <=> seg_start(ph) <= p /\ p < seg_end(ph))
         /\ \A p \in Span(ph) : p \in Nat /\ p % PAGE_SIZE = 0
<1> DEFINE x == ph.p_vaddr + ph.p_memsz
<1>1. /\ PAGE_SIZE \in Nat /\ PAGE_SIZE >= 1
      /\ ph.p_vaddr \in Nat /\ ph.p_memsz \in Nat /\ ph.p_filesz \in Nat /\ ph.p_offset \in Nat
  BY ElfConstants DEF Headers
<1>2. /\ seg_start(ph) \in Nat /\ seg_start(ph) <= ph.p_vaddr /\ seg_start(ph) % PAGE_SIZE = 0
  BY Zenon, <1>1, PageFacts DEF seg_start
<1>3. x \in Nat /\ x + PAGE_SIZE - 1 \in Nat
  BY <1>1
<1>4. seg_end(ph) = PageOf(x + PAGE_SIZE - 1)
  BY <1>1 DEF seg_end
<1> HIDE DEF x
<1>5. /\ seg_end(ph) \in Nat /\ seg_end(ph) % PAGE_SIZE = 0
      /\ seg_end(ph) <= x + PAGE_SIZE - 1 /\ x + PAGE_SIZE - 1 < seg_end(ph) + PAGE_SIZE
  BY <1>3, <1>4, PageFacts
<1>6. x <= seg_end(ph)
  BY <1>1, <1>3, <1>5
<1>7. ASSUME NEW p \in Nat, p % PAGE_SIZE = 0
      PROVE  p \in Span(ph) <=> seg_start(ph) <= p /\ p < seg_end(ph)
  <2>1. p \in Span(ph) <=> seg_start(ph) <= p /\ p < x
    BY <1>1, <1>2, <1>3, <1>7 DEF Span, seg_start, x
  <2>2. p < x => p < seg_end(ph)
    BY <1>3, <1>5, <1>6
  <2>3. p < seg_end(ph) => p < x
    <3>1. p < seg_end(ph) => p + PAGE_SIZE <= seg_end(ph)
      BY <1>5, <1>7, PagesApart
    <3> QED BY <1>1, <1>3, <1>5, <3>1
  <2> QED BY <2>1, <2>2, <2>3
<1>8. ASSUME NEW p \in Span(ph) PROVE p \in Nat /\ p % PAGE_SIZE = 0
  BY <1>1, <1>2, <1>3 DEF Span, seg_start, x
<1> QED BY <1>1, <1>2, <1>5, <1>6, <1>7, <1>8 DEF x

\* A frame holds, at each address of the segment, what the format says, and bytes of the
\* file or zeros everywhere.
LEMMA FrameIs ==
  ASSUME NEW ph \in Headers, NEW page \in Nat
  PROVE  /\ \A a \in Nat : page <= a /\ a < page + PAGE_SIZE /\ ph.p_vaddr <= a =>
              Frame(ph, page)[a - page] = Expected(ph, a)
         /\ ~Rejected(ph) => \A k \in 0 .. PAGE_SIZE - 1 :
              Frame(ph, page)[k] \in {ZERO} \union 0 .. FILE_SIZE - 1
<1> DEFINE from == IF ph.p_vaddr > page THEN ph.p_vaddr ELSE page
           to   == IF ph.p_vaddr + ph.p_filesz < page + PAGE_SIZE
                     THEN ph.p_vaddr + ph.p_filesz ELSE page + PAGE_SIZE
           off  == ph.p_offset + (from - ph.p_vaddr)
<1>1. /\ PAGE_SIZE \in Nat /\ PAGE_SIZE >= 1 /\ FILE_SIZE \in Nat
      /\ ph.p_vaddr \in Nat /\ ph.p_memsz \in Nat /\ ph.p_filesz \in Nat /\ ph.p_offset \in Nat
  BY ElfConstants DEF Headers
<1>2. /\ from \in Nat /\ to \in Nat /\ off \in Nat
      /\ from >= page /\ from >= ph.p_vaddr /\ (from = page \/ from = ph.p_vaddr)
      /\ to <= page + PAGE_SIZE /\ to <= ph.p_vaddr + ph.p_filesz
      /\ (to = page + PAGE_SIZE \/ to = ph.p_vaddr + ph.p_filesz)
      /\ off = ph.p_offset + (from - ph.p_vaddr)
  BY <1>1
<1>3. Frame(ph, page) = [k \in 0 .. PAGE_SIZE - 1 |->
        IF k \in from - page .. (from - page) + (to - from) - 1 THEN off + (k - (from - page)) ELSE ZERO]
  BY DEF Frame
<1> HIDE DEF from, to, off
<1>4. \A k \in 0 .. PAGE_SIZE - 1 :
        Frame(ph, page)[k] = IF from <= page + k /\ page + k < to
                             THEN ph.p_offset + ((page + k) - ph.p_vaddr) ELSE ZERO
  <2> TAKE k \in 0 .. PAGE_SIZE - 1
  <2>1. k \in from - page .. (from - page) + (to - from) - 1 <=> from <= page + k /\ page + k < to
    BY <1>1, <1>2
  <2>2. off + (k - (from - page)) = ph.p_offset + ((page + k) - ph.p_vaddr)
    BY <1>1, <1>2
  <2> QED BY <1>3, <2>1, <2>2
<1>5. ASSUME NEW a \in Nat, page <= a, a < page + PAGE_SIZE, ph.p_vaddr <= a
      PROVE  Frame(ph, page)[a - page] = Expected(ph, a)
  <2>1. a - page \in 0 .. PAGE_SIZE - 1 /\ page + (a - page) = a
    BY <1>1, <1>5
  <2>2. from <= a /\ (a < to <=> a - ph.p_vaddr < ph.p_filesz)
    BY <1>1, <1>2, <1>5
  <2> QED BY <1>4, <2>1, <2>2 DEF Expected
<1>6. ASSUME ~Rejected(ph), NEW k \in 0 .. PAGE_SIZE - 1
      PROVE  Frame(ph, page)[k] \in {ZERO} \union 0 .. FILE_SIZE - 1
  <2>1. ph.p_offset + ph.p_filesz <= FILE_SIZE
    BY <1>1, <1>6 DEF Rejected
  <2>2. from <= page + k /\ page + k < to =>
          ph.p_offset + ((page + k) - ph.p_vaddr) \in 0 .. FILE_SIZE - 1
    BY <1>1, <1>2, <2>1
  <2> QED BY <1>4, <2>2
<1> QED BY <1>5, <1>6

\* A segment that is accepted lies above the kernel, page by page.
LEMMA AboveKernel ==
  ASSUME NEW ph \in Headers, ~Rejected(ph)
  PROVE  KERNEL_END <= seg_start(ph) /\ seg_start(ph) # 0
<1>1. /\ PAGE_SIZE \in Nat /\ KERNEL_END \in Nat /\ KERNEL_END >= 1 /\ KERNEL_END % PAGE_SIZE = 0
      /\ ph.p_vaddr \in Nat /\ KERNEL_END <= ph.p_vaddr
  BY ElfConstants DEF Headers, Rejected
<1>2. /\ seg_start(ph) \in Nat /\ seg_start(ph) % PAGE_SIZE = 0
      /\ ph.p_vaddr < seg_start(ph) + PAGE_SIZE
  BY Zenon, <1>1, PageFacts DEF seg_start
<1>3. seg_start(ph) < KERNEL_END => seg_start(ph) + PAGE_SIZE <= KERNEL_END
  BY <1>1, <1>2, PagesApart
<1> QED BY <1>1, <1>2, <1>3

\* Before the first header nothing is mapped.
LEMMA LoadBegins ==
  ASSUME Init
  PROVE  ImageInv
<1>1. phdrs \in Programs /\ i = 1 /\ vpage = 0 /\ result = 1 /\ DOMAIN pages = {}
  BY DEF Init, NoPages
<1>2. Len(phdrs) \in Nat /\ DOMAIN phdrs = 1 .. Len(phdrs)
  BY <1>1, HeaderFacts
<1>3. \A k \in DOMAIN phdrs : Done(k) = {} /\ ~(k < i)
  BY <1>1, <1>2 DEF Done
<1> QED BY <1>1, <1>2, <1>3 DEF ImageInv

\* Every step of load_segments keeps the invariant.
LEMMA LoadSteps ==
  ASSUME ImageInv, [Next]_vars
  PROVE  ImageInv'
<1>0. /\ phdrs \in Programs /\ Len(phdrs) \in Nat /\ DOMAIN phdrs = 1 .. Len(phdrs)
      /\ i \in 1 .. Len(phdrs) + 1 /\ vpage \in Nat /\ PAGE_SIZE \in Nat /\ PAGE_SIZE >= 1
      /\ \A k \in DOMAIN phdrs : phdrs[k] \in Headers
  BY HeaderFacts, ElfConstants DEF ImageInv
<1>1. CASE next_header
  <2> DEFINE ph == phdrs[i]
  <2>0. /\ i \in DOMAIN phdrs /\ ph \in Headers /\ vpage = 0 /\ result = 1
        /\ phdrs' = phdrs /\ pages' = pages /\ (Skipped(ph) <=> ~Loaded(i))
    BY <1>0, <1>1 DEF next_header, Skipped, Loaded
  <2>1. CASE Skipped(ph) /\ i' = i + 1 /\ UNCHANGED <<vpage, result>>
    <3>1. \A k \in DOMAIN phdrs : Loaded(k) => Done(k)' = Done(k) /\ (k < i' => k < i)
      BY <1>0, <2>0, <2>1 DEF Done, Span, Loaded
    <3>2. \A k \in DOMAIN phdrs : /\ Loaded(k)' <=> Loaded(k)
                                  /\ Accepted(k)' <=> Accepted(k)
                                  /\ \A p : PageFor(k, p)' = PageFor(k, p)
      BY <2>0 DEF Accepted, Loaded, PageFor
    <3>3. i' \in 1 .. Len(phdrs) + 1
      BY <1>0, <2>0, <2>1
    <3>4. \A p \in DOMAIN pages :
            \E k \in DOMAIN phdrs : Accepted(k)' /\ p \in Done(k)' /\ pages[p] = PageFor(k, p)'
      BY <3>1, <3>2, Zenon DEF ImageInv, Accepted
    <3> QED BY <2>0, <2>1, <3>1, <3>2, <3>3, <3>4 DEF ImageInv
  <2>2. CASE result' = -1 /\ UNCHANGED <<i, vpage>>
    BY <2>0, <2>2 DEF ImageInv, Accepted, Loaded, Done, PageFor
  <2>3. CASE ~Skipped(ph) /\ ~Rejected(ph) /\ vpage' = seg_start(ph) /\ UNCHANGED <<i, result>>
    <3>1. /\ vpage' \in Nat /\ vpage' % PAGE_SIZE = 0 /\ vpage' # 0 /\ Accepted(i)
          /\ seg_start(ph) <= vpage' /\ vpage' <= seg_end(ph)
      <4>1. /\ seg_start(ph) \in Nat /\ seg_end(ph) \in Nat /\ seg_start(ph) % PAGE_SIZE = 0
            /\ ph.p_vaddr \in Nat /\ ph.p_memsz \in Nat
            /\ seg_start(ph) <= ph.p_vaddr /\ ph.p_vaddr + ph.p_memsz <= seg_end(ph)
        BY <2>0, SpanIs, Zenon
      <4>2. seg_start(ph) # 0
        BY <2>0, <2>3, AboveKernel, Zenon
      <4> QED BY <2>0, <2>3, <4>1, <4>2 DEF Accepted
    <3>2. \A p \in Span(ph) : ~(p < vpage')
      <4> TAKE p \in Span(ph)
      <4>1. p \in Nat /\ seg_start(ph) <= p
        BY <2>0, SpanIs
      <4> QED BY <2>3, <3>1, <4>1
    <3>3. \A k \in DOMAIN phdrs : Done(k)' = Done(k)
      BY <1>0, <2>0, <2>3, <3>2 DEF Done
    <3>4. \A k \in DOMAIN phdrs : /\ Loaded(k)' <=> Loaded(k)
                                  /\ Accepted(k)' <=> Accepted(k)
                                  /\ \A p : PageFor(k, p)' = PageFor(k, p)
      BY <2>0 DEF Accepted, Loaded, PageFor
    <3> QED BY <1>0, <2>0, <2>3, <3>1, <3>3, <3>4 DEF ImageInv
  <2> QED BY <1>1, <2>1, <2>2, <2>3 DEF next_header
<1>2. CASE load_page
  <2> DEFINE ph == phdrs[i]
  <2>0. /\ i \in DOMAIN phdrs /\ ph \in Headers /\ vpage # 0 /\ result = 1 /\ vpage < seg_end(ph)
        /\ phdrs' = phdrs /\ i' = i /\ Accepted(i) /\ vpage % PAGE_SIZE = 0 /\ seg_start(ph) <= vpage
    BY <1>0, <1>2 DEF load_page, ImageInv
  <2>1. \A k \in DOMAIN phdrs : /\ Loaded(k)' <=> Loaded(k)
                                /\ Accepted(k)' <=> Accepted(k)
                                /\ \A p : PageFor(k, p)' = PageFor(k, p)
    BY <2>0 DEF Accepted, Loaded, PageFor
  <2>2. CASE result' = -1 /\ UNCHANGED <<pages, vpage>>
    BY <2>0, <2>2 DEF ImageInv, Accepted, Loaded, Done, PageFor
  <2>3. CASE /\ pages' = [p \in DOMAIN pages \union {vpage} |->
                            IF p = vpage THEN [bytes |-> Frame(ph, vpage), writable |-> ph.writable]
                            ELSE pages[p]]
             /\ vpage' = vpage + PAGE_SIZE /\ UNCHANGED result
    <3>1. /\ vpage' \in Nat /\ vpage' # 0 /\ vpage' % PAGE_SIZE = 0
          /\ seg_start(ph) <= vpage' /\ vpage' <= seg_end(ph)
      <4>1. seg_start(ph) \in Nat /\ seg_end(ph) \in Nat /\ seg_end(ph) % PAGE_SIZE = 0
        BY <2>0, SpanIs, Zenon
      <4>2. vpage + PAGE_SIZE <= seg_end(ph)
        BY <1>0, <2>0, <4>1, PagesApart
      <4>3. (vpage + PAGE_SIZE) % PAGE_SIZE = 0
        BY <1>0, <2>0, NextAligned
      <4> QED BY <1>0, <2>0, <2>3, <4>1, <4>2, <4>3
    <3>2. vpage \in Span(ph)
      BY <1>0, <2>0, SpanIs
    <3>3. \A p \in Span(ph) : p < vpage' <=> p < vpage \/ p = vpage
      <4> TAKE p \in Span(ph)
      <4>1. p \in Nat /\ p % PAGE_SIZE = 0
        BY <2>0, SpanIs, Zenon
      <4>2. vpage < p => vpage + PAGE_SIZE <= p
        BY <1>0, <2>0, <4>1, PagesApart
      <4> QED BY <1>0, <2>3, <4>1, <4>2
    <3>4. \A k \in DOMAIN phdrs : Done(k)' = IF k = i THEN Done(k) \union {vpage} ELSE Done(k)
      BY Zenon, <1>0, <2>0, <3>1, <3>2, <3>3 DEF Done, Span
    <3>5. /\ DOMAIN pages' = DOMAIN pages \union {vpage} /\ pages'[vpage] = PageFor(i, vpage)
          /\ \A p \in DOMAIN pages : p # vpage => pages'[p] = pages[p]
      BY <2>3 DEF PageFor
    <3>6. \A k \in DOMAIN phdrs : Loaded(k) => Done(k)' \subseteq DOMAIN pages'
      BY <2>0, <3>4, <3>5 DEF ImageInv
    <3>7. ASSUME NEW p \in DOMAIN pages'
          PROVE  \E k \in DOMAIN phdrs : Accepted(k)' /\ p \in Done(k)' /\ pages'[p] = PageFor(k, p)'
      <4>1. CASE p = vpage
        BY <2>0, <2>1, <3>4, <3>5, <4>1, Zenon
      <4>2. CASE p # vpage
        <5>1. p \in DOMAIN pages
          BY <3>5, <4>2
        <5>2. PICK k \in DOMAIN phdrs : Accepted(k) /\ p \in Done(k) /\ pages[p] = PageFor(k, p)
          BY <5>1 DEF ImageInv
        <5>3. p \in Done(k)'
          BY <3>4, <5>2
        <5> QED BY <2>1, <3>5, <4>2, <5>1, <5>2, <5>3, Zenon
      <4> QED BY <4>1, <4>2
    <3> QED BY Zenon, <1>0, <2>0, <2>1, <2>3, <3>1, <3>6, <3>7 DEF ImageInv
  <2> QED BY <1>2, <2>2, <2>3 DEF load_page
<1>3. CASE end_segment
  <2> DEFINE ph == phdrs[i]
  <2>0. /\ i \in DOMAIN phdrs /\ ph \in Headers /\ vpage # 0 /\ result = 1 /\ seg_end(ph) <= vpage
        /\ phdrs' = phdrs /\ pages' = pages /\ result' = result /\ i' = i + 1 /\ vpage' = 0
        /\ Accepted(i)
    <3>1. vpage >= seg_end(ph) /\ vpage # 0
      BY <1>3 DEF end_segment
    <3>2. i <= Len(phdrs) /\ Accepted(i)
      BY <3>1 DEF ImageInv
    <3>3. i \in DOMAIN phdrs /\ ph \in Headers
      BY <1>0, <3>2
    <3>4. seg_end(ph) \in Nat
      BY <3>3, SpanIs, Zenon
    <3> QED BY <1>0, <1>3, <3>1, <3>2, <3>3, <3>4 DEF end_segment
  <2>1. \A k \in DOMAIN phdrs : /\ Loaded(k)' <=> Loaded(k)
                                /\ Accepted(k)' <=> Accepted(k)
                                /\ \A p : PageFor(k, p)' = PageFor(k, p)
    BY <2>0 DEF Accepted, Loaded, PageFor
  <2>2. Span(ph) = {p \in Span(ph) : p < vpage}
    <3>1. ASSUME NEW p \in Span(ph) PROVE p < vpage
      <4>1. p \in Nat /\ seg_end(ph) \in Nat /\ p < seg_end(ph)
        BY <2>0, SpanIs
      <4> QED BY <1>0, <2>0, <4>1
    <3> QED BY <3>1
  <2>3. \A k \in DOMAIN phdrs : Done(k)' = Done(k) /\ (k < i' <=> k < i \/ k = i)
    <3>1. \A k \in DOMAIN phdrs : k \in Int /\ (k < i' <=> k < i \/ k = i)
      BY <1>0, <2>0
    <3>2. \A k \in DOMAIN phdrs : Done(k)' = IF k < i \/ k = i THEN Span(phdrs[k]) ELSE {}
      BY <2>0, <3>1 DEF Done, Span
    <3> QED BY Zenon, <1>0, <2>0, <2>2, <3>1, <3>2 DEF Done
  <2>4. i' \in 1 .. Len(phdrs) + 1
    BY <1>0, <2>0
  <2> QED BY <2>0, <2>1, <2>3, <2>4 DEF ImageInv
<1>4. CASE end_load
  BY <1>0, <1>4 DEF end_load, ImageInv, Accepted, Loaded, Done, PageFor
<1>5. CASE UNCHANGED vars
  BY <1>5 DEF vars, ImageInv, Accepted, Loaded, Done, PageFor
<1> QED BY <1>1, <1>2, <1>3, <1>4, <1>5 DEF Next

\* The invariant says that the image is exact.
LEMMA InvImage ==
  ASSUME ImageInv
  PROVE  ImageExact
<1>0. /\ phdrs \in Programs /\ Len(phdrs) \in Nat /\ DOMAIN phdrs = 1 .. Len(phdrs)
      /\ i \in 1 .. Len(phdrs) + 1
      /\ \A k \in DOMAIN phdrs : phdrs[k] \in Headers
  BY HeaderFacts DEF ImageInv
<1>1. \A k \in DOMAIN phdrs : Done(k) \subseteq Span(phdrs[k])
  BY DEF Done
<1>2. TypeOK
  <2> SUFFICES ASSUME NEW p \in DOMAIN pages
               PROVE  /\ p % PAGE_SIZE = 0 /\ p >= KERNEL_END
                      /\ \A k \in 0 .. PAGE_SIZE - 1 :
                           pages[p].bytes[k] \in {ZERO} \union 0 .. FILE_SIZE - 1
    BY DEF TypeOK, ImageInv
  <2>1. PICK k \in DOMAIN phdrs : Accepted(k) /\ p \in Done(k) /\ pages[p] = PageFor(k, p)
    BY DEF ImageInv
  <2>2. p \in Span(phdrs[k]) /\ phdrs[k] \in Headers /\ ~Rejected(phdrs[k])
    BY <1>0, <1>1, <2>1 DEF Accepted
  <2>3. p \in Nat /\ p % PAGE_SIZE = 0 /\ seg_start(phdrs[k]) \in Nat /\ seg_start(phdrs[k]) <= p
    BY <2>2, SpanIs
  <2>4. KERNEL_END \in Nat /\ KERNEL_END <= seg_start(phdrs[k])
    BY <2>2, AboveKernel, ElfConstants
  <2>5. pages[p].bytes = Frame(phdrs[k], p)
    BY <2>1 DEF PageFor
  <2>6. \A n \in 0 .. PAGE_SIZE - 1 : Frame(phdrs[k], p)[n] \in {ZERO} \union 0 .. FILE_SIZE - 1
    BY <2>2, <2>3, FrameIs, Zenon
  <2> QED BY <2>3, <2>4, <2>5, <2>6
<1>3. ASSUME result = 0, NEW k \in DOMAIN phdrs, Loaded(k)
      PROVE  Done(k) = Span(phdrs[k]) /\ Span(phdrs[k]) \subseteq DOMAIN pages
  <2>1. k < i
    BY <1>0, <1>3 DEF ImageInv
  <2> QED BY <1>3, <2>1 DEF ImageInv, Done
<1>4. ASSUME result = 0, ~SharesPages, NEW k \in DOMAIN phdrs, Loaded(k), NEW p \in Span(phdrs[k])
      PROVE  p \in DOMAIN pages /\ pages[p] = PageFor(k, p)
  <2>1. p \in DOMAIN pages
    BY <1>3, <1>4
  <2>2. PICK l \in DOMAIN phdrs : Accepted(l) /\ p \in Done(l) /\ pages[p] = PageFor(l, p)
    BY <2>1 DEF ImageInv
  <2>3. Loaded(l) /\ p \in Span(phdrs[l])
    BY <1>1, <2>2 DEF Accepted
  <2>4. k = l
    BY <1>4, <2>3 DEF SharesPages
  <2> QED BY <2>1, <2>2, <2>4
<1>5. ImageCorrect
  <2> SUFFICES ASSUME result = 0, ~SharesPages, NEW k \in DOMAIN phdrs, Loaded(k),
                      NEW a \in phdrs[k].p_vaddr .. phdrs[k].p_vaddr + phdrs[k].p_memsz - 1
               PROVE  /\ PageOf(a) \in DOMAIN pages
                      /\ pages[PageOf(a)].bytes[a - PageOf(a)] = Expected(phdrs[k], a)
    BY DEF ImageCorrect, HoldsSegment
  <2> DEFINE p == PageOf(a)
  <2>0. PAGE_SIZE \in Nat /\ PAGE_SIZE >= 1 /\ phdrs[k] \in Headers
    BY <1>0, ElfConstants
  <2>1. /\ seg_start(phdrs[k]) \in Nat /\ seg_end(phdrs[k]) \in Nat
        /\ seg_start(phdrs[k]) % PAGE_SIZE = 0 /\ seg_start(phdrs[k]) <= phdrs[k].p_vaddr
        /\ phdrs[k].p_vaddr \in Nat /\ phdrs[k].p_memsz \in Nat
        /\ phdrs[k].p_vaddr + phdrs[k].p_memsz <= seg_end(phdrs[k])
    BY <2>0, SpanIs, Zenon
  <2>2. a \in Nat /\ phdrs[k].p_vaddr <= a /\ a < phdrs[k].p_vaddr + phdrs[k].p_memsz
    BY <2>1
  <2>3. p \in Nat /\ p % PAGE_SIZE = 0 /\ p <= a /\ a < p + PAGE_SIZE
    BY <2>2, PageFacts
  <2> HIDE DEF p
  <2>4. seg_start(phdrs[k]) <= p
    <3>1. p < seg_start(phdrs[k]) => p + PAGE_SIZE <= seg_start(phdrs[k])
      BY <2>1, <2>3, PagesApart
    <3> QED BY <2>0, <2>1, <2>2, <2>3, <3>1
  <2>5. p < seg_end(phdrs[k])
    BY <2>1, <2>2, <2>3
  <2>6. p \in Span(phdrs[k])
    BY <2>0, <2>3, <2>4, <2>5, SpanIs, Zenon
  <2>7. p \in DOMAIN pages /\ pages[p].bytes = Frame(phdrs[k], p)
    <3>1. p \in DOMAIN pages /\ pages[p] = PageFor(k, p)
      BY <1>4, <2>6, Zenon
    <3>2. PageFor(k, p).bytes = Frame(phdrs[k], p)
      BY Zenon DEF PageFor
    <3> QED BY <3>1, <3>2, Zenon
  <2>8. Frame(phdrs[k], p)[a - p] = Expected(phdrs[k], a)
    BY <2>0, <2>2, <2>3, FrameIs, Zenon
  <2> QED BY <2>7, <2>8 DEF p
<1>6. NothingElseMapped
  <2> SUFFICES ASSUME result = 0, ~SharesPages
               PROVE  /\ DOMAIN pages = UNION {Span(phdrs[k]) : k \in {l \in DOMAIN phdrs : Loaded(l)}}
                      /\ \A k \in DOMAIN phdrs : Loaded(k) =>
                           \A p \in Span(phdrs[k]) : pages[p].writable = phdrs[k].writable
    BY DEF NothingElseMapped
  <2>1. ASSUME NEW p \in DOMAIN pages PROVE \E k \in DOMAIN phdrs : Loaded(k) /\ p \in Span(phdrs[k])
    BY <1>1 DEF ImageInv, Accepted
  <2>2. ASSUME NEW k \in DOMAIN phdrs, Loaded(k) PROVE Span(phdrs[k]) \subseteq DOMAIN pages
    BY <1>3, <2>2
  <2>3. ASSUME NEW k \in DOMAIN phdrs, Loaded(k), NEW p \in Span(phdrs[k])
        PROVE  pages[p].writable = phdrs[k].writable
    <3>1. pages[p] = PageFor(k, p)
      BY <1>4, <2>3, Zenon
    <3>2. PageFor(k, p).writable = phdrs[k].writable
      BY Zenon DEF PageFor
    <3> QED BY <3>1, <3>2, Zenon
  <2> QED BY <2>1, <2>2, <2>3, Zenon
<1> QED BY <1>2, <1>5, <1>6 DEF ImageExact

\* A program that loads has every byte of every segment where its header says, and
\* nothing else: whatever the program, the size of a page and of the file, and
\* wherever an allocation fails (load_segments).
THEOREM ImagesAreExact ==
  Spec => []ImageExact
<1>1. Init => ImageInv
  BY LoadBegins
<1>2. ImageInv /\ [Next]_vars => ImageInv'
  BY LoadSteps
<1>3. ImageInv => ImageExact
  BY InvImage
<1> QED BY <1>1, <1>2, <1>3, PTL DEF Spec
===============================================================================
