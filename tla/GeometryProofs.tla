---------------------------- MODULE GeometryProofs ----------------------------
(***************************************************************************)
(* Rows and columns, tracks and sectors: the text screen and the loaders,  *)
(* for screens and disks of every size.                                    *)
(*                                                                         *)
(* The screen: each character of the text is displayed where the cursor    *)
(* was when it came, less the rows that have scrolled off.                 *)
(*                                                                         *)
(* The loaders: what has been read so far is where it belongs, and         *)
(* counters and addresses have not wrapped unless all is read.             *)
(***************************************************************************)
EXTENDS Screen, BootLoad, TLAPS

\* A sequence is empty or has elements.
LEMMA EmptyIs ==
  ASSUME NEW S, NEW s \in Seq(S)
  PROVE  Len(s) \in Nat /\ (Len(s) = 0 <=> s = <<>>)
OBVIOUS

\* The first elements of a sequence, or all of them.
LEMMA PrefixIs ==
  ASSUME NEW S, NEW s \in Seq(S), NEW n \in Nat, n <= Len(s)
  PROVE  /\ SubSeq(s, 1, n) \in Seq(S) /\ Len(SubSeq(s, 1, n)) = n
         /\ \A g \in 1..n : SubSeq(s, 1, n)[g] = s[g]
         /\ SubSeq(s, 1, Len(s)) = s
OBVIOUS

\* A sequence without its last element.
LEMMA FrontOf ==
  ASSUME NEW S, NEW l \in Seq(S), l # <<>>
  PROVE  LET n == Len(l) - 1
         IN  /\ n \in Nat /\ SubSeq(l, 1, n) \in Seq(S) /\ Len(SubSeq(l, 1, n)) = n
             /\ \A g \in 1..n : SubSeq(l, 1, n)[g] = l[g]
<1> DEFINE n == Len(l) - 1
<1>1. n \in Nat /\ n <= Len(l)
  BY EmptyIs
<1> HIDE DEF n
<1>2. /\ SubSeq(l, 1, n) \in Seq(S) /\ Len(SubSeq(l, 1, n)) = n
      /\ \A g \in 1..n : SubSeq(l, 1, n)[g] = l[g]
  BY <1>1, PrefixIs
<1> QED BY <1>1, <1>2 DEF n

\* A product does not decrease.
LEMMA TimesMonotone ==
  ASSUME NEW p \in Nat, NEW a \in Int, NEW b \in Int, a <= b
  PROVE  p * a \in Int /\ p * b \in Int /\ p * a <= p * b
<1>1. p * (b - a) >= 0 /\ p * (b - a) = p * b - p * a
  OBVIOUS
<1> QED BY <1>1

\* Division with remainder, and that there is only one.
LEMMA DivMod ==
  ASSUME NEW m \in Nat, m >= 1, NEW x \in Int
  PROVE  /\ x \div m \in Int /\ x % m \in 0 .. m - 1 /\ x = m * (x \div m) + (x % m)
         /\ \A q \in Int, r \in 0 .. m - 1 : x = m * q + r => x \div m = q /\ x % m = r
<1> DEFINE d == x \div m
           y == x % m
<1>1. d \in Int /\ y \in 0 .. m - 1 /\ x = m * d + y
  OBVIOUS
<1> HIDE DEF d, y
<1>2. ASSUME NEW q \in Int, NEW r \in 0 .. m - 1, x = m * q + r
      PROVE  d = q /\ y = r
  <2>1. m * (d - q) = r - y /\ m * (q - d) = y - r
    BY <1>1, <1>2
  <2>2. ~(d - q >= 1)
    <3>1. SUFFICES ASSUME d - q >= 1 PROVE FALSE
      OBVIOUS
    <3>2. m * 1 <= m * (d - q) /\ m * 1 = m
      BY <1>1, <3>1, TimesMonotone
    <3> QED BY <1>1, <2>1, <3>2
  <2>3. ~(q - d >= 1)
    <3>1. SUFFICES ASSUME q - d >= 1 PROVE FALSE
      OBVIOUS
    <3>2. m * 1 <= m * (q - d) /\ m * 1 = m
      BY <1>1, <3>1, TimesMonotone
    <3> QED BY <1>1, <2>1, <3>2
  <2>4. d = q
    BY <1>1, <2>2, <2>3
  <2>5. m * q \in Int
    OBVIOUS
  <2> QED BY <1>1, <1>2, <2>4, <2>5
<1> QED BY <1>1, <1>2 DEF d, y

\* The records of the text.
Printed == [char : Chars \union {NL}, place : Nat]

\* The places of a text grow, and lie before e.
Ordered(t, e) ==
  /\ \A g \in DOMAIN t, j \in DOMAIN t : g < j => t[g].place < t[j].place
  /\ \A g \in DOMAIN t : t[g].place < e

\* The elements of a text.
LEMMA Elements ==
  ASSUME NEW t \in Seq(Printed), NEW k \in DOMAIN t
  PROVE  k \in Nat /\ 1 <= k /\ k <= Len(t) /\ t[k].place \in Nat /\ t[k].char \in Chars \union {NL}
<1>1. k \in 1..Len(t) /\ Len(t) \in Nat /\ t[k] \in Printed
  OBVIOUS
<1>2. t[k].place \in Nat /\ t[k].char \in Chars \union {NL}
  BY <1>1 DEF Printed
<1> QED BY <1>1, <1>2

\* What follows a character that is no newline is right behind it.
Close(t, e) ==
  \A k \in DOMAIN t : t[k].char # NL =>
    t[k].place + 1 = IF k = Len(t) THEN e ELSE t[k + 1].place

\* What is on the canvas at a place.
LEMMA CanvasIs ==
  ASSUME NEW t \in Seq(Printed), NEW e \in Nat, Ordered(t, e), NEW p
  PROVE  /\ \A k \in DOMAIN t : t[k].char # NL /\ t[k].place = p => Canvas(t, p) = t[k].char
         /\ (\A k \in DOMAIN t : ~(t[k].char # NL /\ t[k].place = p)) => Canvas(t, p) = BLANK
<1> DEFINE here == {k \in DOMAIN t : t[k].char # NL /\ t[k].place = p}
           some == CHOOSE k \in here : TRUE
<1>1. Canvas(t, p) = IF here = {} THEN BLANK ELSE t[some].char
  BY DEF Canvas
<1>2. ASSUME NEW k \in here PROVE some = k
  <2>1. some \in here
    BY <1>2
  <2>2. some \in DOMAIN t /\ k \in DOMAIN t /\ t[some].place = p /\ t[k].place = p
    BY <2>1
  <2>3. some \in Int /\ k \in Int /\ t[k].place \in Int
    BY <2>2, Elements
  <2> HIDE DEF some
  <2> QED BY <2>2, <2>3 DEF Ordered
<1> HIDE DEF some
<1> QED BY <1>1, <1>2

\* Nothing is at or behind the end.
LEMMA CanvasBehind ==
  ASSUME NEW t \in Seq(Printed), NEW e \in Nat, Ordered(t, e), NEW p \in Int, p >= e
  PROVE  Canvas(t, p) = BLANK
<1>1. \A k \in DOMAIN t : ~(t[k].char # NL /\ t[k].place = p)
  BY Elements DEF Ordered
<1> QED BY <1>1, CanvasIs

\* A character more.
LEMMA CanvasAppend ==
  ASSUME NEW t \in Seq(Printed), NEW e \in Nat, Ordered(t, e),
         NEW c \in Chars \union {NL}, NEW f \in Nat, e < f
  PROVE  LET u == Append(t, [char |-> c, place |-> e])
         IN  /\ u \in Seq(Printed) /\ Ordered(u, f)
             /\ \A p : Canvas(u, p) = IF p = e /\ c # NL THEN c ELSE Canvas(t, p)
<1> DEFINE x == [char |-> c, place |-> e]
           u == Append(t, x)
<1>1. x \in Printed /\ x.char = c /\ x.place = e
  BY DEF Printed
<1> HIDE DEF x
<1>2. /\ u \in Seq(Printed) /\ DOMAIN u = DOMAIN t \union {Len(t) + 1}
      /\ u[Len(t) + 1] = x /\ \A k \in DOMAIN t : u[k] = t[k]
  BY <1>1
<1>3. \A k \in DOMAIN t : k \in Int /\ k < Len(t) + 1 /\ t[k].place \in Int
  BY Elements
<1> HIDE DEF u
<1>4. Ordered(u, f)
  BY <1>1, <1>2, <1>3 DEF Ordered
<1>5. ASSUME NEW p PROVE Canvas(u, p) = IF p = e /\ c # NL THEN c ELSE Canvas(t, p)
  <2>1. CASE p = e /\ c # NL
    BY <1>1, <1>2, <1>4, <2>1, CanvasIs
  <2>2. CASE ~(p = e /\ c # NL) /\ \E k \in DOMAIN t : t[k].char # NL /\ t[k].place = p
    BY <1>2, <1>4, <2>2, CanvasIs
  <2>3. CASE ~(p = e /\ c # NL) /\ \A k \in DOMAIN t : ~(t[k].char # NL /\ t[k].place = p)
    <3>1. \A k \in DOMAIN u : ~(u[k].char # NL /\ u[k].place = p)
      BY <1>1, <1>2, <2>3
    <3>2. Canvas(u, p) = BLANK /\ Canvas(t, p) = BLANK
      BY <1>2, <1>4, <2>3, <3>1, CanvasIs
    <3> QED BY <2>3, <3>2
  <2> QED BY <2>1, <2>2, <2>3
<1> QED BY <1>2, <1>4, <1>5 DEF u, x

\* A character less.
LEMMA CanvasFront ==
  ASSUME NEW t \in Seq(Printed), NEW e \in Nat, Ordered(t, e), t # <<>>
  PROVE  LET n == Len(t)
             u == SubSeq(t, 1, n - 1)
         IN  /\ n \in DOMAIN t /\ u \in Seq(Printed) /\ Ordered(u, t[n].place)
             /\ \A p : Canvas(u, p) = IF p = t[n].place THEN BLANK ELSE Canvas(t, p)
<1> DEFINE n == Len(t)
           u == SubSeq(t, 1, n - 1)
<1>1. n \in DOMAIN t /\ n - 1 \in Nat /\ n \in Nat /\ DOMAIN t = 1..n
  BY EmptyIs
<1>2. u \in Seq(Printed) /\ DOMAIN u = 1 .. n - 1 /\ \A k \in 1 .. n - 1 : u[k] = t[k]
  BY FrontOf
<1> HIDE DEF n, u
<1>3. \A k \in 1 .. n - 1 : k \in DOMAIN t /\ k < n /\ k \in Int
  BY <1>1
<1>4. \A k \in DOMAIN t : k = n \/ k \in 1 .. n - 1
  BY <1>1
<1>5. t[n].place \in Nat /\ Ordered(u, t[n].place)
  BY <1>1, <1>2, <1>3, Elements DEF Ordered
<1>6. ASSUME NEW p PROVE Canvas(u, p) = IF p = t[n].place THEN BLANK ELSE Canvas(t, p)
  <2>1. CASE p = t[n].place
    BY <1>2, <1>5, <2>1, CanvasBehind
  <2>2. CASE p # t[n].place /\ \E k \in DOMAIN t : t[k].char # NL /\ t[k].place = p
    <3>1. PICK k \in DOMAIN t : t[k].char # NL /\ t[k].place = p
      BY <2>2
    <3>2. k \in 1 .. n - 1 /\ k \in DOMAIN u /\ u[k] = t[k]
      BY <1>2, <1>4, <2>2, <3>1
    <3>3. Canvas(u, p) = u[k].char
      BY Zenon, <1>2, <1>5, <3>1, <3>2, CanvasIs
    <3>4. Canvas(t, p) = t[k].char
      BY <3>1, CanvasIs
    <3> QED BY <2>2, <3>2, <3>3, <3>4
  <2>3. CASE p # t[n].place /\ \A k \in DOMAIN t : ~(t[k].char # NL /\ t[k].place = p)
    <3>1. \A k \in DOMAIN u : ~(u[k].char # NL /\ u[k].place = p)
      BY <1>2, <1>3, <2>3
    <3>2. Canvas(u, p) = BLANK
      BY Zenon, <1>2, <1>5, <3>1, CanvasIs
    <3>3. Canvas(t, p) = BLANK
      BY <2>3, CanvasIs
    <3> QED BY <2>3, <3>2, <3>3
  <2> QED BY <2>1, <2>2, <2>3
<1> QED BY <1>1, <1>2, <1>5, <1>6 DEF n, u

\* The sizes of the screen.
LEMMA Sizes ==
  /\ MAX_ROWS \in Nat /\ MAX_ROWS >= 1 /\ MAX_COLS \in Nat /\ MAX_COLS >= 1
  /\ SIZE \in Nat /\ SIZE = MAX_COLS * MAX_ROWS /\ SIZE >= MAX_COLS
<1>1. MAX_ROWS \in Nat /\ MAX_ROWS >= 1 /\ MAX_COLS \in Nat /\ MAX_COLS >= 1
  BY ScreenConstants
<1>2. SIZE = MAX_COLS * MAX_ROWS /\ SIZE \in Int
  BY <1>1 DEF SIZE
<1>3. MAX_COLS * 1 <= MAX_COLS * MAX_ROWS /\ MAX_COLS * 1 = MAX_COLS
  BY <1>1, TimesMonotone
<1> QED BY <1>1, <1>2, <1>3

\* The place behind a character at offset o of the screen, when k lines of the
\* text have gone over its top: no further than the end of the screen, in the
\* text as far on as on the screen, and so the line.
LEMMA Moves ==
  ASSUME NEW o \in Cells, NEW k \in Nat, NEW c
  PROVE  LET next == Behind(c, o)
             end1 == Behind(c, o + k * MAX_COLS)
         IN  /\ next \in 1..SIZE /\ o < next /\ end1 = next + k * MAX_COLS
             /\ end1 \div MAX_COLS \in Nat
             /\ next < SIZE => end1 \div MAX_COLS < k + MAX_ROWS
             /\ next = SIZE => end1 \div MAX_COLS = k + MAX_ROWS
<1> DEFINE m == MAX_COLS
           q == o \div m
           y == o % m
           next == Behind(c, o)
           place == o + k * m
           end1 == Behind(c, place)
<1>1. m \in Nat /\ m >= 1 /\ MAX_ROWS \in Nat /\ MAX_ROWS >= 1 /\ SIZE \in Nat /\ SIZE = m * MAX_ROWS /\ o \in Nat /\ o < SIZE
  BY Sizes DEF Cells
<1>2. q \in Int /\ y \in 0 .. m - 1 /\ o = m * q + y
  BY <1>1, DivMod
<1> HIDE DEF m
<1>3. place \in Int /\ place = m * (q + k) + y
  <2> HIDE DEF q, y
  <2> QED BY <1>1, <1>2
<1>4. place \div m = q + k
  <2> HIDE DEF place, q, y
  <2> DEFINE w == q + k
  <2>1. w \in Int /\ place \in Int /\ place = m * w + y
    BY <1>1, <1>2, <1>3
  <2> HIDE DEF w
  <2>2. place \div m = w
    BY Zenon, <1>1, <1>2, <2>1, DivMod
  <2> QED BY <2>2 DEF w
<1>5. next = (IF c = NL THEN (q + 1) * m ELSE o + 1) /\ end1 = (IF c = NL THEN (q + k + 1) * m ELSE place + 1)
  BY <1>4 DEF Behind, m
<1> HIDE DEF q, y, place
<1>6. (q + 1) * m = m * q + m /\ (q + k + 1) * m = m * q + m + k * m /\ {m * q, k * m} \subseteq Int
  BY <1>1, <1>2
<1>7. place = o + k * m
  BY DEF place
<1>8. end1 = next + k * m /\ next \in Int /\ o < next
  <2> HIDE DEF next, end1
  <2> QED BY <1>1, <1>2, <1>5, <1>6, <1>7
<1>9. m * q + m <= SIZE
  <2>1. SUFFICES ASSUME MAX_ROWS <= q PROVE FALSE
    <3>1. ASSUME q + 1 <= MAX_ROWS PROVE m * q + m <= SIZE
      <4>1. m * (q + 1) <= m * MAX_ROWS /\ m * (q + 1) = m * q + m
        BY <1>1, <1>2, <3>1, TimesMonotone
      <4> QED BY <1>1, <4>1
    <3> QED BY <1>1, <1>2, <3>1
  <2>2. m * MAX_ROWS <= m * q
    BY <1>1, <1>2, <2>1, TimesMonotone
  <2> QED BY <1>1, <1>2, <1>6, <2>2
<1>10. next <= SIZE
  <2> HIDE DEF next
  <2> QED BY <1>1, <1>2, <1>5, <1>6, <1>9
<1> HIDE DEF next, end1
<1> DEFINE r == next \div m
           z == next % m
<1>11. r \in Int /\ z \in 0 .. m - 1 /\ next = m * r + z
  BY <1>1, <1>8, DivMod
<1> HIDE DEF r, z
<1>12. end1 \in Int /\ end1 = m * (r + k) + z
  BY <1>1, <1>8, <1>11
<1>13. end1 \div m = r + k
  BY <1>1, <1>11, <1>12, DivMod
<1>14. r >= 0
  <2>1. SUFFICES ASSUME r <= -1 PROVE FALSE
    BY <1>11
  <2>2. m * r <= m * (-1) /\ m * (-1) = -m /\ m * r \in Int
    BY <1>1, <1>11, <2>1, TimesMonotone
  <2> QED BY <1>1, <1>8, <1>11, <2>2
<1>15. next < SIZE => r < MAX_ROWS
  <2>1. SUFFICES ASSUME next < SIZE, MAX_ROWS <= r PROVE FALSE
    BY <1>1, <1>11
  <2>2. m * MAX_ROWS <= m * r /\ m * r \in Int
    BY <1>1, <1>11, <2>1, TimesMonotone
  <2> QED BY <1>1, <1>8, <1>11, <2>1, <2>2
<1>16. next = SIZE => r = MAX_ROWS
  <2>1. SUFFICES ASSUME next = SIZE PROVE r = MAX_ROWS
    OBVIOUS
  <2>2. next = m * MAX_ROWS + 0 /\ 0 \in 0 .. m - 1
    BY <1>1, <2>1
  <2> QED BY <1>1, <1>8, <2>2, DivMod DEF r
<1>17. /\ next \in 1..SIZE /\ o < next /\ end1 = next + k * m
       /\ end1 \div m \in Nat /\ (next < SIZE => end1 \div m < k + MAX_ROWS)
       /\ (next = SIZE => end1 \div m = k + MAX_ROWS)
  BY <1>1, <1>8, <1>10, <1>11, <1>13, <1>14, <1>15, <1>16
<1> QED BY <1>17 DEF next, end1, place, m

\* The place behind a character is behind the character.
LEMMA BehindGrows ==
  ASSUME NEW e \in Nat, NEW c
  PROVE  Behind(c, e) \in Nat /\ e < Behind(c, e)
<1> DEFINE m == MAX_COLS
           q == e \div m
           y == e % m
<1>1. m \in Nat /\ m >= 1
  BY Sizes
<1> HIDE DEF m
<1>2. q \in Int /\ y \in 0 .. m - 1 /\ e = m * q + y
  BY <1>1, DivMod
<1> HIDE DEF q, y
<1>3. (q + 1) * m = m * q + m /\ m * q \in Int
  BY <1>1, <1>2
<1>4. (q + 1) * m \in Int /\ e < (q + 1) * m
  BY <1>1, <1>2, <1>3
<1>5. Behind(c, e) = IF c = NL THEN (q + 1) * m ELSE e + 1
  BY DEF Behind, q, m
<1> QED BY <1>4, <1>5

\* DisplayExact is kept because the text and its places are what they are however
\* writers mix, and because without mixing the one writer inside kprint prints at
\* the cursor.
ScreenInv ==
  /\ ScreenTypeOK
  /\ text \in Seq(Printed) /\ end \in Nat /\ bottom \in Nat /\ mixed \in BOOLEAN
  /\ Ordered(text, end)
  /\ Close(text, end)
  /\ DisplayExact
  /\ ~mixed => \A v \in Writers : at[v] # -1 =>
                 at[v] = cursor /\ \A w \in Writers : at[w] # -1 => v = w

\* The first line on the screen.
LEMMA TopIs ==
  ASSUME NEW b \in Nat
  PROVE  LET top == IF b < MAX_ROWS THEN 0 ELSE b - MAX_ROWS + 1
         IN  top \in Nat /\ b < top + MAX_ROWS /\ (top # 0 => b = top + MAX_ROWS - 1)
BY Sizes

\* A character is printed.
LEMMA CharPrinted ==
  ASSUME ScreenInv, NEW w \in Writers, NEW c \in Chars \union {NL}, kprint_char(w, c)
  PROVE  ScreenInv'
<1> DEFINE o == at[w]
           m == MAX_COLS
           next == Behind(c, o)
           cells == IF c = NL THEN vidmem ELSE [vidmem EXCEPT ![o] = c]
           k == Top
           S == Chars \union {BLANK}
<1>1. /\ vidmem \in [Cells -> S] /\ cursor \in Cells /\ at \in [Writers -> Cells \union {-1}]
      /\ text \in Seq(Printed) /\ end \in Nat /\ bottom \in Nat /\ mixed \in BOOLEAN
      /\ Ordered(text, end) /\ at[w] # -1
  BY DEF ScreenInv, ScreenTypeOK, kprint_char
<1>2. o \in Cells /\ m \in Nat /\ m >= 1 /\ SIZE \in Nat /\ SIZE >= m /\ MAX_ROWS \in Nat
  BY <1>1, Sizes
<1>3. k \in Nat /\ bottom < k + MAX_ROWS /\ (k # 0 => bottom = k + MAX_ROWS - 1)
  BY <1>1, TopIs DEF Top
<1> HIDE DEF k
<1>4. next \in 1..SIZE /\ next \in Int
  BY <1>2, <1>3, Moves
<1>5. cells \in [Cells -> S]
  BY <1>1, <1>2
<1>6. /\ vidmem' = (IF next >= SIZE THEN scroll_screen(cells) ELSE cells)
      /\ cursor' = (IF next >= SIZE THEN SIZE - m ELSE next)
      /\ at' = [at EXCEPT ![w] = cursor'] /\ mixed' = mixed
      /\ text' = Append(text, [char |-> c, place |-> end]) /\ end' = Behind(c, end)
      /\ bottom' = IF end' \div m > bottom THEN end' \div m ELSE bottom
  BY DEF kprint_char, print_char, get_offset_row, Behind
<1> HIDE DEF cells, next
<1>7. scroll_screen(cells) = [x \in Cells |-> IF x + m < SIZE THEN cells[x + m] ELSE BLANK]
  BY DEF scroll_screen
<1>8. \A x \in Cells : x \in Int /\ 0 <= x /\ x < SIZE /\ (x + m < SIZE => x + m \in Cells)
  BY <1>2 DEF Cells
<1>9. scroll_screen(cells) \in [Cells -> S]
  BY <1>5, <1>7, <1>8
<1>10. cursor' \in Cells
  BY <1>2, <1>4, <1>6 DEF Cells
<1>11. ScreenTypeOK'
  <2>1. vidmem' \in [Cells -> S]
    BY <1>5, <1>6, <1>9
  <2>2. at' \in [Writers -> Cells \union {-1}]
    BY <1>1, <1>6, <1>10
  <2> QED BY <1>10, <2>1, <2>2 DEF ScreenTypeOK
<1>12. end' \in Nat /\ end < end'
  BY <1>1, <1>6, BehindGrows
<1>13. /\ text' \in Seq(Printed) /\ Ordered(text', end')
       /\ \A p : Canvas(text', p) = IF p = end /\ c # NL THEN c ELSE Canvas(text, p)
  BY <1>1, <1>6, <1>12, CanvasAppend
<1>14. bottom' \in Nat
  <2>1. end' \div m \in Int
    BY <1>2, <1>12, DivMod
  <2> QED BY <1>1, <1>6, <2>1
<1>15. Close(text', end')
  <2> DEFINE n == Len(text)
             x == [char |-> c, place |-> end]
  <2>1. n \in Nat /\ DOMAIN text = 1..n
    BY <1>1
  <2>2. Len(text') = n + 1 /\ text'[n + 1] = x /\ \A g \in 1..n : text'[g] = text[g]
    BY <1>1, <1>6
  <2>3. x.char = c /\ x.place = end /\ (c # NL => end' = end + 1)
    BY <1>6 DEF Behind
  <2>4. DOMAIN text' = 1 .. n + 1
    BY <1>13, <2>2
  <2>5. Close(text, end)
    BY DEF ScreenInv
  <2> HIDE DEF n, x
  <2>6. ASSUME NEW g \in 1..n, text[g].char # NL
        PROVE  text'[g].place + 1 = text'[g + 1].place
    <3>1. CASE g = n
      BY Zenon, <2>1, <2>2, <2>3, <2>5, <2>6, <3>1 DEF Close, n
    <3>2. CASE g # n
      <4>1. g + 1 \in 1..n
        BY <2>1, <3>2
      <4> QED BY <2>1, <2>2, <2>5, <2>6, <3>2, <4>1 DEF Close, n
    <3> QED BY <3>1, <3>2
  <2>7. \A g \in 1 .. n + 1 : g = n + 1 \/ (g \in 1..n /\ g # n + 1)
    BY <2>1
  <2> QED BY <2>2, <2>3, <2>4, <2>6, <2>7 DEF Close
<1>16. ASSUME ~mixed
       PROVE  /\ \A x \in Cells : vidmem'[x] = Canvas(text', Top' * m + x)
              /\ cursor' = end' - Top' * m
              /\ \A v \in Writers : at'[v] # -1 =>
                   at'[v] = cursor' /\ \A u \in Writers : at'[u] # -1 => v = u
  <2>1. /\ \A x \in Cells : vidmem[x] = Canvas(text, k * m + x)
        /\ cursor = end - k * m /\ o = cursor
        /\ \A u \in Writers : at[u] # -1 => u = w
    BY <1>1, <1>16 DEF ScreenInv, DisplayExact, k
  <2>2. k * m \in Int /\ end = o + k * m
    BY <1>1, <1>2, <1>3, <1>8, <2>1
  <2>3. /\ end' = next + k * m /\ end' \div m \in Nat
        /\ (next < SIZE => end' \div m < k + MAX_ROWS) /\ (next = SIZE => end' \div m = k + MAX_ROWS)
    BY Zenon, <1>2, <1>3, <1>6, <2>2, Moves DEF next
  <2>4. \A x \in Cells : cells[x] = Canvas(text', k * m + x)
    <3>1. SUFFICES ASSUME NEW x \in Cells PROVE cells[x] = Canvas(text', k * m + x)
      OBVIOUS
    <3>2. k * m + x = end <=> x = o
      BY <1>2, <1>8, <2>2
    <3>3. cells[x] = IF x = o /\ c # NL THEN c ELSE vidmem[x]
      BY <1>1, <1>2 DEF cells
    <3> QED BY <1>13, <2>1, <3>2, <3>3
  <2>5. Top' = IF bottom' < MAX_ROWS THEN 0 ELSE bottom' - MAX_ROWS + 1
    BY DEF Top
  <2>6. k = IF bottom < MAX_ROWS THEN 0 ELSE bottom - MAX_ROWS + 1
    BY DEF Top, k
  <2>7. CASE next < SIZE
    <3>1. Top' = k
      <4> DEFINE row == end' \div m
      <4>1. row \in Nat /\ row < k + MAX_ROWS /\ bottom' = IF row > bottom THEN row ELSE bottom
        BY <1>6, <2>3, <2>7
      <4> HIDE DEF row
      <4> QED BY <1>1, <1>2, <1>3, <2>5, <2>6, <4>1
    <3>2. vidmem' = cells /\ cursor' = next
      BY <1>2, <1>4, <1>6, <2>7
    <3>3. next = end' - k * m
      BY <1>4, <2>2, <2>3
    <3>4. \A v \in Writers : at'[v] = IF v = w THEN cursor' ELSE at[v]
      BY <1>1, <1>6
    <3> QED BY <2>1, <2>4, <3>1, <3>2, <3>3, <3>4
  <2>8. CASE next = SIZE
    <3>1. Top' = k + 1
      <4> DEFINE row == end' \div m
      <4>1. row = k + MAX_ROWS /\ bottom' = IF row > bottom THEN row ELSE bottom
        BY <1>6, <2>3, <2>8
      <4> HIDE DEF row
      <4> QED BY <1>1, <1>2, <1>3, <2>5, <4>1
    <3>2. vidmem' = scroll_screen(cells) /\ cursor' = SIZE - m
      BY <1>2, <1>6, <2>8
    <3>3. (k + 1) * m = k * m + m /\ (k + 1) * m \in Int
      BY <1>2, <1>3
    <3>4. cursor' = end' - (k + 1) * m
      BY <1>2, <2>2, <2>3, <2>8, <3>2, <3>3
    <3>5. ASSUME NEW x \in Cells PROVE vidmem'[x] = Canvas(text', (k + 1) * m + x)
      <4>1. (k + 1) * m + x = k * m + (x + m) /\ (k + 1) * m + x \in Int
        BY <1>2, <1>8, <2>2, <3>3
      <4>2. CASE x + m < SIZE
        BY <1>7, <1>8, <2>4, <3>2, <4>1, <4>2
      <4>3. CASE ~(x + m < SIZE)
        <5>1. (k + 1) * m + x >= end'
          BY <1>2, <1>8, <2>2, <2>3, <2>8, <3>3, <4>3
        <5>2. Canvas(text', (k + 1) * m + x) = BLANK
          <6> DEFINE p == (k + 1) * m + x
          <6>1. p \in Int /\ p >= end'
            BY <4>1, <5>1
          <6> HIDE DEF p
          <6>2. Canvas(text', p) = BLANK
            BY <1>12, <1>13, <6>1, CanvasBehind
          <6> QED BY <6>2 DEF p
        <5> QED BY <1>7, <3>2, <4>3, <5>2
      <4> QED BY <4>2, <4>3
    <3>6. \A v \in Writers : at'[v] = IF v = w THEN cursor' ELSE at[v]
      BY <1>1, <1>6
    <3> QED BY <2>1, <3>1, <3>4, <3>5, <3>6
  <2> QED BY <1>2, <1>4, <2>7, <2>8
<1>17. DisplayExact'
  BY <1>6, <1>16 DEF DisplayExact
<1> QED BY <1>6, <1>1, <1>11, <1>12, <1>13, <1>14, <1>15, <1>16, <1>17 DEF ScreenInv

\* A character is taken back.
LEMMA CharTakenBack ==
  ASSUME ScreenInv, kprint_backspace
  PROVE  ScreenInv'
<1> DEFINE n == Len(text)
           m == MAX_COLS
           S == Chars \union {BLANK}
<1>1. /\ vidmem \in [Cells -> S] /\ cursor \in Cells /\ at \in [Writers -> Cells \union {-1}]
      /\ text \in Seq(Printed) /\ end \in Nat /\ bottom \in Nat /\ mixed \in BOOLEAN
      /\ Ordered(text, end) /\ UNCHANGED <<at, bottom, mixed>> /\ \A v \in Writers : at[v] = -1
  BY DEF ScreenInv, ScreenTypeOK, kprint_backspace
<1>2. m \in Nat /\ SIZE \in Nat /\ \A x \in Cells : x \in Int /\ 0 <= x /\ x < SIZE
  BY Sizes DEF Cells
<1>3. CASE cursor = 0 /\ UNCHANGED <<vidmem, cursor, text, end>>
  BY <1>1, <1>3 DEF ScreenInv, ScreenTypeOK, DisplayExact, Top
<1>4. CASE /\ cursor > 0 /\ text # <<>> /\ text[n].char # NL
           /\ vidmem' = [vidmem EXCEPT ![cursor - 1] = BLANK] /\ cursor' = cursor - 1
           /\ text' = SubSeq(text, 1, n - 1) /\ end' = text[n].place
  <2>1. /\ n \in DOMAIN text /\ text' \in Seq(Printed) /\ Ordered(text', end')
        /\ \A p : Canvas(text', p) = IF p = end' THEN BLANK ELSE Canvas(text, p)
    BY Zenon, <1>1, <1>4, CanvasFront
  <2>2. end' \in Nat /\ end = end' + 1
    <3>1. Close(text, end)
      BY DEF ScreenInv
    <3> QED BY <1>1, <1>4, <2>1, <3>1, Elements DEF Close
  <2>3. cursor - 1 \in Cells
    BY <1>1, <1>2, <1>4 DEF Cells
  <2>4. ScreenTypeOK'
    BY <1>1, <1>4, <2>3 DEF ScreenTypeOK
  <2>5. Close(text', end')
    <3>1. n \in Nat /\ n - 1 \in Nat /\ DOMAIN text = 1..n
      BY <1>1, <2>1
    <3>2. Len(text') = n - 1 /\ DOMAIN text' = 1 .. n - 1 /\ \A g \in 1 .. n - 1 : text'[g] = text[g]
      BY <1>1, <1>4, FrontOf
    <3>3. Close(text, end)
      BY DEF ScreenInv
    <3>4. ASSUME NEW g \in 1 .. n - 1, text[g].char # NL
          PROVE  text[g].place + 1 = text[g + 1].place
      <4>1. g \in DOMAIN text /\ g # n
        <5> HIDE DEF n
        <5> QED BY <3>1
      <4> QED BY <3>3, <3>4, <4>1 DEF Close
    <3> HIDE DEF n
    <3>5. \A g \in 1 .. n - 1 : g = n - 1 \/ g + 1 \in 1 .. n - 1
      BY <3>1
    <3>6. end' = text[n - 1 + 1].place
      BY <1>4, <3>1
    <3> QED BY <3>2, <3>4, <3>5, <3>6 DEF Close
  <2>6. ASSUME ~mixed
        PROVE  /\ \A x \in Cells : vidmem'[x] = Canvas(text', Top' * m + x)
               /\ cursor' = end' - Top' * m
    <3> DEFINE k == Top
    <3>1. Top' = k
      BY <1>1 DEF Top
    <3>2. k \in Nat
      BY <1>1, TopIs DEF Top
    <3>3. (\A x \in Cells : vidmem[x] = Canvas(text, k * m + x)) /\ cursor = end - k * m
      BY <2>6 DEF ScreenInv, DisplayExact
    <3> HIDE DEF k
    <3>4. k * m \in Int
      BY <1>2, <3>2
    <3>5. cursor' = end' - k * m
      <4> DEFINE y == k * m
      <4>1. y \in Int /\ cursor = end - y
        BY <3>3, <3>4
      <4> HIDE DEF y
      <4>2. cursor' = end' - y
        BY <1>4, <2>2, <4>1
      <4> QED BY <4>2 DEF y
    <3>6. ASSUME NEW x \in Cells PROVE vidmem'[x] = Canvas(text', k * m + x)
      <4>1. k * m + x = end' <=> x = cursor - 1
        <5> DEFINE y == k * m
        <5>1. y \in Int /\ cursor = end - y /\ x \in Int
          BY <1>2, <3>3, <3>4
        <5> HIDE DEF y
        <5>2. cursor - 1 = end' - y
          BY <2>2, <5>1
        <5>3. \A g, j, e \in Int : j + g = e <=> g = e - j
          OBVIOUS
        <5> QED BY <2>2, <5>1, <5>2, <5>3 DEF y
      <4> QED BY <1>1, <1>4, <2>1, <2>3, <3>3, <4>1
    <3> QED BY <3>1, <3>5, <3>6
  <2>7. DisplayExact'
    BY <1>1, <2>6 DEF DisplayExact
  <2> QED BY <1>1, <2>1, <2>2, <2>4, <2>5, <2>7 DEF ScreenInv
<1> QED BY Zenon, <1>3, <1>4 DEF kprint_backspace

\* Nothing is on the screen.
ScreenBlank ==
  /\ vidmem = [c \in Cells |-> BLANK] /\ cursor = 0 /\ text = <<>> /\ end = 0 /\ bottom = 0
  /\ mixed = FALSE /\ at \in [Writers -> {-1}]

\* An empty screen shows an empty text.
LEMMA BlankIsExact == ScreenBlank => ScreenInv
<1> SUFFICES ASSUME ScreenBlank PROVE ScreenInv
  OBVIOUS
<1>1. 0 \in Cells /\ MAX_COLS \in Nat /\ 0 < MAX_ROWS /\ 0 * MAX_COLS = 0
  BY Sizes DEF Cells
<1>2. text \in Seq(Printed) /\ DOMAIN text = {} /\ text = <<>>
  BY DEF ScreenBlank
<1>3. Ordered(text, end) /\ Close(text, end) /\ \A p : Canvas(text, p) = BLANK
  BY <1>2 DEF Ordered, Close, Canvas
<1>4. Top = 0 /\ cursor = 0 /\ end = 0
  BY <1>1 DEF ScreenBlank, Top
<1>5. DisplayExact
  BY <1>1, <1>3, <1>4 DEF DisplayExact, ScreenBlank
<1>6. ScreenTypeOK
  BY <1>1 DEF ScreenTypeOK, ScreenBlank
<1>7. end \in Nat /\ bottom \in Nat /\ mixed \in BOOLEAN /\ \A v \in Writers : at[v] = -1
  BY Zenon DEF ScreenBlank
<1> QED BY <1>2, <1>3, <1>5, <1>6, <1>7 DEF ScreenInv

\* Every step of the writers keeps the invariant.
LEMMA ScreenStep == ScreenInv /\ [ScreenNext]_screen => ScreenInv'
<1> SUFFICES ASSUME ScreenInv, [ScreenNext]_screen PROVE ScreenInv'
  OBVIOUS
<1>1. /\ vidmem \in [Cells -> Chars \union {BLANK}] /\ cursor \in Cells
      /\ at \in [Writers -> Cells \union {-1}] /\ mixed \in BOOLEAN
  BY DEF ScreenInv, ScreenTypeOK
<1>2. ASSUME NEW w \in Writers, kprint(w) PROVE ScreenInv'
  <2>1. /\ at' = [at EXCEPT ![w] = cursor] /\ mixed' = (mixed \/ \E v \in Writers : at[v] # -1)
        /\ UNCHANGED <<vidmem, cursor, text, end, bottom>>
    BY <1>2 DEF kprint
  <2>2. mixed' \in BOOLEAN /\ (~mixed' => ~mixed) /\ ScreenTypeOK'
    BY <1>1, <2>1 DEF ScreenTypeOK
  <2>3. ~mixed' => \A v \in Writers : at'[v] # -1 => v = w /\ at'[v] = cursor
    BY Zenon, <1>1, <2>1
  <2>4. DisplayExact'
    BY <2>1, <2>2 DEF ScreenInv, DisplayExact, Top
  <2> QED BY <2>1, <2>2, <2>3, <2>4 DEF ScreenInv
<1>3. ASSUME NEW w \in Writers, kprint_end(w) PROVE ScreenInv'
  <2>1. at' = [at EXCEPT ![w] = -1] /\ UNCHANGED <<vidmem, cursor, text, end, bottom, mixed>>
    BY <1>3 DEF kprint_end
  <2>2. ScreenTypeOK' /\ \A v \in Writers : at'[v] # -1 => at'[v] = at[v]
    BY <1>1, <2>1 DEF ScreenTypeOK
  <2>3. DisplayExact'
    BY <2>1 DEF ScreenInv, DisplayExact, Top
  <2> QED BY <2>1, <2>2, <2>3 DEF ScreenInv
<1>4. CASE clear_screen
  <2>1. ScreenBlank'
    BY <1>1, <1>4 DEF clear_screen, ScreenBlank
  <2>2. (ScreenBlank => ScreenInv)'
    BY BlankIsExact, PTL
  <2> QED BY <2>1, <2>2
<1>5. CASE UNCHANGED screen
  BY <1>5 DEF screen, ScreenInv, ScreenTypeOK, DisplayExact, Top
<1> QED BY <1>2, <1>3, <1>4, <1>5, CharPrinted, CharTakenBack DEF ScreenNext

\* The screen shows the end of what was printed, wrapped, scrolled and with what
\* was deleted gone, as long as no kprint began inside another.
THEOREM ScreenStaysExact == ScreenSpec => []ScreenExact
<1>1. ScreenInit => ScreenInv
  BY BlankIsExact DEF ScreenInit, ScreenBlank
<1>2. ScreenInv => ScreenExact
  BY DEF ScreenInv, ScreenExact
<1> QED BY <1>1, <1>2, ScreenStep, PTL DEF ScreenSpec
------------------------------------------------------------------------------
\* Division with remainder.
LEMMA DivModNat ==
  ASSUME NEW m \in Nat, m >= 1, NEW x \in Nat
  PROVE  x \div m \in Nat /\ x % m \in 0 .. m - 1 /\ x = (x \div m) * m + (x % m)
<1> DEFINE q == x \div m
           y == x % m
<1>1. q \in Int /\ y \in Int /\ 0 <= y /\ y < m /\ x = m * q + y
  OBVIOUS
<1>2. m * q = q * m
  BY <1>1
<1> HIDE DEF q, y
<1>3. q >= 0
  <2>1. SUFFICES ASSUME q <= -1 PROVE FALSE
    BY <1>1
  <2>2. m * q <= m * (-1) /\ m * (-1) = -m
    BY <1>1, <2>1, TimesMonotone
  <2> QED BY <1>1, <2>2
<1>4. q \in Nat /\ y \in 0 .. m - 1 /\ x = q * m + y
  BY <1>1, <1>2, <1>3
<1> QED BY <1>4 DEF q, y

\* The remainder of a number less than one modulus away from the range.
LEMMA ModNear ==
  ASSUME NEW m \in Nat, m >= 1, NEW x \in Int, -m < x, x < 2 * m
  PROVE  x % m = IF x < 0 THEN x + m ELSE IF x < m THEN x ELSE x - m
<1> DEFINE q == x \div m
           y == x % m
<1>1. q \in Int /\ y \in Int /\ 0 <= y /\ y < m /\ x = m * q + y
  OBVIOUS
<1> HIDE DEF q, y
<1>2. q >= -1
  <2>1. SUFFICES ASSUME q <= -2 PROVE FALSE
    BY <1>1
  <2>2. m * (-2 - q) >= 0
    BY <1>1, <2>1
  <2>3. m * (-2 - q) = -2 * m - m * q
    BY <1>1
  <2> QED BY <1>1, <2>2, <2>3
<1>3. q <= 1
  <2>1. SUFFICES ASSUME q >= 2 PROVE FALSE
    BY <1>1
  <2>2. m * (q - 2) >= 0
    BY <1>1, <2>1
  <2>3. m * (q - 2) = m * q - 2 * m
    BY <1>1
  <2> QED BY <1>1, <2>2, <2>3
<1>4. q = -1 \/ q = 0 \/ q = 1
  BY <1>1, <1>2, <1>3
<1>5. y = IF x < 0 THEN x + m ELSE IF x < m THEN x ELSE x - m
  <2>1. m * (-1) = -m /\ m * 0 = 0 /\ m * 1 = m
    OBVIOUS
  <2> QED BY <1>1, <1>4, <2>1
<1> QED BY <1>5 DEF y

\* The sectors from f on, as many as d, lie in memory from base on.
ReadIn(m, base, f, d) ==
  \A k \in 0 .. d - 1 : base + PARAS * k \in DOMAIN m /\ m[base + PARAS * k] = f + k

\* What has been read is where it belongs; a counter that has wrapped is used no more.
LoadInv ==
  /\ LoadTypeOK
  /\ loader = "boot_sector" =>
       /\ sectors_remaining <= STAGE2_SECTORS
       /\ sectors_remaining # 0 => sector = 2 + (STAGE2_SECTORS - sectors_remaining)
       /\ seg = STAGE2_SEG + PARAS * (STAGE2_SECTORS - sectors_remaining)
       /\ ReadIn(memory, STAGE2_SEG, 1, STAGE2_SECTORS - sectors_remaining)
  /\ loader \in {"stage_2", "kernel"} =>
       /\ sectors_remaining <= sectors
       /\ sectors_remaining # 0 => sector = FIRST + (sectors - sectors_remaining)
       /\ seg = KERNEL_SEG + PARAS * (sectors - sectors_remaining)
       /\ ReadIn(memory, STAGE2_SEG, 1, STAGE2_SECTORS)
       /\ ReadIn(memory, KERNEL_SEG, FIRST, sectors - sectors_remaining)
  /\ loader = "kernel" => sectors_remaining = 0
  /\ \A a \in DOMAIN memory : a \in Int /\ a + PARAS <= STACK_SEG

\* The constants one by one.
LEMMA BootConstants ==
  /\ SPT \in Nat /\ SPT >= 1 /\ HEADS \in Nat /\ HEADS >= 1 /\ BYTE \in Nat /\ BYTE >= 1
  /\ WORD \in Nat /\ WORD >= 1 /\ MAX_READ \in Nat /\ MAX_READ >= 1 /\ CHUNK \in Nat /\ CHUNK >= 1
  /\ PARAS \in Nat /\ PARAS >= 1 /\ STAGE2_SECTORS \in Nat /\ STAGE2_SECTORS >= 1
  /\ STAGE2_SEG \in Nat /\ KERNEL_SEG \in Nat /\ STACK_SEG \in Nat
  /\ 2 * STAGE2_SECTORS < BYTE /\ 1 + STAGE2_SECTORS <= SPT
  /\ SPT < BYTE /\ SPT <= MAX_READ
  /\ KERNEL_SEG + PARAS * (BYTE - 1) <= STACK_SEG /\ STACK_SEG < WORD
  /\ STAGE2_SEG + PARAS * STAGE2_SECTORS <= KERNEL_SEG
BY BootLoadConstants

\* A read of the BIOS that stays in its track.
LEMMA Read ==
  ASSUME NEW c \in Nat, NEW h \in Nat, NEW s \in Nat, NEW n \in Nat, seg \in Nat,
         s + n - 1 <= SPT, int13(c, h, s, n)
  PROVE  LET first == (c * HEADS + h) * SPT + s - 1
             to == {seg + PARAS * g : g \in 0 .. n - 1}
         IN  /\ DOMAIN memory' = DOMAIN memory \union to
             /\ \A g \in 0 .. n - 1 : memory'[seg + PARAS * g] = first + g
             /\ \A a \in DOMAIN memory : a \notin to => memory'[a] = memory[a]
<1> DEFINE first == (c * HEADS + h) * SPT + s - 1
           to == {seg + PARAS * g : g \in 0 .. n - 1}
<1>1. memory' = [a \in DOMAIN memory \union to |->
                   IF a \notin to THEN memory[a]
                   ELSE LET g == (a - seg) \div PARAS
                        IN IF s + g <= SPT THEN first + g ELSE UNKNOWN]
  BY DEF int13
<1>2. ASSUME NEW g \in 0 .. n - 1
      PROVE  memory'[seg + PARAS * g] = first + g
  <2> DEFINE a == seg + PARAS * g
  <2>1. a \in to
    OBVIOUS
  <2>2. (a - seg) \div PARAS = g
    <3>1. a - seg = PARAS * g
      BY BootConstants
    <3>2. (PARAS * g) \div PARAS = g
      <4> DEFINE x == PARAS * g
                 q == x \div PARAS
                 y == x % PARAS
      <4>1. x \in Int /\ q \in Int /\ y \in Int /\ 0 <= y /\ y < PARAS /\ x = PARAS * q + y
        BY BootConstants
      <4> HIDE DEF q, y
      <4>2. PARAS * (g - q) = y
        BY <4>1, BootConstants
      <4>3. g - q < 1
        <5>1. SUFFICES ASSUME g - q >= 1 PROVE FALSE
          BY <4>1
        <5>2. PARAS * 1 <= PARAS * (g - q)
          BY <4>1, <5>1, TimesMonotone, BootConstants
        <5> QED BY <4>1, <4>2, <5>2, BootConstants
      <4>4. g - q > -1
        <5>1. SUFFICES ASSUME g - q <= -1 PROVE FALSE
          BY <4>1
        <5>2. PARAS * (g - q) <= PARAS * (-1)
          BY <4>1, <5>1, TimesMonotone, BootConstants
        <5> QED BY <4>1, <4>2, <5>2, BootConstants
      <4>5. g = q
        BY <4>1, <4>3, <4>4
      <4> QED BY <4>5 DEF q
    <3> QED BY <3>1, <3>2
  <2>3. s + g <= SPT
    BY BootConstants
  <2> HIDE DEF a, to, first
  <2>4. memory'[a] = first + g
    BY <1>1, <2>1, <2>2, <2>3
  <2> QED BY <2>4 DEF a
<1> QED BY Zenon, <1>1, <1>2

\* What lies below the place of a read stays, and what the read brings is added.
LEMMA Extends ==
  ASSUME NEW c \in Nat, NEW h \in Nat, NEW s \in Nat, NEW n \in Nat, seg \in Nat,
         s + n - 1 <= SPT, int13(c, h, s, n),
         NEW base \in Nat, NEW f \in Nat, NEW d \in Nat, ReadIn(memory, base, f, d)
  PROVE  /\ base + PARAS * d <= seg => ReadIn(memory', base, f, d)
         /\ seg = base + PARAS * d /\ (c * HEADS + h) * SPT + s - 1 = f + d => ReadIn(memory', base, f, d + n)
<1> DEFINE to == {seg + PARAS * g : g \in 0 .. n - 1}
           first == (c * HEADS + h) * SPT + s - 1
<1>1. /\ DOMAIN memory' = DOMAIN memory \union to
      /\ \A g \in 0 .. n - 1 : memory'[seg + PARAS * g] = first + g
      /\ \A a \in DOMAIN memory : a \notin to => memory'[a] = memory[a]
  BY Zenon, Read
<1>2. ASSUME NEW k \in 0 .. d - 1, base + PARAS * d <= seg
      PROVE  base + PARAS * k \in DOMAIN memory' /\ memory'[base + PARAS * k] = f + k
  <2> DEFINE a == base + PARAS * k
  <2>1. a \in DOMAIN memory /\ memory[a] = f + k
    BY DEF ReadIn
  <2>2. PARAS * k + PARAS <= PARAS * d
    <3>1. PARAS * (k + 1) <= PARAS * d
      BY TimesMonotone, BootConstants
    <3>2. PARAS * (k + 1) = PARAS * k + PARAS
      BY BootConstants
    <3> QED BY <3>1, <3>2
  <2>3. a < seg /\ a \in Int
    BY <1>2, <2>2, BootConstants
  <2>4. a \notin to
    <3>1. SUFFICES ASSUME NEW g \in 0 .. n - 1, a = seg + PARAS * g PROVE FALSE
      OBVIOUS
    <3>2. PARAS * g >= 0 /\ PARAS * g \in Int
      BY BootConstants
    <3> HIDE DEF a
    <3> QED BY <2>3, <3>1, <3>2
  <2> HIDE DEF a, to
  <2>5. a \in DOMAIN memory' /\ memory'[a] = f + k
    BY <1>1, <2>1, <2>4
  <2> QED BY <2>5 DEF a
<1>3. ASSUME seg = base + PARAS * d, first = f + d
      PROVE  ReadIn(memory', base, f, d + n)
  <2>1. SUFFICES ASSUME NEW k \in 0 .. d + n - 1
                 PROVE  base + PARAS * k \in DOMAIN memory' /\ memory'[base + PARAS * k] = f + k
    BY DEF ReadIn
  <2>2. CASE k < d
    <3>1. k \in 0 .. d - 1 /\ base + PARAS * d <= seg
      BY <1>3, <2>2, BootConstants
    <3> QED BY <1>2, <3>1
  <2>3. CASE ~(k < d)
    <3> DEFINE g == k - d
    <3>1. g \in 0 .. n - 1 /\ first + g = f + k
      BY <1>3, <2>3, BootConstants
    <3>2. seg + PARAS * g = base + PARAS * k
      BY <1>3, BootConstants
    <3>3. base + PARAS * k \in to
      BY <3>1, <3>2
    <3> HIDE DEF g, to, first
    <3>4. memory'[seg + PARAS * g] = first + g
      BY <1>1, <3>1
    <3> QED BY <1>1, <3>1, <3>2, <3>3, <3>4
  <2> QED BY <2>2, <2>3
<1>4. base + PARAS * d <= seg => ReadIn(memory', base, f, d)
  BY Zenon, <1>2 DEF ReadIn
<1> QED BY <1>3, <1>4

\* The counters after a read of n sectors.
LEMMA Counters ==
  ASSUME LoadTypeOK, NEW n \in Nat, n <= sectors_remaining, Advance(n)
  PROVE  /\ sectors_remaining' = sectors_remaining - n
         /\ sector' \in 0 .. BYTE - 1
         /\ sector + n < BYTE => sector' = sector + n
         /\ seg' \in 0 .. WORD - 1
         /\ seg + PARAS * n < WORD => seg' = seg + PARAS * n
         /\ UNCHANGED <<loader, sectors>>
<1>1. /\ sectors_remaining \in 0 .. BYTE - 1 /\ sector \in 0 .. BYTE - 1 /\ seg \in 0 .. WORD - 1
      /\ sectors_remaining' = (sectors_remaining - n) % BYTE
      /\ sector' = (sector + n) % BYTE /\ seg' = (seg + n * PARAS) % WORD
      /\ UNCHANGED <<loader, sectors>>
  BY DEF LoadTypeOK, Advance
<1>2. ASSUME NEW m \in Nat, m >= 1, NEW x \in Int
      PROVE  x % m \in 0 .. m - 1 /\ (0 <= x /\ x < m => x % m = x)
  <2>1. x % m \in 0 .. m - 1
    BY <1>2
  <2>2. ASSUME 0 <= x, x < m PROVE x % m = x
    <3>1. -m < x /\ x < 2 * m
      BY <1>2, <2>2
    <3> QED BY <1>2, <2>2, <3>1, ModNear
  <2> QED BY <2>1, <2>2
<1>3. (sectors_remaining - n) % BYTE = sectors_remaining - n
  <2> DEFINE x == sectors_remaining - n
  <2>1. x \in Int /\ 0 <= x /\ x < BYTE
    BY <1>1, BootConstants
  <2> HIDE DEF x
  <2>2. x % BYTE = x
    BY <1>2, <2>1, BootConstants
  <2> QED BY Zenon, <2>2 DEF x
<1>4. (sector + n) % BYTE \in 0 .. BYTE - 1 /\ (sector + n < BYTE => (sector + n) % BYTE = sector + n)
  <2> DEFINE x == sector + n
  <2>1. x \in Int /\ 0 <= x
    BY <1>1, BootConstants
  <2> HIDE DEF x
  <2>2. x % BYTE \in 0 .. BYTE - 1 /\ (x < BYTE => x % BYTE = x)
    BY <1>2, <2>1, BootConstants
  <2> QED BY <2>2 DEF x
<1>5. (seg + n * PARAS) % WORD \in 0 .. WORD - 1
      /\ (seg + PARAS * n < WORD => (seg + n * PARAS) % WORD = seg + PARAS * n)
  <2> DEFINE x == seg + PARAS * n
  <2>1. x \in Int /\ 0 <= x /\ seg + n * PARAS = x
    BY <1>1, BootConstants
  <2> HIDE DEF x
  <2>2. x % WORD \in 0 .. WORD - 1 /\ (x < WORD => x % WORD = x)
    BY Zenon, <1>2, <2>1, BootConstants
  <2> QED BY <2>1, <2>2 DEF x
<1> QED BY <1>1, <1>3, <1>4, <1>5

\* A read keeps clear of the stack.
LEMMA ClearOfStack ==
  ASSUME NEW c \in Nat, NEW h \in Nat, NEW s \in Nat, NEW n \in Nat, seg \in Nat,
         s + n - 1 <= SPT, int13(c, h, s, n), seg + PARAS * n <= STACK_SEG,
         \A a \in DOMAIN memory : a \in Int /\ a + PARAS <= STACK_SEG
  PROVE  \A a \in DOMAIN memory' : a \in Int /\ a + PARAS <= STACK_SEG
<1>1. DOMAIN memory' = DOMAIN memory \union {seg + PARAS * g : g \in 0 .. n - 1}
  BY Zenon, Read
<1>2. ASSUME NEW g \in 0 .. n - 1
      PROVE  seg + PARAS * g \in Int /\ seg + PARAS * g + PARAS <= STACK_SEG
  <2>1. PARAS * (g + 1) <= PARAS * n /\ PARAS * (g + 1) = PARAS * g + PARAS
    BY TimesMonotone, BootConstants
  <2> DEFINE x == PARAS * g
             y == PARAS * n
  <2>2. x \in Int /\ y \in Int /\ x + PARAS <= y
    BY <2>1, BootConstants
  <2> HIDE DEF x, y
  <2>3. seg + y <= STACK_SEG
    BY Zenon DEF y
  <2>4. seg + x \in Int /\ seg + x + PARAS <= STACK_SEG
    BY <2>2, <2>3, BootConstants
  <2> QED BY <2>4 DEF x
<1> QED BY <1>1, <1>2

\* The place of a read on the disk.
LEMMA Chs ==
  ASSUME NEW l \in Nat
  PROVE  LET s == (l % SPT) + 1
             track == l \div SPT
             c == track \div HEADS
             h == track % HEADS
         IN  /\ s \in 1..SPT /\ track \in Nat /\ c \in Nat /\ h \in Nat
             /\ (c * HEADS + h) * SPT + s - 1 = l
             /\ l = track * SPT + s - 1
<1> DEFINE s == (l % SPT) + 1
           track == l \div SPT
           c == track \div HEADS
           h == track % HEADS
<1>1. SPT \in Nat /\ SPT >= 1 /\ HEADS \in Nat /\ HEADS >= 1
  BY BootConstants
<1>2. track \in Nat /\ l % SPT \in 0 .. SPT - 1 /\ l = track * SPT + (l % SPT)
  BY Zenon, <1>1, DivModNat
<1>3. s \in 1..SPT /\ l = track * SPT + s - 1
  <2> HIDE DEF track
  <2>1. track * SPT \in Int
    BY <1>1, <1>2
  <2> QED BY <1>1, <1>2, <2>1
<1> HIDE DEF track
<1>4. c \in Nat /\ h \in 0 .. HEADS - 1 /\ track = c * HEADS + h
  BY Zenon, <1>1, <1>2, DivModNat
<1> HIDE DEF c, h, s
<1>5. (c * HEADS + h) * SPT + s - 1 = l
  BY <1>3, <1>4
<1>6. h \in Nat
  BY <1>1, <1>4
<1> QED BY <1>2, <1>3, <1>4, <1>5, <1>6 DEF s, track, c, h

\* The boot sector's reads.
LEMMA DiskLoadKeeps == LoadInv /\ disk_load => LoadInv'
<1> SUFFICES ASSUME LoadInv, disk_load PROVE LoadInv'
  OBVIOUS
<1> DEFINE d == STAGE2_SECTORS - sectors_remaining
           r == sectors_remaining
<1>1. /\ loader = "boot_sector" /\ LoadTypeOK
      /\ r \in 0 .. BYTE - 1 /\ sectors \in 0 .. BYTE - 1 /\ seg \in Nat /\ sector \in Nat
      /\ r <= STAGE2_SECTORS /\ (r # 0 => sector = 2 + d)
      /\ seg = STAGE2_SEG + PARAS * d /\ ReadIn(memory, STAGE2_SEG, 1, d)
      /\ \A a \in DOMAIN memory : a \in Int /\ a + PARAS <= STACK_SEG
  <2>1. /\ loader = "boot_sector" /\ LoadTypeOK
        /\ {sectors, r, sector} \subseteq 0 .. BYTE - 1 /\ seg \in 0 .. WORD - 1
    BY DEF LoadInv, LoadTypeOK, disk_load
  <2>2. r \in 0 .. BYTE - 1 /\ sectors \in 0 .. BYTE - 1 /\ seg \in Nat /\ sector \in Nat
    BY <2>1, BootConstants
  <2> QED BY <2>1, <2>2 DEF LoadInv
<1>2. d \in Nat
  BY <1>1, BootConstants
<1>3. CASE r # 0
  <2> DEFINE n == Lesser(r, CHUNK)
  <2>1. n \in Nat /\ 1 <= n /\ n <= r
    BY <1>1, <1>3, BootConstants DEF Lesser
  <2>2. int13(0, 0, sector, n) /\ Advance(n)
    BY <1>1, <1>3 DEF disk_load
  <2> HIDE DEF n
  <2>3. sector + n - 1 <= SPT /\ d + n <= STAGE2_SECTORS
    BY <1>1, <1>3, <2>1, BootConstants
  <2>4. seg + PARAS * n = STAGE2_SEG + PARAS * (d + n) /\ seg + PARAS * n <= STACK_SEG
    <3>1. seg + PARAS * n = STAGE2_SEG + PARAS * (d + n)
      BY <1>1, <1>2, <2>1, BootConstants
    <3>2. PARAS * (d + n) <= PARAS * STAGE2_SECTORS
      BY <1>2, <2>1, <2>3, TimesMonotone, BootConstants
    <3>3. PARAS * 0 <= PARAS * (BYTE - 1) /\ PARAS * 0 = 0
      BY TimesMonotone, BootConstants
    <3> DEFINE x == PARAS * (d + n)
               y == PARAS * STAGE2_SECTORS
               z == PARAS * (BYTE - 1)
    <3>4. x \in Int /\ y \in Int /\ z \in Int /\ x <= y /\ 0 <= z
      BY <1>2, <2>1, <3>2, <3>3, BootConstants
    <3>5. STAGE2_SEG + y <= KERNEL_SEG /\ KERNEL_SEG + z <= STACK_SEG
      BY BootConstants
    <3> HIDE DEF x, y, z
    <3>6. STAGE2_SEG + x <= STACK_SEG
      BY <3>4, <3>5, BootConstants
    <3> QED BY <3>1, <3>6 DEF x
  <2>5. /\ r' = r - n /\ sector' \in 0 .. BYTE - 1 /\ (sector + n < BYTE => sector' = sector + n)
        /\ seg' = seg + PARAS * n /\ UNCHANGED <<loader, sectors>> /\ seg' \in 0 .. WORD - 1
    <3>1. seg + PARAS * n < WORD
      BY <1>1, <2>1, <2>4, BootConstants
    <3> QED BY Zenon, <1>1, <2>1, <2>2, <3>1, Counters
  <2>6. STAGE2_SECTORS - r' = d + n /\ r' \in 0 .. BYTE - 1 /\ r' <= STAGE2_SECTORS
        /\ (r' # 0 => sector' = 2 + (STAGE2_SECTORS - r'))
    BY <1>1, <1>3, <2>1, <2>3, <2>5, BootConstants
  <2>7. (0 * HEADS + 0) * SPT + sector - 1 = 1 + d
    BY <1>1, <1>2, <1>3, BootConstants
  <2>8. ReadIn(memory', STAGE2_SEG, 1, d + n)
    <3>1. ReadIn(memory, STAGE2_SEG, 1, d) /\ seg = STAGE2_SEG + PARAS * d
      BY <1>1
    <3>2. STAGE2_SEG \in Nat /\ 0 \in Nat /\ 1 \in Nat /\ seg \in Nat /\ sector \in Nat
      BY <1>1, BootConstants
    <3> HIDE DEF d
    <3> QED BY Zenon, <1>2, <2>1, <2>2, <2>3, <2>7, <3>1, <3>2, Extends
  <2>9. \A a \in DOMAIN memory' : a \in Int /\ a + PARAS <= STACK_SEG
    BY <1>1, <2>1, <2>2, <2>3, <2>4, ClearOfStack
  <2>10. LoadTypeOK'
    BY <1>1, <2>5, <2>6 DEF LoadTypeOK
  <2>11. seg' = STAGE2_SEG + PARAS * (STAGE2_SECTORS - r') /\ ReadIn(memory', STAGE2_SEG, 1, STAGE2_SECTORS - r')
    BY <2>4, <2>5, <2>6, <2>8
  <2>12. loader' = "boot_sector"
    BY Zenon, <1>1, <2>5
  <2> HIDE DEF d, r, n
  <2> QED BY Zenon, <2>6, <2>9, <2>10, <2>11, <2>12 DEF LoadInv, r
<1>4. CASE r = 0
  <2>1. /\ loader' = "stage_2" /\ r' = sectors /\ sector' = FIRST /\ seg' = KERNEL_SEG
        /\ UNCHANGED <<sectors, memory>>
    BY <1>1, <1>4 DEF disk_load
  <2>2. d = STAGE2_SECTORS /\ sectors - r' = 0 /\ sectors' - r' = 0
    BY <1>1, <1>4, <2>1, BootConstants
  <2>3. ReadIn(memory', STAGE2_SEG, 1, STAGE2_SECTORS) /\ ReadIn(memory', KERNEL_SEG, FIRST, 0)
    BY <1>1, <2>1, <2>2 DEF ReadIn
  <2>4. KERNEL_SEG \in 0 .. WORD - 1 /\ FIRST \in 0 .. BYTE - 1 /\ KERNEL_SEG = KERNEL_SEG + PARAS * 0
    <3>1. PARAS * 0 <= PARAS * (BYTE - 1) /\ PARAS * 0 = 0 /\ PARAS * (BYTE - 1) \in Int
      BY TimesMonotone, BootConstants
    <3> QED BY <3>1, BootConstants DEF FIRST
  <2>5. LoadTypeOK'
    BY <1>1, <2>1, <2>4 DEF LoadTypeOK
  <2> QED BY <1>1, <2>1, <2>2, <2>3, <2>4, <2>5, BootConstants DEF LoadInv, FIRST
<1> QED BY <1>3, <1>4

\* A read of stage 2 that leaves sectors to read ends at a track's end, and no
\* byte ends inside the tracks before the kernel's last: the counter does not wrap.
LEMMA TrackEnd ==
  ASSUME NEW track \in Nat, (track + 1) * SPT < FIRST + BYTE - 1
  PROVE  (track + 1) * SPT < BYTE
<1> DEFINE q == (BYTE - 1) \div SPT
<1>1. SPT \in Nat /\ SPT >= 1 /\ BYTE \in Nat /\ BYTE - 1 \in Nat /\ FIRST \in Nat
  BY BootConstants DEF FIRST
<1>2. q \in Nat /\ q * SPT <= BYTE - 1
  <2> DEFINE y == (BYTE - 1) % SPT
  <2>1. q \in Nat /\ y \in 0 .. SPT - 1 /\ BYTE - 1 = q * SPT + y
    BY <1>1, DivModNat
  <2> HIDE DEF q, y
  <2>2. q * SPT \in Int
    BY <1>1, <2>1
  <2> QED BY <1>1, <2>1, <2>2
<1>3. FIRST + BYTE - 1 <= (q + 1) * SPT
  BY BootLoadConstants
<1> HIDE DEF q
<1>4. SPT * (track + 1) = (track + 1) * SPT /\ SPT * (q + 1) = (q + 1) * SPT /\ SPT * q = q * SPT
      /\ (track + 1) * SPT \in Int /\ (q + 1) * SPT \in Int /\ q * SPT \in Int
  BY <1>1, <1>2
<1>5. track + 1 <= q
  <2>1. SUFFICES ASSUME q + 1 <= track + 1 PROVE FALSE
    BY <1>2
  <2>2. SPT * (q + 1) <= SPT * (track + 1)
    BY <1>1, <1>2, <2>1, TimesMonotone
  <2> QED BY <1>1, <1>3, <1>4, <2>2
<1>6. SPT * (track + 1) <= SPT * q
  BY <1>1, <1>2, <1>5, TimesMonotone
<1> QED BY <1>1, <1>2, <1>4, <1>6

\* The reads of stage 2.
LEMMA KernelLoadKeeps == LoadInv /\ load_kernel_stage2 => LoadInv'
<1> SUFFICES ASSUME LoadInv, load_kernel_stage2 PROVE LoadInv'
  OBVIOUS
<1> DEFINE d == sectors - sectors_remaining
           r == sectors_remaining
<1>1. /\ loader = "stage_2" /\ LoadTypeOK
      /\ r \in 0 .. BYTE - 1 /\ sectors \in 0 .. BYTE - 1 /\ seg \in Nat /\ sector \in 0 .. BYTE - 1
      /\ r <= sectors /\ (r # 0 => sector = FIRST + d)
      /\ seg = KERNEL_SEG + PARAS * d
      /\ ReadIn(memory, STAGE2_SEG, 1, STAGE2_SECTORS) /\ ReadIn(memory, KERNEL_SEG, FIRST, d)
      /\ \A a \in DOMAIN memory : a \in Int /\ a + PARAS <= STACK_SEG
  <2>1. /\ loader = "stage_2" /\ LoadTypeOK
        /\ {sectors, r, sector} \subseteq 0 .. BYTE - 1 /\ seg \in 0 .. WORD - 1
    BY DEF LoadInv, LoadTypeOK, load_kernel_stage2
  <2>2. r \in 0 .. BYTE - 1 /\ sectors \in 0 .. BYTE - 1 /\ seg \in Nat /\ sector \in 0 .. BYTE - 1
    BY <2>1, BootConstants
  <2> QED BY Zenon, <2>1, <2>2 DEF LoadInv
<1>2. d \in Nat /\ FIRST \in Nat /\ sector \in Nat
  BY <1>1, BootConstants DEF FIRST
<1>3. CASE r # 0
  <2> DEFINE s == (sector % SPT) + 1
             track == sector \div SPT
             c == track \div HEADS
             h == track % HEADS
             n == Lesser(Lesser(SectorsLeft(s), r), MAX_READ)
  <2>1. int13(c, h, s, n) /\ Advance(n)
    BY <1>1, <1>3 DEF load_kernel_stage2
  <2>2. /\ s \in 1..SPT /\ track \in Nat /\ c \in Nat /\ h \in Nat
        /\ (c * HEADS + h) * SPT + s - 1 = sector /\ sector = track * SPT + s - 1
    BY Zenon, <1>2, Chs
  <2> HIDE DEF s, track, c, h
  <2>3. n \in Nat /\ 1 <= n /\ n <= r /\ s + n - 1 <= SPT /\ (n # r => n = SPT + 1 - s)
    BY <1>1, <1>3, <2>2, BootConstants DEF Lesser, SectorsLeft
  <2> HIDE DEF n
  <2>4. r # n => sector + n < BYTE
    <3>1. SUFFICES ASSUME r # n PROVE sector + n < BYTE
      OBVIOUS
    <3>2. (track + 1) * SPT = track * SPT + SPT /\ track * SPT \in Int
      BY <2>2, BootConstants
    <3>3. sector + n = (track + 1) * SPT
      BY <2>2, <2>3, <3>1, <3>2, BootConstants
    <3>4. sector + n < FIRST + BYTE - 1
      BY <1>1, <1>2, <1>3, <2>3, <3>1, BootConstants
    <3> QED BY <2>2, <3>3, <3>4, TrackEnd
  <2>5. d + n <= sectors /\ d + n \in Nat /\ sectors <= BYTE - 1
    BY <1>1, <1>2, <2>3, BootConstants
  <2>6. seg + PARAS * n = KERNEL_SEG + PARAS * (d + n) /\ seg + PARAS * n <= STACK_SEG
    <3>1. seg + PARAS * n = KERNEL_SEG + PARAS * (d + n)
      BY <1>1, <1>2, <2>3, BootConstants
    <3>2. d + n <= BYTE - 1 /\ BYTE - 1 \in Int /\ d + n \in Int
      BY <1>1, <2>5, BootConstants
    <3> DEFINE x == PARAS * (d + n)
               y == PARAS * (BYTE - 1)
    <3>3. x \in Int /\ y \in Int /\ x <= y
      BY <3>2, TimesMonotone, BootConstants
    <3>4. KERNEL_SEG + y <= STACK_SEG
      BY BootConstants
    <3> HIDE DEF x, y
    <3>5. KERNEL_SEG + x <= STACK_SEG
      BY <3>3, <3>4, BootConstants
    <3> QED BY <3>1, <3>5 DEF x
  <2>7. /\ r' = r - n /\ sector' \in 0 .. BYTE - 1 /\ (sector + n < BYTE => sector' = sector + n)
        /\ seg' = seg + PARAS * n /\ UNCHANGED <<loader, sectors>> /\ seg' \in 0 .. WORD - 1
    <3>1. seg + PARAS * n < WORD
      BY <1>1, <2>3, <2>6, BootConstants
    <3> QED BY Zenon, <1>1, <2>1, <2>3, <3>1, Counters
  <2>8. sectors' - r' = d + n /\ r' \in 0 .. BYTE - 1 /\ r' <= sectors'
        /\ (r' # 0 => sector' = FIRST + (sectors' - r'))
    BY <1>1, <1>2, <1>3, <2>3, <2>4, <2>7, BootConstants
  <2>9. ReadIn(memory', KERNEL_SEG, FIRST, d + n)
    <3>1. ReadIn(memory, KERNEL_SEG, FIRST, d) /\ seg = KERNEL_SEG + PARAS * d /\ sector = FIRST + d
      BY <1>1, <1>3
    <3>2. KERNEL_SEG \in Nat /\ seg \in Nat /\ s \in Nat
      BY <1>1, <2>2, BootConstants
    <3> HIDE DEF d
    <3> QED BY Zenon, <1>2, <2>1, <2>2, <2>3, <3>1, <3>2, Extends
  <2>10. ReadIn(memory', STAGE2_SEG, 1, STAGE2_SECTORS)
    <3>1. PARAS * 0 <= PARAS * d /\ PARAS * 0 = 0 /\ PARAS * d \in Int /\ PARAS * STAGE2_SECTORS \in Int
      BY <1>2, TimesMonotone, BootConstants
    <3> DEFINE x == PARAS * d
               y == PARAS * STAGE2_SECTORS
    <3>2. x \in Int /\ 0 <= x /\ y \in Int /\ seg = KERNEL_SEG + x
      BY <1>1, <3>1
    <3>3. STAGE2_SEG + y <= KERNEL_SEG
      BY BootConstants
    <3> HIDE DEF x, y
    <3>4. STAGE2_SEG + y <= seg
      BY <3>2, <3>3, BootConstants
    <3>5. STAGE2_SEG + PARAS * STAGE2_SECTORS <= seg
      BY <3>4 DEF y
    <3>6. STAGE2_SEG \in Nat /\ STAGE2_SECTORS \in Nat /\ 1 \in Nat /\ seg \in Nat /\ s \in Nat
      BY <1>1, <2>2, BootConstants
    <3> QED BY Zenon, <1>1, <2>1, <2>2, <2>3, <3>5, <3>6, Extends
  <2>11. \A a \in DOMAIN memory' : a \in Int /\ a + PARAS <= STACK_SEG
    <3>1. s \in Nat
      BY <2>2, BootConstants
    <3> QED BY Zenon, <1>1, <2>1, <2>2, <2>3, <2>6, <3>1, ClearOfStack
  <2>12. LoadTypeOK'
    BY <1>1, <2>7, <2>8 DEF LoadTypeOK
  <2>13. seg' = KERNEL_SEG + PARAS * (sectors' - r') /\ ReadIn(memory', KERNEL_SEG, FIRST, sectors' - r')
    BY <2>6, <2>7, <2>8, <2>9
  <2>14. loader' = "stage_2"
    BY Zenon, <1>1, <2>7
  <2> HIDE DEF d, r, n
  <2> QED BY Zenon, <2>8, <2>10, <2>11, <2>12, <2>13, <2>14 DEF LoadInv, r
<1>4. CASE r = 0
  <2>1. loader' = "kernel" /\ UNCHANGED <<sectors, sectors_remaining, sector, seg, memory>>
    BY <1>1, <1>4 DEF load_kernel_stage2
  <2>2. LoadTypeOK'
    BY <1>1, <2>1 DEF LoadTypeOK
  <2> QED BY <1>1, <1>4, <2>1, <2>2 DEF LoadInv
<1> QED BY <1>3, <1>4

\* Nothing but the loaders writes, and what an error or the end leaves is kept.
LEMMA LoadStep == LoadInv /\ [LoadNext]_loading => LoadInv'
<1> SUFFICES ASSUME LoadInv, [LoadNext]_loading PROVE LoadInv'
  OBVIOUS
<1>1. CASE disk_error
  <2>1. loader' = "hang" /\ UNCHANGED <<sectors, sectors_remaining, sector, seg, memory>>
    BY Zenon, <1>1 DEF disk_error
  <2> QED BY <2>1 DEF LoadInv, LoadTypeOK
<1>2. CASE loaders_over \/ UNCHANGED loading
  BY Zenon, <1>2 DEF loaders_over, loading, LoadInv, LoadTypeOK
<1> QED BY Zenon, <1>1, <1>2, DiskLoadKeeps, KernelLoadKeeps DEF LoadNext

\* The loaders start with nothing read.
LEMMA LoadStart == LoadInit => LoadInv
<1> SUFFICES ASSUME LoadInit PROVE LoadInv
  OBVIOUS
<1>1. /\ loader = "boot_sector" /\ sectors \in 0 .. BYTE - 1 /\ sectors_remaining = STAGE2_SECTORS
      /\ sector = 2 /\ seg = STAGE2_SEG /\ DOMAIN memory = {}
  BY DEF LoadInit
<1>2. STAGE2_SECTORS \in 0 .. BYTE - 1 /\ 2 \in 0 .. BYTE - 1 /\ PARAS * 0 = 0
      /\ STAGE2_SECTORS - sectors_remaining = 0
  BY <1>1, BootConstants
<1>3. STAGE2_SEG \in 0 .. WORD - 1
  <2> DEFINE x == PARAS * STAGE2_SECTORS
             y == PARAS * (BYTE - 1)
  <2>1. PARAS * 0 <= x /\ PARAS * 0 <= y /\ x \in Int /\ y \in Int
    BY TimesMonotone, BootConstants
  <2>2. STAGE2_SEG + x <= KERNEL_SEG /\ KERNEL_SEG + y <= STACK_SEG
    BY BootConstants
  <2> HIDE DEF x, y
  <2> QED BY <1>2, <2>1, <2>2, BootConstants
<1>4. LoadTypeOK
  BY <1>1, <1>2, <1>3 DEF LoadTypeOK
<1>5. ReadIn(memory, STAGE2_SEG, 1, 0) /\ seg = STAGE2_SEG + PARAS * 0
  BY <1>1, <1>2, BootConstants DEF ReadIn
<1> QED BY <1>1, <1>2, <1>4, <1>5, BootConstants DEF LoadInv

\* When stage 2 jumps to the kernel all of it lies in memory in order, for every
\* size the byte of the boot sector can tell, with stage 2 and the stack as they were.
THEOREM LoadersPlaceTheKernel == LoadSpec => []KernelInPlace
<1>1. LoadInv => KernelInPlace
  <2> SUFFICES ASSUME LoadInv PROVE Placed
    BY DEF LoadInv, KernelInPlace
  <2> SUFFICES ASSUME loader = "kernel" PROVE Placed
    BY DEF Placed
  <2>1. /\ sectors_remaining = 0 /\ ReadIn(memory, STAGE2_SEG, 1, STAGE2_SECTORS)
        /\ ReadIn(memory, KERNEL_SEG, FIRST, sectors - sectors_remaining)
        /\ \A a \in DOMAIN memory : a + PARAS <= STACK_SEG
    BY Zenon DEF LoadInv
  <2>2. sectors - sectors_remaining = sectors
    BY <2>1, BootConstants DEF LoadInv, LoadTypeOK
  <2> QED BY <2>1, <2>2 DEF Placed, ReadIn
<1> QED BY <1>1, LoadStart, LoadStep, PTL DEF LoadSpec
===============================================================================
