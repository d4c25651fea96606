-------------------------------- MODULE Format --------------------------------
(***************************************************************************)
(* The formatters: vsnprintf and the output helpers of programs            *)
(* (libc/stdio.c), kprintf (klibc/stdio.c) and the text of a klog message  *)
(* (kernel/sys/klog.c).                                                    *)
(*                                                                         *)
(* A format is a sequence of items: a literal character, or a conversion   *)
(* with its flags, width, precision and argument as the parser finds them. *)
(* An argument is a word, a character, or the length of a string (Null:    *)
(* the null pointer).  %i is %d and %X is %x but for the case of letters;  *)
(* %? stands for every conversion a formatter does not know.  A behaviour  *)
(* builds a format item by item; the properties compare what the           *)
(* formatters make of it with what it says.                                *)
(***************************************************************************)
EXTENDS Integers, SequencesExt

CONSTANTS
  WORD,              \* 2^32: int, unsigned int and size_t
  PRINTF_BUFSZ,      \* buffer of vprintf (256)
  KLOG_MSG_MAX_LEN,  \* buffer of klog (128)
  MAX_ITEMS,         \* bound on the items of a format
  Words,             \* arguments of %d %u %x %o %p, in 0 .. WORD - 1
  Lengths,           \* arguments of %s
  Widths, Precisions,
  Sizes              \* buffer sizes given to vsnprintf

FormatConstants ==
  /\ {WORD, PRINTF_BUFSZ, KLOG_MSG_MAX_LEN, MAX_ITEMS} \subseteq Nat \ {0}
  /\ Words \subseteq 0 .. WORD - 1
  /\ Widths \union Precisions \union Sizes \subseteq Nat
  /\ \A n \in Sizes : n < WORD

\* Characters: a digit is its value, the k-th letter of a string is 100 + k.
SPACE == -1
MINUS == -2
LETTER_X == -3
PERCENT == -4
UNKNOWN == -5
CHAR == -6
NUL == -7
Null == -1
NoPrecision == -1
Letters(n) == [k \in 1..n |-> 100 + k]
NULL_TEXT == [k \in 1..6 |-> 200 + k]

Numbers == {"d", "u", "x", "o"}
Base(conv) == CASE conv \in {"d", "u"} -> 10 [] conv \in {"x", "p"} -> 16 [] conv = "o" -> 8

Item(conv, arg) ==
  [conv |-> conv, arg |-> arg, left |-> FALSE, zero |-> FALSE, width |-> 0,
   prec |-> NoPrecision]

Plain ==
  {Item(c, 0) : c \in {"text", "c", "%", "?"}}
    \union {Item(c, w) : c \in Numbers \union {"p"}, w \in Words}
    \union {Item("s", n) : n \in Lengths}

Items ==
  Plain \union {[i EXCEPT !.left = l, !.zero = z, !.width = w, !.prec = p] :
                  i \in {i \in Plain : i.conv \notin {"text", "%", "?"}},
                  l \in BOOLEAN, z \in BOOLEAN, w \in Widths,
                  p \in Precisions \union {NoPrecision}}

VARIABLE fmt

Init == fmt = <<>>

\* Conversions do not see each other: only the first carries flags, the others
\* move the end of the text past the ends of the buffers.
Next ==
  /\ Len(fmt) < MAX_ITEMS
  /\ \E i \in IF fmt = <<>> THEN Items ELSE Plain : fmt' = Append(fmt, i)
Spec == Init /\ [][Next]_fmt
------------------------------------------------------------------------------
Signed(w) == IF w < WORD \div 2 THEN w ELSE w - WORD
Repeat(n, ch) == [k \in 1..n |-> ch]
Greater(a, b) == IF a > b THEN a ELSE b
Lesser(a, b) == IF a < b THEN a ELSE b

\* The digits come out least significant first, and reverse() turns them round.
utoa(value, base) ==
  LET digits[n \in 0..value] ==
        IF n = 0 THEN <<>> ELSE <<n % base>> \o digits[n \div base]
  IN IF value = 0 THEN <<0>> ELSE Reverse(digits[value])

\* itoa in base 10; -value is taken in a word, where the least int is its own opposite.
itoa(w) ==
  IF Signed(w) < 0 THEN <<MINUS>> \o utoa((-Signed(w)) % WORD, 10) ELSE utoa(w, 10)

\* The payload a conversion leaves in conv, without sign and padding.
Converted(i) ==
  CASE i.conv = "d" -> utoa(IF Signed(i.arg) < 0 THEN (-Signed(i.arg)) % WORD ELSE i.arg, 10)
    [] i.conv \in Numbers \ {"d"} -> utoa(i.arg, Base(i.conv))
    [] i.conv = "p" -> <<0, LETTER_X>> \o utoa(i.arg, 16)
    [] i.conv = "c" -> <<CHAR>>
    [] i.conv = "s" ->
         LET text == IF i.arg = Null THEN NULL_TEXT ELSE Letters(i.arg)
         IN IF i.prec # NoPrecision THEN SubSeq(text, 1, Lesser(i.prec, Len(text))) ELSE text

\* Mutant: the 0 flag survives the - flag.
ZeroWinsOverLeft(i, zero_prefix) == i.zero /\ zero_prefix = 0

\* A precision overrides the 0 flag only when it adds digits.
ZeroFlag(i, zero_prefix) == i.zero /\ ~i.left /\ zero_prefix = 0

\* One conversion: [left-pad] [sign] [zero-pad] [zero-prefix] [conv] [right-pad]
Conversion(i) ==
  LET conv == Converted(i)
      sign == IF i.conv = "d" /\ Signed(i.arg) < 0 THEN <<MINUS>> ELSE <<>>
      zero_prefix == IF i.conv \in Numbers THEN Greater(i.prec - Len(conv), 0) ELSE 0
      pad == Greater(i.width - (Len(conv) + zero_prefix + Len(sign)), 0)
      zero == ZeroFlag(i, zero_prefix)
  IN (IF ~i.left /\ ~zero THEN Repeat(pad, SPACE) ELSE <<>>)
       \o sign
       \o (IF zero THEN Repeat(pad, 0) ELSE <<>>)
       \o Repeat(zero_prefix, 0)
       \o conv
       \o (IF i.left THEN Repeat(pad, SPACE) ELSE <<>>)

Emit(i) ==
  CASE i.conv = "text" -> <<CHAR>>
    [] i.conv = "%" -> <<PERCENT>>
    [] i.conv = "?" -> <<PERCENT, UNKNOWN>>
    [] OTHER -> Conversion(i)

Text(f) == FlattenSeq([k \in DOMAIN f |-> Emit(f[k])])

\* Mutant: the buffer is taken to be one byte larger than it is.
StoredToEnd(pos, size) == pos <= size

\* out_char stores at pos < size - 1, in size_t arithmetic, and always counts.
Stored(pos, size) == pos < (size - 1) % WORD

\* The bytes of the buffer that are written, and the number returned.
vsnprintf(size, f) ==
  LET text == Text(f)
      n == Len(text)
      stored == {pos \in 0 .. n - 1 : Stored(pos, size)}
      last == IF size > 0 THEN {IF n < size THEN n ELSE size - 1} ELSE {}
  IN [buf |-> [pos \in stored \union last |-> IF pos \in last THEN NUL ELSE text[pos + 1]],
      ret |-> n]

\* The text goes to SYS_WRITE in one call, cut at the end of the buffer.
vprintf(f) ==
  LET result == vsnprintf(PRINTF_BUFSZ, f)
      len == IF result.ret < PRINTF_BUFSZ THEN result.ret ELSE PRINTF_BUFSZ - 1
  IN [sent |-> [k \in 1..len |-> result.buf[k - 1]], ret |-> result.ret]

\* -val is taken as an int: the least int stays negative, and the loop over its
\* digits ends at once.
print_int(w) ==
  LET val == Signed(w)
      opposite == Signed((-val) % WORD)
  IN IF val < 0
       THEN <<MINUS>> \o (IF opposite > 0 THEN utoa(opposite, 10) ELSE <<>>)
       ELSE utoa(val, 10)

\* A piece of kprintf's output; flags and widths are not part of its language.
kprintf(i) ==
  CASE i.conv = "d" -> itoa(i.arg)
    [] i.conv \in {"u", "x"} -> utoa(i.arg, Base(i.conv))
    [] i.conv = "p" -> <<0, LETTER_X>> \o utoa(i.arg, 16)
    [] i.conv \in {"text", "c"} -> <<CHAR>>
    [] i.conv = "s" -> IF i.arg = Null THEN NULL_TEXT ELSE Letters(i.arg)
    [] i.conv = "%" -> <<PERCENT>>
    [] OTHER -> <<PERCENT, UNKNOWN>>

\* Mutant: a converted item may fill the buffer to its last byte.
PieceFillsBuffer(pos, i) ==
  LET piece == kprintf(i) IN SubSeq(piece, 1, Lesser(KLOG_MSG_MAX_LEN - pos, Len(piece)))

\* What klog adds to temp_buffer at pos: numbers and strings stop before its last
\* byte; a conversion it does not know (%p among them) adds its two characters
\* without looking.
Piece(pos, i) ==
  CASE i.conv \in {"o", "p", "?"} -> <<PERCENT, UNKNOWN>>
    [] i.conv = "s" /\ i.arg = Null -> <<>>
    [] OTHER -> LET piece == kprintf(i)
                IN SubSeq(piece, 1, Lesser((KLOG_MSG_MAX_LEN - 1) - pos, Len(piece)))

\* temp_buffer, without its terminator
klog(f) ==
  FoldLeft(LAMBDA text, i : IF Len(text) < KLOG_MSG_MAX_LEN - 1
                              THEN text \o Piece(Len(text), i) ELSE text, <<>>, f)
------------------------------------------------------------------------------
TypeOK == fmt \in Seq(Items) /\ Len(fmt) <= MAX_ITEMS

Value(digits, base) == FoldLeft(LAMBDA v, d : v * base + d, 0, digits)
Magnitude(i) == IF i.conv = "d" /\ Signed(i.arg) < 0 THEN -Signed(i.arg) ELSE i.arg

\* A numeric field reads back as its argument: spaces on one side only, then the sign,
\* then digits of the base; at least prec of them and at least width characters, with
\* leading zeros or spaces only to reach those.
NumberReads(i, text) ==
  LET core == SelectSeq(text, LAMBDA ch : ch # SPACE)
      spaces == Repeat(Len(text) - Len(core), SPACE)
      negative == core[1] = MINUS
      digits == IF negative THEN Tail(core) ELSE core
  IN /\ text = IF i.left THEN core \o spaces ELSE spaces \o core
     /\ \A k \in DOMAIN digits : digits[k] \in 0 .. Base(i.conv) - 1
     /\ Value(digits, Base(i.conv)) = Magnitude(i)
     /\ negative <=> i.conv = "d" /\ Signed(i.arg) < 0
     /\ Len(digits) >= Greater(i.prec, 1) /\ Len(text) = Greater(i.width, Len(core))
     /\ digits[1] = 0 /\ Len(digits) > 1 =>
          Len(digits) = i.prec \/ (i.zero /\ ~i.left /\ Len(core) = i.width)

\* %d %u %x %o of vsnprintf show their argument, the least int included, whatever the
\* flags, the width and the precision.
NumbersReadBack ==
  \A k \in DOMAIN fmt : fmt[k].conv \in Numbers => NumberReads(fmt[k], Emit(fmt[k]))

\* vsnprintf and vprintf write the longest prefix of the text that fits, then the
\* terminator, and no byte behind the buffer; they return the length of the text.
TruncationExact ==
  /\ \A size \in Sizes \ {0} :
       LET result == vsnprintf(size, fmt)
           len == Lesser(size - 1, result.ret)
       IN /\ DOMAIN result.buf = 0..len /\ result.buf[len] = NUL
          /\ \A k \in 1..len : result.buf[k - 1] = Text(fmt)[k]
          /\ result.ret = Len(Text(fmt))
  /\ vprintf(fmt).sent = SubSeq(Text(fmt), 1, Lesser(PRINTF_BUFSZ - 1, Len(Text(fmt))))

\* kprintf and vsnprintf give the same text for the conversions both know, and a klog
\* message of the conversions klog knows is that text, cut before the last byte of its
\* buffer.
FormattersAgree ==
  LET plain == {k \in DOMAIN fmt : fmt[k] \in Plain /\ fmt[k].conv # "o"}
      known == \A k \in plain : fmt[k].conv \notin {"p", "?"} /\ fmt[k] # Item("s", Null)
      whole == FlattenSeq([k \in DOMAIN fmt |-> kprintf(fmt[k])])
  IN /\ \A k \in plain : kprintf(fmt[k]) = Emit(fmt[k])
     /\ known /\ plain = DOMAIN fmt => klog(fmt) = SubSeq(whole, 1, Lesser(KLOG_MSG_MAX_LEN - 1, Len(whole)))

\* "If size is 0, nothing is written" (libc/stdio.h).  It does not hold: see README.md.
NothingWrittenForSizeZero == DOMAIN vsnprintf(0, fmt).buf = {}

\* "Precision overrides zero-pad flag for numbers" (libc/stdio.c).  It does not hold:
\* see README.md.
PrecisionOverridesZero ==
  \A k \in DOMAIN fmt :
    LET i == fmt[k] IN
    i.conv \in Numbers /\ i.prec # NoPrecision => Emit(i) = Emit([i EXCEPT !.zero = FALSE])

\* print_int shows its argument.  It does not hold for the least int: see README.md.
PrintIntShowsAll == \A w \in Words : print_int(w) = itoa(w)

\* The message and its terminator fit in temp_buffer.  They do not after a conversion
\* klog does not know: see README.md.
KlogFits == Len(klog(fmt)) < KLOG_MSG_MAX_LEN
===============================================================================
