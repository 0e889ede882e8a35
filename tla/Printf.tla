------------------------------- MODULE Printf -------------------------------
(***************************************************************************)
(* Formatted output (src/src/libc/stdio.c: intern_printf, bwrite) and the  *)
(* number conversions it uses (src/src/libc/stdlib.c: itoa, utoa, atoi).   *)
(*                                                                         *)
(* A format is a sequence of characters, a character a string of length 1. *)
(* intern_printf is the fold of FormatChar over the format; it yields the  *)
(* sequence of its calls of bwrite.  A string argument is a sequence of    *)
(* characters, every other argument one word.                              *)
(***************************************************************************)
EXTENDS Integers, Sequences, FiniteSets, SequencesExt

CONSTANT WordBits          \* width of int, 32

ASSUME PrintfAssumption == WordBits \in Nat /\ WordBits >= 4

Modulus == 2 ^ WordBits
MinInt == -(2 ^ (WordBits - 1))
Unsigned(n) == n % Modulus

Digit == <<"0", "1", "2", "3", "4", "5", "6", "7", "8", "9", "a", "b", "c", "d", "e", "f">>
Caps == <<"0", "1", "2", "3", "4", "5", "6", "7", "8", "9", "A", "B", "C", "D", "E", "F">>
IsDigit(ch) == \E i \in 1 .. 10 : Digit[i] = ch
DigitValue(ch) == (CHOOSE i \in 1 .. 16 : Digit[i] = ch) - 1
\* toupper over a converted number
ToUpper(s) == [k \in DOMAIN s |-> IF s[k] \in Range(Digit) THEN Caps[DigitValue(s[k]) + 1] ELSE s[k]]

\* utoa: the digits come out in reverse and are turned round
utoa(val, base) ==
    LET D[v \in Nat] == IF v = 0 THEN << >> ELSE Append(D[v \div base], Digit[(v % base) + 1])
    IN IF val = 0 THEN <<"0">> ELSE D[val]
\* itoa: the sign is stripped first, which the smallest int does not survive: its
\* remainders are negative and come out as characters below "0"
itoa(val, base) ==
    CASE val >= 0 -> utoa(val, base)
      [] val < 0 /\ val # MinInt -> <<"-">> \o utoa(-val, base)
      [] val = MinInt -> <<"-">> \o [k \in DOMAIN utoa(-MinInt, base) |-> "?"]

-----------------------------------------------------------------------------
\* The state of intern_printf.
FormatStart(args) ==
    [fstart |-> FALSE, base |-> 10, alt |-> FALSE, fwidth |-> 0, padc |-> " ", sign |-> FALSE,
     left_align |-> FALSE, hex_caps |-> FALSE, unsig |-> FALSE,
     inwidth |-> FALSE,    \* inside the loop over the digits of a width
     cnum |-> 0, args |-> args, writes |-> << >>, stored |-> << >>]

Write(s, str) == [s EXCEPT !.writes = Append(@, str), !.cnum = @ + Len(str)]
WriteIf(s, cond, str) == IF cond THEN Write(s, str) ELSE s

\* padding to fwidth around a converted value; plus is the "+" or << >>
Pads(s, n) == [k \in 1 .. (IF s.fwidth > n THEN s.fwidth - n ELSE 0) |->
                 <<IF s.left_align THEN " " ELSE s.padc>>]
WriteAll(s, strs) == FoldLeft(Write, s, strs)
Padded(s, plus, str) ==
    IF s.left_align
    THEN WriteAll(Write(WriteIf(s, plus # << >>, plus), str), Pads(s, Len(str)))
    ELSE Write(WriteIf(WriteAll(s, Pads(s, Len(str))), plus # << >>, plus), str)

\* the conversions d, i, u, o, x, X, p after their case labels
Number(s, val) ==
    LET digits == IF s.unsig THEN utoa(Unsigned(val), s.base) ELSE itoa(val, s.base)
    IN Padded(s, IF ~s.unsig /\ s.sign /\ val >= 0 THEN <<"+">> ELSE << >>,
              IF s.hex_caps THEN ToUpper(digits) ELSE digits)

Conversions == {"d", "i", "o", "x", "X", "u", "c", "s", "p", "n"}
\* the switch: a conversion and its argument
Convert(s, ch) ==
    LET arg == Head(s.args)
        t == [s EXCEPT !.args = Tail(@)]
    IN CASE ch \in {"x", "X", "p"} ->
              Number([WriteIf(t, t.alt, <<"0", "x">>) EXCEPT
                         !.base = 16, !.unsig = TRUE, !.hex_caps = @ \/ ch = "X"], arg)
         [] ch = "u" -> Number([t EXCEPT !.unsig = TRUE], arg)
         [] ch = "o" -> Number([WriteIf(t, t.alt, <<"0">>) EXCEPT !.base = 8], arg)
         [] ch \in {"d", "i"} -> Number(t, arg)
         [] ch = "c" -> Write(t, <<arg>>)
         [] ch = "s" -> Padded(t, << >>, arg)
         [] ch = "n" -> [t EXCEPT !.stored = Append(@, t.cnum)]

\* Broken: the width of a conversion is kept for the next one.
Restore_width(s) ==
    [s EXCEPT !.base = 10, !.alt = FALSE, !.padc = " ", !.hex_caps = FALSE, !.fstart = FALSE]
\* "restore default conversion state"
Restore(s) ==
    [s EXCEPT !.base = 10, !.alt = FALSE, !.fwidth = 0, !.padc = " ", !.hex_caps = FALSE,
              !.fstart = FALSE]

\* one character of the format
FormatChar(s0, ch) ==
    LET s == [s0 EXCEPT !.inwidth = FALSE]
    IN CASE ch = "%" -> [s EXCEPT !.fstart = TRUE]
         [] ch # "%" /\ ~s.fstart -> Write(s, <<ch>>)
         [] s.fstart /\ ch \in Conversions -> Restore(Convert(s, ch))
         [] s.fstart /\ IsDigit(ch) /\ (ch # "0" \/ s0.inwidth) ->
              [s EXCEPT !.fwidth = DigitValue(ch) + (IF s0.inwidth THEN 10 * @ ELSE 0),
                        !.inwidth = TRUE]
         [] s.fstart /\ ch = "0" /\ ~s0.inwidth -> [s EXCEPT !.padc = "0"]
         [] s.fstart /\ ch \in {"#", "+", "-", "l"} ->
              [s EXCEPT !.alt = @ \/ ch = "#", !.sign = @ \/ ch = "+",
                        !.left_align = @ \/ ch = "-"]
         [] OTHER -> s

intern_printf(fmt, args) == FoldLeft(FormatChar, FormatStart(args), fmt)
Flat(seqs) == FoldLeft(LAMBDA a, b : a \o b, << >>, seqs)

-----------------------------------------------------------------------------
\* bwrite with OUT_BUF: the buffer as the bytes written so far.  SZ(sz) counts down as a
\* size_t, and 0 means without limit.
NUL == "nul"
Room(sz, cnum, n) ==
    LET left == IF sz = 0 THEN 0 ELSE Unsigned(sz - cnum)
    IN IF left # 0 /\ left <= n THEN left ELSE n
\* Broken: every piece goes to the front of the buffer.
Stored_front(buf, at, str, n) ==
    [i \in DOMAIN buf \union 0 .. n |->
        IF i \in 0 .. n - 1 THEN str[i + 1] ELSE IF i = n THEN NUL ELSE buf[i]]
Stored(buf, at, str, n) ==
    [i \in DOMAIN buf \union at .. at + n |->
        IF i \in at .. at + n - 1 THEN str[i - at + 1] ELSE IF i = at + n THEN NUL ELSE buf[i]]
bwrite(sz, w, str) ==
    [buf |-> Stored(w.buf, w.cnum, str, Room(sz, w.cnum, Len(str))), cnum |-> w.cnum + Len(str)]
\* vsnprintf over the writes of intern_printf; sz = 0 is vsprintf
vsnprintf(sz, writes) ==
    FoldLeft(LAMBDA w, str : bwrite(sz, w, str), [buf |-> << >>, cnum |-> 0], writes).buf

-----------------------------------------------------------------------------
(***************************************************************************)
(* What C says of a format, conversion by conversion.  A format is given   *)
(* as items [flags, width, conv, arg]; conv = "lit" is the character arg.  *)
(***************************************************************************)
Render(it) ==
    IF it.conv = "lit" THEN <<it.arg>>
    ELSE IF it.conv = "%" THEN <<"%", "%">>
    ELSE <<"%">> \o SelectSeq(<<"#", "+", "-", "0", "l">>, LAMBDA f : f \in it.flags)
         \o (IF it.width = 0 THEN << >> ELSE utoa(it.width, 10)) \o <<it.conv>>
FormatOf(items) == Flat([k \in DOMAIN items |-> Render(items[k])])
Consuming(it) == it.conv \notin {"lit", "%"}
ArgsOf(items) ==
    LET c == SelectSeq(items, Consuming) IN [k \in DOMAIN c |-> c[k].arg]

IsNumber(it) == it.conv \in {"d", "u", "o", "x", "X"}
Prefix(it) ==
    CASE it.conv = "d" -> IF it.arg < 0 THEN <<"-">> ELSE IF "+" \in it.flags THEN <<"+">> ELSE << >>
      [] it.conv = "x" /\ "#" \in it.flags -> <<"0", "x">>
      [] OTHER -> << >>
Magnitude(it) ==
    CASE it.conv = "d" -> utoa(IF it.arg < 0 THEN -it.arg ELSE it.arg, 10)
      [] it.conv = "u" -> utoa(Unsigned(it.arg), 10)
      [] it.conv = "o" -> utoa(Unsigned(it.arg), 8)
      [] it.conv = "x" -> utoa(Unsigned(it.arg), 16)
      [] it.conv = "X" -> ToUpper(utoa(Unsigned(it.arg), 16))
      [] it.conv \in {"c", "lit"} -> <<it.arg>>
      [] it.conv = "s" -> it.arg
      [] it.conv = "%" -> <<"%">>
      [] it.conv = "n" -> << >>
Spaces(n, ch) == [k \in 1 .. (IF n > 0 THEN n ELSE 0) |-> ch]
Formatted(it) ==
    LET fill == it.width - Len(Prefix(it) \o Magnitude(it))
    IN CASE "-" \in it.flags -> Prefix(it) \o Magnitude(it) \o Spaces(fill, " ")
         [] "-" \notin it.flags /\ "0" \in it.flags -> Prefix(it) \o Spaces(fill, "0") \o Magnitude(it)
         [] OTHER -> Spaces(fill, " ") \o Prefix(it) \o Magnitude(it)
Reference(items) == Flat([k \in DOMAIN items |-> Formatted(items[k])])

\* The formats on which intern_printf keeps to C.  Outside them: "-", "+" and unsigned
\* conversions leave their mark on the conversions that follow; a sign or "0x" is not
\* counted in the width, and zeros come before a sign; a negative number in octal is
\* signed; the smallest int is garbled; "%c" takes no width; "%%" prints nothing and makes
\* what follows a conversion.
Regular(items) ==
    \A k \in DOMAIN items :
        LET it == items[k]
            Before(P(_)) == \E j \in 1 .. k - 1 : P(items[j])
        IN /\ it.conv # "%"
           /\ it.width > 0 /\ "-" \notin it.flags => ~Before(LAMBDA p : "-" \in p.flags)
           /\ it.conv = "c" => it.width = 0
           /\ it.conv = "d" =>
                /\ it.arg # MinInt
                /\ Before(LAMBDA p : p.conv \in {"u", "x", "X"}) => it.arg >= 0 /\ "+" \notin it.flags
                /\ Before(LAMBDA p : "+" \in p.flags) => "+" \in it.flags
                /\ "0" \in it.flags => it.arg >= 0
           /\ it.conv = "o" =>
                /\ it.arg >= 0 \/ Before(LAMBDA p : p.conv \in {"u", "x", "X"})
                /\ ~Before(LAMBDA p : "+" \in p.flags)
           /\ {"+", "#"} \intersect it.flags # {} => it.width = 0
           /\ "+" \in it.flags => it.conv = "d"
           /\ "#" \in it.flags => it.conv = "x" /\ it.arg # 0
           /\ it.conv = "s" => "0" \notin it.flags
=============================================================================
