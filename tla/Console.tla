------------------------------- MODULE Console -------------------------------
(***************************************************************************)
(* The console (src/src/contty.c) under formatted output: a text screen    *)
(* of NROWS lines that slides over a text buffer of VIRT_ROWS lines, its   *)
(* cursor and the registers of the CRT controller that show them.          *)
(*                                                                         *)
(* The text buffer is in cells of two bytes; a cell is <<char, attr>>.     *)
(***************************************************************************)
EXTENDS Printf, TLC

CONSTANTS
    NCOLS, NROWS, VIRT_ROWS,   \* 80, 25 and 200
    RegSize,       \* values of a CRTC register, 256
    Uses,          \* "console": calls that reach the screen; "format": s(n)printf
    Chars,         \* characters of con_putchar
    Attrs,         \* values of txattr
    ConFormats,    \* formats, as items, of printf and con_printf
    BufFormats,    \* formats of snprintf
    Sizes,         \* values of sz
    BootCursors,   \* the cursor as the boot loader leaves it
    MaxCalls       \* bound: calls of the program

ASSUME ConsoleAssumption ==
    /\ NCOLS \in Nat /\ NCOLS > 8 /\ NCOLS % 2 = 0
    /\ NROWS \in Nat \ {0} /\ VIRT_ROWS \in Nat /\ VIRT_ROWS > NROWS
    /\ RegSize * RegSize >= VIRT_ROWS * NCOLS /\ MaxCalls \in Nat

VARIABLES
    use, pc,       \* pc: "boot" or "run"
    con,           \* cursor_x, cursor_y, txattr, start_line, vmem and the CRTC registers
    cur,           \* cursor shape: cy0, cy1, curvis and the registers curstart, curend
    scr_on,
    calls,         \* number of calls made
    last,          \* the last call: its items and sz, and what it wrote
    term,          \* the terminal a reader of the code expects: grid, x, y
    stale          \* history: lines at the top of the screen that a wrap got wrong

vars == <<use, pc, con, cur, scr_on, calls, last, term, stale>>

Cells == 0 .. VIRT_ROWS * NCOLS - 1
Rows == 0 .. NROWS - 1
Cols == 0 .. NCOLS - 1
Blank(attr) == <<" ", attr>>
BootCell == <<"boot", 7>>
NoCall == [fn |-> "none", items |-> << >>, sz |-> 0, out |-> << >>,
           stored |-> << >>, buf |-> << >>]

-----------------------------------------------------------------------------
(***************************************************************************)
(* Operations on the screen, as functions of con.                          *)
(***************************************************************************)
crtc_cursor(c, x, y) ==
    LET addr == (y + c.start_line) * NCOLS + x
    IN [c EXCEPT !.curloc_l = addr % RegSize, !.curloc_h = (addr \div RegSize) % RegSize]
crtc_setstart(c, y) ==
    LET addr == y * NCOLS
    IN [c EXCEPT !.start_l = addr % RegSize, !.start_h = (addr \div RegSize) % RegSize]

con_putchar_scr(c, x, y, ch) ==
    [c EXCEPT !.vmem[(y + c.start_line) * NCOLS + x] = <<ch, c.txattr>>]

\* memcpy(TEXT_ADDR, TEXT_ADDR + start_line * NCOLS, ...): the offset is in bytes, so
\* the lines come from half way up
CopyUp(vm, line) ==
    [i \in Cells |-> IF i < (NROWS - 1) * NCOLS THEN vm[((line * NCOLS) \div 2) + i] ELSE vm[i]]
ClearLine(vm, line, attr) ==
    [i \in Cells |-> IF i \div NCOLS = line THEN Blank(attr) ELSE vm[i]]
\* Broken: one line too late.
Wraps_late(c) == c.start_line > VIRT_ROWS - NROWS
Wraps(c) == c.start_line + 1 > VIRT_ROWS - NROWS
\* Broken: the line revealed is the one after the last.
NewLine_next(start) == start + NROWS
NewLine(start) == start + NROWS - 1
scroll(c) ==
    LET start == IF Wraps(c) THEN 0 ELSE c.start_line + 1
        vm == IF Wraps(c) THEN CopyUp(c.vmem, c.start_line + 1) ELSE c.vmem
    IN crtc_setstart([c EXCEPT !.start_line = start,
                               !.vmem = ClearLine(vm, NewLine(start), c.txattr)], start)
linefeed(c) ==
    IF c.cursor_y + 1 >= NROWS THEN scroll(c) ELSE [c EXCEPT !.cursor_y = @ + 1]

\* Broken: the cursor is only moved in memory.
ToColumn_memory(c, x) == [c EXCEPT !.cursor_x = x]
\* cursor_x = x; crtc_cursor(cursor_x, cursor_y)
ToColumn(c, x) == crtc_cursor([c EXCEPT !.cursor_x = x], x, c.cursor_y)
\* a line feed when the column is past the end
Advance(c, x) == IF x >= NCOLS THEN ToColumn(linefeed(c), 0) ELSE ToColumn(c, x)
Back(x) == IF x > 0 THEN x - 1 ELSE 0
con_putchar(c, ch) ==
    CASE ch = "nl" -> ToColumn(linefeed(c), 0)
      [] ch = "cr" -> ToColumn(c, 0)
      [] ch = "tab" -> Advance(c, (c.cursor_x % 8) + 8)
      [] ch = "bs" -> ToColumn(con_putchar_scr(c, Back(c.cursor_x), c.cursor_y, " "), Back(c.cursor_x))
      [] OTHER -> Advance(con_putchar_scr(c, c.cursor_x, c.cursor_y, ch), c.cursor_x + 1)

\* what con_printf reads from its buffer: up to the terminator, and the last column
Shown(buf, x) ==
    LET len == CHOOSE n \in DOMAIN buf : buf[n] = NUL /\ \A i \in 0 .. n - 1 : buf[i] # NUL
    IN [k \in 1 .. (IF len < NCOLS - x THEN len ELSE NCOLS - x) |-> buf[k - 1]]

-----------------------------------------------------------------------------
(***************************************************************************)
(* The terminal a reader of the code expects: a grid whose lines move up.  *)
(***************************************************************************)
TermFeed(t, attr) ==
    IF t.y < NROWS - 1 THEN [t EXCEPT !.y = @ + 1]
    ELSE [t EXCEPT !.grid = [r \in Rows |-> IF r < NROWS - 1 THEN t.grid[r + 1]
                                            ELSE [k \in Cols |-> Blank(attr)]]]
TermTo(t, x, attr) == IF x >= NCOLS THEN [TermFeed(t, attr) EXCEPT !.x = 0] ELSE [t EXCEPT !.x = x]
\* A tab in column 0 goes to column 8.  Elsewhere the code does not reach the next
\* multiple of 8, and the terminal follows it.
TermPut(t, ch, attr) ==
    CASE ch = "nl" -> [TermFeed(t, attr) EXCEPT !.x = 0]
      [] ch = "cr" -> [t EXCEPT !.x = 0]
      [] ch = "tab" -> TermTo(t, IF t.x = 0 THEN 8 ELSE (t.x % 8) + 8, attr)
      [] ch = "bs" -> [t EXCEPT !.x = Back(t.x), !.grid[t.y][Back(t.x)] = Blank(attr)]
      [] OTHER -> TermTo([t EXCEPT !.grid[t.y][t.x] = <<ch, attr>>], t.x + 1, attr)

-----------------------------------------------------------------------------
Init ==
    /\ use \in Uses /\ pc = "boot"
    /\ \E p \in BootCursors, off \in BOOLEAN :
        /\ use = "format" => ~off /\ p = <<0, 0>>
        /\ con = [cursor_x |-> p[1], cursor_y |-> p[2], txattr |-> 7, start_line |-> 0,
                  vmem |-> [i \in Cells |-> BootCell],
                  start_h |-> 0, start_l |-> 0, curloc_h |-> 0, curloc_l |-> 0]
        /\ term = [grid |-> [r \in Rows |-> [k \in Cols |-> BootCell]], x |-> p[1], y |-> p[2]]
        /\ cur = [cy0 |-> 0, cy1 |-> 0, curvis |-> FALSE, curstart |-> 13, off |-> off, curend |-> 14]
    /\ scr_on = TRUE /\ calls = 0 /\ last = NoCall /\ stale = 0

Shape(show) == [cur EXCEPT !.curstart = cur.cy0, !.off = ~show, !.curvis = show]

\* con_init: the shape is read back before the cursor is shown
con_init ==
    /\ pc = "boot" /\ pc' = "run"
    /\ cur' = [cur EXCEPT !.cy0 = cur.curstart, !.cy1 = cur.curend, !.off = FALSE, !.curvis = TRUE]
    /\ con' = crtc_cursor(crtc_setstart(con, 0), con.cursor_x, con.cursor_y)
    /\ scr_on' = TRUE
    /\ UNCHANGED <<use, calls, last, term, stale>>

\* a call of the program
Call(u) == pc = "run" /\ use = u /\ calls < MaxCalls /\ calls' = calls + 1 /\ UNCHANGED <<use, pc>>

con_scr_enable == Call("console") /\ scr_on' = TRUE /\ last' = NoCall /\ UNCHANGED <<con, cur, term, stale>>
con_scr_disable == Call("console") /\ scr_on' = FALSE /\ last' = NoCall /\ UNCHANGED <<con, cur, term, stale>>
con_show_cursor ==
    /\ Call("console")
    /\ \E show \in BOOLEAN : cur' = Shape(show)
    /\ last' = NoCall /\ UNCHANGED <<con, scr_on, term, stale>>
con_curattr ==
    /\ Call("console")
    /\ \E line \in BOOLEAN :
        LET start == IF line THEN 13 ELSE 0
        IN cur' = [cur EXCEPT !.cy0 = start, !.cy1 = 14, !.curstart = start, !.off = cur.curvis,
                              !.curend = start]
    /\ last' = NoCall /\ UNCHANGED <<con, scr_on, term, stale>>
con_setattr ==
    /\ Call("console")
    /\ \E attr \in Attrs \ {con.txattr} : con' = [con EXCEPT !.txattr = attr]
    /\ last' = NoCall /\ UNCHANGED <<cur, scr_on, term, stale>>
con_cursor ==
    /\ Call("console")
    /\ \E p \in BootCursors :
        /\ con' = crtc_cursor([con EXCEPT !.cursor_x = p[1], !.cursor_y = p[2]], p[1], p[2])
        /\ term' = [term EXCEPT !.x = p[1], !.y = p[2]]
    /\ last' = NoCall /\ UNCHANGED <<cur, scr_on, stale>>
Cleared(c) ==
    crtc_cursor(crtc_setstart([c EXCEPT !.start_line = 0, !.cursor_x = 0, !.cursor_y = 0,
        !.vmem = [i \in Cells |-> IF i < NCOLS * NROWS THEN Blank(c.txattr) ELSE @[i]]], 0), 0, 0)
con_clear ==
    /\ Call("console")
    /\ con' = Cleared(con)
    /\ term' = [grid |-> [r \in Rows |-> [k \in Cols |-> Blank(con.txattr)]], x |-> 0, y |-> 0]
    /\ stale' = 0
    /\ last' = NoCall /\ UNCHANGED <<cur, scr_on>>

\* characters one by one; a character that scrolls moves the stale lines up
PutOne(w, ch) ==
    LET c == con_putchar(w.con, ch)
        moved == c.start_line # w.con.start_line
    IN [con |-> c, term |-> TermPut(w.term, ch, w.con.txattr),
        stale |-> IF moved /\ c.start_line = 0 THEN NROWS - 1
                  ELSE IF moved /\ w.stale > 0 THEN w.stale - 1 ELSE w.stale]
PutAll(str) ==
    IF scr_on
    THEN \E w \in {FoldLeft(PutOne, [con |-> con, term |-> term, stale |-> stale], str)} :
            con' = w.con /\ term' = w.term /\ stale' = w.stale
    ELSE UNCHANGED <<con, term, stale>>
putchar ==
    /\ Call("console")
    /\ \E ch \in Chars : PutAll(<<ch>>)
    /\ last' = NoCall /\ UNCHANGED <<cur, scr_on>>

Done(fn, items, sz, r, buf) ==
    last' = [fn |-> fn, items |-> items, sz |-> sz, out |-> Flat(r.writes),
             stored |-> r.stored, buf |-> buf]
printf ==
    /\ Call("console")
    /\ \E items \in ConFormats :
        \E r \in {intern_printf(FormatOf(items), ArgsOf(items))} :
            PutAll(Flat(r.writes)) /\ Done("printf", items, 0, r, << >>)
    /\ UNCHANGED <<cur, scr_on>>
\* the text goes to a buffer of NCOLS + 1 bytes first
con_printf ==
    /\ Call("console")
    /\ \E items \in ConFormats, p \in BootCursors :
        \E r \in {intern_printf(FormatOf(items), ArgsOf(items))} :
        \E buf \in {vsnprintf(NCOLS, r.writes)} :
        \E str \in {Shown(buf, p[1])} :
            /\ con' = FoldLeft(LAMBDA c, k : con_putchar_scr(c, p[1] + k - 1, p[2], str[k]),
                               con, [k \in DOMAIN str |-> k])
            /\ term' = [term EXCEPT !.grid[p[2]] =
                           [x \in Cols |-> IF x - p[1] + 1 \in DOMAIN str
                                           THEN <<str[x - p[1] + 1], con.txattr>> ELSE @[x]]]
            /\ Done("con_printf", items, NCOLS, r, buf)
    /\ UNCHANGED <<cur, scr_on, stale>>
\* nothing is kept from one call to the next, so one is enough
snprintf ==
    /\ Call("format") /\ last = NoCall
    /\ \E items \in BufFormats, sz \in Sizes :
        \E r \in {intern_printf(FormatOf(items), ArgsOf(items))} :
            Done("snprintf", items, sz, r, vsnprintf(sz, r.writes))
    /\ UNCHANGED <<con, cur, scr_on, term, stale>>

finished == (calls = MaxCalls \/ use = "format") /\ pc = "run" /\ UNCHANGED vars

Next ==
    \/ con_init \/ con_scr_enable \/ con_scr_disable \/ con_show_cursor \/ con_curattr
    \/ con_setattr \/ con_cursor \/ con_clear \/ putchar \/ printf \/ con_printf \/ snprintf
    \/ finished
Spec == Init /\ [][Next]_vars

-----------------------------------------------------------------------------
TypeOK ==
    /\ con.cursor_x \in Cols /\ con.cursor_y \in Rows /\ con.txattr \in Attrs
    /\ con.start_line \in 0 .. VIRT_ROWS - NROWS /\ DOMAIN con.vmem = Cells
    /\ {con.start_h, con.start_l, con.curloc_h, con.curloc_l} \subseteq 0 .. RegSize - 1
    /\ {cur.off, cur.curvis, scr_on} \subseteq BOOLEAN /\ stale \in Rows

\* What the hardware shows, from the line its start register names on, is what a terminal
\* would show, line feeds, scrolling and attributes included, below the lines that a wrap to
\* the top of the text buffer brought up from the wrong place and that have not scrolled
\* off yet (scroll's memcpy takes its offset for bytes).
ScreenIsExact ==
    pc = "run" =>
        \A r \in stale .. NROWS - 1, x \in Cols :
            con.vmem[con.start_h * RegSize + con.start_l + r * NCOLS + x] = term.grid[r][x]

\* The cursor the hardware shows is where the next character will appear.
CursorMatches ==
    pc = "run" =>
        /\ con.curloc_h * RegSize + con.curloc_l
              = con.start_h * RegSize + con.start_l + term.y * NCOLS + term.x
        /\ con.cursor_x = term.x /\ con.cursor_y = term.y

\* printf and its relatives produce what C says, for every sequence of regular conversions:
\* none disturbs the ones after it; %n stores the number of characters before it.
FormatIsRight ==
    Regular(last.items) =>
        /\ last.out = Reference(last.items)
        /\ LET ns == SelectSeq([k \in DOMAIN last.items |-> k], LAMBDA k : last.items[k].conv = "n")
           IN last.stored = [i \in DOMAIN ns |-> Len(Reference(SubSeq(last.items, 1, ns[i] - 1)))]

\* A text that fits, with its terminator, in the sz bytes given to snprintf is in the buffer
\* with its terminator, whatever pieces it was put together from, and nothing past it was
\* touched.
FittingTextIsExact ==
    (last.fn \in {"snprintf", "con_printf"} /\ (last.sz = 0 \/ Len(last.out) < last.sz)) =>
        /\ last.out # << >> => DOMAIN last.buf = 0 .. Len(last.out)
        /\ \A i \in DOMAIN last.buf :
               last.buf[i] = IF i = Len(last.out) THEN NUL ELSE last.out[i + 1]

\* sz, which "is used by the (v)snprintf variants to avoid buffer overflows", is the size of
\* the buffer: no byte is written at buf[sz] or past it.
NothingPastSize == last.sz # 0 => DOMAIN last.buf \subseteq 0 .. last.sz - 1

\* sz is the "maximum size of the output", not counting the terminator, which con_printf
\* has room for: at most sz characters are written.
OutputIsBounded ==
    last.sz # 0 => \A i \in DOMAIN last.buf : last.buf[i] # NUL => i < last.sz

\* The screen shows what a terminal would show, with the cursor where it would be.
ScreenInv == TypeOK /\ ScreenIsExact /\ CursorMatches
=============================================================================
