------------------------------- MODULE Serial -------------------------------
(***************************************************************************)
(* The serial driver (src/src/serial.c): the receive interrupt, which      *)
(* serves both UARTs whichever of them raised it, and the main program,    *)
(* which opens and closes ports and reads the receive rings with           *)
(* interrupts enabled.                                                     *)
(*                                                                         *)
(* Received characters are named by their position in rx[i], what port i   *)
(* has received so far; 0 stands for the zeroes memset leaves.  The driver *)
(* is compiled without optimisation, so that every use of an index is a    *)
(* load or a store of its own; the handler runs with interrupts off.       *)
(***************************************************************************)
EXTENDS Integers, Sequences, FiniteSets, SequencesExt

CONSTANTS
    BUFSZ,       \* size of inbuf (256)
    WORD,        \* characters that one store of memset covers (4)
    LINESZ,      \* size of linebuf (512)
    FifoSize,    \* what a UART holds (16 characters)
    Programs,    \* the programs of a run: their ports, the functions they call, the
                 \* kinds of characters that arrive, and how many on a port at most
    Texts,       \* what is passed to ser_write
    Counts,      \* counts of ser_read, and buffer sizes of ser_getline
    MaxSent      \* bound: characters written

Ports == {0, 1}
Empty == "empty"

ASSUME SerialAssumption ==
    /\ {BUFSZ, LINESZ} \subseteq Nat \ {0, 1}
    /\ FifoSize \in Nat \ {0} /\ MaxSent \in Nat /\ Counts \subseteq Nat \ {0}
    /\ \A p \in Programs : p.ports \subseteq Ports /\ p.recv \in Nat
    /\ \A t \in Texts : t # << >> /\ t \in Seq({t[k] : k \in DOMAIN t} \ {Empty})

ASSUME WordAssumption == WORD \in Nat \ {0}

VARIABLES
    prog,       \* the program, fixed
    port,       \* ports[]: open (base # 0), blocking, inbuf, ridx, widx
    num_open,
    linebuf,    \* the used part of ser_getline's static buffer
    uart,       \* environment: receive fifo, interrupt enable, divisor latch access,
                \* transmit holding register
    rx, sent,   \* environment: what has been received, and sent, on each line
    pc, fn, fd, cnt, tmp, chr, out,    \* the main program: where it is, its arguments
                                       \* and registers
    last,       \* history: the last character ser_getc took from each ring
    line,       \* the result of the last ser_getline, if it found a line
    lines,      \* history: how much of rx the lines returned so far used up
    since,      \* history: what the handler had seen of rx when ser_open emptied the ring
    text,       \* history: what was passed to ser_write
    ovf,        \* history: the ring has overflowed ("clean"), did so inside ser_getc
                \* ("raced"), or inside the memset of ser_open ("torn")
    shared,     \* history: both ports have been open at once
    status      \* "running", "panic", or "spin" in the handler for ever

hist == <<last, line, lines, since, text, ovf, shared>>
regs == <<fd, cnt, tmp, chr, out>>
dev == <<uart, rx, sent>>
vars == <<prog, port, num_open, linebuf, dev, pc, fn, regs, hist, status>>

Closed == [open |-> FALSE, blocking |-> FALSE, inbuf |-> [i \in 0 .. BUFSZ - 1 |-> 0],
           ridx |-> 0, widx |-> 0]

Init ==
    /\ prog \in Programs
    /\ port = [i \in Ports |-> Closed]
    /\ num_open = 0 /\ linebuf = << >>
    /\ uart = [i \in Ports |-> [fifo |-> << >>, ier |-> FALSE, dlab |-> FALSE, thr |-> Empty]]
    /\ rx = [i \in Ports |-> << >>] /\ sent = [i \in Ports |-> << >>]
    /\ pc = "idle" /\ fn = "none"
    /\ fd = 0 /\ cnt = 0 /\ tmp = 0 /\ chr = 0 /\ out = << >>
    /\ last = [i \in Ports |-> 0] /\ line = << >> /\ lines = 0
    /\ since = [i \in Ports |-> 0] /\ text = << >>
    /\ ovf = [i \in Ports |-> "none"] /\ shared = FALSE
    /\ status = "running"

BNEXT(x) == (x + 1) % BUFSZ
Running == status = "running"
At(l) == pc = l /\ Running

-----------------------------------------------------------------------------
(***************************************************************************)
(* The UARTs.  A character that finds the fifo full is lost in the UART;   *)
(* one with a parity, framing or break error ("err") marks the line status *)
(* until it is read.                                                       *)
(***************************************************************************)
receive(i, c) ==
    /\ Running /\ i \in prog.ports
    /\ Len(uart[i].fifo) < FifoSize
    /\ Len(rx[i]) < prog.recv
    /\ rx' = [rx EXCEPT ![i] = Append(@, c)]
    /\ uart' = [uart EXCEPT ![i].fifo = Append(@, Len(rx[i]) + 1)]
    /\ UNCHANGED <<prog, port, num_open, linebuf, sent, pc, fn, regs, hist, status>>

transmit(i) ==
    /\ Running
    /\ uart[i].thr # Empty
    /\ sent' = [sent EXCEPT ![i] = Append(@, uart[i].thr)]
    /\ uart' = [uart EXCEPT ![i].thr = Empty]
    /\ UNCHANGED <<prog, port, num_open, linebuf, rx, pc, fn, regs, hist, status>>

Pending(i) == uart[i].ier /\ uart[i].fifo # << >>       \* IID_PENDING is clear
have_recv_error(i) == \E j \in DOMAIN uart[i].fifo : rx[i][uart[i].fifo[j]] = "err"

\* Broken: the oldest character is not dropped.
Store_nodrop(p, c) == [p EXCEPT !.inbuf[p.widx] = c, !.widx = BNEXT(p.widx)]
\* the body of recv_intr's inner loop: "we overflowed, drop the oldest"
Store(p, c) ==
    [p EXCEPT !.inbuf[p.widx] = c, !.widx = BNEXT(p.widx),
              !.ridx = IF BNEXT(p.widx) = p.ridx THEN BNEXT(p.ridx) ELSE p.ridx]

\* Broken: the second UART is forgotten.
Served_first == {0}
\* for(i=0; i<2; i++)
Served == Ports

\* both UARTs are served; while the divisor latch is open reading the data port takes
\* nothing from the fifo and the inner loop does not end
Serves(i) == i \in Served /\ Pending(i)
Outcome(i) ==
    CASE Serves(i) /\ have_recv_error(i) -> "panic"
      [] Serves(i) /\ ~have_recv_error(i) /\ uart[i].dlab -> "spin"
      [] OTHER -> "running"
Stored(p, chars) ==
    LET after[n \in 0 .. Len(chars)] == IF n = 0 THEN p ELSE Store(after[n - 1], chars[n])
    IN after[Len(chars)]
Drained(i) == IF Serves(i) THEN Stored(port[i], uart[i].fifo) ELSE port[i]
Overflows(i) == Serves(i) /\ ((port[i].widx - port[i].ridx) % BUFSZ) + Len(uart[i].fifo) >= BUFSZ
InGetc(i) == fd = i /\ pc \in {"byte", "adv", "store"}
recv_intr ==
    /\ Running
    /\ \E i \in Ports : Pending(i)
    /\ status' = IF Outcome(0) # "running" THEN Outcome(0) ELSE Outcome(1)
    /\ \/ /\ \E i \in Ports : Outcome(i) # "running"
          /\ UNCHANGED <<port, uart, ovf>>
       \/ /\ \A i \in Ports : Outcome(i) = "running"
          /\ port' = [i \in Ports |-> Drained(i)]
          /\ uart' = [i \in Ports |-> IF Serves(i) THEN [uart[i] EXCEPT !.fifo = << >>] ELSE uart[i]]
          /\ ovf' = [i \in Ports |-> IF ~Overflows(i) \/ ovf[i] \in {"raced", "torn"} THEN ovf[i]
                                     ELSE IF InGetc(i) THEN "raced" ELSE "clean"]
    /\ UNCHANGED <<prog, num_open, linebuf, rx, sent, pc, fn, regs, last, line, lines, since,
                   text, shared>>

-----------------------------------------------------------------------------
(***************************************************************************)
(* ser_open and ser_close.  Interrupts of a UART that was left enabled may *)
(* come between the steps of ser_open.                                     *)
(***************************************************************************)
\* memset(ports + pidx, 0, sizeof ports[pidx]) stores words from the front: base, intr and
\* blocking, then inbuf, and the two indices last
open_begin(i) ==
    /\ At("idle")
    /\ i \in prog.ports /\ ~port[i].open
    /\ port' = [port EXCEPT ![i].blocking = FALSE]
    /\ fd' = i /\ tmp' = 0 /\ pc' = "zero"
    /\ UNCHANGED <<prog, num_open, linebuf, dev, fn, cnt, chr, out, hist, status>>
Zeroed(p, from) ==
    [p EXCEPT !.inbuf = [k \in 0 .. BUFSZ - 1 |->
                            IF from <= k /\ k < from + WORD THEN 0 ELSE p.inbuf[k]]]
zero_inbuf ==
    /\ At("zero")
    /\ port' = [port EXCEPT ![fd] = Zeroed(port[fd], tmp)]
    /\ \/ tmp + WORD < BUFSZ /\ tmp' = tmp + WORD /\ pc' = "zero"
       \/ tmp + WORD >= BUFSZ /\ tmp' = 0 /\ pc' = "ridx"
    /\ UNCHANGED <<prog, num_open, linebuf, dev, fn, fd, cnt, chr, out, hist, status>>
zero_ridx ==
    /\ At("ridx")
    /\ port' = [port EXCEPT ![fd].ridx = 0]
    /\ pc' = "widx"
    /\ UNCHANGED <<prog, num_open, linebuf, dev, fn, regs, hist, status>>
\* Broken: widx is kept.
Emptied_kept(p) == p
\* the ring is empty, unless the handler has moved ridx since it was zeroed
Emptied(p) == [p EXCEPT !.widx = 0]
zero_widx ==
    /\ At("widx")
    /\ port' = [port EXCEPT ![fd] = Emptied(port[fd])]
    /\ since' = [since EXCEPT ![fd] = Len(rx[fd]) - Len(uart[fd].fifo)]
    /\ last' = [last EXCEPT ![fd] = Len(rx[fd]) - Len(uart[fd].fifo)]
    /\ ovf' = [ovf EXCEPT ![fd] = IF port[fd].ridx = 0 THEN "none" ELSE "torn"]
    /\ pc' = "dlab"
    /\ UNCHANGED <<prog, num_open, linebuf, dev, fn, regs, line, lines, text, shared, status>>
open_dlab ==
    /\ At("dlab")
    /\ uart' = [uart EXCEPT ![fd].dlab = TRUE]
    /\ pc' = "fmt"
    /\ UNCHANGED <<prog, port, num_open, linebuf, rx, sent, fn, regs, hist, status>>
open_fmt ==
    /\ At("fmt")
    /\ uart' = [uart EXCEPT ![fd].dlab = FALSE]
    /\ pc' = "fifo"
    /\ UNCHANGED <<prog, port, num_open, linebuf, rx, sent, fn, regs, hist, status>>
\* the fifo is cleared, so that what it holds has not been received
open_done ==
    /\ At("fifo")
    /\ uart' = [uart EXCEPT ![fd].fifo = << >>, ![fd].ier = TRUE]
    /\ port' = [port EXCEPT ![fd].open = TRUE, ![fd].blocking = TRUE]
    /\ num_open' = num_open + 1
    /\ shared' = (shared \/ num_open + 1 = 2)
    /\ rx' = [rx EXCEPT ![fd] = SubSeq(@, 1, Len(@) - Len(uart[fd].fifo))]
    /\ fd' = 0 /\ pc' = "idle"
    /\ UNCHANGED <<prog, linebuf, sent, fn, cnt, tmp, chr, out, last, line, lines, since, text,
                   ovf, status>>

\* the UART is switched off by the last ser_close only
\* Broken: never switched off; the count is compared before it is decremented.
LastClose_never == FALSE
LastClose == num_open - 1 = 0
ser_close(i) ==
    /\ At("idle")
    /\ "close" \in prog.fns /\ port[i].open
    /\ num_open' = num_open - 1
    /\ uart' = [uart EXCEPT ![i].ier = IF LastClose THEN FALSE ELSE @]
    /\ port' = [port EXCEPT ![i].open = FALSE]
    /\ UNCHANGED <<prog, linebuf, rx, sent, pc, fn, regs, hist, status>>

ser_block(i, b) ==
    /\ At("idle")
    /\ "block" \in prog.fns /\ port[i].open
    /\ port' = [port EXCEPT ![i].blocking = b]
    /\ UNCHANGED <<prog, num_open, linebuf, dev, pc, fn, regs, hist, status>>

-----------------------------------------------------------------------------
(***************************************************************************)
(* Reading: ser_wait, ser_getc, ser_read and ser_getline (fn), which all   *)
(* poll ser_pending.                                                       *)
(***************************************************************************)
call(f, i, n) ==
    /\ At("idle")
    /\ f \in prog.fns \intersect {"wait", "getc", "read", "getline"}
    /\ port[i].open
    /\ n = 1 \/ f \in {"read", "getline"}
    /\ fn' = f /\ fd' = i
    /\ cnt' = IF f = "getline" THEN [bsz |-> n, rd |-> 0] ELSE n
    /\ pc' = IF f = "getline" /\ Len(linebuf) = LINESZ THEN "scan" ELSE "pend"
    /\ line' = << >>
    /\ UNCHANGED <<prog, port, num_open, linebuf, dev, tmp, chr, out, last, lines, since, text,
                   ovf, shared, status>>

Idle == pc' = "idle" /\ fn' = "none" /\ fd' = 0 /\ cnt' = 0 /\ tmp' = 0 /\ chr' = 0

\* ser_getc returns c, 0 for its -1, to ser_read or to ser_getline's ser_read
GetcReturns(c) ==
    \/ /\ fn = "getc" \/ (fn = "read" /\ (c = 0 \/ cnt = 1))
       /\ Idle
       /\ UNCHANGED linebuf
    \/ /\ fn = "read" /\ c # 0 /\ cnt > 1
       /\ cnt' = cnt - 1 /\ pc' = "pend" /\ tmp' = 0 /\ chr' = 0
       /\ UNCHANGED <<linebuf, fn, fd>>
    \/ /\ fn = "getline" /\ c # 0
       /\ linebuf' = Append(linebuf, <<fd, c>>)
       /\ pc' = IF Len(linebuf) + 1 = LINESZ THEN "scan" ELSE "pend"
       /\ cnt' = [cnt EXCEPT !.rd = 1] /\ tmp' = 0 /\ chr' = 0
       /\ UNCHANGED <<fn, fd>>
    \/ /\ fn = "getline" /\ c = 0
       /\ pc' = IF cnt.rd = 0 THEN "scan" ELSE "pend"
       /\ cnt' = [cnt EXCEPT !.rd = 0] /\ tmp' = 0 /\ chr' = 0
       /\ UNCHANGED <<linebuf, fn, fd>>

\* ser_pending: ridx, then widx
pend_ridx ==
    /\ At("pend")
    /\ tmp' = port[fd].ridx
    /\ pc' = "cmp"
    /\ UNCHANGED <<prog, port, num_open, linebuf, dev, fn, fd, cnt, chr, out, hist, status>>
pend_widx ==
    /\ At("cmp")
    /\ \/ /\ tmp # port[fd].widx
          /\ IF fn = "wait" THEN Idle
             ELSE pc' = "idx" /\ UNCHANGED <<fn, fd, cnt, tmp, chr>>
          /\ UNCHANGED linebuf
       \/ /\ tmp = port[fd].widx
          /\ port[fd].blocking \/ fn = "wait"
          /\ pc' = "pend"
          /\ UNCHANGED <<linebuf, fn, fd, cnt, tmp, chr>>
       \/ /\ tmp = port[fd].widx
          /\ ~port[fd].blocking /\ fn # "wait"
          /\ GetcReturns(0)
    /\ UNCHANGED <<prog, port, num_open, dev, out, hist, status>>
\* c = p->inbuf[p->inbuf_ridx]
getc_index ==
    /\ At("idx")
    /\ tmp' = port[fd].ridx
    /\ pc' = "byte"
    /\ UNCHANGED <<prog, port, num_open, linebuf, dev, fn, fd, cnt, chr, out, hist, status>>
getc_byte ==
    /\ At("byte")
    /\ chr' = port[fd].inbuf[tmp]
    /\ pc' = "adv"
    /\ UNCHANGED <<prog, port, num_open, linebuf, dev, fn, fd, cnt, tmp, out, hist, status>>
\* p->inbuf_ridx = BNEXT(p->inbuf_ridx)
getc_load ==
    /\ At("adv")
    /\ tmp' = port[fd].ridx
    /\ pc' = "store"
    /\ UNCHANGED <<prog, port, num_open, linebuf, dev, fn, fd, cnt, chr, out, hist, status>>
\* Broken: the index runs past the end of the buffer.
NextRidx_nowrap(x) == x + 1
NextRidx(x) == BNEXT(x)
getc_store ==
    /\ At("store")
    /\ port' = [port EXCEPT ![fd].ridx = NextRidx(tmp)]
    /\ last' = [last EXCEPT ![fd] = chr]
    /\ GetcReturns(chr)
    /\ UNCHANGED <<prog, num_open, dev, out, line, lines, since, text, ovf, shared, status>>

\* ser_getline looks for the end of a line and moves what follows to the front;
\* linebuf[widx] = 0 is past the end of the buffer when it is full
IsEnd(e) == rx[e[1]][e[2]] \in {"nl", "cr"}
Ends == {k \in DOMAIN linebuf : IsEnd(linebuf[k])}
FirstEnd == CHOOSE k \in Ends : \A j \in Ends : k <= j
\* Broken: the terminator is left in the buffer.
Rest_terminator(k) == SubSeq(linebuf, k, Len(linebuf))
Rest(k) == SubSeq(linebuf, k + 1, Len(linebuf))
Copied(k) == SubSeq(linebuf, 1, IF k - 1 >= cnt.bsz THEN cnt.bsz - 1 ELSE k - 1)
getline_scan ==
    /\ At("scan")
    /\ \/ /\ Ends = {}
          /\ line' = << >>
          /\ UNCHANGED <<linebuf, lines>>
       \/ /\ Ends # {}
          /\ line' = <<[chars |-> Copied(FirstEnd), from |-> lines, bsz |-> cnt.bsz]>>
          /\ linebuf' = Rest(FirstEnd)
          /\ lines' = lines + FirstEnd
    /\ Idle
    /\ UNCHANGED <<prog, port, num_open, dev, out, last, since, text, ovf, shared, status>>

-----------------------------------------------------------------------------
(***************************************************************************)
(* ser_putc and ser_write: wait for an empty transmit register.            *)
(***************************************************************************)
Putc(c) == IF c = "nl" THEN <<"cr", "nl">> ELSE <<c>>
call_write(t) ==
    /\ At("idle")
    /\ "write" \in prog.fns /\ port[0].open
    /\ Len(text \o t) <= MaxSent
    /\ text' = text \o t
    /\ out' = FlattenSeq([k \in DOMAIN t |-> Putc(t[k])])
    /\ pc' = "send"
    /\ UNCHANGED <<prog, port, num_open, linebuf, dev, fn, fd, cnt, tmp, chr, last, line, lines,
                   since, ovf, shared, status>>
\* Broken: the register may be full.
can_send_always == TRUE
can_send == uart[0].thr = Empty
putc_send ==
    /\ At("send")
    /\ can_send
    /\ uart' = [uart EXCEPT ![0].thr = Head(out)]
    /\ out' = Tail(out)
    /\ pc' = IF Len(out) = 1 THEN "idle" ELSE "send"
    /\ UNCHANGED <<prog, port, num_open, linebuf, rx, sent, fn, fd, cnt, tmp, chr, hist, status>>

stopped == ~Running /\ UNCHANGED vars

Step ==
    \/ zero_inbuf \/ zero_ridx \/ zero_widx \/ open_dlab \/ open_fmt \/ open_done
    \/ pend_ridx \/ pend_widx \/ getc_index \/ getc_byte \/ getc_load \/ getc_store
    \/ getline_scan \/ putc_send

Next ==
    \/ \E i \in Ports :
        \/ \E c \in prog.chars : receive(i, c)
        \/ transmit(i)
        \/ open_begin(i) \/ ser_close(i)
        \/ \E b \in BOOLEAN : ser_block(i, b)
        \/ \E f \in prog.fns, n \in Counts : call(f, i, n)
    \/ recv_intr
    \/ \E t \in Texts : call_write(t)
    \/ Step
    \/ stopped

\* The main program runs, interrupts are taken, the transmitter sends.
Spec ==
    /\ Init /\ [][Next]_vars
    /\ WF_vars(Step) /\ WF_vars(recv_intr) /\ WF_vars(\E i \in Ports : transmit(i))

-----------------------------------------------------------------------------
\* The indices stay inside the ring, the line inside its buffer.
TypeOK ==
    /\ port \in [Ports -> [open : BOOLEAN, blocking : BOOLEAN,
                           inbuf : [0 .. BUFSZ - 1 -> Nat],
                           ridx : 0 .. BUFSZ - 1, widx : 0 .. BUFSZ - 1]]
    /\ num_open = Cardinality({i \in Ports : port[i].open})
    /\ Len(linebuf) <= LINESZ
    /\ tmp \in 0 .. BUFSZ - 1
    /\ status \in {"running", "panic", "spin"}

\* The comment in recv_intr: an overflow drops the oldest.  Between two calls each ring
\* holds exactly the latest characters that were received and not read, in order, unless
\* the overflow interrupted ser_getc between reading ridx and storing it, or the memset of
\* ser_open between its stores of the two indices.
Unread(i) ==
    LET p == port[i]
    IN [j \in 1 .. (p.widx - p.ridx) % BUFSZ |-> p.inbuf[(p.ridx + j - 1) % BUFSZ]]
RingIsExact ==
    \A i \in Ports : (port[i].open /\ ovf[i] \notin {"raced", "torn"} /\ ~InGetc(i)) =>
        LET end == Len(rx[i]) - Len(uart[i].fifo)
            first == IF last[i] < end - (BUFSZ - 1) THEN end - (BUFSZ - 1) ELSE last[i]
        IN Unread(i) = [j \in 1 .. end - first |-> first + j]

\* Nothing the handler stored before ser_open emptied the ring is read after it, although
\* it goes on storing characters for a port that was closed while the other was open; the
\* exception is the memset that an overflow interrupts between its last two stores.
NothingStale ==
    \A i \in Ports : (port[i].open /\ ovf[i] # "torn") =>
        \A j \in DOMAIN Unread(i) : Unread(i)[j] > since[i]

\* "we overflowed, drop the oldest": what an overflow leaves in the ring of an open port is
\* what the port has received, and none of the zeroes or older characters there.
OverflowDropsOldest ==
    \A i \in Ports : port[i].open =>
        \A j \in DOMAIN Unread(i) : Unread(i)[j] > since[i]

\* As long as the ring did not overflow, each line ser_getline returns to a program that
\* reads one port, by lines, is what was received since the end of the line before, cut to
\* the caller's buffer, although a line may arrive over many calls.
ReadsLines == prog.ports = {0} /\ prog.fns \intersect {"getc", "read", "close"} = {}
LineIsExact ==
    (line # << >> /\ ReadsLines /\ ovf[0] = "none") =>
        LET from == line[1].from
            bsz == line[1].bsz
        IN \E end \in from + 1 .. Len(rx[0]) :
            /\ IsEnd(<<0, end>>)
            /\ \A k \in from + 1 .. end - 1 : ~IsEnd(<<0, k>>)
            /\ LET shown == IF end - 1 - from < bsz THEN end - 1 - from ELSE bsz - 1
               IN line[1].chars = [k \in 1 .. shown |-> <<0, from + k>>]

\* ser_write: the other end receives the text, every newline as CR LF.
Stripped(s) ==          \* s without its CRs
    LET kept[n \in 0 .. Len(s)] ==
            IF n = 0 THEN << >>
            ELSE IF s[n] = "cr" THEN kept[n - 1] ELSE Append(kept[n - 1], s[n])
    IN kept[Len(s)]
SentIsWritten ==
    pc = "idle" =>
        LET s == sent[0] \o (IF uart[0].thr = Empty THEN << >> ELSE <<uart[0].thr>>)
        IN /\ Stripped(s) = Stripped(text)
           /\ \A k \in DOMAIN s : s[k] = "nl" => k > 1 /\ s[k - 1] = "cr"

\* The receive handler always returns to a program that uses one port at a time, however
\* often it closes and opens it.  (After two ports have been open, ser_close leaves a UART
\* enabled, and the next ser_open opens its divisor latch under the handler.)
HandlerReturns == status = "spin" => shared

\* A blocking read returns when a character reaches its UART, whatever the handler does
\* to the ring between two looks at it; a write always returns.
CallsReturn ==
    \A i \in Ports :
        (pc = "send" \/ (fn \in {"getc", "wait"} /\ fd = i /\ uart[i].fifo # << >>))
            ~> (pc = "idle" \/ ~Running)

\* The receive rings: indices in range, nothing from before ser_open, and the latest
\* characters in order.
RingInv == TypeOK /\ NothingStale /\ RingIsExact

\* Text arrives as it was sent, line by line in one direction and with CR LF in the other.
TextInv == LineIsExact /\ SentIsWritten
=============================================================================
