-------------------------------- MODULE Sound --------------------------------
(***************************************************************************)
(* Sound: the device independent layer (src/src/audio.c), the Sound        *)
(* Blaster driver (src/src/au_sb.c) and DMA programming (src/src/dma.c).   *)
(*                                                                         *)
(* The main program talks to the DSP one byte at a time, with interrupts   *)
(* enabled; the interrupt handler, which asks the program for the next     *)
(* buffer and starts the next transfer, may come between any two of its    *)
(* port accesses.  The card, the DMA controller and the interrupt line are *)
(* modelled from how the driver uses them.                                 *)
(***************************************************************************)
EXTENDS Integers, Sequences, SequencesExt, FiniteSetsExt

CONSTANTS
    Cards,       \* the cards the machine may have: ports that answer a reset, major
                 \* version, bits set in the mixer's IRQ and DMA registers, and
                 \* whether these can be written
    Audible,     \* bound: playback is only explored on these cards
    Sizes,       \* sizes the program's callback returns, besides 0
    Rates,
    Buffer       \* the address sb_start computes, a multiple of 64k

ASSUME SoundAssumption ==
    /\ Audible \subseteq Cards
    /\ Sizes \subseteq 1 .. 65536 /\ Rates \subseteq 4000 .. 65535
    /\ Buffer % 65536 = 0 /\ Buffer < 16777216

VARIABLES
    card, mixer,      \* environment: the card, and its mixer registers as they are now
    drv,              \* "boot", then "sb" or, when nothing was detected, "null"
    base_port, sb16, irq, dma_chan, dma16_chan,
    dsp,              \* environment: command being received and its arguments, busy flag,
                      \* speaker, rate, pause, and length of the transfer in progress
    dma,              \* environment: the 8 bit DMA controller
    line, pic,        \* environment: the card's interrupt line, the edge the PIC has seen
    todo, polled,     \* main program: port writes still to do; WSTAT was seen clear
    isr,              \* is the handler between starting a transfer and acknowledging?
    stream,           \* does the callback have more to give?
    asked,            \* history: size and rate of the buffer being played
    raced,            \* history: a transfer ended, or the handler came, between port writes
                      \* of one call of the main program
    lost              \* history: an acknowledgement was missed, or came too late

config == <<card, mixer, drv, base_port, sb16, irq, dma_chan, dma16_chan>>
vars == <<config, dsp, dma, line, pic, todo, polled, isr, stream, asked, raced, lost>>

Channel == [addr |-> 0, count |-> 0, page |-> 0, masked |-> TRUE]
Init ==
    /\ card \in Cards
    /\ mixer = [irq |-> card.irq, dma |-> card.dma]
    /\ drv = "boot" /\ base_port = 0 /\ sb16 = FALSE
    /\ irq = 0 /\ dma_chan = 0 /\ dma16_chan = 0
    /\ dsp = [cmd |-> 0, args |-> << >>, busy |-> FALSE, speaker |-> FALSE, rate |-> 0,
              paused |-> FALSE, len |-> 0]
    /\ dma = [flip |-> 0, ch |-> [c \in 0 .. 3 |-> Channel]]
    /\ line = FALSE /\ pic = FALSE
    /\ todo = << >> /\ polled = FALSE /\ isr = FALSE
    /\ stream = FALSE /\ asked = [size |-> 0, rate |-> 0]
    /\ raced = FALSE /\ lost = FALSE

-----------------------------------------------------------------------------
(***************************************************************************)
(* Detection.                                                              *)
(***************************************************************************)
Lowest(S) == Min(S)
irqtab == [i \in 0 .. 3 |-> <<2, 5, 7, 10>>[i + 1]]
dmatab == [i \in 0 .. 7 |-> <<0, 1, -1, 3, -1, 5, 6, 7>>[i + 1]]

\* write_mix, then read_mix to verify
Written(old, new) == IF card.fixed THEN old ELSE new

sb16_detect_irq(m) ==       \* [irq (-1: failed), the mixer register]
    IF m # {} THEN [irq |-> irqtab[Lowest(m)], reg |-> m]
    ELSE [irq |-> IF Written(m, {1}) = {1} THEN 5 ELSE -1, reg |-> Written(m, {1})]

\* Broken: the bit is looked up as if the table began with the 16 bit channels.
Chan_shifted(bits) == IF bits = {} THEN -1 ELSE Lowest(bits) + 4
Chan(bits) == IF bits = {} THEN -1 ELSE dmatab[Lowest(bits)]
\* Broken: what was read back is not compared.
DmaVerified_not(reg, wanted) == TRUE
DmaVerified(reg, wanted) == reg = wanted
sb16_detect_dma(m) ==       \* [8 bit channel (-1: failed), 16 bit channel, the register]
    LET c8 == Chan(m \intersect 0 .. 3)
        c16 == Chan(m \intersect 5 .. 7)
        wanted == m \union (IF c8 = -1 THEN {1} ELSE {}) \union (IF c16 = -1 THEN {5} ELSE {})
        reg == Written(m, wanted)
    IN IF c8 # -1 /\ c16 # -1 THEN [c8 |-> c8, c16 |-> c16, reg |-> m]
       ELSE IF DmaVerified(reg, wanted) THEN [c8 |-> 1, c16 |-> 5, reg |-> reg]
       ELSE [c8 |-> -1, c16 |-> c16, reg |-> reg]

Quiet == <<dsp, dma, line, pic, todo, polled, isr, stream, asked, raced, lost>>

\* audio_init: sb_detect probes six ports; the first that answers decides
no_card ==
    /\ drv = "boot"
    /\ card.ports = {}
    /\ drv' = "null" /\ base_port' = 6
    /\ UNCHANGED <<card, mixer, sb16, irq, dma_chan, dma16_chan, Quiet>>
sb_detect ==
    /\ drv = "boot"
    /\ card.ports # {}
    /\ base_port' = Lowest(card.ports)
    /\ sb16' = (card.ver >= 4)
    /\ \/ /\ card.ver < 4
          /\ irq' = 5 /\ dma_chan' = 1 /\ dma16_chan' = -1
          /\ drv' = "sb"
          /\ UNCHANGED mixer
       \/ /\ card.ver >= 4
          /\ \E i \in {sb16_detect_irq(mixer.irq)} :
                /\ irq' = IF i.irq = -1 THEN 0 ELSE i.irq
                /\ IF i.irq = -1
                   THEN /\ mixer' = [mixer EXCEPT !.irq = i.reg]
                        /\ drv' = "null"
                        /\ UNCHANGED <<dma_chan, dma16_chan>>
                   ELSE \E d \in {sb16_detect_dma(mixer.dma)} :
                        /\ mixer' = [irq |-> i.reg, dma |-> d.reg]
                        /\ dma_chan' = d.c8 /\ dma16_chan' = d.c16
                        /\ drv' = IF d.c8 = -1 THEN "null" ELSE "sb"
    /\ UNCHANGED <<card, Quiet>>

-----------------------------------------------------------------------------
(***************************************************************************)
(* The hardware.                                                           *)
(***************************************************************************)
CMD_RATE == 64
CMD_SB16_OUT_RATE == 65
CMD_START_DMA8 == 192
CMD_PAUSE_DMA8 == 208
CMD_ENABLE_OUTPUT == 209
CMD_DISABLE_OUTPUT == 211
CMD_CONT_DMA8 == 212
CMD_END_DMA8 == 218
NArgs(c) == CASE c = CMD_SB16_OUT_RATE -> 2 [] c = CMD_RATE -> 1 [] c = CMD_START_DMA8 -> 3
              [] OTHER -> 0

\* the DSP executes command c; CMD_END_DMA8 ends auto-initialised transfers only
Execute(d, c, a) ==
    CASE c = CMD_ENABLE_OUTPUT -> [d EXCEPT !.speaker = TRUE]
      [] c = CMD_DISABLE_OUTPUT -> [d EXCEPT !.speaker = FALSE]
      [] c = CMD_PAUSE_DMA8 -> [d EXCEPT !.paused = TRUE]
      [] c = CMD_CONT_DMA8 -> [d EXCEPT !.paused = FALSE]
      [] c = CMD_SB16_OUT_RATE -> [d EXCEPT !.rate = a[1] * 256 + a[2]]
      [] c = CMD_RATE -> [d EXCEPT !.rate = 1000000 \div (256 - a[1])]
      [] c = CMD_START_DMA8 -> [d EXCEPT !.len = a[2] + a[3] * 256 + 1, !.paused = FALSE]
      [] OTHER -> d
DspByte(d, b) ==
    LET c == IF d.cmd = 0 THEN b ELSE d.cmd
        a == IF d.cmd = 0 THEN << >> ELSE Append(d.args, b)
    IN IF Len(a) = NArgs(c)
       THEN [Execute(d, c, a) EXCEPT !.cmd = 0, !.args = << >>, !.busy = TRUE]
       ELSE [d EXCEPT !.cmd = c, !.args = a, !.busy = TRUE]
dsp_ready ==
    /\ dsp.busy
    /\ dsp' = [dsp EXCEPT !.busy = FALSE]
    /\ UNCHANGED <<config, dma, line, pic, todo, polled, isr, stream, asked, raced, lost>>

\* a write to a register of the 8 bit DMA controller; address and count take two bytes
SetByte(old, flip, v) == IF flip = 0 THEN (old \div 256) * 256 + v ELSE (old % 256) + v * 256
DmaPort(d, w) ==
    CASE w.reg = "mask" -> [d EXCEPT !.ch[w.chan].masked = (w.val = 1)]
      [] w.reg = "flipflop" -> [d EXCEPT !.flip = 0]
      [] w.reg = "mode" -> d
      [] w.reg = "addr" -> [d EXCEPT !.ch[w.chan].addr = SetByte(@, d.flip, w.val),
                                     !.flip = 1 - @]
      [] w.reg = "page" -> [d EXCEPT !.ch[w.chan].page = w.val]
      [] w.reg = "count" -> [d EXCEPT !.ch[w.chan].count = SetByte(@, d.flip, w.val),
                                      !.flip = 1 - @]

\* the channel the card requests; the transfer ends, the channel is masked and the
\* card raises its interrupt; the PIC sees the edge, not the level
CardChan == IF sb16 THEN Lowest(mixer.dma) ELSE 1
transfer_ends ==
    /\ dsp.len > 0 /\ ~dsp.paused
    /\ ~dma.ch[CardChan].masked /\ dma.ch[CardChan].count + 1 >= dsp.len
    /\ dsp' = [dsp EXCEPT !.len = 0]
    /\ dma' = [dma EXCEPT !.ch[CardChan].masked = TRUE]
    /\ line' = TRUE
    /\ pic' = (pic \/ ~line)
    /\ raced' = (raced \/ todo # << >>)
    /\ UNCHANGED <<config, todo, polled, isr, stream, asked, lost>>

-----------------------------------------------------------------------------
(***************************************************************************)
(* Port writes of the driver, in order: [to |-> "dsp", val] for write_dsp, *)
(* [to |-> "dma", reg, chan, val] for one outb of dma_io.                  *)
(***************************************************************************)
Dsp(v) == [to |-> "dsp", val |-> v]
Dma(r, c, v) == [to |-> "dma", reg |-> r, chan |-> c, val |-> v]

sb_set_output_rate(rate) ==
    IF sb16 THEN <<Dsp(CMD_SB16_OUT_RATE), Dsp(rate \div 256), Dsp(rate % 256)>>
    ELSE <<Dsp(CMD_RATE), Dsp(256 - 1000000 \div rate)>>

\* Broken: the count is not decremented.
dma_io_count(c, phyaddr, size) ==
    <<Dma("mask", c, 1), Dma("flipflop", c, 0), Dma("mode", c, c),
      Dma("addr", c, phyaddr % 256), Dma("addr", c, (phyaddr \div 256) % 256),
      Dma("page", c, (phyaddr \div 65536) % 256),
      Dma("count", c, size % 256), Dma("count", c, (size \div 256) % 256),
      Dma("mask", c, 0)>>
\* dma_io, for 8 bit channels
dma_io(c, phyaddr, size) ==
    <<Dma("mask", c, 1), Dma("flipflop", c, 0), Dma("mode", c, c),
      Dma("addr", c, phyaddr % 256), Dma("addr", c, (phyaddr \div 256) % 256),
      Dma("page", c, (phyaddr \div 65536) % 256),
      Dma("count", c, (size - 1) % 256), Dma("count", c, ((size - 1) \div 256) % 256),
      Dma("mask", c, 0)>>

CMD_MODE_SIGNED == 16
start_dma_transfer(size) ==
    dma_io(dma_chan, Buffer, size) \o
    <<Dsp(CMD_START_DMA8), Dsp(CMD_MODE_SIGNED), Dsp((size - 1) % 256),
      Dsp(((size - 1) \div 256) % 256)>>
sb_stop == <<Dsp(CMD_END_DMA8), Dsp(CMD_DISABLE_OUTPUT)>>

\* the handler's writes: each waits for the DSP, nothing comes between them
ToDsp(d, w) == IF w.to = "dsp" THEN DspByte(d, w.val) ELSE d
ToDma(d, w) == IF w.to = "dma" THEN DmaPort(d, w) ELSE d

-----------------------------------------------------------------------------
(***************************************************************************)
(* The main program: one port write at a time.                             *)
(***************************************************************************)
Playable == drv = "sb" /\ card \in Audible
MainRuns == ~isr /\ ~pic       \* interrupts are enabled: a pending one comes first
Begin(writes) == todo = << >> /\ MainRuns /\ Playable /\ todo' = writes

\* audio_play: sb_start asks the callback first
audio_play(rate, size) ==
    /\ Begin(IF size = 0 THEN << >>
             ELSE <<Dsp(CMD_ENABLE_OUTPUT)>> \o sb_set_output_rate(rate)
                  \o start_dma_transfer(size))
    /\ stream' = (size > 0)
    /\ asked' = IF size = 0 THEN asked ELSE [size |-> size, rate |-> rate]
    /\ UNCHANGED <<config, dsp, dma, line, pic, polled, isr, raced, lost>>
audio_pause ==
    /\ Begin(<<Dsp(CMD_PAUSE_DMA8)>>)
    /\ UNCHANGED <<config, dsp, dma, line, pic, polled, isr, stream, asked, raced, lost>>
audio_resume ==
    /\ Begin(<<Dsp(CMD_CONT_DMA8)>>)
    /\ UNCHANGED <<config, dsp, dma, line, pic, polled, isr, stream, asked, raced, lost>>
audio_stop ==
    /\ Begin(sb_stop)
    /\ UNCHANGED <<config, dsp, dma, line, pic, polled, isr, stream, asked, raced, lost>>

out_dma ==
    /\ todo # << >> /\ MainRuns /\ Head(todo).to = "dma"
    /\ dma' = DmaPort(dma, Head(todo))
    /\ todo' = Tail(todo)
    /\ UNCHANGED <<config, dsp, line, pic, polled, isr, stream, asked, raced, lost>>
\* write_dsp: while(inb(REG_WSTAT) & WSTAT_BUSY); ...
write_dsp_poll ==
    /\ todo # << >> /\ MainRuns /\ Head(todo).to = "dsp"
    /\ ~polled /\ ~dsp.busy
    /\ polled' = TRUE
    /\ UNCHANGED <<config, dsp, dma, line, pic, todo, isr, stream, asked, raced, lost>>
\* ... outb(val, REG_WDATA); a busy DSP may miss it
write_dsp_out ==
    /\ todo # << >> /\ MainRuns /\ polled
    /\ \/ dsp' = DspByte(dsp, Head(todo).val)
       \/ dsp.busy /\ UNCHANGED dsp
    /\ todo' = Tail(todo)
    /\ polled' = FALSE
    /\ UNCHANGED <<config, dma, line, pic, isr, stream, asked, raced, lost>>

-----------------------------------------------------------------------------
(***************************************************************************)
(* intr_handler.                                                           *)
(***************************************************************************)
Enter == pic /\ ~isr /\ pic' = FALSE /\ raced' = (raced \/ todo # << >>)

\* the callback has nothing more: the handler returns without acknowledging
intr_handler_stop ==
    /\ Enter
    /\ dsp' = FoldLeft(ToDsp, dsp, sb_stop)
    /\ stream' = FALSE
    /\ lost' = TRUE
    /\ UNCHANGED <<config, dma, line, todo, polled, isr, asked>>
intr_handler_next(size) ==
    /\ Enter
    /\ \E writes \in {start_dma_transfer(size)} :
        /\ dsp' = FoldLeft(ToDsp, dsp, writes)
        /\ dma' = FoldLeft(ToDma, dma, writes)
    /\ stream' = TRUE
    /\ asked' = [asked EXCEPT !.size = size]
    /\ isr' = TRUE
    /\ UNCHANGED <<config, line, todo, polled, lost>>
\* Broken: the interrupt is not acknowledged.
Acked_not == line
\* inb(REG_INTACK)
Acked == FALSE
intr_handler_ack ==
    /\ isr
    /\ line' = Acked
    /\ lost' = (lost \/ dsp.len = 0)
    /\ isr' = FALSE
    /\ UNCHANGED <<config, dsp, dma, pic, todo, polled, stream, asked, raced>>

Next ==
    \/ no_card \/ sb_detect
    \/ dsp_ready \/ transfer_ends
    \/ \E r \in Rates, s \in Sizes \union {0} : audio_play(r, s)
    \/ audio_pause \/ audio_resume \/ audio_stop
    \/ out_dma \/ write_dsp_poll \/ write_dsp_out
    \/ intr_handler_stop \/ intr_handler_ack
    \/ \E s \in Sizes : intr_handler_next(s)
    \/ (drv # "boot" /\ ~Playable /\ UNCHANGED vars)

Spec == Init /\ [][Next]_vars

-----------------------------------------------------------------------------
\* The driver's configuration and the device state have their types; the transfer length
\* is a 16 bit count.
TypeOK ==
    /\ drv \in {"boot", "sb", "null"} /\ base_port \in 0 .. 6
    /\ irq \in {0, 2, 5, 7, 10} /\ dma_chan \in -1 .. 3 /\ dma16_chan \in {-1, 0, 5, 6, 7}
    /\ dsp.len \in 0 .. 65536 /\ dma.flip \in {0, 1}
    /\ {sb16, line, pic, polled, isr, stream, raced, lost} \subseteq BOOLEAN

\* When sb_detect succeeds the interrupt and the DMA channels it settles on are ones the
\* card is set to, whether they were found or forced.  The exception is a card that had
\* one kind of channel set and not the other: the one that was found is forgotten.
Found(kind) == card.dma \intersect kind # {}
DetectedMatches ==
    (drv = "sb" /\ sb16) =>
        /\ \E i \in mixer.irq : irqtab[i] = irq
        /\ dma_chan \in mixer.dma \/ (Found(0 .. 3) /\ ~Found(5 .. 7))
        /\ dma16_chan \in mixer.dma \/ (Found(5 .. 7) /\ ~Found(0 .. 3))

\* Outside the driver's code, a transfer in progress plays exactly the buffer the callback
\* filled last, at the rate of the last audio_play, whatever mixture of play, pause, resume
\* and stop preceded it; unless a transfer once ended in the middle of a call's port writes.
BufferIsPlayed ==
    (dsp.len > 0 /\ todo = << >> /\ ~isr /\ ~raced) =>
        /\ dsp.cmd = 0 /\ dsp.len = asked.size /\ dsp.rate = asked.rate
        /\ LET c == dma.ch[CardChan]
           IN ~c.masked /\ c.page * 65536 + c.addr = Buffer /\ c.count = asked.size - 1

\* Playback does not stall: when a buffer has been played and the program has more, the
\* handler is about to run.  It may be lost only after an interrupt that was never
\* acknowledged (the stream before ended in the handler) or one acknowledged after the
\* next transfer had already ended.
NoStall ==
    (stream /\ dsp.len = 0 /\ todo = << >> /\ ~isr /\ ~raced /\ ~lost) => pic

\* The driver's configuration is well formed and agrees with the card's.
DetectInv == TypeOK /\ DetectedMatches

\* Between the calls, playback has the right buffer and goes on: what the card is told and
\* the interrupts it raises fit together through every order of calls and transfers.
PlaybackInv == BufferIsPlayed /\ NoStall
=============================================================================
