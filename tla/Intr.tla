-------------------------------- MODULE Intr --------------------------------
(***************************************************************************)
(* Interrupt dispatch in pcboot (src/src/intr.c, intr_asm.S) with the pair *)
(* of interrupt controllers it acknowledges, and the calls into the BIOS   *)
(* (int86, src/src/lowcode.s), which run with other vectors installed and  *)
(* leave the controllers to be programmed again.                           *)
(*                                                                         *)
(* An entry stub, the part of dispatch_intr up to the handler's call, and  *)
(* the part from the disable_intr after it to the iret each run with       *)
(* interrupts off, or touch nothing an interrupt could change: one step    *)
(* each.  Between them the handler runs, with steps of its own.            *)
(*                                                                         *)
(* The controllers are external (8259A, fully nested mode): irr and isr    *)
(* hold the requested and the in-service lines of both; lines 0..7 are the *)
(* master's, 8..15 the slave's, and the slave hangs on the master's line 2.*)
(* So is the keyboard controller, on line KbLine: it raises its line for a *)
(* byte in port 60h, and sends no further one until that byte is read.     *)
(***************************************************************************)
EXTENDS Integers, Sequences

CONSTANTS
    Irqs,        \* lines with a device on them
    Softs,       \* exceptions and software interrupts that may be raised
    Managed,     \* interrupt numbers passed to interrupt() at run time
    Enabling,    \* when a handler may call enable_intr: "never", "after_eoi", "any"
    KbLine,      \* the keyboard's line
    Bios,        \* who calls int86: "never", "main" (as all the callers), "any"
    MaxDepth     \* bound on nested frames

ASSUME IrqAssumption == Irqs \subseteq 0 .. 15 \ {2}
ASSUME SoftAssumption == Softs \subseteq 0 .. 255 \ 32 .. 47
ASSUME ManagedAssumption == Managed \subseteq 0 .. 255
ASSUME ModeAssumption ==
    /\ Enabling \in {"never", "after_eoi", "any"} /\ Bios \in {"never", "main", "any"}
    /\ MaxDepth \in Nat

IRQ_OFFSET == 32
IRQ_TO_INTR(x) == x + IRQ_OFFSET
INTR_TO_IRQ(x) == x - IRQ_OFFSET
\* Broken: no upper bound.
IS_IRQ_open(n) == n >= IRQ_OFFSET
IS_IRQ(n) == n >= IRQ_OFFSET /\ n < IRQ_OFFSET + 16
IS_TRAP(n) == n >= 32 /\ ~IS_IRQ(n)

\* kbintr stays installed
ASSUME KbAssumption == KbLine \in 0 .. 15 /\ IRQ_TO_INTR(KbLine) \notin Managed

Cascade == 2
Lines == 0 .. 15

VARIABLES
    intr_flag,       \* the processor's interrupt flag
    intr_func,       \* interrupt numbers with a handler installed
    frames,          \* interrupt frames on the stack
    cur_intr_frame,  \* depth of the frame it points to (0: none yet)
    eoi_pending,
    irr, isr,        \* requested and in-service lines
    masked,          \* lines masked in the data ports
    newmask,         \* a mask_irq or unmask_irq between its inb and its outb
    saved_if,        \* int86's copy of the interrupt flag, a static
    entering,        \* depths at which int86 has written it, and not done its cli yet
    bios,            \* where the int86 is that has, and the masks it saved
    kb_full,         \* a byte of the keyboard's waits in port 60h
    panicked,
    main_flag,       \* history: how the main program last left its interrupt flag
    wanted           \* history: the lines mask_irq and unmask_irq left masked

pics == <<irr, isr, masked>>
soft == <<intr_func, frames, cur_intr_frame, eoi_pending>>
calls == <<saved_if, entering, bios>>
vars == <<intr_flag, soft, pics, newmask, calls, kb_full, panicked, main_flag, wanted>>

NoMask == [irq |-> -1, lines |-> {}]
NoBios == [phase |-> "no", masked |-> {}]

\* init_intr, then enable_intr at the end of pcboot_main's initialization
Init ==
    /\ intr_flag = 1
    /\ intr_func = {IRQ_TO_INTR(i) : i \in Irqs}
    /\ frames = <<>> /\ cur_intr_frame = 0 /\ eoi_pending = 0
    /\ irr = {} /\ isr = {} /\ masked = {}
    /\ newmask = NoMask
    /\ saved_if = 0 /\ entering = {} /\ bios = NoBios
    /\ kb_full = FALSE
    /\ panicked = FALSE
    /\ main_flag = 1 /\ wanted = {}

Depth == Len(frames)
Top == frames[Depth]
Running == ~panicked /\ bios.phase = "no"
InMain == Running /\ frames = <<>> /\ Depth \notin entering /\ newmask = NoMask
InHandler == Running /\ frames # <<>> /\ Depth \notin entering /\ Top.handled

-----------------------------------------------------------------------------
(***************************************************************************)
(* The interrupt controllers.                                              *)
(***************************************************************************)
Pic(line) == IF line > 7 THEN 8 .. 15 ELSE 0 .. 7

\* no line of the same controller with the same or a higher priority is served
Unblocked(line) == \A s \in isr \intersect Pic(line) : line < s
Requests(line) ==
    /\ line \in irr \ masked /\ Unblocked(line)
    /\ line > 7 => Cascade \notin masked /\ Unblocked(Cascade)

\* the master's line on which a request arrives
MasterLine(line) == IF line > 7 THEN Cascade ELSE line
Delivers(line) ==
    /\ Requests(line)
    /\ \A l \in Lines : Requests(l) =>
          \/ MasterLine(line) < MasterLine(l)
          \/ MasterLine(line) = MasterLine(l) /\ line <= l

\* a non-specific end of interrupt ends the most urgent line in service
Ended(lines, pic) ==
    {l \in lines : l \in pic => \E s \in lines \intersect pic : s < l}

device_request(line) ==
    /\ ~panicked
    /\ IF line = KbLine THEN ~kb_full /\ kb_full' = TRUE
                        ELSE line \notin irr /\ UNCHANGED kb_full
    /\ irr' = irr \union {line}
    /\ UNCHANGED <<intr_flag, soft, isr, masked, newmask, calls, panicked, main_flag, wanted>>

\* the line stays up for the byte in port 60h
GoesAway(line) == line # KbLine \/ ~kb_full

-----------------------------------------------------------------------------
(***************************************************************************)
(* intr_entry_common and dispatch_intr.                                    *)
(***************************************************************************)
Enter(inum) ==
    /\ Depth < MaxDepth
    /\ frames' = Append(frames, [inum |-> inum, flag |-> intr_flag,
                                 handled |-> inum \in intr_func])
    /\ intr_flag' = IF IS_TRAP(inum) THEN intr_flag ELSE 0
    /\ cur_intr_frame' = Depth + 1
    /\ eoi_pending' = IF IS_IRQ(inum) THEN inum ELSE eoi_pending
    /\ panicked' = (inum \notin intr_func /\ inum < 32)
    /\ UNCHANGED <<intr_func, masked, newmask, calls, main_flag, wanted>>

\* the stub of a spurious interrupt returns at once
Ignore ==
    UNCHANGED <<intr_flag, soft, masked, newmask, calls, panicked, main_flag, wanted>>

\* kbintr's first access is to port 60h, with interrupts still off
irq_entry(line) ==
    /\ Running /\ intr_flag = 1 /\ Delivers(line)
    /\ irr' = irr \ {line}
    /\ isr' = isr \union {line, MasterLine(line)}
    /\ kb_full' = (kb_full /\ line # KbLine)
    /\ Enter(IRQ_TO_INTR(line))

\* Broken: the in-service register is not looked at.
irq7_entry_unchecked(line) ==
    /\ Running /\ intr_flag = 1 /\ Delivers(line) /\ GoesAway(line)
    /\ irr' = irr \ {line}
    /\ isr' = isr /\ UNCHANGED kb_full
    /\ Enter(IRQ_TO_INTR(7))

\* the request goes away before the processor asks for its number
irq7_entry_check_spurious(line) ==
    /\ Running /\ intr_flag = 1 /\ Delivers(line) /\ GoesAway(line)
    /\ irr' = irr \ {line}
    /\ isr' = isr /\ UNCHANGED kb_full
    /\ IF 7 \in isr THEN Enter(IRQ_TO_INTR(7)) ELSE Ignore
irq15_entry_check_spurious(line) ==
    /\ Running /\ intr_flag = 1 /\ Delivers(line) /\ line > 7 /\ GoesAway(line)
    /\ irr' = irr \ {line} /\ UNCHANGED kb_full
    /\ IF 15 \in isr
       THEN isr' = isr \union {Cascade} /\ Enter(IRQ_TO_INTR(15))
       ELSE isr' = Ended(isr \union {Cascade}, Pic(0)) /\ Ignore

\* an exception, or an int instruction, in the main program or a handler
soft_entry(inum) ==
    /\ InMain \/ InHandler
    /\ Enter(inum)
    /\ UNCHANGED <<irr, isr, kb_full>>

\* Broken: only one of the controllers is told.
end_of_irq_master(irq) ==
    IF eoi_pending = 0
    THEN UNCHANGED <<eoi_pending, isr>>
    ELSE eoi_pending' = 0 /\ isr' = Ended(isr, Pic(0))
end_of_irq_slave(irq) ==
    IF eoi_pending = 0
    THEN UNCHANGED <<eoi_pending, isr>>
    ELSE eoi_pending' = 0 /\ isr' = IF irq > 7 THEN Ended(isr, Pic(irq)) ELSE isr

end_of_irq(irq) ==
    IF eoi_pending = 0
    THEN UNCHANGED <<eoi_pending, isr>>
    ELSE /\ eoi_pending' = 0
         /\ isr' = Ended(IF irq > 7 THEN Ended(isr, Pic(irq)) ELSE isr, Pic(0))

\* a handler acknowledges its interrupt before it has finished
handler_eoi ==
    /\ InHandler /\ IS_IRQ(Top.inum)
    /\ end_of_irq(INTR_TO_IRQ(Top.inum))
    /\ UNCHANGED <<intr_flag, intr_func, frames, cur_intr_frame, irr, masked, newmask,
                   calls, kb_full, panicked, main_flag, wanted>>

\* Broken: interrupts are enabled on return.
dispatch_return_sti ==
    /\ Running /\ frames # <<>> /\ Depth \notin entering
    /\ end_of_irq(INTR_TO_IRQ(eoi_pending))
    /\ intr_flag' = 1
    /\ frames' = SubSeq(frames, 1, Depth - 1)
    /\ UNCHANGED <<intr_func, cur_intr_frame, irr, masked, newmask, calls, kb_full,
                   panicked, main_flag, wanted>>

\* the rest of dispatch_intr, and the iret
dispatch_return ==
    /\ Running /\ frames # <<>> /\ Depth \notin entering
    /\ end_of_irq(INTR_TO_IRQ(eoi_pending))
    /\ intr_flag' = Top.flag
    /\ frames' = SubSeq(frames, 1, Depth - 1)
    /\ UNCHANGED <<intr_func, cur_intr_frame, irr, masked, newmask, calls, kb_full,
                   panicked, main_flag, wanted>>

\* enable_intr and disable_intr in a handler, and in the main program
MayEnable ==
    CASE Enabling = "never" -> FALSE
      [] Enabling = "after_eoi" -> eoi_pending = 0
      [] OTHER -> TRUE
handler_flag(onoff) ==
    /\ InHandler /\ intr_flag # onoff
    /\ onoff = 1 => MayEnable
    /\ intr_flag' = onoff
    /\ UNCHANGED <<soft, pics, newmask, calls, kb_full, panicked, main_flag, wanted>>
main_flag_set(onoff) ==
    /\ InMain /\ intr_flag # onoff
    /\ intr_flag' = onoff /\ main_flag' = onoff
    /\ UNCHANGED <<soft, pics, newmask, calls, kb_full, panicked, wanted>>

\* interrupt() installs or removes a handler, with interrupts off meanwhile
interrupt(inum, install) ==
    /\ InMain \/ InHandler
    /\ intr_func' = IF install THEN intr_func \union {inum} ELSE intr_func \ {inum}
    /\ UNCHANGED <<intr_flag, frames, cur_intr_frame, eoi_pending, pics, newmask, calls,
                   kb_full, panicked, main_flag, wanted>>

-----------------------------------------------------------------------------
(***************************************************************************)
(* mask_irq and unmask_irq, called by the main program: the port is read   *)
(* and written back with interrupts as they are.                           *)
(***************************************************************************)
mask_irq(irq) ==
    /\ InMain
    /\ newmask' = [irq |-> irq, lines |-> (masked \intersect Pic(irq)) \union {irq}]
    /\ wanted' = wanted \union {irq}
    /\ UNCHANGED <<intr_flag, soft, pics, calls, kb_full, panicked, main_flag>>
unmask_irq(irq) ==
    /\ InMain
    /\ newmask' = [irq |-> irq, lines |-> (masked \intersect Pic(irq)) \ {irq}]
    /\ wanted' = wanted \ {irq}
    /\ UNCHANGED <<intr_flag, soft, pics, calls, kb_full, panicked, main_flag>>

mask_outb ==
    /\ Running /\ frames = <<>> /\ newmask # NoMask
    /\ masked' = (masked \ Pic(newmask.irq)) \union newmask.lines
    /\ newmask' = NoMask
    /\ UNCHANGED <<intr_flag, soft, irr, isr, calls, kb_full, panicked, main_flag, wanted>>

(***************************************************************************)
(* int86.  The flag is copied to a static with interrupts still as they    *)
(* are; the masks are saved after the cli.  While the BIOS runs,           *)
(* interrupts reach the real mode vectors, which end them or not, read     *)
(* the keyboard's byte or not, and the masks may be changed.               *)
(***************************************************************************)
MayCall == CASE Bios = "never" -> FALSE
             [] Bios = "main" -> InMain
             [] OTHER -> InMain \/ InHandler

int86_enter ==
    /\ MayCall
    /\ saved_if' = intr_flag /\ entering' = entering \union {Depth}
    /\ UNCHANGED <<intr_flag, soft, pics, newmask, bios, kb_full, panicked, main_flag, wanted>>
int86_cli ==
    /\ Running /\ Depth \in entering
    /\ intr_flag' = 0 /\ entering' = entering \ {Depth}
    /\ bios' = [phase |-> "bios", masked |-> masked]
    /\ UNCHANGED <<saved_if, soft, pics, newmask, kb_full, panicked, main_flag, wanted>>

bios_irq(line) ==
    /\ bios.phase = "bios" /\ Delivers(line)
    /\ irr' = irr \ {line}
    /\ \E ends, reads \in BOOLEAN :
          /\ isr' = IF ends THEN isr ELSE isr \union {line, MasterLine(line)}
          /\ kb_full' = (kb_full /\ ~(reads /\ line = KbLine))
    /\ UNCHANGED <<intr_flag, soft, masked, newmask, calls, panicked, main_flag, wanted>>
bios_masks(line) ==
    /\ bios.phase = "bios" /\ line \notin masked
    /\ masked' = masked \union {line}
    /\ UNCHANGED <<intr_flag, soft, irr, isr, newmask, calls, kb_full, panicked, main_flag,
                   wanted>>

\* Broken: the masks are left as programming the controllers leaves them.
set_pic_masks_none(lines) == masked' = {}

\* init_pic: initialization forgets requests and services, and unmasks all lines
prog_pic == irr' = {} /\ isr' = {}
set_pic_masks(lines) == masked' = lines

int86_pics ==
    /\ bios.phase = "bios"
    /\ prog_pic
    /\ set_pic_masks(bios.masked)
    /\ bios' = [phase |-> "back", masked |-> bios.masked]
    /\ UNCHANGED <<intr_flag, soft, newmask, saved_if, entering, kb_full, panicked, main_flag,
                   wanted>>

\* Broken: the keyboard's port is not read.
int86_return_unread ==
    /\ bios.phase = "back"
    /\ intr_flag' = saved_if /\ bios' = NoBios
    /\ UNCHANGED <<soft, pics, newmask, saved_if, entering, kb_full, panicked, main_flag, wanted>>

int86_return ==
    /\ bios.phase = "back"
    /\ kb_full' = FALSE
    /\ intr_flag' = saved_if /\ bios' = NoBios
    /\ UNCHANGED <<soft, pics, newmask, saved_if, entering, panicked, main_flag, wanted>>

panic == panicked /\ UNCHANGED vars

Next ==
    \/ \E line \in Irqs : device_request(line)
    \/ \E line \in Irqs : irq_entry(line)
    \/ \E line \in Irqs : irq7_entry_check_spurious(line)
    \/ \E line \in Irqs : irq15_entry_check_spurious(line)
    \/ \E inum \in Softs : soft_entry(inum)
    \/ handler_eoi
    \/ dispatch_return
    \/ \E onoff \in {0, 1} : handler_flag(onoff)
    \/ \E onoff \in {0, 1} : main_flag_set(onoff)
    \/ \E inum \in Managed, install \in BOOLEAN : interrupt(inum, install)
    \/ \E line \in Irqs : mask_irq(line) \/ unmask_irq(line)
    \/ mask_outb
    \/ int86_enter
    \/ int86_cli
    \/ \E line \in Irqs : bios_irq(line) \/ bios_masks(line)
    \/ int86_pics
    \/ int86_return
    \/ panic

Spec == Init /\ [][Next]_vars

\* The processor samples its interrupt input before every instruction while
\* interrupts are enabled; code with interrupts disabled is finite, handlers return, and
\* interrupts leave the main program some time to run.
LiveSpec ==
    /\ Spec
    /\ \A line \in Irqs : SF_vars(irq_entry(line))
    /\ \A d \in 1 .. MaxDepth : SF_vars(Depth = d /\ dispatch_return)
    /\ SF_vars(mask_outb)
    /\ \A d \in 0 .. MaxDepth : SF_vars(Depth = d /\ int86_cli)
    /\ WF_vars(int86_pics)
    /\ WF_vars(int86_return)
    /\ SF_vars(main_flag_set(1))

-----------------------------------------------------------------------------
\* All state is of the kind the code keeps, and the stack of frames is bounded
\* only because the handlers' nesting is.
TypeOK ==
    /\ intr_flag \in {0, 1} /\ main_flag \in {0, 1}
    /\ intr_func \subseteq 0 .. 255
    /\ Depth <= MaxDepth
    /\ \A i \in 1 .. Depth : frames[i] \in [inum : 0 .. 255, flag : {0, 1}, handled : BOOLEAN]
    /\ cur_intr_frame \in 0 .. MaxDepth
    /\ eoi_pending \in {0} \union 32 .. 47
    /\ irr \subseteq Lines /\ isr \subseteq Lines /\ masked \subseteq Lines
    /\ wanted \subseteq Lines
    /\ newmask.lines \subseteq Lines
    /\ saved_if \in {0, 1} /\ entering \subseteq 0 .. Depth
    /\ bios.phase \in {"no", "bios", "back"} /\ bios.masked \subseteq Lines
    /\ kb_full \in BOOLEAN /\ panicked \in BOOLEAN

\* The comment on dispatch_intr: it sends the end of interrupt when finished.  Once
\* the last frame has returned, neither controller has a line in service, for every
\* nesting of IRQs, spurious IRQs, exceptions, traps and early end_of_irq calls.
PicsIdle == InMain => isr = {} /\ eoi_pending = 0

\* The checks in the stubs of IRQ 7 and IRQ 15: the handler of a line is called only
\* when a controller is really serving that line.
HandlerServesRequest ==
    [][\A line \in Lines :
          Depth' > Depth /\ frames'[Depth + 1].inum = IRQ_TO_INTR(line) => line \in isr' \ isr]_vars

\* Interrupts, traps, exceptions and int86 give the main program its interrupt flag
\* back as it was, those included that come after int86 has written saved_if and before
\* its cli.
MainFlagKept == InMain => intr_flag = main_flag

\* The masks are those the calls of mask_irq and unmask_irq ask for, although int86
\* lets the BIOS change them and init_pic clears them.
MasksAsAsked == InMain => masked = wanted

\* The comment in int86 on keyboards from which "we can't receive any more keyboard
\* interrupts afterwards": a byte in port 60h outside of int86 has its request pending,
\* although init_pic forgets the requests of the bytes that came during the call.
KeyboardNotStuck == kb_full /\ bios.phase = "no" => KbLine \in irr

\* A request on the most urgent line reaches its handler, unless it goes away or is masked:
\* whatever the others do, no service is left open and interrupts come back on.
UrgentIsServed ==
    \A line \in Irqs : (\A l \in Irqs : line <= l) =>
        (line \in irr ~> line \notin irr \/ line \in wanted \/ panicked)

\* The main program finds its interrupt flag and the masks as it left them, whatever
\* handlers, exceptions and BIOS calls came in between.
MainInv == TypeOK /\ MainFlagKept /\ MasksAsAsked
=============================================================================
