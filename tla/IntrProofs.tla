----------------------------- MODULE IntrProofs -----------------------------
(***************************************************************************)
(* Proofs about interrupt dispatch, for every set of devices, exceptions   *)
(* and managed vectors and every depth of nesting.  What is said about the *)
(* controllers holds when handlers enable interrupts, if at all, only      *)
(* after they have acknowledged their own (Enabling # "any"), and what is  *)
(* said about the main program's flag when no handler calls int86          *)
(* (Bios # "any"), which keeps it in a static.                             *)
(***************************************************************************)
EXTENDS Intr, TLAPS

Frame == [inum : 0 .. 255, flag : {0, 1}, handled : BOOLEAN]

\* TypeOK, with the shape of the records.
TypeInv ==
    /\ intr_flag \in {0, 1} /\ main_flag \in {0, 1}
    /\ intr_func \subseteq 0 .. 255
    /\ frames \in Seq(Frame) /\ Len(frames) <= MaxDepth
    /\ cur_intr_frame \in 0 .. MaxDepth
    /\ eoi_pending \in {0} \union 32 .. 47
    /\ irr \subseteq Lines /\ isr \subseteq Lines /\ masked \subseteq Lines
    /\ wanted \subseteq Lines
    /\ newmask \in [irq : -1 .. 15, lines : SUBSET Lines]
    /\ saved_if \in {0, 1} /\ entering \subseteq 0 .. Len(frames)
    /\ bios \in [phase : {"no", "bios", "back"}, masked : SUBSET Lines]
    /\ kb_full \in BOOLEAN /\ panicked \in BOOLEAN

\* The flag and the masks the processor goes on with when an int86 returns.
Flag == IF bios.phase = "no" THEN intr_flag ELSE saved_if
Masks == IF bios.phase = "bios" THEN bios.masked ELSE masked

\* The main program's flag is in the processor, in saved_if, or in the lowest frame; and
\* saved_if is only the main program's.
FlagInv ==
    /\ main_flag = IF frames = << >> THEN Flag ELSE frames[1].flag
    /\ entering \subseteq {0}
    /\ entering # {} => saved_if = main_flag
    /\ bios.phase # "no" => frames = << >> /\ entering = {}

\* A mask_irq or unmask_irq in progress leads to the masks asked for.
MaskInv == wanted = IF newmask = NoMask THEN Masks
                    ELSE (Masks \ Pic(newmask.irq)) \union newmask.lines

\* An interrupt that is not acknowledged yet is the one in service (or none is, after an
\* int86), belongs to the topmost IRQ's frame, and keeps interrupts off.
EoiInv ==
    /\ eoi_pending = 0 /\ bios.phase # "bios" => isr = {}
    /\ eoi_pending # 0 =>
        /\ Flag = 0
        /\ Len(frames) \in entering => saved_if = 0
        /\ frames # << >>
        /\ IS_IRQ(frames[Len(frames)].inum) => frames[Len(frames)].inum = eoi_pending
        /\ bios.phase # "bios" =>
             LET line == INTR_TO_IRQ(eoi_pending)
             IN isr = {} \/ isr = {line, MasterLine(line)}

-----------------------------------------------------------------------------
\* What pushing and popping a frame does to the stack.
LEMMA PushFacts ==
    ASSUME NEW s \in Seq(Frame), NEW f \in Frame
    PROVE  /\ Append(s, f) \in Seq(Frame) /\ Append(s, f) # << >>
           /\ Len(Append(s, f)) = Len(s) + 1
           /\ Append(s, f)[Len(s) + 1] = f
           /\ Append(s, f)[1] = IF s = << >> THEN f ELSE s[1]
  OBVIOUS

LEMMA Prefix ==
    ASSUME NEW s \in Seq(Frame), NEW n \in 0 .. Len(s)
    PROVE  /\ SubSeq(s, 1, n) \in Seq(Frame)
           /\ Len(SubSeq(s, 1, n)) = n
           /\ \A i \in 1 .. n : SubSeq(s, 1, n)[i] = s[i]
  OBVIOUS

LEMMA PopFacts ==
    ASSUME NEW s \in Seq(Frame), s # << >>, NEW t, t = SubSeq(s, 1, Len(s) - 1)
    PROVE  /\ t \in Seq(Frame) /\ Len(t) = Len(s) - 1
           /\ t = << >> => s[Len(s)] = s[1]
           /\ t # << >> => t[1] = s[1]
<1>1. Len(s) \in Nat /\ Len(s) >= 1 /\ Len(s) - 1 \in 0 .. Len(s)
  OBVIOUS
<1>2. t \in Seq(Frame) /\ Len(t) = Len(s) - 1 /\ \A i \in 1 .. Len(s) - 1 : t[i] = s[i]
  BY <1>1, Prefix
<1>3. t # << >> => Len(t) >= 1
  BY <1>2
<1>4. t = << >> => Len(t) = 0
  OBVIOUS
<1> QED BY <1>1, <1>2, <1>3, <1>4

\* The two ends of interrupt clear the controllers when one line and its cascade are in
\* service.
LEMMA EndedFacts ==
    ASSUME NEW line \in 0 .. 15, NEW s,
           s = {} \/ s = {line, MasterLine(line)}
    PROVE  Ended(IF line > 7 THEN Ended(s, Pic(line)) ELSE s, Pic(0)) = {}
  BY DEF Ended, Pic, MasterLine, Cascade

LEMMA EndedSubset == \A s, pic : Ended(s, pic) \subseteq s
  BY DEF Ended

LEMMA IrqLine ==
    \A line \in Irqs : line \in 0 .. 15 /\ line \in Lines /\ MasterLine(line) \in Lines
  BY IrqAssumption DEF MasterLine, Cascade, Lines

-----------------------------------------------------------------------------
\* The part of the invariant that does not depend on what handlers do.
MainIInv == TypeInv /\ MaskInv

LEMMA InitMain == Init => MainIInv
<1> SUFFICES ASSUME Init PROVE MainIInv
  OBVIOUS
<1>1. intr_func \subseteq 0 .. 255
  <2> SUFFICES ASSUME NEW i \in Irqs PROVE IRQ_TO_INTR(i) \in 0 .. 255
    BY DEF Init
  <2> QED BY IrqLine, SMTT(60) DEF IRQ_TO_INTR, IRQ_OFFSET
<1>2. TypeInv
  <2>1. frames \in Seq(Frame) /\ Len(frames) <= MaxDepth /\ cur_intr_frame \in 0 .. MaxDepth
    BY ModeAssumption DEF Init
  <2>2. irr \subseteq Lines /\ isr \subseteq Lines /\ masked \subseteq Lines /\ wanted \subseteq Lines
    BY DEF Init
  <2>3. newmask \in [irq : -1 .. 15, lines : SUBSET Lines]
    BY DEF Init, NoMask
  <2>4. /\ bios \in [phase : {"no", "bios", "back"}, masked : SUBSET Lines]
        /\ saved_if \in {0, 1} /\ entering \subseteq 0 .. Len(frames)
        /\ kb_full \in BOOLEAN /\ panicked \in BOOLEAN
    BY DEF Init, NoBios
  <2> QED BY <1>1, <2>1, <2>2, <2>3, <2>4 DEF Init, TypeInv
<1>3. MaskInv
  BY DEF Init, MaskInv, Masks, NoMask, NoBios
<1> QED BY <1>2, <1>3 DEF MainIInv

\* Entering dispatch_intr for interrupt inum, whatever it did to the controllers.
LEMMA EnterMain ==
    ASSUME MainIInv, Running, NEW inum \in 0 .. 255, Enter(inum),
           irr' \subseteq Lines, isr' \subseteq Lines, kb_full' \in BOOLEAN
    PROVE  MainIInv'
<1> USE DEF MainIInv
<1> DEFINE f == [inum |-> inum, flag |-> intr_flag, handled |-> inum \in intr_func]
<1>1. f \in Frame
  BY DEF TypeInv, Frame
<1>2. frames' = Append(frames, f) /\ frames \in Seq(Frame)
  BY DEF Enter, TypeInv
<1>3. /\ frames' \in Seq(Frame) /\ frames' # << >> /\ Len(frames') = Len(frames) + 1
      /\ frames'[1] = IF frames = << >> THEN f ELSE frames[1]
  BY <1>1, <1>2, PushFacts
<1>4. TypeInv'
  <2>1. Len(frames') <= MaxDepth /\ cur_intr_frame' \in 0 .. MaxDepth
    BY <1>2, <1>3, ModeAssumption DEF Enter, Depth
  <2>4. entering' \subseteq 0 .. Len(frames')
    <3>1. entering' = entering /\ 0 .. Len(frames) \subseteq 0 .. Len(frames')
      BY <1>2, <1>3 DEF Enter, calls
    <3> QED BY <3>1 DEF TypeInv
  <2>2. panicked' \in BOOLEAN
    BY DEF Enter
  <2>3. intr_flag' \in {0, 1} /\ eoi_pending' \in {0} \union 32 .. 47
    BY DEF Enter, TypeInv, IS_TRAP, IS_IRQ, IRQ_OFFSET
  <2>5. UNCHANGED <<intr_func, masked, newmask, saved_if, bios, main_flag, wanted>>
    BY DEF Enter, calls
  <2>6. TypeInv /\ irr' \subseteq Lines /\ isr' \subseteq Lines /\ kb_full' \in BOOLEAN
    OBVIOUS
  <2> QED BY <1>3, <2>1, <2>2, <2>3, <2>4, <2>5, <2>6 DEF TypeInv
<1>5. MaskInv'
  BY DEF MaskInv, Enter, Masks, calls
<1> QED BY <1>4, <1>5

LEMMA StepMain == MainIInv /\ [Next]_vars => MainIInv'
<1> SUFFICES ASSUME MainIInv, [Next]_vars PROVE MainIInv'
  OBVIOUS
<1> USE DEF MainIInv
<1>1. ASSUME NEW line \in Irqs, device_request(line) PROVE MainIInv'
  <2>1. TypeInv'
    <3>1. irr' \subseteq Lines
      BY <1>1, IrqLine, Zenon DEF device_request, TypeInv
    <3>2. kb_full' \in BOOLEAN
      BY <1>1 DEF device_request, TypeInv
    <3>3. UNCHANGED <<intr_flag, soft, isr, masked, newmask, calls, panicked, main_flag, wanted>>
      BY <1>1 DEF device_request
    <3> QED BY <3>1, <3>2, <3>3 DEF soft, calls, TypeInv
  <2> QED BY <1>1, <2>1 DEF device_request, calls, MaskInv, Masks
<1>2. ASSUME NEW line \in Irqs, irq_entry(line) PROVE MainIInv'
  <2>1. irr' \subseteq Lines /\ isr' \subseteq Lines
    BY <1>2, IrqLine, ZenonT(60) DEF irq_entry, TypeInv
  <2>2. IRQ_TO_INTR(line) \in 0 .. 255
    BY IrqLine DEF IRQ_TO_INTR, IRQ_OFFSET
  <2>3. kb_full' \in BOOLEAN
    BY <1>2 DEF irq_entry
  <2> QED BY <1>2, <2>1, <2>2, <2>3, EnterMain DEF irq_entry
<1>3. ASSUME NEW line \in Irqs, irq7_entry_check_spurious(line) PROVE MainIInv'
  <2>1. irr' \subseteq Lines /\ isr' \subseteq Lines /\ kb_full' = kb_full /\ kb_full' \in BOOLEAN
    BY <1>3 DEF irq7_entry_check_spurious, TypeInv
  <2>2. CASE 7 \in isr
    <3>1. IRQ_TO_INTR(7) \in 0 .. 255
      BY DEF IRQ_TO_INTR, IRQ_OFFSET
    <3> QED BY <1>3, <2>1, <2>2, <3>1, EnterMain DEF irq7_entry_check_spurious
  <2>3. CASE 7 \notin isr
    <3>1. Ignore
      BY <1>3, <2>3 DEF irq7_entry_check_spurious
    <3> QED BY <2>1, <3>1 DEF Ignore, soft, calls, TypeInv, MaskInv, Masks
  <2> QED BY <2>2, <2>3
<1>4. ASSUME NEW line \in Irqs, irq15_entry_check_spurious(line) PROVE MainIInv'
  <2>1. irr' \subseteq Lines /\ isr' \subseteq Lines
    <3>1. isr \union {Cascade} \subseteq Lines
      BY DEF TypeInv, Lines, Cascade
    <3> QED BY <1>4, <3>1, EndedSubset DEF irq15_entry_check_spurious, TypeInv
  <2>4. kb_full' = kb_full /\ kb_full' \in BOOLEAN
    BY <1>4 DEF irq15_entry_check_spurious, TypeInv
  <2>2. CASE 15 \in isr
    <3>1. IRQ_TO_INTR(15) \in 0 .. 255
      BY DEF IRQ_TO_INTR, IRQ_OFFSET
    <3> QED BY <1>4, <2>1, <2>2, <2>4, <3>1, EnterMain DEF irq15_entry_check_spurious
  <2>3. CASE 15 \notin isr
    <3>1. Ignore
      BY <1>4, <2>3 DEF irq15_entry_check_spurious
    <3> QED BY <2>1, <2>4, <3>1 DEF Ignore, soft, calls, TypeInv, MaskInv, Masks
  <2> QED BY <2>2, <2>3
<1>5. ASSUME NEW inum \in Softs, soft_entry(inum) PROVE MainIInv'
  <2>1. inum \in 0 .. 255
    BY SoftAssumption
  <2>2. Running /\ irr' \subseteq Lines /\ isr' \subseteq Lines /\ kb_full' \in BOOLEAN
    BY <1>5 DEF soft_entry, InMain, InHandler, TypeInv
  <2> QED BY <1>5, <2>1, <2>2, EnterMain DEF soft_entry
<1>6. ASSUME handler_eoi PROVE MainIInv'
  <2>1. eoi_pending' \in {0} \union 32 .. 47 /\ isr' \subseteq Lines
    BY <1>6, EndedSubset DEF handler_eoi, end_of_irq, TypeInv
  <2> QED BY <1>6, <2>1 DEF handler_eoi, calls, TypeInv, MaskInv, Masks
<1>7. ASSUME dispatch_return PROVE MainIInv'
  <2>1. frames \in Seq(Frame) /\ frames # << >> /\ frames' = SubSeq(frames, 1, Len(frames) - 1)
    BY <1>7 DEF dispatch_return, TypeInv, Depth
  <2>2. frames' \in Seq(Frame) /\ Len(frames') = Len(frames) - 1
    BY <2>1, PopFacts
  <2>8. Len(frames) \in Nat
    BY <2>1
  <2>3. eoi_pending' \in {0} \union 32 .. 47 /\ isr' \subseteq Lines
    BY <1>7, EndedSubset DEF dispatch_return, end_of_irq, TypeInv
  <2>4. intr_flag' \in {0, 1}
    <3>1. Len(frames) \in 1 .. Len(frames)
      BY <2>1
    <3>2. frames[Len(frames)] \in Frame
      BY <2>1, <3>1
    <3> QED BY <1>7, <3>2 DEF dispatch_return, Top, Depth, Frame
  <2>5. entering' \subseteq 0 .. Len(frames')
    <3>1. entering' = entering /\ entering \subseteq 0 .. Len(frames) /\ Len(frames) \notin entering
      BY <1>7 DEF dispatch_return, calls, Depth, TypeInv
    <3> QED BY <2>2, <2>8, <3>1
  <2>6. TypeInv'
    <3>1. UNCHANGED <<intr_func, cur_intr_frame, irr, masked, newmask, saved_if, bios, kb_full,
                      panicked, main_flag, wanted>>
      BY <1>7 DEF dispatch_return, calls
    <3> QED BY <2>2, <2>3, <2>4, <2>5, <2>8, <3>1, ModeAssumption, SMTT(60) DEF TypeInv
  <2>7. MaskInv'
    BY <1>7 DEF dispatch_return, calls, MaskInv, Masks
  <2> QED BY <2>6, <2>7
<1>8. ASSUME NEW onoff \in {0, 1}, handler_flag(onoff) PROVE MainIInv'
  BY <1>8 DEF handler_flag, soft, pics, calls, TypeInv, MaskInv, Masks
<1>9. ASSUME NEW onoff \in {0, 1}, main_flag_set(onoff) PROVE MainIInv'
  BY <1>9 DEF main_flag_set, soft, pics, calls, TypeInv, MaskInv, Masks
<1>10. ASSUME NEW inum \in Managed, NEW install \in BOOLEAN, interrupt(inum, install)
       PROVE  MainIInv'
  BY <1>10, ManagedAssumption DEF interrupt, pics, calls, TypeInv, MaskInv, Masks
<1>11. ASSUME NEW line \in Irqs, mask_irq(line) \/ unmask_irq(line) PROVE MainIInv'
  <2>1. line \in Pic(line) /\ line \in Lines /\ line # -1 /\ Pic(line) \subseteq Lines
    BY IrqLine DEF Pic, Lines
  <2>2. newmask'.irq = line /\ newmask' \in [irq : -1 .. 15, lines : SUBSET Lines]
    BY <1>11, <2>1 DEF mask_irq, unmask_irq, Lines
  <2>3. TypeInv'
    <3>1. wanted' \subseteq Lines
      BY <1>11, <2>1, ZenonT(60) DEF mask_irq, unmask_irq, TypeInv
    <3>2. UNCHANGED <<intr_flag, soft, pics, calls, kb_full, panicked, main_flag>>
      BY <1>11 DEF mask_irq, unmask_irq
    <3> QED BY <2>2, <3>1, <3>2 DEF soft, pics, calls, TypeInv
  <2>5. MaskInv'
    <3>1. newmask' # NoMask /\ wanted = masked /\ Masks' = masked
      BY <1>11, <2>1, <2>2 DEF mask_irq, unmask_irq, pics, calls, InMain, Running, NoMask, MaskInv, Masks
    <3>2. wanted' = (masked \ Pic(line)) \union newmask'.lines
      BY <1>11, <2>1, <3>1 DEF mask_irq, unmask_irq
    <3> QED BY <2>2, <3>1, <3>2 DEF MaskInv
  <2> QED BY <2>3, <2>5
<1>12. ASSUME mask_outb PROVE MainIInv'
  <2>1. TypeInv'
    BY <1>12 DEF mask_outb, soft, calls, TypeInv, NoMask
  <2> QED BY <1>12, <2>1 DEF mask_outb, soft, calls, Running, MaskInv, Masks
<1>13. ASSUME int86_enter PROVE MainIInv'
  <2>1. TypeInv'
    <3>1. Len(frames) \in 0 .. Len(frames)
      BY DEF TypeInv
    <3>2. entering' \subseteq 0 .. Len(frames)
      BY <1>13, <3>1, Zenon DEF int86_enter, TypeInv, Depth
    <3>3. saved_if' \in {0, 1}
      BY <1>13 DEF int86_enter, TypeInv
    <3>4. UNCHANGED <<intr_flag, soft, pics, newmask, bios, kb_full, panicked, main_flag, wanted>>
      BY <1>13 DEF int86_enter
    <3> QED BY <3>2, <3>3, <3>4 DEF soft, pics, TypeInv
  <2> QED BY <1>13, <2>1 DEF int86_enter, soft, pics, MaskInv, Masks
<1>14. ASSUME NEW line \in Irqs, bios_irq(line) \/ bios_masks(line) PROVE MainIInv'
  <2>1. TypeInv'
    <3>1. irr' \subseteq Lines /\ isr' \subseteq Lines /\ masked' \subseteq Lines
      <4>1. line \in Lines /\ MasterLine(line) \in Lines
        BY IrqLine
      <4>2. irr \subseteq Lines /\ isr \subseteq Lines /\ masked \subseteq Lines
        BY DEF TypeInv
      <4>3. CASE bios_irq(line)
        BY <4>1, <4>2, <4>3, Zenon DEF bios_irq
      <4>4. CASE bios_masks(line)
        BY <4>1, <4>2, <4>4, Zenon DEF bios_masks
      <4> QED BY <1>14, <4>3, <4>4
    <3>2. UNCHANGED <<intr_flag, soft, newmask, calls, panicked, main_flag, wanted>>
      BY <1>14 DEF bios_irq, bios_masks
    <3>3. kb_full' \in BOOLEAN
      BY <1>14 DEF bios_irq, bios_masks, TypeInv
    <3> QED BY <3>1, <3>2, <3>3 DEF soft, calls, TypeInv
  <2> QED BY <1>14, <2>1 DEF bios_irq, bios_masks, soft, calls, MaskInv, Masks
<1>15. ASSUME int86_cli \/ int86_pics \/ int86_return PROVE MainIInv'
  <2>1. TypeInv'
    <3>1. CASE int86_cli
      <4>1. bios' \in [phase : {"no", "bios", "back"}, masked : SUBSET Lines]
        BY <3>1 DEF int86_cli, TypeInv
      <4>2. intr_flag' = 0 /\ entering' \subseteq entering
        BY <3>1 DEF int86_cli
      <4>3. UNCHANGED <<saved_if, soft, pics, newmask, kb_full, panicked, main_flag, wanted>>
        BY <3>1 DEF int86_cli
      <4> QED BY <4>1, <4>2, <4>3 DEF soft, pics, TypeInv
    <3>2. CASE int86_pics
      BY <3>2 DEF int86_pics, prog_pic, set_pic_masks, soft, TypeInv
    <3>3. CASE int86_return
      BY <3>3 DEF int86_return, soft, pics, NoBios, TypeInv
    <3> QED BY <1>15, <3>1, <3>2, <3>3
  <2>2. Masks' = Masks /\ UNCHANGED <<newmask, wanted>>
    BY <1>15 DEF int86_cli, int86_pics, int86_return, prog_pic, set_pic_masks, pics, NoBios,
                 Running, Masks, TypeInv
  <2> QED BY <2>1, <2>2 DEF MaskInv
<1>16. CASE UNCHANGED vars
  BY <1>16 DEF vars, soft, pics, calls, TypeInv, MaskInv, Masks
<1> QED BY <1>1, <1>2, <1>3, <1>4, <1>5, <1>6, <1>7, <1>8, <1>9, <1>10, <1>11, <1>12, <1>13,
           <1>14, <1>15, <1>16 DEF Next, panic

LEMMA MainIInvHolds == Spec => []MainIInv
  BY InitMain, StepMain, PTL DEF Spec

-----------------------------------------------------------------------------
(***************************************************************************)
(* The main program's interrupt flag.  Interrupts may come between         *)
(* int86's write of saved_if and its cli, but none of them writes it.      *)
(***************************************************************************)
LEMMA EnterFlag ==
    ASSUME TypeInv, FlagInv, Running, NEW inum \in 0 .. 255, Enter(inum)
    PROVE  FlagInv'
<1> DEFINE f == [inum |-> inum, flag |-> intr_flag, handled |-> inum \in intr_func]
<1>1. f \in Frame
  BY DEF TypeInv, Frame
<1>2. frames' = Append(frames, f) /\ frames \in Seq(Frame)
  BY DEF Enter, TypeInv
<1>3. frames' # << >> /\ frames'[1] = IF frames = << >> THEN f ELSE frames[1]
  BY <1>1, <1>2, PushFacts
<1>4. f.flag = intr_flag
  OBVIOUS
<1>5. UNCHANGED <<saved_if, entering, bios, main_flag>>
  BY DEF Enter, calls
<1> HIDE DEF f
<1> QED BY <1>3, <1>4, <1>5 DEF FlagInv, Running, Flag

LEMMA StepFlag ==
    ASSUME Bios # "any", TypeInv, FlagInv, [Next]_vars
    PROVE  FlagInv'
<1> DEFINE Rest == UNCHANGED <<frames, saved_if, entering, bios, main_flag>>
<1>1. ASSUME Rest, intr_flag' = intr_flag \/ bios.phase # "no" \/ frames # << >> PROVE FlagInv'
  BY <1>1 DEF FlagInv, Flag
<1>2. ASSUME NEW line \in Irqs, irq_entry(line) PROVE FlagInv'
  <2>1. IRQ_TO_INTR(line) \in 0 .. 255
    BY IrqLine DEF IRQ_TO_INTR, IRQ_OFFSET
  <2> QED BY <1>2, <2>1, EnterFlag DEF irq_entry
<1>3. ASSUME NEW line \in Irqs,
             irq7_entry_check_spurious(line) \/ irq15_entry_check_spurious(line)
      PROVE  FlagInv'
  <2>1. IRQ_TO_INTR(7) \in 0 .. 255 /\ IRQ_TO_INTR(15) \in 0 .. 255
    BY DEF IRQ_TO_INTR, IRQ_OFFSET
  <2>2. CASE Ignore
    BY <1>1, <2>2 DEF Ignore, soft, calls
  <2>3. CASE Running /\ (Enter(IRQ_TO_INTR(7)) \/ Enter(IRQ_TO_INTR(15)))
    BY <2>1, <2>3, EnterFlag
  <2> QED BY <1>3, <2>2, <2>3 DEF irq7_entry_check_spurious, irq15_entry_check_spurious
<1>4. ASSUME NEW inum \in Softs, soft_entry(inum) PROVE FlagInv'
  BY <1>4, SoftAssumption, EnterFlag DEF soft_entry, InMain, InHandler
<1>5. ASSUME dispatch_return PROVE FlagInv'
  <2>1. frames \in Seq(Frame) /\ frames # << >> /\ frames' = SubSeq(frames, 1, Len(frames) - 1)
    BY <1>5 DEF dispatch_return, TypeInv, Depth
  <2>2. /\ frames' = << >> => frames[Len(frames)] = frames[1]
        /\ frames' # << >> => frames'[1] = frames[1]
    BY <2>1, PopFacts
  <2>3. intr_flag' = frames[Len(frames)].flag /\ bios.phase = "no"
    BY <1>5 DEF dispatch_return, Top, Depth, Running
  <2>4. UNCHANGED <<saved_if, entering, bios, main_flag>>
    BY <1>5 DEF dispatch_return, calls
  <2> QED BY <2>1, <2>2, <2>3, <2>4 DEF FlagInv, Flag
<1>6. ASSUME NEW onoff \in {0, 1}, handler_flag(onoff) PROVE FlagInv'
  BY <1>1, <1>6 DEF handler_flag, InHandler, soft, calls
<1>7. ASSUME NEW onoff \in {0, 1}, main_flag_set(onoff) PROVE FlagInv'
  <2>1. frames = << >> /\ bios.phase = "no" /\ Len(frames) \notin entering
    BY <1>7 DEF main_flag_set, InMain, Running, Depth
  <2>2. Len(frames) = 0
    BY <2>1
  <2>3. entering = {}
    BY <2>1, <2>2 DEF FlagInv
  <2>4. UNCHANGED <<frames, entering, bios>> /\ main_flag' = intr_flag'
    BY <1>7 DEF main_flag_set, soft, calls
  <2> QED BY <2>1, <2>3, <2>4 DEF FlagInv, Flag
<1>8. ASSUME int86_enter PROVE FlagInv'
  <2>1. InMain
    BY <1>8, ModeAssumption DEF int86_enter, MayCall
  <2>2. frames = << >> /\ bios.phase = "no"
    BY <2>1 DEF InMain, Running
  <2>3. Len(frames) = 0
    BY <2>2
  <2>4. /\ saved_if' = intr_flag /\ entering' = entering \union {0}
        /\ UNCHANGED <<intr_flag, frames, bios, main_flag>>
    BY <1>8, <2>3 DEF int86_enter, Depth, soft
  <2> QED BY <2>2, <2>4 DEF FlagInv, Flag
<1>9. ASSUME int86_cli PROVE FlagInv'
  <2>1. Len(frames) \in entering
    BY <1>9 DEF int86_cli, Depth
  <2>2. Len(frames) = 0 /\ entering = {0} /\ saved_if = main_flag
    BY <2>1 DEF FlagInv
  <2>3. frames = << >>
    BY <2>2 DEF TypeInv
  <2>4. /\ entering' = entering \ {0} /\ bios'.phase = "bios"
        /\ UNCHANGED <<saved_if, frames, main_flag>>
    BY <1>9, <2>2 DEF int86_cli, Depth, soft
  <2> QED BY <2>2, <2>3, <2>4 DEF FlagInv, Flag
<1>10. ASSUME int86_pics PROVE FlagInv'
  <2>1. UNCHANGED <<intr_flag, frames, saved_if, entering, main_flag>> /\ bios.phase # "no"
    BY <1>10 DEF int86_pics, soft
  <2>2. bios'.phase = "back"
    BY <1>10 DEF int86_pics, TypeInv
  <2> QED BY <2>1, <2>2 DEF FlagInv, Flag
<1>11. ASSUME int86_return PROVE FlagInv'
  <2>1. UNCHANGED <<frames, saved_if, entering, main_flag>> /\ bios.phase # "no"
    BY <1>11 DEF int86_return, soft
  <2>2. bios'.phase = "no" /\ intr_flag' = saved_if
    BY <1>11 DEF int86_return, NoBios
  <2> QED BY <2>1, <2>2 DEF FlagInv, Flag
<1>12. ASSUME UNCHANGED <<intr_flag, frames, calls, main_flag>> PROVE FlagInv'
  BY <1>1, <1>12 DEF calls
<1>13. ASSUME \/ \E line \in Irqs : \/ device_request(line) \/ mask_irq(line) \/ unmask_irq(line)
                                    \/ bios_irq(line) \/ bios_masks(line)
              \/ handler_eoi \/ mask_outb \/ UNCHANGED vars
              \/ \E inum \in Managed, install \in BOOLEAN : interrupt(inum, install)
       PROVE  FlagInv'
  <2>1. UNCHANGED <<intr_flag, frames, calls, main_flag>>
    BY <1>13 DEF device_request, mask_irq, unmask_irq, bios_irq, bios_masks, handler_eoi, mask_outb,
                 interrupt, vars, soft
  <2> QED BY <2>1, <1>12
<1> QED BY <1>2, <1>3, <1>4, <1>5, <1>6, <1>7, <1>8, <1>9, <1>10, <1>11, <1>13 DEF Next, panic

LEMMA FlagInvHolds == ASSUME Bios # "any" PROVE Spec => []FlagInv
<1>1. Init => FlagInv
  BY DEF Init, FlagInv, Flag, NoBios
<1>2. Spec => []TypeInv
  BY MainIInvHolds, PTL DEF MainIInv
<1>3. TypeInv /\ FlagInv /\ [Next]_vars => FlagInv'
  BY StepFlag
<1> QED BY <1>1, <1>2, <1>3, PTL DEF Spec

\* Whatever handlers, exceptions, traps and calls to the BIOS come in between, also in the
\* middle of int86 and when a handler enables interrupts too early, the main program finds
\* its interrupt flag and the masks as it left them (dispatch_intr, int86, mask_irq), as
\* long as no handler calls int86.
THEOREM MainIsUndisturbed == ASSUME Bios # "any" PROVE Spec => []MainInv
<1>1. TypeInv /\ MaskInv /\ FlagInv => MainInv
  <2> SUFFICES ASSUME TypeInv, MaskInv, FlagInv PROVE MainInv
    OBVIOUS
  <2>1. TypeOK
    <3>1. \A i \in 1 .. Depth : frames[i] \in Frame
      BY DEF TypeInv, Depth
    <3>2. /\ newmask.lines \subseteq Lines
          /\ bios.phase \in {"no", "bios", "back"} /\ bios.masked \subseteq Lines
      BY DEF TypeInv
    <3> QED BY <3>1, <3>2, Zenon DEF TypeInv, TypeOK, Depth, Frame
  <2>2. MainFlagKept
    BY DEF MainFlagKept, InMain, Running, FlagInv, Flag
  <2>3. MasksAsAsked
    BY DEF MasksAsAsked, InMain, Running, MaskInv, Masks
  <2> QED BY <2>1, <2>2, <2>3 DEF MainInv
<1> QED BY <1>1, MainIInvHolds, FlagInvHolds, PTL DEF MainIInv

\* No byte of the keyboard's is left in port 60h without a request for it, whatever
\* requests init_pic makes the controllers forget.
THEOREM KeyboardIsHeard == Spec => []KeyboardNotStuck
<1>1. Init => KeyboardNotStuck
  BY DEF Init, KeyboardNotStuck
<1>2. KeyboardNotStuck /\ [Next]_vars => KeyboardNotStuck'
  <2> SUFFICES ASSUME KeyboardNotStuck, [Next]_vars PROVE KeyboardNotStuck'
    OBVIOUS
  <2>1. ASSUME NEW line \in Irqs,
               \/ irq_entry(line) \/ irq7_entry_check_spurious(line)
               \/ irq15_entry_check_spurious(line)
        PROVE  KeyboardNotStuck'
    <3>1. irr' = irr \ {line} /\ bios' = bios
      BY <2>1, Zenon DEF irq_entry, irq7_entry_check_spurious, irq15_entry_check_spurious, Enter,
                         Ignore, calls
    <3>2. kb_full' => kb_full /\ line # KbLine
      BY <2>1, Zenon DEF irq_entry, irq7_entry_check_spurious, irq15_entry_check_spurious, GoesAway
    <3> QED BY <3>1, <3>2 DEF KeyboardNotStuck
  <2>2. ASSUME NEW line \in Irqs, device_request(line) PROVE KeyboardNotStuck'
    <3>1. irr' = irr \union {line} /\ bios' = bios /\ (kb_full' => kb_full \/ line = KbLine)
      BY <2>2 DEF device_request, calls
    <3> QED BY <3>1 DEF KeyboardNotStuck
  <2>3. ASSUME NEW line \in Irqs, bios_irq(line) \/ bios_masks(line) PROVE KeyboardNotStuck'
    BY <2>3 DEF bios_irq, bios_masks, calls, KeyboardNotStuck
  <2>4. ASSUME int86_cli \/ int86_pics \/ int86_return PROVE KeyboardNotStuck'
    <3>1. CASE int86_cli
      BY <3>1 DEF int86_cli, KeyboardNotStuck
    <3>2. CASE int86_pics
      BY <3>2 DEF int86_pics, KeyboardNotStuck
    <3>3. CASE int86_return
      BY <3>3 DEF int86_return, KeyboardNotStuck
    <3> QED BY <2>4, <3>1, <3>2, <3>3
  <2>5. ASSUME UNCHANGED <<irr, bios, kb_full>> PROVE KeyboardNotStuck'
    BY <2>5 DEF KeyboardNotStuck
  <2> QED BY <2>1, <2>2, <2>3, <2>4, <2>5
          DEF Next, soft_entry, Enter, handler_eoi, dispatch_return, handler_flag, main_flag_set,
              interrupt, mask_irq, unmask_irq, mask_outb, int86_enter, panic, vars, pics, calls
<1> QED BY <1>1, <1>2, PTL DEF Spec

-----------------------------------------------------------------------------
(***************************************************************************)
(* The controllers.  Interrupts are off while an end of interrupt is owed, *)
(* so a request is delivered only when nothing is in service.              *)
(***************************************************************************)
LEMMA EnabledIsIdle ==
    ASSUME TypeInv, EoiInv, Running, intr_flag = 1
    PROVE  eoi_pending = 0 /\ isr = {}
  BY DEF EoiInv, Running, Flag

LEMMA InitEoi == Init => EoiInv
  BY DEF Init, EoiInv, NoBios, Flag

\* A frame for a device interrupt, entered with the controllers idle.
LEMMA EnterIrqEoi ==
    ASSUME TypeInv, Running, NEW line \in 0 .. 15, Enter(IRQ_TO_INTR(line)),
           isr' = {line, MasterLine(line)}
    PROVE  EoiInv'
<1> DEFINE inum == IRQ_TO_INTR(line)
           f == [inum |-> inum, flag |-> intr_flag, handled |-> inum \in intr_func]
<1>1. inum = line + 32 /\ inum \in 0 .. 255 /\ IS_IRQ(inum) /\ ~IS_TRAP(inum) /\ INTR_TO_IRQ(inum) = line
  BY DEF IRQ_TO_INTR, INTR_TO_IRQ, IS_IRQ, IS_TRAP, IRQ_OFFSET
<1>2. f \in Frame
  BY <1>1 DEF TypeInv, Frame
<1>3. frames' = Append(frames, f) /\ frames \in Seq(Frame)
  BY DEF Enter, TypeInv
<1>4. frames' # << >> /\ frames'[Len(frames')] = f
  BY <1>2, <1>3, PushFacts
<1>5. eoi_pending' = inum /\ eoi_pending' # 0 /\ intr_flag' = 0 /\ bios.phase = "no" /\ bios' = bios
  BY <1>1 DEF Enter, Running, calls
<1>7. Len(frames') \notin entering'
  <2>1. Len(frames') = Len(frames) + 1 /\ Len(frames) \in Nat
    BY <1>2, <1>3, PushFacts
  <2>2. entering' \subseteq 0 .. Len(frames)
    BY DEF Enter, calls, TypeInv
  <2> QED BY <2>1, <2>2
<1> HIDE DEF inum
<1>6. Flag' = 0 /\ f.inum = inum
  BY <1>5 DEF Flag
<1> HIDE DEF f
<1> QED BY <1>1, <1>4, <1>5, <1>6, <1>7 DEF EoiInv

\* A frame for an exception or a software interrupt.
LEMMA EnterSoftEoi ==
    ASSUME TypeInv, EoiInv, Running, NEW inum \in 0 .. 255 \ 32 .. 47, Enter(inum), isr' = isr
    PROVE  EoiInv'
<1> DEFINE f == [inum |-> inum, flag |-> intr_flag, handled |-> inum \in intr_func]
<1>1. ~IS_IRQ(inum)
  BY DEF IS_IRQ, IRQ_OFFSET
<1>2. f \in Frame
  BY DEF TypeInv, Frame
<1>3. frames' = Append(frames, f) /\ frames \in Seq(Frame)
  BY DEF Enter, TypeInv
<1>4. frames' # << >> /\ frames'[Len(frames')] = f
  BY <1>2, <1>3, PushFacts
<1>5. eoi_pending' = eoi_pending /\ bios.phase = "no" /\ bios' = bios /\ (intr_flag = 0 => intr_flag' = 0)
  BY <1>1 DEF Enter, Running, calls
<1>7. Len(frames') \notin entering'
  <2>1. Len(frames') = Len(frames) + 1 /\ Len(frames) \in Nat
    BY <1>2, <1>3, PushFacts
  <2>2. entering' \subseteq 0 .. Len(frames)
    BY DEF Enter, calls, TypeInv
  <2> QED BY <2>1, <2>2
<1>6. f.inum = inum /\ (Flag = 0 => Flag' = 0)
  BY <1>5 DEF Flag
<1> HIDE DEF f
<1> QED BY <1>1, <1>4, <1>5, <1>6, <1>7 DEF EoiInv

\* An end of interrupt, when the interrupt owed is the one acknowledged.
LEMMA EndOfIrqIdle ==
    ASSUME TypeInv, EoiInv, bios.phase = "no", NEW irq,
           eoi_pending # 0 => irq = INTR_TO_IRQ(eoi_pending),
           end_of_irq(irq)
    PROVE  eoi_pending' = 0 /\ isr' = {}
<1>1. CASE eoi_pending = 0
  BY <1>1 DEF end_of_irq, EoiInv
<1>2. CASE eoi_pending # 0
  <2>1. irq \in 0 .. 15 /\ (isr = {} \/ isr = {irq, MasterLine(irq)})
    BY <1>2 DEF EoiInv, TypeInv, INTR_TO_IRQ, IRQ_OFFSET
  <2>2. eoi_pending' = 0 /\ isr' = Ended(IF irq > 7 THEN Ended(isr, Pic(irq)) ELSE isr, Pic(0))
    BY <1>2 DEF end_of_irq
  <2> QED BY <2>1, <2>2, EndedFacts
<1> QED BY <1>1, <1>2

LEMMA StepEoi ==
    ASSUME Enabling # "any", TypeInv, EoiInv, [Next]_vars
    PROVE  EoiInv'
<1>1. ASSUME NEW line \in Irqs, device_request(line) PROVE EoiInv'
  BY <1>1 DEF device_request, soft, calls, EoiInv, Flag
<1>2. ASSUME NEW line \in Irqs, irq_entry(line) PROVE EoiInv'
  <2>1. isr = {} /\ Running
    BY <1>2, EnabledIsIdle DEF irq_entry
  <2>2. isr' = {line, MasterLine(line)} /\ Enter(IRQ_TO_INTR(line))
    BY <1>2, <2>1 DEF irq_entry
  <2> QED BY <2>1, <2>2, IrqLine, EnterIrqEoi
<1>3. ASSUME NEW line \in Irqs, irq7_entry_check_spurious(line) PROVE EoiInv'
  <2>1. isr = {} /\ Running
    BY <1>3, EnabledIsIdle DEF irq7_entry_check_spurious
  <2>2. Ignore /\ isr' = isr
    BY <1>3, <2>1 DEF irq7_entry_check_spurious
  <2> QED BY <2>2 DEF Ignore, soft, calls, EoiInv, Flag
<1>4. ASSUME NEW line \in Irqs, irq15_entry_check_spurious(line) PROVE EoiInv'
  <2>1. isr = {} /\ Running
    BY <1>4, EnabledIsIdle DEF irq15_entry_check_spurious
  <2>2. Ignore /\ isr' = Ended({Cascade}, Pic(0))
    BY <1>4, <2>1 DEF irq15_entry_check_spurious
  <2>3. isr' = isr
    BY <2>1, <2>2 DEF Ended, Pic, Cascade
  <2> QED BY <2>2, <2>3 DEF Ignore, soft, calls, EoiInv, Flag
<1>5. ASSUME NEW inum \in Softs, soft_entry(inum) PROVE EoiInv'
  BY <1>5, SoftAssumption, EnterSoftEoi DEF soft_entry, InMain, InHandler
<1>6. ASSUME handler_eoi PROVE EoiInv'
  <2>1. bios.phase = "no" /\ bios' = bios /\ IS_IRQ(frames[Len(frames)].inum)
    BY <1>6 DEF handler_eoi, InHandler, Running, calls, Top, Depth
  <2>2. eoi_pending # 0 => INTR_TO_IRQ(Top.inum) = INTR_TO_IRQ(eoi_pending)
    BY <2>1 DEF EoiInv, Top, Depth
  <2>3. eoi_pending' = 0 /\ isr' = {}
    BY <1>6, <2>1, <2>2, EndOfIrqIdle DEF handler_eoi
  <2> QED BY <2>3 DEF EoiInv
<1>7. ASSUME dispatch_return PROVE EoiInv'
  <2>1. eoi_pending' = 0 /\ isr' = {}
    BY <1>7, EndOfIrqIdle DEF dispatch_return, Running
  <2> QED BY <2>1 DEF EoiInv
<1>8. ASSUME NEW onoff \in {0, 1}, handler_flag(onoff) PROVE EoiInv'
  <2>1. UNCHANGED <<frames, eoi_pending, isr, calls>>
    BY <1>8 DEF handler_flag, soft, pics
  <2>2. eoi_pending # 0 => intr_flag' = 0 /\ bios.phase = "no"
    BY <1>8, ModeAssumption DEF handler_flag, MayEnable, InHandler, Running
  <2> QED BY <2>1, <2>2 DEF EoiInv, Flag, calls
<1>9. ASSUME NEW onoff \in {0, 1}, main_flag_set(onoff) PROVE EoiInv'
  <2>1. UNCHANGED <<frames, eoi_pending, isr, bios>> /\ frames = << >>
    BY <1>9 DEF main_flag_set, soft, pics, calls, InMain
  <2> QED BY <2>1 DEF EoiInv
<1>10. ASSUME NEW inum \in Managed, NEW install \in BOOLEAN, interrupt(inum, install)
       PROVE  EoiInv'
  BY <1>10 DEF interrupt, pics, calls, EoiInv, Flag
<1>11. ASSUME NEW line \in Irqs, mask_irq(line) \/ unmask_irq(line) PROVE EoiInv'
  BY <1>11 DEF mask_irq, unmask_irq, soft, pics, calls, EoiInv, Flag
<1>12. ASSUME mask_outb PROVE EoiInv'
  BY <1>12 DEF mask_outb, soft, calls, EoiInv, Flag
<1>13. ASSUME int86_enter PROVE EoiInv'
  <2>1. bios.phase = "no" /\ saved_if' = intr_flag
        /\ UNCHANGED <<intr_flag, frames, eoi_pending, isr, bios>>
    BY <1>13, ModeAssumption DEF int86_enter, MayCall, InMain, InHandler, Running, soft, pics
  <2> QED BY <2>1 DEF EoiInv, Flag
<1>14. ASSUME int86_cli PROVE EoiInv'
  <2>1. /\ bios.phase = "no" /\ bios'.phase = "bios" /\ Len(frames) \in entering
        /\ entering' = entering \ {Len(frames)}
        /\ UNCHANGED <<saved_if, frames, eoi_pending, isr>>
    BY <1>14 DEF int86_cli, Running, Depth, soft, pics
  <2> QED BY <2>1 DEF EoiInv, Flag
<1>15. ASSUME \/ int86_pics \/ int86_return
              \/ \E line \in Irqs : bios_irq(line) \/ bios_masks(line)
       PROVE  EoiInv'
  <2>1. CASE int86_pics
    <3>1. /\ isr' = {} /\ bios.phase # "no" /\ bios'.phase = "back"
          /\ UNCHANGED <<intr_flag, saved_if, entering, frames, eoi_pending>>
      BY <2>1 DEF int86_pics, prog_pic, soft
    <3> QED BY <3>1 DEF EoiInv, Flag
  <2>2. CASE int86_return
    <3>1. /\ bios.phase = "back" /\ bios'.phase = "no" /\ intr_flag' = saved_if
          /\ UNCHANGED <<saved_if, entering, frames, eoi_pending, isr>>
      BY <2>2 DEF int86_return, NoBios, soft, pics
    <3> QED BY <3>1 DEF EoiInv, Flag
  <2>3. CASE \E line \in Irqs : bios_irq(line) \/ bios_masks(line)
    <3>1. UNCHANGED <<intr_flag, soft, calls>> /\ bios.phase = "bios"
      BY <2>3 DEF bios_irq, bios_masks
    <3> QED BY <3>1 DEF soft, calls, EoiInv, Flag
  <2> QED BY <1>15, <2>1, <2>2, <2>3
<1>16. CASE UNCHANGED vars
  BY <1>16 DEF vars, soft, pics, calls, EoiInv, Flag
<1> QED BY <1>1, <1>2, <1>3, <1>4, <1>5, <1>6, <1>7, <1>8, <1>9, <1>10, <1>11, <1>12, <1>13,
           <1>14, <1>15, <1>16 DEF Next, panic

LEMMA EoiInvHolds == ASSUME Enabling # "any" PROVE Spec => [](TypeInv /\ EoiInv)
<1>1. Spec => []TypeInv
  BY MainIInvHolds, PTL DEF MainIInv
<1>2. TypeInv /\ EoiInv /\ [Next]_vars => EoiInv'
  BY StepEoi
<1> QED BY <1>1, <1>2, InitEoi, PTL DEF Spec

\* Once dispatch_intr has returned from the last frame, neither controller has a line in
\* service and no end of interrupt is owed, however IRQs, spurious IRQs, exceptions, traps,
\* early end_of_irq calls and calls to the BIOS nest, when no handler enables interrupts
\* before it has acknowledged its own.
THEOREM ControllersAreIdle == ASSUME Enabling # "any" PROVE Spec => []PicsIdle
<1>1. TypeInv /\ EoiInv => PicsIdle
  BY DEF EoiInv, PicsIdle, InMain, Running
<1> QED BY <1>1, EoiInvHolds, PTL

\* The stubs of IRQ 7 and IRQ 15 never call a handler for a request that went away, and
\* every other stub calls one for a line its controller has just begun to serve.
THEOREM HandlersServeRequests == ASSUME Enabling # "any" PROVE Spec => HandlerServesRequest
<1> DEFINE A == \A line \in Lines :
                  Depth' > Depth /\ frames'[Depth + 1].inum = IRQ_TO_INTR(line) => line \in isr' \ isr
<1>1. ASSUME TypeInv, EoiInv, Next, NEW line \in Lines, Depth' > Depth,
             frames'[Depth + 1].inum = IRQ_TO_INTR(line)
      PROVE  line \in isr' \ isr
  <2>1. frames' # frames
    BY <1>1 DEF Depth
  <2>2. ASSUME NEW inum \in 0 .. 255, Enter(inum) PROVE inum = line + 32
    <3> DEFINE f == [inum |-> inum, flag |-> intr_flag, handled |-> inum \in intr_func]
    <3>1. f \in Frame
      BY <1>1 DEF TypeInv, Frame
    <3>2. frames' = Append(frames, f) /\ frames \in Seq(Frame)
      BY <1>1, <2>2 DEF Enter, TypeInv
    <3>3. frames'[Len(frames) + 1] = f
      BY <3>1, <3>2, PushFacts
    <3>4. f.inum = inum
      OBVIOUS
    <3> HIDE DEF f
    <3> QED BY <1>1, <3>3, <3>4 DEF Depth, IRQ_TO_INTR, IRQ_OFFSET
  <2>3. CASE \E l \in Irqs : irq_entry(l)
    <3>1. PICK l \in Irqs : irq_entry(l)
      BY <2>3
    <3>2. isr = {} /\ isr' = {l, MasterLine(l)} /\ Enter(IRQ_TO_INTR(l))
      BY <1>1, <3>1, EnabledIsIdle DEF irq_entry
    <3>3. IRQ_TO_INTR(l) = l + 32 /\ l \in 0 .. 15 /\ l + 32 \in 0 .. 255
      BY IrqLine DEF IRQ_TO_INTR, IRQ_OFFSET
    <3>4. l + 32 = line + 32
      BY <2>2, <3>2, <3>3
    <3>5. l = line
      BY <3>3, <3>4 DEF Lines
    <3> QED BY <3>2, <3>5
  <2>4. CASE \E l \in Irqs : irq7_entry_check_spurious(l)
    BY <1>1, <2>1, <2>4, EnabledIsIdle DEF irq7_entry_check_spurious, Ignore, soft
  <2>5. CASE \E l \in Irqs : irq15_entry_check_spurious(l)
    BY <1>1, <2>1, <2>5, EnabledIsIdle DEF irq15_entry_check_spurious, Ignore, soft
  <2>6. CASE \E inum \in Softs : soft_entry(inum)
    <3>1. PICK inum \in Softs : Enter(inum)
      BY <2>6 DEF soft_entry
    <3>2. inum \in 0 .. 255 /\ inum \notin 32 .. 47
      BY SoftAssumption
    <3>3. inum = line + 32
      BY <2>2, <3>1, <3>2, ZenonT(60)
    <3> QED BY <3>2, <3>3 DEF Lines
  <2>7. CASE dispatch_return
    <3>1. frames \in Seq(Frame) /\ frames # << >> /\ frames' = SubSeq(frames, 1, Len(frames) - 1)
      BY <1>1, <2>7 DEF dispatch_return, TypeInv, Depth
    <3>2. Len(frames') = Len(frames) - 1
      BY <3>1, PopFacts
    <3> QED BY <1>1, <3>1, <3>2 DEF Depth
  <2> QED BY <1>1, <2>1, <2>3, <2>4, <2>5, <2>6, <2>7
          DEF Next, device_request, handler_eoi, handler_flag, main_flag_set, interrupt, mask_irq,
              unmask_irq, mask_outb, int86_enter, int86_cli, int86_pics, int86_return, bios_irq,
              bios_masks, panic, vars, soft
<1>2. TypeInv /\ EoiInv /\ [Next]_vars => [A]_vars
  BY <1>1
<1> QED BY <1>2, EoiInvHolds, PTL DEF Spec, HandlerServesRequest
=============================================================================
