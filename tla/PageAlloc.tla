----------------------------- MODULE PageAlloc -----------------------------
(***************************************************************************)
(* The physical page allocator of pcboot (src/src/mem.c).                  *)
(*                                                                         *)
(* One bit per page in "bitmap"; the bits are stored, WordBits to a word,  *)
(* from the end of the kernel image (MemStart) upwards, and only the first *)
(* bmwords words (bmsize / 4 in the code) are kept out of the pool.  The   *)
(* words above them still exist (init_mem clears the bits of all possible  *)
(* pages), are still read and written by ranges that run past the last     *)
(* useful word, and lie in pages that clients may own and overwrite.       *)
(*                                                                         *)
(* Addresses and sizes are counted in words (4 bytes), pages in PageWords. *)
(* Operations run with interrupts disabled and are therefore one step, but *)
(* free_ppages releases its pages one call at a time and an interrupt may  *)
(* come between two of them.                                               *)
(***************************************************************************)
EXTENDS Integers, Sequences

CONSTANTS
    WordBits,     \* pages per bitmap word (32)
    PageWords,    \* words per page (1024)
    NumPages,     \* pages of the address space (2^20)
    MemStart,     \* _mem_start, in words: end of the kernel image
    MaxMapSize,   \* MAX_MAP_SIZE (16)
    BootMaps,     \* memory maps the boot loader may report
    Counts,       \* page counts clients ask for
    RangeCalls,   \* <<start, size>> arguments of direct alloc_ppage_range calls
    MaxHolders    \* bound: a client overwrites only bits of pages held less often

FREE == 0
USED == 1
MEM_HEAP == "heap"
MEM_STACK == "stack"

Pages == 0 .. NumPages - 1
AddrWords == NumPages * PageWords
MemRange == [start : 0 .. AddrWords - 1, size : 0 .. AddrWords - 1]
Contexts == {"main", "irq"}

ASSUME SizeAssumption ==
    /\ WordBits \in Nat \ {0}
    /\ PageWords \in Nat \ {0}
    /\ NumPages \in Nat \ {0}
    /\ MemStart \in Nat
    /\ MaxHolders \in Nat
ASSUME MapAssumption ==
    /\ MaxMapSize \in Nat
    /\ BootMaps \subseteq Seq(MemRange)
ASSUME CallAssumption ==
    /\ Counts \subseteq Nat \ {0}
    /\ RangeCalls \subseteq Pages \X (Nat \ {0})

VARIABLES
    boot_mem_map,    \* what the boot loader reported
    bitmap,          \* one FREE/USED mark per page
    bmwords,         \* bmsize / 4
    last_alloc_idx,  \* word where the heap search starts
    panicked,        \* panic() was called
    intr_flag,       \* the processor's interrupt flag
    ctx,             \* who is running: the main program or an interrupt handler
    freeing,         \* per context, the rest of a free_ppages call in progress
    holders          \* history: how many clients hold each page

pstate == <<boot_mem_map, bitmap, bmwords, last_alloc_idx>>
vars == <<pstate, panicked, intr_flag, ctx, freeing, holders>>

-----------------------------------------------------------------------------
BM_IDX(pg) == pg \div WordBits
ADDR_TO_PAGE(a) == a \div PageWords

\* bits of the words that alloc_ppages scans
Tracked == {pg \in Pages : BM_IDX(pg) < bmwords}

\* mark_page over the pages lo .. hi-1 (bits above NumPages are not modelled)
MarkPages(bm, lo, hi, mark) ==
    [pg \in Pages |-> IF lo <= pg /\ pg < hi THEN mark ELSE bm[pg]]

BadMap(map) == Len(map) <= 0 \/ Len(map) > MaxMapSize

(***************************************************************************)
(* init_mem: what one entry of the memory map contributes.                 *)
(***************************************************************************)
RangeEnd(r) ==
    LET end == (r.start + r.size) % AddrWords
    IN IF end < r.size THEN AddrWords - 1 ELSE end
RangeSize(r) ==
    IF (r.start + r.size) % AddrWords < r.size
    THEN AddrWords - 1 - r.start ELSE r.size
IsUsable(r) == RangeEnd(r) >= MemStart

\* the start moves up to the end of the kernel image, the size stays
AddedStart(r) == IF r.start < MemStart THEN MemStart ELSE r.start
AddedPages(r) ==
    ADDR_TO_PAGE((RangeSize(r) + PageWords - 1) % AddrWords)

\* add_memory of every usable entry over an all-used bitmap
AddedMemory(map) ==
    [pg \in Pages |->
        IF \E i \in 1 .. Len(map) :
              /\ IsUsable(map[i])
              /\ pg \in ADDR_TO_PAGE(AddedStart(map[i])) ..
                        ADDR_TO_PAGE(AddedStart(map[i])) + AddedPages(map[i]) - 1
        THEN FREE ELSE USED]

\* end_pg: the highest page number at which a usable entry ends
EndPages(map) ==
    {0} \union {ADDR_TO_PAGE(RangeEnd(map[i])) :
                    i \in {j \in 1 .. Len(map) : IsUsable(map[j])}}
IsEndPage(map, end_pg) ==
    end_pg \in EndPages(map) /\ \A e \in EndPages(map) : e <= end_pg

\* Broken: the last page of the bitmap is left out.
MaxUsedPage_less(words) == ADDR_TO_PAGE(MemStart + words - 1) - 1

\* max_used_pg: the page of the last byte of the useful bitmap
MaxUsedPage(words) ==
    IF MemStart + words = 0 THEN -1 ELSE ADDR_TO_PAGE(MemStart + words - 1)

\* the memory is larger than the kernel image and the bitmap in front of it
ASSUME RoomAssumption ==
    \A map \in BootMaps : \A e \in EndPages(map) :
        \/ ~IsEndPage(map, e)
        \/ BadMap(map)
        \/ MaxUsedPage(e \div WordBits) < (e \div WordBits) * WordBits

init_mem(map) ==
    /\ boot_mem_map = map
    /\ panicked = BadMap(map)
    /\ \E end_pg \in EndPages(map) :
          IsEndPage(map, end_pg) /\ bmwords = end_pg \div WordBits
    /\ bitmap = MarkPages(AddedMemory(map), 0, MaxUsedPage(bmwords) + 1, USED)
    /\ last_alloc_idx = 0

Init ==
    /\ \E map \in BootMaps : init_mem(map)
    /\ intr_flag = 1
    /\ ctx = "main"
    /\ freeing = [c \in Contexts |-> [pg |-> 0, left |-> 0]]
    /\ holders = [pg \in Pages |-> 0]

-----------------------------------------------------------------------------
\* the running context is between two calls
Running == ~panicked /\ freeing[ctx].left = 0

set_intr_flag(onoff) == intr_flag' = onoff

Block(pg, n) == pg .. pg + n - 1

\* Broken: only the first page of the range is looked at.
RangeIsFree_first(pg, n) == pg + n <= NumPages /\ bitmap[pg] = FREE

\* the scan of alloc_ppage_range (IS_FREE of a bit above NumPages is false)
RangeIsFree(pg, n) ==
    /\ pg + n <= NumPages
    /\ \A q \in Block(pg, n) : bitmap[q] = FREE

\* Broken: the last page of the range is not marked.
Take_short(pg, n) ==
    /\ bitmap' = MarkPages(bitmap, pg, pg + n - 1, USED)
    /\ holders' = [q \in Pages |->
                      IF q \in Block(pg, n) THEN holders[q] + 1 ELSE holders[q]]

\* a successful allocation: the pages are marked, and a client holds them
Take(pg, n) ==
    /\ bitmap' = MarkPages(bitmap, pg, pg + n, USED)
    /\ holders' = [q \in Pages |->
                      IF q \in Block(pg, n) THEN holders[q] + 1 ELSE holders[q]]

\* alloc_ppages: the pages visited, for each search direction
ScanSet(area) ==
    IF area = MEM_STACK
    THEN {pg \in Pages : BM_IDX(pg) <= IF bmwords = 0 THEN 0 ELSE bmwords - 1}
    ELSE {pg \in Pages : last_alloc_idx <= BM_IDX(pg) /\ BM_IDX(pg) < bmwords}
IsFirst(area, pg, S) ==
    IF area = MEM_STACK THEN \A q \in S : q <= pg ELSE \A q \in S : pg <= q

\* Broken: every free page seen moves the hint.
MoveHint_last(area) ==
    LET free == {pg \in ScanSet(area) : bitmap[pg] = FREE}
    IN IF area = MEM_STACK \/ free = {}
       THEN last_alloc_idx' = last_alloc_idx
       ELSE \E pg \in free : (\A q \in free : q <= pg) /\ last_alloc_idx' = BM_IDX(pg)

\* only the upward search moves the hint, to the first word with a free page
MoveHint(area) ==
    LET free == {pg \in ScanSet(area) : bitmap[pg] = FREE}
    IN IF area = MEM_STACK \/ free = {}
       THEN last_alloc_idx' = last_alloc_idx
       ELSE \E pg \in free : IsFirst(area, pg, free) /\ last_alloc_idx' = BM_IDX(pg)

alloc_ppages(n, area) ==
    /\ Running
    /\ MoveHint(area)
    /\ LET fit == {pg \in ScanSet(area) : RangeIsFree(pg, n)}
       IN \/ \E pg \in fit : IsFirst(area, pg, fit) /\ Take(pg, n)
          \/ fit = {} /\ UNCHANGED <<bitmap, holders>>
    /\ set_intr_flag(intr_flag)
    /\ UNCHANGED <<boot_mem_map, bmwords, panicked, ctx, freeing>>

\* alloc_ppage_range, called directly: its error path leaves interrupts off
alloc_ppage_range(pg, n) ==
    /\ Running
    /\ \/ RangeIsFree(pg, n) /\ Take(pg, n) /\ set_intr_flag(intr_flag)
       \/ ~RangeIsFree(pg, n) /\ set_intr_flag(0) /\ UNCHANGED <<bitmap, holders>>
    /\ UNCHANGED <<boot_mem_map, bmwords, last_alloc_idx, panicked, ctx, freeing>>

(***************************************************************************)
(* free_ppages / free_ppage_range: a client gives up pages it holds; the   *)
(* loop then calls free_ppage for each.                                    *)
(***************************************************************************)
free_ppages(pg, n) ==
    /\ Running
    /\ pg + n <= NumPages
    /\ \A q \in Block(pg, n) : holders[q] > 0
    /\ holders' = [q \in Pages |->
                      IF q \in Block(pg, n) THEN holders[q] - 1 ELSE holders[q]]
    /\ freeing' = [freeing EXCEPT ![ctx] = [pg |-> pg, left |-> n]]
    /\ UNCHANGED <<pstate, panicked, intr_flag, ctx>>

\* Broken: the hint also moves up, or never moves.
LowerHint_always(pg) == last_alloc_idx' = BM_IDX(pg)
LowerHint_never(pg) == last_alloc_idx' = last_alloc_idx

\* freeing a page lowers the hint to its word
LowerHint(pg) ==
    last_alloc_idx' = IF BM_IDX(pg) < last_alloc_idx THEN BM_IDX(pg) ELSE last_alloc_idx

free_ppage ==
    LET pg == freeing[ctx].pg
    IN /\ ~panicked
       /\ freeing[ctx].left > 0
       /\ \/ /\ bitmap[pg] = FREE
             /\ panicked' = TRUE
             /\ intr_flag' = 0
             /\ UNCHANGED <<pstate, freeing>>
          \/ /\ bitmap[pg] = USED
             /\ bitmap' = MarkPages(bitmap, pg, pg + 1, FREE)
             /\ LowerHint(pg)
             /\ set_intr_flag(intr_flag)
             /\ freeing' = [freeing EXCEPT ![ctx] =
                               [pg |-> pg + 1, left |-> freeing[ctx].left - 1]]
             /\ UNCHANGED <<boot_mem_map, bmwords, panicked>>
       /\ UNCHANGED <<ctx, holders>>

(***************************************************************************)
(* A client writes to memory it holds in which a bitmap word above the     *)
(* useful ones happens to be stored.                                       *)
(***************************************************************************)
WordPages(k) == {pg \in Pages : BM_IDX(pg) = k}
StoredIn(k) == ADDR_TO_PAGE(MemStart + k)

owner_writes(k) ==
    /\ Running
    /\ StoredIn(k) \in Pages
    /\ holders[StoredIn(k)] > 0
    /\ \A pg \in WordPages(k) : holders[pg] < MaxHolders
    /\ \E bits \in [WordPages(k) -> {FREE, USED}] :
          bitmap' = [pg \in Pages |-> IF pg \in WordPages(k) THEN bits[pg] ELSE bitmap[pg]]
    /\ UNCHANGED <<boot_mem_map, bmwords, last_alloc_idx, panicked, intr_flag, ctx,
                   freeing, holders>>

\* an interrupt arrives between two calls, and its handler returns
irq_enter ==
    /\ ~panicked /\ ctx = "main" /\ intr_flag = 1
    /\ ctx' = "irq" /\ intr_flag' = 0
    /\ UNCHANGED <<pstate, panicked, freeing, holders>>
irq_return ==
    /\ Running /\ ctx = "irq"
    /\ ctx' = "main" /\ intr_flag' = 1
    /\ UNCHANGED <<pstate, panicked, freeing, holders>>

\* panic() stops the machine
panic == panicked /\ UNCHANGED vars

Next ==
    \/ \E n \in Counts, area \in {MEM_HEAP, MEM_STACK} : alloc_ppages(n, area)
    \/ \E r \in RangeCalls : alloc_ppage_range(r[1], r[2])
    \/ \E pg \in Pages, n \in Counts : free_ppages(pg, n)
    \/ free_ppage
    \/ \E k \in {BM_IDX(pg) : pg \in Pages} : owner_writes(k)
    \/ irq_enter
    \/ irq_return
    \/ panic

Spec == Init /\ [][Next]_vars

-----------------------------------------------------------------------------
\* Every variable stays in the range the code's types and loops rely on; in
\* particular the upward search of alloc_ppages, which runs while idx != max,
\* never starts above max.
TypeOK ==
    /\ boot_mem_map \in BootMaps
    /\ bitmap \in [Pages -> {FREE, USED}]
    /\ bmwords \in Nat
    /\ last_alloc_idx \in 0 .. bmwords
    /\ panicked \in BOOLEAN
    /\ intr_flag \in {0, 1}
    /\ ctx \in Contexts
    /\ freeing \in [Contexts -> [pg : Nat, left : Nat]]
    /\ holders \in [Pages -> Nat]

\* The guarantee in the comment on last_alloc_idx: no word of the bitmap below
\* the hint has a free page, whatever alloc_ppages, free_ppage, interrupts and
\* writes to the bitmap's unreserved tail do.
HintSound ==
    \A pg \in Pages : BM_IDX(pg) < last_alloc_idx => bitmap[pg] = USED

InFlight(c) == Block(freeing[c].pg, freeing[c].left)

\* No page of the useful bitmap is handed to two clients, and none is held while
\* a free_ppages loop (possibly interrupted half way) still has to release it.
SingleHolder ==
    \A pg \in Tracked :
        /\ holders[pg] <= 1
        /\ \A c \in Contexts : pg \in InFlight(c) => holders[pg] = 0
        /\ pg \notin InFlight("main") \intersect InFlight("irq")

\* The pages that store the useful part of the bitmap are never handed out:
\* init_mem marks them after it has added the memory they lie in.
BitmapReserved ==
    \A k \in 0 .. bmwords - 1 :
        StoredIn(k) \in Pages => holders[StoredIn(k)] = 0 /\ bitmap[StoredIn(k)] = USED

\* free_ppage's panic "I thought that was already free!" is reached only for a
\* page above the useful bitmap, never for one alloc_ppages searches.
NoSpuriousPanic ==
    panicked => BadMap(boot_mem_map) \/ freeing[ctx].pg \notin Tracked

\* Starting at the hint loses nothing: a heap allocation gets the lowest run of
\* n free pages that begins anywhere in the useful bitmap, and fails only when
\* there is no such run.
HeapFirstFit ==
    [][\A n \in Counts : alloc_ppages(n, MEM_HEAP) =>
          LET fit == {pg \in Tracked : RangeIsFree(pg, n)}
          IN \/ fit = {} /\ bitmap' = bitmap
             \/ \E pg \in fit : /\ \A q \in fit : pg <= q
                                /\ bitmap' = MarkPages(bitmap, pg, pg + n, USED)]_vars
=============================================================================
