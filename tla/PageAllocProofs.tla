-------------------------- MODULE PageAllocProofs --------------------------
(***************************************************************************)
(* Proofs about the page allocator, for every size of the memory, of the   *)
(* pages and of the bitmap words, and for every memory map.                *)
(***************************************************************************)
EXTENDS PageAlloc, TLAPS

\* Division by a positive number rounds down, is monotonic and stays below a
\* multiple (used for BM_IDX and ADDR_TO_PAGE).
LEMMA DivFacts ==
    ASSUME NEW d \in Nat \ {0}, NEW a \in Nat, NEW b \in Nat
    PROVE  /\ a \div d \in Nat
           /\ a <= b => a \div d <= b \div d
           /\ a < b * d => a \div d < b
<1>1. a = d * (a \div d) + (a % d) /\ a % d \in 0 .. d - 1 /\ a \div d \in Int
  BY Z3
<1>2. b = d * (b \div d) + (b % d) /\ b % d \in 0 .. d - 1 /\ b \div d \in Int
  BY Z3
<1>3. a \div d >= 0
  BY Z3
<1>4. a <= b => a \div d <= b \div d
  BY <1>1, <1>2, Z3
<1>5. a < b * d => a \div d < b
  BY <1>1, Z3
<1> QED BY <1>1, <1>3, <1>4, <1>5

LEMMA BM_IDX_Nat == \A pg \in Nat : BM_IDX(pg) \in Nat
  BY DivFacts, SizeAssumption DEF BM_IDX

LEMMA BM_IDX_Mono ==
    \A p, q \in Nat : p <= q => BM_IDX(p) <= BM_IDX(q)
  BY DivFacts, SizeAssumption DEF BM_IDX

LEMMA PagesNat == Pages \subseteq Nat /\ NumPages \in Nat
  BY SizeAssumption DEF Pages

-----------------------------------------------------------------------------
\* A free_ppages loop stays inside the address space.
FreeingInRange ==
    \A c \in Contexts : freeing[c].left > 0 => freeing[c].pg + freeing[c].left <= NumPages

\* The pages that store the useful bitmap have their own bits in it.
RoomInv ==
    ~panicked => \A k \in 0 .. bmwords - 1 :
                    StoredIn(k) \in Pages => BM_IDX(StoredIn(k)) < bmwords

\* BitmapReserved, and no free_ppages loop is about to release such a page.
ReservedInv ==
    \A k \in 0 .. bmwords - 1 : StoredIn(k) \in Pages =>
        /\ holders[StoredIn(k)] = 0
        /\ bitmap[StoredIn(k)] = USED
        /\ \A c \in Contexts : StoredIn(k) \notin InFlight(c)

\* SingleHolder, and a page that is held or about to be released is marked used.
HeldInv ==
    \A pg \in Pages : BM_IDX(pg) < bmwords =>
        /\ holders[pg] <= 1
        /\ holders[pg] > 0 => bitmap[pg] = USED
        /\ \A c \in Contexts : pg \in InFlight(c) => holders[pg] = 0 /\ bitmap[pg] = USED
        /\ ~(pg \in InFlight("main") /\ pg \in InFlight("irq"))

IInv == /\ TypeOK
        /\ HintSound
        /\ FreeingInRange
        /\ RoomInv
        /\ ReservedInv
        /\ HeldInv
        /\ NoSpuriousPanic

-----------------------------------------------------------------------------
LEMMA MarkPagesType ==
    ASSUME NEW bm \in [Pages -> {FREE, USED}], NEW lo, NEW hi, NEW mark \in {FREE, USED}
    PROVE  MarkPages(bm, lo, hi, mark) \in [Pages -> {FREE, USED}]
  BY DEF MarkPages

\* What init_mem computes: a number of words whose storage lies below the pages
\* marked as used and, when the map is accepted, inside the useful bitmap.
LEMMA EndPagesNat ==
    ASSUME NEW map \in BootMaps
    PROVE  EndPages(map) \subseteq Nat
<1> SUFFICES ASSUME NEW i \in 1 .. Len(map)
             PROVE  ADDR_TO_PAGE(RangeEnd(map[i])) \in Nat
  BY DEF EndPages
<1>1. AddrWords \in Nat \ {0}
  BY SizeAssumption DEF AddrWords
<1>2. map[i] \in MemRange
  BY MapAssumption
<1>3. map[i].start \in Nat /\ map[i].size \in Nat
  BY <1>1, <1>2 DEF MemRange
<1>4. (map[i].start + map[i].size) % AddrWords \in Nat
  BY <1>1, <1>3
<1>5. RangeEnd(map[i]) \in Nat
  BY <1>1, <1>4 DEF RangeEnd
<1> QED BY <1>5, DivFacts, SizeAssumption DEF ADDR_TO_PAGE

LEMMA StoredBelowMax ==
    ASSUME NEW words \in Nat, NEW k \in 0 .. words - 1
    PROVE  /\ StoredIn(k) \in Nat
           /\ MaxUsedPage(words) \in Nat
           /\ StoredIn(k) <= MaxUsedPage(words)
<1>1. MemStart + k \in Nat /\ MemStart + words - 1 \in Nat /\ MemStart + words # 0
  BY SizeAssumption
<1>2. MemStart + k <= MemStart + words - 1
  BY SizeAssumption
<1> QED BY <1>1, <1>2, DivFacts, SizeAssumption DEF StoredIn, MaxUsedPage, ADDR_TO_PAGE

THEOREM InitInv == Init => IInv
<1> SUFFICES ASSUME Init PROVE IInv
  OBVIOUS
<1>1. PICK map \in BootMaps : init_mem(map)
  BY DEF Init
<1>2. PICK end_pg \in EndPages(map) :
          IsEndPage(map, end_pg) /\ bmwords = end_pg \div WordBits
  BY <1>1 DEF init_mem
<1>3. bmwords \in Nat
  BY <1>2, EndPagesNat, DivFacts, SizeAssumption
<1>4. bitmap \in [Pages -> {FREE, USED}]
  BY <1>1 DEF init_mem, MarkPages, AddedMemory
<1>5. TypeOK
  <2>1. panicked \in BOOLEAN
    BY <1>1 DEF init_mem, BadMap
  <2>2. boot_mem_map \in BootMaps /\ last_alloc_idx \in 0 .. bmwords
    BY <1>1, <1>3 DEF init_mem
  <2>3. freeing \in [Contexts -> [pg : Nat, left : Nat]] /\ ctx \in Contexts
    BY DEF Init, Contexts
  <2>4. holders \in [Pages -> Nat] /\ intr_flag \in {0, 1}
    BY DEF Init
  <2> QED BY <2>1, <2>2, <2>3, <2>4, <1>3, <1>4 DEF TypeOK
<1>6. HintSound
  BY <1>1, BM_IDX_Nat, PagesNat DEF HintSound, init_mem
<1>7. FreeingInRange
  BY DEF FreeingInRange, Init
<1>8. RoomInv
  <2> SUFFICES ASSUME ~panicked, NEW k \in 0 .. bmwords - 1, StoredIn(k) \in Pages
               PROVE  BM_IDX(StoredIn(k)) < bmwords
    BY DEF RoomInv
  <2>1. MaxUsedPage(bmwords) < bmwords * WordBits
    BY <1>1, <1>2, RoomAssumption DEF init_mem
  <2>2. StoredIn(k) < bmwords * WordBits
    BY <2>1, <1>3, StoredBelowMax, SizeAssumption
  <2> QED BY <2>2, <1>3, StoredBelowMax, DivFacts, SizeAssumption DEF BM_IDX
<1>9. \A c \in Contexts : InFlight(c) = {}
  BY DEF Init, InFlight, Block
<1>10. ReservedInv
  <2> SUFFICES ASSUME NEW k \in 0 .. bmwords - 1, StoredIn(k) \in Pages
               PROVE  bitmap[StoredIn(k)] = USED
    BY <1>9 DEF ReservedInv, Init
  <2>1. 0 <= StoredIn(k) /\ StoredIn(k) < MaxUsedPage(bmwords) + 1
    BY <1>3, StoredBelowMax
  <2> QED BY <2>1, <1>1 DEF init_mem, MarkPages
<1>11. HeldInv
  BY <1>9 DEF HeldInv, Init, Contexts
<1>12. NoSpuriousPanic
  BY <1>1 DEF NoSpuriousPanic, init_mem
<1> QED BY <1>5, <1>6, <1>7, <1>8, <1>10, <1>11, <1>12 DEF IInv

-----------------------------------------------------------------------------
\* The hint may move up only over words that are full.
LEMMA MoveHintSound ==
    ASSUME IInv, NEW area, MoveHint(area)
    PROVE  /\ last_alloc_idx' \in 0 .. bmwords
           /\ \A q \in Pages : BM_IDX(q) < last_alloc_idx' => bitmap[q] = USED
<1> DEFINE free == {pg \in ScanSet(area) : bitmap[pg] = FREE}
<1>1. CASE area = MEM_STACK \/ free = {}
  BY <1>1 DEF MoveHint, IInv, TypeOK, HintSound
<1>2. CASE ~(area = MEM_STACK \/ free = {})
  <2>1. PICK pg \in free : (\A q \in free : pg <= q) /\ last_alloc_idx' = BM_IDX(pg)
    BY <1>2 DEF MoveHint, IsFirst
  <2>2. pg \in Nat /\ last_alloc_idx <= BM_IDX(pg) /\ BM_IDX(pg) < bmwords
    BY <1>2, <2>1, PagesNat DEF ScanSet
  <2>3. last_alloc_idx' \in 0 .. bmwords
    BY <2>1, <2>2, BM_IDX_Nat DEF IInv, TypeOK
  <2>4. ASSUME NEW q \in Pages, BM_IDX(q) < last_alloc_idx', bitmap[q] # USED
        PROVE  FALSE
    <3>1. bitmap[q] = FREE
      BY <2>4 DEF IInv, TypeOK
    <3>2. q \in Nat /\ BM_IDX(q) \in Nat /\ BM_IDX(pg) \in Nat
      BY PagesNat, BM_IDX_Nat, <2>2
    <3>3. last_alloc_idx <= BM_IDX(q)
      BY <2>4, <3>2 DEF IInv, HintSound, TypeOK
    <3>4. q \in free
      BY <3>1, <3>2, <3>3, <2>1, <2>2, <2>4, <1>2 DEF ScanSet, IInv, TypeOK
    <3> QED BY <3>2, <3>4, <2>1, <2>2, <2>4, BM_IDX_Mono
  <2> QED BY <2>3, <2>4
<1> QED BY <1>1, <1>2

\* A successful allocation of a free range keeps the invariant.
LEMMA TakeInv ==
    ASSUME IInv,
           NEW pg \in Pages, NEW n \in Nat \ {0}, RangeIsFree(pg, n), Take(pg, n),
           ~panicked,
           UNCHANGED <<boot_mem_map, bmwords, panicked, ctx, freeing>>,
           intr_flag' \in {0, 1},
           last_alloc_idx' \in 0 .. bmwords,
           \A q \in Pages : BM_IDX(q) < last_alloc_idx' => bitmap[q] = USED
    PROVE  IInv'
<1>1. Block(pg, n) \subseteq Pages
  BY PagesNat, SizeAssumption DEF Block, RangeIsFree, Pages
<1>2. bitmap' \in [Pages -> {FREE, USED}] /\ holders' \in [Pages -> Nat]
  BY DEF Take, MarkPages, IInv, TypeOK
<1>3. \A q \in Pages : q \in Block(pg, n) <=> (pg <= q /\ q < pg + n)
  BY PagesNat DEF Block, Pages
<1>4. \A q \in Pages : bitmap'[q] = IF q \in Block(pg, n) THEN USED ELSE bitmap[q]
  BY <1>3 DEF Take, MarkPages
<1>5. \A q \in Pages : holders'[q] = IF q \in Block(pg, n) THEN holders[q] + 1 ELSE holders[q]
  BY DEF Take
<1>6. \A q \in Block(pg, n) : bitmap[q] = FREE /\ bitmap[q] # USED
  BY DEF RangeIsFree, FREE, USED
<1>7. \A c \in Contexts : InFlight(c)' = InFlight(c)
  BY DEF InFlight
<1>8. TypeOK'
  BY <1>2 DEF IInv, TypeOK
<1>9. HintSound'
  BY <1>4 DEF HintSound, BM_IDX
<1>10. FreeingInRange' /\ RoomInv' /\ NoSpuriousPanic'
  BY DEF IInv, FreeingInRange, RoomInv, NoSpuriousPanic, StoredIn
<1>11. ReservedInv'
  BY <1>4, <1>5, <1>6, <1>7 DEF IInv, ReservedInv, StoredIn
<1>12. HeldInv'
  <2> SUFFICES ASSUME NEW q \in Pages, BM_IDX(q) < bmwords
               PROVE  /\ holders'[q] <= 1
                      /\ holders'[q] > 0 => bitmap'[q] = USED
                      /\ \A c \in Contexts : q \in InFlight(c) => holders'[q] = 0 /\ bitmap'[q] = USED
                      /\ ~(q \in InFlight("main") /\ q \in InFlight("irq"))
    BY <1>7 DEF HeldInv, Contexts
  <2>1. holders[q] \in Nat /\ bitmap[q] \in {FREE, USED}
    BY DEF IInv, TypeOK
  <2>2. /\ holders[q] <= 1
        /\ holders[q] > 0 => bitmap[q] = USED
        /\ \A c \in Contexts : q \in InFlight(c) => holders[q] = 0 /\ bitmap[q] = USED
        /\ ~(q \in InFlight("main") /\ q \in InFlight("irq"))
    BY DEF IInv, HeldInv
  <2> QED BY <2>1, <2>2, <1>4, <1>5, <1>6
<1> QED BY <1>8, <1>9, <1>10, <1>11, <1>12 DEF IInv

\* A step that changes neither pages nor clients keeps the invariant.
LEMMA SameInv ==
    ASSUME IInv, ~panicked,
           UNCHANGED <<boot_mem_map, bitmap, bmwords, panicked, freeing, holders>>,
           intr_flag' \in {0, 1}, ctx' \in Contexts,
           last_alloc_idx' \in 0 .. bmwords,
           \A q \in Pages : BM_IDX(q) < last_alloc_idx' => bitmap[q] = USED
    PROVE  IInv'
<1>1. TypeOK'
  BY DEF IInv, TypeOK
<1>2. HintSound'
  BY DEF HintSound, BM_IDX
<1>3. FreeingInRange' /\ RoomInv' /\ NoSpuriousPanic'
  BY DEF IInv, FreeingInRange, RoomInv, NoSpuriousPanic, StoredIn
<1>4. ReservedInv'
  BY DEF IInv, ReservedInv, StoredIn, InFlight
<1>5. HeldInv'
  BY DEF IInv, HeldInv, InFlight
<1> QED BY <1>1, <1>2, <1>3, <1>4, <1>5 DEF IInv

LEMMA AllocInv ==
    ASSUME IInv, NEW n \in Counts, NEW area, alloc_ppages(n, area)
    PROVE  IInv'
<1> DEFINE fit == {pg \in ScanSet(area) : RangeIsFree(pg, n)}
<1>1. MoveHint(area) /\ ~panicked /\ intr_flag' \in {0, 1} /\ n \in Nat \ {0}
  BY CallAssumption DEF alloc_ppages, Running, set_intr_flag, IInv, TypeOK
<1>2. UNCHANGED <<boot_mem_map, bmwords, panicked, ctx, freeing>>
  BY DEF alloc_ppages
<1>3. /\ last_alloc_idx' \in 0 .. bmwords
      /\ \A q \in Pages : BM_IDX(q) < last_alloc_idx' => bitmap[q] = USED
  BY <1>1, MoveHintSound
<1>4. CASE \E pg \in fit : Take(pg, n)
  <2>1. PICK pg \in fit : Take(pg, n)
    BY <1>4
  <2>2. pg \in Pages /\ RangeIsFree(pg, n)
    BY <2>1 DEF ScanSet
  <2> QED BY <1>1, <1>2, <1>3, <2>1, <2>2, TakeInv
<1>5. CASE UNCHANGED <<bitmap, holders>>
  <2>1. ctx' \in Contexts
    BY <1>2 DEF IInv, TypeOK
  <2> QED BY <1>1, <1>2, <1>3, <1>5, <2>1, SameInv
<1> QED BY <1>4, <1>5 DEF alloc_ppages

LEMMA AllocRangeInv ==
    ASSUME IInv, NEW r \in RangeCalls, alloc_ppage_range(r[1], r[2])
    PROVE  IInv'
<1>1. r[1] \in Pages /\ r[2] \in Nat \ {0}
  BY CallAssumption
<1>2. ~panicked /\ UNCHANGED <<boot_mem_map, bmwords, last_alloc_idx, panicked, ctx, freeing>>
  BY DEF alloc_ppage_range, Running
<1>3. intr_flag' \in {0, 1} /\ ctx' \in Contexts
  BY DEF alloc_ppage_range, set_intr_flag, IInv, TypeOK
<1>4. /\ last_alloc_idx' \in 0 .. bmwords
      /\ \A q \in Pages : BM_IDX(q) < last_alloc_idx' => bitmap[q] = USED
  BY <1>2 DEF IInv, TypeOK, HintSound
<1>5. CASE RangeIsFree(r[1], r[2]) /\ Take(r[1], r[2])
  BY <1>1, <1>2, <1>3, <1>4, <1>5, TakeInv
<1>6. CASE UNCHANGED <<bitmap, holders>>
  BY <1>2, <1>3, <1>4, <1>6, SameInv
<1> QED BY <1>5, <1>6 DEF alloc_ppage_range

LEMMA FreePagesInv ==
    ASSUME IInv, NEW pg \in Pages, NEW n \in Counts, free_ppages(pg, n)
    PROVE  IInv'
<1>1. n \in Nat \ {0} /\ pg \in Nat /\ pg + n <= NumPages
  BY CallAssumption, PagesNat DEF free_ppages
<1>2. ctx \in Contexts /\ ~panicked /\ freeing[ctx].left = 0
  BY DEF IInv, TypeOK, free_ppages, Running
<1>3. UNCHANGED <<boot_mem_map, bitmap, bmwords, last_alloc_idx, panicked, intr_flag, ctx>>
  BY DEF free_ppages, pstate
<1>4. freeing' = [freeing EXCEPT ![ctx] = [pg |-> pg, left |-> n]]
  BY DEF free_ppages
<1>5. freeing \in [Contexts -> [pg : Nat, left : Nat]]
  BY DEF IInv, TypeOK
<1>6. freeing' \in [Contexts -> [pg : Nat, left : Nat]]
  BY <1>1, <1>2, <1>4, <1>5
<1>7. \A c \in Contexts : InFlight(c)' = IF c = ctx THEN Block(pg, n) ELSE InFlight(c)
  BY <1>2, <1>4, <1>5 DEF InFlight, Block
<1>8. /\ \A q \in Block(pg, n) : q \in Pages /\ holders[q] > 0
      /\ \A q \in Pages : holders'[q] =
            IF q \in Block(pg, n) THEN holders[q] - 1 ELSE holders[q]
  BY <1>1, SizeAssumption DEF free_ppages, Block, Pages
<1>9. holders' \in [Pages -> Nat]
  BY DEF free_ppages, IInv, TypeOK
<1>10. TypeOK'
  BY <1>3, <1>6, <1>9 DEF IInv, TypeOK
<1>11. HintSound' /\ RoomInv'
  BY <1>3 DEF IInv, HintSound, RoomInv, BM_IDX, StoredIn
<1>12. FreeingInRange'
  BY <1>1, <1>2, <1>4, <1>5 DEF IInv, FreeingInRange
<1>13. ReservedInv'
  <2> SUFFICES ASSUME NEW k \in 0 .. bmwords - 1, StoredIn(k) \in Pages
               PROVE  /\ holders'[StoredIn(k)] = 0
                      /\ bitmap'[StoredIn(k)] = USED
                      /\ \A c \in Contexts : StoredIn(k) \notin InFlight(c)'
    BY <1>3 DEF ReservedInv, StoredIn
  <2>1. /\ holders[StoredIn(k)] = 0 /\ bitmap[StoredIn(k)] = USED
        /\ \A c \in Contexts : StoredIn(k) \notin InFlight(c)
    BY DEF IInv, ReservedInv
  <2>2. StoredIn(k) \notin Block(pg, n)
    BY <2>1, <1>8
  <2> QED BY <2>1, <2>2, <1>3, <1>7, <1>8
<1>14. HeldInv'
  <2> SUFFICES ASSUME NEW q \in Pages, BM_IDX(q) < bmwords
               PROVE  /\ holders'[q] <= 1
                      /\ holders'[q] > 0 => bitmap[q] = USED
                      /\ \A c \in Contexts : q \in InFlight(c)' => holders'[q] = 0 /\ bitmap[q] = USED
                      /\ ~(q \in InFlight("main")' /\ q \in InFlight("irq")')
    BY <1>3 DEF HeldInv, BM_IDX
  <2>1. holders[q] \in Nat
    BY DEF IInv, TypeOK
  <2>2. /\ holders[q] <= 1
        /\ holders[q] > 0 => bitmap[q] = USED
        /\ \A c \in Contexts : q \in InFlight(c) => holders[q] = 0 /\ bitmap[q] = USED
        /\ ~(q \in InFlight("main") /\ q \in InFlight("irq"))
    BY DEF IInv, HeldInv
  <2>3. CASE q \in Block(pg, n)
    <3>1. holders[q] = 1 /\ holders'[q] = 0 /\ \A c \in Contexts : q \notin InFlight(c)
      BY <2>1, <2>2, <2>3, <1>8
    <3> QED BY <3>1, <2>2, <1>2, <1>7 DEF Contexts
  <2>4. CASE q \notin Block(pg, n)
    <3>1. \A c \in Contexts : q \in InFlight(c)' => q \in InFlight(c)
      BY <2>4, <1>7
    <3>2. holders'[q] = holders[q]
      BY <2>4, <1>8
    <3> QED BY <2>2, <3>1, <3>2 DEF Contexts
  <2> QED BY <2>3, <2>4
<1>15. NoSpuriousPanic'
  BY <1>2, <1>3 DEF NoSpuriousPanic
<1> QED BY <1>10, <1>11, <1>12, <1>13, <1>14, <1>15 DEF IInv

LEMMA BlockRest ==
    ASSUME NEW a \in Nat, NEW n \in Nat \ {0}
    PROVE  Block(a + 1, n - 1) = Block(a, n) \ {a}
  BY DEF Block

LEMMA FreePageInv ==
    ASSUME IInv, free_ppage
    PROVE  IInv'
<1> DEFINE pg == freeing[ctx].pg
           left == freeing[ctx].left
<1>1. ctx \in Contexts /\ ctx' = ctx /\ ~panicked /\ left > 0 /\ holders' = holders
  BY DEF IInv, TypeOK, free_ppage
<1>2. freeing \in [Contexts -> [pg : Nat, left : Nat]]
  BY DEF IInv, TypeOK
<1>3. pg \in Nat /\ left \in Nat \ {0} /\ pg + left <= NumPages
  BY <1>1, <1>2 DEF IInv, FreeingInRange
<1>4. pg \in Pages /\ pg \in InFlight(ctx) /\ BM_IDX(pg) \in Nat
  BY <1>3, SizeAssumption, BM_IDX_Nat DEF Pages, InFlight, Block
<1>5. CASE bitmap[pg] = FREE
  <2>1. panicked' = TRUE /\ intr_flag' = 0 /\ UNCHANGED <<pstate, freeing>>
    BY <1>5 DEF free_ppage, FREE, USED
  <2>2. BM_IDX(pg) >= bmwords
    BY <1>1, <1>4, <1>5, BM_IDX_Nat DEF IInv, HeldInv, TypeOK, FREE, USED
  <2>3. NoSpuriousPanic'
    BY <2>1, <2>2, <1>1, <1>4 DEF NoSpuriousPanic, Tracked, BM_IDX, pstate, IInv, TypeOK
  <2>4. TypeOK'
    BY <2>1, <1>1 DEF IInv, TypeOK, pstate
  <2>5. HintSound' /\ FreeingInRange' /\ RoomInv'
    BY <2>1 DEF IInv, HintSound, FreeingInRange, RoomInv, BM_IDX, pstate
  <2>6. ReservedInv'
    BY <2>1, <1>1 DEF IInv, ReservedInv, StoredIn, InFlight, pstate
  <2>7. HeldInv'
    BY <2>1, <1>1 DEF IInv, HeldInv, InFlight, BM_IDX, pstate
  <2> QED BY <2>3, <2>4, <2>5, <2>6, <2>7 DEF IInv
<1>6. CASE bitmap[pg] = USED
  <2>1. /\ bitmap' = MarkPages(bitmap, pg, pg + 1, FREE)
        /\ LowerHint(pg)
        /\ intr_flag' = intr_flag
        /\ freeing' = [freeing EXCEPT ![ctx] = [pg |-> pg + 1, left |-> left - 1]]
        /\ UNCHANGED <<boot_mem_map, bmwords, panicked>>
    BY <1>6 DEF free_ppage, FREE, USED, set_intr_flag
  <2>2. \A q \in Pages : bitmap'[q] = IF q = pg THEN FREE ELSE bitmap[q]
    <3>1. \A q \in Pages : (pg <= q /\ q < pg + 1) <=> q = pg
      BY <1>3, PagesNat
    <3> QED BY <3>1, <2>1 DEF MarkPages
  <2>3. bitmap' \in [Pages -> {FREE, USED}]
    BY <2>1 DEF MarkPages, IInv, TypeOK
  <2>4. freeing' \in [Contexts -> [pg : Nat, left : Nat]]
    BY <1>1, <1>2, <1>3, <2>1
  <2>5. last_alloc_idx' \in 0 .. bmwords /\ last_alloc_idx' <= BM_IDX(pg) /\ last_alloc_idx' <= last_alloc_idx
    BY <1>4, <2>1 DEF LowerHint, IInv, TypeOK
  <2>6. TypeOK'
    BY <1>1, <2>1, <2>3, <2>4, <2>5 DEF IInv, TypeOK
  <2>7. HintSound'
    <3> SUFFICES ASSUME NEW q \in Pages, BM_IDX(q) < last_alloc_idx'
                 PROVE  bitmap'[q] = USED
      BY DEF HintSound, BM_IDX
    <3>1. BM_IDX(q) \in Nat
      BY PagesNat, BM_IDX_Nat
    <3>2. q # pg /\ BM_IDX(q) < last_alloc_idx
      BY <3>1, <2>5, <1>4 DEF IInv, TypeOK
    <3> QED BY <3>2, <2>2 DEF IInv, HintSound
  <2>8. FreeingInRange'
    BY <1>1, <1>2, <1>3, <2>1 DEF IInv, FreeingInRange
  <2>9. \A c \in Contexts : InFlight(c)' = IF c = ctx THEN InFlight(c) \ {pg} ELSE InFlight(c)
    <3> SUFFICES ASSUME NEW c \in Contexts
                 PROVE  InFlight(c)' = IF c = ctx THEN InFlight(c) \ {pg} ELSE InFlight(c)
      OBVIOUS
    <3>1. CASE c # ctx
      BY <3>1, <1>1, <1>2, <2>1 DEF InFlight
    <3>2. CASE c = ctx
      <4>1. freeing'[c] = [pg |-> pg + 1, left |-> left - 1]
        BY <3>2, <1>1, <1>2, <2>1
      <4>2. InFlight(c)' = Block(pg + 1, left - 1)
        BY <4>1 DEF InFlight, Block
      <4>3. InFlight(c) = Block(pg, left)
        BY <3>2 DEF InFlight
      <4> QED BY <3>2, <4>2, <4>3, <1>3, BlockRest
    <3> QED BY <3>1, <3>2
  <2>10. RoomInv' /\ NoSpuriousPanic'
    BY <1>1, <2>1 DEF IInv, RoomInv, NoSpuriousPanic, BM_IDX, StoredIn
  <2>11. ReservedInv'
    <3> SUFFICES ASSUME NEW k \in 0 .. bmwords - 1, StoredIn(k) \in Pages
                 PROVE  /\ holders[StoredIn(k)] = 0
                        /\ bitmap'[StoredIn(k)] = USED
                        /\ \A c \in Contexts : StoredIn(k) \notin InFlight(c)'
      BY <1>1, <2>1 DEF ReservedInv, StoredIn
    <3>1. /\ holders[StoredIn(k)] = 0 /\ bitmap[StoredIn(k)] = USED
          /\ \A c \in Contexts : StoredIn(k) \notin InFlight(c)
      BY DEF IInv, ReservedInv
    <3>2. StoredIn(k) # pg
      BY <3>1, <1>1, <1>4
    <3>3. \A c \in Contexts : StoredIn(k) \notin InFlight(c)'
      BY <3>1, <2>9
    <3> QED BY <3>1, <3>2, <3>3, <2>2
  <2>12. HeldInv'
    <3> SUFFICES ASSUME NEW q \in Pages, BM_IDX(q) < bmwords
                 PROVE  /\ holders[q] <= 1
                        /\ holders[q] > 0 => bitmap'[q] = USED
                        /\ \A c \in Contexts : q \in InFlight(c)' => holders[q] = 0 /\ bitmap'[q] = USED
                        /\ ~(q \in InFlight("main")' /\ q \in InFlight("irq")')
      BY <1>1, <2>1 DEF HeldInv, BM_IDX
    <3>1. /\ holders[q] <= 1
          /\ holders[q] > 0 => bitmap[q] = USED
          /\ \A c \in Contexts : q \in InFlight(c) => holders[q] = 0 /\ bitmap[q] = USED
          /\ ~(q \in InFlight("main") /\ q \in InFlight("irq"))
      BY DEF IInv, HeldInv
    <3>2. CASE q = pg
      BY <3>1, <3>2, <1>1, <1>4, <2>9 DEF Contexts
    <3>3. CASE q # pg
      BY <3>1, <3>3, <1>1, <2>2, <2>9 DEF Contexts
    <3> QED BY <3>2, <3>3
  <2> QED BY <2>6, <2>7, <2>8, <2>10, <2>11, <2>12 DEF IInv
<1> QED BY <1>5, <1>6 DEF free_ppage

\* Only words above the useful bitmap can be overwritten by a client.
LEMMA OwnerWritesInv ==
    ASSUME IInv, NEW k \in {BM_IDX(pg) : pg \in Pages}, owner_writes(k)
    PROVE  IInv'
<1>1. k \in Nat /\ k >= bmwords
  <2>1. k \in Nat
    BY PagesNat, BM_IDX_Nat
  <2>2. StoredIn(k) \in Pages /\ holders[StoredIn(k)] # 0
    BY DEF owner_writes
  <2> QED BY <2>1, <2>2 DEF IInv, ReservedInv, TypeOK
<1>2. /\ ~panicked
      /\ UNCHANGED <<boot_mem_map, bmwords, last_alloc_idx, panicked, intr_flag, ctx,
                     freeing, holders>>
  BY DEF owner_writes, Running
<1>3. PICK bits \in [WordPages(k) -> {FREE, USED}] :
          bitmap' = [pg \in Pages |-> IF pg \in WordPages(k) THEN bits[pg] ELSE bitmap[pg]]
  BY DEF owner_writes
<1>4. \A pg \in Pages : BM_IDX(pg) < bmwords => bitmap'[pg] = bitmap[pg]
  BY <1>1, <1>3 DEF WordPages, IInv, TypeOK
<1>5. TypeOK'
  BY <1>2, <1>3 DEF IInv, TypeOK
<1>6. HintSound'
  <2> SUFFICES ASSUME NEW q \in Pages, BM_IDX(q) < last_alloc_idx
               PROVE  bitmap'[q] = USED
    BY <1>2 DEF HintSound, BM_IDX
  <2>1. BM_IDX(q) < bmwords
    BY PagesNat, BM_IDX_Nat DEF IInv, TypeOK
  <2> QED BY <2>1, <1>4 DEF IInv, HintSound
<1>7. FreeingInRange' /\ RoomInv' /\ NoSpuriousPanic'
  BY <1>2 DEF IInv, FreeingInRange, RoomInv, NoSpuriousPanic, StoredIn, BM_IDX
<1>8. ReservedInv'
  <2> SUFFICES ASSUME NEW j \in 0 .. bmwords - 1, StoredIn(j) \in Pages
               PROVE  /\ holders[StoredIn(j)] = 0
                      /\ bitmap'[StoredIn(j)] = USED
                      /\ \A c \in Contexts : StoredIn(j) \notin InFlight(c)
    BY <1>2 DEF ReservedInv, StoredIn, InFlight
  <2>1. BM_IDX(StoredIn(j)) < bmwords
    BY <1>2 DEF IInv, RoomInv
  <2> QED BY <2>1, <1>4 DEF IInv, ReservedInv
<1>9. HeldInv'
  BY <1>2, <1>4 DEF IInv, HeldInv, InFlight, BM_IDX
<1> QED BY <1>5, <1>6, <1>7, <1>8, <1>9 DEF IInv

LEMMA SwitchInv ==
    ASSUME IInv, irq_enter \/ irq_return
    PROVE  IInv'
<1>1. /\ ~panicked /\ intr_flag' \in {0, 1} /\ ctx' \in Contexts
      /\ UNCHANGED <<boot_mem_map, bitmap, bmwords, last_alloc_idx, panicked, freeing, holders>>
  BY DEF irq_enter, irq_return, Running, pstate, Contexts
<1>2. /\ last_alloc_idx' \in 0 .. bmwords
      /\ \A q \in Pages : BM_IDX(q) < last_alloc_idx' => bitmap[q] = USED
  BY <1>1 DEF IInv, TypeOK, HintSound
<1> QED BY <1>1, <1>2, SameInv

LEMMA StutterInv ==
    ASSUME IInv, UNCHANGED vars
    PROVE  IInv'
<1> USE DEF vars, pstate
<1>1. TypeOK' /\ HintSound' /\ FreeingInRange' /\ RoomInv' /\ NoSpuriousPanic'
  BY DEF IInv, TypeOK, HintSound, FreeingInRange, RoomInv, NoSpuriousPanic, StoredIn, BM_IDX, Tracked
<1>2. ReservedInv'
  BY DEF IInv, ReservedInv, StoredIn, InFlight
<1>3. HeldInv'
  BY DEF IInv, HeldInv, InFlight, BM_IDX
<1> QED BY <1>1, <1>2, <1>3 DEF IInv

\* IInv is an invariant of the allocator: one step per action.
THEOREM Invariance == Spec => []IInv
<1>1. Init => IInv
  BY InitInv
<1>2. IInv /\ [Next]_vars => IInv'
  <2> SUFFICES ASSUME IInv, [Next]_vars PROVE IInv'
    OBVIOUS
  <2>1. ASSUME NEW n \in Counts, NEW area \in {MEM_HEAP, MEM_STACK}, alloc_ppages(n, area)
        PROVE  IInv'
    BY <2>1, AllocInv
  <2>2. ASSUME NEW r \in RangeCalls, alloc_ppage_range(r[1], r[2]) PROVE IInv'
    BY <2>2, AllocRangeInv
  <2>3. ASSUME NEW pg \in Pages, NEW n \in Counts, free_ppages(pg, n) PROVE IInv'
    BY <2>3, FreePagesInv
  <2>4. CASE free_ppage
    BY <2>4, FreePageInv
  <2>5. ASSUME NEW k \in {BM_IDX(pg) : pg \in Pages}, owner_writes(k) PROVE IInv'
    BY <2>5, OwnerWritesInv
  <2>6. CASE irq_enter \/ irq_return
    BY <2>6, SwitchInv
  <2>7. CASE panic \/ UNCHANGED vars
    BY <2>7, StutterInv DEF panic
  <2> QED BY <2>1, <2>2, <2>3, <2>4, <2>5, <2>6, <2>7 DEF Next
<1> QED BY <1>1, <1>2, PTL DEF Spec

\* Every variable keeps its range, and the heap search starts inside the bitmap.
THEOREM TypeCorrect == Spec => []TypeOK
<1>1. IInv => TypeOK
  BY DEF IInv
<1> QED BY <1>1, Invariance, PTL

\* The comment's guarantee on last_alloc_idx, for every memory size and map.
THEOREM HintIsSound == Spec => []HintSound
<1>1. IInv => HintSound
  BY DEF IInv
<1> QED BY <1>1, Invariance, PTL

\* No page of the useful bitmap ever has two holders.
THEOREM PagesHaveOneHolder == Spec => []SingleHolder
<1>1. IInv => SingleHolder
  BY DEF IInv, HeldInv, SingleHolder, Tracked
<1> QED BY <1>1, Invariance, PTL

\* The pages of the useful bitmap are never handed out.
THEOREM BitmapStaysReserved == Spec => []BitmapReserved
<1>1. IInv => BitmapReserved
  BY DEF IInv, ReservedInv, BitmapReserved
<1> QED BY <1>1, Invariance, PTL

\* The panic of free_ppage is unreachable for tracked pages.
THEOREM NoPanicOnTrackedPage == Spec => []NoSpuriousPanic
<1>1. IInv => NoSpuriousPanic
  BY DEF IInv
<1> QED BY <1>1, Invariance, PTL

\* The search from the hint is as good as a search of the whole bitmap.
THEOREM HeapIsFirstFit == Spec => HeapFirstFit
<1>1. ASSUME IInv, NEW n \in Counts, alloc_ppages(n, MEM_HEAP)
      PROVE  LET fit == {pg \in Tracked : RangeIsFree(pg, n)}
             IN \/ fit = {} /\ bitmap' = bitmap
                \/ \E pg \in fit : /\ \A q \in fit : pg <= q
                                   /\ bitmap' = MarkPages(bitmap, pg, pg + n, USED)
  <2> DEFINE fit == {pg \in Tracked : RangeIsFree(pg, n)}
             scan == {pg \in ScanSet(MEM_HEAP) : RangeIsFree(pg, n)}
  <2>1. n \in Nat \ {0}
    BY CallAssumption
  <2>2. ASSUME NEW pg \in Pages, BM_IDX(pg) < bmwords, RangeIsFree(pg, n)
        PROVE  last_alloc_idx <= BM_IDX(pg)
    <3>1. pg \in Block(pg, n)
      BY <2>1, PagesNat DEF Block
    <3>2. bitmap[pg] # USED
      BY <2>2, <3>1 DEF RangeIsFree, FREE, USED
    <3> QED BY <1>1, <3>2, PagesNat, BM_IDX_Nat DEF IInv, HintSound, TypeOK
  <2>3. fit = scan
    BY <2>2 DEF Tracked, ScanSet, MEM_HEAP, MEM_STACK
  <2>4. \/ scan = {} /\ bitmap' = bitmap
        \/ \E pg \in scan : /\ \A q \in scan : pg <= q
                            /\ bitmap' = MarkPages(bitmap, pg, pg + n, USED)
    BY <1>1 DEF alloc_ppages, IsFirst, Take, MEM_HEAP, MEM_STACK
  <2> QED BY <2>3, <2>4
<1>2. IInv => [\A n \in Counts : alloc_ppages(n, MEM_HEAP) =>
                 LET fit == {pg \in Tracked : RangeIsFree(pg, n)}
                 IN \/ fit = {} /\ bitmap' = bitmap
                    \/ \E pg \in fit : /\ \A q \in fit : pg <= q
                                       /\ bitmap' = MarkPages(bitmap, pg, pg + n, USED)]_vars
  BY <1>1
<1> QED BY <1>2, Invariance, PTL DEF HeapFirstFit
=============================================================================
