-------------------------------- MODULE Heap --------------------------------
(***************************************************************************)
(* malloc, free, calloc and realloc (src/src/libc/malloc.c, the            *)
(* SINGLE_POOL variant that is compiled), called one at a time.            *)
(*                                                                         *)
(* Addresses and sizes are in words.  A block starts with a descriptor of  *)
(* Desc words; its size counts the descriptor.  The pool is the sequence   *)
(* of free blocks in list order.  Blocks come from whole pages, which are  *)
(* never given back; alloc_ppages hands out the lowest run that fits (see  *)
(* HeapFirstFit in PageAlloc).                                             *)
(***************************************************************************)
EXTENDS Integers, Sequences, FiniteSets, FiniteSetsExt

CONSTANTS
    Desc,        \* sizeof(struct mem_desc) in words (3)
    PageWords,   \* words per page (1024)
    SizeMod,     \* size_t arithmetic wraps (2^32 bytes)
    HeapPages,   \* pages the page allocator can give to the heap
    Sizes,       \* sizes clients pass to malloc
    Counts,      \* numbers of elements clients pass to calloc
    NewSizes     \* sizes clients pass to realloc

ASSUME HeapAssumption ==
    /\ {Desc, PageWords, SizeMod} \subseteq Nat \ {0}
    /\ PageWords <= SizeMod
    /\ HeapPages \subseteq Nat /\ \A pg \in HeapPages : (pg + 1) * PageWords <= SizeMod
    /\ Sizes \union Counts \union NewSizes \subseteq Nat

VARIABLES
    pool,     \* free list: sequence of [addr, size]
    live,     \* blocks clients hold: [addr, size, req], req words were asked for
    taken,    \* pages the heap has
    bad,      \* descriptors another block's owner has overwritten (addresses)
    stopped   \* why the machine stopped, or "no"

vars == <<pool, live, taken, bad, stopped>>

MinBlock == 2 * Desc
TotalSize(sz) == (sz + Desc) % SizeMod

Block(a, n) == [addr |-> a, size |-> n]
Live(a, n, r) == [addr |-> a, size |-> n, req |-> r]
Blocks == {pool[i] : i \in DOMAIN pool}
EndOf(b) == b.addr + b.size

Init ==
    /\ pool = << >>
    /\ live = {}
    /\ taken = {}
    /\ bad = {}
    /\ stopped = "no"

-----------------------------------------------------------------------------
Replace(s, i, b) == [s EXCEPT ![i] = b]
Remove(s, i) == SubSeq(s, 1, i - 1) \o SubSeq(s, i + 1, Len(s))
InsertBefore(s, i, b) == SubSeq(s, 1, i - 1) \o <<b>> \o SubSeq(s, i, Len(s))

(***************************************************************************)
(* free: what the pool becomes when b is added.  The walk stops at the     *)
(* first block that starts at the end of b (they are joined) or after it;  *)
(* past the last block, b joins the last one if they touch.                *)
(***************************************************************************)
Stops(p, b) == {i \in DOMAIN p : p[i].addr >= EndOf(b)}
\* Broken: the block always goes to the end of the list.
Freed_append(p, b) == Append(p, Block(b.addr, b.size))
Freed(p, b) ==
    IF Stops(p, b) # {}
    THEN LET i == Min(Stops(p, b))
         IN IF p[i].addr = EndOf(b)
            THEN Replace(p, i, Block(b.addr, b.size + p[i].size))
            ELSE InsertBefore(p, i, Block(b.addr, b.size))
    ELSE IF p # << >> /\ EndOf(p[Len(p)]) = b.addr
         THEN Replace(p, Len(p), Block(p[Len(p)].addr, p[Len(p)].size + b.size))
         ELSE Append(p, Block(b.addr, b.size))

(***************************************************************************)
(* Descriptors in memory.  Two of them can share words only when the rest  *)
(* of a page is smaller than a descriptor.  It is the older one (pages are *)
(* taken from the lowest up, and never given back): a later block in the   *)
(* page behind it overwrites it.  The next walk of the pool notices, which *)
(* may be the one that frees the later block's own rest.                   *)
(***************************************************************************)
DescAt(b) == b.addr .. b.addr + Desc - 1
Clashing(bs) ==
    {b.addr : b \in {x \in bs : \E y \in bs : y.addr > x.addr /\ DescAt(x) \cap DescAt(y) # {}}}
StillBad(p, l) ==
    LET bs == {p[i] : i \in DOMAIN p} \union {Block(b.addr, b.size) : b \in l}
    IN (bad \intersect {b.addr : b \in bs}) \union Clashing(bs)

\* list operations walk the pool, and cannot if a descriptor in it is overwritten
PoolOK == \A b \in Blocks : b.addr \notin bad
Ready == stopped = "no" /\ PoolOK
walk_fails ==
    /\ stopped = "no" /\ ~PoolOK
    /\ stopped' = "clobbered pool"
    /\ UNCHANGED <<pool, live, taken, bad>>

(***************************************************************************)
(* malloc.  The first pool block that is large enough is taken, or split   *)
(* and its upper part given away; without one, new pages are taken and the *)
(* rest of the last page goes to the pool.  When the size comes to no      *)
(* pages, the descriptor is written into a page that stays free, and that  *)
(* of the rest in front of it: the block found is no memory of the heap's, *)
(* and the model stops there.                                              *)
(***************************************************************************)
Fits(total) == {i \in DOMAIN pool : pool[i].size >= total}
\* the sum wraps: the last page's worth of sizes comes to no page at all
BYTES_TO_PAGES(n) == ((n + PageWords - 1) % SizeMod) \div PageWords
\* where alloc_ppages finds n pages; for none, at any free page
Runs(n) == {pg \in HeapPages \ taken : pg .. pg + n - 1 \subseteq HeapPages \ taken}
NoMemory(total) == Fits(total) = {} /\ Runs(BYTES_TO_PAGES(total)) = {}

\* all of the block leaves the pool, though its new size is total
TakeWhole(i) == [addr |-> pool[i].addr, pool |-> Remove(pool, i), taken |-> taken]
\* Broken: the lower part keeps its size.
TakeUpper_unshrunk(i, total) ==
    [addr |-> EndOf(pool[i]) - total, pool |-> pool, taken |-> taken]
TakeUpper(i, total) ==
    [addr |-> EndOf(pool[i]) - total,
     pool |-> Replace(pool, i, Block(pool[i].addr, pool[i].size - total)),
     taken |-> taken]
\* Broken: an empty rest is freed too.
TakePages_empty(total) ==
    LET n == BYTES_TO_PAGES(total)
        pg == Min(Runs(n))
    IN [addr |-> pg * PageWords,
        pool |-> Freed(pool, Block((pg * PageWords + total) % SizeMod,
                                   (n * PageWords - total) % SizeMod)),
        taken |-> taken \union (pg .. pg + n - 1)]
TakePages(total) ==
    LET n == BYTES_TO_PAGES(total)
        pg == Min(Runs(n))
        rest == (n * PageWords - total) % SizeMod
        at == (pg * PageWords + total) % SizeMod
    IN [addr |-> pg * PageWords,
        pool |-> IF rest > 0 THEN Freed(pool, Block(at, rest)) ELSE pool,
        taken |-> taken \union (pg .. pg + n - 1)]
Got(total) ==
    IF Fits(total) = {} THEN TakePages(total)
    ELSE LET i == Min(Fits(total))
         IN IF pool[i].size < total + MinBlock THEN TakeWhole(i) ELSE TakeUpper(i, total)

PagesFound(total) ==
    IF Fits(total) = {} /\ ~NoMemory(total) /\ BYTES_TO_PAGES(total) = 0 THEN "no pages" ELSE stopped

malloc(sz) ==
    LET total == TotalSize(sz)
    IN /\ Ready
       /\ \/ /\ ~NoMemory(total)
             /\ pool' = Got(total).pool
             /\ live' = live \union {Live(Got(total).addr, total, sz)}
             /\ taken' = Got(total).taken
          \/ NoMemory(total) /\ UNCHANGED <<pool, live, taken>>
       /\ bad' = StillBad(pool', live')
       /\ stopped' = PagesFound(total)

calloc(num, size) == malloc((num * size) % SizeMod)

free(b) ==
    /\ Ready /\ b.addr \notin bad
    /\ pool' = Freed(pool, b)
    /\ live' = live \ {b}
    /\ bad' = StillBad(pool', live')
    /\ UNCHANGED <<taken, stopped>>

\* the check of the magic number at the start of free
free_panic(b) ==
    /\ stopped = "no" /\ b.addr \in bad
    /\ stopped' = "corrupted magic"
    /\ UNCHANGED <<pool, live, taken, bad>>

(***************************************************************************)
(* realloc returns the block itself when its size, descriptor included, is *)
(* enough; otherwise it allocates, copies and frees.                       *)
(***************************************************************************)
realloc_same(b, size) ==
    /\ stopped = "no" /\ b.addr \notin bad
    /\ b.size >= size
    /\ live' = (live \ {b}) \union {Live(b.addr, b.size, size)}
    /\ UNCHANGED <<pool, taken, bad, stopped>>
realloc_move(b, size) ==
    LET total == TotalSize(size)
    IN /\ Ready /\ b.addr \notin bad
       /\ b.size < size
       /\ \/ /\ ~NoMemory(total)
             /\ pool' = Freed(Got(total).pool, b)
             /\ live' = (live \ {b}) \union {Live(Got(total).addr, total, size)}
             /\ taken' = Got(total).taken
          \/ NoMemory(total) /\ UNCHANGED <<pool, live, taken>>
       /\ bad' = StillBad(pool', live')
       /\ stopped' = PagesFound(total)

(***************************************************************************)
(* A client fills the req words it asked for.  Beyond the end of its block *)
(* that overwrites the descriptors of others.                              *)
(***************************************************************************)
Overrun(b) == EndOf(b) .. b.addr + Desc + b.req - 1
client_fills(b) ==
    /\ stopped = "no"
    /\ Overrun(b) # {}
    /\ bad' = bad \union {x.addr : x \in {y \in Blocks \union live :
                                 y.addr # b.addr /\ DescAt(y) \intersect Overrun(b) # {}}}
    /\ UNCHANGED <<pool, live, taken, stopped>>

halted == stopped # "no" /\ UNCHANGED vars

Next ==
    \/ \E sz \in Sizes : malloc(sz)
    \/ \E num \in Counts, size \in Sizes : calloc(num, size)
    \/ \E b \in live :
          \/ free(b)
          \/ free_panic(b)
          \/ client_fills(b)
          \/ \E size \in NewSizes : realloc_same(b, size) \/ realloc_move(b, size)
    \/ walk_fails
    \/ halted

Spec == Init /\ [][Next]_vars

-----------------------------------------------------------------------------
\* The free list and the blocks clients hold are in range of the heap's types.
TypeOK ==
    /\ pool \in Seq([addr : Nat, size : Nat \ {0}])
    /\ live \subseteq [addr : Nat, size : Nat, req : Nat]
    /\ taken \subseteq HeapPages
    /\ bad \subseteq {b.addr : b \in Blocks \union live}
    /\ stopped \in {"no", "no pages", "clobbered pool", "corrupted magic"}

Words(b) == b.addr .. EndOf(b) - 1

\* No word belongs to two blocks, free or held, and every block lies in pages the
\* heap has: malloc's splits, free's joins and realloc's moves never hand out
\* memory twice.
NoOverlap ==
    /\ \A b \in live, c \in live \union Blocks :
          b # c => Words(b) \intersect Words(c) = {}
    /\ \A i, j \in DOMAIN pool : i # j => Words(pool[i]) \intersect Words(pool[j]) = {}
    /\ \A b \in live \union Blocks : \A a \in Words(b) : a \div PageWords \in taken

\* The free list stays in address order through splits, joins and new pages;
\* free relies on it to stop at the only block it could join.
PoolSorted ==
    \A i \in 1 .. Len(pool) - 1 : EndOf(pool[i]) <= pool[i + 1].addr

\* The assertion in free: clients that stay within the sizes they asked for
\* never find a descriptor with a wrong magic number.
NoCorruption == stopped # "corrupted magic"

\* The heap is sound after every sequence of malloc, calloc, realloc and free: well formed,
\* in address order, and without a word that belongs to two blocks.
HeapInv == TypeOK /\ NoOverlap /\ PoolSorted
=============================================================================
