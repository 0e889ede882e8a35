----------------------------- MODULE HeapProofs -----------------------------
(***************************************************************************)
(* Proofs about malloc, calloc, realloc and free, for every size of the    *)
(* pages and of the descriptor, every set of pages and every sizes clients *)
(* ask for, but those that come to no pages (NonEmpty).                    *)
(***************************************************************************)
EXTENDS Heap, TLAPS, WellFoundedInduction

\* No request is so large that BYTES_TO_PAGES wraps: with its descriptor it neither comes to
\* nothing nor to within a page of the largest size_t.
NonEmpty ==
    /\ \A sz \in Sizes \union NewSizes : BYTES_TO_PAGES(TotalSize(sz)) # 0
    /\ \A num \in Counts, size \in Sizes : BYTES_TO_PAGES(TotalSize((num * size) % SizeMod)) # 0

FreeBlock == [addr : Nat, size : Nat \ {0}]
HeldBlock == [addr : Nat, size : Nat \ {0}, req : Nat]
IsBlock(b) == b.addr \in Nat /\ b.size \in Nat \ {0}

\* One block ends before the other begins.
Apart(b, c) == EndOf(b) <= c.addr \/ EndOf(c) <= b.addr
Beside(p, b) == \A i \in 1 .. Len(p) : Apart(b, p[i])
\* PoolSorted for any two blocks, not only neighbours.
Sorted(p) == p \in Seq(FreeBlock) /\ \A i, j \in 1 .. Len(p) : i < j => EndOf(p[i]) <= p[j].addr

InPages(b, t) == \A a \in Words(b) : a \div PageWords \in t
Within(p, t) == \A i \in 1 .. Len(p) : InPages(p[i], t)

\* NoOverlap and PoolSorted, as facts about the ends of blocks.
BlocksInv ==
    /\ Sorted(pool) /\ Within(pool, taken)
    /\ live \subseteq HeldBlock
    /\ \A b \in live : Beside(pool, b) /\ InPages(b, taken)
    /\ \A b, c \in live : b # c => Apart(b, c)

RestInv ==
    /\ taken \subseteq HeapPages
    /\ bad \subseteq {b.addr : b \in Blocks \union live}
    /\ stopped \in {"no", "no pages", "clobbered pool", "corrupted magic"}

-----------------------------------------------------------------------------
(***************************************************************************)
(* Numbers.                                                                *)
(***************************************************************************)
LEMMA LeastExists ==
    ASSUME NEW S, S \subseteq Nat, S # {}
    PROVE  \E x \in S : \A y \in S : x <= y
<1> DEFINE R == OpToRel(<, Nat)
<1>1. IsWellFoundedOn(R, Nat)
  BY NatLessThanWellFounded
<1>2. \A x, y \in Nat : x < y => <<x, y>> \in R
  BY DEF OpToRel
<1> HIDE DEF R
<1>3. PICK x \in S : \A y \in S : ~(<<y, x>> \in R)
  BY <1>1, WFMin
<1>4. ASSUME NEW y \in S PROVE x <= y
  <2>1. x \in Nat /\ y \in Nat
    OBVIOUS
  <2>2. ~(y < x)
    BY <1>2, <1>3, <2>1, Zenon
  <2> QED BY <2>1, <2>2
<1> QED BY <1>4

\* The first block of the pool that is large enough, the lowest run of pages.
LEMMA MinFacts ==
    ASSUME NEW S, S \subseteq Nat, S # {}
    PROVE  Min(S) \in S /\ \A y \in S : Min(S) <= y
  BY LeastExists DEF Min

LEMMA PagesOfRun ==
    ASSUME NEW d \in Nat \ {0}, NEW pg \in Nat, NEW n \in Nat, NEW a \in Nat,
           pg * d <= a, a < (pg + n) * d
    PROVE  a \div d \in pg .. pg + n - 1
<1>1. a = d * (a \div d) + (a % d) /\ a % d \in 0 .. d - 1 /\ a \div d \in Int
  BY Z3
<1>2. a \div d >= pg
  BY <1>1, Z3
<1>3. a \div d < pg + n
  BY <1>1, Z3
<1> QED BY <1>1, <1>2, <1>3

\* BYTES_TO_PAGES: enough pages, and at least one.
LEMMA RoundUp ==
    ASSUME NEW d \in Nat \ {0}, NEW t \in Nat \ {0}, NEW n, n = (t + d - 1) \div d
    PROVE  n \in Nat \ {0} /\ n * d >= t
<1> DEFINE a == t + d - 1
<1>1. a \in Nat /\ a >= d
  OBVIOUS
<1>2. a = d * (a \div d) + (a % d) /\ a % d \in 0 .. d - 1 /\ a \div d \in Int
  BY <1>1, Z3
<1> HIDE DEF a
<1>3. a \div d >= 1
  BY <1>1, <1>2, Z3
<1>4. (a \div d) * d >= t
  BY <1>2, Z3 DEF a
<1> QED BY <1>2, <1>3, <1>4 DEF a

\* A size that does not come to no pages is rounded up without wrapping.
LEMMA PagesFacts ==
    ASSUME NEW total \in 0 .. SizeMod - 1, BYTES_TO_PAGES(total) # 0
    PROVE  /\ total # 0
           /\ BYTES_TO_PAGES(total) \in Nat \ {0}
           /\ BYTES_TO_PAGES(total) * PageWords >= total
           /\ BYTES_TO_PAGES(total) * PageWords - total < PageWords
<1>1. PICK d \in Nat \ {0}, m \in Nat \ {0} : d = PageWords /\ m = SizeMod /\ d <= m
  BY HeapAssumption
<1>2. PICK n : n = BYTES_TO_PAGES(total) /\ n = ((total + d - 1) % m) \div d
  BY <1>1 DEF BYTES_TO_PAGES
<1>3. PICK s \in Nat : s = total + d - 1 /\ s < 2 * m
  BY <1>1
<1>4. \A k \in 0 .. d - 1 : k \div d = 0
  BY <1>1, Z3
<1>5. s < m
  <2> SUFFICES ASSUME s >= m PROVE FALSE
    BY <1>1, <1>3
  <2>1. s % m = s - m
    BY <1>1, <1>3, Z3
  <2>2. s - m \in 0 .. d - 1
    BY <1>1, <1>3
  <2>3. n = (s % m) \div d
    BY <1>2, <1>3
  <2> QED BY <1>2, <1>4, <2>1, <2>2, <2>3
<1>6. n = s \div d
  <2>1. s % m = s
    BY <1>1, <1>3, <1>5, Z3
  <2>2. n = (s % m) \div d
    BY <1>2, <1>3
  <2> QED BY <2>1, <2>2
<1>7. total # 0
  <2> SUFFICES ASSUME total = 0 PROVE FALSE
    OBVIOUS
  <2>1. s \in 0 .. d - 1
    BY <1>1, <1>3
  <2> QED BY <1>2, <1>4, <1>6, <2>1
<1>8. total \in Nat \ {0} /\ n = (total + d - 1) \div d
  BY <1>1, <1>3, <1>6, <1>7
<1>9. n \in Nat \ {0} /\ n * d >= total
  BY <1>8, RoundUp
<1>10. n * d - total < d
  <2>1. s = d * (s \div d) + (s % d) /\ s % d \in 0 .. d - 1 /\ s \div d \in Int
    BY <1>1, Z3
  <2>2. d * n <= s
    BY <1>6, <2>1
  <2>3. n * d = d * n
    BY <1>1, <1>9
  <2> QED BY <1>1, <1>3, <1>9, <2>2, <2>3
<1> QED BY <1>1, <1>2, <1>7, <1>9, <1>10

LEMMA TotalNat == \A sz \in Nat : TotalSize(sz) \in 0 .. SizeMod - 1
<1>1. \A k, m \in Nat : m # 0 => k % m \in 0 .. m - 1
  BY Z3
<1> QED BY <1>1, HeapAssumption DEF TotalSize

-----------------------------------------------------------------------------
(***************************************************************************)
(* Blocks and lists.                                                       *)
(***************************************************************************)
LEMMA BlockFacts ==
    ASSUME NEW a \in Nat, NEW n \in Nat \ {0}, NEW b, b = Block(a, n)
    PROVE  /\ b \in FreeBlock /\ IsBlock(b)
           /\ b.addr = a /\ b.size = n /\ EndOf(b) = a + n
  BY DEF Block, FreeBlock, IsBlock, EndOf

LEMMA PoolBlock ==
    ASSUME NEW p \in Seq(FreeBlock), NEW i \in 1 .. Len(p)
    PROVE  IsBlock(p[i]) /\ p[i] \in FreeBlock
<1>1. p[i] \in FreeBlock
  OBVIOUS
<1> QED BY <1>1 DEF FreeBlock, IsBlock

LEMMA ConcatFacts ==
    ASSUME NEW u \in Seq(FreeBlock), NEW v \in Seq(FreeBlock), NEW q, q = u \o v
    PROVE  /\ q \in Seq(FreeBlock) /\ Len(q) = Len(u) + Len(v)
           /\ \A k \in 1 .. Len(u) + Len(v) : q[k] = IF k <= Len(u) THEN u[k] ELSE v[k - Len(u)]
  OBVIOUS

LEMMA RemoveFacts ==
    ASSUME NEW s \in Seq(FreeBlock), NEW i \in 1 .. Len(s), NEW q, q = Remove(s, i)
    PROVE  /\ q \in Seq(FreeBlock) /\ Len(q) = Len(s) - 1
           /\ \A k \in 1 .. Len(q) : q[k] = IF k < i THEN s[k] ELSE s[k + 1]
<1>1. i - 1 \in 0 .. Len(s) /\ i + 1 \in 1 .. Len(s) + 1 /\ Len(s) \in Nat
  OBVIOUS
<1>2. ASSUME NEW m \in 0 .. Len(s), NEW n \in 1 .. Len(s) + 1
      PROVE  /\ SubSeq(s, 1, m) \in Seq(FreeBlock) /\ SubSeq(s, n, Len(s)) \in Seq(FreeBlock)
             /\ Len(SubSeq(s, 1, m)) = m /\ Len(SubSeq(s, n, Len(s))) = Len(s) - n + 1
             /\ \A k \in 1 .. m : SubSeq(s, 1, m)[k] = s[k]
             /\ \A k \in 1 .. Len(s) - n + 1 : SubSeq(s, n, Len(s))[k] = s[n + k - 1]
  OBVIOUS
<1> DEFINE u == SubSeq(s, 1, i - 1)
           v == SubSeq(s, i + 1, Len(s))
<1>3. /\ u \in Seq(FreeBlock) /\ v \in Seq(FreeBlock) /\ Len(u) = i - 1 /\ Len(v) = Len(s) - i
      /\ \A k \in 1 .. i - 1 : u[k] = s[k]
      /\ \A k \in 1 .. Len(s) - i : v[k] = s[i + k]
  BY <1>1, <1>2
<1>4. q = u \o v
  BY DEF Remove
<1> HIDE DEF u, v
<1>5. /\ q \in Seq(FreeBlock) /\ Len(q) = Len(u) + Len(v)
      /\ \A k \in 1 .. Len(u) + Len(v) : q[k] = IF k <= Len(u) THEN u[k] ELSE v[k - Len(u)]
  BY <1>3, <1>4, ConcatFacts, ZenonT(60)
<1>6. Len(q) = Len(s) - 1
  BY <1>1, <1>3, <1>5
<1>7. ASSUME NEW k \in 1 .. Len(s) - 1 PROVE q[k] = IF k < i THEN s[k] ELSE s[k + 1]
  <2>1. CASE k < i
    <3>1. k \in 1 .. i - 1 /\ k <= Len(u) /\ k \in 1 .. Len(u) + Len(v)
      BY <1>1, <1>3, <2>1
    <3> QED BY <1>3, <1>5, <2>1, <3>1
  <2>2. CASE ~(k < i)
    <3>1. PICK d \in 1 .. Len(s) - i : d = k - (i - 1) /\ i + d = k + 1
      BY <1>1, <2>2
    <3>2. ~(k <= Len(u)) /\ k - Len(u) = d /\ k \in 1 .. Len(u) + Len(v)
      BY <1>1, <1>3, <2>2, <3>1
    <3> QED BY <1>3, <1>5, <2>2, <3>1, <3>2
  <2> QED BY <2>1, <2>2
<1> QED BY <1>5, <1>6, <1>7

LEMMA InsertFacts ==
    ASSUME NEW s \in Seq(FreeBlock), NEW i \in 1 .. Len(s), NEW b \in FreeBlock,
           NEW q, q = InsertBefore(s, i, b)
    PROVE  /\ q \in Seq(FreeBlock) /\ Len(q) = Len(s) + 1
           /\ \A k \in 1 .. i - 1 : q[k] = s[k]
           /\ q[i] = b
           /\ \A k \in i + 1 .. Len(s) + 1 : q[k] = s[k - 1]
<1>1. i - 1 \in 0 .. Len(s) /\ i \in 1 .. Len(s) + 1 /\ Len(s) \in Nat
  OBVIOUS
<1>2. ASSUME NEW m \in 0 .. Len(s), NEW n \in 1 .. Len(s) + 1
      PROVE  /\ SubSeq(s, 1, m) \in Seq(FreeBlock) /\ SubSeq(s, n, Len(s)) \in Seq(FreeBlock)
             /\ Len(SubSeq(s, 1, m)) = m /\ Len(SubSeq(s, n, Len(s))) = Len(s) - n + 1
             /\ \A k \in 1 .. m : SubSeq(s, 1, m)[k] = s[k]
             /\ \A k \in 1 .. Len(s) - n + 1 : SubSeq(s, n, Len(s))[k] = s[n + k - 1]
  OBVIOUS
<1> DEFINE u == SubSeq(s, 1, i - 1)
           v == SubSeq(s, i, Len(s))
<1>3. /\ u \in Seq(FreeBlock) /\ v \in Seq(FreeBlock) /\ Len(u) = i - 1 /\ Len(v) = Len(s) - i + 1
      /\ \A k \in 1 .. i - 1 : u[k] = s[k]
      /\ \A k \in 1 .. Len(s) - i + 1 : v[k] = s[i + k - 1]
  BY <1>1, <1>2
<1>4. q = u \o <<b>> \o v
  BY DEF InsertBefore
<1> HIDE DEF u, v
<1> DEFINE w == u \o <<b>>
<1>5. w \in Seq(FreeBlock) /\ Len(w) = i /\ \A k \in 1 .. i : w[k] = IF k < i THEN s[k] ELSE b
  BY <1>1, <1>3, SMTT(60)
<1> HIDE DEF w
<1>6. q = w \o v
  BY <1>4 DEF w
<1>8. /\ q \in Seq(FreeBlock) /\ Len(q) = Len(w) + Len(v)
      /\ \A k \in 1 .. Len(w) + Len(v) : q[k] = IF k <= Len(w) THEN w[k] ELSE v[k - Len(w)]
  <2>1. w \in Seq(FreeBlock) /\ v \in Seq(FreeBlock)
    BY <1>3, <1>5
  <2> QED BY <1>6, <2>1, ConcatFacts
<1>7. q \in Seq(FreeBlock) /\ Len(q) = Len(s) + 1
  BY <1>1, <1>3, <1>5, <1>8
<1>9. ASSUME NEW k \in 1 .. Len(q)
      PROVE  q[k] = IF k < i THEN s[k] ELSE IF k = i THEN b ELSE s[k - 1]
  <2>1. CASE k <= i
    BY <1>1, <1>3, <1>5, <1>7, <1>8, <2>1, SMTT(60)
  <2>2. CASE k > i
    <3>1. k - i \in 1 .. Len(s) - i + 1 /\ i + (k - i) - 1 = k - 1
      BY <1>1, <1>7, <2>2
    <3>2. v[k - i] = s[i + (k - i) - 1]
      BY <1>3, <3>1
    <3> QED BY <1>1, <1>3, <1>5, <1>7, <1>8, <2>2, <3>1, <3>2
  <2> QED BY <1>1, <1>7, <2>1, <2>2
<1> QED BY <1>1, <1>7, <1>9

\* What lies beside two touching blocks, or in their pages, is so for the joined block.
LEMMA JoinFacts ==
    ASSUME NEW b, NEW c, NEW d, IsBlock(b), IsBlock(c), EndOf(b) = c.addr,
           d = Block(b.addr, b.size + c.size)
    PROVE  /\ d \in FreeBlock /\ d.addr = b.addr /\ EndOf(d) = EndOf(c)
           /\ \A x : IsBlock(x) /\ Apart(x, b) /\ Apart(x, c) => Apart(x, d)
           /\ \A t : InPages(b, t) /\ InPages(c, t) => InPages(d, t)
<1>1. d \in FreeBlock /\ d.addr = b.addr /\ EndOf(d) = EndOf(c)
  BY DEF IsBlock, Block, FreeBlock, EndOf
<1>2. ASSUME NEW x, IsBlock(x), Apart(x, b), Apart(x, c) PROVE Apart(x, d)
  BY <1>1, <1>2 DEF IsBlock, Apart, EndOf
<1>3. ASSUME NEW t, InPages(b, t), InPages(c, t) PROVE InPages(d, t)
  <2> SUFFICES ASSUME NEW a \in Words(d) PROVE a \in Words(b) \/ a \in Words(c)
    BY <1>3 DEF InPages
  <2> QED BY <1>1 DEF Words, EndOf, IsBlock
<1> QED BY <1>1, <1>2, <1>3

\* A block split in two, its upper part of n words.
LEMMA SplitFacts ==
    ASSUME NEW b, IsBlock(b), NEW n \in Nat \ {0}, b.size > n,
           NEW low, low = Block(b.addr, b.size - n), NEW up, up = Block(EndOf(b) - n, n)
    PROVE  /\ low \in FreeBlock /\ IsBlock(up) /\ up.addr = EndOf(b) - n
           /\ low.addr = b.addr /\ EndOf(low) = up.addr /\ EndOf(up) = EndOf(b)
           /\ low.addr <= EndOf(low) /\ up.addr <= EndOf(up)
           /\ \A x : IsBlock(x) /\ Apart(x, b) => Apart(x, low) /\ Apart(x, up)
           /\ \A t : InPages(b, t) => InPages(low, t) /\ InPages(up, t)
<1>1. PICK m \in Nat, k \in Nat \ {0} : m = b.addr /\ k = b.size - n
  BY DEF IsBlock
<1>2. b.addr = m /\ b.size = k + n /\ EndOf(b) = m + k + n /\ EndOf(b) - n = m + k
  BY <1>1 DEF EndOf, IsBlock
<1>3. /\ low \in FreeBlock /\ IsBlock(up)
      /\ low.addr = m /\ EndOf(low) = m + k /\ up.addr = m + k /\ EndOf(up) = m + k + n
  <2>1. m + k \in Nat /\ low = Block(m, k) /\ up = Block(m + k, n)
    BY <1>1, <1>2
  <2>2. low \in FreeBlock /\ low.addr = m /\ EndOf(low) = m + k
    BY <2>1, BlockFacts
  <2>3. IsBlock(up) /\ up.addr = m + k /\ EndOf(up) = (m + k) + n
    BY <2>1 DEF Block, FreeBlock, IsBlock, EndOf
  <2> QED BY <2>2, <2>3
<1>4. ASSUME NEW x, IsBlock(x), Apart(x, b) PROVE Apart(x, low) /\ Apart(x, up)
  BY <1>2, <1>3, <1>4 DEF Apart, IsBlock, EndOf
<1>5. Words(low) \subseteq Words(b) /\ Words(up) \subseteq Words(b)
  BY <1>2, <1>3 DEF Words
<1>6. ASSUME NEW t, InPages(b, t) PROVE InPages(low, t) /\ InPages(up, t)
  BY <1>5, <1>6 DEF InPages
<1> QED BY <1>2, <1>3, <1>4, <1>6

\* free: the walk stops at the only place where the order of the list is kept.
LEMMA FreedFacts ==
    ASSUME NEW p, Sorted(p), NEW b, IsBlock(b), Beside(p, b), NEW q, q = Freed(p, b)
    PROVE  /\ Sorted(q)
           /\ \A x : IsBlock(x) /\ Beside(p, x) /\ Apart(x, b) => Beside(q, x)
           /\ \A t : Within(p, t) /\ InPages(b, t) => Within(q, t)
<1> DEFINE n == Len(p)
           f == Block(b.addr, b.size)
<1>1. p \in Seq(FreeBlock) /\ n \in Nat /\ Stops(p, b) \subseteq 1 .. n
  BY DEF Sorted, Stops
<1>2. \A i \in 1 .. n : IsBlock(p[i])
  BY <1>1, PoolBlock
<1>3. \A i \in 1 .. n : i \notin Stops(p, b) => EndOf(p[i]) <= b.addr
  BY <1>1, <1>2 DEF Stops, Beside, Apart, IsBlock, EndOf
<1>4. /\ f \in FreeBlock /\ f.addr = b.addr /\ EndOf(f) = EndOf(b)
      /\ \A x : Apart(x, b) => Apart(x, f)
      /\ \A t : InPages(b, t) => InPages(f, t)
  BY DEF IsBlock, EndOf, Apart, InPages, Words, Block, FreeBlock
<1> HIDE DEF n, f
<1>5. CASE Stops(p, b) # {}
  <2>1. PICK i \in Stops(p, b) : i = Min(Stops(p, b)) /\ \A j \in Stops(p, b) : i <= j
    BY <1>1, <1>5, MinFacts
  <2>3. q = IF p[i].addr = EndOf(b)
            THEN Replace(p, i, Block(b.addr, b.size + p[i].size)) ELSE InsertBefore(p, i, f)
    BY <1>5, <2>1 DEF Freed, f
  <2>2. i \in 1 .. n /\ p[i].addr >= EndOf(b) /\ \A j \in 1 .. n : j < i => EndOf(p[j]) <= b.addr
    <3>1. i \in 1 .. n /\ p[i].addr >= EndOf(b)
      BY <1>1, <2>1 DEF Stops
    <3>2. ASSUME NEW j \in 1 .. n, j < i PROVE EndOf(p[j]) <= b.addr
      BY <1>3, <2>1, <3>1, <3>2
    <3> QED BY <3>1, <3>2
  <2>4. CASE p[i].addr = EndOf(b)
    <3> DEFINE d == Block(b.addr, b.size + p[i].size)
    <3>1. /\ d \in FreeBlock /\ d.addr = b.addr /\ EndOf(d) = EndOf(p[i])
          /\ \A x : IsBlock(x) /\ Apart(x, b) /\ Apart(x, p[i]) => Apart(x, d)
          /\ \A t : InPages(b, t) /\ InPages(p[i], t) => InPages(d, t)
      BY <1>2, <2>2, <2>4, JoinFacts
    <3> HIDE DEF d
    <3>2. q = [p EXCEPT ![i] = d]
      BY <2>3, <2>4 DEF Replace, d
    <3>3. /\ q \in Seq(FreeBlock) /\ Len(q) = n
          /\ \A k \in 1 .. n : q[k] = IF k = i THEN d ELSE p[k]
      BY <1>1, <2>2, <3>1, <3>2 DEF n
    <3>4. Sorted(q)
      BY <1>1, <2>2, <3>1, <3>3 DEF Sorted, n
    <3>5. ASSUME NEW x, IsBlock(x), Beside(p, x), Apart(x, b) PROVE Beside(q, x)
      BY <2>2, <3>1, <3>3, <3>5 DEF Beside, n
    <3>6. ASSUME NEW t, Within(p, t), InPages(b, t) PROVE Within(q, t)
      BY <2>2, <3>1, <3>3, <3>6 DEF Within, n
    <3> QED BY <3>4, <3>5, <3>6
  <2>5. CASE p[i].addr # EndOf(b)
    <3>1. q = InsertBefore(p, i, f)
      BY <2>3, <2>5
    <3>2. /\ q \in Seq(FreeBlock) /\ Len(q) = n + 1
          /\ \A k \in 1 .. n + 1 : q[k] = IF k < i THEN p[k] ELSE IF k = i THEN f ELSE p[k - 1]
      <4>1. i \in 1 .. Len(p) /\ f \in FreeBlock
        BY <1>4, <2>2 DEF n
      <4>2. /\ q \in Seq(FreeBlock) /\ Len(q) = Len(p) + 1
            /\ \A k \in 1 .. i - 1 : q[k] = p[k]
            /\ q[i] = f
            /\ \A k \in i + 1 .. Len(p) + 1 : q[k] = p[k - 1]
        BY <1>1, <3>1, <4>1, InsertFacts, SMTT(60)
      <4> QED BY <1>1, <4>1, <4>2 DEF n
    <3>3. Sorted(q)
      <4>1. ASSUME NEW j \in 1 .. n + 1, NEW k \in 1 .. n + 1, j < k
            PROVE  EndOf(q[j]) <= q[k].addr
        <5>1. \A h \in 1 .. n : i <= h => EndOf(b) <= p[h].addr
          <6> SUFFICES ASSUME NEW h \in 1 .. n, i < h PROVE EndOf(b) <= p[h].addr
            BY <2>2
          <6>1. EndOf(p[i]) <= p[h].addr
            BY <2>2 DEF Sorted, n
          <6> QED BY <1>2, <2>2, <6>1 DEF IsBlock, EndOf
        <5>2. CASE k < i
          <6>1. q[j] = p[j] /\ q[k] = p[k] /\ j \in 1 .. n /\ k \in 1 .. n
            BY <1>1, <2>2, <3>2, <4>1, <5>2
          <6> QED BY <4>1, <6>1 DEF Sorted, n
        <5>3. CASE k = i
          BY <1>1, <1>4, <2>2, <3>2, <4>1, <5>3
        <5>4. CASE k > i
          <6>1. k - 1 \in 1 .. n /\ q[k] = p[k - 1] /\ i <= k - 1
            BY <1>1, <2>2, <3>2, <5>4
          <6>2. CASE j < i
            <7>1. q[j] = p[j] /\ j \in 1 .. n /\ j < k - 1
              BY <1>1, <2>2, <3>2, <6>1, <6>2
            <7> QED BY <6>1, <7>1 DEF Sorted, n
          <6>3. CASE j = i
            BY <1>4, <2>2, <3>2, <5>1, <6>1, <6>3
          <6>4. CASE j > i
            <7>1. q[j] = p[j - 1] /\ j - 1 \in 1 .. n /\ j - 1 < k - 1
              BY <1>1, <2>2, <3>2, <4>1, <6>1, <6>4, SMTT(60)
            <7> QED BY <6>1, <7>1 DEF Sorted, n
          <6> QED BY <1>1, <2>2, <6>2, <6>3, <6>4
        <5> QED BY <1>1, <2>2, <5>2, <5>3, <5>4
      <4> QED BY <3>2, <4>1 DEF Sorted
    <3>4. ASSUME NEW k \in 1 .. n + 1
          PROVE  q[k] = f \/ \E h \in 1 .. n : q[k] = p[h]
      <4>1. CASE k < i
        BY <1>1, <2>2, <3>2, <4>1
      <4>2. CASE k > i
        <5>1. k - 1 \in 1 .. n /\ q[k] = p[k - 1]
          BY <1>1, <2>2, <3>2, <4>2
        <5> QED BY <5>1
      <4>3. CASE k = i
        BY <3>2, <4>3
      <4> QED BY <1>1, <2>2, <4>1, <4>2, <4>3
    <3>5. ASSUME NEW x, IsBlock(x), Beside(p, x), Apart(x, b) PROVE Beside(q, x)
      BY <1>4, <3>2, <3>4, <3>5 DEF Beside, n
    <3>6. ASSUME NEW t, Within(p, t), InPages(b, t) PROVE Within(q, t)
      BY <1>4, <3>2, <3>4, <3>6 DEF Within, n
    <3> QED BY <3>3, <3>5, <3>6
  <2> QED BY <2>4, <2>5
<1>6. CASE Stops(p, b) = {} /\ p # << >> /\ EndOf(p[Len(p)]) = b.addr
  <2> DEFINE d == Block(p[n].addr, p[n].size + b.size)
  <2>1. n \in 1 .. n
    BY <1>1, <1>6 DEF n
  <2>2. /\ d \in FreeBlock /\ d.addr = p[n].addr /\ EndOf(d) = EndOf(b)
        /\ \A x : IsBlock(x) /\ Apart(x, p[n]) /\ Apart(x, b) => Apart(x, d)
        /\ \A t : InPages(p[n], t) /\ InPages(b, t) => InPages(d, t)
    BY <1>2, <1>6, <2>1, JoinFacts DEF n
  <2>3. q = [p EXCEPT ![n] = d]
    BY <1>6 DEF Freed, Replace, n
  <2> HIDE DEF d
  <2>4. /\ q \in Seq(FreeBlock) /\ Len(q) = n
        /\ \A k \in 1 .. n : q[k] = IF k = n THEN d ELSE p[k]
    BY <1>1, <2>1, <2>2, <2>3 DEF n
  <2>5. Sorted(q)
    BY <1>1, <2>1, <2>2, <2>4 DEF Sorted, n
  <2>6. ASSUME NEW x, IsBlock(x), Beside(p, x), Apart(x, b) PROVE Beside(q, x)
    BY <2>1, <2>2, <2>4, <2>6 DEF Beside, n
  <2>7. ASSUME NEW t, Within(p, t), InPages(b, t) PROVE Within(q, t)
    BY <2>1, <2>2, <2>4, <2>7 DEF Within, n
  <2> QED BY <2>5, <2>6, <2>7
<1>7. CASE Stops(p, b) = {} /\ ~(p # << >> /\ EndOf(p[Len(p)]) = b.addr)
  <2>1. q = Append(p, f)
    BY <1>7 DEF Freed, f
  <2>2. /\ q \in Seq(FreeBlock) /\ Len(q) = n + 1
        /\ \A k \in 1 .. n + 1 : q[k] = IF k = n + 1 THEN f ELSE p[k]
    BY <1>1, <1>4, <2>1 DEF n
  <2>3. Sorted(q)
    BY <1>1, <1>3, <1>4, <1>7, <2>2 DEF Sorted, n
  <2>4. ASSUME NEW x, IsBlock(x), Beside(p, x), Apart(x, b) PROVE Beside(q, x)
    BY <1>1, <1>4, <2>2, <2>4 DEF Beside, n
  <2>5. ASSUME NEW t, Within(p, t), InPages(b, t) PROVE Within(q, t)
    BY <1>1, <1>4, <2>2, <2>5 DEF Within, n
  <2> QED BY <2>3, <2>4, <2>5
<1> QED BY <1>5, <1>6, <1>7

-----------------------------------------------------------------------------
(***************************************************************************)
(* malloc: a block of total words at g.addr, the pool and the pages after  *)
(* it.  New is that block, Given what every caller relies on.              *)
(***************************************************************************)
Given(g, total) ==
    LET new == Block(g.addr, total)
    IN /\ g.addr \in Nat /\ Sorted(g.pool)
       /\ taken \subseteq g.taken /\ g.taken \subseteq HeapPages
       /\ Within(g.pool, g.taken) /\ InPages(new, g.taken) /\ Beside(g.pool, new)
       /\ \A x : IsBlock(x) /\ Beside(pool, x) /\ InPages(x, taken)
                   => Apart(x, new) /\ Beside(g.pool, x)

LEMMA TakeWholeFacts ==
    ASSUME Sorted(pool), Within(pool, taken), taken \subseteq HeapPages,
           NEW total \in Nat \ {0}, NEW i \in 1 .. Len(pool), pool[i].size >= total
    PROVE  Given(TakeWhole(i), total)
<1> DEFINE a == pool[i].addr
           q == Remove(pool, i)
           new == Block(a, total)
<1>1. pool \in Seq(FreeBlock) /\ Len(pool) \in Nat
  BY DEF Sorted
<1>2. IsBlock(pool[i])
  BY <1>1, PoolBlock
<1>3. a \in Nat /\ new.addr = a /\ EndOf(new) = a + total
  BY <1>2 DEF IsBlock, Block, FreeBlock, EndOf
<1>4. /\ q \in Seq(FreeBlock) /\ Len(q) = Len(pool) - 1
      /\ \A k \in 1 .. Len(q) : q[k] = IF k < i THEN pool[k] ELSE pool[k + 1]
  BY <1>1, RemoveFacts
<1>5. TakeWhole(i).addr = a /\ TakeWhole(i).pool = q /\ TakeWhole(i).taken = taken
  BY DEF TakeWhole
<1> HIDE DEF a, q, new
<1>6. \A k \in 1 .. Len(q) :
         LET h == IF k < i THEN k ELSE k + 1
         IN h \in 1 .. Len(pool) /\ h # i /\ q[k] = pool[h]
  BY <1>1, <1>4
<1>7. Sorted(q)
  <2> SUFFICES ASSUME NEW j \in 1 .. Len(q), NEW k \in 1 .. Len(q), j < k
               PROVE  EndOf(q[j]) <= q[k].addr
    BY <1>4 DEF Sorted
  <2> DEFINE h == IF j < i THEN j ELSE j + 1
             l == IF k < i THEN k ELSE k + 1
  <2>1. h \in 1 .. Len(pool) /\ l \in 1 .. Len(pool) /\ q[j] = pool[h] /\ q[k] = pool[l]
    BY <1>6
  <2>2. h < l
    BY <1>1, <1>4
  <2> HIDE DEF h, l
  <2> QED BY <2>1, <2>2 DEF Sorted
<1>8. Within(q, taken)
  BY <1>6 DEF Within
<1>9. \A x : IsBlock(x) /\ Beside(pool, x) => Apart(x, new) /\ Beside(q, x)
  <2> SUFFICES ASSUME NEW x, IsBlock(x), Beside(pool, x) PROVE Apart(x, new) /\ Beside(q, x)
    OBVIOUS
  <2>1. Apart(x, pool[i])
    BY DEF Beside
  <2>2. Apart(x, new)
    BY <1>2, <1>3, <2>1, SMTT(60) DEF Apart, EndOf, IsBlock, a
  <2>3. Beside(q, x)
    BY <1>6 DEF Beside
  <2> QED BY <2>2, <2>3
<1>10. Beside(q, new)
  <2> SUFFICES ASSUME NEW k \in 1 .. Len(q) PROVE Apart(new, q[k])
    BY DEF Beside
  <2>1. PICK h \in 1 .. Len(pool) : h # i /\ q[k] = pool[h]
    BY <1>6
  <2>2. IsBlock(pool[h])
    BY <1>1, PoolBlock
  <2>3. EndOf(pool[h]) <= a \/ EndOf(pool[i]) <= pool[h].addr
    BY <1>1, <2>1 DEF Sorted, a
  <2> QED BY <1>2, <1>3, <2>1, <2>2, <2>3, SMTT(60) DEF Apart, EndOf, IsBlock, a
<1>11. InPages(new, taken)
  <2> SUFFICES ASSUME NEW w \in Words(new) PROVE w \in Words(pool[i])
    BY DEF InPages, Within
  <2> QED BY <1>2, <1>3, SMTT(60) DEF Words, EndOf, IsBlock, a
<1> QED BY <1>3, <1>5, <1>7, <1>8, <1>9, <1>10, <1>11 DEF Given, new

LEMMA TakeUpperFacts ==
    ASSUME Sorted(pool), Within(pool, taken), taken \subseteq HeapPages,
           NEW total \in Nat \ {0}, NEW i \in 1 .. Len(pool), pool[i].size > total
    PROVE  Given(TakeUpper(i, total), total)
<1> DEFINE b == pool[i]
<1>1. pool \in Seq(FreeBlock) /\ Len(pool) \in Nat
  BY DEF Sorted
<1>2. \A h \in 1 .. Len(pool) : IsBlock(pool[h])
  BY <1>1, PoolBlock
<1>3. PICK low, new : low = Block(b.addr, b.size - total) /\ new = Block(EndOf(b) - total, total)
  OBVIOUS
<1>4. /\ low \in FreeBlock /\ IsBlock(new) /\ new.addr = EndOf(b) - total
      /\ low.addr = b.addr /\ EndOf(low) = new.addr /\ EndOf(new) = EndOf(b)
      /\ low.addr <= EndOf(low) /\ new.addr <= EndOf(new)
      /\ \A x : IsBlock(x) /\ Apart(x, b) => Apart(x, low) /\ Apart(x, new)
      /\ \A t : InPages(b, t) => InPages(low, t) /\ InPages(new, t)
  BY <1>2, <1>3, SplitFacts
<1>5. PICK q : q = [pool EXCEPT ![i] = low]
  OBVIOUS
<1>6. /\ TakeUpper(i, total).addr = new.addr /\ TakeUpper(i, total).pool = q
      /\ TakeUpper(i, total).taken = taken
  BY <1>3, <1>4, <1>5 DEF TakeUpper, Replace
<1>7. /\ q \in Seq(FreeBlock) /\ Len(q) = Len(pool)
      /\ \A k \in 1 .. Len(pool) : q[k] = IF k = i THEN low ELSE pool[k]
  BY <1>1, <1>4, <1>5
<1>8. \A h \in 1 .. Len(pool) : pool[h].addr \in Nat /\ EndOf(pool[h]) \in Nat
  BY <1>2 DEF IsBlock, EndOf
<1>9. Sorted(q)
  <2> SUFFICES ASSUME NEW j \in 1 .. Len(pool), NEW k \in 1 .. Len(pool), j < k
               PROVE  EndOf(q[j]) <= q[k].addr
    BY <1>7 DEF Sorted
  <2>1. EndOf(pool[j]) <= pool[k].addr
    BY DEF Sorted
  <2>2. EndOf(q[j]) <= EndOf(pool[j]) /\ EndOf(q[j]) \in Nat
    BY <1>4, <1>7, <1>8, SMTT(60) DEF IsBlock
  <2>3. q[k].addr = pool[k].addr
    BY <1>4, <1>7
  <2> QED BY <1>8, <2>1, <2>2, <2>3, SMTT(60)
<1>10. Within(q, taken) /\ InPages(new, taken)
  BY <1>4, <1>7 DEF Within
<1>11. \A x : IsBlock(x) /\ Beside(pool, x) => Apart(x, new) /\ Beside(q, x)
  <2> SUFFICES ASSUME NEW x, IsBlock(x), Beside(pool, x) PROVE Apart(x, new) /\ Beside(q, x)
    OBVIOUS
  <2>1. Apart(x, new) /\ Apart(x, low)
    BY <1>4 DEF Beside
  <2> QED BY <1>7, <2>1 DEF Beside
<1>12. Beside(q, new)
  <2> SUFFICES ASSUME NEW k \in 1 .. Len(pool) PROVE Apart(new, q[k])
    BY <1>7 DEF Beside
  <2>1. CASE k = i
    BY <1>4, <1>7, <2>1 DEF Apart, IsBlock
  <2>2. CASE k # i
    <3>1. Apart(pool[k], b)
      BY <1>1, <2>2 DEF Sorted, Apart
    <3>2. Apart(pool[k], new)
      BY <1>2, <1>4, <3>1
    <3> QED BY <1>7, <2>2, <3>2 DEF Apart
  <2> QED BY <2>1, <2>2
<1>13. new = Block(new.addr, total)
  BY <1>3, <1>4
<1> QED BY <1>4, <1>6, <1>9, <1>10, <1>11, <1>12, <1>13 DEF Given, IsBlock

LEMMA TakePagesFacts ==
    ASSUME Sorted(pool), Within(pool, taken), taken \subseteq HeapPages,
           NEW total \in 0 .. SizeMod - 1, BYTES_TO_PAGES(total) # 0, Runs(BYTES_TO_PAGES(total)) # {}
    PROVE  Given(TakePages(total), total)
<1>1. PICK n \in Nat \ {0} : /\ n = BYTES_TO_PAGES(total) /\ n * PageWords >= total
                             /\ n * PageWords - total < PageWords /\ total \in Nat \ {0}
  BY PagesFacts, HeapAssumption
<1>2. Runs(n) \subseteq Nat /\ Runs(n) # {}
  BY <1>1, HeapAssumption DEF Runs
<1>3. PICK pg \in Runs(n) : pg = Min(Runs(n))
  BY <1>2, MinFacts
<1>4. pg \in Nat /\ pg .. pg + n - 1 \subseteq HeapPages \ taken
  BY <1>2, <1>3 DEF Runs
<1>5. PICK t : t = taken \union (pg .. pg + n - 1)
  OBVIOUS
<1>6. taken \subseteq t /\ t \subseteq HeapPages
  BY <1>4, <1>5
<1>7. PICK a \in Nat : a = pg * PageWords
  BY <1>4, HeapAssumption
<1>8. PICK rest \in Nat : rest = n * PageWords - total
  BY <1>1, HeapAssumption
<1>9. a + total + rest = (pg + n) * PageWords
  BY <1>4, <1>7, <1>8, HeapAssumption
<1>10. \A w \in Nat : a <= w /\ w < a + total + rest => w \div PageWords \in pg .. pg + n - 1
  BY <1>4, <1>7, <1>9, HeapAssumption, PagesOfRun
\* what is in the pages the heap had is apart from what is in the new ones
<1>11. ASSUME NEW x, IsBlock(x), InPages(x, taken), NEW y, IsBlock(y),
              a <= y.addr, EndOf(y) <= a + total + rest
       PROVE  Apart(x, y)
  <2> SUFFICES ASSUME ~Apart(x, y) PROVE FALSE
    OBVIOUS
  <2>1. PICK w \in Nat : w \in Words(x) /\ w \in Words(y)
    <3> DEFINE w == IF x.addr < y.addr THEN y.addr ELSE x.addr
    <3>1. w \in Nat /\ w \in Words(x) /\ w \in Words(y)
      BY <1>11 DEF Apart, Words, EndOf, IsBlock
    <3> QED BY <3>1
  <2>2. w \div PageWords \in taken
    BY <1>11, <2>1 DEF InPages
  <2>3. a <= w /\ w < a + total + rest
    BY <1>11, <2>1 DEF Words, EndOf, IsBlock
  <2> QED BY <1>4, <1>10, <2>2, <2>3
<1>12. ASSUME NEW y, IsBlock(y), a <= y.addr, EndOf(y) <= a + total + rest
       PROVE  InPages(y, t)
  BY <1>5, <1>10, <1>12 DEF InPages, Words, EndOf, IsBlock
<1>13. PICK new : new = Block(a, total)
  OBVIOUS
<1>14. IsBlock(new) /\ new.addr = a /\ EndOf(new) = a + total /\ EndOf(new) <= a + total + rest
  BY <1>1, <1>7, <1>8, <1>13 DEF Block, FreeBlock, IsBlock, EndOf
<1>15. InPages(new, t)
  BY <1>12, <1>14
<1>16. \A i \in 1 .. Len(pool) : IsBlock(pool[i])
  BY PoolBlock DEF Sorted
<1>17. Beside(pool, new)
  <2> SUFFICES ASSUME NEW i \in 1 .. Len(pool) PROVE Apart(new, pool[i])
    BY DEF Beside
  <2>1. Apart(pool[i], new)
    BY <1>11, <1>14, <1>16 DEF Within
  <2> QED BY <2>1 DEF Apart
<1>18. Within(pool, t)
  BY <1>6 DEF Within, InPages
\* the pages end within the address space, so nothing wraps
<1>22. rest > 0 => (a + total) % SizeMod = a + total
  <2>1. pg + n - 1 \in HeapPages
    BY <1>1, <1>4
  <2>2. (pg + n) * PageWords <= SizeMod
    <3>1. PICK k \in Nat : k = pg + n - 1 /\ k + 1 = pg + n
      BY <1>1, <1>4
    <3>2. (k + 1) * PageWords <= SizeMod
      BY <2>1, <3>1, HeapAssumption
    <3> QED BY <3>1, <3>2
  <2>3. \A k, m \in Nat : k < m => k % m = k
    BY Z3
  <2>4. rest > 0 => a + total < SizeMod /\ a + total \in Nat
    BY <1>1, <1>9, <2>2, HeapAssumption
  <2> QED BY <2>3, <2>4, HeapAssumption
<1>23. (n * PageWords - total) % SizeMod = rest
  <2>1. \A k, m \in Nat : k < m => k % m = k
    BY Z3
  <2>2. rest < SizeMod
    BY <1>1, <1>8, HeapAssumption
  <2> QED BY <1>8, <2>1, <2>2, HeapAssumption
<1>19. TakePages(total) =
          [addr |-> a,
           pool |-> IF rest > 0 THEN Freed(pool, Block(a + total, rest)) ELSE pool, taken |-> t]
  <2>1. TakePages(total) =
          [addr |-> a,
           pool |-> IF rest > 0 THEN Freed(pool, Block((a + total) % SizeMod, rest)) ELSE pool, taken |-> t]
    BY <1>1, <1>3, <1>5, <1>7, <1>23 DEF TakePages
  <2> QED BY <1>22, <2>1
<1>20. CASE rest = 0
  <2>1. TakePages(total).addr = a /\ TakePages(total).pool = pool /\ TakePages(total).taken = t
    BY <1>19, <1>20
  <2>2. \A x : IsBlock(x) /\ Beside(pool, x) /\ InPages(x, taken) => Apart(x, new)
    BY <1>11, <1>14
  <2> QED BY <1>6, <1>13, <1>15, <1>17, <1>18, <2>1, <2>2 DEF Given
<1>21. CASE rest # 0
  <2>1. PICK r : r = Block(a + total, rest)
    OBVIOUS
  <2>2. PICK q : q = Freed(pool, r)
    OBVIOUS
  <2>3. TakePages(total).addr = a /\ TakePages(total).pool = q /\ TakePages(total).taken = t
    BY <1>19, <1>21, <2>1, <2>2
  <2>4. IsBlock(r) /\ r.addr = a + total /\ EndOf(r) = a + total + rest
    <3>1. a + total \in Nat /\ rest \in Nat \ {0}
      BY <1>21
    <3> QED BY <2>1, <3>1 DEF Block, FreeBlock, IsBlock, EndOf
  <2>5. a <= r.addr /\ EndOf(r) <= a + total + rest
    BY <2>4
  <2>6. InPages(r, t)
    BY <1>12, <2>4, <2>5
  <2>7. Beside(pool, r)
    <3> SUFFICES ASSUME NEW i \in 1 .. Len(pool) PROVE Apart(r, pool[i])
      BY DEF Beside
    <3>1. Apart(pool[i], r)
      BY <1>11, <1>16, <2>4, <2>5 DEF Within
    <3> QED BY <3>1 DEF Apart
  <2>8. /\ Sorted(q)
        /\ \A x : IsBlock(x) /\ Beside(pool, x) /\ Apart(x, r) => Beside(q, x)
        /\ Within(q, t)
    BY <1>18, <2>2, <2>4, <2>6, <2>7, FreedFacts
  <2>9. Beside(q, new)
    <3>1. Apart(new, r)
      BY <1>14, <2>4 DEF Apart
    <3> QED BY <1>14, <1>17, <2>8, <3>1
  <2>10. \A x : IsBlock(x) /\ Beside(pool, x) /\ InPages(x, taken) => Apart(x, new) /\ Beside(q, x)
    BY <1>11, <1>14, <2>4, <2>5, <2>8
  <2> QED BY <1>6, <1>13, <1>15, <2>3, <2>8, <2>9, <2>10 DEF Given
<1> QED BY <1>20, <1>21

LEMMA GotFacts ==
    ASSUME BlocksInv, taken \subseteq HeapPages, NEW total \in 0 .. SizeMod - 1,
           BYTES_TO_PAGES(total) # 0, ~NoMemory(total)
    PROVE  Given(Got(total), total)
<1> USE DEF BlocksInv
<1>3. total \in Nat \ {0}
  BY PagesFacts, HeapAssumption
<1>1. CASE Fits(total) = {}
  BY <1>1, TakePagesFacts DEF Got, NoMemory
<1>2. CASE Fits(total) # {}
  <2>1. pool \in Seq(FreeBlock) /\ Fits(total) \subseteq 1 .. Len(pool) /\ Fits(total) \subseteq Nat
    BY DEF Sorted, Fits
  <2>2. PICK i \in Fits(total) : i = Min(Fits(total))
    BY <1>2, <2>1, MinFacts
  <2>3. i \in 1 .. Len(pool) /\ pool[i].size >= total /\ IsBlock(pool[i])
    BY <2>1, PoolBlock DEF Fits
  <2>4. MinBlock \in Nat \ {0}
    BY HeapAssumption DEF MinBlock
  <2>5. CASE pool[i].size < total + MinBlock
    <3>1. Got(total) = TakeWhole(i)
      BY <1>2, <2>2, <2>5 DEF Got
    <3> QED BY <1>3, <2>3, <3>1, TakeWholeFacts
  <2>6. CASE ~(pool[i].size < total + MinBlock)
    <3>1. Got(total) = TakeUpper(i, total)
      BY <1>2, <2>2, <2>6 DEF Got
    <3>2. pool[i].size > total
      BY <1>3, <2>3, <2>4, <2>6 DEF IsBlock
    <3> QED BY <1>3, <2>3, <3>1, <3>2, TakeUpperFacts
  <2> QED BY <2>5, <2>6
<1> QED BY <1>1, <1>2

-----------------------------------------------------------------------------
(***************************************************************************)
(* The invariant and the steps.                                            *)
(***************************************************************************)
IInv == BlocksInv /\ RestInv

\* A block held by a client is where the block malloc found is.
LEMMA HeldFacts ==
    ASSUME NEW a \in Nat, NEW n \in Nat \ {0}, NEW r \in Nat,
           NEW b, b = Block(a, n), NEW h, h = Live(a, n, r)
    PROVE  /\ h \in HeldBlock /\ IsBlock(h)
           /\ \A x : Apart(x, b) => Apart(x, h) /\ Apart(h, x)
           /\ \A p : Beside(p, b) => Beside(p, h)
           /\ \A t : InPages(b, t) => InPages(h, t)
<1>1. h \in HeldBlock /\ IsBlock(h) /\ h.addr = b.addr /\ h.size = b.size
  BY DEF Live, Block, HeldBlock, IsBlock
<1>2. EndOf(h) = EndOf(b) /\ Words(h) = Words(b)
  BY <1>1 DEF EndOf, Words
<1> QED BY <1>1, <1>2 DEF Apart, Beside, InPages

LEMMA HeldIsBlock == ASSUME NEW b \in HeldBlock PROVE IsBlock(b)
  BY DEF HeldBlock, IsBlock

LEMMA WithinMore == ASSUME NEW t, NEW u, t \subseteq u, NEW x, InPages(x, t) PROVE InPages(x, u)
  BY DEF InPages

LEMMA StillBadFacts ==
    ASSUME bad' = StillBad(pool', live')
    PROVE  bad' \subseteq {b.addr : b \in Blocks' \union live'}
<1> DEFINE all == {b.addr : b \in Blocks' \union live'}
           bs == {pool'[i] : i \in DOMAIN pool'} \union {Block(b.addr, b.size) : b \in live'}
<1>1. \A b \in bs : b.addr \in all
  BY DEF Blocks, Block
<1>2. Clashing(bs) \subseteq {b.addr : b \in bs}
  BY DEF Clashing
<1>3. bad' = (bad \intersect {b.addr : b \in bs}) \union Clashing(bs)
  BY DEF StillBad
<1> HIDE DEF all, bs
<1>4. bad' \subseteq all
  BY <1>1, <1>2, <1>3
<1> QED BY <1>4 DEF all

\* What a client gets goes beside everything held and free.
LEMMA MallocBlocks ==
    ASSUME BlocksInv, NEW total \in Nat \ {0}, NEW r \in Nat,
           NEW g, Given(g, total), NEW h, h = Live(g.addr, total, r)
    PROVE  /\ h \in HeldBlock /\ IsBlock(h) /\ Beside(g.pool, h) /\ InPages(h, g.taken)
           /\ \A b \in live : /\ b \in HeldBlock /\ IsBlock(b) /\ Beside(g.pool, b)
                              /\ InPages(b, g.taken) /\ Apart(b, h) /\ Apart(h, b)
<1>1. PICK new : new = Block(g.addr, total)
  OBVIOUS
<1>2. /\ g.addr \in Nat /\ taken \subseteq g.taken
      /\ InPages(new, g.taken) /\ Beside(g.pool, new)
      /\ \A x : IsBlock(x) /\ Beside(pool, x) /\ InPages(x, taken)
                  => Apart(x, new) /\ Beside(g.pool, x)
  BY <1>1 DEF Given
<1>3. /\ h \in HeldBlock /\ IsBlock(h)
      /\ \A x : Apart(x, new) => Apart(x, h) /\ Apart(h, x)
      /\ Beside(g.pool, h) /\ InPages(h, g.taken)
  BY <1>1, <1>2, HeldFacts
<1>4. ASSUME NEW b \in live
      PROVE  /\ b \in HeldBlock /\ IsBlock(b) /\ Beside(g.pool, b)
             /\ InPages(b, g.taken) /\ Apart(b, h) /\ Apart(h, b)
  <2>1. b \in HeldBlock /\ Beside(pool, b) /\ InPages(b, taken)
    BY DEF BlocksInv
  <2>2. IsBlock(b) /\ InPages(b, g.taken)
    BY <1>2, <2>1, HeldIsBlock, WithinMore
  <2>3. Apart(b, new) /\ Beside(g.pool, b)
    BY <1>2, <2>1, <2>2
  <2> QED BY <1>3, <2>1, <2>2, <2>3
<1> QED BY <1>3, <1>4

LEMMA MallocStep ==
    ASSUME IInv, NEW sz \in Nat, BYTES_TO_PAGES(TotalSize(sz)) # 0, malloc(sz)
    PROVE  IInv'
<1> USE DEF IInv
<1>1. PICK total \in Nat \ {0} : /\ total = TotalSize(sz) /\ total \in 0 .. SizeMod - 1
                                 /\ BYTES_TO_PAGES(total) # 0
  <2>1. TotalSize(sz) \in 0 .. SizeMod - 1
    BY TotalNat
  <2> QED BY <2>1, PagesFacts, HeapAssumption
<1>0. PagesFound(total) = stopped
  BY <1>1 DEF PagesFound
<1>2. bad' \subseteq {b.addr : b \in Blocks' \union live'}
  BY StillBadFacts DEF malloc
<1>3. CASE ~NoMemory(total) /\ pool' = Got(total).pool /\ taken' = Got(total).taken
           /\ live' = live \union {Live(Got(total).addr, total, sz)}
  <2>1. PICK g : g = Got(total) /\ Given(g, total)
    BY <1>1, <1>3, GotFacts DEF RestInv
  <2>2. PICK h : h = Live(g.addr, total, sz)
    OBVIOUS
  <2>3. pool' = g.pool /\ taken' = g.taken /\ live' = live \union {h}
    BY <1>3, <2>1, <2>2
  <2>4. /\ h \in HeldBlock /\ IsBlock(h) /\ Beside(g.pool, h) /\ InPages(h, g.taken)
        /\ \A b \in live : /\ b \in HeldBlock /\ IsBlock(b) /\ Beside(g.pool, b)
                           /\ InPages(b, g.taken) /\ Apart(b, h) /\ Apart(h, b)
    BY <2>1, <2>2, MallocBlocks
  <2>5. Sorted(g.pool) /\ Within(g.pool, g.taken) /\ g.taken \subseteq HeapPages
    BY <2>1 DEF Given
  <2>6. BlocksInv'
    <3>1. Sorted(pool') /\ Within(pool', taken') /\ live' \subseteq HeldBlock
      BY <2>3, <2>4, <2>5
    <3>2. \A b \in live' : Beside(pool', b) /\ InPages(b, taken')
      BY <2>3, <2>4
    <3>3. \A b, c \in live' : b # c => Apart(b, c)
      BY <2>3, <2>4 DEF BlocksInv
    <3> QED BY <3>1, <3>2, <3>3 DEF BlocksInv, Sorted, Within, Beside, InPages, Words
  <2> QED BY <1>0, <1>1, <1>2, <2>3, <2>5, <2>6 DEF RestInv, malloc
<1>4. CASE UNCHANGED <<pool, live, taken>>
  BY <1>0, <1>1, <1>2, <1>4 DEF malloc, BlocksInv, RestInv, Sorted, Within, Beside, InPages, Words
<1> QED BY <1>1, <1>3, <1>4 DEF malloc

LEMMA FreeStep ==
    ASSUME IInv, NEW b \in live, free(b)
    PROVE  IInv'
<1> USE DEF IInv
<1>1. bad' \subseteq {c.addr : c \in Blocks' \union live'}
  BY StillBadFacts DEF free
<1>2. IsBlock(b) /\ Beside(pool, b) /\ InPages(b, taken) /\ Sorted(pool) /\ Within(pool, taken)
  BY HeldIsBlock DEF BlocksInv
<1>3. PICK q : q = Freed(pool, b)
  OBVIOUS
<1>4. /\ Sorted(q) /\ Within(q, taken)
      /\ \A x : IsBlock(x) /\ Beside(pool, x) /\ Apart(x, b) => Beside(q, x)
  BY <1>2, <1>3, FreedFacts
<1>5. pool' = q /\ live' = live \ {b} /\ taken' = taken /\ stopped' = stopped
  BY <1>3 DEF free
<1>6. \A c \in live' : c \in HeldBlock /\ Beside(q, c) /\ InPages(c, taken)
  <2> SUFFICES ASSUME NEW c \in live, c # b PROVE c \in HeldBlock /\ Beside(q, c) /\ InPages(c, taken)
    BY <1>5
  <2>1. c \in HeldBlock /\ Beside(pool, c) /\ InPages(c, taken) /\ Apart(c, b)
    BY DEF BlocksInv
  <2> QED BY <1>4, <2>1, HeldIsBlock
<1>7. \A c, d \in live' : c # d => Apart(c, d)
  BY <1>5 DEF BlocksInv
<1>8. BlocksInv'
  BY <1>4, <1>5, <1>6, <1>7 DEF BlocksInv, Sorted, Within, Beside, InPages, Words
<1> QED BY <1>1, <1>5, <1>8 DEF RestInv

LEMMA ReallocSameStep ==
    ASSUME IInv, NEW b \in live, NEW size \in Nat, realloc_same(b, size)
    PROVE  IInv'
<1> USE DEF IInv
<1>1. PICK h : h = Live(b.addr, b.size, size)
  OBVIOUS
<1>2. /\ live' = (live \ {b}) \union {h}
      /\ pool' = pool /\ taken' = taken /\ bad' = bad /\ stopped' = stopped
  BY <1>1 DEF realloc_same
<1>3. b \in HeldBlock /\ IsBlock(b)
  BY HeldIsBlock DEF BlocksInv
<1>4. h \in HeldBlock /\ h.addr = b.addr /\ h.size = b.size
  BY <1>1, <1>3 DEF Live, HeldBlock
<1>5. EndOf(h) = EndOf(b) /\ Words(h) = Words(b)
  BY <1>4 DEF EndOf, Words
<1>6. live' \subseteq HeldBlock
  BY <1>2, <1>4 DEF BlocksInv
<1>7. \A c \in live' : Beside(pool, c) /\ InPages(c, taken)
  <2>1. Beside(pool, b) /\ InPages(b, taken)
    BY DEF BlocksInv
  <2>2. Beside(pool, h) /\ InPages(h, taken)
    BY <1>4, <1>5, <2>1 DEF Beside, Apart, InPages
  <2> QED BY <1>2, <2>2 DEF BlocksInv
<1>8. \A c, d \in live' : c # d => Apart(c, d)
  <2> SUFFICES ASSUME NEW c \in live' , NEW d \in live', c # d PROVE Apart(c, d)
    OBVIOUS
  <2>1. \A x : Apart(x, b) => Apart(x, h) /\ Apart(h, x)
    BY <1>4, <1>5 DEF Apart
  <2>2. \A x \in live : x # b => Apart(x, b)
    BY DEF BlocksInv
  <2> QED BY <1>2, <2>1, <2>2 DEF BlocksInv
<1>9. BlocksInv'
  BY <1>2, <1>6, <1>7, <1>8 DEF BlocksInv, Sorted, Within, Beside, InPages, Words
<1>10. bad' \subseteq {c.addr : c \in Blocks' \union live'}
  <2> SUFFICES ASSUME NEW a \in bad PROVE \E c \in Blocks' \union live' : a = c.addr
    BY <1>2
  <2>1. PICK c \in Blocks \union live : a = c.addr
    BY DEF RestInv
  <2>2. CASE c \in Blocks
    BY <1>2, <2>1, <2>2 DEF Blocks
  <2>3. CASE c = b
    BY <1>2, <1>4, <2>1, <2>3
  <2>4. CASE c \in live /\ c # b
    BY <1>2, <2>1, <2>4
  <2> QED BY <2>1, <2>2, <2>3, <2>4
<1> QED BY <1>2, <1>9, <1>10 DEF RestInv

LEMMA ReallocMoveStep ==
    ASSUME IInv, NEW b \in live, NEW size \in Nat, BYTES_TO_PAGES(TotalSize(size)) # 0, realloc_move(b, size)
    PROVE  IInv'
<1> USE DEF IInv
<1>1. PICK total \in Nat \ {0} : /\ total = TotalSize(size) /\ total \in 0 .. SizeMod - 1
                                 /\ BYTES_TO_PAGES(total) # 0
  <2>1. TotalSize(size) \in 0 .. SizeMod - 1
    BY TotalNat
  <2> QED BY <2>1, PagesFacts, HeapAssumption
<1>0. PagesFound(total) = stopped
  BY <1>1 DEF PagesFound
<1>2. bad' \subseteq {c.addr : c \in Blocks' \union live'}
  BY StillBadFacts DEF realloc_move
<1>3. CASE ~NoMemory(total) /\ pool' = Freed(Got(total).pool, b) /\ taken' = Got(total).taken
           /\ live' = (live \ {b}) \union {Live(Got(total).addr, total, size)}
  <2>1. PICK g : g = Got(total) /\ Given(g, total)
    BY <1>1, <1>3, GotFacts DEF RestInv
  <2>2. PICK h, q : h = Live(g.addr, total, size) /\ q = Freed(g.pool, b)
    OBVIOUS
  <2>3. pool' = q /\ taken' = g.taken /\ live' = (live \ {b}) \union {h}
    BY <1>3, <2>1, <2>2
  <2>4. /\ h \in HeldBlock /\ IsBlock(h) /\ Beside(g.pool, h) /\ InPages(h, g.taken)
        /\ \A c \in live : /\ c \in HeldBlock /\ IsBlock(c) /\ Beside(g.pool, c)
                           /\ InPages(c, g.taken) /\ Apart(c, h) /\ Apart(h, c)
    BY <2>1, <2>2, MallocBlocks
  <2>5. Sorted(g.pool) /\ Within(g.pool, g.taken) /\ g.taken \subseteq HeapPages
    BY <2>1 DEF Given
  <2>6. /\ Sorted(q) /\ Within(q, g.taken)
        /\ \A x : IsBlock(x) /\ Beside(g.pool, x) /\ Apart(x, b) => Beside(q, x)
    BY <2>2, <2>4, <2>5, FreedFacts
  <2>7. BlocksInv'
    <3>1. Sorted(pool') /\ Within(pool', taken') /\ live' \subseteq HeldBlock
      BY <2>3, <2>4, <2>6
    <3>2. \A c \in live : c # b => Beside(q, c)
      BY <2>4, <2>6 DEF BlocksInv
    <3>3. \A c \in live' : Beside(pool', c) /\ InPages(c, taken')
      BY <2>3, <2>4, <2>6, <3>2
    <3>4. \A c, d \in live' : c # d => Apart(c, d)
      BY <2>3, <2>4 DEF BlocksInv
    <3> QED BY <3>1, <3>3, <3>4 DEF BlocksInv, Sorted, Within, Beside, InPages, Words
  <2> QED BY <1>0, <1>1, <1>2, <2>3, <2>5, <2>7 DEF RestInv, realloc_move
<1>4. CASE UNCHANGED <<pool, live, taken>>
  BY <1>0, <1>1, <1>2, <1>4 DEF realloc_move, BlocksInv, RestInv, Sorted, Within, Beside, InPages, Words
<1> QED BY <1>1, <1>3, <1>4 DEF realloc_move

\* A step that moves no block.
LEMMA SameBlocks ==
    ASSUME IInv, UNCHANGED <<pool, live, taken>>, bad' \subseteq {b.addr : b \in Blocks \union live},
           stopped' \in {"no", "no pages", "clobbered pool", "corrupted magic"}
    PROVE  IInv'
  BY ZenonT(60) DEF IInv, BlocksInv, RestInv, Blocks, Sorted, Within, Beside, InPages, Words

LEMMA Step == ASSUME NonEmpty PROVE IInv /\ [Next]_vars => IInv'
<1> SUFFICES ASSUME IInv, [Next]_vars PROVE IInv'
  OBVIOUS
<1>1. ASSUME NEW sz \in Sizes, malloc(sz) PROVE IInv'
  BY <1>1, HeapAssumption, MallocStep DEF NonEmpty
<1>2. ASSUME NEW num \in Counts, NEW size \in Sizes, calloc(num, size) PROVE IInv'
  <2>1. (num * size) % SizeMod \in Nat
    BY HeapAssumption
  <2> QED BY <1>2, <2>1, MallocStep DEF NonEmpty, calloc
<1>3. ASSUME NEW b \in live, free(b) PROVE IInv'
  BY <1>3, FreeStep
<1>4. ASSUME NEW b \in live, free_panic(b) PROVE IInv'
  BY <1>4, SameBlocks DEF free_panic, IInv, RestInv
<1>5. ASSUME NEW b \in live, client_fills(b) PROVE IInv'
  <2>1. bad' \subseteq {x.addr : x \in Blocks \union live}
    BY <1>5 DEF client_fills, IInv, RestInv
  <2> QED BY <1>5, <2>1, SameBlocks DEF client_fills, IInv, RestInv
<1>6. ASSUME NEW b \in live, NEW size \in NewSizes, realloc_same(b, size) PROVE IInv'
  BY <1>6, HeapAssumption, ReallocSameStep
<1>7. ASSUME NEW b \in live, NEW size \in NewSizes, realloc_move(b, size) PROVE IInv'
  BY <1>7, HeapAssumption, ReallocMoveStep DEF NonEmpty
<1>8. CASE walk_fails
  BY <1>8, SameBlocks DEF walk_fails, IInv, RestInv
<1>9. CASE UNCHANGED vars
  BY <1>9, SameBlocks DEF vars, IInv, RestInv
<1> QED BY <1>1, <1>2, <1>3, <1>4, <1>5, <1>6, <1>7, <1>8, <1>9 DEF Next, halted

LEMMA ImpliesHeapInv == IInv => HeapInv
<1> SUFFICES ASSUME IInv PROVE HeapInv
  OBVIOUS
<1> USE DEF IInv, BlocksInv
<1>1. pool \in Seq(FreeBlock) /\ \A i \in 1 .. Len(pool) : IsBlock(pool[i])
  BY PoolBlock DEF Sorted
<1>2. \A b \in live : IsBlock(b)
  BY HeldIsBlock
<1>3. ASSUME NEW b, NEW c, IsBlock(b), IsBlock(c), Apart(b, c)
      PROVE  Words(b) \intersect Words(c) = {}
  BY <1>3 DEF IsBlock, Apart, Words, EndOf
<1>4. TypeOK
  <2>1. live \subseteq [addr : Nat, size : Nat, req : Nat]
    BY DEF HeldBlock
  <2> QED BY <1>1, <2>1 DEF TypeOK, RestInv, FreeBlock
<1>5. \A i, j \in 1 .. Len(pool) : i # j => Apart(pool[i], pool[j])
  BY <1>1 DEF Sorted, Apart
<1>6. NoOverlap
  <2>1. \A b \in live, c \in live \union Blocks : b # c => Words(b) \intersect Words(c) = {}
    BY <1>1, <1>2, <1>3 DEF Blocks, Beside
  <2>2. \A i, j \in DOMAIN pool : i # j => Words(pool[i]) \intersect Words(pool[j]) = {}
    BY <1>1, <1>3, <1>5
  <2>3. \A b \in live \union Blocks : \A a \in Words(b) : a \div PageWords \in taken
    BY <1>1 DEF Blocks, Within, InPages
  <2> QED BY <2>1, <2>2, <2>3 DEF NoOverlap
<1>7. PoolSorted
  BY <1>1 DEF Sorted, PoolSorted
<1> QED BY <1>4, <1>6, <1>7 DEF HeapInv

\* malloc, calloc, realloc and free never hand out a word twice, keep every block inside
\* pages of the heap, and keep the free list in address order with no empty block on it,
\* for every sequence of calls; also after clients have written past the end of their
\* blocks, as long as the descriptors in the list are intact.
THEOREM HeapIsSound == ASSUME NonEmpty PROVE Spec => []HeapInv
<1>1. Init => IInv
  BY DEF Init, IInv, BlocksInv, RestInv, Blocks, Sorted, Within
<1>2. IInv /\ [Next]_vars => IInv'
  BY Step
<1> QED BY <1>1, <1>2, ImpliesHeapInv, PTL DEF Spec
=============================================================================
