---------------------------- MODULE SerialProofs ----------------------------
(***************************************************************************)
(* Proofs about the serial driver, for every size of the ring, of the line *)
(* buffer and of the UART's fifo, every program and every input.           *)
(***************************************************************************)
EXTENDS Serial, FiniteSetTheorems, SequenceTheorems, TLAPS, WellFoundedInduction

Index == 0 .. BUFSZ - 1
PortType == [open : BOOLEAN, blocking : BOOLEAN, inbuf : [Index -> Nat], ridx : Index, widx : Index]
IsUart(u) == u \in [fifo : Seq(Nat), ier : BOOLEAN, dlab : BOOLEAN, thr : {u.thr}]
IsUarts(us) == us = [i \in Ports |-> us[i]] /\ \A i \in Ports : IsUart(us[i])

\* the main program is inside ser_open of port i
OpenPlaces == {"zero", "ridx", "widx", "dlab", "fmt", "fifo"}
Opening(i) == pc \in OpenPlaces /\ fd = i
\* behind the memset, where the ring is what it will be when the port is open
Ready(i) == pc \in {"dlab", "fmt", "fifo"} /\ fd = i

-----------------------------------------------------------------------------
(***************************************************************************)
(* Induction: what holds for no least number holds for none.               *)
(***************************************************************************)
LEMMA LeastExists ==
    ASSUME NEW S, S \subseteq Nat, S # {}
    PROVE  \E x \in S : \A y \in S : x <= y
<1> DEFINE R == OpToRel(<, Nat)
<1>1. IsWellFoundedOn(R, Nat)
  BY NatLessThanWellFounded
<1>2. \A x, y \in Nat : x < y => <<x, y>> \in R
  BY DEF OpToRel
<1> HIDE DEF R
<1>3. PICK x \in S : \A y \in S : ~(<<y, x>> \in R)
  BY <1>1, WFMin
<1>4. ASSUME NEW y \in S PROVE x <= y
  <2>1. x \in Nat /\ y \in Nat
    OBVIOUS
  <2>2. ~(y < x)
    BY <1>2, <1>3, <2>1, Zenon
  <2> QED BY <2>1, <2>2
<1> QED BY <1>4

LEMMA UpTo ==
    ASSUME NEW n \in Nat, NEW S, 0 \in S, \A k \in 1 .. n : k - 1 \in S => k \in S
    PROVE  \A k \in 0 .. n : k \in S
<1> DEFINE T == {k \in 0 .. n : k \notin S}
<1>1. SUFFICES ASSUME T # {} PROVE FALSE
  OBVIOUS
<1>2. T \subseteq Nat
  OBVIOUS
<1>3. PICK x \in T : \A y \in T : x <= y
  <2> HIDE DEF T
  <2> QED BY <1>1, <1>2, LeastExists
<1>4. x \in 1 .. n /\ x \notin S
  BY <1>3
<1>5. x - 1 \notin T /\ x - 1 \in 0 .. n
  BY <1>3, <1>4
<1> QED BY <1>4, <1>5

-----------------------------------------------------------------------------
(***************************************************************************)
(* Places of the ring, without division.                                   *)
(***************************************************************************)
Nx(x) == IF x = BUFSZ - 1 THEN 0 ELSE x + 1
Dist(r, w) == IF w >= r THEN w - r ELSE w - r + BUFSZ
\* the k-th place before w
Before(w, k) == IF w >= k THEN w - k ELSE w - k + BUFSZ
Used(p) == Dist(p.ridx, p.widx)

LEMMA Sizes == BUFSZ \in Nat \ {0, 1} /\ LINESZ \in Nat \ {0, 1}
  BY SerialAssumption

LEMMA ModFacts ==
    ASSUME NEW b \in Nat \ {0}
    PROVE  /\ \A x \in 0 .. b - 1 : x % b = x
           /\ \A x \in b .. 2 * b - 1 : x % b = x - b
           /\ \A x \in -b .. -1 : x % b = x + b
  OBVIOUS

LEMMA NextFacts ==
    ASSUME NEW x \in Index
    PROVE  BNEXT(x) = Nx(x) /\ Nx(x) \in Index /\ Nx(x) # x
<1>1. CASE x = BUFSZ - 1
  <2>1. BUFSZ % BUFSZ = 0 /\ x + 1 = BUFSZ
    BY <1>1, Sizes, ModFacts
  <2> QED BY <1>1, <2>1, Sizes DEF BNEXT, Nx, Index
<1>2. CASE x # BUFSZ - 1
  <2>1. x + 1 \in 0 .. BUFSZ - 1
    BY <1>2, Sizes DEF Index
  <2>2. (x + 1) % BUFSZ = x + 1
    BY <2>1, Sizes, ModFacts
  <2> QED BY <1>2, <2>1, <2>2 DEF BNEXT, Nx, Index
<1> QED BY <1>1, <1>2

LEMMA DistFacts ==
    ASSUME NEW r \in Index, NEW w \in Index
    PROVE  /\ Dist(r, w) \in 0 .. BUFSZ - 1 /\ (w - r) % BUFSZ = Dist(r, w)
           /\ Dist(r, w) = 0 <=> r = w
           /\ Dist(r, w) = BUFSZ - 1 <=> Nx(w) = r
           /\ Dist(r, w) < BUFSZ - 1 => Dist(r, Nx(w)) = Dist(r, w) + 1
           /\ Dist(r, w) = BUFSZ - 1 => Dist(Nx(r), Nx(w)) = BUFSZ - 1
           /\ Dist(r, w) > 0 => Dist(Nx(r), w) = Dist(r, w) - 1
           /\ Before(w, Dist(r, w)) = r
<1>1. /\ Dist(r, w) \in 0 .. BUFSZ - 1
      /\ Dist(r, w) = 0 <=> r = w
      /\ Dist(r, w) = BUFSZ - 1 <=> Nx(w) = r
      /\ Dist(r, w) < BUFSZ - 1 => Dist(r, Nx(w)) = Dist(r, w) + 1
      /\ Dist(r, w) = BUFSZ - 1 => Dist(Nx(r), Nx(w)) = BUFSZ - 1
      /\ Dist(r, w) > 0 => Dist(Nx(r), w) = Dist(r, w) - 1
      /\ Before(w, Dist(r, w)) = r
  BY Sizes DEF Dist, Nx, Before, Index
<1>2. (w - r) % BUFSZ = Dist(r, w)
  <2>1. CASE w >= r
    <3>1. w - r \in 0 .. BUFSZ - 1
      BY <2>1, Sizes DEF Index
    <3> QED BY <2>1, <3>1, Sizes, ModFacts DEF Dist
  <2>2. CASE ~(w >= r)
    <3>1. w - r \in -BUFSZ .. -1
      BY <2>2, Sizes DEF Index
    <3> QED BY <2>2, <3>1, Sizes, ModFacts DEF Dist
  <2> QED BY <2>1, <2>2
<1> QED BY <1>1, <1>2

LEMMA BeforeFacts ==
    ASSUME NEW w \in Index
    PROVE  /\ \A k \in 1 .. BUFSZ : Before(w, k) \in Index
           /\ \A k \in 2 .. BUFSZ : Before(Nx(w), k) = Before(w, k - 1)
           /\ \A k \in 1 .. BUFSZ - 1 : Before(w, k) # w
           /\ Before(Nx(w), 1) = w
  BY Sizes DEF Before, Nx, Index

-----------------------------------------------------------------------------
(***************************************************************************)
(* The inner loop of recv_intr.                                            *)
(***************************************************************************)
IsStored(q, p, c) ==
    /\ q \in PortType /\ q.open = p.open /\ q.blocking = p.blocking
    /\ q.widx = Nx(p.widx) /\ q.inbuf = [p.inbuf EXCEPT ![p.widx] = c]
    /\ q.ridx = IF Used(p) = BUFSZ - 1 THEN Nx(p.ridx) ELSE p.ridx
    /\ Used(q) = IF Used(p) = BUFSZ - 1 THEN BUFSZ - 1 ELSE Used(p) + 1
    /\ Used(p) \in 0 .. BUFSZ - 1

LEMMA StoreFacts ==
    ASSUME NEW p \in PortType, NEW c \in Nat, NEW q, q = Store(p, c)
    PROVE  IsStored(q, p, c)
<1>1. /\ p.open \in BOOLEAN /\ p.blocking \in BOOLEAN /\ p.inbuf \in [Index -> Nat]
      /\ p.ridx \in Index /\ p.widx \in Index
  BY DEF PortType
<1>2. PICK w \in Index, r \in Index : w = p.widx /\ r = p.ridx
  BY <1>1
<1>3. /\ BNEXT(w) = Nx(w) /\ Nx(w) \in Index /\ BNEXT(r) = Nx(r) /\ Nx(r) \in Index
  BY NextFacts
<1>4. PICK r2 \in Index : r2 = IF Nx(w) = r THEN Nx(r) ELSE r
  BY <1>3
<1>5. PICK b \in [Index -> Nat] : b = [p.inbuf EXCEPT ![w] = c]
  BY <1>1
<1>6. q = [p EXCEPT !.inbuf = b, !.widx = Nx(w), !.ridx = r2]
  BY <1>2, <1>3, <1>4, <1>5 DEF Store
<1>7. /\ q.open = p.open /\ q.blocking = p.blocking /\ q.inbuf = b /\ q.widx = Nx(w)
      /\ q.ridx = r2 /\ q \in PortType
  BY <1>1, <1>3, <1>6 DEF PortType
<1>8. /\ Used(p) = Dist(r, w) /\ Used(q) = Dist(r2, Nx(w))
  BY <1>2, <1>7 DEF Used
<1>9. /\ Dist(r, w) \in 0 .. BUFSZ - 1 /\ (Dist(r, w) = BUFSZ - 1 <=> Nx(w) = r)
      /\ Dist(r, w) < BUFSZ - 1 => Dist(r, Nx(w)) = Dist(r, w) + 1
      /\ Dist(r, w) = BUFSZ - 1 => Dist(Nx(r), Nx(w)) = BUFSZ - 1
  BY DistFacts
<1>10. Dist(r2, Nx(w)) = IF Dist(r, w) = BUFSZ - 1 THEN BUFSZ - 1 ELSE Dist(r, w) + 1
  <2>1. CASE Dist(r, w) = BUFSZ - 1
    BY <1>4, <1>9, <2>1
  <2>2. CASE Dist(r, w) # BUFSZ - 1
    BY <1>4, <1>9, <2>2, Sizes
  <2> QED BY <2>1, <2>2
<1> QED BY <1>2, <1>4, <1>5, <1>7, <1>8, <1>9, <1>10 DEF IsStored

\* The last m places written hold characters that came after the first s.
Above(p, m, s) == \A k \in 1 .. m : p.inbuf[Before(p.widx, k)] > s
\* Of end characters the first l have been taken: the ring holds the latest of the others.
Exact(p, end, l) ==
    /\ l <= end /\ Used(p) = IF end - l < BUFSZ - 1 THEN end - l ELSE BUFSZ - 1
    /\ \A k \in 1 .. Used(p) : p.inbuf[Before(p.widx, k)] = end - k + 1

Upto(x, max) == IF x < max THEN x ELSE max

LEMMA StoreAbove ==
    ASSUME NEW p \in PortType, NEW c \in Nat, NEW q, q = Store(p, c), NEW m \in 0 .. BUFSZ,
           NEW s \in Nat, c > s, Above(p, m, s)
    PROVE  Above(q, Upto(m + 1, BUFSZ), s)
<1>1. q.widx = Nx(p.widx) /\ q.inbuf = [p.inbuf EXCEPT ![p.widx] = c]
  BY StoreFacts DEF IsStored
<1>2. PICK w \in Index, b \in [Index -> Nat] : w = p.widx /\ b = p.inbuf
  BY DEF PortType
<1>3. SUFFICES ASSUME NEW k \in 1 .. Upto(m + 1, BUFSZ)
               PROVE  q.inbuf[Before(q.widx, k)] > s
  BY DEF Above
<1>4. k \in 1 .. BUFSZ /\ k <= m + 1
  BY Sizes DEF Upto
<1>5. CASE k = 1
  <2>1. Before(q.widx, k) = w
    BY <1>1, <1>2, <1>5, BeforeFacts
  <2>2. q.inbuf[w] = c
    BY <1>1, <1>2
  <2> QED BY <2>1, <2>2
<1>6. CASE k # 1
  <2>1. k \in 2 .. BUFSZ /\ k - 1 \in 1 .. m /\ k - 1 \in 1 .. BUFSZ - 1
    BY <1>4, <1>6, Sizes
  <2>2. PICK x \in Index : x = Before(w, k - 1) /\ x # w /\ Before(q.widx, k) = x
    <3>1. Before(Nx(w), k) = Before(w, k - 1) /\ Before(w, k - 1) # w
      BY <2>1, BeforeFacts
    <3>2. Before(w, k - 1) \in Index
      <4>1. k - 1 \in 1 .. BUFSZ
        BY <2>1, Sizes
      <4> QED BY <4>1, BeforeFacts
    <3> QED BY <1>1, <1>2, <3>1, <3>2
  <2>3. b[x] > s
    BY <1>2, <2>1, <2>2 DEF Above
  <2>4. q.inbuf[x] = b[x]
    BY <1>1, <1>2, <2>2
  <2> QED BY <2>2, <2>3, <2>4
<1> QED BY <1>5, <1>6

LEMMA StoreExact ==
    ASSUME NEW p \in PortType, NEW end \in Nat, NEW l \in Nat, Exact(p, end, l),
           NEW q, q = Store(p, end + 1)
    PROVE  Exact(q, end + 1, l)
<1>1. /\ q.widx = Nx(p.widx) /\ q.inbuf = [p.inbuf EXCEPT ![p.widx] = end + 1]
      /\ Used(q) = IF Used(p) = BUFSZ - 1 THEN BUFSZ - 1 ELSE Used(p) + 1
      /\ Used(p) \in 0 .. BUFSZ - 1
  <2>1. end + 1 \in Nat
    OBVIOUS
  <2> QED BY <2>1, StoreFacts DEF IsStored
<1>2. PICK w \in Index, b \in [Index -> Nat] : w = p.widx /\ b = p.inbuf
  BY DEF PortType
<1>3. PICK u \in 0 .. BUFSZ - 1, v \in 0 .. BUFSZ - 1 :
        u = Used(p) /\ v = Used(q) /\ v = IF u = BUFSZ - 1 THEN BUFSZ - 1 ELSE u + 1
  BY <1>1, Sizes
<1>4. /\ l <= end /\ u = IF end - l < BUFSZ - 1 THEN end - l ELSE BUFSZ - 1
      /\ \A k \in 1 .. u : b[Before(w, k)] = end - k + 1
  BY <1>2, <1>3 DEF Exact
<1>5. l <= end + 1 /\ v = IF (end + 1) - l < BUFSZ - 1 THEN (end + 1) - l ELSE BUFSZ - 1
  BY <1>3, <1>4, Sizes
<1>6. ASSUME NEW k \in 1 .. v PROVE q.inbuf[Before(q.widx, k)] = (end + 1) - k + 1
  <2>1. CASE k = 1
    <3>1. Before(q.widx, k) = w
      BY <1>1, <1>2, <2>1, BeforeFacts
    <3> QED BY <1>1, <1>2, <2>1, <3>1
  <2>2. CASE k # 1
    <3>1. k \in 2 .. BUFSZ /\ k - 1 \in 1 .. u /\ k - 1 \in 1 .. BUFSZ - 1 /\ k - 1 \in 1 .. BUFSZ
      BY <1>3, <2>2, Sizes
    <3>2. PICK x \in Index : x = Before(w, k - 1) /\ x # w /\ Before(q.widx, k) = x
      <4>1. Before(Nx(w), k) = Before(w, k - 1) /\ Before(w, k - 1) # w
        BY <3>1, BeforeFacts
      <4>2. Before(w, k - 1) \in Index
        BY <3>1, BeforeFacts
      <4> QED BY <1>1, <1>2, <4>1, <4>2
    <3>3. b[x] = end - (k - 1) + 1
      BY <1>4, <3>1, <3>2
    <3>4. q.inbuf[x] = b[x]
      BY <1>1, <1>2, <3>2
    <3> QED BY <3>2, <3>3, <3>4
  <2> QED BY <2>1, <2>2
<1> QED BY <1>3, <1>5, <1>6 DEF Exact

\* the recursion of Stored
IsRun(g, p, chars) ==
    /\ g \in [0 .. Len(chars) -> PortType] /\ g[0] = p
    /\ \A n \in 1 .. Len(chars) : g[n] = Store(g[n - 1], chars[n])

LEMMA RunExists ==
    ASSUME NEW p \in PortType, NEW chars \in Seq(Nat)
    PROVE  \E g : IsRun(g, p, chars)
<1> DEFINE P(n) == \E g \in [0 .. n -> PortType] :
                      g[0] = p /\ \A k \in 1 .. n : g[k] = Store(g[k - 1], chars[k])
           S == {n \in 0 .. Len(chars) : P(n)}
<1>1. Len(chars) \in Nat
  OBVIOUS
<1>2. 0 \in S
  <2>1. PICK g : g = [k \in 0 .. 0 |-> p]
    OBVIOUS
  <2>2. g \in [0 .. 0 -> PortType] /\ g[0] = p
    BY <2>1
  <2>3. P(0)
    BY <2>2
  <2> QED BY <1>1, <2>3
<1>3. ASSUME NEW n \in 1 .. Len(chars), n - 1 \in S PROVE n \in S
  <2>0. P(n - 1)
    <3> HIDE DEF P
    <3> QED BY <1>3
  <2>1. PICK g \in [0 .. n - 1 -> PortType] :
          g[0] = p /\ \A k \in 1 .. n - 1 : g[k] = Store(g[k - 1], chars[k])
    BY <2>0
  <2>2. PICK q \in PortType : q = Store(g[n - 1], chars[n])
    <3>1. g[n - 1] \in PortType /\ chars[n] \in Nat
      BY <2>1
    <3> QED BY <3>1, StoreFacts DEF IsStored
  <2> DEFINE h == [k \in 0 .. n |-> IF k = n THEN q ELSE g[k]]
  <2>3. h \in [0 .. n -> PortType]
    BY <2>1
  <2>4. h[0] = p
    BY <2>1
  <2>5. ASSUME NEW k \in 1 .. n PROVE h[k] = Store(h[k - 1], chars[k])
    <3>1. h[k - 1] = g[k - 1]
      OBVIOUS
    <3>2. CASE k = n
      BY <2>2, <3>1, <3>2
    <3>3. CASE k # n
      <4>1. k \in 1 .. n - 1 /\ h[k] = g[k]
        BY <3>3
      <4>2. g[k] = Store(g[k - 1], chars[k])
        BY <2>1, <4>1
      <4> QED BY <3>1, <4>1, <4>2
    <3> QED BY <3>2, <3>3
  <2>6. P(n)
    BY <2>3, <2>4, <2>5
  <2> HIDE DEF P
  <2> QED BY <2>6
<1> HIDE DEF P, S
<1>4. P(Len(chars))
  <2>1. \A k \in 0 .. Len(chars) : k \in S
    BY <1>1, <1>2, <1>3, UpTo
  <2> QED BY <1>1, <2>1 DEF S
<1> QED BY <1>4 DEF P, IsRun

LEMMA StoredIs ==
    ASSUME NEW p \in PortType, NEW chars \in Seq(Nat)
    PROVE  \E g : IsRun(g, p, chars) /\ Stored(p, chars) = g[Len(chars)]
<1> DEFINE Rec(g) == g = [n \in 0 .. Len(chars) |-> IF n = 0 THEN p ELSE Store(g[n - 1], chars[n])]
           G == CHOOSE g : Rec(g)
<1>1. Stored(p, chars) = G[Len(chars)]
  BY DEF Stored
<1>2. PICK g : IsRun(g, p, chars)
  BY RunExists
<1>3. Rec(g)
  BY <1>2 DEF IsRun
<1>4. Rec(G)
  BY <1>3
<1> HIDE DEF G
<1>5. Len(chars) \in Nat
  OBVIOUS
<1>6. G[0] = p /\ \A n \in 1 .. Len(chars) : G[n] = Store(G[n - 1], chars[n])
  BY <1>4, <1>5, SMTT(60)
<1> DEFINE S == {n \in 0 .. Len(chars) : G[n] = g[n]}
<1>7. 0 \in S
  BY <1>2, <1>5, <1>6 DEF IsRun
<1>8. ASSUME NEW n \in 1 .. Len(chars), n - 1 \in S PROVE n \in S
  <2>1. G[n - 1] = g[n - 1] /\ n \in 0 .. Len(chars)
    BY <1>8
  <2> QED BY <1>2, <1>6, <2>1 DEF IsRun
<1>9. \A n \in 0 .. Len(chars) : n \in S
  <2> HIDE DEF S
  <2> QED BY <1>5, <1>7, <1>8, UpTo
<1>10. G[Len(chars)] = g[Len(chars)]
  BY <1>5, <1>9
<1> QED BY <1>1, <1>2, <1>10

\* All of a fifo that holds the characters after the first end ones.
IsFifo(chars, end) == end \in Nat /\ \A k \in 1 .. Len(chars) : chars[k] = end + k
IsDrained(q, p, len, end) ==
    /\ q \in PortType /\ q.open = p.open /\ q.blocking = p.blocking
    /\ Used(q) = Upto(Used(p) + len, BUFSZ - 1)
    /\ Used(p) + len < BUFSZ => q.ridx = p.ridx
    /\ \A m \in 0 .. BUFSZ, s \in 0 .. end :
         Above(p, m, s) => Above(q, Upto(m + len, BUFSZ), s)
    /\ \A l \in Nat : Exact(p, end, l) => Exact(q, end + len, l)
LEMMA DrainFacts ==
    ASSUME NEW p \in PortType, NEW chars \in Seq(Nat), NEW end \in Nat, IsFifo(chars, end),
           NEW q, q = Stored(p, chars)
    PROVE  IsDrained(q, p, Len(chars), end)
<1>1. PICK g : IsRun(g, p, chars) /\ q = g[Len(chars)]
  BY StoredIs
<1>2. PICK len \in Nat : len = Len(chars)
  OBVIOUS
<1>3. PICK u \in 0 .. BUFSZ - 1 : u = Used(p)
  BY DistFacts DEF Used, PortType
<1> DEFINE T(n) == /\ g[n].open = p.open /\ g[n].blocking = p.blocking
                   /\ Used(g[n]) = Upto(u + n, BUFSZ - 1)
                   /\ u + n < BUFSZ => g[n].ridx = p.ridx
           A(n) == \A m \in 0 .. BUFSZ, s \in 0 .. end :
                      Above(p, m, s) => Above(g[n], Upto(m + n, BUFSZ), s)
           E(n) == \A l \in Nat : Exact(p, end, l) => Exact(g[n], end + n, l)
           S == {n \in 0 .. len : T(n) /\ A(n) /\ E(n)}
<1>4. 0 \in S
  <2>1. g[0] = p
    BY <1>1 DEF IsRun
  <2>2. T(0)
    BY <1>3, <2>1, Sizes DEF Upto
  <2>3. \A m \in 0 .. BUFSZ : Upto(m + 0, BUFSZ) = m
    BY Sizes DEF Upto
  <2>4. A(0)
    BY <2>1, <2>3
  <2>5. end + 0 = end
    OBVIOUS
  <2>6. E(0)
    BY <2>1, <2>5
  <2> HIDE DEF T, A, E
  <2> QED BY <2>2, <2>4, <2>6
<1>5. ASSUME NEW n \in 1 .. len, n - 1 \in S PROVE n \in S
  <2>1. T(n - 1) /\ A(n - 1) /\ E(n - 1)
    <3> HIDE DEF T, A, E
    <3> QED BY <1>5
  <2>2. PICK a \in PortType, b \in PortType, c \in Nat :
          a = g[n - 1] /\ b = g[n] /\ b = Store(a, c) /\ c = end + n
    <3>1. n - 1 \in 0 .. Len(chars) /\ n \in 0 .. Len(chars) /\ n \in 1 .. Len(chars)
      BY <1>2
    <3>2. g[n - 1] \in PortType /\ g[n] \in PortType /\ g[n] = Store(g[n - 1], chars[n])
      BY <1>1, <3>1 DEF IsRun
    <3>3. chars[n] = end + n /\ end + n \in Nat
      BY <3>1 DEF IsFifo
    <3> QED BY <3>2, <3>3
  <2>3. /\ b.open = a.open /\ b.blocking = a.blocking
        /\ b.ridx = IF Used(a) = BUFSZ - 1 THEN Nx(a.ridx) ELSE a.ridx
        /\ Used(b) = IF Used(a) = BUFSZ - 1 THEN BUFSZ - 1 ELSE Used(a) + 1
    <3>1. IsStored(b, a, c)
      BY <2>2, StoreFacts
    <3> QED BY <3>1 DEF IsStored
  <2>4. T(n)
    <3>1. /\ a.open = p.open /\ a.blocking = p.blocking
          /\ Used(a) = Upto(u + (n - 1), BUFSZ - 1)
          /\ u + (n - 1) < BUFSZ => a.ridx = p.ridx
      BY <2>1, <2>2
    <3>2. Used(b) = Upto(u + n, BUFSZ - 1)
      BY <2>3, <3>1, Sizes DEF Upto
    <3>3. u + n < BUFSZ => b.ridx = p.ridx
      <4>1. u + n < BUFSZ => u + (n - 1) < BUFSZ /\ Upto(u + (n - 1), BUFSZ - 1) # BUFSZ - 1
        BY Sizes DEF Upto
      <4> QED BY <2>3, <3>1, <4>1
    <3> QED BY <2>2, <2>3, <3>1, <3>2, <3>3
  <2>5. A(n)
    <3> SUFFICES ASSUME NEW m \in 0 .. BUFSZ, NEW s \in 0 .. end, Above(p, m, s)
                 PROVE  Above(b, Upto(m + n, BUFSZ), s)
      BY <2>2
    <3>1. PICK k \in 0 .. BUFSZ : k = Upto(m + (n - 1), BUFSZ)
      BY Sizes DEF Upto
    <3>2. Above(a, k, s)
      BY <2>1, <2>2, <3>1
    <3>3. c > s /\ s \in Nat
      BY <2>2
    <3>4. Above(b, Upto(k + 1, BUFSZ), s)
      BY <2>2, <3>2, <3>3, StoreAbove
    <3>5. Upto(k + 1, BUFSZ) = Upto(m + n, BUFSZ)
      BY <3>1, Sizes DEF Upto
    <3> QED BY <3>4, <3>5
  <2>6. E(n)
    <3> SUFFICES ASSUME NEW l \in Nat, Exact(p, end, l) PROVE Exact(b, end + n, l)
      BY <2>2
    <3>1. PICK e \in Nat : e = end + (n - 1) /\ end + n = e + 1
      OBVIOUS
    <3>2. Exact(a, e, l)
      BY <2>1, <2>2, <3>1
    <3>3. b = Store(a, e + 1)
      BY <2>2, <3>1
    <3> QED BY <3>1, <3>2, <3>3, StoreExact
  <2> HIDE DEF T, A, E
  <2> QED BY <2>4, <2>5, <2>6
<1>6. T(len) /\ A(len) /\ E(len)
  <2> HIDE DEF T, A, E
  <2>1. \A n \in 0 .. len : n \in S
    <3> HIDE DEF S
    <3> QED BY <1>4, <1>5, UpTo
  <2> QED BY <2>1
<1>7. q = g[len] /\ q \in PortType
  BY <1>1, <1>2 DEF IsRun
<1> QED BY <1>2, <1>3, <1>6, <1>7 DEF IsDrained

-----------------------------------------------------------------------------
(***************************************************************************)
(* The inductive invariant.  Control: what the main program and the UARTs  *)
(* agree on.  LineInv: ser_getline has room for what it reads.  RingInv of *)
(* a port that is or is being opened: the ring, and what ser_getc has in   *)
(* its registers, unless an overflow has interrupted it.                   *)
(***************************************************************************)
Count(i) == IF port[i].open THEN 1 ELSE 0
Control ==
    /\ port \in [Ports -> PortType] /\ IsUarts(uart)
    /\ fd \in Ports /\ tmp \in Index /\ chr \in Nat
    /\ status \in {"running", "panic", "spin"} /\ shared \in BOOLEAN
    /\ num_open = Count(0) + Count(1)
    /\ \A i \in Ports : Opening(i) => ~port[i].open
\* nothing but ser_open of a second port leaves a UART enabled behind the driver's back
Alone ==
    ~shared => /\ num_open <= 1 /\ status # "spin"
               /\ \A i \in Ports : /\ uart[i].ier => port[i].open
                                   /\ uart[i].dlab => pc = "fmt" /\ fd = i

LineInv ==
    /\ linebuf \in Seq(Ports \X Nat) /\ Len(linebuf) <= LINESZ
    /\ (fn = "getline" /\ pc \in {"pend", "cmp", "idx", "byte", "adv", "store"}) =>
           Len(linebuf) < LINESZ

End(i) == Len(rx[i]) - Len(uart[i].fifo)
History ==
    /\ rx \in [Ports -> Seq(prog.chars)] /\ \A i \in Ports : IsFifo(uart[i].fifo, End(i))
    /\ last \in [Ports -> Nat] /\ since \in [Ports -> Nat]
    /\ ovf \in [Ports -> {"none", "clean", "raced", "torn"}]

Active(i) == port[i].open \/ Ready(i)
Ring(p, end, o, l, s) ==
    /\ s <= end /\ (o # "torn" => Above(p, IF o = "none" THEN Used(p) ELSE BUFSZ, s))
    /\ o \notin {"raced", "torn"} => Exact(p, end, l)
Getc(p, end, at, t, c) ==
    /\ at = "cmp" => t = p.ridx \/ Used(p) >= 1
    /\ at \in {"idx", "byte", "adv", "store"} => Used(p) >= 1
    /\ at \in {"byte", "store"} => t = p.ridx
    /\ at \in {"adv", "store"} => c = end - Used(p) + 1
PortInv(i) ==
    Active(i) => /\ Ring(port[i], End(i), ovf[i], last[i], since[i])
                 /\ fd = i /\ ovf[i] \notin {"raced", "torn"} => Getc(port[i], End(i), pc, tmp, chr)

IInv == Control /\ Alone /\ LineInv /\ History /\ \A i \in Ports : PortInv(i)

LEMMA PortFacts ==
    ASSUME Control, NEW i \in Ports
    PROVE  /\ port[i] \in PortType /\ port[i].open \in BOOLEAN /\ port[i].blocking \in BOOLEAN
           /\ port[i].inbuf \in [Index -> Nat] /\ port[i].ridx \in Index /\ port[i].widx \in Index
           /\ IsUart(uart[i]) /\ uart[i].fifo \in Seq(Nat) /\ Len(uart[i].fifo) \in Nat
           /\ uart[i].ier \in BOOLEAN /\ uart[i].dlab \in BOOLEAN
           /\ Used(port[i]) \in 0 .. BUFSZ - 1
<1>1. port[i] \in PortType /\ IsUart(uart[i])
  BY DEF Control, IsUarts
<1>2. /\ port[i].open \in BOOLEAN /\ port[i].blocking \in BOOLEAN
      /\ port[i].inbuf \in [Index -> Nat] /\ port[i].ridx \in Index /\ port[i].widx \in Index
  BY <1>1 DEF PortType
<1>3. uart[i].fifo \in Seq(Nat) /\ uart[i].ier \in BOOLEAN /\ uart[i].dlab \in BOOLEAN
  BY <1>1 DEF IsUart
<1>4. Len(uart[i].fifo) \in Nat
  BY <1>3
<1>5. Used(port[i]) \in 0 .. BUFSZ - 1
  BY <1>2, DistFacts DEF Used
<1> QED BY <1>1, <1>2, <1>3, <1>4, <1>5

LEMMA GetcFree ==
    ASSUME NEW p, NEW end, NEW at, at \notin {"cmp", "idx", "byte", "adv", "store"}, NEW t, NEW c
    PROVE  Getc(p, end, at, t, c)
  BY DEF Getc

\* The ring of a port is looked at through three fields.
LEMMA SameRing ==
    ASSUME NEW p, NEW q, q.inbuf = p.inbuf, q.ridx = p.ridx, q.widx = p.widx
    PROVE  /\ Used(q) = Used(p)
           /\ \A end, o, l, s : Ring(p, end, o, l, s) => Ring(q, end, o, l, s)
           /\ \A end, at, t, c : Getc(p, end, at, t, c) => Getc(q, end, at, t, c)
<1>1. Used(q) = Used(p)
  BY DEF Used
<1>2. ASSUME NEW end, NEW o, NEW l, NEW s, Ring(p, end, o, l, s) PROVE Ring(q, end, o, l, s)
  BY <1>1, <1>2 DEF Ring, Above, Exact
<1>3. ASSUME NEW end, NEW at, NEW t, NEW c, Getc(p, end, at, t, c) PROVE Getc(q, end, at, t, c)
  BY <1>1, <1>3 DEF Getc
<1> QED BY <1>1, <1>2, <1>3

\* A step that leaves the ring and the history of a port alone.
Kept(i) ==
    /\ port'[i].inbuf = port[i].inbuf /\ port'[i].ridx = port[i].ridx
    /\ port'[i].widx = port[i].widx /\ End(i)' = End(i)
    /\ ovf'[i] = ovf[i] /\ last'[i] = last[i] /\ since'[i] = since[i]
LEMMA KeepPort ==
    ASSUME NEW i \in Ports, PortInv(i), Kept(i), Active(i)' => Active(i),
           Active(i)' /\ fd' = i /\ ovf[i] \notin {"raced", "torn"} => Getc(port[i], End(i), pc', tmp', chr')
    PROVE  PortInv(i)'
<1> SUFFICES ASSUME Active(i)'
             PROVE  /\ Ring(port'[i], End(i)', ovf'[i], last'[i], since'[i])
                    /\ fd' = i /\ ovf'[i] \notin {"raced", "torn"} => Getc(port'[i], End(i)', pc', tmp', chr')
  BY DEF PortInv
<1>1. Ring(port[i], End(i), ovf[i], last[i], since[i])
  BY DEF PortInv
<1>2. PICK p, q : p = port[i] /\ q = port'[i]
  OBVIOUS
<1>3. /\ \A end, o, l, s : Ring(p, end, o, l, s) => Ring(q, end, o, l, s)
      /\ \A end, at, t, c : Getc(p, end, at, t, c) => Getc(q, end, at, t, c)
  <2>1. q.inbuf = p.inbuf /\ q.ridx = p.ridx /\ q.widx = p.widx
    BY <1>2 DEF Kept
  <2> QED BY <2>1, SameRing
<1>4. Ring(q, End(i), ovf[i], last[i], since[i])
  BY <1>1, <1>2, <1>3
<1>5. fd' = i /\ ovf[i] \notin {"raced", "torn"} => Getc(q, End(i), pc', tmp', chr')
  BY <1>2, <1>3
<1>6. End(i)' = End(i) /\ ovf'[i] = ovf[i] /\ last'[i] = last[i] /\ since'[i] = since[i]
  BY DEF Kept
<1> QED BY <1>2, <1>4, <1>5, <1>6

\* Steps of the main program that change none of what the handler works on.
Reads ==
    /\ UNCHANGED <<prog, port, num_open, uart, rx, last, since, ovf, shared, status>>
    /\ pc \notin OpenPlaces /\ pc' \notin OpenPlaces
LEMMA ReadStep ==
    ASSUME IInv, Reads, LineInv', fd' \in Ports, tmp' \in Index, chr' \in Nat,
           \A i \in Ports : fd' = i /\ port[i].open /\ ovf[i] \notin {"raced", "torn"}
                                => Getc(port[i], End(i), pc', tmp', chr')
    PROVE  IInv'
<1>1. UNCHANGED <<prog, port, num_open, uart, rx, last, since, ovf, shared, status>>
  BY DEF Reads
<1>2. pc \notin OpenPlaces /\ pc' \notin OpenPlaces
  BY DEF Reads
<1>3. Control' /\ Alone'
  <2>1. ~Opening(0)' /\ ~Opening(1)' /\ \A i \in Ports : ~Opening(i)'
    BY <1>2 DEF Opening
  <2>2. Control'
    BY <1>1, <2>1 DEF IInv, Control, Count
  <2>3. pc # "fmt" /\ pc' # "fmt"
    BY <1>2 DEF OpenPlaces
  <2>4. Alone'
    BY <1>1, <2>3 DEF IInv, Alone
  <2> QED BY <2>2, <2>4
<1>4. \A i \in Ports : End(i)' = End(i)
  BY <1>1 DEF End
<1>5. History'
  BY <1>1, <1>4 DEF IInv, History
<1>6. ASSUME NEW i \in Ports PROVE PortInv(i)'
  <2>1. PortInv(i) /\ Kept(i)
    BY <1>1, <1>4 DEF IInv, Kept
  <2>2. Active(i)' => port[i].open
    BY <1>1, <1>2 DEF Active, Ready, Opening, OpenPlaces
  <2>3. Active(i)' => Active(i)
    BY <2>2 DEF Active
  <2>4. Active(i)' /\ fd' = i /\ ovf[i] \notin {"raced", "torn"} => Getc(port[i], End(i), pc', tmp', chr')
    BY <2>2
  <2> QED BY <2>1, <2>3, <2>4, KeepPort
<1> QED BY <1>3, <1>5, <1>6 DEF IInv

LEMMA ReturnsFacts ==
    ASSUME IInv, pc \in {"cmp", "store"}, NEW c \in Nat, GetcReturns(c)
    PROVE  /\ LineInv' /\ fd' \in Ports /\ tmp' \in Index /\ chr' \in Nat
           /\ pc' \in {"idle", "pend", "scan"}
<1>1. /\ linebuf \in Seq(Ports \X Nat) /\ Len(linebuf) <= LINESZ /\ fd \in Ports
      /\ fn = "getline" => Len(linebuf) < LINESZ
  BY DEF IInv, LineInv, Control
<1>2. 0 \in Index /\ 0 \in Ports /\ 0 \in Nat /\ LINESZ \in Nat /\ Len(linebuf) \in Nat
  BY <1>1, Sizes DEF Index, Ports
<1>3. fd' \in Ports /\ tmp' = 0 /\ chr' = 0 /\ pc' \in {"idle", "pend", "scan"}
  BY <1>1, <1>2 DEF GetcReturns, Idle
<1>4. LineInv'
  <2>1. CASE fn = "getline" /\ c # 0
    <3>1. linebuf' = Append(linebuf, <<fd, c>>) /\ <<fd, c>> \in Ports \X Nat /\ fn' = fn
      BY <1>1, <2>1 DEF GetcReturns
    <3>2. linebuf' \in Seq(Ports \X Nat) /\ Len(linebuf') = Len(linebuf) + 1
      BY <1>1, <3>1
    <3>3. pc' = IF Len(linebuf) + 1 = LINESZ THEN "scan" ELSE "pend"
      BY <2>1 DEF GetcReturns
    <3>4. Len(linebuf') <= LINESZ /\ (pc' # "scan" => Len(linebuf') < LINESZ)
      BY <1>1, <1>2, <2>1, <3>2, <3>3
    <3> QED BY <1>3, <3>2, <3>4 DEF LineInv
  <2>2. CASE ~(fn = "getline" /\ c # 0)
    <3>1. linebuf' = linebuf /\ (fn' = "none" \/ fn' = fn)
      BY <2>2 DEF GetcReturns, Idle
    <3> QED BY <1>1, <3>1 DEF LineInv
  <2> QED BY <2>1, <2>2
<1> QED BY <1>2, <1>3, <1>4

LEMMA Idles ==
    ASSUME Idle
    PROVE  fd' \in Ports /\ tmp' \in Index /\ chr' \in Nat /\ pc' = "idle" /\ fn' = "none"
  BY Sizes DEF Idle, Ports, Index

LEMMA CallKeeps ==
    ASSUME IInv, NEW f, NEW i \in Ports, NEW n, call(f, i, n)
    PROVE  IInv'
<1>1. /\ pc = "idle" /\ pc' \in {"scan", "pend"} /\ fd' = i /\ UNCHANGED <<tmp, chr, linebuf>>
      /\ pc' = IF f = "getline" /\ Len(linebuf) = LINESZ THEN "scan" ELSE "pend"
      /\ fn' = f
  BY DEF call, At
<1>2. Reads
  BY <1>1 DEF call, Reads, OpenPlaces, dev
<1>3. LineInv'
  BY <1>1, Sizes DEF IInv, LineInv
<1>4. fd' \in Ports /\ tmp' \in Index /\ chr' \in Nat
  BY <1>1 DEF IInv, Control
<1>5. \A p, e : Getc(p, e, pc', tmp', chr')
  BY <1>1, GetcFree
<1> QED BY <1>2, <1>3, <1>4, <1>5, ReadStep

LEMMA WriteKeeps ==
    ASSUME IInv, NEW t, call_write(t)
    PROVE  IInv'
<1>1. pc = "idle" /\ pc' = "send" /\ UNCHANGED <<fd, tmp, chr, linebuf>>
  BY DEF call_write, At
<1>2. Reads
  BY <1>1 DEF call_write, Reads, OpenPlaces, dev
<1>3. LineInv' /\ fd' \in Ports /\ tmp' \in Index /\ chr' \in Nat
  BY <1>1 DEF IInv, LineInv, Control
<1>4. \A p, e : Getc(p, e, pc', tmp', chr')
  BY <1>1, GetcFree
<1> QED BY <1>2, <1>3, <1>4, ReadStep

\* the part of ser_getline behind its reads
LEMMA FirstEndFacts ==
    ASSUME LineInv, Ends # {}
    PROVE  /\ Rest(FirstEnd) \in Seq(Ports \X Nat)
           /\ Len(Rest(FirstEnd)) <= LINESZ
<1>1. linebuf \in Seq(Ports \X Nat) /\ Len(linebuf) <= LINESZ /\ Len(linebuf) \in Nat
  BY DEF LineInv
<1>2. Ends \subseteq 1 .. Len(linebuf) /\ Ends \subseteq Nat
  BY <1>1 DEF Ends
<1>3. \E k \in Ends : \A j \in Ends : k <= j
  BY <1>2, LeastExists
<1>4. FirstEnd \in Ends
  BY <1>3 DEF FirstEnd
<1>5. PICK k \in 1 .. Len(linebuf), s \in Seq(Ports \X Nat) : k = FirstEnd /\ s = linebuf
  BY <1>1, <1>2, <1>4
<1>6. /\ SubSeq(s, k + 1, Len(s)) \in Seq(Ports \X Nat)
      /\ Len(SubSeq(s, k + 1, Len(s))) = Len(s) - k
  <2>1. k \in 1 .. Len(s)
    BY <1>5
  <2> QED BY <2>1
<1>7. Rest(FirstEnd) = SubSeq(s, k + 1, Len(s)) /\ Len(s) = Len(linebuf)
  BY <1>5 DEF Rest
<1>8. PICK t : t = SubSeq(s, k + 1, Len(s)) /\ t \in Seq(Ports \X Nat) /\ Len(t) = Len(s) - k
  BY <1>6
<1>9. Len(t) <= LINESZ
  BY <1>1, <1>7, <1>8, Sizes
<1> QED BY <1>7, <1>8, <1>9

LEMMA ScanKeeps ==
    ASSUME IInv, getline_scan
    PROVE  IInv'
<1>1. pc = "scan" /\ Idle
  BY DEF getline_scan, At
<1>2. fd' \in Ports /\ tmp' \in Index /\ chr' \in Nat /\ pc' = "idle" /\ fn' = "none"
  BY <1>1, Idles
<1>3. Reads
  BY <1>1, <1>2 DEF getline_scan, Reads, OpenPlaces, dev
<1>4. linebuf' = linebuf \/ (Ends # {} /\ linebuf' = Rest(FirstEnd))
  BY DEF getline_scan
<1>5. LineInv'
  <2>1. linebuf' \in Seq(Ports \X Nat) /\ Len(linebuf') <= LINESZ
    BY <1>4, FirstEndFacts DEF IInv, LineInv
  <2> QED BY <1>2, <2>1 DEF LineInv
<1>6. \A p, e : Getc(p, e, pc', tmp', chr')
  BY <1>2, GetcFree
<1> QED BY <1>2, <1>3, <1>5, <1>6, ReadStep

\* ser_pending, and the loads of ser_getc
LEMMA LoadKeeps ==
    ASSUME IInv, pend_ridx \/ getc_index \/ getc_load
    PROVE  IInv'
<1>0. PICK i \in Ports : i = fd
  BY DEF IInv, Control
<1>1. /\ pc \in {"pend", "idx", "adv"}
      /\ pc' = IF pc = "pend" THEN "cmp" ELSE IF pc = "idx" THEN "byte" ELSE "store"
      /\ tmp' = port[i].ridx /\ fd' = i /\ UNCHANGED <<linebuf, fn, chr>>
  BY <1>0 DEF pend_ridx, getc_index, getc_load, At
<1>2. Reads
  BY <1>1 DEF pend_ridx, getc_index, getc_load, Reads, OpenPlaces, dev, hist
<1>3. LineInv'
  BY <1>1 DEF IInv, LineInv
<1>4. fd' \in Ports /\ tmp' \in Index /\ chr' \in Nat
  <2>1. Control
    BY DEF IInv
  <2>2. port[i].ridx \in Index /\ chr \in Nat
    BY <2>1, PortFacts DEF Control
  <2> QED BY <1>1, <2>2
<1>5. ASSUME port[i].open, ovf[i] \notin {"raced", "torn"} PROVE Getc(port[i], End(i), pc', tmp', chr')
  <2>1. Getc(port[i], End(i), pc, tmp, chr)
    BY <1>0, <1>5 DEF IInv, PortInv, Active
  <2> QED BY <1>1, <2>1 DEF Getc
<1> QED BY <1>1, <1>2, <1>3, <1>4, <1>5, ReadStep

LEMMA CompareKeeps ==
    ASSUME IInv, pend_widx
    PROVE  IInv'
<1>0. PICK i \in Ports : i = fd
  BY DEF IInv, Control
<1>1. pc = "cmp" /\ UNCHANGED <<prog, port, num_open, uart, rx, last, since, ovf, shared, status>>
  BY DEF pend_widx, At, dev, hist
<1>2. Control /\ LineInv /\ fd \in Ports /\ tmp \in Index /\ chr \in Nat
  BY DEF IInv, Control
<1>3. CASE tmp # port[i].widx /\ fn # "wait"
  <2>1. pc' = "idx" /\ UNCHANGED <<linebuf, fn, fd, tmp, chr>>
    BY <1>0, <1>3 DEF pend_widx
  <2>2. Reads /\ LineInv'
    BY <1>1, <1>2, <2>1 DEF Reads, OpenPlaces, LineInv
  <2>3. ASSUME port[i].open, ovf[i] \notin {"raced", "torn"} PROVE Getc(port[i], End(i), pc', tmp', chr')
    <3>1. Getc(port[i], End(i), pc, tmp, chr)
      BY <1>0, <2>3 DEF IInv, PortInv, Active
    <3>2. tmp = port[i].ridx \/ Used(port[i]) >= 1
      BY <1>1, <3>1 DEF Getc
    <3>3. port[i].ridx # port[i].widx => Used(port[i]) >= 1
      <4>1. port[i].ridx \in Index /\ port[i].widx \in Index
        BY <1>2, PortFacts
      <4> QED BY <4>1, DistFacts, Sizes DEF Used
    <3> QED BY <1>3, <2>1, <3>2, <3>3 DEF Getc
  <2> QED BY <1>0, <1>2, <2>1, <2>2, <2>3, ReadStep
<1>4. CASE ~(tmp # port[i].widx /\ fn # "wait")
  <2>1. \/ Idle /\ UNCHANGED linebuf
        \/ pc' = "pend" /\ UNCHANGED <<linebuf, fn, fd, tmp, chr>>
        \/ GetcReturns(0)
    BY <1>0, <1>4 DEF pend_widx
  <2>2. /\ LineInv' /\ fd' \in Ports /\ tmp' \in Index /\ chr' \in Nat
        /\ pc' \in {"idle", "pend", "scan"}
    <3>1. CASE Idle /\ UNCHANGED linebuf
      BY <1>2, <3>1, Idles DEF LineInv
    <3>2. CASE pc' = "pend" /\ UNCHANGED <<linebuf, fn, fd, tmp, chr>>
      BY <1>1, <1>2, <3>2 DEF LineInv
    <3>3. CASE GetcReturns(0)
      BY <1>1, <3>3, ReturnsFacts
    <3> QED BY <2>1, <3>1, <3>2, <3>3
  <2>3. Reads
    BY <1>1, <2>2 DEF Reads, OpenPlaces
  <2>4. \A p, e : Getc(p, e, pc', tmp', chr')
    BY <2>2, GetcFree
  <2> QED BY <2>2, <2>3, <2>4, ReadStep
<1> QED BY <1>3, <1>4

LEMMA ByteKeeps ==
    ASSUME IInv, getc_byte
    PROVE  IInv'
<1>0. PICK i \in Ports : i = fd
  BY DEF IInv, Control
<1>1. /\ pc = "byte" /\ pc' = "adv" /\ UNCHANGED <<linebuf, fn, fd, tmp>>
      /\ chr' = port[i].inbuf[tmp]
  BY <1>0 DEF getc_byte, At
<1>2. Control /\ LineInv /\ fd \in Ports /\ tmp \in Index /\ chr \in Nat
  BY DEF IInv, Control
<1>3. Reads /\ LineInv'
  BY <1>1, <1>2 DEF getc_byte, Reads, OpenPlaces, dev, hist, LineInv
<1>4. PICK r \in Index, w \in Index, b \in [Index -> Nat] :
        r = port[i].ridx /\ w = port[i].widx /\ b = port[i].inbuf
  BY <1>2, PortFacts
<1>5. chr' \in Nat
  BY <1>1, <1>2, <1>4
<1>6. ASSUME port[i].open, ovf[i] \notin {"raced", "torn"} PROVE Getc(port[i], End(i), pc', tmp', chr')
  <2>1. /\ Getc(port[i], End(i), pc, tmp, chr)
        /\ Ring(port[i], End(i), ovf[i], last[i], since[i])
    BY <1>0, <1>6 DEF IInv, PortInv, Active
  <2>2. tmp = r /\ Used(port[i]) >= 1
    BY <1>1, <1>4, <2>1 DEF Getc
  <2>3. PICK u \in 0 .. BUFSZ - 1 : u = Used(port[i]) /\ u = Dist(r, w)
    BY <1>2, <1>4, PortFacts DEF Used
  <2>4. Before(w, u) = r
    BY <2>3, DistFacts
  <2>5. \A k \in 1 .. u : b[Before(w, k)] = End(i) - k + 1
    BY <1>4, <1>6, <2>1, <2>3 DEF Ring, Exact
  <2>6. u \in 1 .. u
    BY <2>2, <2>3, Sizes
  <2>7. b[r] = End(i) - u + 1
    BY <2>4, <2>5, <2>6
  <2> QED BY <1>1, <1>4, <2>2, <2>3, <2>7 DEF Getc
<1> QED BY <1>0, <1>1, <1>2, <1>3, <1>5, <1>6, ReadStep

-----------------------------------------------------------------------------
(***************************************************************************)
(* Steps that change a UART or a port.                                     *)
(***************************************************************************)
SetTo(fs, gs, j, x) == x = gs[j] /\ \A i \in Ports : i # j => gs[i] = fs[i]

LEMMA UartSet ==
    ASSUME NEW us, IsUarts(us), NEW j \in Ports, NEW u, IsUart(u), NEW vs, vs = [us EXCEPT ![j] = u]
    PROVE  IsUarts(vs) /\ SetTo(us, vs, j, u)
<1>1. us = [i \in Ports |-> us[i]] /\ \A i \in Ports : IsUart(us[i])
  BY DEF IsUarts
<1>2. vs = [i \in Ports |-> IF i = j THEN u ELSE us[i]]
  BY <1>1
<1>3. \A i \in Ports : vs[i] = IF i = j THEN u ELSE us[i]
  BY <1>2
<1>4. vs = [i \in Ports |-> vs[i]]
  BY <1>2
<1>5. \A i \in Ports : IsUart(vs[i])
  BY <1>1, <1>3
<1> QED BY <1>3, <1>4, <1>5 DEF IsUarts, SetTo

IsFields(v, f, e, d) == IsUart(v) /\ v.fifo = f /\ v.ier = e /\ v.dlab = d

LEMMA UartFields ==
    ASSUME NEW u, IsUart(u)
    PROVE  /\ \A x : IsFields([u EXCEPT !.thr = x], u.fifo, u.ier, u.dlab)
           /\ \A b \in BOOLEAN : IsFields([u EXCEPT !.dlab = b], u.fifo, u.ier, b)
           /\ \A b \in BOOLEAN : IsFields([u EXCEPT !.ier = b], u.fifo, b, u.dlab)
           /\ \A f \in Seq(Nat) : IsFields([u EXCEPT !.fifo = f], f, u.ier, u.dlab)
           /\ \A f \in Seq(Nat), b \in BOOLEAN :
                IsFields([u EXCEPT !.fifo = f, !.ier = b], f, b, u.dlab)
<1>1. u \in [fifo : Seq(Nat), ier : BOOLEAN, dlab : BOOLEAN, thr : {u.thr}]
  BY DEF IsUart
<1>2. ASSUME NEW x PROVE IsFields([u EXCEPT !.thr = x], u.fifo, u.ier, u.dlab)
  BY <1>1 DEF IsFields, IsUart
<1>3. ASSUME NEW b \in BOOLEAN PROVE IsFields([u EXCEPT !.dlab = b], u.fifo, u.ier, b)
  BY <1>1 DEF IsFields, IsUart
<1>4. ASSUME NEW b \in BOOLEAN PROVE IsFields([u EXCEPT !.ier = b], u.fifo, b, u.dlab)
  BY <1>1 DEF IsFields, IsUart
<1>5. ASSUME NEW f \in Seq(Nat) PROVE IsFields([u EXCEPT !.fifo = f], f, u.ier, u.dlab)
  BY <1>1 DEF IsFields, IsUart
<1>6. ASSUME NEW f \in Seq(Nat), NEW b \in BOOLEAN
      PROVE  IsFields([u EXCEPT !.fifo = f, !.ier = b], f, b, u.dlab)
  BY <1>1 DEF IsFields, IsUart
<1> QED BY <1>2, <1>3, <1>4, <1>5, <1>6

\* Steps that leave the fifos alone.
LEMMA WireStep ==
    ASSUME IInv, IsUarts(uart'), \A i \in Ports : uart'[i].fifo = uart[i].fifo,
           UNCHANGED <<prog, port, num_open, linebuf, fn, rx, last, since, ovf, shared, fd, tmp, chr, status>>,
           Alone', \A i \in Ports : (Opening(i)' => Opening(i)) /\ (Ready(i)' => Ready(i)),
           pc' = pc \/ pc' \notin {"pend", "cmp", "idx", "byte", "adv", "store"}
    PROVE  IInv'
<1>1. \A i \in Ports : End(i)' = End(i)
  BY DEF End
<1>2. Control' /\ LineInv'
  BY DEF IInv, Control, LineInv, Count
<1>3. History'
  <2>1. \A i \in Ports : IsFifo(uart[i].fifo, End(i))
    BY DEF IInv, History
  <2>2. \A i \in Ports : IsFifo(uart'[i].fifo, End(i)')
    BY <1>1, <2>1
  <2> QED BY <2>2 DEF IInv, History
<1>4. ASSUME NEW i \in Ports PROVE PortInv(i)'
  <2>1. PortInv(i) /\ Kept(i)
    BY <1>1 DEF IInv, Kept
  <2>2. Active(i)' => Active(i)
    BY DEF Active
  <2>3. Active(i)' /\ fd' = i /\ ovf[i] \notin {"raced", "torn"} => Getc(port[i], End(i), pc', tmp', chr')
    <3>1. CASE pc' = pc
      BY <2>1, <2>2, <3>1 DEF PortInv
    <3>2. CASE pc' \notin {"cmp", "idx", "byte", "adv", "store"}
      BY <3>2, GetcFree
    <3> QED BY <3>1, <3>2
  <2> QED BY <2>1, <2>2, <2>3, KeepPort
<1> QED BY <1>2, <1>3, <1>4 DEF IInv

LEMMA TransmitKeeps ==
    ASSUME IInv, NEW j \in Ports, NEW x, uart' = [uart EXCEPT ![j].thr = x],
           UNCHANGED <<prog, port, num_open, linebuf, fn, rx, last, since, ovf, shared, fd, tmp, chr, status>>,
           pc' = pc \/ (pc = "send" /\ pc' \in {"idle", "send"})
    PROVE  IInv'
<1>1. IsUarts(uart) /\ Control
  BY DEF IInv, Control
<1>2. PICK u : u = [uart[j] EXCEPT !.thr = x]
  OBVIOUS
<1>3. IsFields(u, uart[j].fifo, uart[j].ier, uart[j].dlab)
  BY <1>1, <1>2, UartFields DEF IsUarts
<1>4. uart' = [uart EXCEPT ![j] = u]
  BY <1>1, <1>2 DEF IsUarts
<1>5. IsUarts(uart') /\ SetTo(uart, uart', j, u)
  BY <1>1, <1>3, <1>4, UartSet DEF IsFields
<1>6. \A i \in Ports : /\ uart'[i].fifo = uart[i].fifo /\ uart'[i].ier = uart[i].ier
                       /\ uart'[i].dlab = uart[i].dlab
  BY <1>3, <1>5 DEF IsFields, SetTo
<1>7. Alone'
  BY <1>6 DEF IInv, Alone
<1>8. \A i \in Ports : (Opening(i)' => Opening(i)) /\ (Ready(i)' => Ready(i))
  BY DEF Opening, OpenPlaces, Ready
<1> QED BY <1>5, <1>6, <1>7, <1>8, WireStep

\* While ser_open has the divisor latch open the port is not, so that only a UART left
\* enabled could interrupt.
LEMMA LatchKeeps ==
    ASSUME IInv, open_dlab \/ open_fmt
    PROVE  IInv'
<1>0. IsUarts(uart) /\ Control /\ Alone
  BY DEF IInv, Control
<1>1. PICK j \in Ports, b \in BOOLEAN :
        /\ j = fd /\ uart' = [uart EXCEPT ![j].dlab = b]
        /\ b => pc' = "fmt"
  BY <1>0 DEF open_dlab, open_fmt, Control
<1>2. /\ pc \in {"dlab", "fmt"} /\ pc' \in {"fmt", "fifo"} /\ fd' = fd
      /\ UNCHANGED <<prog, port, num_open, linebuf, fn, rx, last, since, ovf, shared, fd, tmp, chr, status>>
  BY DEF open_dlab, open_fmt, At, regs, hist
<1>3. PICK u : u = [uart[j] EXCEPT !.dlab = b]
  OBVIOUS
<1>4. IsFields(u, uart[j].fifo, uart[j].ier, b)
  BY <1>0, <1>3, UartFields DEF IsUarts
<1>5. uart' = [uart EXCEPT ![j] = u]
  BY <1>0, <1>1, <1>3 DEF IsUarts
<1>6. IsUarts(uart') /\ SetTo(uart, uart', j, u)
  BY <1>0, <1>4, <1>5, UartSet DEF IsFields
<1>7. /\ \A i \in Ports : uart'[i].fifo = uart[i].fifo /\ uart'[i].ier = uart[i].ier
      /\ uart'[j].dlab = b /\ \A i \in Ports : i # j => uart'[i].dlab = uart[i].dlab
  BY <1>4, <1>6 DEF IsFields, SetTo
<1>8. Alone'
  BY <1>0, <1>1, <1>2, <1>7 DEF Alone
<1>9. \A i \in Ports : (Opening(i)' => Opening(i)) /\ (Ready(i)' => Ready(i))
  BY <1>2 DEF Opening, OpenPlaces, Ready
<1> QED BY <1>2, <1>6, <1>7, <1>8, <1>9, WireStep

LEMMA ReceiveKeeps ==
    ASSUME IInv, NEW j \in Ports, NEW c \in prog.chars, receive(j, c)
    PROVE  IInv'
<1>0. IsUarts(uart) /\ Control /\ Alone /\ History
  BY DEF IInv, Control
<1>1. UNCHANGED <<prog, port, num_open, linebuf, fn, last, since, ovf, shared, fd, tmp, chr, pc, status>>
  BY DEF receive, regs, hist
<1>2. PICK s \in Seq(prog.chars), f \in Seq(Nat) :
        s = rx[j] /\ f = uart[j].fifo /\ IsFifo(f, Len(s) - Len(f))
  BY <1>0, PortFacts DEF History, End
<1>3. PICK n \in Nat, m \in Nat : n = Len(s) /\ m = Len(f)
  BY <1>2
<1>4. PICK g \in Seq(Nat) : g = Append(f, n + 1) /\ Len(g) = m + 1 /\ \A k \in 1 .. m + 1 :
                              g[k] = IF k = m + 1 THEN n + 1 ELSE f[k]
  <2>1. n + 1 \in Nat
    OBVIOUS
  <2>2. Append(f, n + 1) \in Seq(Nat) /\ Len(Append(f, n + 1)) = m + 1
    BY <1>3, <2>1
  <2>3. \A k \in 1 .. m + 1 : Append(f, n + 1)[k] = IF k = m + 1 THEN n + 1 ELSE f[k]
    BY <1>3, <2>1
  <2> QED BY <2>2, <2>3
<1>5. IsFifo(g, n - m)
  <2>1. n - m \in Nat /\ \A k \in 1 .. m : f[k] = n - m + k
    BY <1>2, <1>3 DEF IsFifo
  <2>2. ASSUME NEW k \in 1 .. m + 1 PROVE g[k] = n - m + k
    <3>1. CASE k = m + 1
      BY <1>4, <3>1
    <3>2. CASE k # m + 1
      <4>1. k \in 1 .. m /\ g[k] = f[k]
        BY <1>4, <3>2
      <4> QED BY <2>1, <4>1
    <3> QED BY <3>1, <3>2
  <2> QED BY <1>4, <2>1, <2>2 DEF IsFifo
<1>6. PICK u : u = [uart[j] EXCEPT !.fifo = g]
  OBVIOUS
<1>7. IsFields(u, g, uart[j].ier, uart[j].dlab)
  BY <1>0, <1>6, UartFields DEF IsUarts
<1>8. uart' = [uart EXCEPT ![j] = u]
  BY <1>0, <1>2, <1>3, <1>4, <1>6 DEF receive, IsUarts
<1>9. IsUarts(uart') /\ SetTo(uart, uart', j, u)
  BY <1>0, <1>7, <1>8, UartSet DEF IsFields
<1>10. /\ \A i \in Ports : uart'[i].ier = uart[i].ier /\ uart'[i].dlab = uart[i].dlab
       /\ uart'[j].fifo = g /\ \A i \in Ports : i # j => uart'[i].fifo = uart[i].fifo
  BY <1>7, <1>9 DEF IsFields, SetTo
<1>11. /\ rx' \in [Ports -> Seq(prog'.chars)] /\ Len(rx'[j]) = n + 1
       /\ \A i \in Ports : i # j => rx'[i] = rx[i]
  <2>1. rx \in [Ports -> Seq(prog.chars)] /\ rx' = [rx EXCEPT ![j] = Append(s, c)]
    BY <1>0, <1>2 DEF History, receive
  <2>2. Append(s, c) \in Seq(prog.chars) /\ Len(Append(s, c)) = n + 1
    <3>1. PICK S : S = prog.chars
      OBVIOUS
    <3>2. s \in Seq(S) /\ c \in S
      BY <1>2, <3>1
    <3>3. Append(s, c) \in Seq(S) /\ Len(Append(s, c)) = Len(s) + 1
      BY <3>2
    <3> QED BY <1>3, <3>1, <3>3
  <2>3. prog' = prog
    BY <1>1
  <2> QED BY <2>1, <2>2, <2>3
<1>12. ASSUME NEW i \in Ports PROVE End(i)' = End(i) /\ IsFifo(uart'[i].fifo, End(i)')
  <2>1. CASE i = j
    <3>1. End(i) = n - m
      BY <1>2, <1>3, <2>1 DEF End
    <3>2. End(i)' = (n + 1) - (m + 1)
      BY <1>4, <1>10, <1>11, <2>1 DEF End
    <3>3. End(i)' = n - m
      BY <3>2
    <3> QED BY <1>5, <1>10, <2>1, <3>1, <3>3
  <2>2. CASE i # j
    <3>1. End(i)' = End(i) /\ uart'[i].fifo = uart[i].fifo
      BY <1>10, <1>11, <2>2 DEF End
    <3> QED BY <1>0, <3>1 DEF History
  <2> QED BY <2>1, <2>2
<1>13. Control' /\ LineInv'
  BY <1>1, <1>9 DEF IInv, Control, LineInv, Count, Opening, OpenPlaces
<1>14. Alone'
  BY <1>0, <1>1, <1>10 DEF Alone
<1>15. History'
  BY <1>0, <1>1, <1>11, <1>12 DEF History
<1>16. ASSUME NEW i \in Ports PROVE PortInv(i)'
  <2>1. PortInv(i) /\ Kept(i)
    BY <1>1, <1>12 DEF IInv, Kept
  <2>2. Active(i)' <=> Active(i)
    BY <1>1 DEF Active, Ready, Opening, OpenPlaces
  <2>3. Active(i)' /\ fd' = i /\ ovf[i] \notin {"raced", "torn"} => Getc(port[i], End(i), pc', tmp', chr')
    BY <1>1, <2>1, <2>2 DEF PortInv
  <2> QED BY <2>1, <2>2, <2>3, KeepPort
<1> QED BY <1>13, <1>14, <1>15, <1>16 DEF IInv

\* ports[]
LEMMA PortSet ==
    ASSUME NEW ps \in [Ports -> PortType], NEW j \in Ports, NEW q \in PortType,
           NEW qs, qs = [ps EXCEPT ![j] = q]
    PROVE  qs \in [Ports -> PortType] /\ SetTo(ps, qs, j, q)
  BY DEF SetTo

LEMMA PortFields ==
    ASSUME NEW p \in PortType
    PROVE  /\ \A b \in BOOLEAN : LET q == [p EXCEPT !.open = b] IN
                /\ q \in PortType /\ q.open = b /\ q.inbuf = p.inbuf /\ q.ridx = p.ridx
                /\ q.widx = p.widx
           /\ \A b \in BOOLEAN : LET q == [p EXCEPT !.blocking = b] IN
                /\ q \in PortType /\ q.open = p.open /\ q.inbuf = p.inbuf /\ q.ridx = p.ridx
                /\ q.widx = p.widx
           /\ \A r \in Index : LET q == [p EXCEPT !.ridx = r] IN
                /\ q \in PortType /\ q.open = p.open /\ q.inbuf = p.inbuf /\ q.ridx = r
                /\ q.widx = p.widx
  BY DEF PortType

\* Calls that change the flags of a port.
LEMMA FlagStep ==
    ASSUME IInv, pc = "idle", port' \in [Ports -> PortType],
           \A i \in Ports : /\ port'[i].inbuf = port[i].inbuf /\ port'[i].ridx = port[i].ridx
                            /\ port'[i].widx = port[i].widx /\ (port'[i].open => port[i].open),
           num_open' = Count(0)' + Count(1)',
           IsUarts(uart'), \A i \in Ports : uart'[i].fifo = uart[i].fifo,
           UNCHANGED <<prog, linebuf, fn, rx, last, since, ovf, shared, fd, tmp, chr, pc, status>>,
           Alone'
    PROVE  IInv'
<1>1. \A i \in Ports : End(i)' = End(i)
  BY DEF End
<1>2. Control' /\ LineInv'
  BY DEF IInv, Control, LineInv, Opening, OpenPlaces
<1>3. History'
  <2>1. \A i \in Ports : IsFifo(uart[i].fifo, End(i))
    BY DEF IInv, History
  <2>2. \A i \in Ports : IsFifo(uart'[i].fifo, End(i)')
    BY <1>1, <2>1
  <2> QED BY <2>2 DEF IInv, History
<1>4. ASSUME NEW i \in Ports PROVE PortInv(i)'
  <2>1. PortInv(i) /\ Kept(i)
    BY <1>1 DEF IInv, Kept
  <2>2. Active(i)' => Active(i)
    BY DEF Active, Ready, Opening, OpenPlaces
  <2>3. Getc(port[i], End(i), pc', tmp', chr')
    BY GetcFree
  <2> QED BY <2>1, <2>2, <2>3, KeepPort
<1> QED BY <1>2, <1>3, <1>4 DEF IInv

LEMMA BlockKeeps ==
    ASSUME IInv, NEW j \in Ports, NEW b \in BOOLEAN, ser_block(j, b)
    PROVE  IInv'
<1>1. /\ pc = "idle" /\ port' = [port EXCEPT ![j].blocking = b]
      /\ UNCHANGED <<prog, num_open, linebuf, uart, fn, rx, last, since, ovf, shared, fd, tmp, chr, pc, status>>
  BY DEF ser_block, At, dev, regs, hist
<1>2. Control /\ Alone /\ port \in [Ports -> PortType] /\ IsUarts(uart)
  BY DEF IInv, Control
<1>3. PICK q : q = [port[j] EXCEPT !.blocking = b]
  OBVIOUS
<1>4. /\ q \in PortType /\ q.open = port[j].open /\ q.inbuf = port[j].inbuf
      /\ q.ridx = port[j].ridx /\ q.widx = port[j].widx
  BY <1>2, <1>3, PortFacts, PortFields
<1>5. port' = [port EXCEPT ![j] = q]
  BY <1>1, <1>2, <1>3
<1>6. port' \in [Ports -> PortType] /\ SetTo(port, port', j, q)
  BY <1>2, <1>4, <1>5, PortSet
<1>7. \A i \in Ports : /\ port'[i].inbuf = port[i].inbuf /\ port'[i].ridx = port[i].ridx
                       /\ port'[i].widx = port[i].widx /\ port'[i].open = port[i].open
  BY <1>4, <1>6 DEF SetTo
<1>8. num_open' = Count(0)' + Count(1)'
  <2>1. 0 \in Ports /\ 1 \in Ports
    BY DEF Ports
  <2>2. Count(0)' = Count(0) /\ Count(1)' = Count(1)
    BY <1>7, <2>1 DEF Count
  <2> QED BY <1>1, <1>2, <2>2 DEF Control
<1>9. Alone'
  BY <1>1, <1>2, <1>7 DEF Alone
<1> QED BY <1>1, <1>2, <1>6, <1>7, <1>8, <1>9, FlagStep

\* The only port that was ever open is switched off when it is closed.
LEMMA CloseKeeps ==
    ASSUME IInv, NEW j \in Ports, ser_close(j)
    PROVE  IInv'
<1>1. /\ pc = "idle" /\ port[j].open /\ port' = [port EXCEPT ![j].open = FALSE]
      /\ num_open' = num_open - 1
      /\ UNCHANGED <<prog, linebuf, fn, rx, last, since, ovf, shared, fd, tmp, chr, pc, status>>
  BY DEF ser_close, At, regs, hist
<1>2. Control /\ Alone /\ port \in [Ports -> PortType] /\ IsUarts(uart)
  BY DEF IInv, Control
<1>3. PICK q : q = [port[j] EXCEPT !.open = FALSE]
  OBVIOUS
<1>4. /\ q \in PortType /\ ~q.open /\ q.inbuf = port[j].inbuf
      /\ q.ridx = port[j].ridx /\ q.widx = port[j].widx
  BY <1>2, <1>3, PortFacts, PortFields
<1>5. port' = [port EXCEPT ![j] = q]
  BY <1>1, <1>2, <1>3
<1>6. port' \in [Ports -> PortType] /\ SetTo(port, port', j, q)
  BY <1>2, <1>4, <1>5, PortSet
<1>7. /\ \A i \in Ports : /\ port'[i].inbuf = port[i].inbuf /\ port'[i].ridx = port[i].ridx
                          /\ port'[i].widx = port[i].widx /\ (port'[i].open => port[i].open)
      /\ ~port'[j].open /\ \A i \in Ports : i # j => port'[i].open = port[i].open
  BY <1>4, <1>6 DEF SetTo
<1>8. /\ num_open' = Count(0)' + Count(1)'
      /\ num_open = 1 => \A i \in Ports : i # j => ~port[i].open
      /\ num_open \in 1 .. 2
  <2>1. num_open = Count(0) + Count(1)
    BY <1>2 DEF Control
  <2>2. Ports = {0, 1}
    BY DEF Ports
  <2>3. CASE j = 0
    BY <1>1, <1>7, <2>1, <2>2, <2>3 DEF Count
  <2>4. CASE j = 1
    BY <1>1, <1>7, <2>1, <2>2, <2>4 DEF Count
  <2> QED BY <2>2, <2>3, <2>4
<1>9. PICK e \in BOOLEAN : e = (IF num_open - 1 = 0 THEN FALSE ELSE uart[j].ier)
  BY <1>2, PortFacts
<1>10. PICK u : u = [uart[j] EXCEPT !.ier = e]
  OBVIOUS
<1>11. IsFields(u, uart[j].fifo, e, uart[j].dlab)
  BY <1>2, <1>10, UartFields DEF IsUarts
<1>12. uart' = [uart EXCEPT ![j] = u]
  BY <1>2, <1>9, <1>10 DEF ser_close, LastClose, IsUarts
<1>13. IsUarts(uart') /\ SetTo(uart, uart', j, u)
  BY <1>2, <1>11, <1>12, UartSet DEF IsFields
<1>14. /\ \A i \in Ports : uart'[i].fifo = uart[i].fifo /\ uart'[i].dlab = uart[i].dlab
       /\ uart'[j].ier = e /\ \A i \in Ports : i # j => uart'[i].ier = uart[i].ier
  BY <1>11, <1>13 DEF IsFields, SetTo
<1>15. Alone'
  <2>1. SUFFICES ASSUME ~shared PROVE Alone'
    BY <1>1 DEF Alone
  <2>2. num_open = 1
    BY <1>8, <2>1, <1>2 DEF Alone
  <2>3. e = FALSE
    BY <1>9, <2>2
  <2> QED BY <1>1, <1>2, <1>7, <1>14, <2>1, <2>2, <2>3 DEF Alone
<1> QED BY <1>1, <1>6, <1>7, <1>8, <1>13, <1>14, <1>15, FlagStep

LEMMA FreshRing ==
    ASSUME NEW end \in Nat, NEW q, q.ridx = 0, q.widx = 0
    PROVE  Ring(q, end, "none", end, end)
<1>1. Used(q) = 0
  BY DEF Used, Dist
<1>2. Above(q, Used(q), end)
  BY <1>1 DEF Above
<1>3. Exact(q, end, end)
  BY <1>1, Sizes DEF Exact
<1> QED BY <1>2, <1>3 DEF Ring

\* The memset of a port that is not open, as far as its indices.
LEMMA ClearStep ==
    ASSUME IInv, NEW j \in Ports, ~port[j].open, NEW q \in PortType, ~q.open,
           port' = [port EXCEPT ![j] = q], fd' = j, tmp' \in Index,
           pc = "idle" \/ (pc \in {"zero", "ridx"} /\ fd = j), pc' \in {"zero", "ridx", "widx"},
           UNCHANGED <<prog, num_open, linebuf, uart, fn, rx, last, since, ovf, shared, chr, status>>
    PROVE  IInv'
<1>1. Control /\ Alone /\ History /\ port \in [Ports -> PortType]
  BY DEF IInv, Control
<1>2. port' \in [Ports -> PortType] /\ SetTo(port, port', j, q)
  BY <1>1, PortSet
<1>3. \A i \in Ports : /\ (port'[i].open <=> port[i].open)
                       /\ i # j => port'[i] = port[i]
  BY <1>2 DEF SetTo
<1>4. \A i \in Ports : End(i)' = End(i)
  BY DEF End
<1>5. Control'
  <2>1. 0 \in Ports /\ 1 \in Ports
    BY DEF Ports
  <2>2. Count(0)' = Count(0) /\ Count(1)' = Count(1)
    BY <1>3, <2>1 DEF Count
  <2>3. \A i \in Ports : Opening(i)' => ~port'[i].open
    BY <1>3 DEF Opening
  <2> QED BY <1>1, <1>2, <2>2, <2>3 DEF Control
<1>6. Alone'
  <2>1. \A i \in Ports : ~shared => ~uart[i].dlab
    BY <1>1 DEF Alone
  <2> QED BY <1>1, <1>3, <2>1 DEF Alone
<1>7. LineInv'
  BY DEF IInv, LineInv
<1>8. History'
  <2>1. \A i \in Ports : IsFifo(uart'[i].fifo, End(i)')
    BY <1>1, <1>4 DEF History
  <2> QED BY <1>1, <2>1 DEF History
<1>9. ASSUME NEW i \in Ports PROVE PortInv(i)'
  <2>1. CASE i = j
    <3>1. ~Active(i)'
      BY <1>3, <2>1 DEF Active, Ready
    <3> QED BY <3>1 DEF PortInv
  <2>2. CASE i # j
    <3>1. PortInv(i) /\ Kept(i)
      BY <1>3, <1>4, <2>2 DEF IInv, Kept
    <3>2. Active(i)' => Active(i)
      BY <1>3 DEF Active, Ready
    <3>3. Getc(port[i], End(i), pc', tmp', chr')
      BY GetcFree
    <3> QED BY <3>1, <3>2, <3>3, KeepPort
  <2> QED BY <2>1, <2>2
<1> QED BY <1>5, <1>6, <1>7, <1>8, <1>9 DEF IInv

LEMMA BeginKeeps ==
    ASSUME IInv, NEW j \in Ports, open_begin(j)
    PROVE  IInv'
<1>1. /\ pc = "idle" /\ pc' = "zero" /\ fd' = j /\ tmp' = 0 /\ ~port[j].open
      /\ port' = [port EXCEPT ![j].blocking = FALSE]
      /\ UNCHANGED <<prog, num_open, linebuf, uart, fn, rx, last, since, ovf, shared, chr, status>>
  BY DEF open_begin, At, dev, hist
<1>2. Control /\ port \in [Ports -> PortType] /\ 0 \in Index
  BY Sizes DEF IInv, Control, Index
<1>3. PICK q : q = [port[j] EXCEPT !.blocking = FALSE]
  OBVIOUS
<1>4. q \in PortType /\ q.open = port[j].open
  BY <1>2, <1>3 DEF PortType
<1>5. port' = [port EXCEPT ![j] = q]
  BY <1>1, <1>2, <1>3
<1> QED BY <1>1, <1>2, <1>4, <1>5, ClearStep

LEMMA ZeroKeeps ==
    ASSUME IInv, zero_inbuf \/ zero_ridx
    PROVE  IInv'
<1>1. Control /\ port \in [Ports -> PortType] /\ 0 \in Index /\ tmp \in Index
  BY Sizes DEF IInv, Control, Index
<1>2. PICK j \in Ports : j = fd
  BY <1>1 DEF Control
<1>3. /\ pc \in {"zero", "ridx"} /\ fd' = j /\ pc' \in {"zero", "ridx", "widx"}
      /\ UNCHANGED <<prog, num_open, linebuf, uart, fn, rx, last, since, ovf, shared, chr, status>>
  BY <1>2 DEF zero_inbuf, zero_ridx, At, dev, hist, regs
<1>4. ~port[j].open
  BY <1>1, <1>2, <1>3 DEF Control, Opening, OpenPlaces
<1>5. tmp' \in Index
  <2>1. CASE tmp + WORD < BUFSZ /\ tmp' = tmp + WORD
    BY <1>1, <2>1, Sizes, WordAssumption DEF Index
  <2> QED BY <1>1, <2>1 DEF zero_inbuf, zero_ridx, regs
<1>6. PICK q \in PortType : ~q.open /\ port' = [port EXCEPT ![j] = q]
  <2>1. CASE zero_inbuf
    <3>1. PICK b : b = [k \in Index |-> IF tmp <= k /\ k < tmp + WORD THEN 0 ELSE port[j].inbuf[k]]
      OBVIOUS
    <3>2. b \in [Index -> Nat]
      BY <1>1, <3>1, PortFacts
    <3>3. PICK q : q = [port[j] EXCEPT !.inbuf = b]
      OBVIOUS
    <3>4. q \in PortType /\ q.open = port[j].open
      BY <1>1, <3>2, <3>3 DEF PortType
    <3>5. port' = [port EXCEPT ![j] = q]
      BY <1>2, <2>1, <3>1, <3>3 DEF zero_inbuf, Zeroed, Index
    <3> QED BY <1>4, <3>4, <3>5
  <2>2. CASE zero_ridx
    <3>1. PICK q : q = [port[j] EXCEPT !.ridx = 0]
      OBVIOUS
    <3>2. q \in PortType /\ q.open = port[j].open
      BY <1>1, <3>1, PortFields
    <3>3. port' = [port EXCEPT ![j] = q]
      BY <1>1, <1>2, <2>2, <3>1 DEF zero_ridx
    <3> QED BY <1>4, <3>2, <3>3
  <2> QED BY <2>1, <2>2
<1> QED BY <1>2, <1>3, <1>4, <1>5, <1>6, ClearStep

\* The last store of the memset: the ring is empty, or an overflow has come between.
LEMMA EmptyKeeps ==
    ASSUME IInv, zero_widx
    PROVE  IInv'
<1>1. Control /\ Alone /\ History /\ port \in [Ports -> PortType] /\ 0 \in Index
  BY Sizes DEF IInv, Control, Index
<1>2. PICK j \in Ports : j = fd
  BY <1>1 DEF Control
<1>3. PICK end \in Nat : end = End(j)
  BY <1>1 DEF History, IsFifo
<1>4. PICK o \in {"none", "torn"} : o = IF port[j].ridx = 0 THEN "none" ELSE "torn"
  OBVIOUS
<1>5. /\ pc = "widx" /\ pc' = "dlab" /\ fd' = j /\ tmp' = tmp
      /\ since' = [since EXCEPT ![j] = end] /\ last' = [last EXCEPT ![j] = end]
      /\ ovf' = [ovf EXCEPT ![j] = o]
      /\ UNCHANGED <<prog, num_open, linebuf, uart, fn, rx, shared, chr, status>>
  BY <1>2, <1>3, <1>4 DEF zero_widx, At, End, dev, regs
<1>6. ~port[j].open
  BY <1>1, <1>2, <1>5 DEF Control, Opening, OpenPlaces
<1>7. PICK q : q = [port[j] EXCEPT !.widx = 0]
  OBVIOUS
<1>8. q \in PortType /\ ~q.open /\ q.ridx = port[j].ridx /\ q.widx = 0
  BY <1>1, <1>6, <1>7 DEF PortType
<1>9. port' = [port EXCEPT ![j] = q]
  BY <1>1, <1>2, <1>7 DEF zero_widx, Emptied
<1>10. Ring(q, end, o, end, end)
  <2>1. CASE o = "none"
    BY <1>4, <1>8, <2>1, FreshRing
  <2>2. CASE o = "torn"
    BY <2>2 DEF Ring
  <2> QED BY <2>1, <2>2
<1>11. port' \in [Ports -> PortType] /\ SetTo(port, port', j, q)
  BY <1>1, <1>8, <1>9, PortSet
<1>12. /\ port'[j] = q
       /\ \A i \in Ports : (port'[i].open <=> port[i].open) /\ (i # j => port'[i] = port[i])
  BY <1>6, <1>8, <1>11 DEF SetTo
<1>13. \A i \in Ports : End(i)' = End(i)
  BY <1>5 DEF End
<1>14. Control'
  <2>1. 0 \in Ports /\ 1 \in Ports
    BY DEF Ports
  <2>2. Count(0)' = Count(0) /\ Count(1)' = Count(1)
    BY <1>12, <2>1 DEF Count
  <2>3. \A i \in Ports : Opening(i)' => ~port'[i].open
    BY <1>5, <1>6, <1>12 DEF Opening
  <2> QED BY <1>1, <1>5, <1>11, <2>2, <2>3 DEF Control
<1>15. Alone'
  <2>1. \A i \in Ports : ~shared => ~uart[i].dlab
    BY <1>1, <1>5 DEF Alone
  <2> QED BY <1>1, <1>5, <1>12, <2>1 DEF Alone
<1>16. LineInv'
  BY <1>5 DEF IInv, LineInv
<1>17. /\ last' \in [Ports -> Nat] /\ since' \in [Ports -> Nat]
       /\ ovf' \in [Ports -> {"none", "clean", "raced", "torn"}]
       /\ last'[j] = end /\ since'[j] = end /\ ovf'[j] = o
       /\ \A i \in Ports : i # j => last'[i] = last[i] /\ since'[i] = since[i] /\ ovf'[i] = ovf[i]
  BY <1>1, <1>3, <1>4, <1>5 DEF History
<1>18. History'
  <2>1. \A i \in Ports : IsFifo(uart'[i].fifo, End(i)')
    BY <1>1, <1>5, <1>13 DEF History
  <2> QED BY <1>1, <1>5, <1>17, <2>1 DEF History
<1>19. ASSUME NEW i \in Ports PROVE PortInv(i)'
  <2>1. Getc(port[i], End(i), pc', tmp', chr') /\ Getc(port'[i], End(i)', pc', tmp', chr')
    BY <1>5, GetcFree
  <2>2. CASE i = j
    <3>1. Ring(port'[i], End(i)', ovf'[i], last'[i], since'[i])
      BY <1>3, <1>10, <1>12, <1>13, <1>17, <2>2
    <3> QED BY <2>1, <3>1 DEF PortInv
  <2>3. CASE i # j
    <3>1. PortInv(i) /\ Kept(i)
      BY <1>12, <1>13, <1>17, <2>3 DEF IInv, Kept
    <3>2. Active(i)' => Active(i)
      BY <1>5, <1>12, <2>3 DEF Active, Ready
    <3> QED BY <2>1, <3>1, <3>2, KeepPort
  <2> QED BY <2>2, <2>3
<1> QED BY <1>14, <1>15, <1>16, <1>18, <1>19 DEF IInv

LEMMA Cleared ==
    ASSUME Control, History, NEW j \in Ports, rx' = [rx EXCEPT ![j] = SubSeq(rx[j], 1, End(j))],
           uart'[j].fifo = << >>
    PROVE  /\ rx'[j] \in Seq(prog.chars) /\ End(j)' = End(j) /\ Len(rx'[j]) = End(j)
<1>1. PICK n \in Nat, m \in Nat, s \in Seq(prog.chars) :
         s = rx[j] /\ n = Len(s) /\ m = Len(uart[j].fifo) /\ End(j) = n - m /\ n - m \in Nat
  <2>1. PICK s \in Seq(prog.chars) : s = rx[j]
    BY DEF History
  <2>2. PICK n \in Nat, m \in Nat : n = Len(s) /\ m = Len(uart[j].fifo)
    <3>1. Len(s) \in Nat /\ Len(uart[j].fifo) \in Nat
      BY PortFacts
    <3> QED BY <3>1
  <2>3. End(j) = n - m
    BY <2>1, <2>2 DEF End
  <2>4. End(j) \in Nat
    BY DEF History, IsFifo
  <2> QED BY <2>1, <2>2, <2>3, <2>4
<1>2. SubSeq(s, 1, n - m) \in Seq(prog.chars) /\ Len(SubSeq(s, 1, n - m)) = n - m
  <2>1. PICK S : S = prog.chars
    OBVIOUS
  <2>2. PICK t \in Seq(S), k \in Nat : t = s /\ k = n - m /\ k <= Len(t)
    <3>1. n - m <= n
      OBVIOUS
    <3> QED BY <1>1, <2>1, <3>1
  <2>3. SubSeq(t, 1, k) \in Seq(S) /\ Len(SubSeq(t, 1, k)) = k
    BY <2>2
  <2> QED BY <2>1, <2>2, <2>3
<1>3. rx'[j] \in Seq(prog.chars) /\ Len(rx'[j]) = n - m
  <2>1. rx \in [Ports -> Seq(prog.chars)] /\ rx' = [rx EXCEPT ![j] = SubSeq(s, 1, n - m)]
    BY <1>1 DEF History
  <2> QED BY <1>2, <2>1
<1>4. End(j)' = n - m - 0
  BY <1>3 DEF End
<1>5. n - m - 0 = n - m
  OBVIOUS
<1>6. End(j)' = n - m
  BY <1>4, <1>5
<1> QED BY <1>1, <1>3, <1>6, Zenon

LEMMA DoneKeeps ==
    ASSUME IInv, open_done
    PROVE  IInv'
<1>0. Control /\ Alone /\ History /\ port \in [Ports -> PortType] /\ IsUarts(uart)
  BY DEF IInv, Control
<1>1. PICK j \in Ports : j = fd
  BY <1>0 DEF Control
<1>2. /\ pc = "fifo" /\ pc' = "idle" /\ fd' = 0 /\ num_open' = num_open + 1
      /\ uart' = [uart EXCEPT ![j].fifo = << >>, ![j].ier = TRUE]
      /\ port' = [port EXCEPT ![j].open = TRUE, ![j].blocking = TRUE]
      /\ rx' = [rx EXCEPT ![j] = SubSeq(rx[j], 1, End(j))]
      /\ UNCHANGED <<prog, linebuf, fn, last, since, ovf, tmp, chr, status>>
  BY <1>0, <1>1 DEF open_done, At, End, History
<1>3. shared' \in BOOLEAN /\ (shared' <=> (shared \/ num_open + 1 = 2))
  <2>1. shared' = (shared \/ num_open + 1 = 2)
    BY DEF open_done
  <2> QED BY <2>1, Zenon
<1>4. PICK q : q = [port[j] EXCEPT !.open = TRUE, !.blocking = TRUE]
  OBVIOUS
<1>5. /\ q \in PortType /\ q.open /\ q.inbuf = port[j].inbuf
      /\ q.ridx = port[j].ridx /\ q.widx = port[j].widx
  <2>1. port[j] \in PortType
    BY <1>0
  <2> QED BY <1>4, <2>1 DEF PortType
<1>6. port' = [port EXCEPT ![j] = q]
  BY <1>0, <1>2, <1>4
<1>7. port' \in [Ports -> PortType] /\ SetTo(port, port', j, q)
  BY <1>0, <1>5, <1>6, PortSet
<1>8. /\ \A i \in Ports : /\ port'[i].inbuf = port[i].inbuf /\ port'[i].ridx = port[i].ridx
                          /\ port'[i].widx = port[i].widx
      /\ port'[j].open /\ \A i \in Ports : i # j => port'[i].open = port[i].open
  BY <1>5, <1>7 DEF SetTo
<1>9. PICK u : u = [uart[j] EXCEPT !.fifo = << >>, !.ier = TRUE]
  OBVIOUS
<1>10. IsFields(u, << >>, TRUE, uart[j].dlab)
  <2>1. << >> \in Seq(Nat) /\ TRUE \in BOOLEAN
    OBVIOUS
  <2>2. IsUart(uart[j])
    BY <1>0 DEF IsUarts
  <2> QED BY <1>9, <2>1, <2>2, UartFields
<1>11. uart' = [uart EXCEPT ![j] = u]
  BY <1>0, <1>2, <1>9 DEF IsUarts
<1>12. IsUarts(uart') /\ SetTo(uart, uart', j, u)
  BY <1>0, <1>10, <1>11, UartSet DEF IsFields
<1>13. /\ uart'[j].fifo = << >> /\ \A i \in Ports : i # j => uart'[i].fifo = uart[i].fifo
       /\ \A i \in Ports : uart'[i].dlab = uart[i].dlab
       /\ \A i \in Ports : i # j => uart'[i].ier = uart[i].ier
  BY <1>10, <1>12 DEF IsFields, SetTo
<1>14. rx'[j] \in Seq(prog.chars) /\ End(j)' = End(j)
  BY <1>0, <1>2, <1>13, Cleared
<1>15. rx' \in [Ports -> Seq(prog'.chars)] /\ \A i \in Ports : i # j => rx'[i] = rx[i]
  BY <1>0, <1>2, <1>14 DEF History
<1>16. ASSUME NEW i \in Ports PROVE End(i)' = End(i)
  <2>1. CASE i # j
    BY <1>13, <1>15, <2>1 DEF End
  <2> QED BY <1>14, <2>1
<1>17. ASSUME NEW i \in Ports PROVE End(i)' = End(i) /\ IsFifo(uart'[i].fifo, End(i)')
  <2>1. IsFifo(uart[i].fifo, End(i)) /\ End(i)' = End(i)
    BY <1>0, <1>16 DEF History
  <2>2. uart'[i].fifo = << >> \/ uart'[i].fifo = uart[i].fifo
    BY <1>13
  <2> QED BY <2>1, <2>2 DEF IsFifo
<1>18. Control'
  <2>1. Ports = {0, 1} /\ num_open = Count(0) + Count(1) /\ ~port[j].open
    BY <1>0, <1>1, <1>2 DEF Ports, Control, Opening, OpenPlaces
  <2>2. num_open' = Count(0)' + Count(1)'
    <3>1. CASE j = 0
      BY <1>2, <1>8, <2>1, <3>1 DEF Count
    <3>2. CASE j = 1
      BY <1>2, <1>8, <2>1, <3>2 DEF Count
    <3> QED BY <2>1, <3>1, <3>2
  <2>3. \A i \in Ports : ~Opening(i)'
    BY <1>2 DEF Opening, OpenPlaces
  <2>4. fd' \in Ports
    BY <1>2, <2>1
  <2> QED BY <1>0, <1>2, <1>3, <1>7, <1>12, <2>2, <2>3, <2>4 DEF Control
<1>19. Alone'
  <2>1. num_open \in Nat
    BY <1>0 DEF Control, Count
  <2>2. ~shared' => ~shared /\ num_open = 0
    BY <1>0, <1>3, <2>1 DEF Alone
  <2>3. SUFFICES ASSUME ~shared', ~shared, num_open = 0 PROVE Alone'
    BY <2>2 DEF Alone
  <2>4. num_open' <= 1 /\ status' # "spin"
    BY <1>0, <1>2, <2>3 DEF Alone
  <2>5. ASSUME NEW i \in Ports
        PROVE  (uart'[i].ier => port'[i].open) /\ ~uart'[i].dlab
    BY <1>0, <1>2, <1>8, <1>13, <2>3 DEF Alone
  <2> QED BY <2>4, <2>5 DEF Alone
<1>20. LineInv'
  BY <1>2 DEF IInv, LineInv
<1>21. History'
  BY <1>0, <1>2, <1>15, <1>17 DEF History
<1>22. ASSUME NEW i \in Ports PROVE PortInv(i)'
  <2>1. PortInv(i) /\ Kept(i)
    BY <1>2, <1>8, <1>17 DEF IInv, Kept
  <2>2. Active(i)' => Active(i)
    BY <1>1, <1>2, <1>8 DEF Active, Ready, Opening, OpenPlaces
  <2>3. Getc(port[i], End(i), pc', tmp', chr')
    BY <1>2, GetcFree
  <2> QED BY <2>1, <2>2, <2>3, KeepPort
<1> QED BY <1>18, <1>19, <1>20, <1>21, <1>22 DEF IInv

\* ser_getc takes the oldest character.
LEMMA Taken ==
    ASSUME NEW p \in PortType, NEW q \in PortType, NEW end \in Nat, NEW o, NEW l, NEW s \in Nat,
           Ring(p, end, o, l, s), q.inbuf = p.inbuf, q.widx = p.widx, NEW c \in Nat,
           o \notin {"raced", "torn"} => /\ Used(p) >= 1 /\ c = end - Used(p) + 1
                          /\ q.ridx = Nx(p.ridx)
    PROVE  Ring(q, end, o, c, s)
<1>1. s <= end
  BY DEF Ring
<1>2. CASE o \in {"raced", "torn"}
  BY <1>1, <1>2 DEF Ring, Above
<1>3. CASE o \notin {"raced", "torn"}
  <2>1. PICK r \in Index, w \in Index, b \in [Index -> Nat] :
          r = p.ridx /\ w = p.widx /\ b = p.inbuf
    BY DEF PortType
  <2>2. PICK u \in 0 .. BUFSZ - 1 : u = Used(p) /\ u = Dist(r, w)
    BY <2>1, DistFacts DEF Used
  <2>3. u >= 1 /\ c = end - u + 1 /\ q.ridx = Nx(r) /\ q.widx = w /\ q.inbuf = b
    BY <1>3, <2>1, <2>2
  <2>4. Used(q) = u - 1
    <3>1. Dist(Nx(r), w) = Dist(r, w) - 1
      BY <2>2, <2>3, DistFacts, Sizes
    <3> QED BY <2>2, <2>3, <3>1 DEF Used
  <2>5. \A k \in 1 .. u : b[Before(w, k)] = end - k + 1
    BY <1>3, <2>1, <2>2 DEF Ring, Exact
  <2>6. Exact(q, end, c)
    <3>1. c <= end /\ u - 1 = IF end - c < BUFSZ - 1 THEN end - c ELSE BUFSZ - 1
      BY <2>2, <2>3, Sizes
    <3>2. \A k \in 1 .. u - 1 : b[Before(w, k)] = end - k + 1
      BY <2>5, Sizes
    <3> QED BY <2>3, <2>4, <3>1, <3>2 DEF Exact
  <2>7. Above(q, IF o = "none" THEN Used(q) ELSE BUFSZ, s)
    <3>1. CASE o = "none"
      <4>1. \A k \in 1 .. u : b[Before(w, k)] > s
        BY <2>1, <2>2, <3>1 DEF Ring, Above
      <4>2. \A k \in 1 .. u - 1 : b[Before(w, k)] > s
        BY <4>1, Sizes
      <4> QED BY <2>3, <2>4, <3>1, <4>2 DEF Above
    <3>2. CASE o # "none"
      <4>1. Above(p, BUFSZ, s)
        BY <1>3, <3>2 DEF Ring
      <4>2. \A k \in 1 .. BUFSZ : b[Before(w, k)] > s
        BY <2>1, <4>1 DEF Above
      <4> QED BY <2>3, <3>2, <4>2 DEF Above
    <3> QED BY <3>1, <3>2
  <2> QED BY <1>1, <2>6, <2>7 DEF Ring
<1> QED BY <1>2, <1>3

LEMMA TakeKeeps ==
    ASSUME IInv, getc_store
    PROVE  IInv'
<1>0. Control /\ Alone /\ History /\ port \in [Ports -> PortType] /\ tmp \in Index /\ chr \in Nat
  BY DEF IInv, Control
<1>1. PICK j \in Ports : j = fd
  BY <1>0 DEF Control
<1>2. /\ pc = "store" /\ GetcReturns(chr) /\ last' = [last EXCEPT ![j] = chr]
      /\ port' = [port EXCEPT ![j].ridx = BNEXT(tmp)]
      /\ UNCHANGED <<prog, num_open, uart, rx, since, ovf, shared, status>>
  BY <1>1 DEF getc_store, At, NextRidx, dev
<1>3. /\ LineInv' /\ fd' \in Ports /\ tmp' \in Index /\ chr' \in Nat
      /\ pc' \in {"idle", "pend", "scan"}
  BY <1>0, <1>2, ReturnsFacts
<1>4. PICK r \in Index : r = BNEXT(tmp) /\ r = Nx(tmp)
  BY <1>0, NextFacts
<1>5. PICK q : q = [port[j] EXCEPT !.ridx = r]
  OBVIOUS
<1>6. /\ q \in PortType /\ q.open = port[j].open /\ q.inbuf = port[j].inbuf
      /\ q.ridx = r /\ q.widx = port[j].widx
  BY <1>0, <1>4, <1>5, PortFields
<1>7. port' = [port EXCEPT ![j] = q]
  BY <1>0, <1>2, <1>4, <1>5
<1>8. port' \in [Ports -> PortType] /\ SetTo(port, port', j, q)
  BY <1>0, <1>6, <1>7, PortSet
<1>9. /\ port'[j] = q /\ \A i \in Ports : i # j => port'[i] = port[i]
      /\ \A i \in Ports : port'[i].open = port[i].open
  BY <1>6, <1>8 DEF SetTo
<1>10. /\ last' \in [Ports -> Nat] /\ last'[j] = chr
       /\ \A i \in Ports : i # j => last'[i] = last[i]
  BY <1>0, <1>2 DEF History
<1>11. \A i \in Ports : End(i)' = End(i)
  BY <1>2 DEF End
<1>12. Control'
  <2>1. 0 \in Ports /\ 1 \in Ports
    BY DEF Ports
  <2>2. Count(0)' = Count(0) /\ Count(1)' = Count(1)
    BY <1>9, <2>1 DEF Count
  <2>3. \A i \in Ports : ~Opening(i)'
    BY <1>3 DEF Opening, OpenPlaces
  <2> QED BY <1>0, <1>2, <1>3, <1>8, <2>2, <2>3 DEF Control
<1>13. Alone'
  BY <1>0, <1>2, <1>9 DEF Alone
<1>14. History'
  <2>1. \A i \in Ports : IsFifo(uart'[i].fifo, End(i)')
    BY <1>0, <1>2, <1>11 DEF History
  <2> QED BY <1>0, <1>2, <1>10, <2>1 DEF History
<1>15. ASSUME NEW i \in Ports PROVE PortInv(i)'
  <2>1. Getc(port[i], End(i), pc', tmp', chr') /\ Getc(port'[i], End(i)', pc', tmp', chr')
    BY <1>3, GetcFree
  <2>2. Active(i)' => Active(i)
    BY <1>3, <1>9 DEF Active, Ready, Opening, OpenPlaces
  <2>3. CASE i # j
    <3>1. PortInv(i) /\ Kept(i)
      BY <1>2, <1>9, <1>10, <1>11, <2>3 DEF IInv, Kept
    <3> QED BY <2>1, <2>2, <3>1, KeepPort
  <2>4. CASE i = j
    <3>1. SUFFICES ASSUME Active(j) PROVE Ring(port'[j], End(j)', ovf'[j], last'[j], since'[j])
      BY <2>1, <2>2, <2>4 DEF PortInv
    <3>2. /\ Ring(port[j], End(j), ovf[j], last[j], since[j])
          /\ ovf[j] \notin {"raced", "torn"} => Getc(port[j], End(j), pc, tmp, chr)
      BY <1>1, <3>1 DEF IInv, PortInv
    <3>3. End(j) \in Nat /\ since[j] \in Nat /\ port[j] \in PortType
      BY <1>0 DEF History, IsFifo
    <3>4. ovf[j] \notin {"raced", "torn"} => /\ Used(port[j]) >= 1 /\ chr = End(j) - Used(port[j]) + 1
                              /\ q.ridx = Nx(port[j].ridx)
      BY <1>2, <1>4, <1>6, <3>2 DEF Getc
    <3>5. Ring(q, End(j), ovf[j], chr, since[j])
      BY <1>0, <1>6, <3>2, <3>3, <3>4, Taken
    <3> QED BY <1>2, <1>9, <1>10, <1>11, <3>5
  <2> QED BY <2>3, <2>4
<1> QED BY <1>3, <1>12, <1>13, <1>14, <1>15 DEF IInv

-----------------------------------------------------------------------------
(***************************************************************************)
(* The receive interrupt.                                                  *)
(***************************************************************************)
\* what the handler makes of the mark of a port, where over says that the ring overflows
\* and busy that ser_getc is between its load of ridx and its store
Marked(o, over, busy) ==
    IF ~over \/ o \in {"raced", "torn"} THEN o ELSE IF busy THEN "raced" ELSE "clean"

LEMMA DrainRing ==
    ASSUME NEW p \in PortType, NEW chars \in Seq(Nat), NEW end \in Nat, IsFifo(chars, end),
           NEW q, q = Stored(p, chars), NEW n \in Nat, n = Len(chars),
           NEW o, NEW o2, NEW busy \in BOOLEAN, o2 = Marked(o, Used(p) + n >= BUFSZ, busy),
           NEW l \in Nat, NEW s \in Nat, Ring(p, end, o, l, s)
    PROVE  Ring(q, end + n, o2, l, s)
<1>1. PICK u \in 0 .. BUFSZ - 1 : u = Used(p)
  BY DistFacts DEF Used, PortType
<1>2. IsDrained(q, p, n, end)
  BY DrainFacts
<1>3. /\ Used(q) = Upto(u + n, BUFSZ - 1)
      /\ \A m \in 0 .. BUFSZ, x \in 0 .. end : Above(p, m, x) => Above(q, Upto(m + n, BUFSZ), x)
      /\ Exact(p, end, l) => Exact(q, end + n, l)
  BY <1>1, <1>2 DEF IsDrained
<1>4. s \in 0 .. end /\ s <= end + n /\ u \in 0 .. BUFSZ /\ BUFSZ \in 0 .. BUFSZ
  BY Sizes DEF Ring
<1>5. o2 \notin {"raced", "torn"} => Exact(q, end + n, l)
  BY <1>3 DEF Ring, Marked
<1>6. ASSUME o2 # "torn" PROVE Above(q, IF o2 = "none" THEN Used(q) ELSE BUFSZ, s)
  <2>0. o # "torn"
    BY <1>6 DEF Marked
  <2>1. CASE o # "none"
    <3>1. Above(p, BUFSZ, s) /\ o2 # "none"
      BY <2>0, <2>1 DEF Ring, Marked
    <3>2. Upto(BUFSZ + n, BUFSZ) = BUFSZ
      BY Sizes DEF Upto
    <3>3. Above(q, BUFSZ, s)
      BY <1>3, <1>4, <3>1, <3>2
    <3> QED BY <3>1, <3>3
  <2>2. CASE o = "none"
    <3>1. Above(q, Upto(u + n, BUFSZ), s)
      BY <1>1, <1>3, <1>4, <2>2 DEF Ring
    <3>2. CASE u + n >= BUFSZ
      <4>1. o2 # "none"
        BY <1>1, <2>2, <3>2 DEF Marked
      <4>2. Upto(u + n, BUFSZ) = BUFSZ
        BY <3>2, Sizes DEF Upto
      <4> QED BY <3>1, <4>1, <4>2
    <3>3. CASE ~(u + n >= BUFSZ)
      <4>1. o2 = "none"
        BY <1>1, <2>2, <3>3 DEF Marked
      <4>2. Upto(u + n, BUFSZ) = Used(q)
        BY <1>3, <3>3, Sizes DEF Upto
      <4> QED BY <3>1, <4>1, <4>2
    <3> QED BY <3>2, <3>3
  <2> QED BY <2>1, <2>2
<1> QED BY <1>4, <1>5, <1>6 DEF Ring

LEMMA DrainGetc ==
    ASSUME NEW p \in PortType, NEW chars \in Seq(Nat), NEW end \in Nat, IsFifo(chars, end),
           NEW q, q = Stored(p, chars), NEW n \in Nat, n = Len(chars),
           NEW o, NEW at, Marked(o, Used(p) + n >= BUFSZ, at \in {"byte", "adv", "store"}) \notin {"raced", "torn"},
           NEW t, NEW c, Getc(p, end, at, t, c)
    PROVE  Getc(q, end + n, at, t, c)
<1>1. PICK u \in 0 .. BUFSZ - 1 : u = Used(p)
  BY DistFacts DEF Used, PortType
<1>2. IsDrained(q, p, n, end)
  BY DrainFacts
<1>3. Used(q) = Upto(u + n, BUFSZ - 1) /\ (u + n < BUFSZ => q.ridx = p.ridx)
  BY <1>1, <1>2 DEF IsDrained
<1>4. CASE u + n >= BUFSZ
  <2>1. at \notin {"byte", "adv", "store"}
    BY <1>1, <1>4 DEF Marked
  <2>2. Used(q) >= 1
    BY <1>3, <1>4, Sizes DEF Upto
  <2> QED BY <2>1, <2>2 DEF Getc
<1>5. CASE ~(u + n >= BUFSZ)
  <2>1. q.ridx = p.ridx /\ Used(q) = u + n
    BY <1>3, <1>5, Sizes DEF Upto
  <2>2. u >= 1 => u + n >= 1
    BY Sizes
  <2>3. (end + n) - (u + n) + 1 = end - u + 1
    BY Sizes
  <2> QED BY <1>1, <2>1, <2>2, <2>3 DEF Getc
<1> QED BY <1>4, <1>5

\* The divisor latch is open only inside ser_open of a port that is not open, whose UART
\* then does not interrupt.
LEMMA NoSpin ==
    ASSUME IInv, NEW i \in Ports, ~shared
    PROVE  Outcome(i) # "spin"
<1>1. (uart[i].ier => port[i].open) /\ (uart[i].dlab => pc = "fmt" /\ fd = i)
  BY DEF IInv, Alone
<1>2. Opening(i) => ~port[i].open
  BY DEF IInv, Control
<1>3. ~(uart[i].ier /\ uart[i].dlab)
  BY <1>1, <1>2 DEF Opening, OpenPlaces
<1>4. Serves(i) => uart[i].ier
  BY DEF Serves, Pending
<1> QED BY <1>3, <1>4 DEF Outcome

\* One port of a handler that returns.
Handled(i) ==
    /\ port'[i] \in PortType /\ port'[i].open = port[i].open
    /\ IsUart(uart'[i]) /\ uart'[i].ier = uart[i].ier /\ uart'[i].dlab = uart[i].dlab
    /\ IsFifo(uart'[i].fifo, End(i)') /\ ovf'[i] \in {"none", "clean", "raced", "torn"}
    /\ Active(i) => /\ Ring(port'[i], End(i)', ovf'[i], last[i], since[i])
                    /\ fd = i /\ ovf'[i] \notin {"raced", "torn"} => Getc(port'[i], End(i)', pc, tmp, chr)

LEMMA ServedPort ==
    ASSUME IInv, NEW i \in Ports, Serves(i), rx' = rx, port'[i] = Drained(i),
           uart'[i] = [uart[i] EXCEPT !.fifo = << >>],
           ovf'[i] = IF ~Overflows(i) \/ ovf[i] \in {"raced", "torn"} THEN ovf[i]
                     ELSE IF InGetc(i) THEN "raced" ELSE "clean"
    PROVE  Handled(i)
<1>0. Control /\ History /\ PortInv(i) /\ IsUart(uart[i])
  BY PortFacts DEF IInv
<1>1. PICK p \in PortType, chars \in Seq(Nat), end \in Nat, n \in Nat :
        p = port[i] /\ chars = uart[i].fifo /\ end = End(i) /\ n = Len(chars) /\ IsFifo(chars, end)
  <2>1. port[i] \in PortType /\ uart[i].fifo \in Seq(Nat) /\ Len(uart[i].fifo) \in Nat
    BY <1>0, PortFacts
  <2>2. IsFifo(uart[i].fifo, End(i))
    BY <1>0 DEF History
  <2>3. End(i) \in Nat
    BY <2>2 DEF IsFifo
  <2> QED BY <2>1, <2>2, <2>3
<1>2. PICK q : q = Stored(p, chars) /\ q = port'[i]
  BY <1>1 DEF Drained
<1>3. q \in PortType /\ q.open = p.open
  <2>1. IsDrained(q, p, n, end)
    BY <1>1, <1>2, DrainFacts
  <2> QED BY <2>1 DEF IsDrained
<1>4. IsFields(uart'[i], << >>, uart[i].ier, uart[i].dlab)
  <2>1. PICK e \in Seq(Nat) : e = << >>
    <3>1. << >> \in Seq(Nat)
      OBVIOUS
    <3> QED BY <3>1
  <2>2. PICK u : u = uart[i] /\ IsUart(u)
    BY <1>0
  <2>3. IsFields([u EXCEPT !.fifo = e], e, u.ier, u.dlab)
    BY <2>2, UartFields
  <2> QED BY <2>1, <2>2, <2>3
<1>5. End(i)' = end + n /\ IsFifo(uart'[i].fifo, End(i)')
  <2>1. PICK len \in Nat : len = Len(rx[i])
    <3>1. PICK s \in Seq(prog.chars) : s = rx[i]
      BY <1>0 DEF History
    <3>2. Len(s) \in Nat
      OBVIOUS
    <3> QED BY <3>1, <3>2
  <2>2. end = len - n
    BY <1>1, <2>1 DEF End
  <2>3. uart'[i].fifo = << >> /\ Len(uart'[i].fifo) = 0
    BY <1>4 DEF IsFields
  <2>4. End(i)' = len - 0
    BY <2>1, <2>3 DEF End
  <2>5. End(i)' = end + n
    BY <2>2, <2>4
  <2> QED BY <2>3, <2>5 DEF IsFifo
<1>6. Overflows(i) <=> Used(p) + n >= BUFSZ
  <2>1. p.ridx \in Index /\ p.widx \in Index
    BY DEF PortType
  <2>2. (p.widx - p.ridx) % BUFSZ = Used(p)
    BY <2>1, DistFacts DEF Used
  <2> QED BY <1>1, <2>2 DEF Overflows
<1>7. PICK busy \in BOOLEAN : busy <=> InGetc(i)
  BY Zenon DEF InGetc
<1>8. PICK o, o2 : o = ovf[i] /\ o2 = ovf'[i] /\ o \in {"none", "clean", "raced", "torn"}
  BY <1>0 DEF History
<1>9. o2 = Marked(o, Used(p) + n >= BUFSZ, busy)
  BY <1>6, <1>7, <1>8 DEF Marked
<1>10. o2 \in {"none", "clean", "raced", "torn"} /\ (o \in {"raced", "torn"} => o2 \in {"raced", "torn"})
  BY <1>8, <1>9 DEF Marked
<1>11. ASSUME Active(i)
       PROVE  /\ Ring(q, end + n, o2, last[i], since[i])
              /\ fd = i /\ o2 \notin {"raced", "torn"} => Getc(q, end + n, pc, tmp, chr)
  <2>1. /\ Ring(p, end, o, last[i], since[i])
        /\ fd = i /\ o \notin {"raced", "torn"} => Getc(p, end, pc, tmp, chr)
    BY <1>0, <1>1, <1>8, <1>11 DEF PortInv
  <2>2. last[i] \in Nat /\ since[i] \in Nat
    BY <1>0 DEF History
  <2>3. Ring(q, end + n, o2, last[i], since[i])
    BY <1>1, <1>2, <1>9, <2>1, <2>2, DrainRing
  <2>4. ASSUME fd = i, o2 \notin {"raced", "torn"} PROVE Getc(q, end + n, pc, tmp, chr)
    <3>1. Getc(p, end, pc, tmp, chr)
      BY <1>10, <2>1, <2>4
    <3>2. Marked(o, Used(p) + n >= BUFSZ, pc \in {"byte", "adv", "store"}) \notin {"raced", "torn"}
      BY <1>7, <1>9, <2>4 DEF InGetc, Marked
    <3> QED BY <1>1, <1>2, <3>1, <3>2, DrainGetc
  <2> QED BY <2>3, <2>4
<1>12. /\ port'[i] \in PortType /\ port'[i].open = port[i].open
  BY <1>1, <1>2, <1>3
<1>13. IsUart(uart'[i]) /\ uart'[i].ier = uart[i].ier /\ uart'[i].dlab = uart[i].dlab
  BY <1>4 DEF IsFields
<1>14. Active(i) => /\ Ring(port'[i], End(i)', ovf'[i], last[i], since[i])
                    /\ fd = i /\ ovf'[i] \notin {"raced", "torn"} => Getc(port'[i], End(i)', pc, tmp, chr)
  BY <1>2, <1>5, <1>8, <1>11
<1> QED BY <1>5, <1>8, <1>10, <1>12, <1>13, <1>14 DEF Handled

LEMMA SkippedPort ==
    ASSUME IInv, NEW i \in Ports, rx' = rx, port'[i] = port[i], uart'[i] = uart[i], ovf'[i] = ovf[i]
    PROVE  Handled(i)
<1>0. Control /\ History /\ PortInv(i)
  BY DEF IInv
<1>1. End(i)' = End(i) /\ IsFifo(uart[i].fifo, End(i)) /\ ovf[i] \in {"none", "clean", "raced", "torn"}
  BY <1>0 DEF End, History
<1>2. port[i] \in PortType /\ IsUart(uart[i])
  BY <1>0, PortFacts
<1>3. Active(i) => /\ Ring(port[i], End(i), ovf[i], last[i], since[i])
                   /\ fd = i /\ ovf[i] \notin {"raced", "torn"} => Getc(port[i], End(i), pc, tmp, chr)
  BY <1>0 DEF PortInv
<1> QED BY <1>1, <1>2, <1>3 DEF Handled

LEMMA InterruptKeeps ==
    ASSUME IInv, recv_intr
    PROVE  IInv'
<1>0. Control /\ Alone /\ LineInv /\ History
  BY DEF IInv
<1>1. /\ UNCHANGED <<prog, num_open, linebuf, rx, pc, fn, fd, tmp, chr, last, since, shared>>
      /\ status' = IF Outcome(0) # "running" THEN Outcome(0) ELSE Outcome(1)
  BY DEF recv_intr, regs
<1>2. /\ status' \in {"running", "panic", "spin"}
      /\ ~shared => status' # "spin"
  <2>1. 0 \in Ports /\ 1 \in Ports
    BY DEF Ports
  <2>2. \A i \in Ports : ~shared => Outcome(i) # "spin"
    BY NoSpin
  <2>3. \A i \in Ports : Outcome(i) \in {"running", "panic", "spin"}
    BY DEF Outcome
  <2> QED BY <1>1, <2>1, <2>2, <2>3
<1>3. /\ \A i \in Ports : Handled(i)
      /\ port' = [i \in Ports |-> port'[i]] /\ uart' = [i \in Ports |-> uart'[i]]
      /\ ovf' = [i \in Ports |-> ovf'[i]]
  <2>1. CASE UNCHANGED <<port, uart, ovf>>
    <3>1. /\ port' = [i \in Ports |-> port'[i]] /\ uart' = [i \in Ports |-> uart'[i]]
          /\ ovf' = [i \in Ports |-> ovf'[i]]
      BY <1>0, <2>1 DEF Control, IsUarts, History
    <3> QED BY <1>1, <2>1, <3>1, SkippedPort
  <2>2. CASE /\ port' = [i \in Ports |-> Drained(i)]
             /\ uart' = [i \in Ports |-> IF Serves(i) THEN [uart[i] EXCEPT !.fifo = << >>] ELSE uart[i]]
             /\ ovf' = [i \in Ports |-> IF ~Overflows(i) \/ ovf[i] \in {"raced", "torn"} THEN ovf[i]
                                        ELSE IF InGetc(i) THEN "raced" ELSE "clean"]
    <3>1. ASSUME NEW i \in Ports PROVE Handled(i)
      <4>1. /\ port'[i] = Drained(i)
            /\ uart'[i] = IF Serves(i) THEN [uart[i] EXCEPT !.fifo = << >>] ELSE uart[i]
            /\ ovf'[i] = IF ~Overflows(i) \/ ovf[i] \in {"raced", "torn"} THEN ovf[i]
                         ELSE IF InGetc(i) THEN "raced" ELSE "clean"
        BY <2>2
      <4>2. CASE Serves(i)
        BY <1>1, <4>1, <4>2, ServedPort
      <4>3. CASE ~Serves(i)
        <5>1. port'[i] = port[i] /\ uart'[i] = uart[i] /\ ovf'[i] = ovf[i]
          BY <4>1, <4>3 DEF Drained, Overflows
        <5> QED BY <1>1, <5>1, SkippedPort
      <4> QED BY <4>2, <4>3
    <3>2. /\ port' = [i \in Ports |-> port'[i]] /\ uart' = [i \in Ports |-> uart'[i]]
          /\ ovf' = [i \in Ports |-> ovf'[i]]
      BY <2>2
    <3> QED BY <3>1, <3>2
  <2> QED BY <2>1, <2>2 DEF recv_intr
<1>4. \A i \in Ports : port'[i].open = port[i].open
  BY <1>3 DEF Handled
<1>5. Control'
  <2>1. port' \in [Ports -> PortType] /\ IsUarts(uart')
    BY <1>3 DEF Handled, IsUarts
  <2>2. 0 \in Ports /\ 1 \in Ports
    BY DEF Ports
  <2>3. Count(0)' = Count(0) /\ Count(1)' = Count(1)
    BY <1>4, <2>2 DEF Count
  <2>4. \A i \in Ports : Opening(i)' => ~port'[i].open
    BY <1>0, <1>1, <1>4 DEF Control, Opening
  <2> QED BY <1>0, <1>1, <1>2, <2>1, <2>3, <2>4 DEF Control
<1>6. Alone'
  <2>1. \A i \in Ports : uart'[i].ier = uart[i].ier /\ uart'[i].dlab = uart[i].dlab
    BY <1>3 DEF Handled
  <2> QED BY <1>0, <1>1, <1>2, <1>4, <2>1 DEF Alone
<1>7. LineInv'
  BY <1>0, <1>1 DEF LineInv
<1>8. History'
  <2>1. \A i \in Ports : IsFifo(uart'[i].fifo, End(i)')
    BY <1>3 DEF Handled
  <2>2. ovf' \in [Ports -> {"none", "clean", "raced", "torn"}]
    BY <1>3 DEF Handled
  <2> QED BY <1>0, <1>1, <2>1, <2>2 DEF History
<1>9. ASSUME NEW i \in Ports PROVE PortInv(i)'
  <2>1. Active(i)' => Active(i)
    BY <1>1, <1>4 DEF Active, Ready, Opening, OpenPlaces
  <2>2. Active(i) => /\ Ring(port'[i], End(i)', ovf'[i], last[i], since[i])
                     /\ fd = i /\ ovf'[i] \notin {"raced", "torn"} => Getc(port'[i], End(i)', pc, tmp, chr)
    BY <1>3 DEF Handled
  <2> QED BY <1>1, <2>1, <2>2 DEF PortInv
<1> QED BY <1>5, <1>6, <1>7, <1>8, <1>9 DEF IInv

-----------------------------------------------------------------------------
LEMMA InitInv == Init => IInv
<1> SUFFICES ASSUME Init PROVE IInv
  OBVIOUS
<1>1. Closed \in PortType /\ Closed.open = FALSE
  BY Sizes DEF Closed, PortType, Index
<1>2. \A i \in Ports : port[i] = Closed
  BY DEF Init
<1>3. \A i \in Ports : uart[i] = [fifo |-> << >>, ier |-> FALSE, dlab |-> FALSE, thr |-> Empty]
  BY DEF Init
<1>4. \A i \in Ports : /\ IsUart(uart[i]) /\ uart[i].fifo = << >> /\ uart[i].ier = FALSE
                       /\ uart[i].dlab = FALSE
  <2>1. PICK e, x : e \in Seq(Nat) /\ e = << >> /\ x = Empty
    <3>1. << >> \in Seq(Nat)
      OBVIOUS
    <3> QED BY <3>1
  <2>2. PICK u : u = [fifo |-> e, ier |-> FALSE, dlab |-> FALSE, thr |-> x]
    OBVIOUS
  <2>3. u \in [fifo : Seq(Nat), ier : BOOLEAN, dlab : BOOLEAN, thr : {x}] /\ u.thr = x
    BY <2>1, <2>2
  <2>4. IsUart(u) /\ u.fifo = e /\ u.ier = FALSE /\ u.dlab = FALSE
    BY <2>2, <2>3 DEF IsUart
  <2> QED BY <1>3, <2>1, <2>2, <2>4
<1>5. IsUarts(uart)
  BY <1>4 DEF Init, IsUarts
<1>6. pc = "idle" /\ fd = 0 /\ tmp = 0 /\ chr = 0 /\ num_open = 0 /\ status = "running"
  BY DEF Init
<1>7. \A i \in Ports : ~Opening(i)
  BY <1>6 DEF Opening, OpenPlaces
<1>8. Control
  <2>1. port \in [Ports -> PortType]
    BY <1>1 DEF Init
  <2>2. shared \in BOOLEAN
    BY DEF Init
  <2>3. 0 \in Ports /\ 1 \in Ports /\ 0 \in Index
    BY Sizes DEF Ports, Index
  <2>4. Count(0) = 0 /\ Count(1) = 0
    BY <1>1, <1>2, <2>3 DEF Count
  <2> QED BY <1>5, <1>6, <1>7, <2>1, <2>2, <2>3, <2>4 DEF Control
<1>9. Alone
  BY <1>4, <1>6 DEF Alone
<1>10. LineInv
  <2>1. linebuf = << >> /\ << >> \in Seq(Ports \X Nat) /\ Len(<< >>) = 0
    BY DEF Init
  <2> QED BY <1>6, <2>1, Sizes DEF LineInv
<1>11. History
  <2>1. rx = [i \in Ports |-> << >>] /\ << >> \in Seq(prog.chars)
    BY DEF Init
  <2>2. \A i \in Ports : End(i) = 0 - 0 /\ Len(uart[i].fifo) = 0
    BY <1>4, <2>1 DEF End
  <2>3. \A i \in Ports : IsFifo(uart[i].fifo, End(i))
    BY <2>2 DEF IsFifo
  <2>4. /\ last \in [Ports -> Nat] /\ since \in [Ports -> Nat]
        /\ ovf \in [Ports -> {"none", "clean", "raced", "torn"}]
    BY DEF Init
  <2> QED BY <2>1, <2>3, <2>4 DEF History
<1>12. \A i \in Ports : PortInv(i)
  BY <1>1, <1>2, <1>6 DEF PortInv, Active, Ready
<1> QED BY <1>8, <1>9, <1>10, <1>11, <1>12 DEF IInv

LEMMA NextInv == IInv /\ [Next]_vars => IInv'
<1> SUFFICES ASSUME IInv, [Next]_vars PROVE IInv'
  OBVIOUS
<1>1. CASE UNCHANGED vars \/ stopped
  <2>1. UNCHANGED <<prog, port, num_open, linebuf, uart, rx, pc, fn, fd, tmp, chr, last, since,
                    ovf, shared, status>>
    BY <1>1 DEF stopped, vars, dev, regs, hist
  <2>2. Control' /\ Alone' /\ LineInv'
    BY <2>1 DEF IInv, Control, Alone, LineInv, Opening, Count
  <2>3. \A i \in Ports : End(i)' = End(i)
    BY <2>1 DEF End
  <2>4. History'
    BY <2>1, <2>3 DEF IInv, History
  <2>5. ASSUME NEW i \in Ports PROVE PortInv(i)'
    <3>1. PortInv(i) /\ (Active(i)' <=> Active(i))
      BY <2>1 DEF IInv, Active, Ready, Opening, OpenPlaces
    <3> QED BY <2>1, <2>3, <3>1 DEF PortInv
  <2> QED BY <2>2, <2>4, <2>5 DEF IInv
<1>2. CASE \E i \in Ports, c \in prog.chars : receive(i, c)
  BY <1>2, ReceiveKeeps
<1>3. CASE \E i \in Ports : transmit(i)
  <2>1. PICK i \in Ports : transmit(i)
    BY <1>3
  <2>2. PICK x : x = Empty
    OBVIOUS
  <2>3. /\ uart' = [uart EXCEPT ![i].thr = x] /\ pc' = pc
        /\ UNCHANGED <<prog, port, num_open, linebuf, fn, rx, last, since, ovf, shared, fd, tmp, chr, status>>
    BY <2>1, <2>2 DEF transmit, regs, hist
  <2> QED BY <2>3, TransmitKeeps
<1>4. CASE \E i \in Ports : open_begin(i)
  BY <1>4, BeginKeeps
<1>5. CASE \E i \in Ports : ser_close(i)
  BY <1>5, CloseKeeps
<1>6. CASE \E i \in Ports, b \in BOOLEAN : ser_block(i, b)
  BY <1>6, BlockKeeps
<1>7. CASE \E i \in Ports, f \in prog.fns, n \in Counts : call(f, i, n)
  BY <1>7, CallKeeps
<1>8. CASE recv_intr
  BY <1>8, InterruptKeeps
<1>9. CASE \E t \in Texts : call_write(t)
  BY <1>9, WriteKeeps
<1>10. CASE Step
  <2>1. CASE putc_send
    <3>1. PICK x : x = Head(out)
      OBVIOUS
    <3>2. /\ uart' = [uart EXCEPT ![0].thr = x] /\ pc = "send" /\ pc' \in {"idle", "send"}
          /\ UNCHANGED <<prog, port, num_open, linebuf, fn, rx, last, since, ovf, shared, fd, tmp, chr, status>>
      BY <2>1, <3>1 DEF putc_send, At, hist
    <3>3. 0 \in Ports
      BY DEF Ports
    <3> QED BY <3>2, <3>3, TransmitKeeps
  <2>2. CASE ~putc_send
    BY <1>10, <2>2, ZeroKeeps, EmptyKeeps, LatchKeeps, DoneKeeps, LoadKeeps, CompareKeeps, ByteKeeps, TakeKeeps, ScanKeeps
       DEF Step
  <2> QED BY <2>1, <2>2
<1> QED
  BY <1>1, <1>2, <1>3, <1>4, <1>5, <1>6, <1>7, <1>8, <1>9, <1>10 DEF Next

LEMMA InvHolds == Spec => []IInv
  BY InitInv, NextInv, PTL DEF Spec

\* HandlerReturns for every program, ring and fifo: the receive handler finds a divisor
\* latch open only after both ports have been open at once.
THEOREM HandlerAlwaysReturns == Spec => []HandlerReturns
<1>1. IInv => HandlerReturns
  BY DEF IInv, Alone, HandlerReturns
<1> QED BY <1>1, InvHolds, PTL

-----------------------------------------------------------------------------
LEMMA Opened ==
    ASSUME Control
    PROVE  num_open = Cardinality({i \in Ports : port[i].open})
<1>1. num_open = Count(0) + Count(1) /\ Ports = {0, 1}
  BY DEF Control, Ports
<1>2. PICK S : S = {i \in Ports : port[i].open}
  OBVIOUS
<1>3. Cardinality({}) = 0 /\ IsFiniteSet({})
  BY FS_EmptySet
<1>4. \A x : Cardinality({x}) = 1 /\ IsFiniteSet({x})
  BY FS_Singleton
<1>5. CASE ~port[0].open /\ ~port[1].open
  <2>1. S = {}
    BY <1>1, <1>2, <1>5
  <2> QED BY <1>1, <1>2, <1>3, <1>5, <2>1 DEF Count
<1>6. CASE port[0].open /\ ~port[1].open
  <2>1. S = {0}
    BY <1>1, <1>2, <1>6
  <2> QED BY <1>1, <1>2, <1>4, <1>6, <2>1, SMTT(60) DEF Count
<1>7. CASE ~port[0].open /\ port[1].open
  <2>1. S = {1}
    BY <1>1, <1>2, <1>7
  <2> QED BY <1>1, <1>2, <1>4, <1>7, <2>1 DEF Count
<1>8. CASE port[0].open /\ port[1].open
  <2>1. S = {0} \cup {1} /\ 1 \notin {0}
    BY <1>1, <1>2, <1>8
  <2>2. Cardinality({0} \cup {1}) = Cardinality({0}) + 1
    BY <1>4, <2>1, FS_AddElement
  <2> QED BY <1>1, <1>2, <1>4, <1>8, <2>1, <2>2 DEF Count
<1> QED BY <1>5, <1>6, <1>7, <1>8

\* The j-th unread character is the one that many places before the end.
LEMMA Places ==
    ASSUME NEW r \in Index, NEW w \in Index, NEW j \in 1 .. Dist(r, w)
    PROVE  (r + j - 1) % BUFSZ = Before(w, Dist(r, w) - j + 1)
<1>1. Dist(r, w) \in 0 .. BUFSZ - 1
  BY DistFacts
<1>2. PICK x \in Nat : x = r + j - 1
  BY DEF Index
<1>3. CASE x < BUFSZ
  <2>1. x % BUFSZ = x
    BY <1>3, Sizes, ModFacts
  <2>2. x = Before(w, Dist(r, w) - j + 1)
    BY <1>1, <1>2, <1>3, Sizes DEF Dist, Before, Index
  <2> QED BY <1>2, <2>1, <2>2
<1>4. CASE ~(x < BUFSZ)
  <2>1. x \in BUFSZ .. 2 * BUFSZ - 1
    BY <1>1, <1>2, <1>4, Sizes DEF Index
  <2>2. x % BUFSZ = x - BUFSZ
    BY <2>1, Sizes, ModFacts
  <2>3. x - BUFSZ = Before(w, Dist(r, w) - j + 1)
    BY <1>1, <1>2, <1>4, Sizes DEF Dist, Before, Index
  <2> QED BY <1>2, <2>2, <2>3
<1> QED BY <1>3, <1>4

LEMMA UnreadFacts ==
    ASSUME Control, NEW i \in Ports
    PROVE  Unread(i) = [j \in 1 .. Used(port[i]) |->
                            port[i].inbuf[Before(port[i].widx, Used(port[i]) - j + 1)]]
<1>1. PICK r \in Index, w \in Index : r = port[i].ridx /\ w = port[i].widx
  BY PortFacts
<1>2. (w - r) % BUFSZ = Dist(r, w) /\ Used(port[i]) = Dist(r, w)
  BY <1>1, DistFacts DEF Used
<1>3. \A j \in 1 .. Dist(r, w) : (r + j - 1) % BUFSZ = Before(w, Dist(r, w) - j + 1)
  BY Places
<1>4. Unread(i) = [j \in 1 .. (w - r) % BUFSZ |-> port[i].inbuf[(r + j - 1) % BUFSZ]]
  BY <1>1 DEF Unread
<1>5. Unread(i) = [j \in 1 .. Dist(r, w) |-> port[i].inbuf[Before(w, Dist(r, w) - j + 1)]]
  BY <1>2, <1>3, <1>4
<1> QED BY <1>1, <1>2, <1>5

\* RingInv for every size of ring and fifo, program and input: indices in range, nothing
\* from before ser_open, and the latest characters in order.
THEOREM RingsAreExact == Spec => []RingInv
<1>1. IInv => RingInv
  <2> SUFFICES ASSUME IInv PROVE RingInv
    OBVIOUS
  <2>1. Control /\ LineInv /\ History
    BY DEF IInv
  <2>2. TypeOK
    <3>1. num_open = Cardinality({i \in Ports : port[i].open})
      BY <2>1, Opened
    <3> QED BY <2>1, <3>1 DEF TypeOK, Control, LineInv, PortType, Index
  <2>3. ASSUME NEW i \in Ports, port[i].open, ovf[i] # "torn"
        PROVE  \A j \in DOMAIN Unread(i) : Unread(i)[j] > since[i]
    <3>1. PICK u \in 0 .. BUFSZ - 1 : u = Used(port[i])
      BY <2>1, PortFacts
    <3>2. \A k \in 1 .. u : port[i].inbuf[Before(port[i].widx, k)] > since[i]
      <4>1. Above(port[i], IF ovf[i] = "none" THEN u ELSE BUFSZ, since[i])
        BY <2>3, <3>1 DEF IInv, PortInv, Active, Ring
      <4>2. \A k \in 1 .. u : k \in 1 .. BUFSZ
        BY <3>1, Sizes
      <4> QED BY <4>1, <4>2 DEF Above
    <3>3. Unread(i) = [j \in 1 .. u |-> port[i].inbuf[Before(port[i].widx, u - j + 1)]]
      BY <2>1, <3>1, UnreadFacts
    <3>4. \A j \in 1 .. u : u - j + 1 \in 1 .. u
      BY <3>1, Sizes
    <3> QED BY <3>2, <3>3, <3>4
  <2>4. ASSUME NEW i \in Ports, port[i].open, ovf[i] \notin {"raced", "torn"}
        PROVE  LET end == Len(rx[i]) - Len(uart[i].fifo)
                   first == IF last[i] < end - (BUFSZ - 1) THEN end - (BUFSZ - 1) ELSE last[i]
               IN Unread(i) = [j \in 1 .. end - first |-> first + j]
    <3>1. PICK u \in 0 .. BUFSZ - 1 : u = Used(port[i])
      BY <2>1, PortFacts
    <3>2. PICK end \in Nat, l \in Nat : end = End(i) /\ l = last[i]
      BY <2>1 DEF History, IsFifo
    <3>3. Exact(port[i], end, l)
      BY <2>4, <3>2 DEF IInv, PortInv, Active, Ring
    <3>4. /\ l <= end /\ u = IF end - l < BUFSZ - 1 THEN end - l ELSE BUFSZ - 1
          /\ \A k \in 1 .. u : port[i].inbuf[Before(port[i].widx, k)] = end - k + 1
      BY <3>1, <3>3 DEF Exact
    <3>5. PICK first \in Int : first = IF l < end - (BUFSZ - 1) THEN end - (BUFSZ - 1) ELSE l
      <4>1. end - (BUFSZ - 1) \in Int /\ l \in Int
        BY Sizes
      <4>2. CASE l < end - (BUFSZ - 1)
        BY <4>1, <4>2
      <4>3. CASE ~(l < end - (BUFSZ - 1))
        BY <4>1, <4>3
      <4> QED BY <4>2, <4>3
    <3>6. u = end - first
      BY <3>4, <3>5, Sizes
    <3>7. Unread(i) = [j \in 1 .. u |-> port[i].inbuf[Before(port[i].widx, u - j + 1)]]
      BY <2>1, <3>1, UnreadFacts
    <3>8. ASSUME NEW j \in 1 .. u
          PROVE  port[i].inbuf[Before(port[i].widx, u - j + 1)] = first + j
      <4>1. u - j + 1 \in 1 .. u /\ end - (u - j + 1) + 1 = first + j
        BY <3>1, <3>6, Sizes
      <4> QED BY <3>4, <4>1
    <3>9. Unread(i) = [j \in 1 .. end - first |-> first + j]
      BY <3>6, <3>7, <3>8
    <3> QED BY <3>2, <3>5, <3>9 DEF End
  <2> QED BY <2>2, <2>3, <2>4 DEF RingInv, NothingStale, RingIsExact
<1> QED BY <1>1, InvHolds, PTL

-----------------------------------------------------------------------------
(***************************************************************************)
(* Text without its carriage returns: the recursion of Stripped.           *)
(***************************************************************************)
Keep(u, c) == IF c = "cr" THEN u ELSE Append(u, c)
IsStrip(g, C, s) ==
    /\ g \in [0 .. Len(s) -> Seq(C)] /\ g[0] = << >>
    /\ \A n \in 1 .. Len(s) : g[n] = Keep(g[n - 1], s[n])

LEMMA KeepIsSeq ==
    ASSUME NEW C, NEW u \in Seq(C), NEW c \in C
    PROVE  Keep(u, c) \in Seq(C)
  BY DEF Keep

LEMMA StripExists ==
    ASSUME NEW C, NEW s \in Seq(C)
    PROVE  \E g : IsStrip(g, C, s)
<1> DEFINE P(n) == \E g \in [0 .. n -> Seq(C)] :
                      g[0] = << >> /\ \A k \in 1 .. n : g[k] = Keep(g[k - 1], s[k])
           S == {n \in 0 .. Len(s) : P(n)}
<1>1. Len(s) \in Nat
  OBVIOUS
<1>2. 0 \in S
  <2>1. PICK g : g = [k \in 0 .. 0 |-> << >>]
    OBVIOUS
  <2>2. g \in [0 .. 0 -> Seq(C)] /\ g[0] = << >>
    BY <2>1, EmptySeq
  <2>3. P(0)
    BY <2>2
  <2> QED BY <1>1, <2>3
<1>3. ASSUME NEW n \in 1 .. Len(s), n - 1 \in S PROVE n \in S
  <2>0. P(n - 1)
    <3> HIDE DEF P
    <3> QED BY <1>3
  <2>1. PICK g \in [0 .. n - 1 -> Seq(C)] :
          g[0] = << >> /\ \A k \in 1 .. n - 1 : g[k] = Keep(g[k - 1], s[k])
    BY <2>0
  <2>2. PICK q \in Seq(C) : q = Keep(g[n - 1], s[n])
    <3>1. g[n - 1] \in Seq(C) /\ s[n] \in C
      BY <2>1
    <3> QED BY <3>1, KeepIsSeq
  <2> DEFINE h == [k \in 0 .. n |-> IF k = n THEN q ELSE g[k]]
  <2>3. h \in [0 .. n -> Seq(C)]
    BY <2>1
  <2>4. h[0] = << >>
    BY <2>1
  <2>5. ASSUME NEW k \in 1 .. n PROVE h[k] = Keep(h[k - 1], s[k])
    <3>1. h[k - 1] = g[k - 1]
      OBVIOUS
    <3>2. CASE k = n
      BY <2>2, <3>1, <3>2
    <3>3. CASE k # n
      <4>1. k \in 1 .. n - 1 /\ h[k] = g[k]
        BY <3>3
      <4>2. g[k] = Keep(g[k - 1], s[k])
        BY <2>1, <4>1
      <4> QED BY <3>1, <4>1, <4>2
    <3> QED BY <3>2, <3>3
  <2>6. P(n)
    BY <2>3, <2>4, <2>5
  <2> HIDE DEF P
  <2> QED BY <2>6
<1> HIDE DEF P, S
<1>4. P(Len(s))
  <2>1. \A k \in 0 .. Len(s) : k \in S
    BY <1>1, <1>2, <1>3, UpTo
  <2> QED BY <1>1, <2>1 DEF S
<1> QED BY <1>4 DEF P, IsStrip

LEMMA StrippedIs ==
    ASSUME NEW C, NEW s \in Seq(C), NEW g, IsStrip(g, C, s)
    PROVE  Stripped(s) = g[Len(s)]
<1> DEFINE Rec(f) == f = [n \in 0 .. Len(s) |-> IF n = 0 THEN << >> ELSE Keep(f[n - 1], s[n])]
           G == CHOOSE f : Rec(f)
<1>1. Stripped(s) = G[Len(s)]
  BY DEF Stripped, Keep
<1>5. Len(s) \in Nat
  OBVIOUS
<1>2. /\ g \in [0 .. Len(s) -> Seq(C)] /\ g[0] = << >>
      /\ \A n \in 1 .. Len(s) : g[n] = Keep(g[n - 1], s[n])
  BY DEF IsStrip
<1>3. Rec(g)
  BY <1>2, <1>5
<1>4. Rec(G)
  BY <1>3
<1> HIDE DEF G
<1>6. G[0] = << >> /\ \A n \in 1 .. Len(s) : G[n] = Keep(G[n - 1], s[n])
  BY <1>4, <1>5, SMTT(60)
<1> DEFINE S == {n \in 0 .. Len(s) : G[n] = g[n]}
<1>7. 0 \in S
  BY <1>2, <1>5, <1>6
<1>8. ASSUME NEW n \in 1 .. Len(s), n - 1 \in S PROVE n \in S
  <2>1. G[n - 1] = g[n - 1] /\ n \in 0 .. Len(s)
    BY <1>8
  <2> QED BY <1>2, <1>6, <2>1
<1>9. \A n \in 0 .. Len(s) : n \in S
  <2> HIDE DEF S
  <2> QED BY <1>5, <1>7, <1>8, UpTo
<1>10. G[Len(s)] = g[Len(s)]
  BY <1>5, <1>9
<1> QED BY <1>1, <1>10

\* one character more
LEMMA StrippedAppend ==
    ASSUME NEW C, NEW s \in Seq(C), NEW c \in C
    PROVE  Stripped(Append(s, c)) = Keep(Stripped(s), c)
<1>0. /\ Append(s, c) \in Seq(C) /\ Len(Append(s, c)) = Len(s) + 1
      /\ Append(s, c)[Len(s) + 1] = c /\ \A k \in 1 .. Len(s) : Append(s, c)[k] = s[k]
  BY AppendProperties
<1>1. PICK t \in Seq(C) : /\ t = Append(s, c) /\ Len(t) = Len(s) + 1 /\ t[Len(s) + 1] = c
                          /\ \A k \in 1 .. Len(s) : t[k] = s[k]
  BY <1>0, Zenon
<1>2. PICK h : IsStrip(h, C, t)
  BY StripExists
<1>3. Stripped(t) = h[Len(t)]
  BY <1>2, StrippedIs
<1>4. PICK n \in Nat : n = Len(s) /\ n + 1 = Len(t)
  BY <1>1
<1>5. /\ h \in [0 .. n + 1 -> Seq(C)] /\ h[0] = << >>
      /\ \A k \in 1 .. n + 1 : h[k] = Keep(h[k - 1], t[k])
  BY <1>2, <1>4 DEF IsStrip
<1>6. h[n + 1] = Keep(h[n], c)
  BY <1>1, <1>4, <1>5
<1>7. PICK g : g = [k \in 0 .. n |-> h[k]]
  OBVIOUS
<1>8. IsStrip(g, C, s)
  <2>1. g \in [0 .. n -> Seq(C)] /\ g[0] = << >>
    BY <1>5, <1>7
  <2>2. ASSUME NEW k \in 1 .. n PROVE g[k] = Keep(g[k - 1], s[k])
    <3>1. h[k] = Keep(h[k - 1], s[k])
      BY <1>1, <1>4, <1>5
    <3>2. g[k] = h[k] /\ g[k - 1] = h[k - 1]
      BY <1>7
    <3> QED BY <3>1, <3>2
  <2> QED BY <1>4, <2>1, <2>2 DEF IsStrip
<1>9. Stripped(s) = g[n]
  BY <1>4, <1>8, StrippedIs
<1>10. g[n] = h[n]
  BY <1>7
<1> QED BY <1>1, <1>3, <1>4, <1>6, <1>9, <1>10

-----------------------------------------------------------------------------
\* s can have been sent for the text t: it is t but for CRs, and every newline has one
Paired(s) == \A k \in 1 .. Len(s) : s[k] = "nl" => k > 1 /\ s[k - 1] = "cr"
Carries(C, s, t) == s \in Seq(C) /\ t \in Seq(C) /\ Stripped(s) = Stripped(t) /\ Paired(s)

LEMMA PairedAppend ==
    ASSUME NEW C, NEW s \in Seq(C), NEW c \in C, Paired(s),
           c = "nl" => Len(s) > 0 /\ s[Len(s)] = "cr"
    PROVE  Paired(Append(s, c))
<1>0. /\ Append(s, c) \in Seq(C) /\ Len(Append(s, c)) = Len(s) + 1
      /\ Append(s, c)[Len(s) + 1] = c /\ \A k \in 1 .. Len(s) : Append(s, c)[k] = s[k]
  BY AppendProperties
<1>1. PICK t \in Seq(C) : /\ t = Append(s, c) /\ Len(t) = Len(s) + 1 /\ t[Len(s) + 1] = c
                          /\ \A k \in 1 .. Len(s) : t[k] = s[k]
  BY <1>0, Zenon
<1>2. Len(s) \in Nat
  OBVIOUS
<1>3. ASSUME NEW k \in 1 .. Len(t), t[k] = "nl" PROVE k > 1 /\ t[k - 1] = "cr"
  <2>1. CASE k = Len(s) + 1
    BY <1>1, <1>2, <1>3, <2>1
  <2>2. CASE k # Len(s) + 1
    <3>1. k \in 1 .. Len(s) /\ s[k] = "nl"
      BY <1>1, <1>2, <1>3, <2>2
    <3>2. k > 1 /\ s[k - 1] = "cr"
      BY <3>1 DEF Paired
    <3> QED BY <1>1, <1>2, <3>1, <3>2
  <2> QED BY <2>1, <2>2
<1> QED BY <1>1, <1>3 DEF Paired

LEMMA CatAssociative ==
    ASSUME NEW C, NEW a, NEW b, NEW c, a \in Seq(C), b \in Seq(C), c \in Seq(C)
    PROVE  (a \o b) \o c = a \o (b \o c)
  BY ConcatAssociative

LEMMA PutcCarries ==
    ASSUME NEW C, NEW s, NEW t, Carries(C, s, t), NEW c \in C, "cr" \in C
    PROVE  Carries(C, s \o Putc(c), Append(t, c))
<1>1. s \in Seq(C) /\ t \in Seq(C) /\ Stripped(s) = Stripped(t) /\ Paired(s)
  BY DEF Carries
<1>2. Append(t, c) \in Seq(C) /\ Stripped(Append(t, c)) = Keep(Stripped(t), c)
  BY <1>1, StrippedAppend
<1>3. CASE c # "nl"
  <2>1. s \o Putc(c) = Append(s, c) /\ Append(s, c) \in Seq(C)
    BY <1>1, <1>3, AppendIsConcat DEF Putc
  <2>2. Stripped(Append(s, c)) = Keep(Stripped(s), c)
    BY <1>1, StrippedAppend
  <2>3. Paired(Append(s, c))
    BY <1>1, <1>3, PairedAppend
  <2> QED BY <1>1, <1>2, <2>1, <2>2, <2>3 DEF Carries
<1>4. CASE c = "nl"
  <2>1. PICK u \in Seq(C) : u = Append(s, "cr") /\ Len(u) = Len(s) + 1 /\ u[Len(s) + 1] = "cr"
    BY <1>1, AppendProperties
  <2>2. s \o Putc(c) = Append(u, c) /\ Append(u, c) \in Seq(C)
    <3>1. <<"cr", "nl">> = <<"cr">> \o <<"nl">> /\ <<"cr">> \in Seq(C) /\ <<"nl">> \in Seq(C)
      BY <1>4
    <3>2. s \o (<<"cr">> \o <<"nl">>) = (s \o <<"cr">>) \o <<"nl">>
      BY <1>1, <3>1, ConcatAssociative
    <3>3. u = s \o <<"cr">> /\ Append(u, c) = u \o <<c>>
      BY <1>1, <2>1, AppendIsConcat
    <3> QED BY <1>4, <2>1, <3>1, <3>2, <3>3 DEF Putc
  <2>3. Stripped(u) = Keep(Stripped(s), "cr") /\ Stripped(Append(u, c)) = Keep(Stripped(u), c)
    BY <1>1, <2>1, StrippedAppend
  <2>4. Stripped(u) = Stripped(s)
    BY <2>3 DEF Keep
  <2>5. Paired(u)
    BY <1>1, <2>1, PairedAppend
  <2>6. Paired(Append(u, c))
    <3>1. Len(s) \in Nat
      BY <1>1
    <3>2. Len(u) > 0 /\ u[Len(u)] = "cr"
      BY <2>1, <3>1
    <3> QED BY <2>1, <2>5, <3>2, PairedAppend
  <2> QED BY <1>1, <1>2, <2>2, <2>3, <2>4, <2>6 DEF Carries
<1> QED BY <1>3, <1>4

-----------------------------------------------------------------------------
\* what ser_write puts into the transmit register for t, and the recursion behind it
Cat(a, b) == a \o b
Encoded(t) == FlattenSeq([k \in DOMAIN t |-> Putc(t[k])])
IsEncoding(g, C, t) ==
    /\ g \in [1 .. Len(t) -> Seq(C)] /\ g[1] = Putc(t[1])
    /\ \A n \in 2 .. Len(t) : g[n] = Cat(g[n - 1], Putc(t[n]))

LEMMA PutcIsSeq ==
    ASSUME NEW C, NEW c \in C, "cr" \in C
    PROVE  Putc(c) \in Seq(C) /\ Putc(c) # << >>
  BY DEF Putc

LEMMA EncodingExists ==
    ASSUME NEW C, NEW t \in Seq(C), "cr" \in C, t # << >>
    PROVE  \E g : IsEncoding(g, C, t)
<1> DEFINE P(n) == \E g \in [1 .. n + 1 -> Seq(C)] :
                      g[1] = Putc(t[1]) /\ \A k \in 2 .. n + 1 : g[k] = Cat(g[k - 1], Putc(t[k]))
           S == {n \in 0 .. Len(t) - 1 : P(n)}
<1>1. Len(t) - 1 \in Nat
  BY EmptySeq
<1>2. 0 \in S
  <2>1. PICK g : g = [k \in 1 .. 1 |-> Putc(t[1])]
    OBVIOUS
  <2>2. t[1] \in C
    BY <1>1
  <2>3. g \in [1 .. 1 -> Seq(C)] /\ g[1] = Putc(t[1])
    BY <2>1, <2>2, PutcIsSeq
  <2>4. P(0)
    BY <2>3
  <2> HIDE DEF P
  <2> QED BY <1>1, <2>4
<1>3. ASSUME NEW n \in 1 .. Len(t) - 1, n - 1 \in S PROVE n \in S
  <2>0. P(n - 1)
    <3> HIDE DEF P
    <3> QED BY <1>3
  <2>1. PICK g \in [1 .. n -> Seq(C)] :
          g[1] = Putc(t[1]) /\ \A k \in 2 .. n : g[k] = Cat(g[k - 1], Putc(t[k]))
    <3>1. n - 1 + 1 = n
      OBVIOUS
    <3> QED BY <2>0, <3>1
  <2>2. PICK q \in Seq(C) : q = Cat(g[n], Putc(t[n + 1]))
    <3>1. g[n] \in Seq(C) /\ t[n + 1] \in C
      BY <1>1, <2>1
    <3> QED BY <3>1, PutcIsSeq, ConcatProperties DEF Cat
  <2> DEFINE h == [k \in 1 .. n + 1 |-> IF k = n + 1 THEN q ELSE g[k]]
  <2>3. h \in [1 .. n + 1 -> Seq(C)]
    BY <2>1
  <2>4. h[1] = Putc(t[1])
    BY <2>1
  <2>5. ASSUME NEW k \in 2 .. n + 1 PROVE h[k] = Cat(h[k - 1], Putc(t[k]))
    <3>1. h[k - 1] = g[k - 1]
      OBVIOUS
    <3>2. CASE k = n + 1
      <4>1. h[k] = q /\ k - 1 = n
        BY <3>2
      <4> QED BY <2>2, <3>1, <3>2, <4>1
    <3>3. CASE k # n + 1
      <4>1. k \in 2 .. n /\ h[k] = g[k]
        BY <3>3
      <4>2. g[k] = Cat(g[k - 1], Putc(t[k]))
        BY <2>1, <4>1
      <4> QED BY <3>1, <4>1, <4>2
    <3> QED BY <3>2, <3>3
  <2>6. P(n)
    <3> HIDE DEF h
    <3> QED BY <2>3, <2>4, <2>5
  <2> HIDE DEF P
  <2> QED BY <2>6
<1> HIDE DEF P, S
<1>4. P(Len(t) - 1)
  <2>1. \A k \in 0 .. Len(t) - 1 : k \in S
    BY <1>1, <1>2, <1>3, UpTo
  <2> QED BY <1>1, <2>1 DEF S
<1>5. Len(t) - 1 + 1 = Len(t)
  BY <1>1
<1> QED BY <1>4, <1>5 DEF P, IsEncoding

LEMMA EncodedIs ==
    ASSUME NEW C, NEW t \in Seq(C), "cr" \in C, t # << >>
    PROVE  \E g : IsEncoding(g, C, t) /\ Encoded(t) = g[Len(t)]
<1>1. PICK e : e = [k \in DOMAIN t |-> Putc(t[k])]
  OBVIOUS
<1>2. PICK len \in Nat : len = Len(t) /\ len >= 1
  BY EmptySeq
<1>3. \A k \in 1 .. len : e[k] = Putc(t[k])
  BY <1>1, <1>2
<1>4. Len(e) = len
  <2>1. \A k \in 1 .. len : Putc(t[k]) \in Seq(C)
    BY <1>2, PutcIsSeq
  <2>2. DOMAIN t = 1 .. len
    BY <1>2
  <2>3. e = [k \in 1 .. len |-> Putc(t[k])]
    BY <1>1, <2>2
  <2> QED BY <2>3
<1> DEFINE Rec(f) == f = [i \in 1 .. Len(e) |-> IF i = 1 THEN e[i] ELSE Cat(f[i - 1], e[i])]
           G == CHOOSE f : Rec(f)
<1>5. Encoded(t) = G[Len(e)]
  <2>1. Encoded(t) = FlattenSeq(e)
    BY <1>1 DEF Encoded
  <2>2. FlattenSeq(e) = IF Len(e) = 0 THEN e ELSE G[Len(e)]
    BY DEF FlattenSeq, Cat
  <2> HIDE DEF G
  <2> QED BY <1>2, <1>4, <2>1, <2>2
<1>6. PICK g : IsEncoding(g, C, t)
  BY EncodingExists
<1>7. /\ g \in [1 .. len -> Seq(C)] /\ g[1] = Putc(t[1])
      /\ \A n \in 2 .. len : g[n] = Cat(g[n - 1], Putc(t[n]))
  BY <1>2, <1>6 DEF IsEncoding
<1>8. Rec(g)
  <2>1. g[1] = e[1] /\ \A n \in 2 .. len : g[n] = Cat(g[n - 1], e[n])
    BY <1>2, <1>3, <1>7
  <2> QED BY <1>2, <1>4, <1>7, <2>1
<1>9. Rec(G)
  BY <1>8
<1> HIDE DEF G
<1>10. G[1] = e[1] /\ \A n \in 2 .. len : G[n] = Cat(G[n - 1], e[n])
  BY <1>2, <1>4, <1>9, SMTT(60)
<1> DEFINE S == {n \in 0 .. len - 1 : G[n + 1] = g[n + 1]}
<1>11. 0 \in S
  BY <1>2, <1>3, <1>7, <1>10
<1>12. ASSUME NEW n \in 1 .. len - 1, n - 1 \in S PROVE n \in S
  <2>1. G[n] = g[n] /\ n + 1 \in 2 .. len
    BY <1>12
  <2>2. G[n + 1] = Cat(G[n], e[n + 1]) /\ g[n + 1] = Cat(g[n], Putc(t[n + 1])) /\ e[n + 1] = Putc(t[n + 1])
    BY <1>3, <1>7, <1>10, <2>1
  <2> QED BY <2>1, <2>2
<1>13. \A n \in 0 .. len - 1 : n \in S
  <2> HIDE DEF S
  <2>1. len - 1 \in Nat
    BY <1>2
  <2> QED BY <1>11, <1>12, <2>1, UpTo
<1>14. G[len] = g[len]
  <2>1. len - 1 \in S
    BY <1>2, <1>13
  <2> QED BY <1>2, <2>1
<1> QED BY <1>2, <1>4, <1>5, <1>6, <1>14

LEMMA EncodedCarries ==
    ASSUME NEW C, NEW s, NEW u, Carries(C, s, u), NEW t \in Seq(C), "cr" \in C, t # << >>
    PROVE  /\ Carries(C, s \o Encoded(t), u \o t)
           /\ Encoded(t) \in Seq(C) /\ Encoded(t) # << >>
<1>1. PICK g : IsEncoding(g, C, t) /\ Encoded(t) = g[Len(t)]
  BY EncodedIs
<1>2. PICK len \in Nat : len = Len(t) /\ len >= 1
  BY EmptySeq
<1>3. /\ g \in [1 .. len -> Seq(C)] /\ g[1] = Putc(t[1])
      /\ \A n \in 2 .. len : g[n] = Cat(g[n - 1], Putc(t[n]))
  BY <1>1, <1>2 DEF IsEncoding
<1>4. s \in Seq(C) /\ u \in Seq(C)
  BY DEF Carries
<1> DEFINE S == {n \in 0 .. len - 1 : /\ Carries(C, s \o g[n + 1], u \o SubSeq(t, 1, n + 1))
                                     /\ g[n + 1] # << >>}
<1>5. \A n \in 1 .. len : t[n] \in C /\ Putc(t[n]) \in Seq(C) /\ Putc(t[n]) # << >>
  BY <1>2, PutcIsSeq
<1>6. 0 \in S
  <2>1. SubSeq(t, 1, 1) = <<t[1]>>
    <3>1. SubSeq(t, 1, 1) = SubSeq(t, 1, 1 - 1) \o <<t[1]>>
      BY <1>2, SubSeqRecursiveSecond
    <3>2. SubSeq(t, 1, 1 - 1) = << >>
      BY SubSeqEmpty
    <3>3. <<t[1]>> \in Seq(C)
      BY <1>2, <1>5
    <3> QED BY <3>1, <3>2, <3>3, ConcatEmptySeq
  <2>2. u \o <<t[1]>> = Append(u, t[1])
    BY <1>2, <1>4, <1>5, AppendIsConcat
  <2>3. Carries(C, s \o Putc(t[1]), Append(u, t[1]))
    BY <1>2, <1>5, PutcCarries
  <2>4. 0 \in 0 .. len - 1 /\ 0 + 1 = 1 /\ 1 \in 1 .. len
    BY <1>2
  <2>5. Carries(C, s \o g[1], u \o SubSeq(t, 1, 1)) /\ g[1] # << >>
    BY <1>3, <1>5, <2>1, <2>2, <2>3, <2>4, Zenon
  <2> QED BY <2>4, <2>5, Zenon
<1>7. ASSUME NEW n \in 1 .. len - 1, n - 1 \in S PROVE n \in S
  <2>1. n \in 1 .. len /\ n + 1 \in 2 .. len /\ n + 1 \in 1 .. len
    BY <1>2
  <2>2. Carries(C, s \o g[n], u \o SubSeq(t, 1, n))
    BY <1>7
  <2>3. PICK c \in C : c = t[n + 1]
    BY <1>5, <2>1
  <2>4. PICK v \in Seq(C), w \in Seq(C) : v = g[n] /\ w = Putc(c)
    BY <1>3, <1>5, <2>1, <2>3
  <2>11. g[n + 1] = Cat(g[n], Putc(c))
    <3>1. n + 1 - 1 = n
      OBVIOUS
    <3> QED BY <1>3, <2>1, <2>3, <3>1
  <2>5. Carries(C, (s \o v) \o w, Append(u \o SubSeq(t, 1, n), c))
    BY <2>2, <2>4, PutcCarries
  <2>6. (s \o v) \o w = s \o g[n + 1]
    <3>1. g[n + 1] = v \o w
      BY <2>4, <2>11 DEF Cat
    <3>2. (s \o v) \o w = s \o (v \o w)
      BY <1>4, CatAssociative
    <3> QED BY <3>1, <3>2, Zenon
  <2>7. SubSeq(t, 1, n) \in Seq(C) /\ SubSeq(t, 1, n + 1) = SubSeq(t, 1, n) \o <<c>>
    <3>1. SubSeq(t, 1, n + 1) = SubSeq(t, 1, n + 1 - 1) \o <<t[n + 1]>>
      BY <1>2, <2>1, SubSeqRecursiveSecond
    <3>2. SubSeq(t, 1, n) \in Seq(C)
      BY <1>2, <2>1
    <3> QED BY <2>3, <3>1, <3>2
  <2>8. Append(u \o SubSeq(t, 1, n), c) = u \o SubSeq(t, 1, n + 1)
    <3>1. PICK x \in Seq(C) : x = SubSeq(t, 1, n)
      BY <2>7
    <3>2. Append(u \o x, c) = (u \o x) \o <<c>>
      BY <1>4, AppendIsConcat, ConcatProperties
    <3>3. (u \o x) \o <<c>> = u \o (x \o <<c>>)
      <4>1. <<c>> \in Seq(C)
        OBVIOUS
      <4>2. PICK y \in Seq(C) : y = <<c>>
        BY <4>1, Zenon
      <4>3. (u \o x) \o y = u \o (x \o y)
        BY <1>4, CatAssociative, SMTT(60)
      <4> QED BY <4>2, <4>3, Zenon
    <3> QED BY <2>7, <3>1, <3>2, <3>3
  <2>9. g[n + 1] # << >>
    <3>1. w # << >>
      BY <1>5, <2>1, <2>3, <2>4
    <3>2. g[n + 1] = v \o w
      BY <2>4, <2>11 DEF Cat
    <3> QED BY <3>1, <3>2, ConcatEqualIffEmpty
  <2>10. n \in 0 .. len - 1
    OBVIOUS
  <2> QED BY <2>5, <2>6, <2>8, <2>9, <2>10
<1>8. \A n \in 0 .. len - 1 : n \in S
  <2> HIDE DEF S
  <2>1. len - 1 \in Nat
    BY <1>2
  <2> QED BY <1>6, <1>7, <2>1, UpTo
<1>9. len - 1 \in 0 .. len - 1 /\ len - 1 + 1 = len
  BY <1>2
<1>10. Carries(C, s \o g[len], u \o SubSeq(t, 1, len)) /\ g[len] # << >>
  BY <1>8, <1>9
<1>11. SubSeq(t, 1, len) = t
  BY <1>2, SubSeqFull
<1>12. g[len] \in Seq(C)
  BY <1>2, <1>3
<1> HIDE DEF S
<1> QED BY <1>1, <1>2, <1>10, <1>11, <1>12

-----------------------------------------------------------------------------
(***************************************************************************)
(* What has been sent, is in the transmit register or still has to be sent *)
(* carries the text written so far; ser_write has something to send until  *)
(* it returns.                                                             *)
(***************************************************************************)
Chars == {"cr"} \cup ((UNION {{t[k] : k \in DOMAIN t} : t \in Texts}) \ {Empty})
Reg(x) == IF x = Empty THEN << >> ELSE <<x>>
OutInv ==
    /\ sent \in [Ports -> Seq(Chars)] /\ \A i \in Ports : uart[i].thr \in Chars \cup {Empty}
    /\ out \in Seq(Chars) /\ (pc = "send" <=> out # << >>)
    /\ Carries(Chars, (sent[0] \o Reg(uart[0].thr)) \o out, text)

LEMMA CharsFacts == Empty \notin Chars /\ "cr" \in Chars
  BY DEF Chars, Empty

LEMMA TextFacts ==
    ASSUME NEW t \in Texts
    PROVE  t \in Seq(Chars) /\ t # << >>
<1>1. t # << >> /\ t \in Seq({t[k] : k \in DOMAIN t} \ {Empty})
  BY SerialAssumption
<1>2. ({t[k] : k \in DOMAIN t} \ {Empty}) \subseteq Chars
  BY DEF Chars
<1>3. t \in Seq(Chars)
  BY <1>1, <1>2, SeqMonotonic
<1> QED BY <1>1, <1>3

LEMMA RegFacts ==
    ASSUME NEW x \in Chars \cup {Empty}
    PROVE  Reg(x) \in Seq(Chars)
  BY EmptySeq DEF Reg

LEMMA OutFrame ==
    ASSUME OutInv, UNCHANGED <<sent, out, text>>, \A i \in Ports : uart'[i].thr = uart[i].thr,
           pc' = "send" <=> pc = "send"
    PROVE  OutInv'
<1>1. uart'[0].thr = uart[0].thr
  BY DEF Ports
<1> QED BY <1>1 DEF OutInv

LEMMA ThrKept ==
    ASSUME IsUarts(uart), NEW j \in Ports, NEW f, NEW b,
           \/ uart' = [uart EXCEPT ![j].fifo = f]
           \/ uart' = [uart EXCEPT ![j].dlab = b]
           \/ uart' = [uart EXCEPT ![j].ier = b]
           \/ uart' = [uart EXCEPT ![j].fifo = f, ![j].ier = b]
    PROVE  \A i \in Ports : uart'[i].thr = uart[i].thr
<1>1. uart = [i \in Ports |-> uart[i]] /\ IsUart(uart[j])
  BY DEF IsUarts
<1>2. PICK u : u = uart[j] /\ u \in [fifo : Seq(Nat), ier : BOOLEAN, dlab : BOOLEAN, thr : {u.thr}]
  BY <1>1 DEF IsUart
<1>3. /\ [u EXCEPT !.fifo = f].thr = u.thr /\ [u EXCEPT !.dlab = b].thr = u.thr
      /\ [u EXCEPT !.ier = b].thr = u.thr /\ [u EXCEPT !.fifo = f, !.ier = b].thr = u.thr
  BY <1>2
<1>4. PICK v : uart' = [uart EXCEPT ![j] = v] /\ v.thr = u.thr
  <2>1. CASE uart' = [uart EXCEPT ![j].fifo = f]
    BY <1>2, <1>3, <2>1
  <2>2. CASE uart' = [uart EXCEPT ![j].dlab = b]
    BY <1>2, <1>3, <2>2
  <2>3. CASE uart' = [uart EXCEPT ![j].ier = b]
    BY <1>2, <1>3, <2>3
  <2>4. CASE uart' = [uart EXCEPT ![j].fifo = f, ![j].ier = b]
    <3>1. uart' = [uart EXCEPT ![j] = [u EXCEPT !.fifo = f, !.ier = b]]
      BY <1>1, <1>2, <2>4
    <3> QED BY <1>3, <3>1
  <2> QED BY <2>1, <2>2, <2>3, <2>4
<1>5. uart' = [i \in Ports |-> IF i = j THEN v ELSE uart[i]]
  BY <1>1, <1>4
<1>6. \A i \in Ports : uart'[i] = IF i = j THEN v ELSE uart[i]
  BY <1>5
<1> QED BY <1>2, <1>4, <1>6

LEMMA ThrSet ==
    ASSUME IsUarts(uart), NEW j \in Ports, NEW x, uart' = [uart EXCEPT ![j].thr = x]
    PROVE  uart'[j].thr = x /\ \A i \in Ports : i # j => uart'[i].thr = uart[i].thr
<1>1. uart = [i \in Ports |-> uart[i]] /\ IsUart(uart[j])
  BY DEF IsUarts
<1>2. PICK u : u = uart[j] /\ u \in [fifo : Seq(Nat), ier : BOOLEAN, dlab : BOOLEAN, thr : {u.thr}]
  BY <1>1 DEF IsUart
<1>3. [u EXCEPT !.thr = x].thr = x
  BY <1>2
<1>4. uart' = [i \in Ports |-> IF i = j THEN [u EXCEPT !.thr = x] ELSE uart[i]]
  BY <1>1, <1>2
<1>5. \A i \in Ports : uart'[i] = IF i = j THEN [u EXCEPT !.thr = x] ELSE uart[i]
  BY <1>4
<1> QED BY <1>3, <1>5

LEMMA TransmitSends ==
    ASSUME IInv, OutInv, NEW i \in Ports, transmit(i)
    PROVE  OutInv'
<1>1. IsUarts(uart)
  BY DEF IInv, Control
<1>2. PICK x \in Chars : x = uart[i].thr /\ x # Empty
  BY DEF transmit, OutInv
<1>3. /\ sent' = [sent EXCEPT ![i] = Append(@, x)] /\ UNCHANGED <<pc, out, text>>
      /\ uart'[i].thr = Empty /\ \A j \in Ports : j # i => uart'[j].thr = uart[j].thr
  <2>1. PICK y : y = Empty
    OBVIOUS
  <2>2. uart' = [uart EXCEPT ![i].thr = y]
    BY <2>1 DEF transmit
  <2> QED BY <1>1, <1>2, <2>1, <2>2, ThrSet DEF transmit, regs, hist
<1>4. PICK s \in Seq(Chars) : s = sent[i]
  BY DEF OutInv
<1>5. PICK t \in Seq(Chars) : t = Append(s, x) /\ t = s \o <<x>>
  <2>1. Append(s, x) \in Seq(Chars) /\ Append(s, x) = s \o <<x>>
    BY AppendIsConcat, AppendProperties
  <2> QED BY <2>1, Zenon
<1>6. sent' \in [Ports -> Seq(Chars)] /\ sent'[i] = t /\ \A j \in Ports : j # i => sent'[j] = sent[j]
  BY <1>3, <1>4, <1>5 DEF OutInv
<1>7. \A j \in Ports : uart'[j].thr \in Chars \cup {Empty}
  BY <1>3 DEF OutInv
<1>8. sent'[0] \o Reg(uart'[0].thr) = sent[0] \o Reg(uart[0].thr)
  <2>0. 0 \in Ports
    BY DEF Ports
  <2>1. CASE i # 0
    BY <1>3, <1>6, <2>0, <2>1
  <2>2. CASE i = 0
    <3>1. Reg(uart'[0].thr) = << >> /\ Reg(uart[0].thr) = <<x>>
      BY <1>2, <1>3, <2>2 DEF Reg
    <3>2. t \o << >> = t
      BY ConcatEmptySeq
    <3> QED BY <1>4, <1>5, <1>6, <2>2, <3>1, <3>2, Zenon
  <2> QED BY <2>1, <2>2
<1> QED BY <1>3, <1>6, <1>7, <1>8 DEF OutInv

LEMMA PutcSends ==
    ASSUME IInv, OutInv, putc_send
    PROVE  OutInv'
<1>1. IsUarts(uart) /\ 0 \in Ports
  BY DEF IInv, Control, Ports
<1>2. /\ pc = "send" /\ uart[0].thr = Empty /\ out' = Tail(out) /\ UNCHANGED <<sent, text>>
      /\ pc' = IF Len(out) = 1 THEN "idle" ELSE "send"
  BY DEF putc_send, At, can_send, hist
<1>3. PICK x : x = Head(out)
  OBVIOUS
<1>4. uart'[0].thr = x /\ \A j \in Ports : j # 0 => uart'[j].thr = uart[j].thr
  <2>1. uart' = [uart EXCEPT ![0].thr = x]
    BY <1>3 DEF putc_send
  <2> QED BY <1>1, <2>1, ThrSet
<1>5. out \in Seq(Chars) /\ out # << >> /\ sent[0] \in Seq(Chars)
  BY <1>1, <1>2 DEF OutInv
<1>6. x \in Chars /\ Tail(out) \in Seq(Chars) /\ Len(Tail(out)) = Len(out) - 1
  BY <1>3, <1>5, HeadTailProperties
<1>7. out = <<x>> \o Tail(out)
  <2>1. Len(out) \in Nat \ {0}
    BY <1>5, EmptySeq
  <2>2. Tail(out) = SubSeq(out, 2, Len(out)) /\ Head(out) = out[1]
    BY <1>5, TailIsSubSeq
  <2>3. SubSeq(out, 1, Len(out)) = <<out[1]>> \o SubSeq(out, 1 + 1, Len(out))
    BY <1>5, <2>1, SubSeqRecursiveFirst
  <2>4. SubSeq(out, 1, Len(out)) = out
    BY <1>5, SubSeqFull
  <2>5. 1 + 1 = 2
    OBVIOUS
  <2> QED BY <1>3, <2>2, <2>3, <2>4, <2>5, Zenon
<1>8. pc' = "send" <=> Tail(out) # << >>
  <2>1. Len(out) \in Nat
    BY <1>5
  <2>2. Tail(out) = << >> <=> Len(Tail(out)) = 0
    BY <1>6, EmptySeq
  <2> QED BY <1>2, <1>6, <2>1, <2>2
<1>9. (sent[0] \o Reg(uart'[0].thr)) \o Tail(out) = (sent[0] \o Reg(uart[0].thr)) \o out
  <2>1. PICK y \in Seq(Chars), s \in Seq(Chars), r \in Seq(Chars) :
          y = <<x>> /\ s = sent[0] /\ r = Tail(out)
    <3>1. <<x>> \in Seq(Chars)
      BY <1>6
    <3> QED BY <1>5, <1>6, <3>1, Zenon
  <2>2. Reg(uart'[0].thr) = y /\ Reg(uart[0].thr) = << >>
    BY <1>2, <1>4, <1>6, <2>1, CharsFacts DEF Reg
  <2>3. s \o << >> = s
    BY ConcatEmptySeq
  <2>4. (s \o y) \o r = s \o (y \o r)
    BY CatAssociative
  <2> QED BY <1>7, <2>1, <2>2, <2>3, <2>4, Zenon
<1>10. \A j \in Ports : uart'[j].thr \in Chars \cup {Empty}
  BY <1>4, <1>6 DEF OutInv
<1> QED BY <1>2, <1>6, <1>8, <1>9, <1>10 DEF OutInv

LEMMA WriteSends ==
    ASSUME IInv, OutInv, NEW t \in Texts, call_write(t)
    PROVE  OutInv'
<1>1. /\ pc = "idle" /\ pc' = "send" /\ text' = text \o t /\ out' = Encoded(t)
      /\ UNCHANGED <<sent, uart>>
  BY DEF call_write, At, dev, Encoded
<1>2. out = << >> /\ 0 \in Ports
  BY <1>1 DEF OutInv, Ports
<1>3. PICK s \in Seq(Chars) : s = sent[0] \o Reg(uart[0].thr)
  <2>1. sent[0] \in Seq(Chars) /\ Reg(uart[0].thr) \in Seq(Chars)
    BY <1>2, RegFacts DEF OutInv
  <2>2. sent[0] \o Reg(uart[0].thr) \in Seq(Chars)
    BY <2>1, ConcatProperties
  <2> QED BY <2>2, Zenon
<1>4. s \o << >> = s
  BY ConcatEmptySeq
<1>5. Carries(Chars, s, text)
  BY <1>2, <1>3, <1>4, Zenon DEF OutInv
<1>6. t \in Seq(Chars) /\ t # << >>
  BY TextFacts
<1>7. /\ Carries(Chars, s \o Encoded(t), text \o t)
      /\ Encoded(t) \in Seq(Chars) /\ Encoded(t) # << >>
  BY <1>5, <1>6, CharsFacts, EncodedCarries
<1> HIDE DEF Encoded
<1>8. Carries(Chars, (sent'[0] \o Reg(uart'[0].thr)) \o out', text')
  BY <1>1, <1>3, <1>7, Zenon
<1> QED BY <1>1, <1>7, <1>8 DEF OutInv

LEMMA OutInit == Init => OutInv
<1> SUFFICES ASSUME Init PROVE OutInv
  OBVIOUS
<1>1. /\ sent = [i \in Ports |-> << >>] /\ out = << >> /\ text = << >> /\ pc = "idle"
      /\ 0 \in Ports
  BY DEF Init, Ports
<1>2. << >> \in Seq(Chars) /\ Len(<< >>) = 0
  BY EmptySeq
<1>3. \A i \in Ports : uart[i].thr = Empty
  BY DEF Init
<1>4. sent[0] = << >> /\ Reg(uart[0].thr) = << >> /\ << >> \o << >> = << >>
  BY <1>1, <1>2, <1>3, ConcatEmptySeq DEF Reg
<1>5. Carries(Chars, << >>, << >>)
  BY <1>2 DEF Carries, Paired
<1> QED BY <1>1, <1>2, <1>3, <1>4, <1>5 DEF OutInv

LEMMA OutNext == IInv /\ OutInv /\ [Next]_vars => OutInv'
<1> SUFFICES ASSUME IInv, OutInv, [Next]_vars PROVE OutInv'
  OBVIOUS
<1>0. IsUarts(uart) /\ fd \in Ports
  BY DEF IInv, Control
<1>1. CASE UNCHANGED vars \/ stopped
  BY <1>1, OutFrame DEF stopped, vars, dev, regs, hist
<1>2. CASE \E i \in Ports, c \in prog.chars : receive(i, c)
  <2>1. PICK i \in Ports, c \in prog.chars : receive(i, c)
    BY <1>2
  <2>2. PICK f : f = Append(uart[i].fifo, Len(rx[i]) + 1)
    OBVIOUS
  <2>3. uart' = [uart EXCEPT ![i].fifo = f]
    BY <2>1, <2>2 DEF receive
  <2>4. \A j \in Ports : uart'[j].thr = uart[j].thr
    BY <1>0, <2>3, ThrKept
  <2> QED BY <2>1, <2>4, OutFrame DEF receive, regs, hist
<1>3. CASE \E i \in Ports : transmit(i)
  BY <1>3, TransmitSends
<1>4. CASE \E i \in Ports : open_begin(i)
  BY <1>4, OutFrame DEF open_begin, At, dev, hist
<1>5. CASE \E i \in Ports : ser_close(i)
  <2>1. PICK i \in Ports : ser_close(i)
    BY <1>5
  <2>2. PICK b : b = IF LastClose THEN FALSE ELSE uart[i].ier
    OBVIOUS
  <2>3. uart' = [uart EXCEPT ![i].ier = b]
    BY <2>1, <2>2 DEF ser_close
  <2>4. \A j \in Ports : uart'[j].thr = uart[j].thr
    BY <1>0, <2>3, ThrKept
  <2> QED BY <2>1, <2>4, OutFrame DEF ser_close, regs, hist
<1>6. CASE \E i \in Ports, b \in BOOLEAN : ser_block(i, b)
  BY <1>6, OutFrame DEF ser_block, dev, regs, hist
<1>7. CASE \E i \in Ports, f \in prog.fns, n \in Counts : call(f, i, n)
  BY <1>7, OutFrame DEF call, At, dev
<1>8. CASE recv_intr
  <2>1. ASSUME NEW j \in Ports PROVE uart'[j].thr = uart[j].thr
    <3>1. CASE uart' = uart
      BY <3>1
    <3>2. CASE uart' = [i \in Ports |-> IF Serves(i) THEN [uart[i] EXCEPT !.fifo = << >>] ELSE uart[i]]
      <4>1. PICK u : u = uart[j] /\ u \in [fifo : Seq(Nat), ier : BOOLEAN, dlab : BOOLEAN, thr : {u.thr}]
        BY <1>0 DEF IsUarts, IsUart
      <4>2. [u EXCEPT !.fifo = << >>].thr = u.thr
        BY <4>1
      <4>3. uart'[j] = IF Serves(j) THEN [u EXCEPT !.fifo = << >>] ELSE u
        BY <3>2, <4>1
      <4> QED BY <4>1, <4>2, <4>3
    <3> QED BY <1>8, <3>1, <3>2 DEF recv_intr
  <2> QED BY <1>8, <2>1, OutFrame DEF recv_intr, regs
<1>9. CASE \E t \in Texts : call_write(t)
  BY <1>9, WriteSends
<1>10. CASE Step
  <2>0. CASE zero_inbuf \/ zero_ridx \/ zero_widx
    BY <2>0, OutFrame DEF zero_inbuf, zero_ridx, zero_widx, At, dev, hist, regs
  <2>1. CASE open_dlab \/ open_fmt
    <3>1. PICK b : uart' = [uart EXCEPT ![fd].dlab = b]
      BY <2>1 DEF open_dlab, open_fmt
    <3>2. \A j \in Ports : uart'[j].thr = uart[j].thr
      BY <1>0, <3>1, ThrKept
    <3> QED BY <2>1, <3>2, OutFrame DEF open_dlab, open_fmt, At, regs, hist
  <2>2. CASE open_done
    <3>1. PICK f, b : f = << >> /\ b = TRUE
      OBVIOUS
    <3>2. uart' = [uart EXCEPT ![fd].fifo = f, ![fd].ier = b]
      BY <2>2, <3>1 DEF open_done
    <3>3. \A j \in Ports : uart'[j].thr = uart[j].thr
      BY <1>0, <3>2, ThrKept
    <3> QED BY <2>2, <3>3, OutFrame DEF open_done, At
  <2>3. CASE putc_send
    BY <2>3, PutcSends
  <2>4. CASE pend_ridx \/ getc_index \/ getc_byte \/ getc_load
    BY <2>4, OutFrame DEF pend_ridx, getc_index, getc_byte, getc_load, At, dev, hist
  <2>5. CASE pend_widx \/ getc_store
    <3>1. /\ pc \in {"cmp", "store"} /\ UNCHANGED <<sent, out, text, uart>>
          /\ pc' \in {"idle", "pend", "idx", "scan"}
      BY <2>5 DEF pend_widx, getc_store, At, dev, hist, GetcReturns, Idle
    <3> QED BY <3>1, OutFrame
  <2>6. CASE getline_scan
    BY <2>6, OutFrame DEF getline_scan, At, dev, Idle
  <2> QED BY <1>10, <2>0, <2>1, <2>2, <2>3, <2>4, <2>5, <2>6 DEF Step
<1> QED
  BY <1>1, <1>2, <1>3, <1>4, <1>5, <1>6, <1>7, <1>8, <1>9, <1>10 DEF Next

LEMMA OutHolds == Spec => []OutInv
  BY OutInit, OutNext, InvHolds, PTL DEF Spec

LEMMA SentWritten == OutInv => SentIsWritten
<1> SUFFICES ASSUME OutInv, pc = "idle" PROVE SentIsWritten
  BY DEF SentIsWritten
<1>1. out = << >> /\ 0 \in Ports
  BY DEF OutInv, Ports
<1>2. PICK s \in Seq(Chars) : s = sent[0] \o Reg(uart[0].thr)
  <2>1. sent[0] \in Seq(Chars) /\ Reg(uart[0].thr) \in Seq(Chars)
    BY <1>1, RegFacts DEF OutInv
  <2>2. sent[0] \o Reg(uart[0].thr) \in Seq(Chars)
    BY <2>1, ConcatProperties
  <2> QED BY <2>2, Zenon
<1>3. s \o << >> = s
  BY ConcatEmptySeq
<1>4. Carries(Chars, s, text)
  BY <1>1, <1>2, <1>3, Zenon DEF OutInv
<1>5. /\ Stripped(s) = Stripped(text)
      /\ \A k \in DOMAIN s : s[k] = "nl" => k > 1 /\ s[k - 1] = "cr"
  BY <1>4 DEF Carries, Paired
<1> QED BY <1>2, <1>5 DEF SentIsWritten, Reg

-----------------------------------------------------------------------------
(***************************************************************************)
(* The lines of a program that reads nothing but lines, from one port.     *)
(* Modes: what ser_getline relies on.  Data: as long as nothing was lost,  *)
(* linebuf holds what ser_getc took since the end of the last line, and    *)
(* the ring has room for what it has not taken.                            *)
(***************************************************************************)
Modes ==
    /\ fd = 0 /\ ~port[1].open /\ ~shared
    /\ fn \in {"none", "wait", "getline"}
    /\ pc \in {"pend", "cmp"} => fn \in {"wait", "getline"}
    /\ pc \in {"idx", "byte", "adv", "store", "scan"} => fn = "getline"
    /\ fn = "getline" => cnt \in [bsz : Nat \ {0}, rd : {0, 1}] /\ port[0].open

Lined(n, buf) == \A k \in 1 .. Len(buf) : buf[k] = <<0, n + k>>
IsNewline(c) == c \in {"nl", "cr"}
Shown(n, bsz) == IF n < bsz THEN n ELSE bsz - 1
IsLine(l, s) ==
    \E end \in l.from + 1 .. Len(s) :
        /\ IsNewline(s[end]) /\ \A k \in l.from + 1 .. end - 1 : ~IsNewline(s[k])
        /\ l.chars = [k \in 1 .. Shown(end - 1 - l.from, l.bsz) |-> <<0, l.from + k>>]
Data(open, o, l, end, s, n, buf, ln) ==
    /\ n \in Nat /\ ln \in Seq([chars : Seq(Ports \X Nat), from : Nat, bsz : Nat \ {0}])
    /\ ~open => n = 0 /\ buf = << >> /\ ln = << >> /\ end = 0
    /\ o = "none" => /\ l = n + Len(buf) /\ Lined(n, buf) /\ end - l < BUFSZ
                     /\ ln # << >> => IsLine(ln[1], s)
GetlineInv ==
    ReadsLines => /\ Modes
                  /\ Data(port[0].open, ovf[0], last[0], End(0), rx[0], lines, linebuf, line)

LEMMA LineLonger ==
    ASSUME NEW C, NEW s \in Seq(C), NEW c \in C, NEW l, l.from \in Nat, IsLine(l, s)
    PROVE  IsLine(l, Append(s, c))
<1>1. PICK n \in Nat : n = Len(s)
  OBVIOUS
<1>2. Len(Append(s, c)) = n + 1 /\ \A k \in 1 .. n : Append(s, c)[k] = s[k]
  BY <1>1, AppendProperties
<1>3. PICK t : t = Append(s, c)
  OBVIOUS
<1>4. PICK end \in l.from + 1 .. n :
        /\ IsNewline(s[end]) /\ \A k \in l.from + 1 .. end - 1 : ~IsNewline(s[k])
        /\ l.chars = [k \in 1 .. Shown(end - 1 - l.from, l.bsz) |-> <<0, l.from + k>>]
  BY <1>1 DEF IsLine
<1>5. end \in l.from + 1 .. n + 1 /\ t[end] = s[end]
  BY <1>2, <1>3, <1>4
<1>6. \A k \in l.from + 1 .. end - 1 : t[k] = s[k]
  BY <1>2, <1>3, <1>4
<1>7. \A k \in l.from + 1 .. end - 1 : ~IsNewline(t[k])
  BY <1>4, <1>6
<1>8. IsNewline(t[end]) /\ Len(t) = n + 1
  BY <1>2, <1>3, <1>4, <1>5
<1>9. IsLine(l, t)
  BY <1>4, <1>5, <1>7, <1>8 DEF IsLine
<1> QED BY <1>3, <1>9

LEMMA DataFrame ==
    ASSUME NEW i \in Ports, i = 0,
           Data(port[0].open, ovf[0], last[0], End(0), rx[0], lines, linebuf, line),
           port'[0].open = port[0].open, ovf'[0] = ovf[0], last'[0] = last[0], End(0)' = End(0),
           rx'[0] = rx[0], lines' = lines, linebuf' = linebuf, line' = line
    PROVE  Data(port[0].open, ovf[0], last[0], End(0), rx[0], lines, linebuf, line)'
  BY DEF Data

LEMMA FifoKept ==
    ASSUME IsUarts(uart), NEW j \in Ports, NEW b,
           uart' = [uart EXCEPT ![j].thr = b] \/ uart' = [uart EXCEPT ![j].dlab = b]
    PROVE  \A i \in Ports : uart'[i].fifo = uart[i].fifo
<1>1. uart = [i \in Ports |-> uart[i]] /\ IsUart(uart[j])
  BY DEF IsUarts
<1>2. PICK u : u = uart[j] /\ u \in [fifo : Seq(Nat), ier : BOOLEAN, dlab : BOOLEAN, thr : {u.thr}]
  BY <1>1 DEF IsUart
<1>3. [u EXCEPT !.thr = b].fifo = u.fifo /\ [u EXCEPT !.dlab = b].fifo = u.fifo
  BY <1>2
<1>4. PICK v : uart' = [uart EXCEPT ![j] = v] /\ v.fifo = u.fifo
  BY <1>2, <1>3
<1>5. uart' = [i \in Ports |-> IF i = j THEN v ELSE uart[i]]
  BY <1>1, <1>4
<1>6. \A i \in Ports : uart'[i] = IF i = j THEN v ELSE uart[i]
  BY <1>5
<1> QED BY <1>2, <1>4, <1>6

LEMMA GetlineInit == Init => GetlineInv
<1> SUFFICES ASSUME Init PROVE GetlineInv
  OBVIOUS
<1>0. 0 \in Ports /\ 1 \in Ports /\ Closed.open = FALSE
  BY DEF Ports, Closed
<1>1. port[0].open = FALSE /\ port[1].open = FALSE
  BY <1>0 DEF Init
<1>2. Modes
  BY <1>1 DEF Init, Modes
<1>3. rx[0] = << >> /\ uart[0].fifo = << >> /\ last[0] = 0 /\ ovf[0] = "none"
  BY <1>0 DEF Init
<1>4. End(0) = 0 /\ 0 < BUFSZ
  BY <1>3, Sizes DEF End
<1>5. Data(port[0].open, ovf[0], last[0], End(0), rx[0], lines, linebuf, line)
  BY <1>1, <1>3, <1>4, Sizes DEF Init, Data, Lined
<1> QED BY <1>2, <1>5 DEF GetlineInv

\* a step that leaves what Data speaks of as it is
Aside ==
    /\ UNCHANGED <<prog, shared, last, lines, linebuf, line, ovf, rx>>
    /\ \A i \in Ports : port'[i].open = port[i].open /\ uart'[i].fifo = uart[i].fifo

LEMMA AsideKeeps ==
    ASSUME GetlineInv, Aside, ReadsLines => Modes'
    PROVE  GetlineInv'
<1>1. 0 \in Ports
  BY DEF Ports
<1>2. End(0)' = End(0)
  BY <1>1 DEF Aside, End
<1>3. ReadsLines' <=> ReadsLines
  BY DEF ReadsLines, Aside
<1>4. ReadsLines => Data(port[0].open, ovf[0], last[0], End(0), rx[0], lines, linebuf, line)'
  <2>1. SUFFICES ASSUME ReadsLines
                 PROVE  Data(port[0].open, ovf[0], last[0], End(0), rx[0], lines, linebuf, line)'
    OBVIOUS
  <2>2. Data(port[0].open, ovf[0], last[0], End(0), rx[0], lines, linebuf, line)
    BY <2>1 DEF GetlineInv
  <2>3. /\ port'[0].open = port[0].open /\ ovf'[0] = ovf[0] /\ last'[0] = last[0]
        /\ rx'[0] = rx[0] /\ lines' = lines /\ linebuf' = linebuf /\ line' = line
    BY <1>1 DEF Aside
  <2> QED BY <1>1, <1>2, <2>2, <2>3, DataFrame
<1> QED BY <1>3, <1>4 DEF GetlineInv

LEMMA QuietSteps ==
    ASSUME IInv, GetlineInv,
           \/ \E i \in Ports : transmit(i) \/ (\E b \in BOOLEAN : ser_block(i, b))
           \/ \E t \in Texts : call_write(t)
           \/ open_dlab \/ open_fmt \/ putc_send
           \/ pend_ridx \/ pend_widx \/ getc_index \/ getc_byte \/ getc_load
           \/ UNCHANGED vars \/ stopped
    PROVE  GetlineInv'
<1>0. IsUarts(uart) /\ fd \in Ports /\ port \in [Ports -> PortType] /\ 0 \in Ports /\ 1 \in Ports
  BY DEF IInv, Control, Ports
<1>1. CASE \E i \in Ports : transmit(i)
  <2>1. PICK i \in Ports : transmit(i)
    BY <1>1
  <2>2. PICK x : x = Empty
    OBVIOUS
  <2>3. uart' = [uart EXCEPT ![i].thr = x]
    BY <2>1, <2>2 DEF transmit
  <2>4. \A j \in Ports : uart'[j].fifo = uart[j].fifo
    BY <1>0, <2>3, FifoKept
  <2>5. UNCHANGED <<prog, shared, last, lines, linebuf, line, ovf, rx, port, pc, fn, fd, cnt>>
    BY <2>1 DEF transmit, regs, hist
  <2>6. Aside
    BY <2>4, <2>5 DEF Aside
  <2>7. ReadsLines => Modes'
    BY <2>5 DEF GetlineInv, Modes
  <2> QED BY <2>6, <2>7, AsideKeeps
<1>2. CASE \E i \in Ports, b \in BOOLEAN : ser_block(i, b)
  <2>1. PICK i \in Ports, b \in BOOLEAN : ser_block(i, b)
    BY <1>2
  <2>2. UNCHANGED <<prog, shared, last, lines, linebuf, line, ovf, rx, uart, pc, fn, fd, cnt>>
    BY <2>1 DEF ser_block, dev, regs, hist
  <2>3. \A j \in Ports : port'[j].open = port[j].open
    <3>1. PICK q : q = [port[i] EXCEPT !.blocking = b]
      OBVIOUS
    <3>2. q.open = port[i].open
      BY <1>0, <3>1 DEF PortType
    <3>3. port' = [port EXCEPT ![i] = q]
      BY <1>0, <2>1, <3>1 DEF ser_block
    <3> QED BY <1>0, <3>2, <3>3
  <2>4. Aside
    BY <2>2, <2>3 DEF Aside
  <2>5. ReadsLines => Modes'
    BY <1>0, <2>2, <2>3 DEF GetlineInv, Modes
  <2> QED BY <2>4, <2>5, AsideKeeps
<1>3. CASE open_dlab \/ open_fmt
  <2>1. PICK b : uart' = [uart EXCEPT ![fd].dlab = b]
    BY <1>3 DEF open_dlab, open_fmt
  <2>2. \A j \in Ports : uart'[j].fifo = uart[j].fifo
    BY <1>0, <2>1, FifoKept
  <2>3. /\ UNCHANGED <<prog, shared, last, lines, linebuf, line, ovf, rx, port, fn, fd, cnt>>
        /\ pc' \in {"fmt", "fifo"}
    BY <1>3 DEF open_dlab, open_fmt, regs, hist
  <2>4. Aside
    BY <2>2, <2>3 DEF Aside
  <2>5. ReadsLines => Modes'
    BY <2>3 DEF GetlineInv, Modes
  <2> QED BY <2>4, <2>5, AsideKeeps
<1>4. CASE putc_send
  <2>1. PICK x : x = Head(out)
    OBVIOUS
  <2>2. uart' = [uart EXCEPT ![0].thr = x]
    BY <1>4, <2>1 DEF putc_send
  <2>3. \A j \in Ports : uart'[j].fifo = uart[j].fifo
    BY <1>0, <2>2, FifoKept
  <2>4. /\ UNCHANGED <<prog, shared, last, lines, linebuf, line, ovf, rx, port, fn, fd, cnt>>
        /\ pc' \in {"idle", "send"}
    BY <1>4 DEF putc_send, hist
  <2>5. Aside
    BY <2>3, <2>4 DEF Aside
  <2>6. ReadsLines => Modes'
    BY <2>4 DEF GetlineInv, Modes
  <2> QED BY <2>5, <2>6, AsideKeeps
<1>5. CASE (\E t \in Texts : call_write(t)) \/ UNCHANGED vars \/ stopped
  <2>1. /\ UNCHANGED <<prog, shared, last, lines, linebuf, line, ovf, rx, uart, port, fn, fd, cnt>>
        /\ pc' = pc \/ pc' = "send"
    BY <1>5 DEF call_write, stopped, vars, dev, regs, hist
  <2>2. Aside
    BY <2>1 DEF Aside
  <2>3. ReadsLines => Modes'
    BY <2>1 DEF GetlineInv, Modes
  <2> QED BY <2>2, <2>3, AsideKeeps
<1>6. CASE pend_ridx \/ getc_index \/ getc_byte \/ getc_load
  <2>1. /\ UNCHANGED <<prog, shared, last, lines, linebuf, line, ovf, rx, uart, port, fn, fd, cnt>>
        /\ <<pc, pc'>> \in {<<"pend", "cmp">>, <<"idx", "byte">>, <<"byte", "adv">>, <<"adv", "store">>}
    BY <1>6 DEF pend_ridx, getc_index, getc_byte, getc_load, At, dev, hist
  <2>2. Aside
    BY <2>1 DEF Aside
  <2>3. ReadsLines => Modes'
    BY <2>1 DEF GetlineInv, Modes
  <2> QED BY <2>2, <2>3, AsideKeeps
<1>7. CASE pend_widx
  <2>1. UNCHANGED <<prog, shared, last, lines, linebuf, line, ovf, rx, uart, port>>
    BY <1>7 DEF pend_widx, GetcReturns, dev, hist
  <2>2. Aside
    BY <2>1 DEF Aside
  <2>3. ASSUME ReadsLines PROVE Modes'
    <3>1. Modes /\ pc = "cmp" /\ fn \in {"wait", "getline"}
      BY <1>7, <2>3 DEF GetlineInv, Modes, pend_widx, At
    <3>2. \/ Idle
          \/ pc' = "idx" /\ fn = "getline" /\ UNCHANGED <<fn, fd, cnt>>
          \/ pc' = "pend" /\ UNCHANGED <<fn, fd, cnt>>
          \/ /\ fn = "getline" /\ UNCHANGED <<fn, fd>> /\ pc' \in {"scan", "pend"}
             /\ cnt' = [cnt EXCEPT !.rd = 0]
      BY <1>7, <3>1 DEF pend_widx, GetcReturns
    <3>3. cnt \in [bsz : Nat \ {0}, rd : {0, 1}] => [cnt EXCEPT !.rd = 0] \in [bsz : Nat \ {0}, rd : {0, 1}]
      OBVIOUS
    <3> QED BY <2>1, <3>1, <3>2, <3>3 DEF Modes, Idle
  <2> QED BY <2>2, <2>3, AsideKeeps
<1> QED BY <1>1, <1>2, <1>3, <1>4, <1>5, <1>6, <1>7

LEMMA ReceiveLines ==
    ASSUME IInv, GetlineInv, NEW i \in Ports, NEW c \in prog.chars, receive(i, c)
    PROVE  GetlineInv'
<1>1. /\ UNCHANGED <<prog, shared, last, lines, linebuf, line, ovf, port, pc, fn, fd, cnt>>
      /\ rx' = [rx EXCEPT ![i] = Append(@, c)] /\ i \in prog.ports
  BY DEF receive, regs, hist
<1>2. SUFFICES ASSUME ReadsLines
               PROVE  Modes' /\ Data(port[0].open, ovf[0], last[0], End(0), rx[0], lines, linebuf, line)'
  BY <1>1 DEF GetlineInv, ReadsLines
<1>3. /\ Modes /\ i = 0 /\ 0 \in Ports
      /\ Data(port[0].open, ovf[0], last[0], End(0), rx[0], lines, linebuf, line)
  BY <1>1, <1>2 DEF GetlineInv, ReadsLines, Ports
<1>4. Modes'
  BY <1>1, <1>3 DEF Modes
<1>5. PICK s \in Seq(prog.chars) : s = rx[0]
  BY <1>3 DEF IInv, History
<1>6. rx'[0] = Append(s, c) /\ Len(rx'[0]) = Len(s) + 1
  <2>1. rx'[0] = Append(s, c)
    BY <1>1, <1>3, <1>5 DEF IInv, History
  <2> QED BY <2>1, AppendProperties
<1>7. PICK f \in Seq(Nat) : f = uart[0].fifo
  BY <1>3, PortFacts DEF IInv
<1>8. Len(uart'[0].fifo) = Len(f) + 1
  <2>1. PICK g : g = Append(f, Len(s) + 1) /\ Len(g) = Len(f) + 1
    <3>1. Len(s) + 1 \in Nat
      OBVIOUS
    <3>2. Len(Append(f, Len(s) + 1)) = Len(f) + 1
      BY <3>1
    <3> QED BY <3>2
  <2>2. uart' = [uart EXCEPT ![0].fifo = g]
    BY <1>3, <1>5, <1>7, <2>1 DEF receive
  <2>3. uart = [j \in Ports |-> uart[j]] /\ IsUart(uart[0])
    BY <1>3 DEF IInv, Control, IsUarts
  <2>4. PICK u : u = uart[0] /\ u \in [fifo : Seq(Nat), ier : BOOLEAN, dlab : BOOLEAN, thr : {u.thr}]
    BY <2>3 DEF IsUart
  <2>5. [u EXCEPT !.fifo = g].fifo = g
    BY <2>4
  <2>6. uart'[0] = [u EXCEPT !.fifo = g]
    BY <1>3, <2>2, <2>3, <2>4
  <2> QED BY <2>1, <2>5, <2>6
<1>9. End(0)' = End(0)
  <2>1. Len(s) \in Nat /\ Len(f) \in Nat
    OBVIOUS
  <2> QED BY <1>5, <1>6, <1>7, <1>8, <2>1 DEF End
<1>10. ASSUME line # << >>, IsLine(line[1], s) PROVE IsLine(line[1], rx'[0])
  <2>1. line[1].from \in Nat
    <3>1. PICK R : R = [chars : Seq(Ports \X Nat), from : Nat, bsz : Nat \ {0}]
      OBVIOUS
    <3>2. line \in Seq(R)
      BY <1>3, <3>1 DEF Data
    <3>3. Len(line) \in Nat \ {0}
      BY <1>10, <3>2, EmptySeq
    <3>4. line[1] \in R
      BY <3>2, <3>3
    <3> QED BY <3>1, <3>4
  <2> QED BY <1>6, <1>10, <2>1, LineLonger
<1>11. Data(port[0].open, ovf[0], last[0], End(0), rx[0], lines, linebuf, line)'
  BY <1>1, <1>3, <1>5, <1>9, <1>10 DEF Data
<1> QED BY <1>4, <1>11

LEMMA ZeroLines ==
    ASSUME IInv, GetlineInv, (\E i \in Ports : open_begin(i)) \/ zero_inbuf \/ zero_ridx
    PROVE  GetlineInv'
<1>0. port \in [Ports -> PortType] /\ fd \in Ports /\ 0 \in Ports /\ 1 \in Ports
  BY DEF IInv, Control, Ports
<1>1. /\ UNCHANGED <<prog, shared, last, lines, linebuf, line, ovf, rx, uart, fn, cnt>>
      /\ fd' = fd \/ fd' \in prog.ports
      /\ <<pc, pc'>> \in {<<"idle", "zero">>, <<"zero", "zero">>, <<"zero", "ridx">>, <<"ridx", "widx">>}
  BY DEF open_begin, zero_inbuf, zero_ridx, At, dev, hist, regs
<1>2. PICK j \in Ports : \E q : port' = [port EXCEPT ![j] = q] /\ q.open = port[j].open
  <2>1. ASSUME NEW i \in Ports, open_begin(i)
        PROVE  \E q : port' = [port EXCEPT ![i] = q] /\ q.open = port[i].open
    <3>1. PICK q : q = [port[i] EXCEPT !.blocking = FALSE]
      OBVIOUS
    <3>2. q.open = port[i].open
      BY <1>0, <3>1 DEF PortType
    <3> QED BY <1>0, <2>1, <3>1, <3>2 DEF open_begin
  <2>2. CASE zero_inbuf
    <3>1. PICK b : Zeroed(port[fd], tmp) = [port[fd] EXCEPT !.inbuf = b]
      BY DEF Zeroed
    <3>2. Zeroed(port[fd], tmp).open = port[fd].open
      BY <1>0, <3>1 DEF PortType
    <3> QED BY <1>0, <2>2, <3>2 DEF zero_inbuf
  <2>3. CASE zero_ridx
    <3>1. PICK q : q = [port[fd] EXCEPT !.ridx = 0]
      OBVIOUS
    <3>2. q.open = port[fd].open
      BY <1>0, <3>1 DEF PortType
    <3> QED BY <1>0, <2>3, <3>1, <3>2 DEF zero_ridx
  <2> QED BY <1>0, <2>1, <2>2, <2>3
<1>3. \A i \in Ports : port'[i].open = port[i].open
  <2>1. PICK q : port' = [port EXCEPT ![j] = q] /\ q.open = port[j].open
    BY <1>2
  <2> QED BY <1>0, <2>1
<1>4. Aside
  BY <1>1, <1>3 DEF Aside
<1>5. ASSUME ReadsLines PROVE Modes'
  <2>1. Modes /\ fd' = 0
    BY <1>1, <1>5 DEF GetlineInv, Modes, ReadsLines
  <2> QED BY <1>0, <1>1, <1>3, <2>1 DEF Modes
<1> QED BY <1>4, <1>5, AsideKeeps

LEMMA OpenLines ==
    ASSUME IInv, GetlineInv, zero_widx
    PROVE  GetlineInv'
<1>0. /\ port \in [Ports -> PortType] /\ last \in [Ports -> Nat] /\ Control
      /\ ovf \in [Ports -> {"none", "clean", "raced", "torn"}]
  BY DEF IInv, Control, History
<1>1. /\ UNCHANGED <<prog, shared, lines, linebuf, line, rx, uart, fn, fd, cnt>>
      /\ pc = "widx" /\ pc' = "dlab"
      /\ port' = [port EXCEPT ![fd] = Emptied(port[fd])] /\ last' = [last EXCEPT ![fd] = End(fd)]
  BY DEF zero_widx, At, dev, regs, End
<1>2. SUFFICES ASSUME ReadsLines
               PROVE  Modes' /\ Data(port[0].open, ovf[0], last[0], End(0), rx[0], lines, linebuf, line)'
  BY <1>1 DEF GetlineInv, ReadsLines
<1>3. /\ Modes /\ fd = 0 /\ 0 \in Ports /\ 1 \in Ports
      /\ Data(port[0].open, ovf[0], last[0], End(0), rx[0], lines, linebuf, line)
  BY <1>2 DEF GetlineInv, Modes, Ports
<1>4. ~port[0].open
  BY <1>0, <1>1, <1>3 DEF Control, Opening, OpenPlaces
<1>5. port'[0].open = FALSE /\ port'[1] = port[1] /\ last'[0] = End(0)
  <2>1. PICK q : q = [port[0] EXCEPT !.widx = 0]
    OBVIOUS
  <2>2. q.open = port[0].open /\ port[0].open \in BOOLEAN
    BY <1>0, <1>3, <2>1 DEF PortType
  <2>3. port' = [port EXCEPT ![0] = q]
    BY <1>1, <1>3, <2>1 DEF Emptied
  <2> QED BY <1>0, <1>1, <1>3, <1>4, <2>2, <2>3
<1>7. Modes'
  BY <1>1, <1>3, <1>4, <1>5 DEF Modes
<1>8. lines = 0 /\ linebuf = << >> /\ line = << >> /\ End(0) = 0 /\ End(0)' = 0
  BY <1>1, <1>3, <1>4 DEF Data, End
<1>9. Data(port[0].open, ovf[0], last[0], End(0), rx[0], lines, linebuf, line)'
  BY <1>1, <1>3, <1>5, <1>8, Sizes DEF Data, Lined
<1> QED BY <1>7, <1>9

LEMMA OpenedLines ==
    ASSUME IInv, GetlineInv, open_done
    PROVE  GetlineInv'
<1>0. Control /\ History /\ port \in [Ports -> PortType] /\ IsUarts(uart)
  BY DEF IInv, Control
<1>1. /\ UNCHANGED <<prog, lines, linebuf, line, fn, cnt, last, ovf>> /\ fd' = 0 /\ pc' = "idle"
      /\ pc = "fifo" /\ shared' = (shared \/ num_open + 1 = 2)
      /\ port' = [port EXCEPT ![fd].open = TRUE, ![fd].blocking = TRUE]
  BY DEF open_done, At
<1>2. SUFFICES ASSUME ReadsLines
               PROVE  Modes' /\ Data(port[0].open, ovf[0], last[0], End(0), rx[0], lines, linebuf, line)'
  BY <1>1 DEF GetlineInv, ReadsLines
<1>3. /\ Modes /\ fd = 0 /\ 0 \in Ports /\ 1 \in Ports
      /\ Data(port[0].open, ovf[0], last[0], End(0), rx[0], lines, linebuf, line)
  BY <1>2 DEF GetlineInv, Modes, Ports
<1>4. ~port[0].open
  BY <1>0, <1>1, <1>3 DEF Control, Opening, OpenPlaces
<1>5. port'[0].open = TRUE /\ port'[1] = port[1]
  <2>1. PICK q : q = [port[0] EXCEPT !.open = TRUE, !.blocking = TRUE]
    OBVIOUS
  <2>2. q.open = TRUE
    <3>1. port[0] \in PortType
      BY <1>0, <1>3
    <3> QED BY <2>1, <3>1 DEF PortType
  <2>3. port' = [port EXCEPT ![0] = q]
    BY <1>0, <1>1, <1>3, <2>1
  <2> QED BY <1>0, <1>3, <2>2, <2>3
<1>6. ~shared'
  <2>1. num_open = 0
    BY <1>0, <1>3, <1>4 DEF Control, Count, Modes
  <2>2. ~(num_open + 1 = 2) /\ ~shared
    BY <1>3, <2>1 DEF Modes
  <2> QED BY <1>1, <2>2, Zenon
<1>7. Modes'
  BY <1>1, <1>3, <1>5, <1>6 DEF Modes
<1>8. uart'[0].fifo = << >>
  <2>1. uart = [j \in Ports |-> uart[j]] /\ IsUart(uart[0])
    BY <1>0, <1>3 DEF IsUarts
  <2>2. PICK u : u = uart[0] /\ u \in [fifo : Seq(Nat), ier : BOOLEAN, dlab : BOOLEAN, thr : {u.thr}]
    BY <2>1 DEF IsUart
  <2>3. PICK v : v = [u EXCEPT !.fifo = << >>, !.ier = TRUE]
    OBVIOUS
  <2>6. v.fifo = << >>
    BY <2>2, <2>3
  <2>4. uart' = [uart EXCEPT ![0] = v]
    BY <1>3, <2>1, <2>2, <2>3 DEF open_done
  <2>5. uart'[0] = v
    BY <1>3, <2>1, <2>4
  <2> QED BY <2>5, <2>6
<1>9. rx' = [rx EXCEPT ![0] = SubSeq(rx[0], 1, End(0))]
  BY <1>0, <1>3 DEF open_done, End, History
<1>10. End(0)' = End(0)
  BY <1>0, <1>3, <1>8, <1>9, Cleared
<1>11. Data(port[0].open, ovf[0], last[0], End(0), rx[0], lines, linebuf, line)'
  BY <1>1, <1>3, <1>4, <1>5, <1>10 DEF Data
<1> QED BY <1>7, <1>11

LEMMA CallLines ==
    ASSUME IInv, GetlineInv, NEW f, NEW i \in Ports, NEW n \in Counts, call(f, i, n)
    PROVE  GetlineInv'
<1>1. /\ UNCHANGED <<prog, shared, lines, linebuf, rx, uart, port, last, ovf>>
      /\ f \in prog.fns \cap {"wait", "getc", "read", "getline"} /\ port[i].open
      /\ fn' = f /\ fd' = i /\ line' = << >> /\ pc' \in {"scan", "pend"}
      /\ pc' = "scan" => f = "getline"
      /\ f = "getline" => cnt' = [bsz |-> n, rd |-> 0]
  BY DEF call, dev
<1>2. SUFFICES ASSUME ReadsLines
               PROVE  Modes' /\ Data(port[0].open, ovf[0], last[0], End(0), rx[0], lines, linebuf, line)'
  BY <1>1 DEF GetlineInv, ReadsLines
<1>3. /\ Modes /\ i = 0
      /\ Data(port[0].open, ovf[0], last[0], End(0), rx[0], lines, linebuf, line)
  BY <1>1, <1>2 DEF GetlineInv, Modes, Ports
<1>4. f \in {"wait", "getline"}
  BY <1>1, <1>2 DEF ReadsLines
<1>5. n \in Nat \ {0}
  BY SerialAssumption
<1>6. [bsz |-> n, rd |-> 0] \in [bsz : Nat \ {0}, rd : {0, 1}]
  BY <1>5
<1>7. Modes'
  BY <1>1, <1>3, <1>4, <1>6 DEF Modes
<1>8. End(0)' = End(0)
  BY <1>1 DEF End
<1>9. line' \in Seq([chars : Seq(Ports \X Nat), from : Nat, bsz : Nat \ {0}])
  BY <1>1, EmptySeq
<1>10. Data(port[0].open, ovf[0], last[0], End(0), rx[0], lines, linebuf, line)'
  BY <1>1, <1>3, <1>8, <1>9 DEF Data
<1> QED BY <1>7, <1>10

LEMMA InterruptLines ==
    ASSUME IInv, GetlineInv, recv_intr
    PROVE  GetlineInv'
<1>0. Control /\ History /\ Alone /\ PortInv(0) /\ 0 \in Ports /\ 1 \in Ports
  BY DEF IInv, Ports
<1>1. UNCHANGED <<prog, shared, lines, linebuf, line, rx, last, pc, fn, fd, cnt>>
  BY DEF recv_intr, regs
<1>2. SUFFICES ASSUME ReadsLines
               PROVE  Modes' /\ Data(port[0].open, ovf[0], last[0], End(0), rx[0], lines, linebuf, line)'
  BY <1>1 DEF GetlineInv, ReadsLines
<1>3. Modes /\ Data(port[0].open, ovf[0], last[0], End(0), rx[0], lines, linebuf, line)
  BY <1>2 DEF GetlineInv
<1>4. \A i \in Ports :
        \/ port'[i] = port[i] /\ uart'[i] = uart[i] /\ ovf'[i] = ovf[i]
        \/ /\ Serves(i) /\ port'[i] = Drained(i) /\ uart'[i] = [uart[i] EXCEPT !.fifo = << >>]
           /\ ovf'[i] = IF ~Overflows(i) \/ ovf[i] \in {"raced", "torn"} THEN ovf[i]
                        ELSE IF InGetc(i) THEN "raced" ELSE "clean"
  <2>1. CASE UNCHANGED <<port, uart, ovf>>
    BY <2>1
  <2>2. CASE /\ port' = [i \in Ports |-> Drained(i)]
             /\ uart' = [i \in Ports |-> IF Serves(i) THEN [uart[i] EXCEPT !.fifo = << >>] ELSE uart[i]]
             /\ ovf' = [i \in Ports |-> IF ~Overflows(i) \/ ovf[i] \in {"raced", "torn"} THEN ovf[i]
                                        ELSE IF InGetc(i) THEN "raced" ELSE "clean"]
    <3>1. ASSUME NEW i \in Ports
          PROVE  /\ port'[i] = Drained(i)
                 /\ uart'[i] = IF Serves(i) THEN [uart[i] EXCEPT !.fifo = << >>] ELSE uart[i]
                 /\ ovf'[i] = IF ~Overflows(i) \/ ovf[i] \in {"raced", "torn"} THEN ovf[i]
                              ELSE IF InGetc(i) THEN "raced" ELSE "clean"
      BY <2>2
    <3>2. \A i \in Ports : ~Serves(i) => Drained(i) = port[i] /\ ~Overflows(i)
      BY DEF Drained, Overflows
    <3> QED BY <3>1, <3>2
  <2> QED BY <2>1, <2>2 DEF recv_intr
<1>5. \A i \in Ports : port'[i].open = port[i].open
  BY <1>1, <1>4, ServedPort, SkippedPort DEF Handled
<1>6. Modes'
  BY <1>0, <1>1, <1>3, <1>5 DEF Modes
<1>7. Data(port[0].open, ovf[0], last[0], End(0), rx[0], lines, linebuf, line)'
  <2>1. CASE port'[0] = port[0] /\ uart'[0] = uart[0] /\ ovf'[0] = ovf[0]
    <3>1. End(0)' = End(0)
      BY <1>1, <2>1 DEF End
    <3> QED BY <1>0, <1>1, <1>3, <2>1, <3>1, DataFrame
  <2>2. CASE /\ Serves(0) /\ uart'[0] = [uart[0] EXCEPT !.fifo = << >>]
             /\ ovf'[0] = IF ~Overflows(0) \/ ovf[0] \in {"raced", "torn"} THEN ovf[0]
                          ELSE IF InGetc(0) THEN "raced" ELSE "clean"
    <3>1. port[0].open
      BY <1>0, <1>3, <2>2 DEF Serves, Pending, Alone, Modes
    <3>2. Ring(port[0], End(0), ovf[0], last[0], since[0])
      BY <1>0, <3>1 DEF PortInv, Active
    <3>3. PICK e \in Nat, l \in Nat, u \in Nat, f \in Nat :
            e = End(0) /\ l = last[0] /\ u = Used(port[0]) /\ f = Len(uart[0].fifo)
      <4>1. End(0) \in Nat /\ last[0] \in Nat
        BY <1>0 DEF History, IsFifo
      <4>2. Used(port[0]) \in Nat /\ Len(uart[0].fifo) \in Nat
        BY <1>0, PortFacts, Sizes
      <4> QED BY <4>1, <4>2
    <3>4. End(0)' = e + f
      <4>1. PICK v : v = uart[0] /\ v \in [fifo : Seq(Nat), ier : BOOLEAN, dlab : BOOLEAN, thr : {v.thr}]
        BY <1>0 DEF Control, IsUarts, IsUart
      <4>2. [v EXCEPT !.fifo = << >>].fifo = << >>
        BY <4>1
      <4>3. uart'[0].fifo = << >> /\ Len(uart'[0].fifo) = 0
        BY <2>2, <4>1, <4>2
      <4>4. PICK n \in Nat : n = Len(rx[0])
        <5>1. PICK s \in Seq(prog.chars) : s = rx[0]
          BY <1>0 DEF History
        <5>2. Len(s) \in Nat
          OBVIOUS
        <5> QED BY <5>1, <5>2
      <4>5. End(0)' = n - 0 /\ e = n - f
        BY <1>1, <3>3, <4>3, <4>4 DEF End
      <4> QED BY <4>5
    <3>5. ovf'[0] = "none" => ovf[0] = "none" /\ ~Overflows(0)
      BY <2>2
    <3>6. ovf[0] = "none" => l <= e /\ e - l < BUFSZ
                             /\ u = IF e - l < BUFSZ - 1 THEN e - l ELSE BUFSZ - 1
      BY <1>3, <3>2, <3>3 DEF Ring, Exact, Data
    <3>7. ~Overflows(0) => u + f < BUFSZ
      <4>1. port[0].ridx \in Index /\ port[0].widx \in Index
        BY <1>0, PortFacts
      <4>2. (port[0].widx - port[0].ridx) % BUFSZ = u
        BY <3>3, <4>1, DistFacts DEF Used
      <4> QED BY <2>2, <3>3, <4>2, Sizes DEF Overflows
    <3>8. ovf'[0] = "none" => e + f - l < BUFSZ
      BY <3>5, <3>6, <3>7, Sizes
    <3>9. port'[0].open
      BY <1>0, <1>5, <3>1
    <3> QED BY <1>1, <1>3, <3>3, <3>4, <3>5, <3>8, <3>9 DEF Data
  <2> QED BY <1>0, <1>4, <2>1, <2>2
<1> QED BY <1>6, <1>7

LEMMA TakeLines ==
    ASSUME IInv, GetlineInv, getc_store
    PROVE  GetlineInv'
<1>0. /\ Control /\ History /\ PortInv(0) /\ LineInv /\ 0 \in Ports /\ 1 \in Ports
      /\ port \in [Ports -> PortType] /\ chr \in Nat
  BY DEF IInv, Ports, Control
<1>1. /\ UNCHANGED <<prog, shared, lines, line, rx, uart, ovf>> /\ pc = "store"
      /\ last' = [last EXCEPT ![fd] = chr] /\ GetcReturns(chr)
      /\ port' = [port EXCEPT ![fd].ridx = NextRidx(tmp)]
  BY DEF getc_store, At, dev
<1>2. SUFFICES ASSUME ReadsLines
               PROVE  Modes' /\ Data(port[0].open, ovf[0], last[0], End(0), rx[0], lines, linebuf, line)'
  BY <1>1 DEF GetlineInv, ReadsLines
<1>3. /\ Modes /\ fd = 0 /\ fn = "getline" /\ port[0].open
      /\ cnt \in [bsz : Nat \ {0}, rd : {0, 1}]
      /\ Data(port[0].open, ovf[0], last[0], End(0), rx[0], lines, linebuf, line)
  BY <1>1, <1>2 DEF GetlineInv, Modes
<1>4. /\ UNCHANGED <<fn, fd>> /\ pc' \in {"scan", "pend"}
      /\ cnt' \in {[cnt EXCEPT !.rd = 0], [cnt EXCEPT !.rd = 1]}
      /\ chr # 0 => linebuf' = Append(linebuf, <<0, chr>>)
  BY <1>1, <1>3 DEF GetcReturns
<1>5. cnt' \in [bsz : Nat \ {0}, rd : {0, 1}]
  BY <1>3, <1>4
<1>6. port'[0].open = port[0].open /\ port'[1] = port[1]
  <2>1. PICK q : q = [port[0] EXCEPT !.ridx = NextRidx(tmp)]
    OBVIOUS
  <2>2. port[0] \in PortType
    BY <1>0
  <2>3. q.open = port[0].open
    BY <2>1, <2>2 DEF PortType
  <2>4. port' = [port EXCEPT ![0] = q]
    BY <1>0, <1>1, <1>3, <2>1
  <2> QED BY <1>0, <2>3, <2>4
<1>7. Modes'
  BY <1>1, <1>3, <1>4, <1>5, <1>6 DEF Modes
<1>8. last'[0] = chr
  BY <1>0, <1>1, <1>3 DEF History
<1>9. End(0)' = End(0)
  BY <1>1 DEF End
<1>10. ASSUME ovf[0] = "none"
       PROVE  chr = lines + Len(linebuf') /\ Lined(lines, linebuf') /\ End(0) - chr < BUFSZ
  <2>1. PICK e \in Nat, l \in Nat, u \in Nat, n \in Nat :
          e = End(0) /\ l = last[0] /\ u = Used(port[0]) /\ n = lines
    <3>1. End(0) \in Nat /\ last[0] \in Nat
      BY <1>0 DEF History, IsFifo
    <3>2. Used(port[0]) \in Nat
      BY <1>0, PortFacts, Sizes
    <3>3. lines \in Nat
      BY <1>3 DEF Data
    <3> QED BY <3>1, <3>2, <3>3
  <2>2. Ring(port[0], End(0), ovf[0], last[0], since[0]) /\ Getc(port[0], End(0), pc, tmp, chr)
    BY <1>0, <1>3, <1>10 DEF PortInv, Active
  <2>3. /\ l <= e /\ e - l < BUFSZ /\ u >= 1 /\ chr = e - u + 1
        /\ u = IF e - l < BUFSZ - 1 THEN e - l ELSE BUFSZ - 1
    BY <1>1, <1>3, <1>10, <2>1, <2>2 DEF Ring, Exact, Data, Getc
  <2>4. chr = l + 1 /\ chr # 0
    BY <2>1, <2>3, Sizes
  <2>5. PICK P : P = Ports \X Nat
    OBVIOUS
  <2>6. PICK b \in Seq(P) : b = linebuf
    BY <1>0, <2>5 DEF LineInv
  <2>7. PICK x \in P : x = <<0, chr>>
    BY <1>0, <2>5
  <2>8. PICK m \in Nat : m = Len(b)
    BY <2>6
  <2>9. /\ linebuf' = Append(b, x) /\ Len(linebuf') = m + 1
        /\ \A k \in 1 .. m + 1 : linebuf'[k] = IF k = m + 1 THEN x ELSE b[k]
    <3>1. linebuf' = Append(b, x)
      BY <1>4, <2>4, <2>6, <2>7
    <3> QED BY <2>8, <3>1
  <2>10. l = n + m /\ \A k \in 1 .. m : b[k] = <<0, n + k>>
    BY <1>3, <1>10, <2>1, <2>6, <2>8 DEF Data, Lined
  <2>11. ASSUME NEW k \in 1 .. m + 1 PROVE linebuf'[k] = <<0, n + k>>
    <3>1. CASE k = m + 1
      <4>1. chr = n + k
        BY <2>4, <2>10, <3>1
      <4> QED BY <2>7, <2>9, <3>1, <4>1
    <3>2. CASE k # m + 1
      <4>1. k \in 1 .. m /\ linebuf'[k] = b[k]
        BY <2>9, <3>2
      <4> QED BY <2>10, <4>1
    <3> QED BY <3>1, <3>2
  <2>12. Lined(lines, linebuf')
    BY <2>1, <2>9, <2>11 DEF Lined
  <2> QED BY <2>1, <2>3, <2>4, <2>9, <2>10, <2>12, Sizes
<1>11. Data(port[0].open, ovf[0], last[0], End(0), rx[0], lines, linebuf, line)'
  BY <1>1, <1>3, <1>6, <1>8, <1>9, <1>10 DEF Data
<1> QED BY <1>7, <1>11

\* the line that ends at the k-th character of buf, and what follows it
LEMMA LineCut ==
    ASSUME NEW C, NEW s \in Seq(C), NEW P, NEW buf \in Seq(P),
           NEW n \in Nat, Lined(n, buf), n + Len(buf) <= Len(s), NEW k \in 1 .. Len(buf),
           IsNewline(s[n + k]), \A j \in 1 .. k - 1 : ~IsNewline(s[n + j]),
           NEW bsz \in Nat \ {0}, NEW l, l.from = n, l.bsz = bsz,
           l.chars = SubSeq(buf, 1, Shown(k - 1, bsz))
    PROVE  IsLine(l, s) /\ Lined(n + k, SubSeq(buf, k + 1, Len(buf)))
<1>1. PICK m \in Nat, len \in Nat : m = Len(buf) /\ len = Len(s) /\ n + m <= len
  BY SeqMonotonic
<1>2. \A j \in 1 .. m : buf[j] = <<0, n + j>>
  BY <1>1 DEF Lined
<1>3. PICK d \in 0 .. m : d = Shown(k - 1, bsz) /\ d <= k - 1
  BY <1>1 DEF Shown
<1>4. l.chars = [j \in 1 .. d |-> <<0, n + j>>]
  <2>1. SubSeq(buf, 1, d) = [j \in 1 .. d |-> buf[j]]
    BY <1>1, <1>3
  <2>2. ASSUME NEW j \in 1 .. d PROVE buf[j] = <<0, n + j>>
    <3>1. j \in 1 .. m
      BY <1>3
    <3> QED BY <1>2, <3>1
  <2> QED BY <1>3, <2>1, <2>2
<1>5. PICK end \in n + 1 .. len : end = n + k
  BY <1>1
<1>6. end - 1 - n = k - 1
  BY <1>5
<1>7. ASSUME NEW j \in n + 1 .. end - 1 PROVE ~IsNewline(s[j])
  <2>1. j - n \in 1 .. k - 1 /\ n + (j - n) = j
    BY <1>5
  <2> QED BY <2>1
<1>8. IsLine(l, s)
  <2>1. IsNewline(s[end]) /\ end \in l.from + 1 .. Len(s)
    BY <1>1, <1>5
  <2>2. \A j \in l.from + 1 .. end - 1 : ~IsNewline(s[j])
    BY <1>7
  <2>3. l.chars = [j \in 1 .. Shown(end - 1 - l.from, l.bsz) |-> <<0, l.from + j>>]
    BY <1>3, <1>4, <1>6
  <2> QED BY <2>1, <2>2, <2>3, Zenon DEF IsLine
<1>9. Lined(n + k, SubSeq(buf, k + 1, Len(buf)))
  <2>1. PICK r : r = SubSeq(buf, k + 1, m)
    OBVIOUS
  <2>2. Len(r) = m - k /\ \A j \in 1 .. m - k : r[j] = buf[k + j]
    <3>1. \A j \in k + 1 .. m : buf[j] \in P
      BY <1>1
    <3>2. k + 1 \in Int /\ m \in Int /\ m - (k + 1) + 1 = m - k /\ (~(k + 1 <= m) => m - k = 0)
      BY <1>1
    <3>3. /\ Len(r) = IF k + 1 <= m THEN m - (k + 1) + 1 ELSE 0
          /\ \A j \in 1 .. m - (k + 1) + 1 : r[j] = buf[k + 1 + j - 1]
      BY <2>1, <3>1, <3>2, SubSeqProperties
    <3>4. \A j \in 1 .. m - k : k + 1 + j - 1 = k + j
      OBVIOUS
    <3> QED BY <3>2, <3>3, <3>4
  <2>3. ASSUME NEW j \in 1 .. m - k PROVE r[j] = <<0, n + k + j>>
    <3>1. k + j \in 1 .. m /\ n + (k + j) = n + k + j
      BY <1>1
    <3> QED BY <1>2, <2>2, <3>1
  <2> QED BY <1>1, <2>1, <2>2, <2>3 DEF Lined
<1> QED BY <1>8, <1>9

LEMMA ScanLines ==
    ASSUME IInv, GetlineInv, getline_scan
    PROVE  GetlineInv'
<1>0. Control /\ History /\ PortInv(0) /\ LineInv /\ 0 \in Ports
  BY DEF IInv, Ports
<1>1. /\ UNCHANGED <<prog, shared, last, rx, uart, port, ovf>> /\ pc = "scan" /\ Idle
      /\ \/ Ends = {} /\ line' = << >> /\ UNCHANGED <<linebuf, lines>>
         \/ /\ Ends # {} /\ linebuf' = Rest(FirstEnd) /\ lines' = lines + FirstEnd
            /\ line' = <<[chars |-> Copied(FirstEnd), from |-> lines, bsz |-> cnt.bsz]>>
  BY DEF getline_scan, At, dev
<1>2. SUFFICES ASSUME ReadsLines
               PROVE  Modes' /\ Data(port[0].open, ovf[0], last[0], End(0), rx[0], lines, linebuf, line)'
  BY <1>1 DEF GetlineInv, ReadsLines
<1>3. /\ Modes /\ fd = 0 /\ port[0].open /\ cnt \in [bsz : Nat \ {0}, rd : {0, 1}]
      /\ Data(port[0].open, ovf[0], last[0], End(0), rx[0], lines, linebuf, line)
  BY <1>1, <1>2 DEF GetlineInv, Modes
<1>4. Modes'
  BY <1>1, <1>3 DEF Modes, Idle
<1>5. End(0)' = End(0)
  BY <1>1 DEF End
<1>6. PICK R : R = [chars : Seq(Ports \X Nat), from : Nat, bsz : Nat \ {0}]
  OBVIOUS
<1>7. CASE Ends = {}
  <2>1. line' = << >> /\ << >> \in Seq(R) /\ UNCHANGED <<linebuf, lines>>
    BY <1>1, <1>7, EmptySeq
  <2>2. Data(port[0].open, ovf[0], last[0], End(0), rx[0], lines, linebuf, line)'
    BY <1>1, <1>3, <1>5, <1>6, <2>1 DEF Data
  <2> QED BY <1>4, <2>2
<1>8. CASE Ends # {}
  <2>1. PICK P : P = Ports \X Nat
    OBVIOUS
  <2>2. PICK b \in Seq(P) : b = linebuf
    BY <1>0, <2>1 DEF LineInv
  <2>3. PICK m \in Nat : m = Len(b)
    BY <2>2
  <2>4. PICK k \in 1 .. m : k = FirstEnd /\ k \in Ends /\ \A j \in Ends : k <= j
    <3>1. Ends \subseteq 1 .. m /\ Ends \subseteq Nat
      BY <2>2, <2>3 DEF Ends
    <3>2. \E j \in Ends : \A i \in Ends : j <= i
      BY <1>8, <3>1, LeastExists
    <3>3. FirstEnd \in Ends /\ \A j \in Ends : FirstEnd <= j
      BY <3>2 DEF FirstEnd
    <3> QED BY <3>1, <3>3
  <2>5. PICK n \in Nat, bsz \in Nat \ {0} : n = lines /\ bsz = cnt.bsz
    BY <1>3 DEF Data
  <2>6. PICK l : l = [chars |-> Copied(FirstEnd), from |-> n, bsz |-> bsz]
    OBVIOUS
  <2>7. /\ linebuf' = SubSeq(b, k + 1, m) /\ lines' = n + k /\ line' = <<l>>
    BY <1>1, <1>8, <2>2, <2>3, <2>4, <2>5, <2>6 DEF Rest
  <2>8. PICK d \in 0 .. m : d = Shown(k - 1, bsz)
    BY <2>3 DEF Shown
  <2>9. Copied(FirstEnd) = SubSeq(b, 1, d)
    <3>1. d = IF k - 1 >= bsz THEN bsz - 1 ELSE k - 1
      BY <2>8 DEF Shown
    <3> QED BY <2>2, <2>4, <2>5, <3>1 DEF Copied
  <2>10. SubSeq(b, 1, d) \in Seq(P)
    BY <2>2, <2>3, <2>8
  <2>11. l \in R /\ l.from = n /\ l.bsz = bsz /\ l.chars = SubSeq(b, 1, d)
    BY <1>6, <2>1, <2>6, <2>9, <2>10
  <2>12. line' \in Seq(R) /\ line'[1] = l /\ lines' \in Nat
    BY <2>7, <2>11
  <2>13. ASSUME ovf[0] = "none"
         PROVE  /\ last[0] = lines' + Len(linebuf') /\ Lined(lines', linebuf')
                /\ IsLine(line'[1], rx[0])
    <3>1. last[0] = n + m /\ Lined(n, b)
      BY <1>3, <2>2, <2>3, <2>5, <2>13 DEF Data
    <3>2. PICK C : C = prog.chars
      OBVIOUS
    <3>3. PICK s \in Seq(C) : s = rx[0]
      BY <1>0, <3>2 DEF History
    <3>4. n + m <= Len(s)
      <4>1. last[0] <= End(0)
        BY <1>0, <1>3, <2>13 DEF PortInv, Active, Ring, Exact
      <4>2. Len(s) \in Nat /\ Len(uart[0].fifo) \in Nat
        BY <1>0, PortFacts
      <4>3. End(0) = Len(s) - Len(uart[0].fifo)
        BY <3>3 DEF End
      <4> QED BY <3>1, <4>1, <4>2, <4>3
    <3>5. ASSUME NEW j \in 1 .. m PROVE j \in Ends <=> IsNewline(s[n + j])
      <4>1. b[j] = <<0, n + j>>
        BY <2>3, <3>1 DEF Lined
      <4>2. linebuf[j][1] = 0 /\ linebuf[j][2] = n + j /\ j \in DOMAIN linebuf
        BY <2>2, <2>3, <4>1
      <4> QED BY <3>3, <4>2 DEF Ends, IsEnd, IsNewline
    <3>6. IsNewline(s[n + k])
      BY <2>4, <3>5
    <3>7. \A j \in 1 .. k - 1 : ~IsNewline(s[n + j])
      <4>1. ASSUME NEW j \in 1 .. k - 1 PROVE j \in 1 .. m /\ ~(k <= j)
        BY <2>3
      <4> QED BY <2>4, <3>5, <4>1
    <3>8. IsLine(l, s) /\ Lined(n + k, SubSeq(b, k + 1, m))
      BY <2>1, <2>3, <2>8, <2>11, <3>1, <3>4, <3>6, <3>7, LineCut
    <3>9. Len(linebuf') = m - k
      BY <2>3, <2>7
    <3>10. last[0] = lines' + Len(linebuf')
      <4>1. PICK x : x = Len(linebuf') /\ x = m - k
        BY <3>9
      <4>2. n + m = n + k + x
        BY <2>3, <4>1
      <4> QED BY <2>7, <3>1, <4>1, <4>2
    <3> QED BY <2>7, <2>12, <3>3, <3>8, <3>10
  <2>14. Data(port[0].open, ovf[0], last[0], End(0), rx[0], lines, linebuf, line)'
    BY <1>1, <1>3, <1>5, <1>6, <2>12, <2>13 DEF Data
  <2> QED BY <1>4, <2>14
<1> QED BY <1>7, <1>8

LEMMA GetlineNext == IInv /\ GetlineInv /\ [Next]_vars => GetlineInv'
<1> SUFFICES ASSUME IInv, GetlineInv, [Next]_vars PROVE GetlineInv'
  OBVIOUS
<1>1. CASE \E i \in Ports, c \in prog.chars : receive(i, c)
  BY <1>1, ReceiveLines
<1>2. CASE \E i \in Ports : open_begin(i)
  BY <1>2, ZeroLines
<1>3. CASE \E i \in Ports : ser_close(i)
  <2>1. ~ReadsLines /\ prog' = prog
    BY <1>3 DEF ser_close, ReadsLines
  <2> QED BY <2>1 DEF GetlineInv, ReadsLines
<1>4. CASE \E i \in Ports, f \in prog.fns, n \in Counts : call(f, i, n)
  BY <1>4, CallLines
<1>5. CASE recv_intr
  BY <1>5, InterruptLines
<1>6. CASE Step
  BY <1>6, ZeroLines, OpenLines, QuietSteps, OpenedLines, TakeLines, ScanLines DEF Step
<1>7. CASE \/ \E i \in Ports : transmit(i) \/ (\E b \in BOOLEAN : ser_block(i, b))
           \/ \E t \in Texts : call_write(t)
           \/ UNCHANGED vars \/ stopped
  BY <1>7, QuietSteps
<1> QED BY <1>1, <1>2, <1>3, <1>4, <1>5, <1>6, <1>7 DEF Next

LEMMA GetlineHolds == Spec => []GetlineInv
  BY GetlineInit, GetlineNext, InvHolds, PTL DEF Spec

LEMMA LineExact == GetlineInv => LineIsExact
<1> SUFFICES ASSUME GetlineInv, line # << >>, ReadsLines, ovf[0] = "none" PROVE LineIsExact
  BY DEF LineIsExact
<1>1. IsLine(line[1], rx[0])
  BY DEF GetlineInv, Data
<1>2. PICK l : l = line[1]
  OBVIOUS
<1>3. PICK end \in l.from + 1 .. Len(rx[0]) :
        /\ IsNewline(rx[0][end]) /\ \A k \in l.from + 1 .. end - 1 : ~IsNewline(rx[0][k])
        /\ l.chars = [k \in 1 .. Shown(end - 1 - l.from, l.bsz) |-> <<0, l.from + k>>]
  BY <1>1, <1>2 DEF IsLine
<1>4. IsEnd(<<0, end>>) /\ \A k \in l.from + 1 .. end - 1 : ~IsEnd(<<0, k>>)
  BY <1>3 DEF IsEnd, IsNewline
<1>5. l.chars = [k \in 1 .. (IF end - 1 - l.from < l.bsz THEN end - 1 - l.from ELSE l.bsz - 1)
                    |-> <<0, l.from + k>>]
  BY <1>3, Zenon DEF Shown
<1>6. \E end2 \in l.from + 1 .. Len(rx[0]) :
        /\ IsEnd(<<0, end2>>)
        /\ \A k \in l.from + 1 .. end2 - 1 : ~IsEnd(<<0, k>>)
        /\ l.chars = [k \in 1 .. (IF end2 - 1 - l.from < l.bsz THEN end2 - 1 - l.from ELSE l.bsz - 1)
                        |-> <<0, l.from + k>>]
  <2> WITNESS end \in l.from + 1 .. Len(rx[0])
  <2> QED BY <1>4, <1>5, Zenon
<1> QED BY <1>2, <1>6, Zenon DEF LineIsExact

\* TextInv for every size of ring and buffers, program and input: a program that reads
\* nothing but lines gets them whole and in order while nothing is lost, and what is written
\* arrives with CR LF at the end of every line.
THEOREM TextIsExact == Spec => []TextInv
<1>1. OutInv /\ GetlineInv => TextInv
  BY SentWritten, LineExact DEF TextInv
<1> QED BY <1>1, OutHolds, GetlineHolds, PTL
=============================================================================
