---------------------------- MODULE TimerProofs ----------------------------
(***************************************************************************)
(* Proofs about the alarms, for every set of delays, functions and events, *)
(* every frequency and every width of the arithmetic, when clients do not  *)
(* cancel the alarm that is next to fire (~CancelHead).                    *)
(***************************************************************************)
EXTENDS Timer, TLAPS, WellFoundedInduction

Ev == [node : Nodes, dt : Int, func : Funcs]

\* The recursion of Due.
IsSum(l, g) == g = [k \in 0 .. Len(l) |-> IF k = 0 THEN 0 ELSE g[k - 1] + l[k].dt]

-----------------------------------------------------------------------------
(***************************************************************************)
(* Induction: what holds for no least number holds for none.               *)
(***************************************************************************)
LEMMA LeastExists ==
    ASSUME NEW S, S \subseteq Nat, S # {}
    PROVE  \E x \in S : \A y \in S : x <= y
<1> DEFINE R == OpToRel(<, Nat)
<1>1. IsWellFoundedOn(R, Nat)
  BY NatLessThanWellFounded
<1>2. \A x, y \in Nat : x < y => <<x, y>> \in R
  BY DEF OpToRel
<1> HIDE DEF R
<1>3. PICK x \in S : \A y \in S : ~(<<y, x>> \in R)
  BY <1>1, WFMin
<1>4. ASSUME NEW y \in S PROVE x <= y
  <2>1. x \in Nat /\ y \in Nat
    OBVIOUS
  <2>2. ~(y < x)
    BY <1>2, <1>3, <2>1, Zenon
  <2> QED BY <2>1, <2>2
<1> QED BY <1>4

\* The set of numbers up to n with a property is all of them, if 0 has it and it is
\* handed on.
LEMMA UpTo ==
    ASSUME NEW n \in Nat, NEW S, 0 \in S, \A k \in 1 .. n : k - 1 \in S => k \in S
    PROVE  \A k \in 0 .. n : k \in S
<1> DEFINE T == {k \in 0 .. n : k \notin S}
<1>1. SUFFICES ASSUME T # {} PROVE FALSE
  OBVIOUS
<1>2. T \subseteq Nat
  OBVIOUS
<1>3. PICK x \in T : \A y \in T : x <= y
  <2> HIDE DEF T
  <2> QED BY <1>1, <1>2, LeastExists
<1>4. x \in 1 .. n /\ x \notin S
  BY <1>3
<1>5. x - 1 \notin T /\ x - 1 \in 0 .. n
  BY <1>3, <1>4
<1> QED BY <1>4, <1>5

-----------------------------------------------------------------------------
(***************************************************************************)
(* Due.                                                                    *)
(***************************************************************************)
LEMMA Element ==
    ASSUME NEW l \in Seq(Ev), NEW k \in 1 .. Len(l)
    PROVE  l[k] \in Ev /\ l[k].node \in Nodes /\ l[k].dt \in Int /\ l[k].func \in Funcs
<1>1. l[k] \in Ev
  OBVIOUS
<1> QED BY <1>1 DEF Ev

LEMMA SumExists ==
    ASSUME NEW l \in Seq(Ev)
    PROVE  \E g : IsSum(l, g)
<1> DEFINE P(n) == \E g \in [0 .. n -> Int] :
                      g[0] = 0 /\ \A k \in 1 .. n : g[k] = g[k - 1] + l[k].dt
           S == {n \in 0 .. Len(l) : P(n)}
<1>1. Len(l) \in Nat
  OBVIOUS
<1>2. 0 \in S
  <2>1. PICK g : g = [k \in 0 .. 0 |-> 0]
    OBVIOUS
  <2>2. g \in [0 .. 0 -> Int] /\ g[0] = 0
    BY <2>1
  <2>3. P(0)
    BY <2>2
  <2> QED BY <1>1, <2>3
<1>3. ASSUME NEW n \in 1 .. Len(l), n - 1 \in S PROVE n \in S
  <2>0. P(n - 1)
    <3> HIDE DEF P
    <3> QED BY <1>3
  <2>1. PICK g \in [0 .. n - 1 -> Int] : g[0] = 0 /\ \A k \in 1 .. n - 1 : g[k] = g[k - 1] + l[k].dt
    BY <2>0
  <2>2. l[n].dt \in Int
    BY Element
  <2> DEFINE h == [k \in 0 .. n |-> IF k = n THEN g[n - 1] + l[n].dt ELSE g[k]]
  <2>3. h \in [0 .. n -> Int]
    BY <2>1, <2>2
  <2>4. h[0] = 0
    BY <2>1
  <2>5. ASSUME NEW k \in 1 .. n PROVE h[k] = h[k - 1] + l[k].dt
    BY <2>1
  <2>6. P(n)
    BY <2>3, <2>4, <2>5
  <2> HIDE DEF P
  <2> QED BY <2>6
<1> HIDE DEF P, S
<1>4. P(Len(l))
  <2>1. \A k \in 0 .. Len(l) : k \in S
    BY <1>1, <1>2, <1>3, UpTo
  <2> QED BY <1>1, <2>1 DEF S
<1>5. PICK g \in [0 .. Len(l) -> Int] : g[0] = 0 /\ \A k \in 1 .. Len(l) : g[k] = g[k - 1] + l[k].dt
  BY <1>4 DEF P
<1>6. IsSum(l, g)
  BY <1>5 DEF IsSum
<1> QED BY <1>6

LEMMA DueFacts ==
    ASSUME NEW l \in Seq(Ev)
    PROVE  /\ Due(l, 0) = 0
           /\ \A k \in 1 .. Len(l) : Due(l, k) = Due(l, k - 1) + l[k].dt
           /\ \A k \in 0 .. Len(l) : Due(l, k) \in Int
<1> DEFINE G == CHOOSE g : IsSum(l, g)
<1>1. \A i : Due(l, i) = G[i]
  BY DEF Due, IsSum
<1>2. IsSum(l, G)
  BY SumExists
<1> HIDE DEF G
<1>3. G[0] = 0 /\ \A k \in 1 .. Len(l) : G[k] = G[k - 1] + l[k].dt
  BY <1>2 DEF IsSum
<1>4. \A k \in 0 .. Len(l) : G[k] \in Int
  <2> DEFINE S == {k \in 0 .. Len(l) : G[k] \in Int}
  <2>1. 0 \in S
    BY <1>3
  <2>2. ASSUME NEW k \in 1 .. Len(l), k - 1 \in S PROVE k \in S
    <3>1. l[k].dt \in Int
      BY Element
    <3>2. k - 1 \in 0 .. Len(l) /\ G[k - 1] \in Int
      BY <2>2
    <3> QED BY <1>3, <3>1, <3>2
  <2> HIDE DEF S
  <2>3. \A k \in 0 .. Len(l) : k \in S
    <3>1. Len(l) \in Nat
      OBVIOUS
    <3> QED BY <2>1, <2>2, <3>1, UpTo
  <2> QED BY <2>3 DEF S
<1> QED BY <1>1, <1>3, <1>4

\* Due is what grows by the deltas.
LEMMA DueUnique ==
    ASSUME NEW l \in Seq(Ev), NEW h,
           h[0] = 0, \A k \in 1 .. Len(l) : h[k] = h[k - 1] + l[k].dt
    PROVE  \A k \in 0 .. Len(l) : Due(l, k) = h[k]
<1> DEFINE S == {k \in 0 .. Len(l) : Due(l, k) = h[k]}
<1>1. 0 \in S
  BY DueFacts
<1>2. ASSUME NEW k \in 1 .. Len(l), k - 1 \in S PROVE k \in S
  BY <1>2, DueFacts
<1> HIDE DEF S
<1>3. \A k \in 0 .. Len(l) : k \in S
  <2>1. Len(l) \in Nat
    OBVIOUS
  <2> QED BY <1>1, <1>2, <2>1, UpTo
<1> QED BY <1>3 DEF S

-----------------------------------------------------------------------------
(***************************************************************************)
(* The list.                                                               *)
(***************************************************************************)
Moved(e, d) == [e EXCEPT !.dt = @ + d]

LEMMA MovedFacts ==
    ASSUME NEW e \in Ev, NEW d \in Int
    PROVE  /\ Moved(e, d) \in Ev /\ Moved(e, d).dt = e.dt + d
           /\ Moved(e, d).node = e.node /\ Moved(e, d).func = e.func
  BY DEF Moved, Ev

LEMMA ShiftedFacts ==
    ASSUME NEW l \in Seq(Ev), NEW d \in Int, NEW m, m = Shifted(l, d)
    PROVE  /\ m \in Seq(Ev) /\ Len(m) = Len(l)
           /\ Len(l) > 0 => m[1] = Moved(l[1], d)
           /\ \A k \in 2 .. Len(l) : m[k] = l[k]
<1>1. CASE l = << >>
  BY <1>1 DEF Shifted
<1>2. CASE l # << >>
  <2>1. 1 \in 1 .. Len(l) /\ l[1] \in Ev
    BY <1>2
  <2>2. m = [l EXCEPT ![1] = Moved(l[1], d)]
    BY <1>2, <2>1 DEF Shifted, Moved
  <2>3. Moved(l[1], d) \in Ev
    BY <2>1, MovedFacts
  <2> QED BY <2>1, <2>2, <2>3
<1> QED BY <1>1, <1>2

LEMMA Parts ==
    ASSUME NEW l \in Seq(Ev), NEW m \in 0 .. Len(l), NEW n \in 1 .. Len(l) + 1
    PROVE  /\ SubSeq(l, 1, m) \in Seq(Ev) /\ SubSeq(l, n, Len(l)) \in Seq(Ev)
           /\ Len(SubSeq(l, 1, m)) = m /\ Len(SubSeq(l, n, Len(l))) = Len(l) - n + 1
           /\ \A k \in 1 .. m : SubSeq(l, 1, m)[k] = l[k]
           /\ \A k \in 1 .. Len(l) - n + 1 : SubSeq(l, n, Len(l))[k] = l[n + k - 1]
  BY SMTT(60)

LEMMA ConcatFacts ==
    ASSUME NEW u \in Seq(Ev), NEW v \in Seq(Ev), NEW q, q = u \o v
    PROVE  /\ q \in Seq(Ev) /\ Len(q) = Len(u) + Len(v)
           /\ \A k \in 1 .. Len(u) : q[k] = u[k]
           /\ \A k \in Len(u) + 1 .. Len(u) + Len(v) : q[k] = v[k - Len(u)]
  OBVIOUS

\* What the insertion and cancel_alarm make of the list.
Spliced(l, i, e, d) == SubSeq(l, 1, i) \o <<e>> \o Shifted(SubSeq(l, i + 1, Len(l)), d)
Cut(l, i, d) == SubSeq(l, 1, i - 1) \o Shifted(SubSeq(l, i + 1, Len(l)), d)
IsSpliced(m, l, i, e, d) ==
    /\ m \in Seq(Ev) /\ Len(m) = Len(l) + 1
    /\ \A k \in 1 .. i : m[k] = l[k]
    /\ m[i + 1] = e
    /\ i < Len(l) => m[i + 2] = Moved(l[i + 1], d)
    /\ \A k \in i + 3 .. Len(l) + 1 : m[k] = l[k - 1]
IsCut(m, l, i, d) ==
    /\ m \in Seq(Ev) /\ Len(m) = Len(l) - 1
    /\ \A k \in 1 .. i - 1 : m[k] = l[k]
    /\ i < Len(l) => m[i] = Moved(l[i + 1], d)
    /\ \A k \in i + 1 .. Len(l) - 1 : m[k] = l[k + 1]

\* An event linked in behind the i-th, and the delta of the one behind it reduced.
LEMMA SpliceFacts ==
    ASSUME NEW l \in Seq(Ev), NEW i \in 0 .. Len(l), NEW e \in Ev, NEW d \in Int,
           NEW m, m = Spliced(l, i, e, d)
    PROVE  IsSpliced(m, l, i, e, d)
<1>1. Len(l) \in Nat /\ i \in Nat /\ i + 1 \in 1 .. Len(l) + 1
  OBVIOUS
<1>2. PICK u, v : u = SubSeq(l, 1, i) /\ v = SubSeq(l, i + 1, Len(l))
  OBVIOUS
<1>3. /\ u \in Seq(Ev) /\ v \in Seq(Ev) /\ Len(u) = i /\ Len(v) = Len(l) - i
      /\ \A k \in 1 .. i : u[k] = l[k]
      /\ \A k \in 1 .. Len(l) - i : v[k] = l[i + k]
  BY <1>1, <1>2, Parts
<1>4. PICK w : w = Shifted(v, d)
  OBVIOUS
<1>5. /\ w \in Seq(Ev) /\ Len(w) = Len(v)
      /\ Len(v) > 0 => w[1] = Moved(v[1], d)
      /\ \A k \in 2 .. Len(v) : w[k] = v[k]
  <2>1. v \in Seq(Ev)
    BY <1>3
  <2> QED BY <1>4, <2>1, ShiftedFacts
<1>6. PICK x : x = u \o <<e>>
  OBVIOUS
<1>7. x \in Seq(Ev) /\ Len(x) = i + 1 /\ (\A k \in 1 .. i : x[k] = u[k]) /\ x[i + 1] = e
  <2>1. u \in Seq(Ev) /\ Len(u) = i
    BY <1>3
  <2> QED BY <1>6, <2>1
<1>8. m = x \o w
  BY <1>2, <1>4, <1>6 DEF Spliced
<1>9. /\ m \in Seq(Ev) /\ Len(m) = Len(x) + Len(w)
      /\ \A k \in 1 .. Len(x) : m[k] = x[k]
      /\ \A k \in Len(x) + 1 .. Len(x) + Len(w) : m[k] = w[k - Len(x)]
  <2>1. x \in Seq(Ev) /\ w \in Seq(Ev)
    BY <1>5, <1>7
  <2> QED BY <1>8, <2>1, ConcatFacts
<1>10. m \in Seq(Ev) /\ Len(m) = Len(l) + 1
  BY <1>1, <1>3, <1>5, <1>7, <1>9
<1>11. (\A k \in 1 .. i : m[k] = l[k]) /\ m[i + 1] = e
  <2>1. \A k \in 1 .. i + 1 : m[k] = x[k]
    BY <1>7, <1>9
  <2>2. ASSUME NEW k \in 1 .. i PROVE m[k] = l[k]
    BY <1>1, <1>3, <1>7, <2>1
  <2> QED BY <1>1, <1>7, <2>1, <2>2, SMTT(60)
<1>12. ASSUME NEW k \in i + 2 .. Len(l) + 1
       PROVE  m[k] = IF k = i + 2 THEN Moved(l[i + 1], d) ELSE l[k - 1]
  <2>1. PICK h \in 1 .. Len(v) : h = k - (i + 1)
    BY <1>1, <1>3
  <2>2. k \in Len(x) + 1 .. Len(x) + Len(w) /\ k - Len(x) = h
    BY <1>1, <1>3, <1>5, <1>7, <2>1
  <2>3. m[k] = w[h]
    BY <1>9, <2>2
  <2>4. w[h] = IF h = 1 THEN Moved(v[1], d) ELSE v[h]
    BY <1>3, <1>5
  <2>5. v[h] = l[k - 1]
    <3>1. h \in 1 .. Len(l) - i /\ i + h = k - 1
      BY <1>1, <1>3, <2>1
    <3> QED BY <1>3, <3>1
  <2>6. (h = 1 <=> k = i + 2) /\ (k = i + 2 => k - 1 = i + 1)
    BY <1>1, <2>1
  <2> QED BY <2>3, <2>4, <2>5, <2>6
<1>13. i < Len(l) => m[i + 2] = Moved(l[i + 1], d)
  BY <1>1, <1>12
<1>14. \A k \in i + 3 .. Len(l) + 1 : m[k] = l[k - 1]
  BY <1>1, <1>12, SMTT(60)
<1> QED BY <1>10, <1>11, <1>13, <1>14 DEF IsSpliced

\* The i-th event unlinked, and its delta added to the one behind it.
LEMMA CutFacts ==
    ASSUME NEW l \in Seq(Ev), NEW i \in 1 .. Len(l), NEW d \in Int,
           NEW m, m = Cut(l, i, d)
    PROVE  IsCut(m, l, i, d)
<1>1. Len(l) \in Nat /\ i \in Nat /\ i - 1 \in 0 .. Len(l) /\ i + 1 \in 1 .. Len(l) + 1
  OBVIOUS
<1>2. PICK u, v : u = SubSeq(l, 1, i - 1) /\ v = SubSeq(l, i + 1, Len(l))
  OBVIOUS
<1>3. /\ u \in Seq(Ev) /\ v \in Seq(Ev) /\ Len(u) = i - 1 /\ Len(v) = Len(l) - i
      /\ \A k \in 1 .. i - 1 : u[k] = l[k]
      /\ \A k \in 1 .. Len(l) - i : v[k] = l[i + k]
  BY <1>1, <1>2, Parts
<1>4. PICK w : w = Shifted(v, d)
  OBVIOUS
<1>5. /\ w \in Seq(Ev) /\ Len(w) = Len(v)
      /\ Len(v) > 0 => w[1] = Moved(v[1], d)
      /\ \A k \in 2 .. Len(v) : w[k] = v[k]
  <2>1. v \in Seq(Ev)
    BY <1>3
  <2> QED BY <1>4, <2>1, ShiftedFacts
<1>6. m = u \o w
  BY <1>2, <1>4 DEF Cut
<1>7. /\ m \in Seq(Ev) /\ Len(m) = Len(u) + Len(w)
      /\ \A k \in 1 .. Len(u) : m[k] = u[k]
      /\ \A k \in Len(u) + 1 .. Len(u) + Len(w) : m[k] = w[k - Len(u)]
  <2>1. u \in Seq(Ev) /\ w \in Seq(Ev)
    BY <1>3, <1>5
  <2> QED BY <1>6, <2>1, ConcatFacts
<1>8. m \in Seq(Ev) /\ Len(m) = Len(l) - 1 /\ \A k \in 1 .. i - 1 : m[k] = l[k]
  BY <1>1, <1>3, <1>5, <1>7
<1>9. ASSUME NEW k \in i .. Len(l) - 1
      PROVE  m[k] = IF k = i THEN Moved(l[i + 1], d) ELSE l[k + 1]
  <2>1. PICK h \in 1 .. Len(v) : h = k - (i - 1)
    BY <1>1, <1>3
  <2>2. k \in Len(u) + 1 .. Len(u) + Len(w) /\ k - Len(u) = h
    BY <1>1, <1>3, <1>5, <2>1
  <2>3. m[k] = w[h]
    BY <1>7, <2>2
  <2>4. w[h] = IF h = 1 THEN Moved(v[1], d) ELSE v[h]
    BY <1>3, <1>5
  <2>5. v[h] = l[k + 1]
    <3>1. h \in 1 .. Len(l) - i /\ i + h = k + 1
      BY <1>1, <1>3, <2>1
    <3> QED BY <1>3, <3>1
  <2>6. h = 1 <=> k = i
    BY <1>1, <2>1
  <2> QED BY <2>3, <2>4, <2>5, <2>6
<1>10. i < Len(l) => m[i] = Moved(l[i + 1], d)
  BY <1>1, <1>9
<1>11. \A k \in i + 1 .. Len(l) - 1 : m[k] = l[k + 1]
  BY <1>1, <1>9
<1> QED BY <1>8, <1>10, <1>11 DEF IsCut

\* Where the loop of set_alarm stops.
LEMMA PassedFacts ==
    ASSUME evlist \in Seq(Ev), NEW ticks \in Nat, NEW i, i = Passed(ticks)
    PROVE  /\ i \in 0 .. Len(evlist)
           /\ \A j \in 1 .. i : ticks >= Due(evlist, j)
           /\ i < Len(evlist) => ticks <= Due(evlist, i + 1)
           /\ i = 0 /\ evlist # << >> => ticks < Due(evlist, 1)
<1> DEFINE n == Len(evlist)
           Due_(k) == Due(evlist, k)
           Stop(k) == IF k = 0 THEN ticks < Due_(1) ELSE ticks <= Due_(k + 1)
           S == {k \in 0 .. n : k < n => Stop(k)}
           Q(k) == /\ \A j \in 1 .. k : IF j = 1 THEN ticks >= Due_(1) ELSE ticks > Due_(j)
                   /\ k < n => Stop(k)
<1>1. n \in Nat /\ \A k \in 0 .. n : Due_(k) \in Int
  BY DueFacts
<1>2. i = CHOOSE k \in 0 .. n : Q(k)
  BY DEF Passed
<1> HIDE DEF Due_
<1>3. S \subseteq Nat /\ n \in S
  BY <1>1
<1>4. PICK x \in S : \A y \in S : x <= y
  <2> HIDE DEF S
  <2> QED BY <1>3, LeastExists
<1>5. Q(x)
  <2> SUFFICES ASSUME NEW j \in 1 .. x
               PROVE  IF j = 1 THEN ticks >= Due_(1) ELSE ticks > Due_(j)
    BY <1>4
  <2>0. x \in 0 .. n
    BY <1>4
  <2>1. j - 1 \in 0 .. n /\ j - 1 < n /\ j - 1 \notin S
    <3>1. j - 1 \in 0 .. n /\ j - 1 < n /\ ~(x <= j - 1)
      BY <1>1, <2>0
    <3> HIDE DEF S
    <3> QED BY <1>4, <3>1
  <2>2. ~Stop(j - 1)
    BY <2>1
  <2>3. (j - 1) + 1 = j /\ (j - 1 = 0 <=> j = 1) /\ j \in 0 .. n
    BY <1>1, <2>1
  <2> QED BY <1>1, <2>2, <2>3
<1>6. x \in 0 .. n
  BY <1>4
<1> HIDE DEF Q
<1>7. i \in 0 .. n /\ Q(i)
  BY <1>2, <1>5, <1>6
<1>8. \A j \in 1 .. i : ticks >= Due_(j)
  BY <1>1, <1>7 DEF Q
<1>9. i < n => ticks <= Due_(i + 1)
  BY <1>1, <1>7 DEF Q
<1>10. i = 0 /\ evlist # << >> => ticks < Due_(1)
  <2>1. evlist # << >> => n > 0
    BY <1>1
  <2> QED BY <1>1, <1>7, <2>1 DEF Q
<1> QED BY <1>7, <1>8, <1>9, <1>10 DEF Due_

-----------------------------------------------------------------------------
(***************************************************************************)
(* What each change of the list does to the times the events are due.      *)
(***************************************************************************)
LinkedIn(m, l, i, e) ==
    /\ m \in Seq(Ev) /\ Len(m) = Len(l) + 1
    /\ \A h \in 1 .. i : m[h] = l[h] /\ Due(m, h) = Due(l, h)
    /\ m[i + 1] = e /\ Due(m, i + 1) = Due(l, i) + e.dt
    /\ \A h \in i + 1 .. Len(l) : /\ m[h + 1].node = l[h].node /\ m[h + 1].func = l[h].func
                                  /\ Due(m, h + 1) = Due(l, h)
    /\ i < Len(l) => m[i + 2].dt = l[i + 1].dt - e.dt
    /\ \A h \in i + 2 .. Len(l) : m[h + 1] = l[h]
LinkedOut(m, l, i) ==
    /\ m \in Seq(Ev) /\ Len(m) = Len(l) - 1
    /\ \A h \in 1 .. i - 1 : m[h] = l[h] /\ Due(m, h) = Due(l, h)
    /\ \A h \in i + 1 .. Len(l) : /\ m[h - 1].node = l[h].node /\ m[h - 1].func = l[h].func
                                  /\ Due(m, h - 1) = Due(l, h)
    /\ i < Len(l) => m[i].dt = l[i + 1].dt + l[i].dt
    /\ \A h \in i + 2 .. Len(l) : m[h - 1] = l[h]
AllShifted(m, l, d) ==
    /\ m \in Seq(Ev) /\ Len(m) = Len(l)
    /\ \A h \in 1 .. Len(l) : /\ m[h].node = l[h].node /\ m[h].func = l[h].func
                              /\ Due(m, h) = Due(l, h) + d
    /\ Len(l) > 0 => m[1].dt = l[1].dt + d
    /\ \A h \in 2 .. Len(l) : m[h] = l[h]
HeadOut(m, l) ==
    /\ m \in Seq(Ev) /\ Len(m) = Len(l) - 1
    /\ \A h \in 2 .. Len(l) : m[h - 1] = l[h] /\ Due(m, h - 1) = Due(l, h)

LEMMA SplicedView ==
    ASSUME NEW l \in Seq(Ev), NEW i \in 0 .. Len(l), NEW e \in Ev, NEW d \in Int, e.dt + d = 0,
           NEW m, m = Spliced(l, i, e, d)
    PROVE  LinkedIn(m, l, i, e)
<1>1. /\ m \in Seq(Ev) /\ Len(m) = Len(l) + 1
      /\ \A k \in 1 .. i : m[k] = l[k]
      /\ m[i + 1] = e
      /\ i < Len(l) => m[i + 2] = Moved(l[i + 1], d)
      /\ \A k \in i + 3 .. Len(l) + 1 : m[k] = l[k - 1]
  <2>1. IsSpliced(m, l, i, e, d)
    BY SpliceFacts
  <2> QED BY <2>1 DEF IsSpliced
<1>2. Len(l) \in Nat /\ i \in Nat /\ e.dt \in Int
  BY DEF Ev
<1>3. i < Len(l) => /\ m[i + 2].dt = l[i + 1].dt - e.dt
                    /\ m[i + 2].node = l[i + 1].node /\ m[i + 2].func = l[i + 1].func
  <2> SUFFICES ASSUME i < Len(l)
               PROVE  /\ m[i + 2].dt = l[i + 1].dt - e.dt
                      /\ m[i + 2].node = l[i + 1].node /\ m[i + 2].func = l[i + 1].func
    OBVIOUS
  <2>1. i + 1 \in 1 .. Len(l)
    BY <1>2
  <2>2. l[i + 1] \in Ev /\ l[i + 1].dt \in Int
    BY <2>1, Element
  <2>3. PICK x \in Ev : x = l[i + 1]
    BY <2>2
  <2>4. m[i + 2] = Moved(x, d)
    BY <1>1, <2>3
  <2>5. Moved(x, d).dt = x.dt + d /\ Moved(x, d).node = x.node /\ Moved(x, d).func = x.func
    BY MovedFacts
  <2> QED BY <1>2, <2>2, <2>3, <2>4, <2>5, SMTT(60)
<1>4. \A h \in i + 2 .. Len(l) : m[h + 1] = l[h]
  <2> SUFFICES ASSUME NEW h \in i + 2 .. Len(l) PROVE m[h + 1] = l[h]
    OBVIOUS
  <2>1. h + 1 \in i + 3 .. Len(l) + 1 /\ (h + 1) - 1 = h
    BY <1>2
  <2> QED BY <1>1, <2>1
<1> DEFINE D(k) == Due(l, k)
           f == [k \in 0 .. Len(l) + 1 |-> IF k <= i THEN D(k) ELSE
                                           IF k = i + 1 THEN D(i) + e.dt ELSE D(k - 1)]
<1>5. /\ D(0) = 0 /\ \A k \in 1 .. Len(l) : D(k) = D(k - 1) + l[k].dt
      /\ \A k \in 0 .. Len(l) : D(k) \in Int
  BY DueFacts
<1> HIDE DEF D
<1>6. \A k \in 1 .. Len(m) : f[k] = f[k - 1] + m[k].dt
  <2> SUFFICES ASSUME NEW k \in 1 .. Len(l) + 1 PROVE f[k] = f[k - 1] + m[k].dt
    BY <1>1
  <2>1. CASE k <= i
    <3>1. k \in 1 .. i /\ k \in 1 .. Len(l) /\ m[k] = l[k]
      BY <1>1, <1>2, <2>1
    <3> QED BY <1>2, <1>5, <2>1, <3>1, SMTT(60)
  <2>2. CASE k = i + 1
    <3>1. f[k] = D(i) + e.dt /\ f[k - 1] = D(i) /\ m[k] = e
      BY <1>1, <1>2, <2>2
    <3> QED BY <3>1
  <2>3. CASE k = i + 2
    <3>1. i < Len(l) /\ i + 1 \in 1 .. Len(l) /\ (i + 1) - 1 = i /\ i \in 0 .. Len(l)
      BY <1>2, <2>3
    <3>2. f[k] = D(i + 1) /\ f[k - 1] = D(i) + e.dt
      BY <1>2, <2>3
    <3>3. D(i + 1) = D(i) + l[i + 1].dt /\ D(i) \in Int
      BY <1>5, <3>1
    <3>4. l[i + 1].dt \in Int
      BY <3>1, Element
    <3> QED BY <1>2, <1>3, <2>3, <3>1, <3>2, <3>3, <3>4, SMTT(60)
  <2>4. CASE k > i + 2
    <3>1. k - 1 \in i + 2 .. Len(l) /\ k - 1 \in 1 .. Len(l) /\ (k - 1) + 1 = k
      BY <1>2, <2>4
    <3>2. m[k] = l[k - 1]
      BY <1>4, <3>1
    <3>3. f[k] = D(k - 1) /\ f[k - 1] = D((k - 1) - 1)
      BY <1>2, <2>4, <3>1
    <3>4. D(k - 1) = D((k - 1) - 1) + l[k - 1].dt
      BY <1>5, <3>1
    <3> QED BY <3>2, <3>3, <3>4
  <2> QED BY <1>2, <2>1, <2>2, <2>3, <2>4
<1>7. f[0] = 0
  BY <1>2, <1>5
<1>8. \A k \in 0 .. Len(l) + 1 : Due(m, k) = f[k]
  <2> HIDE DEF f
  <2>1. m \in Seq(Ev)
    BY <1>1
  <2>2. \A k \in 0 .. Len(m) : Due(m, k) = f[k]
    BY <1>6, <1>7, <2>1, DueUnique
  <2> QED BY <1>1, <2>2
<1>9. \A h \in 1 .. i : Due(m, h) = D(h)
  BY <1>2, <1>8
<1>10. Due(m, i + 1) = D(i) + e.dt
  BY <1>2, <1>8
<1>11. ASSUME NEW h \in i + 1 .. Len(l)
       PROVE  /\ m[h + 1].node = l[h].node /\ m[h + 1].func = l[h].func
              /\ Due(m, h + 1) = D(h)
  <2>1. h + 1 \in 0 .. Len(l) + 1 /\ h + 1 > i + 1 /\ (h + 1) - 1 = h
    BY <1>2
  <2>2. Due(m, h + 1) = D(h)
    BY <1>2, <1>8, <2>1
  <2>3. CASE h = i + 1
    BY <1>2, <1>3, <2>2, <2>3
  <2>4. CASE h # i + 1
    BY <1>2, <1>4, <2>2, <2>4
  <2> QED BY <2>3, <2>4
<1> QED BY <1>1, <1>3, <1>4, <1>9, <1>10, <1>11 DEF D, LinkedIn

LEMMA CutView ==
    ASSUME NEW l \in Seq(Ev), NEW i \in 1 .. Len(l), NEW m, m = Cut(l, i, l[i].dt)
    PROVE  LinkedOut(m, l, i)
<1>0. l[i].dt \in Int
  BY Element
<1>1. /\ m \in Seq(Ev) /\ Len(m) = Len(l) - 1
      /\ \A k \in 1 .. i - 1 : m[k] = l[k]
      /\ i < Len(l) => m[i] = Moved(l[i + 1], l[i].dt)
      /\ \A k \in i + 1 .. Len(l) - 1 : m[k] = l[k + 1]
  <2>1. PICK d \in Int : d = l[i].dt
    BY <1>0
  <2>2. m = Cut(l, i, d)
    BY <2>1
  <2>3. IsCut(m, l, i, d)
    BY <2>2, CutFacts
  <2> QED BY <2>1, <2>3 DEF IsCut
<1>2. Len(l) \in Nat /\ i \in Nat
  OBVIOUS
<1>3. i < Len(l) => /\ m[i].dt = l[i + 1].dt + l[i].dt
                    /\ m[i].node = l[i + 1].node /\ m[i].func = l[i + 1].func
  <2> SUFFICES ASSUME i < Len(l)
               PROVE  /\ m[i].dt = l[i + 1].dt + l[i].dt
                      /\ m[i].node = l[i + 1].node /\ m[i].func = l[i + 1].func
    OBVIOUS
  <2>1. i + 1 \in 1 .. Len(l)
    BY <1>2
  <2>2. l[i + 1] \in Ev
    BY <2>1, Element
  <2>3. PICK x \in Ev : x = l[i + 1]
    BY <2>2
  <2>4. PICK d \in Int : d = l[i].dt
    BY <1>0
  <2>5. m[i] = Moved(x, d)
    BY <1>1, <2>3, <2>4
  <2>6. Moved(x, d).dt = x.dt + d /\ Moved(x, d).node = x.node /\ Moved(x, d).func = x.func
    BY MovedFacts
  <2> QED BY <2>3, <2>4, <2>5, <2>6
<1>4. \A h \in i + 2 .. Len(l) : m[h - 1] = l[h]
  <2> SUFFICES ASSUME NEW h \in i + 2 .. Len(l) PROVE m[h - 1] = l[h]
    OBVIOUS
  <2>1. h - 1 \in i + 1 .. Len(l) - 1 /\ (h - 1) + 1 = h
    BY <1>2
  <2> QED BY <1>1, <2>1
<1> DEFINE D(k) == Due(l, k)
           f == [k \in 0 .. Len(l) - 1 |-> IF k < i THEN D(k) ELSE D(k + 1)]
<1>5. /\ D(0) = 0 /\ \A k \in 1 .. Len(l) : D(k) = D(k - 1) + l[k].dt
      /\ \A k \in 0 .. Len(l) : D(k) \in Int
  BY DueFacts
<1> HIDE DEF D
<1>6. \A k \in 1 .. Len(m) : f[k] = f[k - 1] + m[k].dt
  <2> SUFFICES ASSUME NEW k \in 1 .. Len(l) - 1 PROVE f[k] = f[k - 1] + m[k].dt
    BY <1>1
  <2>1. CASE k < i
    <3>1. k \in 1 .. i - 1 /\ k \in 1 .. Len(l) /\ m[k] = l[k]
      BY <1>1, <1>2, <2>1
    <3> QED BY <1>2, <1>5, <2>1, <3>1
  <2>2. CASE k = i
    <3>1. i < Len(l) /\ i + 1 \in 1 .. Len(l) /\ (i + 1) - 1 = i /\ i - 1 \in 0 .. Len(l)
      BY <1>2, <2>2
    <3>2. f[k] = D(i + 1) /\ f[k - 1] = D(i - 1)
      BY <1>2, <2>2
    <3>3. D(i + 1) = D(i) + l[i + 1].dt /\ D(i) = D(i - 1) + l[i].dt /\ D(i - 1) \in Int
      BY <1>5, <3>1
    <3>4. l[i + 1].dt \in Int
      BY <3>1, Element
    <3> QED BY <1>0, <1>3, <2>2, <3>1, <3>2, <3>3, <3>4, SMTT(60)
  <2>3. CASE k > i
    <3>1. k + 1 \in i + 2 .. Len(l) /\ k + 1 \in 1 .. Len(l) /\ (k + 1) - 1 = k
      BY <1>2, <2>3
    <3>2. m[k] = l[k + 1]
      BY <1>4, <3>1
    <3>3. f[k] = D(k + 1) /\ f[k - 1] = D((k - 1) + 1)
      BY <1>2, <2>3, <3>1
    <3>4. D(k + 1) = D(k) + l[k + 1].dt /\ (k - 1) + 1 = k
      BY <1>5, <3>1
    <3> QED BY <3>2, <3>3, <3>4
  <2> QED BY <1>2, <2>1, <2>2, <2>3
<1>7. f[0] = 0
  BY <1>2, <1>5
<1>8. \A k \in 0 .. Len(l) - 1 : Due(m, k) = f[k]
  <2> HIDE DEF f
  <2>1. m \in Seq(Ev)
    BY <1>1
  <2>2. \A k \in 0 .. Len(m) : Due(m, k) = f[k]
    BY <1>6, <1>7, <2>1, DueUnique
  <2> QED BY <1>1, <2>2
<1>9. \A h \in 1 .. i - 1 : Due(m, h) = D(h)
  BY <1>2, <1>8
<1>10. ASSUME NEW h \in i + 1 .. Len(l)
       PROVE  /\ m[h - 1].node = l[h].node /\ m[h - 1].func = l[h].func
              /\ Due(m, h - 1) = D(h)
  <2>1. h - 1 \in 0 .. Len(l) - 1 /\ ~(h - 1 < i) /\ (h - 1) + 1 = h
    BY <1>2
  <2>2. Due(m, h - 1) = D(h)
    BY <1>2, <1>8, <2>1
  <2>3. CASE h = i + 1
    BY <1>2, <1>3, <2>2, <2>3
  <2>4. CASE h # i + 1
    BY <1>2, <1>4, <2>2, <2>4
  <2> QED BY <2>3, <2>4
<1> QED BY <1>1, <1>3, <1>4, <1>9, <1>10 DEF D, LinkedOut

LEMMA ShiftedView ==
    ASSUME NEW l \in Seq(Ev), NEW d \in Int, NEW m, m = Shifted(l, d)
    PROVE  AllShifted(m, l, d)
<1>1. /\ m \in Seq(Ev) /\ Len(m) = Len(l)
      /\ Len(l) > 0 => m[1] = Moved(l[1], d)
      /\ \A k \in 2 .. Len(l) : m[k] = l[k]
  BY ShiftedFacts
<1>2. Len(l) \in Nat
  OBVIOUS
<1>3. Len(l) > 0 => m[1].dt = l[1].dt + d /\ m[1].node = l[1].node /\ m[1].func = l[1].func
  <2> SUFFICES ASSUME Len(l) > 0
               PROVE  m[1].dt = l[1].dt + d /\ m[1].node = l[1].node /\ m[1].func = l[1].func
    OBVIOUS
  <2>1. PICK x \in Ev : x = l[1]
    BY <1>2, Element
  <2>2. m[1] = Moved(x, d)
    BY <1>1, <2>1
  <2>3. Moved(x, d).dt = x.dt + d /\ Moved(x, d).node = x.node /\ Moved(x, d).func = x.func
    BY MovedFacts
  <2> QED BY <2>1, <2>2, <2>3
<1> DEFINE D(k) == Due(l, k)
           f == [k \in 0 .. Len(l) |-> IF k = 0 THEN 0 ELSE D(k) + d]
<1>4. /\ D(0) = 0 /\ \A k \in 1 .. Len(l) : D(k) = D(k - 1) + l[k].dt
      /\ \A k \in 0 .. Len(l) : D(k) \in Int
  BY DueFacts
<1> HIDE DEF D
<1>5. \A k \in 1 .. Len(m) : f[k] = f[k - 1] + m[k].dt
  <2> SUFFICES ASSUME NEW k \in 1 .. Len(l) PROVE f[k] = f[k - 1] + m[k].dt
    BY <1>1
  <2>0. l[k].dt \in Int
    BY Element
  <2>1. CASE k = 1
    <3>1. f[1] = D(1) + d /\ f[1 - 1] = 0 /\ D(1) = D(0) + l[1].dt
      BY <1>2, <1>4, <2>1
    <3> QED BY <1>2, <1>3, <1>4, <2>0, <2>1, <3>1
  <2>2. CASE k # 1
    <3>1. k \in 2 .. Len(l) /\ k - 1 \in 1 .. Len(l) /\ m[k] = l[k]
      BY <1>1, <1>2, <2>2
    <3>2. f[k] = D(k) + d /\ f[k - 1] = D(k - 1) + d
      BY <1>2, <3>1
    <3>3. D(k) = D(k - 1) + l[k].dt /\ D(k - 1) \in Int
      BY <1>2, <1>4, <3>1
    <3> QED BY <2>0, <3>1, <3>2, <3>3
  <2> QED BY <2>1, <2>2
<1>6. f[0] = 0
  BY <1>2
<1>7. \A k \in 0 .. Len(l) : Due(m, k) = f[k]
  <2> HIDE DEF f
  <2>1. m \in Seq(Ev)
    BY <1>1
  <2>2. \A k \in 0 .. Len(m) : Due(m, k) = f[k]
    BY <1>5, <1>6, <2>1, DueUnique
  <2> QED BY <1>1, <2>2
<1>8. \A h \in 1 .. Len(l) : Due(m, h) = D(h) + d
  BY <1>2, <1>7
<1>9. ASSUME NEW h \in 1 .. Len(l) PROVE m[h].node = l[h].node /\ m[h].func = l[h].func
  BY <1>1, <1>2, <1>3
<1> QED BY <1>1, <1>3, <1>8, <1>9 DEF D, AllShifted

LEMMA TailView ==
    ASSUME NEW l \in Seq(Ev), l # << >>, l[1].dt = 0, NEW m, m = Tail(l)
    PROVE  HeadOut(m, l)
<1>1. /\ Len(l) \in Nat /\ Len(l) > 0
      /\ m \in Seq(Ev) /\ Len(m) = Len(l) - 1
      /\ \A k \in 1 .. Len(l) - 1 : m[k] = l[k + 1]
  OBVIOUS
<1> DEFINE D(k) == Due(l, k)
           f == [k \in 0 .. Len(l) - 1 |-> D(k + 1)]
<1>2. /\ D(0) = 0 /\ \A k \in 1 .. Len(l) : D(k) = D(k - 1) + l[k].dt
      /\ \A k \in 0 .. Len(l) : D(k) \in Int
  BY DueFacts
<1> HIDE DEF D
<1>3. f[0] = 0
  <2>1. 1 \in 1 .. Len(l) /\ 1 - 1 = 0
    BY <1>1
  <2>2. D(1) = D(0) + l[1].dt
    BY <1>2, <2>1
  <2> QED BY <1>1, <1>2, <2>2
<1>4. \A k \in 1 .. Len(m) : f[k] = f[k - 1] + m[k].dt
  <2> SUFFICES ASSUME NEW k \in 1 .. Len(l) - 1 PROVE f[k] = f[k - 1] + m[k].dt
    BY <1>1
  <2>1. k + 1 \in 1 .. Len(l) /\ (k + 1) - 1 = k /\ (k - 1) + 1 = k
    BY <1>1
  <2>2. f[k] = D(k + 1) /\ f[k - 1] = D(k)
    BY <1>1, <2>1
  <2> QED BY <1>1, <1>2, <2>1, <2>2
<1>5. \A k \in 0 .. Len(l) - 1 : Due(m, k) = f[k]
  <2> HIDE DEF f
  <2>1. m \in Seq(Ev)
    BY <1>1
  <2>2. \A k \in 0 .. Len(m) : Due(m, k) = f[k]
    BY <1>3, <1>4, <2>1, DueUnique
  <2> QED BY <1>1, <2>2
<1>6. ASSUME NEW h \in 2 .. Len(l) PROVE m[h - 1] = l[h] /\ Due(m, h - 1) = D(h)
  <2>1. h - 1 \in 1 .. Len(l) - 1 /\ (h - 1) + 1 = h
    BY <1>1
  <2> QED BY <1>1, <1>5, <2>1
<1> QED BY <1>1, <1>6 DEF D, HeadOut

-----------------------------------------------------------------------------
(***************************************************************************)
(* A sound list: no event twice, no delta negative, the first at least lo. *)
(* The alarms it stands for, and what each change of it does to both.      *)
(***************************************************************************)
Good(l, lo) ==
    /\ l \in Seq(Ev)
    /\ \A j, k \in 1 .. Len(l) : l[j].node = l[k].node => j = k
    /\ \A k \in 2 .. Len(l) : l[k].dt >= 0
    /\ Len(l) > 0 => l[1].dt >= lo

LEMMA OnList ==
    ASSUME NEW l \in Seq(Ev)
    PROVE  /\ \A k \in 1 .. Len(l) : l[k].node \in Addresses(l)
           /\ \A n \in Addresses(l) : n \in Nodes /\ \E k \in 1 .. Len(l) : l[k].node = n
<1>1. DOMAIN l = 1 .. Len(l)
  OBVIOUS
<1>2. \A k \in 1 .. Len(l) : l[k].node \in Nodes
  BY Element
<1> QED BY <1>1, <1>2 DEF Addresses

LEMMA PendingFacts ==
    ASSUME NEW l, NEW lo, Good(l, lo)
    PROVE  /\ DOMAIN Pending(l) = Addresses(l)
           /\ \A k \in 1 .. Len(l) :
                 Pending(l)[l[k].node] = [func |-> l[k].func, left |-> Due(l, k)]
<1>1. DOMAIN Pending(l) = Addresses(l)
  BY DEF Pending
<1>2. ASSUME NEW k \in 1 .. Len(l)
      PROVE  Pending(l)[l[k].node] = [func |-> l[k].func, left |-> Due(l, k)]
  <2>1. l \in Seq(Ev) /\ \A j \in 1 .. Len(l) : l[j].node = l[k].node => j = k
    BY DEF Good
  <2>2. DOMAIN l = 1 .. Len(l)
    BY <2>1
  <2>3. (CHOOSE j \in DOMAIN l : l[j].node = l[k].node) = k
    BY <2>1, <2>2
  <2>4. l[k].node \in Addresses(l)
    BY <2>2 DEF Addresses
  <2> QED BY <2>3, <2>4 DEF Pending
<1> QED BY <1>1, <1>2

\* The alarms are a function that agrees with the list at every event.
LEMMA PendingIs ==
    ASSUME NEW l, NEW lo, Good(l, lo), NEW p, p = [n \in Addresses(l) |-> p[n]],
           \A k \in 1 .. Len(l) : p[l[k].node] = [func |-> l[k].func, left |-> Due(l, k)]
    PROVE  Pending(l) = p
<1>1. Pending(l) = [n \in Addresses(l) |-> Pending(l)[n]]
  BY DEF Pending
<1>2. ASSUME NEW n \in Addresses(l) PROVE Pending(l)[n] = p[n]
  <2>1. l \in Seq(Ev)
    BY DEF Good
  <2>2. PICK k \in 1 .. Len(l) : l[k].node = n
    BY <2>1, OnList
  <2>3. Pending(l)[l[k].node] = [func |-> l[k].func, left |-> Due(l, k)]
    BY PendingFacts
  <2> QED BY <2>2, <2>3
<1> QED BY <1>1, <1>2, Zenon

\* The later an event stands, the later it is due.
LEMMA DueGrows ==
    ASSUME NEW l, NEW lo, Good(l, lo), NEW j \in 1 .. Len(l), NEW k \in j .. Len(l)
    PROVE  Due(l, j) <= Due(l, k)
<1>1. l \in Seq(Ev) /\ \A h \in 2 .. Len(l) : l[h].dt >= 0
  BY DEF Good
<1>2. Len(l) \in Nat
  BY <1>1
<1>3. /\ \A h \in 1 .. Len(l) : Due(l, h) = Due(l, h - 1) + l[h].dt
      /\ \A h \in 0 .. Len(l) : Due(l, h) \in Int
  BY <1>1, DueFacts
<1> DEFINE S == {h \in 0 .. Len(l) : h >= j => Due(l, j) <= Due(l, h)}
<1>4. 0 \in S
  BY <1>2
<1>5. ASSUME NEW h \in 1 .. Len(l), h - 1 \in S PROVE h \in S
  <2>1. h \in 0 .. Len(l) /\ j \in 0 .. Len(l) /\ h - 1 \in 0 .. Len(l)
    BY <1>2
  <2>2. CASE h < j
    BY <2>1, <2>2
  <2>3. CASE h = j
    BY <1>3, <2>1, <2>3
  <2>4. CASE h > j
    <3>1. Due(l, j) <= Due(l, h - 1)
      BY <1>5, <2>4
    <3>2. h \in 2 .. Len(l)
      BY <2>4
    <3>3. l[h].dt \in Int /\ l[h].dt >= 0
      BY <1>1, <3>2, Element
    <3>4. Due(l, h) = Due(l, h - 1) + l[h].dt
      BY <1>3
    <3>5. Due(l, j) \in Int /\ Due(l, h - 1) \in Int
      BY <1>3, <2>1
    <3>6. Due(l, j) <= Due(l, h)
      BY <3>1, <3>3, <3>4, <3>5
    <3> QED BY <2>1, <3>6
  <2> QED BY <2>2, <2>3, <2>4
<1> HIDE DEF S
<1>6. \A h \in 0 .. Len(l) : h \in S
  BY <1>2, <1>4, <1>5, UpTo
<1>7. k \in 0 .. Len(l) /\ k >= j
  BY <1>2
<1> QED BY <1>6, <1>7 DEF S

AlarmAdded(m, l, lo, n, f, ticks) ==
    /\ Good(m, lo)
    /\ Addresses(m) = Addresses(l) \union {n}
    /\ Pending(m) = [x \in DOMAIN Pending(l) \union {n} |->
                        IF x = n THEN [func |-> f, left |-> ticks] ELSE Pending(l)[x]]
AlarmGone(m, l, lo, n) ==
    /\ Good(m, lo)
    /\ Addresses(m) = Addresses(l) \ {n}
    /\ Pending(m) = [x \in DOMAIN Pending(l) \ {n} |-> Pending(l)[x]]

\* set_alarm: the new event comes behind those due before it.
LEMMA GoodInsert ==
    ASSUME NEW l, NEW lo \in {0, 1}, Good(l, lo), NEW i \in 0 .. Len(l),
           NEW n \in Nodes, n \notin Addresses(l), NEW f \in Funcs,
           NEW ticks \in Nat, ticks >= 1,
           NEW e, e = Event(n, ticks - Due(l, i), f),
           i > 0 => ticks >= Due(l, i), i < Len(l) => ticks <= Due(l, i + 1),
           NEW d, d = -(ticks - Due(l, i)), NEW m, m = Spliced(l, i, e, d)
    PROVE  AlarmAdded(m, l, lo, n, f, ticks)
<1>1. /\ l \in Seq(Ev) /\ Len(l) \in Nat /\ i \in Nat
      /\ \A j, k \in 1 .. Len(l) : l[j].node = l[k].node => j = k
      /\ \A k \in 2 .. Len(l) : l[k].dt >= 0
      /\ Len(l) > 0 => l[1].dt >= lo
  BY DEF Good
<1>2. /\ Due(l, 0) = 0
      /\ \A k \in 1 .. Len(l) : Due(l, k) = Due(l, k - 1) + l[k].dt
      /\ \A k \in 0 .. Len(l) : Due(l, k) \in Int
  BY <1>1, DueFacts
<1>3. Due(l, i) \in Int /\ d \in Int
  BY <1>2
<1>4. e \in Ev /\ e.node = n /\ e.func = f /\ e.dt = ticks - Due(l, i) /\ e.dt + d = 0
  BY <1>3 DEF Event, Ev
<1>5. LinkedIn(m, l, i, e)
  BY <1>1, <1>3, <1>4, SplicedView
<1>6. m \in Seq(Ev) /\ Len(m) = Len(l) + 1
  BY <1>5 DEF LinkedIn
<1>7. \A h \in 1 .. i : m[h] = l[h] /\ Due(m, h) = Due(l, h)
  BY <1>5 DEF LinkedIn
<1>8. m[i + 1] = e /\ Due(m, i + 1) = ticks
  BY <1>3, <1>4, <1>5, SMTT(60) DEF LinkedIn
<1>9. \A h \in i + 1 .. Len(l) : /\ m[h + 1].node = l[h].node /\ m[h + 1].func = l[h].func
                                 /\ Due(m, h + 1) = Due(l, h)
  BY <1>5 DEF LinkedIn
<1>10. ASSUME NEW k \in 1 .. Len(m), k # i + 1
       PROVE  \E a \in 1 .. Len(l) :
                 /\ (k <= i /\ a = k) \/ (k > i + 1 /\ a = k - 1)
                 /\ m[k].node = l[a].node /\ m[k].func = l[a].func /\ Due(m, k) = Due(l, a)
  <2>1. CASE k <= i
    <3>1. PICK a \in 1 .. Len(l) : a = k /\ a \in 1 .. i
      BY <1>1, <2>1
    <3>2. m[a] = l[a] /\ Due(m, a) = Due(l, a)
      BY <1>7, <3>1
    <3> QED BY <2>1, <3>1, <3>2
  <2>2. CASE k > i + 1
    <3>1. PICK a \in 1 .. Len(l) : a = k - 1 /\ a \in i + 1 .. Len(l) /\ a + 1 = k
      BY <1>1, <1>6, <2>2, SMTT(60)
    <3>2. m[k].node = l[a].node /\ m[k].func = l[a].func /\ Due(m, k) = Due(l, a)
      BY <1>9, <3>1
    <3> QED BY <2>2, <3>1, <3>2
  <2> QED BY <1>1, <1>6, <1>10, <2>1, <2>2
<1>11. /\ \A k \in 1 .. Len(l) : l[k].node # n
       /\ \A k \in 1 .. Len(m) : m[k].node = n <=> k = i + 1
  <2>1. \A k \in 1 .. Len(l) : l[k].node # n
    BY <1>1, OnList
  <2>2. ASSUME NEW k \in 1 .. Len(m), k # i + 1 PROVE m[k].node # n
    <3>1. PICK a \in 1 .. Len(l) : m[k].node = l[a].node
      BY <1>10, <2>2
    <3> QED BY <2>1, <3>1
  <2> QED BY <1>4, <1>8, <2>1, <2>2
<1>12. ASSUME NEW j \in 1 .. Len(m), NEW k \in 1 .. Len(m), m[j].node = m[k].node
       PROVE  j = k
  <2>1. CASE j = i + 1 \/ k = i + 1
    BY <1>11, <1>12, <2>1
  <2>2. CASE j # i + 1 /\ k # i + 1
    <3>1. PICK a \in 1 .. Len(l) : /\ (j <= i /\ a = j) \/ (j > i + 1 /\ a = j - 1)
                                   /\ m[j].node = l[a].node
      BY <1>10, <2>2
    <3>2. PICK b \in 1 .. Len(l) : /\ (k <= i /\ b = k) \/ (k > i + 1 /\ b = k - 1)
                                   /\ m[k].node = l[b].node
      BY <1>10, <2>2
    <3>3. a = b
      BY <1>1, <1>12, <3>1, <3>2
    <3> QED BY <1>1, <3>1, <3>2, <3>3
  <2> QED BY <2>1, <2>2
<1>13. ASSUME NEW k \in 2 .. Len(m) PROVE m[k].dt >= 0
  <2>1. CASE k <= i
    <3>1. k \in 1 .. i /\ k \in 2 .. Len(l)
      BY <1>1, <2>1
    <3> QED BY <1>1, <1>7, <3>1
  <2>2. CASE k = i + 1
    BY <1>1, <1>3, <1>4, <1>8, <2>2, SMTT(60)
  <2>3. CASE k = i + 2
    <3>1. i < Len(l) /\ i + 1 \in 1 .. Len(l) /\ (i + 1) - 1 = i
      BY <1>1, <1>6, <2>3
    <3>2. m[k].dt = l[i + 1].dt - e.dt
      BY <1>5, <2>3, <3>1 DEF LinkedIn
    <3>3. Due(l, i + 1) = Due(l, i) + l[i + 1].dt /\ l[i + 1].dt \in Int
      BY <1>1, <1>2, <3>1, Element
    <3> QED BY <1>3, <1>4, <3>1, <3>2, <3>3, SMTT(60)
  <2>4. CASE k > i + 2
    <3>1. k - 1 \in i + 2 .. Len(l) /\ k - 1 \in 2 .. Len(l) /\ (k - 1) + 1 = k
      BY <1>1, <1>6, <2>4, SMTT(60)
    <3>2. m[k] = l[k - 1]
      BY <1>5, <3>1 DEF LinkedIn
    <3> QED BY <1>1, <3>1, <3>2
  <2>5. i \in Nat /\ k \in Int
    BY <1>6
  <2>6. k <= i \/ k = i + 1 \/ k = i + 2 \/ k > i + 2
    BY <2>5
  <2> QED BY <2>1, <2>2, <2>3, <2>4, <2>6
<1>14. m[1].dt >= lo
  <2>1. CASE i = 0
    <3>1. e.dt = ticks - 0 /\ m[0 + 1] = e
      BY <1>2, <1>4, <1>8, <2>1
    <3>2. e.dt = ticks /\ m[1] = e
      BY <3>1
    <3> QED BY <3>2
  <2>2. CASE i > 0
    <3>1. 1 \in 1 .. i /\ Len(l) > 0
      BY <1>1, <2>2
    <3> QED BY <1>1, <1>7, <3>1
  <2> QED BY <1>1, <2>1, <2>2
<1>15. Good(m, lo)
  BY <1>6, <1>12, <1>13, <1>14 DEF Good
<1>16. Addresses(m) = Addresses(l) \union {n}
  <2>1. ASSUME NEW x \in Addresses(m) PROVE x \in Addresses(l) \union {n}
    <3>1. PICK k \in 1 .. Len(m) : m[k].node = x
      BY <1>6, OnList
    <3>2. CASE k # i + 1
      <4>1. PICK a \in 1 .. Len(l) : m[k].node = l[a].node
        BY <1>10, <3>2
      <4> QED BY <1>1, <3>1, <4>1, OnList
    <3>3. CASE k = i + 1
      BY <1>11, <3>1, <3>3
    <3> QED BY <3>2, <3>3
  <2>2. n \in Addresses(m)
    <3>1. i + 1 \in 1 .. Len(m)
      BY <1>1, <1>6
    <3> QED BY <1>4, <1>6, <1>8, <3>1, OnList
  <2>3. ASSUME NEW x \in Addresses(l) PROVE x \in Addresses(m)
    <3>1. PICK k \in 1 .. Len(l) : l[k].node = x
      BY <1>1, OnList
    <3>2. CASE k <= i
      <4>1. k \in 1 .. i /\ k \in 1 .. Len(m)
        BY <1>1, <1>6, <3>2
      <4>2. m[k].node = x
        BY <1>7, <3>1, <4>1
      <4> QED BY <1>6, <4>1, <4>2, OnList
    <3>3. CASE k > i
      <4>1. k \in i + 1 .. Len(l) /\ k + 1 \in 1 .. Len(m)
        BY <1>1, <1>6, <3>3
      <4>2. m[k + 1].node = x
        BY <1>9, <3>1, <4>1
      <4> QED BY <1>6, <4>1, <4>2, OnList
    <3> QED BY <1>1, <3>2, <3>3
  <2> QED BY <2>1, <2>2, <2>3
<1> DEFINE p == [x \in DOMAIN Pending(l) \union {n} |->
                    IF x = n THEN [func |-> f, left |-> ticks] ELSE Pending(l)[x]]
<1>17. /\ DOMAIN Pending(l) = Addresses(l)
       /\ \A k \in 1 .. Len(l) : Pending(l)[l[k].node] = [func |-> l[k].func, left |-> Due(l, k)]
  BY PendingFacts
<1>18. p = [x \in Addresses(m) |-> p[x]]
  BY <1>16, <1>17
<1>19. p[n] = [func |-> f, left |-> ticks]
  OBVIOUS
<1>20. \A k \in 1 .. Len(l) : p[l[k].node] = [func |-> l[k].func, left |-> Due(l, k)]
  <2> SUFFICES ASSUME NEW k \in 1 .. Len(l)
               PROVE  p[l[k].node] = [func |-> l[k].func, left |-> Due(l, k)]
    OBVIOUS
  <2>1. l[k].node \in Addresses(l) /\ l[k].node # n
    BY <1>1, <1>11, OnList
  <2> QED BY <1>17, <2>1
<1> HIDE DEF p
<1>21. ASSUME NEW k \in 1 .. Len(m)
       PROVE  p[m[k].node] = [func |-> m[k].func, left |-> Due(m, k)]
  <2>1. CASE k = i + 1
    BY <1>4, <1>8, <1>19, <2>1
  <2>2. CASE k # i + 1
    <3>1. PICK a \in 1 .. Len(l) :
             m[k].node = l[a].node /\ m[k].func = l[a].func /\ Due(m, k) = Due(l, a)
      BY <1>10, <2>2
    <3> QED BY <1>20, <3>1
  <2> QED BY <2>1, <2>2
<1>22. Pending(m) = p
  BY <1>15, <1>18, <1>21, PendingIs
<1> QED BY <1>15, <1>16, <1>22 DEF p, AlarmAdded

\* cancel_alarm and the handler: one event goes, its delta to the one behind it.
LEMMA GoodRemove ==
    ASSUME NEW l, NEW lo \in {0, 1}, Good(l, lo), NEW i \in 1 .. Len(l), i = 1 => lo = 0,
           NEW m, LinkedOut(m, l, i)
    PROVE  AlarmGone(m, l, lo, l[i].node)
<1>1. /\ l \in Seq(Ev) /\ Len(l) \in Nat /\ i \in Nat
      /\ \A j, k \in 1 .. Len(l) : l[j].node = l[k].node => j = k
      /\ \A k \in 2 .. Len(l) : l[k].dt >= 0
      /\ Len(l) > 0 => l[1].dt >= lo
  BY DEF Good
<1>2. m \in Seq(Ev) /\ Len(m) = Len(l) - 1
  BY DEF LinkedOut
<1>3. \A h \in 1 .. i - 1 : m[h] = l[h] /\ Due(m, h) = Due(l, h)
  BY DEF LinkedOut
<1>4. \A h \in i + 1 .. Len(l) : /\ m[h - 1].node = l[h].node /\ m[h - 1].func = l[h].func
                                 /\ Due(m, h - 1) = Due(l, h)
  BY DEF LinkedOut
<1>5. i < Len(l) => m[i].dt = l[i + 1].dt + l[i].dt
  BY DEF LinkedOut
<1>6. \A h \in i + 2 .. Len(l) : m[h - 1] = l[h]
  BY DEF LinkedOut
<1>7. ASSUME NEW k \in 1 .. Len(m)
      PROVE  \E a \in 1 .. Len(l) :
                /\ (k < i /\ a = k) \/ (k >= i /\ a = k + 1)
                /\ m[k].node = l[a].node /\ m[k].func = l[a].func /\ Due(m, k) = Due(l, a)
  <2>1. CASE k < i
    <3>1. PICK a \in 1 .. Len(l) : a = k /\ a \in 1 .. i - 1
      BY <1>1, <2>1
    <3>2. m[a] = l[a] /\ Due(m, a) = Due(l, a)
      BY <1>3, <3>1
    <3> QED BY <2>1, <3>1, <3>2
  <2>2. CASE k >= i
    <3>1. PICK a \in 1 .. Len(l) : a = k + 1 /\ a \in i + 1 .. Len(l) /\ a - 1 = k
      BY <1>1, <1>2, <2>2
    <3>2. m[k].node = l[a].node /\ m[k].func = l[a].func /\ Due(m, k) = Due(l, a)
      BY <1>4, <3>1
    <3> QED BY <2>2, <3>1, <3>2
  <2> QED BY <1>1, <1>2, <2>1, <2>2
<1>8. ASSUME NEW j \in 1 .. Len(m), NEW k \in 1 .. Len(m), m[j].node = m[k].node
      PROVE  j = k
  <2>1. PICK a \in 1 .. Len(l) : /\ (j < i /\ a = j) \/ (j >= i /\ a = j + 1)
                                 /\ m[j].node = l[a].node
    BY <1>7
  <2>2. PICK b \in 1 .. Len(l) : /\ (k < i /\ b = k) \/ (k >= i /\ b = k + 1)
                                 /\ m[k].node = l[b].node
    BY <1>7
  <2>3. a = b
    BY <1>1, <1>8, <2>1, <2>2
  <2> QED BY <1>1, <2>1, <2>2, <2>3
<1>9. i < Len(l) => m[i].dt >= 0
  <2> SUFFICES ASSUME i < Len(l) PROVE m[i].dt >= 0
    OBVIOUS
  <2>1. i + 1 \in 2 .. Len(l) /\ i + 1 \in 1 .. Len(l) /\ Len(l) > 0
    BY <1>1
  <2>2. l[i + 1].dt \in Int /\ l[i].dt \in Int
    BY <1>1, <2>1, Element
  <2>3. l[i + 1].dt >= 0
    BY <1>1, <2>1
  <2>4. l[i].dt >= 0
    <3>1. CASE i = 1
      BY <1>1, <2>1, <3>1
    <3>2. CASE i # 1
      BY <1>1, <3>2
    <3> QED BY <3>1, <3>2
  <2> QED BY <1>5, <2>2, <2>3, <2>4
<1>10. ASSUME NEW k \in 2 .. Len(m) PROVE m[k].dt >= 0
  <2>1. CASE k < i
    <3>1. k \in 1 .. i - 1 /\ k \in 2 .. Len(l)
      BY <1>1, <2>1
    <3> QED BY <1>1, <1>3, <3>1
  <2>2. CASE k = i
    BY <1>1, <1>2, <1>9, <2>2
  <2>3. CASE k > i
    <3>1. k + 1 \in i + 2 .. Len(l) /\ k + 1 \in 2 .. Len(l) /\ (k + 1) - 1 = k
      BY <1>1, <1>2, <2>3
    <3>2. m[k] = l[k + 1]
      BY <1>6, <3>1
    <3> QED BY <1>1, <3>1, <3>2
  <2> QED BY <1>1, <1>2, <2>1, <2>2, <2>3
<1>11. Len(m) > 0 => m[1].dt >= lo
  <2>1. CASE i = 1
    BY <1>1, <1>2, <1>9, <2>1
  <2>2. CASE i > 1
    <3>1. 1 \in 1 .. i - 1 /\ Len(l) > 0
      BY <1>1, <2>2
    <3> QED BY <1>1, <1>3, <3>1
  <2> QED BY <1>1, <2>1, <2>2
<1>12. Good(m, lo)
  BY <1>2, <1>8, <1>10, <1>11 DEF Good
<1>13. Addresses(m) = Addresses(l) \ {l[i].node}
  <2>1. ASSUME NEW x \in Addresses(m) PROVE x \in Addresses(l) /\ x # l[i].node
    <3>1. PICK k \in 1 .. Len(m) : m[k].node = x
      BY <1>2, OnList
    <3>2. PICK a \in 1 .. Len(l) : /\ (k < i /\ a = k) \/ (k >= i /\ a = k + 1)
                                   /\ m[k].node = l[a].node
      BY <1>7
    <3>3. a # i
      BY <1>1, <3>2
    <3> QED BY <1>1, <3>1, <3>2, <3>3, OnList
  <2>2. ASSUME NEW x \in Addresses(l), x # l[i].node PROVE x \in Addresses(m)
    <3>1. PICK k \in 1 .. Len(l) : l[k].node = x
      BY <1>1, OnList
    <3>2. k # i
      BY <2>2, <3>1
    <3>3. CASE k < i
      <4>1. k \in 1 .. i - 1 /\ k \in 1 .. Len(m)
        BY <1>1, <1>2, <3>3
      <4>2. m[k].node = x
        BY <1>3, <3>1, <4>1
      <4> QED BY <1>2, <4>1, <4>2, OnList
    <3>4. CASE k > i
      <4>1. k \in i + 1 .. Len(l) /\ k - 1 \in 1 .. Len(m)
        BY <1>1, <1>2, <3>4
      <4>2. m[k - 1].node = x
        BY <1>4, <3>1, <4>1
      <4> QED BY <1>2, <4>1, <4>2, OnList
    <3> QED BY <1>1, <3>2, <3>3, <3>4
  <2> QED BY <2>1, <2>2
<1> DEFINE p == [x \in DOMAIN Pending(l) \ {l[i].node} |-> Pending(l)[x]]
<1>14. /\ DOMAIN Pending(l) = Addresses(l)
       /\ \A k \in 1 .. Len(l) : Pending(l)[l[k].node] = [func |-> l[k].func, left |-> Due(l, k)]
  BY PendingFacts
<1>15. p = [x \in Addresses(m) |-> p[x]]
  BY <1>13, <1>14
<1>16. ASSUME NEW x \in Addresses(m) PROVE p[x] = Pending(l)[x]
  BY <1>13, <1>14
<1> HIDE DEF p
<1>17. ASSUME NEW k \in 1 .. Len(m)
       PROVE  p[m[k].node] = [func |-> m[k].func, left |-> Due(m, k)]
  <2>1. PICK a \in 1 .. Len(l) :
           m[k].node = l[a].node /\ m[k].func = l[a].func /\ Due(m, k) = Due(l, a)
    BY <1>7
  <2>2. m[k].node \in Addresses(m)
    BY <1>2, OnList
  <2> QED BY <1>14, <1>16, <2>1, <2>2
<1>18. Pending(m) = p
  BY <1>12, <1>15, <1>17, PendingIs
<1> QED BY <1>12, <1>13, <1>18 DEF p, AlarmGone

\* timer_tick: every alarm is one tick nearer.
LEMMA GoodTick ==
    ASSUME NEW l, Good(l, 1), NEW m, m = Shifted(l, -1)
    PROVE  /\ Good(m, 0)
           /\ Addresses(m) = Addresses(l)
           /\ Pending(m) = [x \in DOMAIN Pending(l) |->
                               [Pending(l)[x] EXCEPT !.left = Pending(l)[x].left - 1]]
<1>1. /\ l \in Seq(Ev) /\ Len(l) \in Nat
      /\ \A j, k \in 1 .. Len(l) : l[j].node = l[k].node => j = k
      /\ \A k \in 2 .. Len(l) : l[k].dt >= 0
      /\ Len(l) > 0 => l[1].dt >= 1
  BY DEF Good
<1>2. AllShifted(m, l, -1)
  <2>1. PICK d \in Int : d = -1
    OBVIOUS
  <2>2. m = Shifted(l, d)
    BY <2>1
  <2>3. AllShifted(m, l, d)
    BY <1>1, <2>2, ShiftedView
  <2> QED BY <2>1, <2>3
<1>3. m \in Seq(Ev) /\ Len(m) = Len(l)
  BY <1>2 DEF AllShifted
<1>4. \A h \in 1 .. Len(l) : /\ m[h].node = l[h].node /\ m[h].func = l[h].func
                             /\ Due(m, h) = Due(l, h) + (-1)
  BY <1>2 DEF AllShifted
<1>5. Len(l) > 0 => m[1].dt = l[1].dt + (-1) /\ l[1].dt \in Int
  BY <1>1, <1>2, Element DEF AllShifted
<1>6. \A h \in 2 .. Len(l) : m[h] = l[h]
  BY <1>2 DEF AllShifted
<1>7. \A j, k \in 1 .. Len(m) : m[j].node = m[k].node => j = k
  BY <1>1, <1>3, <1>4
<1>8. \A k \in 2 .. Len(m) : m[k].dt >= 0
  BY <1>1, <1>3, <1>6
<1>9. Len(m) > 0 => m[1].dt >= 0
  BY <1>1, <1>3, <1>5
<1>10. Good(m, 0)
  BY <1>3, <1>7, <1>8, <1>9 DEF Good
<1>11. Addresses(m) = Addresses(l)
  <2>1. ASSUME NEW x \in Addresses(m) PROVE x \in Addresses(l)
    <3>1. PICK k \in 1 .. Len(m) : m[k].node = x
      BY <1>3, OnList
    <3> QED BY <1>1, <1>3, <1>4, <3>1, OnList
  <2>2. ASSUME NEW x \in Addresses(l) PROVE x \in Addresses(m)
    <3>1. PICK k \in 1 .. Len(l) : l[k].node = x
      BY <1>1, OnList
    <3> QED BY <1>3, <1>4, <3>1, OnList
  <2> QED BY <2>1, <2>2
<1> DEFINE p == [x \in DOMAIN Pending(l) |->
                    [Pending(l)[x] EXCEPT !.left = Pending(l)[x].left - 1]]
<1>12. /\ DOMAIN Pending(l) = Addresses(l)
       /\ \A k \in 1 .. Len(l) : Pending(l)[l[k].node] = [func |-> l[k].func, left |-> Due(l, k)]
  BY PendingFacts
<1>13. p = [x \in Addresses(m) |-> p[x]]
  BY <1>11, <1>12
<1>14. ASSUME NEW k \in 1 .. Len(m)
       PROVE  p[m[k].node] = [func |-> m[k].func, left |-> Due(m, k)]
  <2>1. m[k].node = l[k].node /\ m[k].func = l[k].func /\ Due(m, k) = Due(l, k) - 1
    <3>1. Due(l, k) \in Int
      BY <1>1, <1>3, DueFacts
    <3> QED BY <1>3, <1>4, <3>1
  <2>2. l[k].node \in DOMAIN Pending(l)
    BY <1>1, <1>3, <1>12, OnList
  <2>3. Pending(l)[l[k].node] = [func |-> l[k].func, left |-> Due(l, k)]
    BY <1>3, <1>12
  <2>4. p[l[k].node] = [[func |-> l[k].func, left |-> Due(l, k)] EXCEPT !.left = Due(l, k) - 1]
    BY <2>2, <2>3
  <2> HIDE DEF p
  <2> QED BY <2>1, <2>4
<1> HIDE DEF p
<1>15. Pending(m) = p
  BY <1>10, <1>13, <1>14, PendingIs
<1> QED BY <1>10, <1>11, <1>15 DEF p

-----------------------------------------------------------------------------
(***************************************************************************)
(* The inductive invariant.  Between ticks every alarm is at least a tick  *)
(* away; in a tick the first may be due.  An event is on the list, being   *)
(* set up by the main program, or being fired, and never two of these.     *)
(***************************************************************************)
Lowest == IF phase = "run" THEN 1 ELSE 0

SettingInv ==
    ev # NULL => /\ ev \in used /\ ev # firing /\ evfunc \in Funcs
                 /\ evticks >= 1 /\ \E ms \in Msecs : evticks = MSEC_TO_TICKS(ms)

PlaceInv ==
    /\ Addresses(evlist) \subseteq used
    /\ firing \notin Addresses(evlist) /\ ev \notin Addresses(evlist)
    /\ phase = "call" => firing \in used
    /\ phase # "call" => firing = NULL

IInv ==
    /\ TypeOK
    /\ Good(evlist, Lowest)
    /\ PlaceInv
    /\ SettingInv
    /\ stopped \in {"no", "failed to allocate"}

LEMMA TicksAreNat ==
    ASSUME NEW ms \in Msecs
    PROVE  MSEC_TO_TICKS(ms) \in 0 .. UlongMod
<1>1. PICK u \in Nat \ {0} : u = UlongMod
  BY TimerAssumption
<1>2. PICK q \in Nat \ {0} : q = MsecPerSec
  BY TimerAssumption
<1>3. ms * TICK_FREQ_HZ \in Nat
  BY TimerAssumption
<1>4. PICK y \in 0 .. u : y = (ms * TICK_FREQ_HZ) % u
  BY <1>3
<1>5. y \div q \in 0 .. u
  OBVIOUS
<1> QED BY <1>1, <1>2, <1>4, <1>5 DEF MSEC_TO_TICKS

LEMMA MaxTicksFacts ==
    ASSUME NEW ms \in Msecs
    PROVE  MaxTicks \in Nat /\ MSEC_TO_TICKS(ms) <= MaxTicks
<1> DEFINE T == {MSEC_TO_TICKS(x) : x \in Msecs}
           S == {UlongMod - t : t \in T}
<1>1. UlongMod \in Nat /\ \A t \in T : t \in 0 .. UlongMod
  BY TicksAreNat, TimerAssumption
<1>2. MSEC_TO_TICKS(ms) \in T /\ \A x \in Msecs : MSEC_TO_TICKS(x) \in T
  OBVIOUS
<1>3. MaxTicks = CHOOSE m \in T : \A x \in Msecs : MSEC_TO_TICKS(x) <= m
  BY DEF MaxTicks
<1>4. \A t \in T : \E x \in Msecs : t = MSEC_TO_TICKS(x)
  OBVIOUS
<1> HIDE DEF T
<1>5. S \subseteq Nat /\ S # {}
  BY <1>1, <1>2
<1>6. PICK z \in S : \A y \in S : z <= y
  <2> HIDE DEF S
  <2> QED BY <1>5, LeastExists
<1>7. PICK m \in T : z = UlongMod - m
  BY <1>6
<1>8. ASSUME NEW x \in Msecs PROVE MSEC_TO_TICKS(x) <= m
  <2>1. PICK t \in T : t = MSEC_TO_TICKS(x)
    BY <1>2
  <2>2. UlongMod - t \in S
    OBVIOUS
  <2>3. z <= UlongMod - t
    BY <1>6, <2>2
  <2>4. t <= m
    BY <1>1, <1>7, <2>3
  <2> QED BY <2>1, <2>4
<1>9. MaxTicks \in T /\ \A x \in Msecs : MSEC_TO_TICKS(x) <= MaxTicks
  BY <1>3, <1>8
<1> QED BY <1>1, <1>9

\* The insertion of set_alarm, with the loop that finds the place.
LEMMA InsertStep ==
    ASSUME IInv, NEW n \in Nodes, n \notin Addresses(evlist), NEW f \in Funcs,
           NEW ticks \in Nat, ticks >= 1, Insert(n, f, ticks)
    PROVE  stopped' = stopped /\ AlarmAdded(evlist', evlist, Lowest, n, f, ticks)
<1>1. stopped' = stopped /\ evlist' = Inserted(n, f, ticks)
  BY DEF Insert
<1>2. PICK i : i = Passed(ticks)
  OBVIOUS
<1>3. evlist \in Seq(Ev)
  BY DEF IInv, Good
<1>4. /\ i \in 0 .. Len(evlist)
      /\ \A j \in 1 .. i : ticks >= Due(evlist, j)
      /\ i < Len(evlist) => ticks <= Due(evlist, i + 1)
  BY <1>2, <1>3, PassedFacts
<1>5. PICK lo \in {0, 1} : lo = Lowest
  BY DEF Lowest
<1>6. PICK e, d, l : /\ e = Event(n, ticks - Due(evlist, i), f)
                     /\ d = -(ticks - Due(evlist, i)) /\ l = evlist
  OBVIOUS
<1>7. PICK m : m = Spliced(l, i, e, d)
  OBVIOUS
<1>8. evlist' = m
  BY <1>1, <1>2, <1>6, <1>7 DEF Inserted, Spliced
<1>9. Good(l, lo)
  BY <1>5, <1>6, Zenon DEF IInv
<1>10. i \in 0 .. Len(l) /\ n \notin Addresses(l) /\ (i < Len(l) => ticks <= Due(l, i + 1))
  BY <1>4, <1>6
<1>11. i > 0 => ticks >= Due(l, i)
  BY <1>4, <1>6
<1>12. e = Event(n, ticks - Due(l, i), f) /\ d = -(ticks - Due(l, i))
  BY <1>6, Zenon
<1>13. AlarmAdded(m, l, lo, n, f, ticks)
  BY <1>7, <1>9, <1>10, <1>11, <1>12, GoodInsert
<1> QED BY <1>1, <1>5, <1>6, <1>8, <1>13

\* cancel_alarm, of an event behind the head.
LEMMA RemoveStep ==
    ASSUME IInv, NEW i \in 2 .. Len(evlist), evlist' = Unlinked(i)
    PROVE  AlarmGone(evlist', evlist, Lowest, evlist[i].node)
<1>0. evlist \in Seq(Ev)
  BY DEF IInv, Good
<1>1. Len(evlist) \in Nat /\ i \in 1 .. Len(evlist) /\ i # 1
  BY <1>0
<1>2. PICK lo \in {0, 1} : lo = Lowest
  BY DEF Lowest
<1>3. PICK l, m : l = evlist /\ m = evlist'
  OBVIOUS
<1>4. l \in Seq(Ev) /\ i \in 1 .. Len(l) /\ m = Cut(l, i, l[i].dt)
  BY <1>0, <1>1, <1>3 DEF Unlinked, Cut
<1>5. LinkedOut(m, l, i)
  BY <1>4, CutView
<1>6. Good(l, lo) /\ (i = 1 => lo = 0)
  BY <1>1, <1>2, <1>3, Zenon DEF IInv
<1>7. AlarmGone(m, l, lo, l[i].node)
  BY <1>4, <1>5, <1>6, GoodRemove
<1> QED BY <1>2, <1>3, <1>7

\* The handler takes the alarm that is due off the list.
LEMMA FireStep ==
    ASSUME IInv, phase = "tick", evlist # << >>, evlist[1].dt <= 0, evlist' = Tail(evlist)
    PROVE  /\ 1 \in 1 .. Len(evlist) /\ Due(evlist, 1) = 0
           /\ AlarmGone(evlist', evlist, 0, evlist[1].node)
<1>1. PICK l, m : l = evlist /\ m = evlist'
  OBVIOUS
<1>2. Good(l, 0)
  BY <1>1 DEF IInv, Lowest
<1>3. l \in Seq(Ev) /\ 1 \in 1 .. Len(l) /\ Len(l) \in Nat /\ l # << >> /\ m = Tail(l)
  BY <1>1, <1>2 DEF Good
<1>4. l[1].dt = 0
  <2>1. l[1].dt \in Int
    BY <1>3, Element
  <2>2. l[1].dt >= 0
    BY <1>2, <1>3 DEF Good
  <2> QED BY <1>1, <2>1, <2>2
<1>5. HeadOut(m, l)
  BY <1>3, <1>4, TailView
<1>6. LinkedOut(m, l, 1)
  <2>1. /\ m \in Seq(Ev) /\ Len(m) = Len(l) - 1
        /\ \A h \in 2 .. Len(l) : m[h - 1] = l[h] /\ Due(m, h - 1) = Due(l, h)
    BY <1>5 DEF HeadOut
  <2>2. 1 < Len(l) => m[1].dt = l[2].dt + l[1].dt
    <3> SUFFICES ASSUME 1 < Len(l) PROVE m[1].dt = l[2].dt + l[1].dt
      OBVIOUS
    <3>1. 2 \in 2 .. Len(l) /\ 2 \in 1 .. Len(l) /\ 2 - 1 = 1
      BY <1>3
    <3>2. m[1] = l[2] /\ l[2].dt \in Int
      BY <1>3, <2>1, <3>1, Element
    <3> QED BY <1>4, <3>2
  <2> QED BY <1>3, <2>1, <2>2 DEF LinkedOut
<1>7. AlarmGone(m, l, 0, l[1].node)
  BY <1>2, <1>3, <1>6, GoodRemove
<1>8. Due(l, 1) = 0
  <2>1. Due(l, 0) = 0 /\ Due(l, 1) = Due(l, 1 - 1) + l[1].dt
    BY <1>3, DueFacts
  <2> QED BY <1>4, <2>1
<1> QED BY <1>1, <1>3, <1>7, <1>8

-----------------------------------------------------------------------------
LEMMA InitIInv == Init => IInv
<1> SUFFICES ASSUME Init PROVE IInv
  OBVIOUS
<1>1. Addresses(evlist) = {}
  BY DEF Init, Addresses
<1>2. TypeOK
  BY TimerAssumption DEF Init, TypeOK
<1>3. Good(evlist, Lowest)
  BY DEF Init, Good
<1> QED BY <1>1, <1>2, <1>3 DEF Init, IInv, PlaceInv, SettingInv

LEMMA TypeFacts ==
    ASSUME IInv
    PROVE  /\ evlist \in Seq(Ev) /\ used \subseteq Nodes
           /\ ev \in Nodes \union {NULL} /\ evticks \in Nat /\ evfunc \in Funcs \union {NoFunc}
           /\ phase \in {"run", "tick", "call"} /\ firing \in Nodes \union {NULL}
           /\ called \in Funcs \union {NoFunc} /\ wanted \subseteq Funcs
           /\ nticks \in 0 .. NticksMod - 1
           /\ NULL \notin Nodes
           /\ \A n \in Addresses(evlist) : n \in Nodes
<1>1. evlist \in Seq(Ev)
  BY DEF IInv, Good
<1>2. \A n \in Addresses(evlist) : n \in Nodes
  BY <1>1, OnList
<1> QED BY <1>1, <1>2, TimerAssumption DEF IInv, TypeOK

LEMMA NextIInv ==
    ASSUME ~CancelHead, IInv, [Next]_vars
    PROVE  IInv'
<1>0. /\ evlist \in Seq(Ev) /\ used \subseteq Nodes
      /\ ev \in Nodes \union {NULL} /\ evticks \in Nat /\ evfunc \in Funcs \union {NoFunc}
      /\ phase \in {"run", "tick", "call"} /\ firing \in Nodes \union {NULL}
      /\ called \in Funcs \union {NoFunc} /\ wanted \subseteq Funcs
      /\ nticks \in 0 .. NticksMod - 1
      /\ NULL \notin Nodes
      /\ \A n \in Addresses(evlist) : n \in Nodes
  BY TypeFacts
<1>00. evlist' \in Seq(Ev) <=> evlist' \in Seq([node : Nodes, dt : Int, func : Funcs])
  BY DEF Ev
<1> USE DEF Lowest
<1>1. CASE UNCHANGED vars
  BY <1>1 DEF vars, setting, IInv, TypeOK, PlaceInv, SettingInv, Lowest
<1>2. ASSUME NEW ms \in Msecs, NEW f \in Funcs, set_alarm_nomem(ms, f) PROVE IInv'
  BY <1>0, <1>2 DEF set_alarm_nomem, setting, IInv, TypeOK, PlaceInv, SettingInv
<1>3. ASSUME NEW ms \in Msecs, NEW f \in Funcs, set_alarm_malloc(ms, f) PROVE IInv'
  <2>1. PICK n \in Nodes \ used : ev' = n /\ used' = used \union {n}
    BY <1>3 DEF set_alarm_malloc
  <2>2. MSEC_TO_TICKS(ms) \in Nat /\ MSEC_TO_TICKS(ms) >= 1
    BY <1>3, TicksAreNat DEF set_alarm_malloc
  <2>3. firing = NULL /\ phase = "run"
    BY <1>3 DEF set_alarm_malloc, InMain, IInv, PlaceInv
  <2>4. TypeOK'
    BY <1>0, <1>3, <2>1, <2>2 DEF set_alarm_malloc, IInv, TypeOK
  <2>5. PlaceInv'
    BY <1>0, <1>3, <2>1, <2>3 DEF set_alarm_malloc, IInv, PlaceInv
  <2>6. SettingInv'
    BY <1>0, <1>3, <2>1, <2>2, <2>3 DEF set_alarm_malloc, SettingInv
  <2> QED BY <1>3, <2>4, <2>5, <2>6 DEF set_alarm_malloc, IInv
<1>4. ASSUME NEW ms \in Msecs, NEW f \in Funcs, set_alarm_call(ms, f) PROVE IInv'
  <2>1. PICK n \in Nodes \ used : used' = used \union {n} /\ Insert(n, f, MSEC_TO_TICKS(ms))
    BY <1>4 DEF set_alarm_call
  <2>2. MSEC_TO_TICKS(ms) \in Nat /\ MSEC_TO_TICKS(ms) >= 1
    BY <1>4, TicksAreNat DEF set_alarm_call
  <2>3. n \notin Addresses(evlist)
    BY <2>1 DEF IInv, PlaceInv
  <2>4. stopped' = stopped /\ AlarmAdded(evlist', evlist, Lowest, n, f, MSEC_TO_TICKS(ms))
    BY <2>1, <2>2, <2>3, InsertStep
  <2>5. Good(evlist', Lowest') /\ Addresses(evlist') = Addresses(evlist) \union {n}
    BY <1>4, <2>4 DEF AlarmAdded, set_alarm_call
  <2>6. evlist' \in Seq(Ev)
    BY <2>5 DEF Good
  <2>7. phase = "call" /\ phase' = "call" /\ firing' = firing /\ firing \in used
    BY <1>4 DEF set_alarm_call, InCall, IInv, PlaceInv
  <2>8. TypeOK'
    BY <1>0, <1>00, <1>4, <2>1, <2>4, <2>6 DEF set_alarm_call, setting, IInv, TypeOK
  <2>9. ev' = ev /\ evticks' = evticks /\ evfunc' = evfunc /\ (ev # NULL => ev \in used)
    BY <1>4 DEF set_alarm_call, setting, IInv, SettingInv
  <2>10. PlaceInv'
    BY <1>0, <2>1, <2>5, <2>7, <2>9 DEF IInv, PlaceInv
  <2>11. SettingInv'
    BY <2>1, <2>7, <2>9 DEF IInv, SettingInv
  <2> QED BY <2>4, <2>5, <2>8, <2>10, <2>11 DEF IInv
<1>5. CASE set_alarm_insert
  <2>1. /\ ev # NULL /\ ev \in used /\ ev \in Nodes /\ evfunc \in Funcs /\ evticks \in Nat
        /\ evticks >= 1 /\ ev \notin Addresses(evlist) /\ ev # firing
    BY <1>0, <1>5 DEF set_alarm_insert, IInv, PlaceInv, SettingInv
  <2>2. stopped' = stopped /\ AlarmAdded(evlist', evlist, Lowest, ev, evfunc, evticks)
    BY <1>5, <2>1, InsertStep DEF set_alarm_insert
  <2>3. Good(evlist', Lowest') /\ Addresses(evlist') = Addresses(evlist) \union {ev}
    BY <1>5, <2>2 DEF AlarmAdded, set_alarm_insert
  <2>4. evlist' \in Seq(Ev)
    BY <2>3 DEF Good
  <2>5. TypeOK'
    BY <1>0, <1>00, <1>5, <2>2, <2>4 DEF set_alarm_insert, IInv, TypeOK
  <2>6. PlaceInv'
    BY <1>0, <1>5, <2>1, <2>3 DEF set_alarm_insert, IInv, PlaceInv
  <2>7. SettingInv'
    BY <1>5 DEF set_alarm_insert, SettingInv
  <2> QED BY <2>2, <2>3, <2>5, <2>6, <2>7 DEF IInv
<1>6. ASSUME NEW f \in Funcs, cancel_alarm(f) PROVE IInv'
  <2>1. setting' = setting /\ phase' = phase /\ firing' = firing /\ nticks' = nticks
    BY <1>6 DEF cancel_alarm, setting
  <2>2. CASE UNCHANGED <<evlist, used, called, wanted, stopped>>
    BY <1>0, <2>1, <2>2 DEF setting, IInv, TypeOK, PlaceInv, SettingInv
  <2>3. ASSUME NEW i \in DOMAIN evlist, i = 1 => CancelHead, evlist' = Unlinked(i),
               Free(evlist[i].node), called' = NoFunc, wanted' = wanted \ {f}
        PROVE  IInv'
    <3>1. i \in 2 .. Len(evlist) /\ i \in 1 .. Len(evlist)
      BY <1>0, <2>3
    <3>2. PICK n : n = evlist[i].node
      OBVIOUS
    <3>3. n \in Addresses(evlist)
      BY <1>0, <3>1, <3>2, OnList
    <3>4. n \in used /\ n # firing /\ n # ev
      BY <3>3 DEF IInv, PlaceInv
    <3>5. used' = used \ {n} /\ stopped' = stopped
      BY <2>3, <3>2, <3>4 DEF Free
    <3>6. AlarmGone(evlist', evlist, Lowest, evlist[i].node)
      BY <2>3, <3>1, RemoveStep
    <3>7. Good(evlist', Lowest') /\ Addresses(evlist') = Addresses(evlist) \ {n}
      BY <2>1, <3>2, <3>6 DEF AlarmGone
    <3>8. evlist' \in Seq(Ev)
      BY <3>7 DEF Good
    <3>9. TypeOK'
      BY <1>0, <1>00, <2>1, <2>3, <3>5, <3>8 DEF setting, IInv, TypeOK
    <3>10. PlaceInv'
      BY <2>1, <3>4, <3>5, <3>7 DEF setting, IInv, PlaceInv
    <3>11. SettingInv'
      BY <2>1, <3>4, <3>5 DEF setting, IInv, SettingInv
    <3> QED BY <3>5, <3>7, <3>9, <3>10, <3>11 DEF IInv
  <2> QED BY <1>6, <2>2, <2>3 DEF cancel_alarm
<1>7. CASE timer_tick
  <2>1. phase = "run" /\ phase' = "tick" /\ firing' = firing /\ firing = NULL
    BY <1>7 DEF timer_tick, IInv, PlaceInv
  <2>2. PICK l, m : l = evlist /\ m = evlist'
    OBVIOUS
  <2>3. Good(l, 1) /\ m = Shifted(l, -1)
    BY <1>7, <2>1, <2>2 DEF timer_tick, IInv, Lowest
  <2>4. Good(m, 0) /\ Addresses(m) = Addresses(l)
    BY <2>3, GoodTick
  <2>5. evlist' \in Seq(Ev)
    BY <2>2, <2>4 DEF Good
  <2>6. nticks' \in 0 .. NticksMod - 1
    BY <1>0, <1>7, TimerAssumption DEF timer_tick
  <2>7. TypeOK'
    BY <1>0, <1>00, <1>7, <2>5, <2>6 DEF timer_tick, setting, IInv, TypeOK
  <2>8. PlaceInv'
    BY <1>7, <2>1, <2>2, <2>4 DEF timer_tick, setting, IInv, PlaceInv
  <2>9. SettingInv'
    BY <1>7, <2>1 DEF timer_tick, setting, IInv, SettingInv
  <2> QED BY <1>7, <2>1, <2>2, <2>4, <2>7, <2>8, <2>9 DEF timer_tick, IInv, Lowest
<1>8. CASE timer_fire
  <2>1. /\ phase = "tick" /\ phase' = "call" /\ evlist # << >> /\ evlist[1].dt <= 0
        /\ evlist' = Tail(evlist) /\ firing' = evlist[1].node
        /\ called' = evlist[1].func /\ wanted' = wanted \ {evlist[1].func}
        /\ used' = used /\ setting' = setting /\ nticks' = nticks /\ stopped' = stopped
    BY <1>8 DEF timer_fire, setting
  <2>2. 1 \in 1 .. Len(evlist) /\ AlarmGone(evlist', evlist, 0, evlist[1].node)
    BY <2>1, FireStep
  <2>3. PICK n, c : n = evlist[1].node /\ c = evlist[1].func
    OBVIOUS
  <2>4. Good(evlist', Lowest') /\ Addresses(evlist') = Addresses(evlist) \ {n}
    BY <2>1, <2>2, <2>3 DEF AlarmGone
  <2>5. n \in Addresses(evlist) /\ c \in Funcs
    BY <1>0, <2>2, <2>3, OnList, Element
  <2>6. evlist' \in Seq(Ev)
    BY <2>4 DEF Good
  <2>7. TypeOK'
    BY <1>0, <1>00, <2>1, <2>3, <2>5, <2>6 DEF setting, IInv, TypeOK
  <2>8. PlaceInv'
    BY <1>0, <2>1, <2>3, <2>4, <2>5 DEF setting, IInv, PlaceInv
  <2>9. SettingInv'
    BY <2>1, <2>3, <2>5 DEF setting, IInv, SettingInv, PlaceInv
  <2> QED BY <2>1, <2>4, <2>7, <2>8, <2>9 DEF IInv
<1>9. CASE timer_free
  <2>1. /\ phase = "call" /\ phase' = "tick" /\ firing \in used /\ firing' = NULL
        /\ UNCHANGED <<evlist, setting, called, wanted, nticks>>
    BY <1>9 DEF timer_free, IInv, PlaceInv
  <2>2. used' = used \ {firing} /\ stopped' = stopped
    BY <1>9, <2>1 DEF timer_free, Free
  <2>3. TypeOK'
    BY <1>0, <2>1, <2>2 DEF setting, IInv, TypeOK
  <2>4. PlaceInv'
    BY <1>0, <2>1, <2>2 DEF setting, IInv, PlaceInv
  <2>5. SettingInv'
    BY <2>1, <2>2 DEF setting, IInv, SettingInv
  <2> QED BY <2>1, <2>2, <2>3, <2>4, <2>5 DEF IInv
<1>10. CASE timer_done
  <2>1. /\ phase = "tick" /\ phase' = "run" /\ called' = NoFunc
        /\ evlist # << >> => evlist[1].dt > 0
        /\ UNCHANGED <<evlist, used, setting, firing, wanted, nticks, stopped>>
    BY <1>10 DEF timer_done
  <2>2. Good(evlist, 0)
    BY <2>1 DEF IInv
  <2>3. Good(evlist, 1)
    <3>1. Len(evlist) > 0 => 1 \in 1 .. Len(evlist) /\ evlist # << >>
      BY <1>0
    <3>2. Len(evlist) > 0 => evlist[1].dt \in Int
      BY <1>0, <3>1, Element
    <3> QED BY <2>1, <2>2, <3>1, <3>2 DEF Good
  <2>4. TypeOK'
    BY <1>0, <2>1 DEF setting, IInv, TypeOK
  <2>5. PlaceInv' /\ SettingInv'
    BY <2>1 DEF setting, IInv, PlaceInv, SettingInv
  <2> QED BY <2>1, <2>3, <2>4, <2>5 DEF IInv
<1> QED BY <1>1, <1>2, <1>3, <1>4, <1>5, <1>6, <1>7, <1>8, <1>9, <1>10
        DEF Next, set_alarm_nothing, halted

LEMMA IInvIsInvariant == ASSUME ~CancelHead PROVE Spec => []IInv
<1>1. IInv /\ [Next]_vars => IInv'
  BY NextIInv
<1> QED BY <1>1, InitIInv, PTL DEF Spec

\* The list of events is sound whatever is scheduled and cancelled by the main program and
\* by the alarm functions, and whenever the timer ticks, as long as no client cancels the
\* alarm that is next to fire: cancel_alarm leaves evlist pointing to that one.
THEOREM ListIsSound == ASSUME ~CancelHead PROVE Spec => []ListInv
<1>1. IInv => ListInv
  <2> SUFFICES ASSUME IInv PROVE ListInv
    OBVIOUS
  <2>1. evlist \in Seq(Ev) /\ \A j, k \in 1 .. Len(evlist) : evlist[j].node = evlist[k].node => j = k
    BY DEF IInv, Good
  <2>2. DOMAIN evlist = 1 .. Len(evlist)
    BY <2>1
  <2>3. IsInjective([i \in DOMAIN evlist |-> evlist[i].node])
    BY <2>1, <2>2 DEF IsInjective
  <2>4. Addresses(evlist) \subseteq used \ {firing, ev}
    BY DEF IInv, PlaceInv
  <2> QED BY <2>3, <2>4 DEF IInv, PlaceInv, ListInv, ListIsAllocated
<1> QED BY <1>1, IInvIsInvariant, PTL

\* Then no event is freed twice either: the assertion in free() never fails here.
THEOREM NothingFreedTwice == ASSUME ~CancelHead PROVE Spec => []NoDoubleFree
<1>1. IInv => NoDoubleFree
  BY DEF IInv, NoDoubleFree
<1> QED BY <1>1, IInvIsInvariant, PTL

-----------------------------------------------------------------------------
(***************************************************************************)
(* The refinement: each step of the list is a step of Alarms, or changes   *)
(* nothing that its clients see.                                           *)
(***************************************************************************)
LEMMA ScheduleStep ==
    ASSUME IInv, NEW n \in Nodes, n \notin Addresses(evlist), NEW f \in Funcs,
           NEW ms \in Msecs, NEW t, t = MSEC_TO_TICKS(ms), t >= 1,
           AlarmAdded(evlist', evlist, Lowest, n, f, t),
           called' = NoFunc, phase' = phase
    PROVE  Abstract!Next
<1>1. n \notin DOMAIN Pending(evlist)
  BY DEF Pending
<1>2. Pending(evlist') = [x \in DOMAIN Pending(evlist) \union {n} |->
                             IF x = n THEN [func |-> f, left |-> t] ELSE Pending(evlist)[x]]
  BY DEF AlarmAdded
<1>3. Abstract!Schedule(n, f, t)
  BY <1>1, <1>2 DEF Abstract!Schedule
<1>4. t \in 1 .. MaxTicks
  <2>1. t \in Nat
    BY TicksAreNat
  <2>2. MaxTicks \in Nat /\ t <= MaxTicks
    BY MaxTicksFacts
  <2> QED BY <2>1, <2>2
<1> QED BY <1>3, <1>4 DEF Abstract!Next

LEMMA CancelStep ==
    ASSUME IInv, NEW f \in Funcs, NEW i \in 1 .. Len(evlist), evlist[i].func = f,
           \A j \in 1 .. i - 1 : evlist[j].func # f,
           AlarmGone(evlist', evlist, Lowest, evlist[i].node),
           called' = NoFunc, phase' = phase
    PROVE  Abstract!Next
<1>0. Good(evlist, Lowest)
  BY DEF IInv
<1>1. Good(evlist, Lowest) /\ evlist \in Seq(Ev) /\ Len(evlist) \in Nat
  <2>1. evlist \in Seq(Ev)
    BY <1>0 DEF Good
  <2> QED BY <1>0, <2>1
<1>2. PICK n : n = evlist[i].node
  OBVIOUS
<1>3. PICK p, q : p = Pending(evlist) /\ q = Pending(evlist')
  OBVIOUS
<1>4. /\ DOMAIN p = Addresses(evlist)
      /\ \A k \in 1 .. Len(evlist) :
            p[evlist[k].node] = [func |-> evlist[k].func, left |-> Due(evlist, k)]
  BY <1>1, <1>3, PendingFacts
<1>5. n \in DOMAIN p /\ p[n].func = f /\ p[n].left = Due(evlist, i)
  <2>1. n \in Addresses(evlist)
    BY <1>1, <1>2, OnList
  <2>2. p[n] = [func |-> evlist[i].func, left |-> Due(evlist, i)]
    BY <1>2, <1>4
  <2> QED BY <1>4, <2>1, <2>2
<1>6. ASSUME NEW x \in DOMAIN p, p[x].func = f PROVE p[n].left <= p[x].left
  <2>1. PICK k \in 1 .. Len(evlist) : evlist[k].node = x
    BY <1>1, <1>4, OnList
  <2>2. p[x].func = evlist[k].func /\ p[x].left = Due(evlist, k)
    <3>1. p[x] = [func |-> evlist[k].func, left |-> Due(evlist, k)]
      BY <1>4, <2>1
    <3> QED BY <3>1
  <2>3. k \in i .. Len(evlist)
    BY <1>1, <1>6, <2>2
  <2>4. Due(evlist, i) <= Due(evlist, k)
    BY <1>1, <2>3, DueGrows
  <2> QED BY <1>5, <2>2, <2>4
<1>7. q = [x \in DOMAIN p \ {n} |-> p[x]]
  BY <1>2, <1>3 DEF AlarmGone
<1>8. Abstract!Cancel(f)
  BY <1>3, <1>5, <1>6, <1>7 DEF Abstract!Cancel, Abstract!Without
<1> QED BY <1>8 DEF Abstract!Next

LEMMA CallStep ==
    ASSUME IInv, timer_fire
    PROVE  Abstract!Next
<1>1. /\ phase = "tick" /\ phase' = "call" /\ evlist # << >> /\ evlist[1].dt <= 0
      /\ evlist' = Tail(evlist) /\ called' = evlist[1].func
  BY DEF timer_fire
<1>2. /\ 1 \in 1 .. Len(evlist) /\ Due(evlist, 1) = 0
      /\ AlarmGone(evlist', evlist, 0, evlist[1].node)
  BY <1>1, FireStep
<1>3. Good(evlist, Lowest) /\ evlist \in Seq(Ev)
  BY DEF IInv, Good
<1>4. PICK p, q, n : p = Pending(evlist) /\ q = Pending(evlist') /\ n = evlist[1].node
  OBVIOUS
<1>5. DOMAIN p = Addresses(evlist) /\ p[n] = [func |-> evlist[1].func, left |-> 0]
  <2>1. DOMAIN p = Addresses(evlist)
    BY <1>3, <1>4, PendingFacts
  <2>2. p[evlist[1].node] = [func |-> evlist[1].func, left |-> Due(evlist, 1)]
    BY <1>2, <1>3, <1>4, PendingFacts
  <2> QED BY <1>2, <1>4, <2>1, <2>2
<1>6. n \in DOMAIN p /\ p[n].left = 0 /\ called' = p[n].func
  BY <1>1, <1>2, <1>3, <1>4, <1>5, OnList
<1>7. q = [x \in DOMAIN p \ {n} |-> p[x]]
  BY <1>2, <1>4 DEF AlarmGone
<1>8. Abstract!Call
  BY <1>1, <1>4, <1>6, <1>7, ZenonT(60) DEF Abstract!Call, Abstract!Without
<1> QED BY <1>8 DEF Abstract!Next

LEMMA TickStep ==
    ASSUME IInv, timer_tick
    PROVE  Abstract!Next
<1>1. phase = "run" /\ phase' = "tick" /\ evlist' = Shifted(evlist, -1) /\ called' = NoFunc
  BY DEF timer_tick
<1>2. PICK l, m : l = evlist /\ m = evlist'
  OBVIOUS
<1>3. Good(l, 1) /\ m = Shifted(l, -1)
  BY <1>1, <1>2 DEF IInv, Lowest
<1>4. Pending(m) = [x \in DOMAIN Pending(l) |->
                       [Pending(l)[x] EXCEPT !.left = Pending(l)[x].left - 1]]
  BY <1>3, GoodTick
<1>5. Abstract!Tick
  BY <1>1, <1>2, <1>4 DEF Abstract!Tick
<1> QED BY <1>5 DEF Abstract!Next

LEMMA EndTickStep ==
    ASSUME IInv, timer_done
    PROVE  Abstract!Next
<1>1. /\ phase = "tick" /\ phase' = "run" /\ called' = NoFunc /\ evlist' = evlist
      /\ evlist # << >> => evlist[1].dt > 0
  BY DEF timer_done
<1>0. Good(evlist, Lowest)
  BY DEF IInv
<1>2. Good(evlist, Lowest) /\ evlist \in Seq(Ev) /\ Len(evlist) \in Nat
  <2>1. evlist \in Seq(Ev)
    BY <1>0 DEF Good
  <2> QED BY <1>0, <2>1
<1>3. PICK p : p = Pending(evlist)
  OBVIOUS
<1>4. ASSUME NEW x \in DOMAIN p PROVE p[x].left > 0
  <2>1. DOMAIN p = Addresses(evlist)
    BY <1>2, <1>3, PendingFacts
  <2>2. PICK k \in 1 .. Len(evlist) : evlist[k].node = x
    BY <1>2, <2>1, OnList
  <2>3. p[evlist[k].node] = [func |-> evlist[k].func, left |-> Due(evlist, k)]
    BY <1>2, <1>3, PendingFacts
  <2>4. 1 \in 1 .. Len(evlist) /\ k \in 1 .. Len(evlist) /\ evlist # << >>
    BY <1>2
  <2>5. Due(evlist, 1) <= Due(evlist, k)
    BY <1>2, <2>4, DueGrows
  <2>6. /\ Due(evlist, 0) = 0 /\ Due(evlist, 1) = Due(evlist, 1 - 1) + evlist[1].dt
        /\ Due(evlist, k) \in Int
    BY <1>2, <2>4, DueFacts
  <2>7. evlist[1].dt \in Int /\ evlist[1].dt > 0
    BY <1>1, <1>2, <2>4, Element
  <2>8. Due(evlist, k) > 0
    BY <2>5, <2>6, <2>7
  <2> QED BY <2>2, <2>3, <2>8
<1>5. Abstract!EndTick
  BY <1>1, <1>3, <1>4 DEF Abstract!EndTick
<1> QED BY <1>5 DEF Abstract!Next

LEMMA StepRefines ==
    ASSUME ~CancelHead, IInv, [Next]_vars
    PROVE  [Abstract!Next]_(Abstract!avars)
<1>1. evlist' = evlist /\ called' = called /\ (phase' = "run" <=> phase = "run")
          => UNCHANGED Abstract!avars
  BY DEF Abstract!avars
<1>2. CASE UNCHANGED vars
  BY <1>1, <1>2 DEF vars
<1>3. ASSUME NEW ms \in Msecs, NEW f \in Funcs, set_alarm_nomem(ms, f)
      PROVE  UNCHANGED Abstract!avars
  BY <1>1, <1>3 DEF set_alarm_nomem
<1>4. ASSUME NEW ms \in Msecs, NEW f \in Funcs, set_alarm_malloc(ms, f)
      PROVE  UNCHANGED Abstract!avars
  BY <1>1, <1>4 DEF set_alarm_malloc
<1>5. ASSUME NEW ms \in Msecs, NEW f \in Funcs, set_alarm_call(ms, f) PROVE Abstract!Next
  <2>1. PICK n \in Nodes \ used : Insert(n, f, MSEC_TO_TICKS(ms))
    BY <1>5 DEF set_alarm_call
  <2>2. MSEC_TO_TICKS(ms) \in Nat /\ MSEC_TO_TICKS(ms) >= 1
    BY <1>5, TicksAreNat DEF set_alarm_call
  <2>3. n \notin Addresses(evlist)
    BY <2>1 DEF IInv, PlaceInv
  <2>4. AlarmAdded(evlist', evlist, Lowest, n, f, MSEC_TO_TICKS(ms))
    BY <2>1, <2>2, <2>3, InsertStep
  <2>5. called' = NoFunc /\ phase' = phase
    BY <1>5 DEF set_alarm_call
  <2> QED BY <2>2, <2>3, <2>4, <2>5, ScheduleStep
<1>6. CASE set_alarm_insert
  <2>1. /\ ev \in Nodes /\ evfunc \in Funcs /\ evticks \in Nat
        /\ evticks >= 1 /\ ev \notin Addresses(evlist)
    BY <1>6, TypeFacts DEF set_alarm_insert, IInv, PlaceInv, SettingInv
  <2>2. PICK ms \in Msecs : evticks = MSEC_TO_TICKS(ms)
    BY <1>6 DEF set_alarm_insert, IInv, SettingInv
  <2>3. AlarmAdded(evlist', evlist, Lowest, ev, evfunc, evticks)
    BY <1>6, <2>1, InsertStep DEF set_alarm_insert
  <2>4. called' = NoFunc /\ phase' = phase
    BY <1>6 DEF set_alarm_insert
  <2> QED BY <2>1, <2>2, <2>3, <2>4, ScheduleStep
<1>7. ASSUME NEW f \in Funcs, cancel_alarm(f) PROVE [Abstract!Next]_(Abstract!avars)
  <2>1. phase' = phase
    BY <1>7 DEF cancel_alarm
  <2>2. CASE UNCHANGED <<evlist, used, called, wanted, stopped>>
    BY <1>1, <2>1, <2>2
  <2>3. ASSUME NEW i \in DOMAIN evlist, evlist[i].func = f,
               \A j \in 1 .. i - 1 : evlist[j].func # f,
               i = 1 => CancelHead, evlist' = Unlinked(i), called' = NoFunc
        PROVE  Abstract!Next
    <3>1. evlist \in Seq(Ev)
      BY DEF IInv, Good
    <3>2. i \in 2 .. Len(evlist) /\ i \in 1 .. Len(evlist)
      BY <2>3, <3>1
    <3>3. AlarmGone(evlist', evlist, Lowest, evlist[i].node)
      BY <2>3, <3>2, RemoveStep
    <3> QED BY <2>1, <2>3, <3>2, <3>3, CancelStep
  <2> QED BY <1>7, <2>2, <2>3 DEF cancel_alarm
<1>8. CASE timer_free
  BY <1>1, <1>8 DEF timer_free
<1> QED BY <1>2, <1>3, <1>4, <1>5, <1>6, <1>7, <1>8, TickStep, CallStep, EndTickStep
        DEF Next, set_alarm_nothing, halted

\* The list of differences keeps what timer.h promises: every function is called exactly
\* once, at the tick its delay runs out, unless it is cancelled first.
THEOREM TimerImplementsAlarms == ASSUME ~CancelHead PROVE Spec => ImplementsAlarms
<1>1. Init => Abstract!Init
  <2> SUFFICES ASSUME Init PROVE Abstract!Init
    OBVIOUS
  <2>1. Addresses(evlist) = {}
    BY DEF Init, Addresses
  <2>2. Pending(evlist) = [i \in {} |-> 0]
    BY <2>1 DEF Pending
  <2> QED BY <2>2 DEF Init, Abstract!Init
<1>2. IInv /\ [Next]_vars => [Abstract!Next]_(Abstract!avars)
  BY StepRefines
<1> QED BY <1>1, <1>2, IInvIsInvariant, PTL DEF Spec, ImplementsAlarms, Abstract!Spec
=============================================================================
