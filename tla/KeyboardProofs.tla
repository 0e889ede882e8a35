--------------------------- MODULE KeyboardProofs ---------------------------
(***************************************************************************)
(* Proofs about the keyboard driver, for every buffer size, every set of   *)
(* keys and every amount of typing.                                        *)
(***************************************************************************)
EXTENDS Keyboard, FiniteSetTheorems, SequenceTheorems, TLAPS

-----------------------------------------------------------------------------
(***************************************************************************)
(* The decoder.  Hits(w, x, i, k): the i-th byte on the wire w, with x the *)
(* prefix state before the first, is the code that presses or releases k.  *)
(***************************************************************************)
Prefixed(w, x, i) == IF i = 1 THEN x ELSE w[i - 1].e0
Hits(w, x, i, k) == ~w[i].e0 /\ k = <<Prefixed(w, x, i), w[i].code>>

Free(w, x, a, b, k) == \A j \in a .. b : ~Hits(w, x, j, k)

\* no code is cut off from its prefix
Framed(w, x) == /\ Len(w) = 0 => ~x
                /\ Len(w) > 0 => ~w[Len(w)].e0
\* the last code of a key on the wire, or else the table, tells whether it is down
Current(w, x, table, down) ==
    \A k \in Places :
        /\ Free(w, x, 1, Len(w), k) => (table[k] = 1 <=> k \in down)
        /\ \A i \in 1 .. Len(w) :
              Hits(w, x, i, k) /\ Free(w, x, i + 1, Len(w), k) => (w[i].make <=> k \in down)
\* a key is released only after it was pressed
Alternate(w, x, table) ==
    \A k \in Places, j \in 1 .. Len(w) :
        Hits(w, x, j, k) /\ ~w[j].make =>
            /\ Free(w, x, 1, j - 1, k) => table[k] = 1
            /\ \A i \in 1 .. j - 1 :
                  Hits(w, x, i, k) /\ Free(w, x, i + 1, j - 1, k) => w[i].make

WireInv(w, x, table, down) ==
    Framed(w, x) /\ Current(w, x, table, down) /\ Alternate(w, x, table)

OnWire == WireInv(wire, ext, heard, held)

\* what the user does to the keys that are down, and a byte to the table
UserMoves(k0, m, down, g) ==
    /\ \A k \in Places : k # k0 => (k \in g <=> k \in down)
    /\ m <=> k0 \in g
    /\ ~m => k0 \in down
Decoded(w, x, table, s) ==
    /\ \A k \in Places : ~Hits(w, x, 1, k) => s[k] = table[k]
    /\ \A k \in Places : Hits(w, x, 1, k) => (s[k] = 1 <=> w[1].make)

Down == {p \in Places : heard[p] = 1}

\* the table tells of no key that was not heard, and of every one that shares its entry with none
Linked(table, h) ==
    /\ \A k \in Keys : table[k] = 1 => \E p \in Places : KeyOf(p) = k /\ h[p] = 1
    /\ \A p \in Places : Alone(p) /\ h[p] = 1 => table[KeyOf(p)] = 1

DecoderType ==
    /\ num_pressed \in Nat /\ keystate \in [Keys -> {0, 1}] /\ ext \in BOOLEAN
    /\ heard \in [Places -> {0, 1}] /\ extra \in BOOLEAN
    /\ held \subseteq Places /\ wire \in Seq(WireByte)
    /\ rebooting \in BOOLEAN

DecoderInv ==
    /\ DecoderType
    /\ ~rebooting /\ ~extra => OnWire
    /\ IsFiniteSet(Down) /\ (~extra => Cardinality(Down) <= num_pressed)
    /\ Linked(keystate, heard)

LEMMA ByteFacts ==
    /\ \A b \in WireByte : b.e0 \in BOOLEAN /\ (~b.e0 => b.code \in Codes /\ b.make \in BOOLEAN)
    /\ \A c, m : ~Byte(c, m).e0 /\ Byte(c, m).code = c /\ Byte(c, m).make = m
    /\ E0 \in WireByte /\ E0.e0 = TRUE
    /\ \A c \in Codes, m \in BOOLEAN : Byte(c, m) \in WireByte
<1>1. \A c, m : ~Byte(c, m).e0 /\ Byte(c, m).code = c /\ Byte(c, m).make = m
  BY DEF Byte
<1>2. E0 \in WireByte /\ E0.e0 = TRUE
  BY DEF WireByte, E0
<1>3. \A c \in Codes, m \in BOOLEAN : Byte(c, m) \in WireByte
  BY DEF WireByte, Byte
<1>4. ASSUME NEW b \in WireByte
      PROVE  b.e0 \in BOOLEAN /\ (~b.e0 => b.code \in Codes /\ b.make \in BOOLEAN)
  <2>1. CASE b = E0
    BY <1>2, <2>1
  <2>2. CASE b \in [e0 : {FALSE}, code : Codes, make : BOOLEAN]
    BY <2>2
  <2> QED BY <2>1, <2>2 DEF WireByte
<1> QED BY <1>1, <1>2, <1>3, <1>4

LEMMA KeyFacts ==
    /\ \A k \in Places : k[1] \in BOOLEAN /\ k[2] \in Codes /\ k = <<k[1], k[2]>>
    /\ \A x \in BOOLEAN, c \in Codes : <<x, c>> \in Places /\ <<x, c>>[1] = x /\ <<x, c>>[2] = c
  BY DEF Places

IsTaken(v, y, w, x) ==
    /\ v \in Seq(WireByte) /\ Len(v) = Len(w) - 1 /\ Len(w) \in Nat \ {0}
    /\ \A i \in 1 .. Len(v) : v[i] = w[i + 1]
    /\ \A i \in 1 .. Len(v) : \A k : Hits(v, y, i, k) <=> Hits(w, x, i + 1, k)
IsSent(v, w, x, k0, m) ==
    /\ v \in Seq(WireByte) /\ Len(w) \in Nat /\ Len(v) \in Nat /\ Len(v) > Len(w)
    /\ \A i \in 1 .. Len(w) : v[i] = w[i]
    /\ v[Len(v)].make = m /\ ~v[Len(v)].e0
    /\ \A i \in 1 .. Len(w) : \A k : Hits(v, x, i, k) <=> Hits(w, x, i, k)
    /\ \A i \in Len(w) + 1 .. Len(v) : \A k : Hits(v, x, i, k) <=> i = Len(v) /\ k = k0

\* The first byte is taken from the wire.
LEMMA HeadTaken ==
    ASSUME NEW w \in Seq(WireByte), w # << >>, NEW x, NEW v, v = Tail(w), NEW y, y = w[1].e0
    PROVE  IsTaken(v, y, w, x)
<1>1. /\ v \in Seq(WireByte) /\ Len(v) = Len(w) - 1 /\ Len(w) \in Nat \ {0}
      /\ \A i \in 1 .. Len(v) : v[i] = w[i + 1]
  OBVIOUS
<1>2. ASSUME NEW i \in 1 .. Len(v), NEW k PROVE Hits(v, y, i, k) <=> Hits(w, x, i + 1, k)
  <2>1. v[i] = w[i + 1] /\ i + 1 # 1 /\ (i + 1) - 1 = i
    BY <1>1
  <2>2. Prefixed(v, y, i) = Prefixed(w, x, i + 1)
    <3>1. CASE i = 1
      BY <2>1, <3>1 DEF Prefixed
    <3>2. CASE i # 1
      <4>1. i - 1 \in 1 .. Len(v) /\ (i - 1) + 1 = i
        BY <1>1, <3>2
      <4>2. v[i - 1] = w[i]
        BY <1>1, <4>1
      <4> QED BY <2>1, <3>2, <4>2 DEF Prefixed
    <3> QED BY <3>1, <3>2
  <2> QED BY <2>1, <2>2 DEF Hits
<1> QED BY <1>1, <1>2 DEF IsTaken

\* The bytes of a key are put on it.
LEMMA KeySent ==
    ASSUME NEW w \in Seq(WireByte), NEW x \in BOOLEAN, Framed(w, x),
           NEW k0 \in Places, NEW m \in BOOLEAN, NEW v, v = w \o Bytes(k0, m)
    PROVE  IsSent(v, w, x, k0, m)
<1>0. k0[1] \in BOOLEAN /\ k0[2] \in Codes /\ k0 = <<k0[1], k0[2]>>
  BY KeyFacts
<1>1. PICK b : b = Byte(k0[2], m)
  OBVIOUS
<1>2. b \in WireByte /\ ~b.e0 /\ b.code = k0[2] /\ b.make = m
  BY <1>0, <1>1, ByteFacts
<1>3. Len(w) \in Nat
  OBVIOUS
<1>4. ASSUME NEW u, u \in Seq(WireByte), Len(u) >= Len(w), Len(u) \in Nat,
             \A i \in 1 .. Len(w) : u[i] = w[i]
      PROVE  \A i \in 1 .. Len(w) : \A k : Hits(u, x, i, k) <=> Hits(w, x, i, k)
  <2> SUFFICES ASSUME NEW i \in 1 .. Len(w), NEW k PROVE Hits(u, x, i, k) <=> Hits(w, x, i, k)
    OBVIOUS
  <2>1. u[i] = w[i] /\ (i # 1 => u[i - 1] = w[i - 1])
    BY <1>3, <1>4
  <2> QED BY <2>1 DEF Hits, Prefixed
<1>5. CASE k0[1]
  <2>1. v = w \o <<E0, b>>
    BY <1>1, <1>5 DEF Bytes
  <2>2. E0 \in WireByte /\ E0.e0 = TRUE
    BY ByteFacts
  <2>3. /\ v \in Seq(WireByte) /\ Len(v) = Len(w) + 2
        /\ \A i \in 1 .. Len(w) : v[i] = w[i]
        /\ v[Len(w) + 1] = E0 /\ v[Len(w) + 2] = b
    <3> HIDE DEF E0
    <3> QED BY <1>2, <2>1, <2>2 DEF E0
  <2>4. ASSUME NEW k PROVE ~Hits(v, x, Len(w) + 1, k)
    BY <2>2, <2>3 DEF Hits
  <2>5. ASSUME NEW k PROVE Hits(v, x, Len(w) + 2, k) <=> k = k0
    <3>1. Prefixed(v, x, Len(w) + 2) = TRUE
      <4>1. Len(w) + 2 # 1 /\ (Len(w) + 2) - 1 = Len(w) + 1
        BY <1>3
      <4> QED BY <2>2, <2>3, <4>1 DEF Prefixed
    <3>2. k0 = <<TRUE, b.code>>
      BY <1>0, <1>2, <1>5
    <3> QED BY <1>2, <2>3, <3>1, <3>2 DEF Hits
  <2>6. Len(v) \in Nat /\ Len(v) >= Len(w)
    BY <1>3, <2>3
  <2>7. \A i \in 1 .. Len(w) : \A k : Hits(v, x, i, k) <=> Hits(w, x, i, k)
    BY <1>4, <2>3, <2>6
  <2>8. \A i \in Len(w) + 1 .. Len(v) : i = Len(w) + 1 \/ i = Len(w) + 2
    BY <1>3, <2>3
  <2>9. Len(w) + 1 # Len(v) /\ Len(w) + 2 = Len(v) /\ Len(v) > Len(w)
    BY <1>3, <2>3
  <2> QED BY <1>2, <1>3, <2>3, <2>4, <2>5, <2>6, <2>7, <2>8, <2>9 DEF IsSent
<1>6. CASE ~k0[1]
  <2>1. v = w \o <<b>>
    BY <1>1, <1>6 DEF Bytes
  <2>2. /\ v \in Seq(WireByte) /\ Len(v) = Len(w) + 1
        /\ \A i \in 1 .. Len(w) : v[i] = w[i]
        /\ v[Len(w) + 1] = b
    BY <1>2, <2>1
  <2>3. Len(v) \in Nat /\ Len(v) >= Len(w)
    BY <1>3, <2>2
  <2>4. \A i \in 1 .. Len(w) : \A k : Hits(v, x, i, k) <=> Hits(w, x, i, k)
    BY <1>4, <2>2, <2>3
  <2>5. ASSUME NEW k PROVE Hits(v, x, Len(w) + 1, k) <=> k = k0
    <3>1. Prefixed(v, x, Len(w) + 1) = FALSE
      <4>1. CASE Len(w) = 0
        BY <4>1 DEF Prefixed, Framed
      <4>2. CASE Len(w) > 0
        <5>1. Len(w) \in 1 .. Len(w) /\ Len(w) + 1 # 1 /\ (Len(w) + 1) - 1 = Len(w)
          BY <1>3, <4>2
        <5>2. w[Len(w)] \in WireByte
          BY <5>1
        <5>3. w[Len(w)].e0 = FALSE
          BY <4>2, <5>2, ByteFacts DEF Framed
        <5>4. v[Len(w)].e0 = FALSE
          BY <2>2, <5>1, <5>3
        <5> QED BY <5>1, <5>4 DEF Prefixed
      <4>3. Len(w) = 0 \/ Len(w) > 0
        BY <1>3
      <4> QED BY <4>1, <4>2, <4>3, Zenon
    <3>2. k0 = <<FALSE, b.code>>
      BY <1>0, <1>2, <1>6
    <3> QED BY <1>2, <2>2, <3>1, <3>2 DEF Hits
  <2>6. \A i \in Len(w) + 1 .. Len(v) : i = Len(v) /\ i = Len(w) + 1
    BY <1>3, <2>2
  <2>7. Len(v) > Len(w)
    BY <1>3, <2>2
  <2> QED BY <1>2, <1>3, <2>2, <2>3, <2>4, <2>5, <2>6, <2>7 DEF IsSent
<1> QED BY <1>0, <1>5, <1>6

LEMMA SentInv ==
    ASSUME NEW w \in Seq(WireByte), NEW x \in BOOLEAN, NEW table, NEW down,
           WireInv(w, x, table, down),
           NEW k0 \in Places, NEW m \in BOOLEAN, NEW v, v = w \o Bytes(k0, m),
           NEW g, UserMoves(k0, m, down, g)
    PROVE  v \in Seq(WireByte) /\ WireInv(v, x, table, g)
<1> USE DEF UserMoves
<1>0. Framed(w, x) /\ Current(w, x, table, down) /\ Alternate(w, x, table)
  BY DEF WireInv
<1>1. /\ v \in Seq(WireByte) /\ Len(w) \in Nat /\ Len(v) \in Nat /\ Len(v) > Len(w)
      /\ \A i \in 1 .. Len(w) : v[i] = w[i]
      /\ v[Len(v)].make = m /\ ~v[Len(v)].e0
      /\ \A i \in 1 .. Len(w) : \A k : Hits(v, x, i, k) <=> Hits(w, x, i, k)
      /\ \A i \in Len(w) + 1 .. Len(v) : \A k : Hits(v, x, i, k) <=> i = Len(v) /\ k = k0
  <2>1. IsSent(v, w, x, k0, m)
    BY <1>0, KeySent
  <2> QED BY <2>1 DEF IsSent
<1>2. Framed(v, x)
  BY <1>1 DEF Framed
<1>3. \A k : Hits(v, x, Len(v), k) <=> k = k0
  BY <1>1
<1>4. ASSUME NEW k, NEW a \in Nat, a >= 1, NEW b \in 0 .. Len(w), Free(v, x, a, b, k)
      PROVE  Free(w, x, a, b, k)
  <2> SUFFICES ASSUME NEW j \in a .. b PROVE ~Hits(w, x, j, k)
    BY DEF Free
  <2>1. ~Hits(v, x, j, k) /\ j \in 1 .. Len(w)
    BY <1>1, <1>4 DEF Free
  <2> QED BY <1>1, <2>1
<1>5. ASSUME NEW k \in Places, Free(v, x, 1, Len(v), k) PROVE table[k] = 1 <=> k \in g
  <2>1. k # k0
    BY <1>1, <1>3, <1>5 DEF Free
  <2>2. Free(v, x, 1, Len(w), k)
    BY <1>1, <1>5 DEF Free
  <2>3. Free(w, x, 1, Len(w), k)
    BY <1>1, <1>4, <2>2
  <2> QED BY <1>0, <2>1, <2>3 DEF Current
<1>6. ASSUME NEW k \in Places, NEW i \in 1 .. Len(v), Hits(v, x, i, k), Free(v, x, i + 1, Len(v), k)
      PROVE  v[i].make <=> k \in g
  <2>1. CASE i = Len(v)
    BY <1>1, <1>3, <1>6, <2>1
  <2>2. CASE i # Len(v)
    <3>1. k # k0
      BY <1>1, <1>3, <1>6, <2>2, SMTT(60) DEF Free
    <3>2. i \in 1 .. Len(w)
      BY <1>1, <1>6, <3>1
    <3>3. Hits(w, x, i, k) /\ v[i] = w[i]
      BY <1>1, <1>6, <3>2
    <3>4. Free(v, x, i + 1, Len(w), k)
      BY <1>1, <1>6 DEF Free
    <3>5. Free(w, x, i + 1, Len(w), k)
      BY <1>1, <1>4, <3>2, <3>4
    <3> QED BY <1>0, <3>1, <3>2, <3>3, <3>5 DEF Current
  <2> QED BY <2>1, <2>2
<1>7. Current(v, x, table, g)
  BY <1>0, <1>5, <1>6 DEF Current
<1>8. ASSUME NEW k \in Places, NEW j \in 1 .. Len(v), Hits(v, x, j, k), ~v[j].make
      PROVE  /\ Free(v, x, 1, j - 1, k) => table[k] = 1
             /\ \A i \in 1 .. j - 1 :
                   Hits(v, x, i, k) /\ Free(v, x, i + 1, j - 1, k) => v[i].make
  <2>1. CASE j \in 1 .. Len(w)
    <3>1. Hits(w, x, j, k) /\ ~w[j].make
      BY <1>1, <1>8, <2>1
    <3>2. Free(v, x, 1, j - 1, k) => table[k] = 1
      <4>1. Free(v, x, 1, j - 1, k) => Free(w, x, 1, j - 1, k)
        BY <1>1, <1>4, <2>1
      <4> QED BY <1>0, <2>1, <3>1, <4>1 DEF Alternate
    <3>3. ASSUME NEW i \in 1 .. j - 1, Hits(v, x, i, k), Free(v, x, i + 1, j - 1, k)
          PROVE  v[i].make
      <4>1. i \in 1 .. Len(w) /\ i + 1 \in Nat /\ i + 1 >= 1 /\ j - 1 \in 0 .. Len(w)
        BY <1>1, <2>1
      <4>2. Hits(w, x, i, k) /\ v[i] = w[i]
        BY <1>1, <3>3, <4>1
      <4>3. Free(w, x, i + 1, j - 1, k)
        BY <1>4, <3>3, <4>1
      <4> QED BY <1>0, <2>1, <3>1, <4>2, <4>3 DEF Alternate
    <3> QED BY <3>2, <3>3
  <2>2. CASE j \notin 1 .. Len(w)
    <3>1. j = Len(v) /\ k = k0
      BY <1>1, <1>8, <2>2
    <3>2. ~m /\ k \in down
      BY <1>1, <1>8, <3>1
    <3>3. ASSUME Free(v, x, 1, j - 1, k) PROVE table[k] = 1
      <4>1. Free(v, x, 1, Len(w), k)
        BY <1>1, <3>1, <3>3 DEF Free
      <4>2. Free(w, x, 1, Len(w), k)
        BY <1>1, <1>4, <4>1
      <4> QED BY <1>0, <3>2, <4>2 DEF Current
    <3>4. ASSUME NEW i \in 1 .. j - 1, Hits(v, x, i, k), Free(v, x, i + 1, j - 1, k)
          PROVE  v[i].make
      <4>1. i \in 1 .. Len(w)
        <5>1. i # Len(v) /\ (i \in 1 .. Len(w) \/ i \in Len(w) + 1 .. Len(v))
          BY <1>1, <3>1
        <5> QED BY <1>1, <3>4, <5>1
      <4>2. Hits(w, x, i, k) /\ v[i] = w[i]
        BY <1>1, <3>4, <4>1
      <4>3. Free(v, x, i + 1, Len(w), k)
        BY <1>1, <3>1, <3>4 DEF Free
      <4>4. Free(w, x, i + 1, Len(w), k)
        BY <1>1, <1>4, <4>1, <4>3
      <4> QED BY <1>0, <3>2, <4>1, <4>2, <4>4 DEF Current
    <3> QED BY <3>3, <3>4
  <2> QED BY <2>1, <2>2
<1>9. Alternate(v, x, table)
  BY <1>0, <1>8 DEF Alternate
<1> QED BY <1>1, <1>2, <1>7, <1>9 DEF WireInv

LEMMA TakenInv ==
    ASSUME NEW w \in Seq(WireByte), w # << >>, NEW x \in BOOLEAN, NEW down,
           NEW table \in [Places -> {0, 1}], NEW s \in [Places -> {0, 1}],
           WireInv(w, x, table, down),
           NEW v, v = Tail(w), NEW y, y = w[1].e0, Decoded(w, x, table, s)
    PROVE  WireInv(v, y, s, down)
<1> USE DEF Decoded
<1>0. Framed(w, x) /\ Current(w, x, table, down) /\ Alternate(w, x, table)
  BY DEF WireInv
<1>1. /\ v \in Seq(WireByte) /\ Len(v) = Len(w) - 1 /\ Len(w) \in Nat \ {0}
      /\ \A i \in 1 .. Len(v) : v[i] = w[i + 1]
      /\ \A i \in 1 .. Len(v) : \A k : Hits(v, y, i, k) <=> Hits(w, x, i + 1, k)
  <2>1. IsTaken(v, y, w, x)
    BY HeadTaken
  <2> QED BY <2>1 DEF IsTaken
<1>2. Framed(v, y)
  <2>1. CASE Len(v) = 0
    <3>1. Len(w) = 1
      BY <1>1, <2>1
    <3>2. ~w[1].e0
      BY <1>0, <3>1 DEF Framed
    <3> QED BY <1>0, <2>1, <3>2 DEF Framed
  <2>2. CASE Len(v) > 0
    <3>1. Len(v) \in 1 .. Len(v) /\ Len(v) + 1 = Len(w) /\ Len(w) > 0
      BY <1>1, <2>2
    <3>2. v[Len(v)] = w[Len(w)]
      BY <1>1, <3>1
    <3> QED BY <1>0, <2>2, <3>1, <3>2 DEF Framed
  <2> QED BY <1>1, <2>1, <2>2
<1>3. ASSUME NEW k, NEW a \in Nat, a >= 1, NEW b \in 0 .. Len(v), Free(v, y, a, b, k)
      PROVE  Free(w, x, a + 1, b + 1, k)
  <2> SUFFICES ASSUME NEW j \in a + 1 .. b + 1 PROVE ~Hits(w, x, j, k)
    BY DEF Free
  <2>1. PICK h \in a .. b : h + 1 = j /\ h \in 1 .. Len(v)
    <3>1. j - 1 \in a .. b /\ (j - 1) + 1 = j /\ j - 1 \in 1 .. Len(v)
      BY <1>1, <1>3
    <3> QED BY <3>1
  <2>2. ~Hits(v, y, h, k)
    BY <1>3 DEF Free
  <2> QED BY <1>1, <2>1, <2>2
<1>4. ASSUME NEW k, NEW b \in 0 .. Len(v), Free(v, y, 1, b, k), ~Hits(w, x, 1, k)
      PROVE  Free(w, x, 1, b + 1, k)
  <2>1. Free(w, x, 1 + 1, b + 1, k)
    BY <1>1, <1>3, <1>4
  <2> SUFFICES ASSUME NEW j \in 1 .. b + 1 PROVE ~Hits(w, x, j, k)
    BY DEF Free
  <2>2. j = 1 \/ j \in 1 + 1 .. b + 1
    BY <1>1
  <2> QED BY <1>4, <2>1, <2>2 DEF Free
<1>5. ASSUME NEW k \in Places, Free(v, y, 1, Len(v), k) PROVE s[k] = 1 <=> k \in down
  <2>0. Len(v) + 1 = Len(w) /\ Len(v) \in 0 .. Len(v) /\ 1 \in 1 .. Len(w) /\ 1 \in Nat
    BY <1>1
  <2>1. CASE Hits(w, x, 1, k)
    <3>1. Free(w, x, 1 + 1, Len(w), k)
      BY <1>3, <1>5, <2>0
    <3>2. w[1].make <=> k \in down
      BY <1>0, <2>0, <2>1, <3>1 DEF Current
    <3> QED BY <2>1, <3>2
  <2>2. CASE ~Hits(w, x, 1, k)
    <3>1. Free(w, x, 1, Len(w), k)
      BY <1>4, <1>5, <2>0, <2>2
    <3> QED BY <1>0, <2>2, <3>1 DEF Current
  <2> QED BY <2>1, <2>2
<1>6. ASSUME NEW k \in Places, NEW i \in 1 .. Len(v), Hits(v, y, i, k), Free(v, y, i + 1, Len(v), k)
      PROVE  v[i].make <=> k \in down
  <2>1. /\ Len(v) + 1 = Len(w) /\ Len(v) \in 0 .. Len(v) /\ i + 1 \in 1 .. Len(w)
        /\ i + 1 \in Nat /\ i + 1 >= 1
    BY <1>1
  <2>2. Hits(w, x, i + 1, k) /\ v[i] = w[i + 1]
    BY <1>1, <1>6
  <2>3. Free(w, x, (i + 1) + 1, Len(w), k)
    BY <1>3, <1>6, <2>1
  <2> QED BY <1>0, <2>1, <2>2, <2>3 DEF Current
<1>7. Current(v, y, s, down)
  BY <1>0, <1>5, <1>6 DEF Current
<1>8. ASSUME NEW k \in Places, NEW j \in 1 .. Len(v), Hits(v, y, j, k), ~v[j].make
      PROVE  /\ Free(v, y, 1, j - 1, k) => s[k] = 1
             /\ \A i \in 1 .. j - 1 :
                   Hits(v, y, i, k) /\ Free(v, y, i + 1, j - 1, k) => v[i].make
  <2>1. /\ j + 1 \in 1 .. Len(w) /\ j - 1 \in 0 .. Len(v) /\ (j - 1) + 1 = (j + 1) - 1
        /\ 1 \in 1 .. (j + 1) - 1 /\ 1 \in Nat
    BY <1>1
  <2>2. Hits(w, x, j + 1, k) /\ ~w[j + 1].make
    BY <1>1, <1>8
  <2>3. /\ Free(w, x, 1, (j + 1) - 1, k) => table[k] = 1
        /\ \A i \in 1 .. (j + 1) - 1 :
              Hits(w, x, i, k) /\ Free(w, x, i + 1, (j + 1) - 1, k) => w[i].make
    BY <1>0, <2>1, <2>2 DEF Alternate
  <2>4. ASSUME Free(v, y, 1, j - 1, k) PROVE s[k] = 1
    <3>1. CASE Hits(w, x, 1, k)
      <4>1. Free(w, x, 1 + 1, (j + 1) - 1, k)
        BY <1>3, <2>1, <2>4
      <4>2. w[1].make
        BY <2>1, <2>3, <3>1, <4>1
      <4> QED BY <3>1, <4>2
    <3>2. CASE ~Hits(w, x, 1, k)
      <4>1. Free(w, x, 1, (j + 1) - 1, k)
        BY <1>4, <2>1, <2>4, <3>2
      <4> QED BY <2>3, <3>2, <4>1
    <3> QED BY <3>1, <3>2
  <2>5. ASSUME NEW i \in 1 .. j - 1, Hits(v, y, i, k), Free(v, y, i + 1, j - 1, k)
        PROVE  v[i].make
    <3>1. i \in 1 .. Len(v) /\ i + 1 \in 1 .. (j + 1) - 1 /\ i + 1 \in Nat /\ i + 1 >= 1
      BY <1>1
    <3>2. Hits(w, x, i + 1, k) /\ v[i] = w[i + 1]
      BY <1>1, <2>5, <3>1
    <3>3. Free(w, x, (i + 1) + 1, (j + 1) - 1, k)
      BY <1>3, <2>1, <2>5, <3>1
    <3> QED BY <2>3, <3>1, <3>2, <3>3
  <2> QED BY <2>4, <2>5
<1>9. Alternate(v, y, s)
  BY <1>0, <1>8 DEF Alternate
<1> QED BY <1>1, <1>2, <1>7, <1>9 DEF WireInv

(***************************************************************************)
(* The steps of the decoder and of the user.                               *)
(***************************************************************************)
decoding == <<decoder, held, wire, rebooting>>

LEMMA DecoderUnchanged == DecoderInv /\ UNCHANGED decoding => DecoderInv'
  BY DEF DecoderInv, DecoderType, OnWire, Down, decoding, decoder

LEMMA KeyOfFacts == \A p \in Places : KeyOf(p) \in Keys
<1> SUFFICES ASSUME NEW p \in Places PROVE KeyOf(p) \in Keys
  OBVIOUS
<1>1. p[1] \in BOOLEAN /\ p[2] \in Codes
  BY KeyFacts
<1>2. scantbl_set1 \in [Codes -> Keys] /\ scantbl_set1_ext \in [Codes -> Keys]
  BY KeyboardAssumption
<1> QED BY <1>1, <1>2 DEF KeyOf

LEMMA DecoderInit == Init => DecoderInv
<1> SUFFICES ASSUME Init PROVE DecoderInv
  OBVIOUS
<1>1. /\ Len(wire) = 0 /\ wire \in Seq(WireByte)
      /\ keystate = [k \in Keys |-> 0] /\ heard = [p \in Places |-> 0]
  BY DEF Init
<1>2. Down = {}
  BY <1>1 DEF Down
<1>3. OnWire
  BY <1>1 DEF Init, OnWire, WireInv, Framed, Current, Alternate
<1>4. DecoderType
  <2>1. num_pressed \in Nat
    BY DEF Init
  <2>2. ext \in BOOLEAN /\ extra \in BOOLEAN /\ rebooting \in BOOLEAN /\ held \subseteq Places
    BY Zenon DEF Init
  <2> QED BY <1>1, <2>1, <2>2 DEF DecoderType
<1>5. Linked(keystate, heard)
  BY <1>1 DEF Linked
<1>6. IsFiniteSet(Down) /\ Cardinality(Down) <= num_pressed
  BY <1>2, FS_EmptySet DEF Init
<1> QED BY <1>3, <1>4, <1>5, <1>6, Zenon DEF DecoderInv

\* a key goes down, is repeated, or comes up
LEMMA UserStep ==
    ASSUME DecoderInv, ~rebooting, NEW k0 \in Places, NEW m \in BOOLEAN, Sends(k0, m),
           held' \subseteq Places, UserMoves(k0, m, held, held'),
           UNCHANGED <<decoder, rebooting>>
    PROVE  DecoderInv'
<1>1. DecoderType /\ (~extra => OnWire)
  BY DEF DecoderInv
<1>2. wire \in Seq(WireByte) /\ ext \in BOOLEAN /\ wire' = wire \o Bytes(k0, m)
  BY <1>1 DEF DecoderType, Sends
<1>3. PICK v, g : v = wire' /\ g = held'
  OBVIOUS
<1>4. v = wire \o Bytes(k0, m) /\ UserMoves(k0, m, held, g)
  BY <1>2, <1>3
<1>5. /\ keystate' = keystate /\ ext' = ext /\ num_pressed' = num_pressed /\ rebooting' = rebooting
      /\ heard' = heard /\ extra' = extra
  BY DEF decoder
<1>6. v \in Seq(WireByte)
  <2>1. Bytes(k0, m) \in Seq(WireByte)
    <3>1. k0[2] \in Codes
      BY KeyFacts
    <3>2. PICK b, e : b = Byte(k0[2], m) /\ e = E0
      OBVIOUS
    <3>3. b \in WireByte /\ e \in WireByte
      BY <3>1, <3>2, ByteFacts
    <3>4. Bytes(k0, m) = (IF k0[1] THEN <<e>> ELSE << >>) \o <<b>>
      BY <3>2 DEF Bytes
    <3>5. (IF k0[1] THEN <<e>> ELSE << >>) \in Seq(WireByte) /\ <<b>> \in Seq(WireByte)
      BY <3>3
    <3> QED BY <3>4, <3>5
  <2> QED BY <1>2, <1>4, <2>1
<1>7. ~extra => OnWire'
  <2> SUFFICES ASSUME ~extra PROVE OnWire'
    OBVIOUS
  <2>1. WireInv(wire, ext, heard, held)
    BY <1>1 DEF OnWire
  <2>2. WireInv(v, ext, heard, g)
    BY <1>2, <1>4, <2>1, SentInv, ZenonT(60)
  <2> QED BY <1>3, <1>5, <2>2 DEF OnWire
<1>8. DecoderType'
  BY <1>1, <1>2, <1>3, <1>5, <1>6 DEF DecoderType
<1>9. Down' = Down /\ Linked(keystate', heard')
  BY <1>5 DEF Down, DecoderInv
<1> QED BY <1>5, <1>7, <1>8, <1>9 DEF DecoderInv

\* the keyboard sends bytes that belong to no key's code
LEMMA ExtraStep ==
    ASSUME DecoderInv, NEW s \in Extras, sends_extra(s)
    PROVE  DecoderInv'
<1>1. /\ wire' = wire \o s /\ extra' = TRUE
      /\ UNCHANGED <<held, num_pressed, keystate, ext, heard, rebooting>>
  BY DEF sends_extra
<1>2. DecoderType
  BY DEF DecoderInv
<1>3. wire \in Seq(WireByte) /\ s \in Seq(WireByte)
  BY <1>2, KeyboardAssumption DEF DecoderType
<1>4. wire' \in Seq(WireByte)
  BY <1>1, <1>3
<1>5. DecoderType'
  BY <1>1, <1>2, <1>4 DEF DecoderType
<1>6. Down' = Down /\ Linked(keystate', heard')
  BY <1>1 DEF Down, DecoderInv
<1> QED BY <1>1, <1>5, <1>6 DEF DecoderInv

LEMMA HeadFacts ==
    ASSUME DecoderInv, wire # << >>
    PROVE  /\ Head(wire) = wire[1] /\ wire[1] \in WireByte
           /\ wire' = Tail(wire) => wire' \in Seq(WireByte)
<1>1. wire \in Seq(WireByte)
  BY DEF DecoderInv, DecoderType
<1> QED BY <1>1

LEMMA PrefixStep ==
    ASSUME DecoderInv, kbintr_prefix
    PROVE  DecoderInv'
<1>1. /\ ~rebooting /\ wire # << >> /\ Head(wire).e0 /\ ext' = TRUE /\ wire' = Tail(wire)
      /\ UNCHANGED <<num_pressed, keystate, heard, extra, held, rebooting>>
  BY DEF kbintr_prefix, CanInterrupt
<1>2. DecoderType /\ (~extra => OnWire)
  BY <1>1 DEF DecoderInv
<1>3. wire[1].e0 = TRUE /\ wire' \in Seq(WireByte)
  BY <1>1, HeadFacts, ByteFacts
<1>4. ~extra => OnWire'
  <2> SUFFICES ASSUME ~extra PROVE OnWire'
    OBVIOUS
  <2>1. /\ wire \in Seq(WireByte) /\ ext \in BOOLEAN /\ heard \in [Places -> {0, 1}]
        /\ WireInv(wire, ext, heard, held)
    BY <1>2 DEF OnWire, DecoderType
  <2>2. PICK v, y : v = Tail(wire) /\ y = wire[1].e0
    OBVIOUS
  <2>3. Decoded(wire, ext, heard, heard)
    BY <1>3 DEF Hits, Decoded
  <2>4. WireInv(v, y, heard, held)
    BY <1>1, <2>1, <2>2, <2>3, TakenInv
  <2>5. v = wire' /\ y = ext'
    BY <1>1, <1>3, <2>2
  <2> QED BY <1>1, <2>4, <2>5 DEF OnWire
<1>5. DecoderType' /\ Down' = Down /\ Linked(keystate', heard')
  BY <1>1, <1>2, <1>3 DEF DecoderType, Down, DecoderInv
<1> QED BY <1>1, <1>4, <1>5 DEF DecoderInv

\* the table and what was heard, after the code at place
LEMMA LinkedStep ==
    ASSUME NEW table \in [Keys -> {0, 1}], NEW h \in [Places -> {0, 1}], Linked(table, h),
           NEW place \in Places, NEW value \in {0, 1},
           NEW s, s = [table EXCEPT ![KeyOf(place)] = value],
           NEW g, g = [h EXCEPT ![place] = value]
    PROVE  s \in [Keys -> {0, 1}] /\ g \in [Places -> {0, 1}] /\ Linked(s, g)
<1>1. \A p \in Places : KeyOf(p) \in Keys
  BY KeyOfFacts
<1>2. s \in [Keys -> {0, 1}] /\ g \in [Places -> {0, 1}]
  BY <1>1
<1>3. /\ s[KeyOf(place)] = value /\ g[place] = value
      /\ \A k \in Keys : k # KeyOf(place) => s[k] = table[k]
      /\ \A p \in Places : p # place => g[p] = h[p]
  BY <1>1
<1>4. ASSUME NEW k \in Keys, s[k] = 1 PROVE \E p \in Places : KeyOf(p) = k /\ g[p] = 1
  <2>1. CASE k = KeyOf(place)
    BY <1>3, <1>4, <2>1
  <2>2. CASE k # KeyOf(place)
    <3>1. PICK p \in Places : KeyOf(p) = k /\ h[p] = 1
      BY <1>3, <1>4, <2>2 DEF Linked
    <3> QED BY <1>3, <2>2, <3>1
  <2> QED BY <2>1, <2>2
<1>5. ASSUME NEW p \in Places, Alone(p), g[p] = 1 PROVE s[KeyOf(p)] = 1
  <2>1. CASE p = place
    BY <1>3, <1>5, <2>1
  <2>2. CASE p # place
    <3>1. KeyOf(p) # KeyOf(place)
      BY <1>5, <2>2 DEF Alone
    <3>2. table[KeyOf(p)] = 1
      BY <1>3, <1>5, <2>2 DEF Linked
    <3> QED BY <1>1, <1>3, <3>1, <3>2
  <2> QED BY <2>1, <2>2
<1> QED BY <1>2, <1>4, <1>5 DEF Linked

\* the code of a key, pressed (value 1) or released (value 0)
LEMMA CodeStep ==
    ASSUME DecoderInv, ~rebooting, wire # << >>, ~Head(wire).e0, wire' = Tail(wire), ext' = FALSE,
           NEW place, place = <<ext, Head(wire).code>>, NEW value \in {0, 1},
           value = 1 <=> Head(wire).make,
           keystate' = [keystate EXCEPT ![KeyOf(place)] = value],
           heard' = [heard EXCEPT ![place] = value],
           held' = held, extra' = extra, rebooting' = rebooting, num_pressed' \in Nat
    PROVE  /\ DecoderType' /\ Linked(keystate', heard')
           /\ place \in Places
           /\ ~extra => OnWire' /\ (value = 0 => heard[place] = 1)
<1>1. DecoderType /\ (~extra => OnWire) /\ Linked(keystate, heard)
  BY DEF DecoderInv
<1>2. /\ wire \in Seq(WireByte) /\ ext \in BOOLEAN
      /\ keystate \in [Keys -> {0, 1}] /\ heard \in [Places -> {0, 1}]
  BY <1>1 DEF DecoderType
<1>3. /\ Head(wire) = wire[1] /\ wire[1].e0 = FALSE /\ wire[1].code \in Codes
      /\ wire[1].make \in BOOLEAN
      /\ wire' \in Seq(WireByte)
  BY HeadFacts, ByteFacts
<1>4. place \in Places
  BY <1>2, <1>3, KeyFacts
<1>5. PICK s, g : s = keystate' /\ g = heard'
  OBVIOUS
<1>6. s \in [Keys -> {0, 1}] /\ g \in [Places -> {0, 1}] /\ Linked(s, g)
  <2>1. s = [keystate EXCEPT ![KeyOf(place)] = value] /\ g = [heard EXCEPT ![place] = value]
    BY <1>5
  <2> QED BY <1>1, <1>2, <1>4, <2>1, LinkedStep
<1>7. DecoderType' /\ Linked(keystate', heard')
  BY <1>1, <1>3, <1>5, <1>6 DEF DecoderType
<1>8. ASSUME ~extra PROVE OnWire' /\ (value = 0 => heard[place] = 1)
  <2>1. WireInv(wire, ext, heard, held)
    BY <1>1, <1>8 DEF OnWire
  <2>2. \A k : Hits(wire, ext, 1, k) <=> k = place
    BY <1>3 DEF Hits, Prefixed
  <2>3. PICK v, y : v = Tail(wire) /\ y = wire[1].e0
    OBVIOUS
  <2>4. Decoded(wire, ext, heard, g)
    BY <1>2, <1>3, <1>4, <1>5, <2>2 DEF Decoded
  <2>5. WireInv(v, y, g, held)
    BY <1>2, <1>6, <2>1, <2>3, <2>4, TakenInv
  <2>6. v = wire' /\ y = ext'
    BY <1>3, <2>3
  <2>7. OnWire'
    BY <1>5, <2>5, <2>6 DEF OnWire
  <2>8. ASSUME value = 0 PROVE heard[place] = 1
    <3>1. 1 \in 1 .. Len(wire) /\ Hits(wire, ext, 1, place) /\ ~wire[1].make
      BY <1>2, <1>3, <2>2, <2>8
    <3>2. Free(wire, ext, 1, 1 - 1, place)
      BY DEF Free
    <3> QED BY <1>4, <2>1, <3>1, <3>2 DEF WireInv, Alternate
  <2> QED BY <2>7, <2>8
<1> QED BY <1>4, <1>7, <1>8

LEMMA PressStep ==
    ASSUME DecoderInv, kbintr_press
    PROVE  DecoderInv'
<1> DEFINE place == <<ext, Head(wire).code>>
<1>1. /\ ~rebooting /\ wire # << >> /\ ~Head(wire).e0 /\ Head(wire).make
      /\ num_pressed' = num_pressed + 1 /\ ext' = FALSE /\ wire' = Tail(wire) /\ held' = held
      /\ extra' = extra
      /\ \/ rebooting' = TRUE /\ keystate' = keystate /\ heard' = heard
         \/ /\ rebooting' = rebooting /\ keystate' = [keystate EXCEPT ![KeyOf(place)] = 1]
            /\ heard' = [heard EXCEPT ![place] = 1]
  BY DEF kbintr_press, CanInterrupt
<1> HIDE DEF place
<1>2. DecoderType /\ IsFiniteSet(Down) /\ (~extra => Cardinality(Down) <= num_pressed)
  BY DEF DecoderInv
<1>3. num_pressed \in Nat /\ num_pressed' \in Nat /\ heard \in [Places -> {0, 1}]
  BY <1>1, <1>2 DEF DecoderType
<1>4. Cardinality(Down) \in Nat
  BY <1>2, FS_CardinalityType
<1>5. CASE rebooting' = TRUE /\ keystate' = keystate /\ heard' = heard
  <2>1. Down' = Down /\ Linked(keystate', heard')
    BY <1>5 DEF Down, DecoderInv
  <2>2. ~extra => Cardinality(Down) <= num_pressed'
    BY <1>1, <1>2, <1>3, <1>4
  <2>3. wire' \in Seq(WireByte)
    BY <1>1, HeadFacts
  <2>4. DecoderType'
    BY <1>1, <1>2, <1>3, <1>5, <2>3 DEF DecoderType
  <2> QED BY <1>1, <1>2, <1>5, <2>1, <2>2, <2>4 DEF DecoderInv
<1>6. CASE /\ rebooting' = rebooting /\ keystate' = [keystate EXCEPT ![KeyOf(place)] = 1]
           /\ heard' = [heard EXCEPT ![place] = 1]
  <2>1. DecoderType' /\ Linked(keystate', heard') /\ place \in Places /\ (~extra => OnWire')
    <3>1. PICK value \in {0, 1} : value = 1
      OBVIOUS
    <3>2. PICK c : c = place
      OBVIOUS
    <3>3. /\ c = <<ext, Head(wire).code>> /\ (value = 1 <=> Head(wire).make)
          /\ keystate' = [keystate EXCEPT ![KeyOf(c)] = value]
          /\ heard' = [heard EXCEPT ![c] = value]
      BY <1>1, <1>6, <3>1, <3>2 DEF place
    <3>4. DecoderType' /\ Linked(keystate', heard') /\ c \in Places /\ (~extra => OnWire')
      BY <1>1, <1>3, <1>6, <3>3, CodeStep
    <3> QED BY <3>2, <3>4
  <2>2. Down' = Down \union {place}
    BY <1>3, <1>6, <2>1 DEF Down
  <2>3. /\ IsFiniteSet(Down \union {place})
        /\ Cardinality(Down \union {place}) <= Cardinality(Down) + 1
    <3>1. /\ IsFiniteSet(Down \union {place})
          /\ Cardinality(Down \union {place}) =
                IF place \in Down THEN Cardinality(Down) ELSE Cardinality(Down) + 1
      BY <1>2, FS_AddElement
    <3> QED BY <1>4, <3>1
  <2>4. Cardinality(Down \union {place}) \in Nat
    BY <2>3, FS_CardinalityType
  <2>5. ~extra => Cardinality(Down \union {place}) <= num_pressed'
    BY <1>1, <1>2, <1>3, <1>4, <2>3, <2>4
  <2> QED BY <1>1, <2>1, <2>2, <2>3, <2>5 DEF DecoderInv
<1> QED BY <1>1, <1>5, <1>6

LEMMA ReleaseStep ==
    ASSUME DecoderInv, kbintr_release
    PROVE  DecoderInv'
<1>0. PICK place : place = <<ext, Head(wire).code>>
  OBVIOUS
<1>1. /\ ~rebooting /\ wire # << >> /\ ~Head(wire).e0 /\ ~Head(wire).make
      /\ num_pressed' = IF num_pressed > 0 THEN num_pressed - 1 ELSE num_pressed
      /\ ext' = FALSE /\ wire' = Tail(wire) /\ held' = held /\ rebooting' = rebooting
      /\ extra' = extra
      /\ keystate' = [keystate EXCEPT ![KeyOf(place)] = 0]
      /\ heard' = [heard EXCEPT ![place] = 0]
  BY <1>0 DEF kbintr_release, CanInterrupt
<1>2. DecoderType /\ IsFiniteSet(Down) /\ (~extra => Cardinality(Down) <= num_pressed)
  BY DEF DecoderInv
<1>3. num_pressed \in Nat /\ num_pressed' \in Nat /\ heard \in [Places -> {0, 1}]
  BY <1>1, <1>2 DEF DecoderType
<1>4. Cardinality(Down) \in Nat
  BY <1>2, FS_CardinalityType
<1>5. /\ DecoderType' /\ Linked(keystate', heard') /\ place \in Places
      /\ ~extra => OnWire' /\ heard[place] = 1
  <2>1. PICK value \in {0, 1} : value = 0
    OBVIOUS
  <2>2. /\ value = 1 <=> Head(wire).make
        /\ keystate' = [keystate EXCEPT ![KeyOf(place)] = value]
        /\ heard' = [heard EXCEPT ![place] = value]
    BY <1>1, <2>1
  <2> QED BY <1>0, <1>1, <1>3, <2>1, <2>2, CodeStep
<1>6. Down' = Down \ {place}
  BY <1>1, <1>3, <1>5 DEF Down
<1>7. /\ IsFiniteSet(Down \ {place})
      /\ Cardinality(Down \ {place}) =
            IF place \in Down THEN Cardinality(Down) - 1 ELSE Cardinality(Down)
  BY <1>2, FS_RemoveElement
<1>8. Cardinality(Down \ {place}) \in Nat
  BY <1>7, FS_CardinalityType
<1>9. ~extra => Cardinality(Down \ {place}) <= num_pressed'
  <2> SUFFICES ASSUME ~extra PROVE Cardinality(Down \ {place}) <= num_pressed'
    OBVIOUS
  <2>1. place \in Down
    BY <1>5 DEF Down
  <2> QED BY <1>1, <1>2, <1>3, <1>4, <1>7, <1>8, <2>1
<1> QED BY <1>1, <1>5, <1>6, <1>7, <1>9 DEF DecoderInv

\* every step keeps the decoder's invariant, wherever the main program is interrupted
LEMMA DecoderNext == DecoderInv /\ [Next]_vars => DecoderInv'
<1> SUFFICES ASSUME DecoderInv, [Next]_vars PROVE DecoderInv'
  OBVIOUS
<1>1. held \subseteq Places /\ UserKeys \subseteq Places
  BY KeyboardAssumption DEF DecoderInv, DecoderType
<1>2. ASSUME NEW k \in UserKeys, key_down(k) PROVE DecoderInv'
  <2>1. k \in Places /\ ~rebooting /\ Sends(k, TRUE) /\ UNCHANGED <<decoder, rebooting>>
    BY <1>1, <1>2 DEF key_down, Types
  <2>2. held' \subseteq Places /\ UserMoves(k, TRUE, held, held')
    BY <1>1, <1>2, <2>1 DEF key_down, UserMoves
  <2> QED BY <2>1, <2>2, UserStep
<1>3. ASSUME NEW k \in UserKeys, key_repeat(k) PROVE DecoderInv'
  <2>1. k \in Places /\ ~rebooting /\ Sends(k, TRUE) /\ UNCHANGED <<decoder, rebooting>>
    BY <1>1, <1>3 DEF key_repeat, Types
  <2>2. held' \subseteq Places /\ UserMoves(k, TRUE, held, held')
    BY <1>1, <1>3, <2>1 DEF key_repeat, UserMoves
  <2> QED BY <2>1, <2>2, UserStep
<1>4. ASSUME NEW k \in UserKeys, key_up(k) PROVE DecoderInv'
  <2>1. k \in Places /\ ~rebooting /\ Sends(k, FALSE) /\ UNCHANGED <<decoder, rebooting>>
    BY <1>1, <1>4 DEF key_up
  <2>2. held' \subseteq Places /\ UserMoves(k, FALSE, held, held')
    BY <1>1, <1>4, <2>1 DEF key_up, UserMoves
  <2> QED BY <2>1, <2>2, UserStep
<1>11. ASSUME NEW s \in Extras, sends_extra(s) PROVE DecoderInv'
  BY <1>11, ExtraStep
<1>5. CASE kbintr_prefix
  BY <1>5, PrefixStep
<1>6. CASE kbintr_press
  BY <1>6, PressStep
<1>7. CASE kbintr_release
  BY <1>7, ReleaseStep
<1>8. CASE timer_intr \/ reboot \/ UNCHANGED vars
  BY <1>8, DecoderUnchanged DEF timer_intr, reboot, vars, decoding
<1>9. CASE call_getkey \/ call_wait \/ \E key \in Putbacks : call_putback(key)
  BY <1>9, DecoderUnchanged DEF call_getkey, call_wait, call_putback, Env, decoding
<1>10. CASE Step
  <2>1. UNCHANGED decoding
    <3>1. CASE getkey_cmp_ridx \/ getkey_index \/ getkey_adv_load \/ putback_dec_load
               \/ putback_wrap_load \/ putback_cmp_ridx \/ putback_adv_load \/ putback_index
      BY <3>1 DEF getkey_cmp_ridx, getkey_index, getkey_adv_load, putback_dec_load,
         putback_wrap_load, putback_cmp_ridx, putback_adv_load, putback_index, LoadRidx, Env, decoding
    <3>2. CASE getkey_adv_store \/ putback_dec_store \/ putback_wrap_store \/ putback_adv_store
      BY <3>2 DEF getkey_adv_store, putback_dec_store, putback_wrap_store, putback_adv_store,
         StoreRidx, Env, decoding
    <3>3. CASE getkey_cmp_widx \/ getkey_elem \/ wait_sleep \/ halt_cpu \/ putback_cmp_widx
               \/ putback_elem
      BY <3>3 DEF getkey_cmp_widx, getkey_elem, wait_sleep, halt_cpu, putback_cmp_widx,
         putback_elem, Env, decoding
    <3> QED BY <1>10, <3>1, <3>2, <3>3 DEF Step
  <2> QED BY <2>1, DecoderUnchanged
<1> QED BY <1>2, <1>3, <1>4, <1>5, <1>6, <1>7, <1>8, <1>9, <1>10, <1>11 DEF Next

\* what kb_isdown tells once every byte is handled
LEMMA DecoderTells == DecoderInv => AnyKeyIsSeen /\ KeystateIsExact
<1> SUFFICES ASSUME DecoderInv, wire = << >>, ~rebooting, ~extra
             PROVE  /\ held # {} => num_pressed > 0
                    /\ \A k \in Keys : keystate[k] = 1 => \E p \in held : KeyOf(p) = k
                    /\ \A p \in held : Alone(p) => keystate[KeyOf(p)] = 1
  BY DEF AnyKeyIsSeen, KeystateIsExact, Quiet
<1>1. /\ DecoderType /\ OnWire /\ IsFiniteSet(Down) /\ Cardinality(Down) <= num_pressed
      /\ Linked(keystate, heard)
  BY DEF DecoderInv
<1>2. \A p \in Places : heard[p] = 1 <=> p \in held
  <2>1. Len(wire) = 0
    OBVIOUS
  <2> QED BY <1>1, <2>1 DEF OnWire, WireInv, Current, Free
<1>3. ASSUME held # {} PROVE num_pressed > 0
  <2>1. Down # {}
    BY <1>1, <1>2, <1>3 DEF Down, DecoderType
  <2>2. Cardinality(Down) \in Nat /\ Cardinality(Down) # 0
    BY <1>1, <2>1, FS_CardinalityType, FS_EmptySet
  <2> QED BY <1>1, <2>2 DEF DecoderType
<1>4. held \subseteq Places
  BY <1>1 DEF DecoderType
<1>5. \A k \in Keys : keystate[k] = 1 => \E p \in held : KeyOf(p) = k
  BY <1>1, <1>2, <1>4 DEF Linked
<1>6. \A p \in held : Alone(p) => keystate[KeyOf(p)] = 1
  BY <1>1, <1>2, <1>4 DEF Linked
<1> QED BY <1>3, <1>5, <1>6

\* What kb_isdown reads is right once the controller's bytes are handled (kbintr), as
\* long as the keyboard sends only the codes of keys: for every pair of translation
\* tables, no key is told that is not held, and every key is that shares its table entry
\* with no other, so that a prefix byte, which comes in an interrupt of its own, is never
\* lost or applied to another code; and KB_ANY overlooks no key at all, however presses,
\* repeats and releases mix and whether or not keys share an entry.
THEOREM KeysAreDecoded == Spec => [](AnyKeyIsSeen /\ KeystateIsExact)
<1>1. Spec => []DecoderInv
  BY DecoderInit, DecoderNext, PTL DEF Spec
<1> QED BY <1>1, DecoderTells, PTL


-----------------------------------------------------------------------------
(***************************************************************************)
(* The ring.  Nx and Pv step around it; the contents of a buffer between   *)
(* the read end r and the write end w are Ring(buf, r, w).                 *)
(***************************************************************************)
Index == 0 .. BUFSZ - 1
Nx(x) == IF x = BUFSZ - 1 THEN 0 ELSE x + 1
Pv(x) == IF x = 0 THEN BUFSZ - 1 ELSE x - 1
Dist(r, w) == IF w >= r THEN w - r ELSE w - r + BUFSZ
Slot(r, j) == IF r + j - 1 < BUFSZ THEN r + j - 1 ELSE r + j - 1 - BUFSZ
Ring(buf, r, w) == [j \in 1 .. Dist(r, w) |-> buf[Slot(r, j)]]
Cell == Keys \union {NoKey}
Buffer == [Index -> Cell]

LEMMA ModFacts ==
    ASSUME NEW b \in Nat \ {0}
    PROVE  /\ \A x \in 0 .. b - 1 : x % b = x
           /\ \A x \in b .. 2 * b - 1 : x % b = x - b
           /\ \A x \in -b .. -1 : x % b = x + b
  OBVIOUS

LEMMA Around ==
    /\ BUFSZ \in Nat \ {0, 1}
    /\ \A x \in Index : /\ Succ(x) = Nx(x) /\ Nx(x) \in Index /\ Pv(x) \in Index
                        /\ Nx(Pv(x)) = x /\ Nx(x) # x
<1>1. BUFSZ \in Nat \ {0, 1}
  BY KeyboardAssumption
<1>2. ASSUME NEW x \in Index PROVE Succ(x) = Nx(x)
  <2>1. CASE x = BUFSZ - 1
    <3>1. BUFSZ % BUFSZ = 0 /\ x + 1 = BUFSZ
      BY <1>1, <2>1, ModFacts
    <3> QED BY <2>1, <3>1 DEF Succ, Nx
  <2>2. CASE x # BUFSZ - 1
    <3>1. x + 1 \in 0 .. BUFSZ - 1
      BY <1>1, <2>2 DEF Index
    <3>2. (x + 1) % BUFSZ = x + 1
      BY <1>1, <3>1, ModFacts
    <3> QED BY <2>2, <3>2 DEF Succ, Nx
  <2> QED BY <2>1, <2>2
<1> QED BY <1>1, <1>2 DEF Index, Nx, Pv

LEMMA DistFacts ==
    ASSUME NEW r \in Index, NEW w \in Index
    PROVE  /\ Dist(r, w) \in 0 .. BUFSZ - 1
           /\ Dist(r, w) = 0 <=> r = w
           /\ Dist(r, w) = BUFSZ - 1 <=> r = Nx(w)
           /\ Dist(r, w) < BUFSZ - 1 => Dist(r, Nx(w)) = Dist(r, w) + 1
           /\ Dist(r, w) > 0 => Dist(Nx(r), w) = Dist(r, w) - 1
           /\ Dist(r, w) < BUFSZ - 1 => Dist(Pv(r), w) = Dist(r, w) + 1
           /\ \A j \in 1 .. Dist(r, w) : Slot(r, j) \in Index /\ Slot(r, j) # w
           /\ Slot(r, 1) = r /\ Slot(r, Dist(r, w) + 1) = w
           /\ \A j \in 2 .. Dist(r, w) : Slot(r, j) # r
           /\ \A j \in 1 .. Dist(r, w) - 1 : Slot(Nx(r), j) = Slot(r, j + 1)
  BY Around DEF Index, Nx, Pv, Dist, Slot

IsRing(s, buf, r, w) ==
    /\ s \in Seq(Cell) /\ Len(s) = Dist(r, w)
    /\ \A j \in 1 .. Dist(r, w) : s[j] = buf[Slot(r, j)]

LEMMA RingFacts ==
    ASSUME NEW buf \in Buffer, NEW r \in Index, NEW w \in Index, NEW s, s = Ring(buf, r, w)
    PROVE  IsRing(s, buf, r, w)
<1>1. Dist(r, w) \in Nat
  BY DistFacts, Around
<1>2. \A j \in 1 .. Dist(r, w) : Slot(r, j) \in Index
  BY DistFacts
<1>3. \A j \in 1 .. Dist(r, w) : buf[Slot(r, j)] \in Cell
  BY <1>2 DEF Buffer
<1> QED BY <1>1, <1>3 DEF Ring, IsRing

Written(b2, buf, w, key) == b2 = [buf EXCEPT ![w] = key]
Stored(b2, buf, r, key) == b2 = [i \in DOMAIN buf |-> IF i = r THEN key ELSE buf[i]]

\* a key is written at the write end, and that moves on
LEMMA RingAppend ==
    ASSUME NEW buf \in Buffer, NEW r \in Index, NEW w \in Index, NEW key \in Cell,
           Dist(r, w) < BUFSZ - 1, NEW b2, Written(b2, buf, w, key)
    PROVE  b2 \in Buffer /\ Ring(b2, r, Nx(w)) = Append(Ring(buf, r, w), key)
<1>1. b2 \in Buffer /\ b2[w] = key /\ \A i \in Index : i # w => b2[i] = buf[i]
  BY DEF Buffer, Written
<1>2. Nx(w) \in Index
  BY Around
<1>3. PICK s, t, u : s = Ring(buf, r, w) /\ t = Ring(b2, r, Nx(w)) /\ u = Append(s, key)
  OBVIOUS
<1>4. /\ s \in Seq(Cell) /\ Len(s) = Dist(r, w)
      /\ \A j \in 1 .. Dist(r, w) : s[j] = buf[Slot(r, j)]
  <2>1. IsRing(s, buf, r, w)
    BY <1>3, RingFacts
  <2> QED BY <2>1 DEF IsRing
<1>5. /\ t \in Seq(Cell) /\ Len(t) = Dist(r, Nx(w))
      /\ \A j \in 1 .. Dist(r, Nx(w)) : t[j] = b2[Slot(r, j)]
  <2>1. IsRing(t, b2, r, Nx(w))
    BY <1>1, <1>2, <1>3, RingFacts
  <2> QED BY <2>1 DEF IsRing
<1>6. /\ Dist(r, w) \in Nat /\ Dist(r, Nx(w)) = Dist(r, w) + 1
      /\ \A j \in 1 .. Dist(r, w) : Slot(r, j) \in Index /\ Slot(r, j) # w
      /\ Slot(r, Dist(r, w) + 1) = w
  BY DistFacts, Around
<1>7. /\ u \in Seq(Cell) /\ Len(u) = Dist(r, w) + 1
      /\ \A j \in 1 .. Dist(r, w) : u[j] = s[j]
      /\ u[Dist(r, w) + 1] = key
  <2>1. s \in Seq(Cell) /\ Len(s) = Dist(r, w)
    BY <1>4
  <2> QED BY <1>3, <1>6, <2>1
<1>8. ASSUME NEW j \in 1 .. Len(t) PROVE t[j] = u[j]
  <2>1. CASE j \in 1 .. Dist(r, w)
    <3>1. t[j] = b2[Slot(r, j)] /\ u[j] = buf[Slot(r, j)]
      BY <1>4, <1>5, <1>6, <1>7, <2>1
    <3> QED BY <1>1, <1>6, <2>1, <3>1
  <2>2. CASE j = Dist(r, w) + 1
    BY <1>1, <1>5, <1>6, <1>7, <2>2
  <2>3. j \in 1 .. Dist(r, w) \/ j = Dist(r, w) + 1
    BY <1>5, <1>6
  <2> QED BY <2>1, <2>2, <2>3
<1>9. t = u
  <2>1. t \in Seq(Cell) /\ u \in Seq(Cell) /\ Len(t) = Len(u)
    BY <1>5, <1>6, <1>7
  <2> QED BY <1>8, <2>1, SeqEqual
<1> QED BY <1>1, <1>3, <1>9

\* the read end moves on
LEMMA RingTail ==
    ASSUME NEW buf \in Buffer, NEW r \in Index, NEW w \in Index, Dist(r, w) > 0
    PROVE  /\ Ring(buf, r, w) # << >> /\ Head(Ring(buf, r, w)) = buf[r]
           /\ Ring(buf, Nx(r), w) = Tail(Ring(buf, r, w))
<1>1. Nx(r) \in Index
  BY Around
<1>2. PICK s, t, u : s = Ring(buf, r, w) /\ t = Ring(buf, Nx(r), w) /\ u = Tail(s)
  OBVIOUS
<1>3. /\ s \in Seq(Cell) /\ Len(s) = Dist(r, w)
      /\ \A j \in 1 .. Dist(r, w) : s[j] = buf[Slot(r, j)]
  <2>1. IsRing(s, buf, r, w)
    BY <1>2, RingFacts
  <2> QED BY <2>1 DEF IsRing
<1>4. /\ t \in Seq(Cell) /\ Len(t) = Dist(Nx(r), w)
      /\ \A j \in 1 .. Dist(Nx(r), w) : t[j] = buf[Slot(Nx(r), j)]
  <2>1. IsRing(t, buf, Nx(r), w)
    BY <1>1, <1>2, RingFacts
  <2> QED BY <2>1 DEF IsRing
<1>5. /\ Dist(r, w) \in Nat /\ Dist(Nx(r), w) = Dist(r, w) - 1 /\ Slot(r, 1) = r
      /\ \A j \in 1 .. Dist(r, w) - 1 : Slot(Nx(r), j) = Slot(r, j + 1)
  BY DistFacts, Around
<1>6. s # << >> /\ Head(s) = s[1] /\ 1 \in 1 .. Dist(r, w)
  <2>1. s \in Seq(Cell) /\ Len(s) > 0 /\ Len(s) = Dist(r, w)
    BY <1>3
  <2> QED BY <1>5, <2>1
<1>7. /\ u \in Seq(Cell) /\ Len(u) = Dist(r, w) - 1
      /\ \A j \in 1 .. Dist(r, w) - 1 : u[j] = s[j + 1]
  <2>1. s \in Seq(Cell) /\ Len(s) > 0 /\ Len(s) = Dist(r, w)
    BY <1>3
  <2> QED BY <1>2, <1>5, <2>1
<1>8. ASSUME NEW j \in 1 .. Len(t) PROVE t[j] = u[j]
  <2>1. j \in 1 .. Dist(r, w) - 1 /\ j + 1 \in 1 .. Dist(r, w)
    BY <1>4, <1>5
  <2> QED BY <1>3, <1>4, <1>5, <1>7, <2>1
<1>9. t = u
  <2>1. t \in Seq(Cell) /\ u \in Seq(Cell) /\ Len(t) = Len(u)
    BY <1>4, <1>5, <1>7
  <2> QED BY <1>8, <2>1, SeqEqual
<1> QED BY <1>2, <1>3, <1>5, <1>6, <1>9

\* a key is written over the first one
LEMMA RingFirst ==
    ASSUME NEW buf \in Buffer, NEW r \in Index, NEW w \in Index, NEW key \in Cell,
           Dist(r, w) > 0, NEW b2, Stored(b2, buf, r, key)
    PROVE  b2 \in Buffer /\ Ring(b2, r, w) = <<key>> \o Tail(Ring(buf, r, w))
<1>1. b2 \in Buffer /\ b2[r] = key /\ \A i \in Index : i # r => b2[i] = buf[i]
  BY DEF Buffer, Stored
<1>2. PICK s, t, u : s = Ring(buf, r, w) /\ t = Ring(b2, r, w) /\ u = <<key>> \o Tail(s)
  OBVIOUS
<1>3. /\ s \in Seq(Cell) /\ Len(s) = Dist(r, w)
      /\ \A j \in 1 .. Dist(r, w) : s[j] = buf[Slot(r, j)]
  <2>1. IsRing(s, buf, r, w)
    BY <1>2, RingFacts
  <2> QED BY <2>1 DEF IsRing
<1>4. /\ t \in Seq(Cell) /\ Len(t) = Dist(r, w)
      /\ \A j \in 1 .. Dist(r, w) : t[j] = b2[Slot(r, j)]
  <2>1. IsRing(t, b2, r, w)
    BY <1>1, <1>2, RingFacts
  <2> QED BY <2>1 DEF IsRing
<1>5. /\ Dist(r, w) \in Nat /\ Slot(r, 1) = r
      /\ \A j \in 1 .. Dist(r, w) : Slot(r, j) \in Index
      /\ \A j \in 2 .. Dist(r, w) : Slot(r, j) # r
  <2>1. Dist(r, w) \in Nat
    BY DistFacts, Around
  <2>2. Slot(r, 1) = r /\ \A j \in 1 .. Dist(r, w) : Slot(r, j) \in Index
    BY DistFacts
  <2>3. \A j \in 2 .. Dist(r, w) : Slot(r, j) # r
    BY DistFacts
  <2> QED BY <2>1, <2>2, <2>3
<1>6. /\ u \in Seq(Cell) /\ Len(u) = Dist(r, w) /\ u[1] = key
      /\ \A j \in 2 .. Dist(r, w) : u[j] = s[j]
  <2>1. s \in Seq(Cell) /\ Len(s) > 0 /\ Len(s) = Dist(r, w)
    BY <1>3
  <2> QED BY <1>2, <1>5, <2>1
<1>7. ASSUME NEW j \in 1 .. Len(t) PROVE t[j] = u[j]
  <2>1. CASE j = 1
    BY <1>1, <1>4, <1>5, <1>6, <2>1
  <2>2. CASE j # 1
    <3>1. j \in 2 .. Dist(r, w) /\ j \in 1 .. Dist(r, w)
      BY <1>4, <1>5, <2>2
    <3>2. t[j] = b2[Slot(r, j)] /\ u[j] = buf[Slot(r, j)]
      BY <1>3, <1>4, <1>6, <3>1
    <3> QED BY <1>1, <1>5, <3>1, <3>2
  <2> QED BY <2>1, <2>2
<1>8. t = u
  <2>1. t \in Seq(Cell) /\ u \in Seq(Cell) /\ Len(t) = Len(u)
    BY <1>4, <1>6
  <2> QED BY <1>7, <2>1, SeqEqual
<1> QED BY <1>1, <1>2, <1>8

-----------------------------------------------------------------------------
(***************************************************************************)
(* The refinement mapping in terms of Ring.                                *)
(***************************************************************************)
FromOf(b, w, i) == [j \in 1 .. (w - i) % BUFSZ |-> b[(i + j - 1) % BUFSZ]]
ContentsOf(b, r, w, x, putting) ==
    IF ~putting THEN FromOf(b, w, r)
    ELSE <<x>> \o Tail(FromOf(b, w, IF r % BUFSZ = w THEN r + 1 ELSE r))

Norm(r) == IF r = -1 THEN BUFSZ - 1 ELSE r
View(b, n, w, x, putting) ==
    IF ~putting THEN Ring(b, n, w)
    ELSE <<x>> \o Tail(Ring(b, IF n = w THEN Nx(n) ELSE n, w))

LEMMA FromIs ==
    ASSUME NEW b, NEW w \in Index, NEW i \in -1 .. BUFSZ, NEW n \in Index,
           i = n \/ i = n - BUFSZ \/ i = n + BUFSZ
    PROVE  FromOf(b, w, i) = Ring(b, n, w)
<1>1. PICK B \in Nat \ {0, 1} : B = BUFSZ
  BY Around
<1>2. /\ \A x \in 0 .. B - 1 : x % B = x
      /\ \A x \in B .. 2 * B - 1 : x % B = x - B
      /\ \A x \in -B .. -1 : x % B = x + B
  BY ModFacts
<1>3. (w - i) % BUFSZ = Dist(n, w)
  BY <1>1, <1>2 DEF Index, Dist
<1>4. ASSUME NEW j \in 1 .. Dist(n, w) PROVE (i + j - 1) % BUFSZ = Slot(n, j)
  <2>1. j \in 1 .. B - 1
    BY <1>1, DistFacts
  <2>2. i + j - 1 \in -B .. 2 * B - 1
    BY <1>1, <2>1
  <2> QED BY <1>1, <1>2, <2>1, <2>2 DEF Index, Slot
<1> QED BY <1>3, <1>4, Zenon DEF FromOf, Ring

LEMMA ViewIs ==
    ASSUME NEW b, NEW r \in -1 .. BUFSZ - 1, NEW w \in Index, NEW x, NEW putting
    PROVE  /\ Norm(r) \in Index
           /\ (w - r) % BUFSZ = Dist(Norm(r), w)
           /\ ContentsOf(b, r, w, x, putting) = View(b, Norm(r), w, x, putting)
<1>1. BUFSZ \in Nat \ {0, 1}
  BY Around
<1>2. PICK n \in Index : n = Norm(r)
  BY <1>1 DEF Norm, Index
<1>3. r \in -1 .. BUFSZ /\ (r = n \/ r = n - BUFSZ \/ r = n + BUFSZ)
  BY <1>1, <1>2 DEF Norm
<1>4. FromOf(b, w, r) = Ring(b, n, w)
  BY <1>3, FromIs
<1>5. r % BUFSZ = n
  BY <1>1, <1>2, ModFacts DEF Norm
<1>6. FromOf(b, w, r + 1) = Ring(b, Nx(n), w)
  <2>1. r + 1 \in -1 .. BUFSZ /\ Nx(n) \in Index
    BY <1>1, Around
  <2>2. r + 1 = Nx(n) \/ r + 1 = Nx(n) - BUFSZ \/ r + 1 = Nx(n) + BUFSZ
    BY <1>1, <1>2 DEF Norm, Nx
  <2> QED BY <2>1, <2>2, FromIs
<1>7. (w - r) % BUFSZ = Dist(n, w)
  <2>1. PICK B \in Nat \ {0, 1} : B = BUFSZ
    BY <1>1
  <2>2. /\ \A y \in 0 .. B - 1 : y % B = y
        /\ \A y \in B .. 2 * B - 1 : y % B = y - B
        /\ \A y \in -B .. -1 : y % B = y + B
    BY ModFacts
  <2> QED BY <1>2, <1>3, <2>1, <2>2 DEF Dist, Index
<1>8. ContentsOf(b, r, w, x, putting) = View(b, n, w, x, putting)
  BY <1>4, <1>5, <1>6 DEF ContentsOf, View
<1> QED BY <1>2, <1>7, <1>8

LEMMA ContentsFacts ==
    /\ Contents = ContentsOf(buffer, buf_ridx, buf_widx, res, PuttingBack)
    /\ Contents' = ContentsOf(buffer', buf_ridx', buf_widx', res', PuttingBack')
    /\ Unread = (buf_widx - buf_ridx) % BUFSZ
  BY DEF Contents, ContentsOf, From, FromOf, Unread

-----------------------------------------------------------------------------
(***************************************************************************)
(* The invariant of the ring and the main program, when an interrupt comes *)
(* only while there is room (Preempt = "room").  n is the read end as an   *)
(* index, u how many keys lie between the two ends.                        *)
(***************************************************************************)
Labels == {"idle", "g_cmp_r", "g_cmp_w", "g_idx", "g_elem", "g_adv", "g_store", "sti", "hlt",
           "halt", "p_dec", "p_dec_store", "p_wrap", "p_wrap_store", "p_cmp_r", "p_cmp_w",
           "p_adv", "p_adv_store", "p_idx", "p_elem"}
Loaded == {"g_cmp_w", "g_elem", "g_store", "p_dec_store", "p_wrap_store", "p_cmp_w",
           "p_adv_store", "p_elem"}

RingType ==
    /\ buffer \in Buffer /\ buf_ridx \in -1 .. BUFSZ - 1 /\ buf_widx \in Index
    /\ tmp \in -1 .. BUFSZ - 1 /\ res \in Cell /\ got \in Cell
    /\ owed \in 0 .. BUFSZ - 1 /\ pc \in Labels
MainType == waiting \in BOOLEAN /\ intr_flag \in {0, 1}

\* what the main program has in its registers
Registers ==
    /\ buf_ridx = -1 <=> pc \in {"p_wrap", "p_wrap_store"}
    /\ pc \in Loaded => tmp = buf_ridx
    /\ pc \in {"g_adv", "g_store"} => res = buffer[buf_ridx]
    /\ pc \in {"p_dec", "p_dec_store"} \/ PuttingBack => res \in Keys
\* how many keys there are, for the history variable
Amount(u) ==
    /\ ~PuttingBack => u = owed
    /\ pc \in {"g_idx", "g_elem", "g_adv", "g_store"} => owed > 0
    /\ pc \in {"p_wrap", "p_wrap_store", "p_cmp_r", "p_cmp_w"} =>
          \/ owed < BUFSZ - 1 /\ u = owed + 1
          \/ owed = BUFSZ - 1 /\ u = 0
    /\ pc \in {"p_adv", "p_adv_store"} => owed = BUFSZ - 1 /\ u = 0
    /\ pc \in {"p_idx", "p_elem"} =>
          \/ owed < BUFSZ - 1 /\ u = owed + 1
          \/ owed = BUFSZ - 1 /\ u = BUFSZ - 1
\* only keys are in the ring
OnlyKeys(s) == s \in Seq(Keys)

RingInv ==
    /\ RingType /\ MainType /\ Registers
    /\ Amount(Dist(Norm(buf_ridx), buf_widx))
    /\ OnlyKeys(Contents)

\* the contents as a view of the ring, before and after a step
LEMMA Views ==
    /\ RingType => /\ Norm(buf_ridx) \in Index
                   /\ Unread = Dist(Norm(buf_ridx), buf_widx)
                   /\ Contents = View(buffer, Norm(buf_ridx), buf_widx, res, PuttingBack)
    /\ RingType' => /\ Norm(buf_ridx') \in Index
                    /\ Contents' = View(buffer', Norm(buf_ridx'), buf_widx', res', PuttingBack')
<1>1. ASSUME RingType
      PROVE  /\ Norm(buf_ridx) \in Index
             /\ Unread = Dist(Norm(buf_ridx), buf_widx)
             /\ Contents = View(buffer, Norm(buf_ridx), buf_widx, res, PuttingBack)
  <2>1. PICK b, r, w, x, p : b = buffer /\ r = buf_ridx /\ w = buf_widx /\ x = res /\ p = PuttingBack
    OBVIOUS
  <2>2. r \in -1 .. BUFSZ - 1 /\ w \in Index
    BY <1>1, <2>1 DEF RingType
  <2>3. Norm(r) \in Index /\ (w - r) % BUFSZ = Dist(Norm(r), w)
        /\ ContentsOf(b, r, w, x, p) = View(b, Norm(r), w, x, p)
    BY <2>2, ViewIs
  <2> QED BY <2>1, <2>3, ContentsFacts
<1>2. ASSUME RingType'
      PROVE  /\ Norm(buf_ridx') \in Index
             /\ Contents' = View(buffer', Norm(buf_ridx'), buf_widx', res', PuttingBack')
  <2>1. PICK b, r, w, x, p :
            b = buffer' /\ r = buf_ridx' /\ w = buf_widx' /\ x = res' /\ p = PuttingBack'
    OBVIOUS
  <2>2. r \in -1 .. BUFSZ - 1 /\ w \in Index
    BY <1>2, <2>1 DEF RingType, Index
  <2>3. Norm(r) \in Index /\ ContentsOf(b, r, w, x, p) = View(b, Norm(r), w, x, p)
    BY <2>2, ViewIs
  <2> QED BY <2>1, <2>3, ContentsFacts
<1> QED BY <1>1, <1>2

\* the queue p starts with x, and q is the rest
Front(x, p, q) == p # << >> /\ Head(p) = x /\ q = Tail(p)

\* kb_getkey takes the first key
LEMMA ViewGet ==
    ASSUME NEW b \in Buffer, NEW n \in Index, NEW w \in Index, NEW x, NEW y
    PROVE  /\ n = w => View(b, n, w, x, FALSE) = << >>
           /\ n # w => Front(b[n], View(b, n, w, x, FALSE), View(b, Nx(n), w, y, FALSE))
<1>1. View(b, n, w, x, FALSE) = Ring(b, n, w) /\ View(b, Nx(n), w, y, FALSE) = Ring(b, Nx(n), w)
  BY DEF View
<1>2. CASE n = w
  <2>1. PICK s : s = Ring(b, n, w)
    OBVIOUS
  <2>2. IsRing(s, b, n, w) /\ Dist(n, w) = 0
    BY <1>2, <2>1, RingFacts, DistFacts
  <2>3. s = << >>
    BY <2>2 DEF IsRing
  <2> QED BY <1>1, <1>2, <2>1, <2>3
<1>3. CASE n # w
  <2>1. Dist(n, w) > 0
    BY <1>3, DistFacts, Around
  <2>2. Ring(b, n, w) # << >> /\ Head(Ring(b, n, w)) = b[n] /\ Ring(b, Nx(n), w) = Tail(Ring(b, n, w))
    BY <2>1, RingTail
  <2> QED BY <1>1, <1>3, <2>2 DEF Front
<1> QED BY <1>2, <1>3

\* v is the queue q, which has d keys, with x put back
IsPut(v, x, q, d) ==
    /\ q \in Seq(Cell) /\ Len(q) = d
    /\ v = IF d < BUFSZ - 1 THEN <<x>> \o q ELSE <<x>> \o Tail(q)

\* kb_putback moves the read end: the key is in front of the others, or of all but the oldest
LEMMA ViewPut ==
    ASSUME NEW b \in Buffer, NEW n \in Index, NEW w \in Index, NEW x, NEW y, NEW q,
           q = View(b, n, w, y, FALSE)
    PROVE  IsPut(View(b, Pv(n), w, x, TRUE), x, q, Dist(n, w))
<1>1. q = Ring(b, n, w)
  BY DEF View
<1>2. q \in Seq(Cell) /\ Len(q) = Dist(n, w)
  BY <1>1, RingFacts, ZenonT(60) DEF IsRing
<1>3. Pv(n) \in Index /\ Nx(Pv(n)) = n /\ BUFSZ \in Nat \ {0, 1} /\ Nx(w) \in Index
  BY Around
<1>4. CASE Dist(n, w) < BUFSZ - 1
  <2>1. Dist(Pv(n), w) = Dist(n, w) + 1 /\ Dist(n, w) \in Nat
    BY <1>3, <1>4, DistFacts
  <2>2. Dist(Pv(n), w) > 0
    BY <2>1
  <2>3. Pv(n) # w
    BY <1>3, <2>2, DistFacts
  <2>4. Ring(b, n, w) = Tail(Ring(b, Pv(n), w))
    BY <1>3, <2>2, RingTail
  <2> QED BY <1>1, <1>2, <1>4, <2>3, <2>4 DEF View, IsPut
<1>5. CASE ~(Dist(n, w) < BUFSZ - 1)
  <2>1. n = Nx(w)
    BY <1>3, <1>5, DistFacts
  <2>2. Pv(n) = w
    BY <1>3, <2>1 DEF Nx, Pv, Index
  <2> QED BY <1>1, <1>2, <1>3, <1>5, <2>2 DEF View, IsPut
<1> QED BY <1>4, <1>5

\* kb_putback finds the buffer full and advances the read end again
LEMMA ViewAdvance ==
    ASSUME NEW b, NEW w \in Index, NEW x
    PROVE  View(b, Nx(w), w, x, TRUE) = View(b, w, w, x, TRUE)
  BY Around DEF View

\* kb_putback stores the key
LEMMA ViewStored ==
    ASSUME NEW b \in Buffer, NEW n \in Index, NEW w \in Index, n # w, NEW x \in Cell,
           NEW b2, Stored(b2, b, n, x)
    PROVE  b2 \in Buffer /\ View(b2, n, w, x, FALSE) = View(b, n, w, x, TRUE)
<1>1. Dist(n, w) > 0
  BY DistFacts, Around
<1>2. b2 \in Buffer /\ Ring(b2, n, w) = <<x>> \o Tail(Ring(b, n, w))
  BY <1>1, RingFirst
<1> QED BY <1>2 DEF View

\* a keypress while there is room
LEMMA ViewPress ==
    ASSUME NEW b \in Buffer, NEW n \in Index, NEW w \in Index, NEW x \in Cell, NEW p \in BOOLEAN,
           NEW key \in Cell, Dist(n, w) < BUFSZ - 1, p => n # w,
           NEW b2, Written(b2, b, w, key), NEW q, q = View(b, n, w, x, p)
    PROVE  /\ b2 \in Buffer /\ q \in Seq(Cell) /\ Len(q) = Dist(n, w)
           /\ View(b2, n, Nx(w), x, p) = Append(q, key)
<1>1. PICK s, t : s = Ring(b, n, w) /\ t = Ring(b2, n, Nx(w))
  OBVIOUS
<1>2. b2 \in Buffer /\ t = Append(s, key)
  <2>1. b2 \in Buffer /\ Ring(b2, n, Nx(w)) = Append(Ring(b, n, w), key)
    BY RingAppend
  <2> QED BY <1>1, <2>1
<1>3. s \in Seq(Cell) /\ Len(s) = Dist(n, w)
  BY <1>1, RingFacts DEF IsRing
<1>4. CASE ~p
  <2>1. q = s /\ View(b2, n, Nx(w), x, p) = t
    BY <1>1, <1>4 DEF View
  <2> QED BY <1>2, <1>3, <2>1
<1>5. CASE p
  <2>1. n # w /\ n # Nx(w) /\ Dist(n, w) > 0 /\ Dist(n, w) \in Nat
    <3>1. n # w /\ BUFSZ \in Nat \ {0, 1}
      BY <1>5, Around
    <3>2. Dist(n, w) \in 0 .. BUFSZ - 1 /\ Dist(n, w) # 0 /\ n # Nx(w)
      BY <3>1, DistFacts
    <3> QED BY <3>1, <3>2
  <2>2. q = <<x>> \o Tail(s) /\ View(b2, n, Nx(w), x, p) = <<x>> \o Tail(t)
    BY <1>1, <1>5, <2>1 DEF View
  <2>3. s # << >> /\ Tail(t) = Append(Tail(s), key)
    BY <1>2, <1>3, <2>1
  <2>4. Tail(s) \in Seq(Cell) /\ Len(Tail(s)) = Dist(n, w) - 1
    BY <1>3, <2>1
  <2>5. <<x>> \o Append(Tail(s), key) = Append(<<x>> \o Tail(s), key)
    BY <2>4
  <2>6. q \in Seq(Cell) /\ Len(q) = Dist(n, w)
    BY <2>1, <2>2, <2>4
  <2> QED BY <1>2, <2>2, <2>3, <2>5, <2>6
<1> QED BY <1>4, <1>5

\* v is the full queue q with its first key gone and one more at its end
IsOvertaken(v, q, key) == q \in Seq(Cell) /\ Len(q) = BUFSZ - 1 /\ v = Append(Tail(q), key)

\* a keypress into the full buffer
LEMMA ViewOvertake ==
    ASSUME NEW b \in Buffer, NEW n \in Index, NEW w \in Index, NEW x,
           NEW key \in Cell, n = Nx(w), NEW b2, Written(b2, b, w, key)
    PROVE  IsOvertaken(View(b2, Nx(n), Nx(w), x, FALSE), View(b, n, w, x, FALSE), key)
<1>0. PICK q : q = View(b, n, w, x, FALSE)
  OBVIOUS
<1>1. q = Ring(b, n, w) /\ View(b2, Nx(n), Nx(w), x, FALSE) = Ring(b2, Nx(n), Nx(w))
  BY <1>0 DEF View
<1>2. BUFSZ \in Nat \ {0, 1} /\ Nx(n) \in Index
  BY Around
<1>3. Dist(n, w) = BUFSZ - 1
  BY DistFacts
<1>4. Dist(n, w) > 0
  BY <1>2, <1>3
<1>5. Dist(Nx(n), w) = Dist(n, w) - 1
  BY <1>4, DistFacts
<1>6. Dist(Nx(n), w) < BUFSZ - 1
  BY <1>2, <1>3, <1>5
<1>7. Ring(b, Nx(n), w) = Tail(q)
  BY <1>1, <1>4, RingTail
<1>8. b2 \in Buffer /\ Ring(b2, Nx(n), Nx(w)) = Append(Ring(b, Nx(n), w), key)
  BY <1>2, <1>6, RingAppend
<1>9. q \in Seq(Cell) /\ Len(q) = BUFSZ - 1
  BY <1>1, <1>3, RingFacts DEF IsRing
<1> QED BY <1>0, <1>1, <1>7, <1>8, <1>9 DEF IsOvertaken

-----------------------------------------------------------------------------
(***************************************************************************)
(* The steps.  Each keeps the invariant and is a step of KeyQueue, or      *)
(* leaves the queue alone.                                                 *)
(***************************************************************************)
QueueStep == Queue!Next \/ (Contents' = Contents /\ got' = got)

Distance == Dist(Norm(buf_ridx), buf_widx)

LEMMA RingOpened ==
    ASSUME RingInv
    PROVE  /\ Distance \in 0 .. BUFSZ - 1 /\ Amount(Distance)
           /\ Distance = 0 <=> Norm(buf_ridx) = buf_widx
           /\ Norm(buf_ridx) \in Index /\ buf_widx \in Index
           /\ buf_ridx # -1 => Norm(buf_ridx) = buf_ridx /\ buf_ridx \in Index
           /\ BUFSZ \in Nat \ {0, 1}
           /\ Unread = Distance
<1>1. RingType /\ BUFSZ \in Nat \ {0, 1}
  BY Around DEF RingInv
<1>2. Norm(buf_ridx) \in Index /\ buf_widx \in Index /\ Unread = Distance
  BY <1>1, Views DEF RingType, Distance
<1>3. Distance \in 0 .. BUFSZ - 1 /\ (Distance = 0 <=> Norm(buf_ridx) = buf_widx)
  BY <1>2, DistFacts DEF Distance
<1>4. buf_ridx # -1 => Norm(buf_ridx) = buf_ridx /\ buf_ridx \in Index
  BY <1>1 DEF Norm, RingType, Index
<1> QED BY <1>1, <1>2, <1>3, <1>4 DEF RingInv, Distance

\* a step that leaves the ring alone
LEMMA QuietStep ==
    ASSUME RingInv, RingType', MainType', Registers',
           UNCHANGED <<buffer, buf_ridx, buf_widx>>, PuttingBack' <=> PuttingBack,
           PuttingBack => res' = res, NEW u, u = Distance, Amount(u)'
    PROVE  RingInv' /\ Contents' = Contents
<1>1. RingType
  BY DEF RingInv
<1>2. Contents' = Contents
  BY <1>1, Views DEF View
<1>3. Distance' = u
  BY DEF Distance
<1> QED BY <1>2, <1>3 DEF RingInv, OnlyKeys, Distance

LEMMA LoadSteps ==
    ASSUME RingInv,
           \/ getkey_cmp_ridx \/ getkey_index \/ getkey_adv_load \/ putback_dec_load
           \/ putback_wrap_load \/ putback_cmp_ridx \/ putback_adv_load \/ putback_index
    PROVE  RingInv' /\ QueueStep
<1>1. PICK from, to :
        /\ pc = from /\ pc' = to /\ tmp' = buf_ridx
        /\ UNCHANGED <<buffer, buf_ridx, buf_widx, owed, waiting, res, got, intr_flag>>
        /\ <<from, to>> \in {<<"g_cmp_r", "g_cmp_w">>, <<"g_idx", "g_elem">>, <<"g_adv", "g_store">>,
              <<"p_dec", "p_dec_store">>, <<"p_wrap", "p_wrap_store">>, <<"p_cmp_r", "p_cmp_w">>,
              <<"p_adv", "p_adv_store">>, <<"p_idx", "p_elem">>}
  BY DEF getkey_cmp_ridx, getkey_index, getkey_adv_load, putback_dec_load,
     putback_wrap_load, putback_cmp_ridx, putback_adv_load, putback_index, LoadRidx, At, Env, ring
<1>2. RingType /\ MainType /\ Registers /\ Amount(Distance)
  BY DEF RingInv, Distance
<1>3. RingType'
  BY <1>1, <1>2 DEF RingType, Labels, Buffer, Cell
<1>4. MainType'
  BY <1>1, <1>2 DEF MainType
<1>5. (PuttingBack' <=> PuttingBack) /\ Registers'
  BY <1>1, <1>2 DEF Registers, PuttingBack, Loaded
<1>6. PICK u : u = Distance
  OBVIOUS
<1>7. Amount(u)'
  BY <1>1, <1>2, <1>6 DEF Amount, PuttingBack
<1>8. RingInv' /\ Contents' = Contents
  BY <1>1, <1>3, <1>4, <1>5, <1>6, <1>7, QuietStep
<1> QED BY <1>1, <1>8 DEF QueueStep

LEMMA OtherQuietSteps ==
    ASSUME RingInv,
           \/ getkey_elem \/ wait_sleep \/ halt_cpu \/ putback_cmp_widx
           \/ call_getkey \/ call_wait \/ \E key \in Putbacks : call_putback(key)
    PROVE  RingInv' /\ QueueStep
<1>1. RingType /\ MainType /\ Registers /\ Amount(Distance)
  BY DEF RingInv, Distance
<1>2. PICK u : u = Distance
  OBVIOUS
<1>3. /\ Unread = u /\ u \in 0 .. BUFSZ - 1 /\ BUFSZ \in Nat \ {0, 1}
      /\ u = 0 <=> Norm(buf_ridx) = buf_widx
      /\ buf_ridx # -1 => Norm(buf_ridx) = buf_ridx /\ buf_ridx \in Index
  BY <1>2, RingOpened
<1>4. /\ UNCHANGED <<buffer, buf_ridx, buf_widx, got>>
      /\ PuttingBack' <=> PuttingBack
      /\ PuttingBack => res' = res
      /\ RingType' /\ MainType' /\ Registers' /\ Amount(u)'
  <2>1. CASE getkey_elem
    <3>1. /\ UNCHANGED <<buffer, buf_ridx, buf_widx, owed, tmp, waiting, got, intr_flag>>
          /\ pc = "g_elem" /\ pc' = "g_adv" /\ res' = buffer[buf_ridx] /\ buf_ridx \in Index
      BY <1>1, <1>3, <2>1 DEF getkey_elem, At, Env, ring, Registers, Loaded
    <3>2. RingType' /\ MainType'
      BY <1>1, <3>1 DEF RingType, MainType, Labels, Buffer, Cell
    <3>3. Registers' /\ Amount(u)' /\ (PuttingBack' <=> PuttingBack) /\ ~PuttingBack
      BY <1>1, <1>2, <3>1 DEF Registers, Amount, PuttingBack, Loaded
    <3> QED BY <3>1, <3>2, <3>3
  <2>2. CASE wait_sleep \/ halt_cpu
    <3>1. /\ UNCHANGED <<buffer, buf_ridx, buf_widx, owed, tmp, res, waiting, got>>
          /\ pc \in {"sti", "hlt"} /\ pc' \in {"hlt", "halt"} /\ (intr_flag' = 1 \/ intr_flag' = intr_flag)
      BY <2>2 DEF wait_sleep, halt_cpu, enable_intr, At, Env, ring
    <3>2. RingType' /\ MainType'
      BY <1>1, <3>1 DEF RingType, MainType, Labels, Buffer, Cell
    <3>3. Registers' /\ Amount(u)' /\ (PuttingBack' <=> PuttingBack) /\ ~PuttingBack
      BY <1>1, <1>2, <3>1 DEF Registers, Amount, PuttingBack, Loaded
    <3> QED BY <3>1, <3>2, <3>3
  <2>3. CASE putback_cmp_widx
    <3>1. /\ UNCHANGED <<buffer, buf_ridx, buf_widx, owed, tmp, res, waiting, got, intr_flag>>
          /\ pc = "p_cmp_w" /\ tmp = buf_ridx /\ buf_ridx # -1
          /\ pc' = IF tmp = buf_widx THEN "p_adv" ELSE "p_idx"
      BY <1>1, <2>3 DEF putback_cmp_widx, At, Env, ring, Registers, Loaded
    <3>2. RingType' /\ MainType'
      BY <1>1, <3>1 DEF RingType, MainType, Labels, Buffer, Cell
    <3>3. Registers' /\ (PuttingBack' <=> PuttingBack)
      BY <1>1, <3>1 DEF Registers, PuttingBack, Loaded
    <3>4. Amount(u)'
      <4>1. u = 0 <=> tmp = buf_widx
        BY <1>3, <3>1
      <4>2. \/ owed < BUFSZ - 1 /\ u = owed + 1
            \/ owed = BUFSZ - 1 /\ u = 0
        BY <1>1, <1>2, <3>1 DEF Amount
      <4>3. owed \in Nat
        BY <1>1, <1>3 DEF RingType
      <4> QED BY <3>1, <4>1, <4>2, <4>3 DEF Amount, PuttingBack
    <3> QED BY <3>1, <3>2, <3>3, <3>4
  <2>4. CASE call_getkey \/ call_wait \/ \E key \in Putbacks : call_putback(key)
    <3>1. /\ UNCHANGED <<buffer, buf_ridx, buf_widx, tmp, got, intr_flag>>
          /\ pc = "idle" /\ waiting' \in BOOLEAN /\ owed' = u
          /\ \/ pc' = "g_cmp_r" /\ res' = res
             \/ pc' = "p_dec" /\ res' \in Keys
      BY <1>3, <2>4, KeyboardAssumption DEF call_getkey, call_wait, call_putback, At, Env
    <3>2. RingType' /\ MainType'
      BY <1>1, <1>3, <3>1 DEF RingType, MainType, Labels, Buffer, Cell
    <3>3. Registers' /\ Amount(u)' /\ (PuttingBack' <=> PuttingBack) /\ ~PuttingBack
      BY <1>1, <1>2, <3>1 DEF Registers, Amount, PuttingBack, Loaded
    <3> QED BY <3>1, <3>2, <3>3
  <2> QED BY <2>1, <2>2, <2>3, <2>4
<1>5. RingInv' /\ Contents' = Contents
  BY <1>2, <1>4, QuietStep
<1> QED BY <1>4, <1>5 DEF QueueStep

\* an interrupt that puts no key into the buffer, the user, and steps of nothing here
LEMMA IrqQuietSteps ==
    ASSUME RingInv, UNCHANGED <<buffer, buf_ridx, buf_widx, owed, tmp, res, waiting, got, intr_flag>>,
           Wake \/ pc' = pc
    PROVE  RingInv' /\ QueueStep
<1>1. RingType /\ MainType /\ Registers /\ Amount(Distance)
  BY DEF RingInv, Distance
<1>2. PICK u : u = Distance
  OBVIOUS
<1>3. pc' = pc \/ (pc = "halt" /\ pc' = "g_cmp_r")
  BY DEF Wake
<1>4. RingType' /\ MainType'
  BY <1>1, <1>3 DEF RingType, MainType, Labels, Buffer, Cell
<1>5. Registers' /\ Amount(u)' /\ (PuttingBack' <=> PuttingBack)
  BY <1>1, <1>2, <1>3 DEF Registers, Amount, PuttingBack, Loaded
<1>6. RingInv' /\ Contents' = Contents
  BY <1>2, <1>4, <1>5, QuietStep
<1> QED BY <1>6 DEF QueueStep

\* the contents while nothing is being put back
LEMMA PlainView ==
    ASSUME RingInv, ~PuttingBack
    PROVE  /\ buf_ridx \in Index /\ Norm(buf_ridx) = buf_ridx /\ Distance = Dist(buf_ridx, buf_widx)
           /\ Contents = View(buffer, buf_ridx, buf_widx, res, FALSE)
<1>1. RingType /\ Registers
  BY DEF RingInv
<1>2. buf_ridx # -1
  BY <1>1 DEF Registers, PuttingBack
<1>3. buf_ridx \in Index /\ Norm(buf_ridx) = buf_ridx
  BY <1>2, RingOpened
<1>4. Contents = View(buffer, buf_ridx, buf_widx, res, PuttingBack)
  BY <1>1, <1>3, Views
<1> QED BY <1>3, <1>4 DEF View, Distance

LEMMA PlainViewNext ==
    ASSUME RingType', ~PuttingBack', buf_ridx' \in Index
    PROVE  /\ Norm(buf_ridx') = buf_ridx' /\ Distance' = Dist(buf_ridx', buf_widx')
           /\ Contents' = View(buffer', buf_ridx', buf_widx', res', FALSE)
<1>1. Norm(buf_ridx') = buf_ridx'
  BY Around DEF Norm, Index
<1>2. Contents' = View(buffer', buf_ridx', buf_widx', res', PuttingBack')
  BY <1>1, Views
<1> QED BY <1>1, <1>2 DEF View, Distance

LEMMA GetkeyLooks ==
    ASSUME RingInv, getkey_cmp_widx
    PROVE  RingInv' /\ QueueStep
<1>1. RingType /\ MainType /\ Registers /\ Amount(Distance)
  BY DEF RingInv, Distance
<1>2. PICK u : u = Distance
  OBVIOUS
<1>3. /\ UNCHANGED <<buffer, buf_ridx, buf_widx, owed, tmp, res, waiting, intr_flag>>
      /\ pc = "g_cmp_w" /\ tmp = buf_ridx
      /\ \/ buf_ridx = buf_widx /\ got' = NoKey /\ pc' \in {"sti", "idle"}
         \/ buf_ridx # buf_widx /\ got' = got /\ pc' = "g_idx"
  BY <1>1 DEF getkey_cmp_widx, At, Env, ring, Registers, Loaded
<1>4. ~PuttingBack /\ ~PuttingBack' /\ Registers'
  BY <1>1, <1>3 DEF Registers, PuttingBack, Loaded
<1>5. RingType' /\ MainType'
  BY <1>1, <1>3 DEF RingType, MainType, Labels, Buffer, Cell
<1>6. /\ buf_ridx \in Index /\ Contents = View(buffer, buf_ridx, buf_widx, res, FALSE)
      /\ u \in 0 .. BUFSZ - 1 /\ (u = 0 <=> buf_ridx = buf_widx) /\ BUFSZ \in Nat \ {0, 1}
  BY <1>2, <1>4, PlainView, RingOpened
<1>7. Amount(u)'
  <2>1. u = owed /\ owed' = owed
    BY <1>1, <1>2, <1>3, <1>4 DEF Amount
  <2> QED BY <1>3, <1>4, <1>6, <2>1 DEF Amount
<1>8. RingInv' /\ Contents' = Contents
  BY <1>2, <1>3, <1>4, <1>5, <1>7, QuietStep
<1>9. CASE buf_ridx = buf_widx
  <2>1. buffer \in Buffer /\ buf_widx \in Index
    BY <1>1 DEF RingType
  <2>2. Contents = << >>
    BY <1>6, <1>9, <2>1, ViewGet
  <2> QED BY <1>3, <1>8, <1>9, <2>2 DEF QueueStep, Queue!Next, Queue!GetKey
<1>10. CASE buf_ridx # buf_widx
  BY <1>3, <1>8, <1>10 DEF QueueStep
<1> QED BY <1>9, <1>10

LEMMA GetkeyTakes ==
    ASSUME RingInv, getkey_adv_store
    PROVE  RingInv' /\ QueueStep
<1>1. RingType /\ MainType /\ Registers /\ Amount(Distance) /\ OnlyKeys(Contents)
  BY DEF RingInv, Distance
<1>2. /\ UNCHANGED <<buffer, buf_widx, tmp, res, waiting, intr_flag>>
      /\ pc = "g_store" /\ tmp = buf_ridx /\ buf_ridx' = Succ(buf_ridx)
      /\ pc' \in {"p_dec", "idle"} /\ (pc' = "p_dec" => waiting)
      /\ got' = res /\ owed' = owed - 1 /\ res = buffer[buf_ridx]
  BY <1>1 DEF getkey_adv_store, StoreRidx, At, Env, Registers, Loaded
<1>3. ~PuttingBack /\ ~PuttingBack'
  BY <1>2 DEF PuttingBack
<1>4. /\ buf_ridx \in Index /\ Contents = View(buffer, buf_ridx, buf_widx, res, FALSE)
      /\ Distance = Dist(buf_ridx, buf_widx)
  BY <1>3, PlainView
<1>5. /\ BUFSZ \in Nat \ {0, 1} /\ buf_widx \in Index /\ buffer \in Buffer
      /\ Distance \in 0 .. BUFSZ - 1 /\ Distance = owed /\ owed > 0
  BY <1>1, <1>2, <1>3, RingOpened DEF Amount, RingType
<1>0. PICK b \in Buffer, n \in Index, w \in Index :
        b = buffer /\ n = buf_ridx /\ w = buf_widx
  BY <1>4, <1>5
<1>6. buf_ridx' = Nx(n) /\ buf_ridx' \in Index /\ n # w /\ Dist(n, w) > 0
      /\ Dist(Nx(n), w) = Dist(n, w) - 1
  <2>1. Dist(n, w) > 0
    BY <1>0, <1>4, <1>5
  <2>2. Succ(n) = Nx(n) /\ Nx(n) \in Index
    BY Around
  <2>3. Dist(Nx(n), w) = Dist(n, w) - 1 /\ (n = w => Dist(n, w) = 0)
    BY <2>1, DistFacts
  <2> QED BY <1>0, <1>2, <2>1, <2>2, <2>3
<1>7. /\ Contents # << >> /\ Head(Contents) = res
      /\ View(buffer, Nx(buf_ridx), buf_widx, res, FALSE) = Tail(Contents)
  <2>1. PICK x, q : x = res /\ q = Contents
    OBVIOUS
  <2>2. Front(b[n], View(b, n, w, x, FALSE), View(b, Nx(n), w, x, FALSE))
    BY <1>6, ViewGet
  <2>3. q = View(b, n, w, x, FALSE) /\ res = b[n]
    BY <1>0, <1>2, <1>4, <2>1
  <2>4. q # << >> /\ Head(q) = res /\ View(b, Nx(n), w, x, FALSE) = Tail(q)
    BY <2>2, <2>3 DEF Front
  <2> QED BY <1>0, <2>1, <2>4
<1>8. res \in Keys /\ Tail(Contents) \in Seq(Keys)
  <2>1. Contents \in Seq(Keys)
    BY <1>1 DEF OnlyKeys
  <2> QED BY <1>7, <2>1
<1>9. RingType' /\ MainType'
  <2>1. owed' \in 0 .. BUFSZ - 1 /\ buf_ridx' \in -1 .. BUFSZ - 1
    BY <1>2, <1>5, <1>6 DEF Index
  <2> QED BY <1>1, <1>2, <2>1 DEF RingType, MainType, Labels, Buffer, Cell
<1>10. Contents' = Tail(Contents) /\ Distance' = Dist(buf_ridx', buf_widx')
  BY <1>0, <1>2, <1>3, <1>6, <1>7, <1>9, PlainViewNext
<1>11. PICK v : v = Distance' /\ v = owed'
  BY <1>0, <1>2, <1>4, <1>5, <1>6, <1>10
<1>12. Registers' /\ Amount(v)'
  <2>1. buf_ridx' # -1
    BY <1>5, <1>6 DEF Index
  <2>2. Registers'
    BY <1>2, <1>3, <1>8, <2>1 DEF Registers, Loaded
  <2> QED BY <1>2, <1>3, <1>11, <2>2 DEF Amount
<1>13. RingInv'
  BY <1>8, <1>9, <1>10, <1>11, <1>12 DEF RingInv, OnlyKeys, Distance
<1> QED BY <1>2, <1>7, <1>10, <1>13 DEF QueueStep, Queue!Next, Queue!GetKey

\* the contents while a key is being put back
LEMMA PuttingView ==
    /\ RingType /\ PuttingBack => Contents = View(buffer, Norm(buf_ridx), buf_widx, res, TRUE)
    /\ RingType' /\ PuttingBack' =>
          Contents' = View(buffer', Norm(buf_ridx'), buf_widx', res', TRUE)
<1>1. ASSUME RingType, PuttingBack
      PROVE  Contents = View(buffer, Norm(buf_ridx), buf_widx, res, TRUE)
  <2>1. Contents = View(buffer, Norm(buf_ridx), buf_widx, res, PuttingBack)
    BY <1>1, Views
  <2> QED BY <1>1, <2>1 DEF View
<1>2. ASSUME RingType', PuttingBack'
      PROVE  Contents' = View(buffer', Norm(buf_ridx'), buf_widx', res', TRUE)
  <2>1. Contents' = View(buffer', Norm(buf_ridx'), buf_widx', res', PuttingBack')
    BY <1>2, Views
  <2> QED BY <1>2, <2>1 DEF View
<1> QED BY <1>1, <1>2

LEMMA PutbackMoves ==
    ASSUME RingInv, putback_dec_store
    PROVE  RingInv' /\ QueueStep
<1>1. RingType /\ MainType /\ Registers /\ Amount(Distance) /\ OnlyKeys(Contents)
  BY DEF RingInv, Distance
<1>2. /\ UNCHANGED <<buffer, buf_widx, tmp, res, waiting, got, owed, intr_flag>>
      /\ pc = "p_dec_store" /\ tmp = buf_ridx /\ buf_ridx' = buf_ridx - 1
      /\ pc' = IF buf_ridx - 1 < 0 THEN "p_wrap" ELSE "p_cmp_r"
      /\ res \in Keys
  BY <1>1 DEF putback_dec_store, StoreRidx, At, Env, Registers, Loaded
<1>3. ~PuttingBack /\ PuttingBack'
  BY <1>2 DEF PuttingBack
<1>4. /\ buf_ridx \in Index /\ Contents = View(buffer, buf_ridx, buf_widx, res, FALSE)
      /\ Distance = Dist(buf_ridx, buf_widx)
  BY <1>3, PlainView
<1>5. /\ BUFSZ \in Nat \ {0, 1} /\ buf_widx \in Index /\ buffer \in Buffer
      /\ Distance \in 0 .. BUFSZ - 1 /\ Distance = owed
  BY <1>1, <1>2, <1>3, RingOpened DEF Amount, RingType
<1>6. PICK b, n, w, q, x : /\ b = buffer /\ n = buf_ridx /\ w = buf_widx /\ q = Contents /\ x = res
                            /\ b \in Buffer /\ n \in Index /\ w \in Index /\ x \in Keys
  BY <1>2, <1>4, <1>5
<1>7. /\ Norm(buf_ridx') = Pv(n) /\ buf_ridx' \in -1 .. BUFSZ - 1
      /\ buf_ridx' = -1 <=> pc' = "p_wrap"
  BY <1>2, <1>5, <1>6 DEF Norm, Pv, Index
<1>8. RingType' /\ MainType'
  BY <1>1, <1>2, <1>7 DEF RingType, MainType, Labels, Buffer, Cell
<1>9. Contents' = View(b, Pv(n), w, x, TRUE)
  BY <1>2, <1>3, <1>6, <1>7, <1>8, PuttingView
<1>10. /\ q \in Seq(Cell) /\ Len(q) = Dist(n, w)
       /\ View(b, Pv(n), w, x, TRUE) =
             IF Dist(n, w) < BUFSZ - 1 THEN <<x>> \o q ELSE <<x>> \o Tail(q)
  <2>1. q = View(b, n, w, x, FALSE)
    BY <1>4, <1>6
  <2>2. IsPut(View(b, Pv(n), w, x, TRUE), x, q, Dist(n, w))
    BY <1>6, <2>1, ViewPut
  <2> QED BY <2>2 DEF IsPut
<1>11. PICK v : v = Distance'
  OBVIOUS
<1>12. v = Dist(Pv(n), w)
  BY <1>2, <1>6, <1>7, <1>11 DEF Distance
<1>13. /\ Dist(n, w) = owed /\ owed \in 0 .. BUFSZ - 1
       /\ \/ owed < BUFSZ - 1 /\ v = owed + 1
          \/ owed = BUFSZ - 1 /\ v = 0
  <2>1. Dist(n, w) = owed /\ owed \in 0 .. BUFSZ - 1
    BY <1>4, <1>5, <1>6
  <2>2. CASE owed < BUFSZ - 1
    BY <1>6, <1>12, <2>1, <2>2, DistFacts
  <2>3. CASE owed = BUFSZ - 1
    <3>1. n = Nx(w)
      BY <1>6, <2>1, <2>3, DistFacts
    <3>2. Pv(n) = w
      BY <1>6, <1>5, <3>1 DEF Nx, Pv, Index
    <3> QED BY <1>6, <1>12, <2>1, <2>3, <3>2, DistFacts
  <2> QED BY <1>5, <2>1, <2>2, <2>3
<1>14. Registers' /\ Amount(v)'
  <2>1. pc' \in {"p_wrap", "p_cmp_r"} /\ owed' = owed /\ res' = res
    BY <1>2
  <2>2. Registers'
    BY <1>2, <1>7, <2>1 DEF Registers, Loaded
  <2> QED BY <1>3, <1>13, <2>1, <2>2 DEF Amount
<1>15. q \in Seq(Keys) /\ Contents' \in Seq(Keys)
  <2>1. q \in Seq(Keys) /\ BUFSZ \in Nat \ {0, 1} /\ Dist(n, w) \in 0 .. BUFSZ - 1
    BY <1>1, <1>5, <1>6, <1>13 DEF OnlyKeys
  <2>2. <<x>> \o q \in Seq(Keys) /\ (Len(q) > 0 => <<x>> \o Tail(q) \in Seq(Keys))
    BY <1>6, <2>1
  <2>3. ~(Dist(n, w) < BUFSZ - 1) => Len(q) > 0
    BY <1>10, <2>1
  <2> QED BY <1>9, <1>10, <2>1, <2>2, <2>3
<1>16. RingInv'
  BY <1>8, <1>11, <1>14, <1>15 DEF RingInv, OnlyKeys, Distance
<1>17. Queue!PutBack(x)
  BY <1>2, <1>6, <1>9, <1>10 DEF Queue!PutBack
<1> QED BY <1>6, <1>16, <1>17 DEF QueueStep, Queue!Next

\* the rest of kb_putback changes nothing that is seen
LEMMA PutbackWraps ==
    ASSUME RingInv, putback_wrap_store \/ putback_adv_store
    PROVE  RingInv' /\ QueueStep
<1>1. RingType /\ MainType /\ Registers /\ Amount(Distance) /\ OnlyKeys(Contents)
  BY DEF RingInv, Distance
<1>2. /\ UNCHANGED <<buffer, buf_widx, tmp, res, waiting, got, owed, intr_flag>>
      /\ tmp = buf_ridx
      /\ \/ /\ pc = "p_wrap_store" /\ pc' = "p_cmp_r" /\ buf_ridx' = tmp + BUFSZ
         \/ /\ pc = "p_adv_store" /\ pc' = "p_idx" /\ buf_ridx' = Succ(tmp)
  BY <1>1 DEF putback_wrap_store, putback_adv_store, StoreRidx, At, Env, Registers, Loaded
<1>3. PuttingBack /\ PuttingBack'
  BY <1>2 DEF PuttingBack
<1>4. /\ BUFSZ \in Nat \ {0, 1} /\ buf_widx \in Index /\ buffer \in Buffer
      /\ Distance \in 0 .. BUFSZ - 1 /\ Norm(buf_ridx) \in Index
      /\ Distance = 0 <=> Norm(buf_ridx) = buf_widx
      /\ buf_ridx # -1 => Norm(buf_ridx) = buf_ridx
  BY <1>1, RingOpened DEF RingType
<1>5. PICK b, n, w, x, u :
        /\ b = buffer /\ n = Norm(buf_ridx) /\ w = buf_widx /\ x = res /\ u = Distance
        /\ n \in Index /\ w \in Index
  BY <1>4
<1>6. Contents = View(b, n, w, x, TRUE)
  BY <1>1, <1>3, <1>5, PuttingView
<1>7. CASE pc = "p_wrap_store"
  <2>1. buf_ridx = -1
    BY <1>1, <1>7 DEF Registers
  <2>2. Norm(buf_ridx') = n /\ buf_ridx' \in 0 .. BUFSZ - 1 /\ pc' = "p_cmp_r"
    BY <1>2, <1>4, <1>5, <1>7, <2>1 DEF Norm
  <2>3. RingType' /\ MainType'
    BY <1>1, <1>2, <2>2 DEF RingType, MainType, Labels, Buffer, Cell
  <2>4. Contents' = Contents
    BY <1>2, <1>3, <1>5, <1>6, <2>2, <2>3, PuttingView
  <2>5. Distance' = u
    BY <1>2, <1>5, <2>2 DEF Distance
  <2>6. Registers'
    BY <1>1, <1>2, <1>3, <2>2 DEF Registers, Loaded
  <2>7. Amount(u)'
    BY <1>1, <1>2, <1>5, <1>7, <2>2 DEF Amount, PuttingBack
  <2>8. RingInv'
    BY <1>1, <2>3, <2>4, <2>5, <2>6, <2>7 DEF RingInv, OnlyKeys, Distance
  <2> QED BY <1>2, <2>4, <2>8 DEF QueueStep
<1>8. CASE pc = "p_adv_store"
  <2>1. buf_ridx # -1 /\ u = 0 /\ owed = BUFSZ - 1
    BY <1>1, <1>5, <1>8 DEF Registers, Amount
  <2>2. n = w /\ n = buf_ridx /\ buf_ridx' = Nx(n) /\ Nx(n) \in Index /\ pc' = "p_idx"
    BY <1>2, <1>4, <1>5, <1>8, <2>1, Around
  <2>3. Norm(buf_ridx') = Nx(w) /\ buf_ridx' \in 0 .. BUFSZ - 1
    BY <1>4, <2>2 DEF Norm, Index
  <2>4. RingType' /\ MainType'
    BY <1>1, <1>2, <2>2, <2>3 DEF RingType, MainType, Labels, Buffer, Cell
  <2>5. Contents' = View(b, Nx(w), w, x, TRUE)
    BY <1>2, <1>3, <1>5, <2>3, <2>4, PuttingView
  <2>6. Contents' = Contents
    BY <1>5, <1>6, <2>2, <2>5, ViewAdvance
  <2>7. PICK v : v = Distance' /\ v = BUFSZ - 1
    <3>1. Nx(w) \in Index /\ Dist(Nx(w), w) = BUFSZ - 1
      BY <1>5, Around, DistFacts
    <3> QED BY <1>2, <1>5, <2>3, <3>1 DEF Distance
  <2>8. Registers'
    BY <1>1, <1>2, <1>3, <2>2, <2>3 DEF Registers, Loaded
  <2>9. Amount(v)'
    BY <1>2, <2>1, <2>2, <2>7 DEF Amount, PuttingBack
  <2>10. RingInv'
    BY <1>1, <2>4, <2>6, <2>7, <2>8, <2>9 DEF RingInv, OnlyKeys, Distance
  <2> QED BY <1>2, <2>6, <2>10 DEF QueueStep
<1> QED BY <1>2, <1>7, <1>8

LEMMA PutbackStores ==
    ASSUME RingInv, putback_elem
    PROVE  RingInv' /\ QueueStep
<1>1. RingType /\ MainType /\ Registers /\ Amount(Distance) /\ OnlyKeys(Contents)
  BY DEF RingInv, Distance
<1>2. /\ UNCHANGED <<buf_ridx, buf_widx, tmp, res, got, intr_flag>> /\ waiting' = FALSE
      /\ pc = "p_elem" /\ pc' = "idle" /\ tmp = buf_ridx /\ buf_ridx # -1
      /\ buffer' = [i \in DOMAIN buffer |-> IF i = buf_ridx THEN res ELSE buffer[i]]
      /\ owed' = IF owed < BUFSZ - 1 THEN owed + 1 ELSE owed
  BY <1>1 DEF putback_elem, At, Env, Registers, Loaded
<1>3. PuttingBack /\ ~PuttingBack'
  BY <1>2 DEF PuttingBack
<1>4. /\ BUFSZ \in Nat \ {0, 1} /\ buf_widx \in Index /\ buffer \in Buffer
      /\ Norm(buf_ridx) = buf_ridx /\ buf_ridx \in Index /\ res \in Cell
      /\ owed \in 0 .. BUFSZ - 1
      /\ Distance = 0 <=> buf_ridx = buf_widx
      /\ \/ owed < BUFSZ - 1 /\ Distance = owed + 1
         \/ owed = BUFSZ - 1 /\ Distance = BUFSZ - 1
  BY <1>1, <1>2, RingOpened DEF Amount, RingType
<1>5. PICK b, n, w, x, b2 :
        /\ b = buffer /\ n = buf_ridx /\ w = buf_widx /\ x = res /\ b2 = buffer'
        /\ b \in Buffer /\ n \in Index /\ w \in Index /\ x \in Cell
  BY <1>4
<1>6. n # w /\ Stored(b2, b, n, x)
  BY <1>2, <1>4, <1>5 DEF Stored
<1>7. b2 \in Buffer /\ View(b2, n, w, x, FALSE) = View(b, n, w, x, TRUE)
  <2>1. b \in Buffer /\ n \in Index /\ w \in Index /\ x \in Cell
    BY <1>5
  <2>2. n # w
    BY <1>6
  <2>3. Stored(b2, b, n, x)
    BY <1>6
  <2> QED BY <2>1, <2>2, <2>3, ViewStored
<1>8. RingType' /\ MainType'
  <2>1. owed' \in 0 .. BUFSZ - 1
    BY <1>2, <1>4
  <2> QED BY <1>1, <1>2, <1>5, <1>7, <2>1 DEF RingType, MainType, Labels
<1>9. Contents = View(b, n, w, x, TRUE)
  BY <1>1, <1>3, <1>4, <1>5, PuttingView
<1>10. Contents' = View(b2, n, w, x, FALSE) /\ Distance' = Distance
  <2>1. buf_ridx' \in Index /\ Distance = Dist(buf_ridx, buf_widx)
    BY <1>2, <1>4 DEF Distance
  <2> QED BY <1>2, <1>3, <1>5, <1>8, <2>1, PlainViewNext
<1>11. PICK v : v = Distance' /\ v = owed'
  BY <1>2, <1>4, <1>10
<1>12. Registers' /\ Amount(v)'
  BY <1>1, <1>2, <1>3, <1>11 DEF Registers, Loaded, Amount
<1>13. RingInv' /\ Contents' = Contents
  BY <1>1, <1>7, <1>8, <1>9, <1>10, <1>11, <1>12 DEF RingInv, OnlyKeys, Distance
<1> QED BY <1>2, <1>13 DEF QueueStep

\* where an interrupt may come
LEMMA RoomFacts ==
    ASSUME RingInv, Preempt = "room", CanInterrupt
    PROVE  /\ pc \notin {"idle", "halt"} => Distance < BUFSZ - 1
           /\ PuttingBack => Distance = owed + 1 /\ owed + 1 < BUFSZ - 1
           /\ pc \notin {"p_adv", "p_adv_store"}
           /\ owed \in 0 .. BUFSZ - 1 /\ BUFSZ \in Nat \ {0, 1}
<1>1. Amount(Distance) /\ owed \in 0 .. BUFSZ - 1 /\ BUFSZ \in Nat \ {0, 1} /\ pc \in Labels
  BY RingOpened DEF RingInv, RingType
<1>2. pc \in {"idle", "halt"} \/ Taken < BUFSZ - 1
  BY DEF CanInterrupt
<1>3. ASSUME PuttingBack PROVE Distance = owed + 1 /\ owed + 1 < BUFSZ - 1
  <2>1. owed + 1 < BUFSZ - 1
    BY <1>1, <1>2, <1>3 DEF Taken, PuttingBack
  <2> QED BY <1>1, <1>3, <2>1 DEF Amount, PuttingBack
<1>4. ASSUME ~PuttingBack, pc \notin {"idle", "halt"} PROVE Distance < BUFSZ - 1
  <2>1. owed < BUFSZ - 1
    BY <1>1, <1>2, <1>4 DEF Taken
  <2> QED BY <1>1, <1>4, <2>1 DEF Amount
<1>5. pc \notin {"p_adv", "p_adv_store"}
  BY <1>1, <1>3 DEF Amount, PuttingBack
<1> QED BY <1>1, <1>3, <1>4, <1>5

LEMMA PressPuts ==
    ASSUME RingInv, DecoderInv, Preempt = "room", kbintr_press
    PROVE  RingInv' /\ QueueStep
<1>1. RingType /\ MainType /\ Registers /\ Amount(Distance) /\ OnlyKeys(Contents)
  BY DEF RingInv, Distance
<1>2. PICK key : key = KeyOf(<<ext, Head(wire).code>>)
  OBVIOUS
<1>3. key \in Keys
  <2>1. wire # << >> /\ ~Head(wire).e0
    BY DEF kbintr_press
  <2>2. Head(wire) \in WireByte /\ ext \in BOOLEAN
    BY <2>1, HeadFacts DEF DecoderInv, DecoderType
  <2>3. Head(wire).code \in Codes
    BY <2>1, <2>2, ByteFacts
  <2> QED BY <1>2, <2>2, <2>3, KeyFacts, KeyOfFacts
<1>4. CanInterrupt /\ Wake /\ UNCHANGED <<waiting, tmp, res, got, intr_flag>>
  BY DEF kbintr_press, IrqReturns
<1>5. PutKey(key) \/ UNCHANGED <<buffer, buf_ridx, buf_widx, owed>>
  BY <1>2 DEF kbintr_press, ring
<1>6. CASE UNCHANGED <<buffer, buf_ridx, buf_widx, owed>>
  BY <1>4, <1>6, IrqQuietSteps
<1>7. CASE PutKey(key)
  <2>0. PICK b, n, w, x, b2, u, q :
          /\ b = buffer /\ n = Norm(buf_ridx) /\ w = buf_widx /\ x = res /\ b2 = buffer'
          /\ u = Distance /\ q = Contents
    OBVIOUS
  <2>1. /\ b \in Buffer /\ n \in Index /\ w \in Index /\ x \in Cell /\ BUFSZ \in Nat \ {0, 1}
        /\ u \in 0 .. BUFSZ - 1 /\ u = Dist(n, w) /\ key \in Cell /\ Nx(w) \in Index
    BY <1>1, <1>3, <2>0, RingOpened, Around DEF RingType, Distance, Cell
  <2>2. Succ(w) = Nx(w) /\ (u = 0 <=> n = w) /\ (u = BUFSZ - 1 <=> n = Nx(w))
    <3>1. n \in Index /\ w \in Index /\ u = Dist(n, w)
      BY <2>1
    <3>2. (Dist(n, w) = 0 <=> n = w) /\ (Dist(n, w) = BUFSZ - 1 <=> n = Nx(w))
      BY <3>1, DistFacts
    <3>3. Succ(w) = Nx(w)
      BY <3>1, Around
    <3> QED BY <3>1, <3>2, <3>3
  <2>3. /\ Written(b2, b, w, key) /\ buf_widx' = Nx(w)
        /\ buf_ridx' = IF buf_ridx = Nx(w) THEN Succ(buf_ridx) ELSE buf_ridx
        /\ owed' = IF buf_ridx = Nx(w) THEN owed ELSE owed + 1
    BY <1>7, <2>0, <2>2 DEF PutKey, Written
  <2>4. /\ pc \notin {"idle", "halt"} => u < BUFSZ - 1
        /\ PuttingBack => u = owed + 1 /\ owed + 1 < BUFSZ - 1
        /\ pc \notin {"p_adv", "p_adv_store"}
        /\ owed \in 0 .. BUFSZ - 1
    BY <1>4, <2>0, RoomFacts
  <2>5. pc' = pc \/ (pc = "halt" /\ pc' = "g_cmp_r")
    BY <1>4 DEF Wake
  <2>6. pc' \in Labels /\ (PuttingBack' <=> PuttingBack)
    BY <1>1, <2>5 DEF RingType, Labels, PuttingBack
  <2>7. buf_ridx # -1 => n = buf_ridx
    BY <2>0 DEF Norm
  <2>8. b2 \in Buffer /\ b2[w] = key /\ \A i \in Index : i # w => b2[i] = b[i]
    BY <2>1, <2>3 DEF Buffer, Written
  <2>9. q \in Seq(Keys)
    BY <1>1, <2>0 DEF OnlyKeys
  <2>10. CASE buf_ridx = Nx(w)
    <3>1. buf_ridx = n /\ n = Nx(w) /\ buf_ridx # -1
      BY <2>1, <2>7, <2>10 DEF Index
    <3>2. u = BUFSZ - 1 /\ pc \in {"idle", "halt"} /\ ~PuttingBack /\ ~PuttingBack'
      BY <2>1, <2>2, <2>4, <2>6, <3>1 DEF PuttingBack
    <3>3. buf_ridx' = Nx(n) /\ Nx(n) \in Index /\ owed' = owed /\ buf_ridx' \in -1 .. BUFSZ - 1
          /\ buf_ridx' # -1
      <4>1. Succ(n) = Nx(n) /\ Nx(n) \in Index
        BY <2>1, Around
      <4> QED BY <2>1, <2>3, <2>10, <3>1, <4>1 DEF Index
    <3>4. RingType' /\ MainType'
      BY <1>1, <1>4, <2>0, <2>1, <2>3, <2>6, <2>8, <3>3 DEF RingType, MainType
    <3>5. q = View(b, n, w, x, FALSE)
      BY <2>0, <3>1, <3>2, PlainView
    <3>6. /\ q \in Seq(Cell) /\ Len(q) = BUFSZ - 1
          /\ View(b2, Nx(n), Nx(w), x, FALSE) = Append(Tail(q), key)
      <4>1. b \in Buffer /\ n \in Index /\ w \in Index /\ key \in Cell /\ n = Nx(w)
        BY <2>1, <3>1
      <4>2. Written(b2, b, w, key)
        BY <2>3
      <4>3. IsOvertaken(View(b2, Nx(n), Nx(w), x, FALSE), View(b, n, w, x, FALSE), key)
        BY <4>1, <4>2, ViewOvertake
      <4> QED BY <3>5, <4>3 DEF IsOvertaken
    <3>7. PICK v : v = Distance'
      OBVIOUS
    <3>8. Contents' = Append(Tail(q), key) /\ v = Dist(Nx(n), Nx(w))
      BY <1>4, <2>0, <2>3, <3>2, <3>3, <3>4, <3>6, <3>7, PlainViewNext
    <3>9. v = BUFSZ - 1 /\ owed' = BUFSZ - 1
      <4>1. Dist(Nx(n), Nx(w)) = BUFSZ - 1
        <5>1. Nx(n) \in Index /\ Nx(w) \in Index /\ Nx(n) = Nx(Nx(w))
          BY <2>1, <3>1, <3>3
        <5> QED BY <5>1, DistFacts
      <4>2. owed = u
        BY <1>1, <2>0, <3>2 DEF Amount
      <4> QED BY <3>2, <3>3, <3>8, <4>1, <4>2
    <3>10. pc' \in {"idle", "halt", "g_cmp_r"}
      BY <2>5, <3>2
    <3>11. Registers' /\ Amount(v)'
      BY <3>2, <3>3, <3>9, <3>10 DEF Registers, Amount, Loaded
    <3>12. Append(Tail(q), key) \in Seq(Keys)
      BY <1>3, <2>1, <2>9, <3>6
    <3>13. RingInv'
      BY <3>4, <3>7, <3>8, <3>11, <3>12 DEF RingInv, OnlyKeys, Distance
    <3>14. Queue!Press(key)
      BY <1>4, <2>0, <2>1, <3>6, <3>8 DEF Queue!Press
    <3> QED BY <1>3, <3>13, <3>14 DEF QueueStep, Queue!Next
  <2>11. CASE buf_ridx # Nx(w)
    <3>1. u < BUFSZ - 1 /\ buf_ridx' = buf_ridx /\ owed' = owed + 1
      <4>1. CASE buf_ridx = -1
        <5>1. PuttingBack
          BY <1>1, <4>1 DEF Registers, PuttingBack
        <5> QED BY <2>1, <2>3, <2>4, <2>11, <5>1
      <4>2. CASE buf_ridx # -1
        BY <2>1, <2>2, <2>3, <2>7, <2>11, <4>2
      <4> QED BY <4>1, <4>2
    <3>2. PICK p \in BOOLEAN : p <=> PuttingBack
      OBVIOUS
    <3>3. p => n # w
      BY <2>1, <2>2, <2>4, <3>2
    <3>4. q = View(b, n, w, x, p)
      BY <1>1, <2>0, <3>2, Views DEF View
    <3>5. /\ q \in Seq(Cell) /\ Len(q) = Dist(n, w)
          /\ View(b2, n, Nx(w), x, p) = Append(q, key)
      <4>1. Dist(n, w) < BUFSZ - 1
        BY <2>1, <3>1
      <4>2. Written(b2, b, w, key)
        BY <2>3
      <4> QED BY <2>1, <3>3, <3>4, <4>1, <4>2, ViewPress
    <3>6. owed' \in 0 .. BUFSZ - 1
      <4>1. owed < BUFSZ - 1
        BY <1>1, <2>0, <2>1, <2>4, <3>1 DEF Amount
      <4> QED BY <2>1, <2>4, <3>1, <4>1
    <3>7. RingType' /\ MainType'
      BY <1>1, <1>4, <2>0, <2>1, <2>3, <2>6, <2>8, <3>1, <3>6 DEF RingType, MainType
    <3>8. PICK v : v = Distance'
      OBVIOUS
    <3>9. v = Dist(n, Nx(w)) /\ v = u + 1
      <4>1. v = Dist(n, Nx(w))
        BY <2>0, <2>3, <3>1, <3>8 DEF Distance
      <4>2. Dist(n, w) < BUFSZ - 1
        BY <2>1, <3>1
      <4> QED BY <2>1, <4>1, <4>2, DistFacts
    <3>10. Contents' = Append(q, key)
      <4>1. Contents' = View(b2, n, Nx(w), x, PuttingBack')
        BY <1>4, <2>0, <2>3, <3>1, <3>7, Views
      <4>2. View(b2, n, Nx(w), x, PuttingBack') = View(b2, n, Nx(w), x, p)
        BY <2>6, <3>2 DEF View
      <4> QED BY <3>5, <4>1, <4>2
    <3>11. Registers'
      <4>1. pc \in {"g_adv", "g_store"} => buffer'[buf_ridx] = buffer[buf_ridx]
        <5> SUFFICES ASSUME pc \in {"g_adv", "g_store"} PROVE buffer'[buf_ridx] = buffer[buf_ridx]
          OBVIOUS
        <5>1. buf_ridx # -1 /\ u > 0
          BY <1>1, <2>0 DEF Registers, Amount, PuttingBack
        <5>2. n = buf_ridx /\ n # w
          BY <2>2, <2>7, <5>1
        <5> QED BY <2>0, <2>1, <2>8, <5>2
      <4> QED BY <1>1, <1>4, <2>5, <2>6, <3>1, <4>1 DEF Registers, Loaded, PuttingBack
    <3>12. Amount(v)'
      <4>1. CASE PuttingBack
        <5>1. pc' = pc /\ owed' = owed + 1 /\ v = owed' + 1 /\ owed' < BUFSZ - 1
          BY <2>4, <2>5, <3>1, <3>9, <4>1 DEF PuttingBack
        <5> QED BY <2>4, <2>6, <4>1, <5>1 DEF Amount, PuttingBack
      <4>2. CASE ~PuttingBack
        <5>1. v = owed' /\ owed' > 0
          BY <1>1, <2>0, <2>1, <2>4, <3>1, <3>9, <4>2 DEF Amount
        <5> QED BY <2>6, <4>2, <5>1 DEF Amount, PuttingBack
      <4> QED BY <4>1, <4>2
    <3>13. Append(q, key) \in Seq(Keys)
      BY <1>3, <2>9
    <3>14. RingInv'
      BY <3>7, <3>8, <3>10, <3>11, <3>12, <3>13 DEF RingInv, OnlyKeys, Distance
    <3>15. Queue!Press(key)
      BY <1>4, <2>0, <2>1, <3>1, <3>5, <3>10 DEF Queue!Press
    <3> QED BY <1>3, <3>14, <3>15 DEF QueueStep, Queue!Next
  <2> QED BY <2>10, <2>11
<1> QED BY <1>5, <1>6, <1>7

LEMMA RingInit == Init => RingInv /\ Queue!Init
<1> SUFFICES ASSUME Init PROVE RingInv /\ Queue!Init
  OBVIOUS
<1>1. BUFSZ \in Nat \ {0, 1}
  BY Around
<1>2. /\ pc = "idle" /\ buf_ridx = 0 /\ buf_widx = 0 /\ owed = 0 /\ tmp = 0 /\ res = NoKey
      /\ got = NoKey /\ waiting = FALSE /\ intr_flag \in {0, 1}
      /\ buffer = [i \in 0 .. BUFSZ - 1 |-> NoKey]
  BY DEF Init
<1>3. RingType /\ MainType
  <2>1. buffer \in Buffer
    BY <1>2 DEF Buffer, Cell, Index
  <2>2. 0 \in -1 .. BUFSZ - 1 /\ 0 \in 0 .. BUFSZ - 1
    BY <1>1
  <2> QED BY <1>2, <2>1, <2>2 DEF RingType, MainType, Cell, Index, Labels
<1>4. ~PuttingBack
  BY <1>2 DEF PuttingBack
<1>5. Norm(buf_ridx) = 0 /\ 0 \in Index /\ buffer \in Buffer
  BY <1>1, <1>2, <1>3 DEF Norm, Index, RingType
<1>6. Contents = View(buffer, 0, 0, res, FALSE)
  BY <1>2, <1>3, <1>4, <1>5, Views DEF View
<1>7. PICK b, z, x : b = buffer /\ z = 0 /\ x = res
  OBVIOUS
<1>8. View(b, z, z, x, FALSE) = << >>
  <2>1. b \in Buffer /\ z \in Index
    BY <1>5, <1>7
  <2> QED BY <2>1, ViewGet
<1>9. Contents = << >>
  BY <1>6, <1>7, <1>8
<1>10. PICK u : u = Dist(Norm(buf_ridx), buf_widx) /\ u = 0
  BY <1>1, <1>2, <1>5 DEF Dist
<1>11. Registers /\ Amount(u)
  BY <1>2, <1>4, <1>10 DEF Registers, Amount, Loaded
<1>12. << >> \in Seq(Keys)
  OBVIOUS
<1> QED BY <1>2, <1>3, <1>9, <1>10, <1>11, <1>12 DEF RingInv, OnlyKeys, Queue!Init

LEMMA RingNext ==
    ASSUME Preempt = "room", RingInv, DecoderInv, [Next]_vars
    PROVE  RingInv' /\ QueueStep
<1>1. ASSUME NEW k \in UserKeys, key_down(k) \/ key_repeat(k) \/ key_up(k)
      PROVE  RingInv' /\ QueueStep
  BY <1>1, IrqQuietSteps DEF key_down, key_repeat, key_up, ring, main
<1>7. ASSUME NEW s \in Extras, sends_extra(s) PROVE RingInv' /\ QueueStep
  BY <1>7, IrqQuietSteps DEF sends_extra, ring, main
<1>2. CASE kbintr_prefix \/ kbintr_release \/ timer_intr
  BY <1>2, IrqQuietSteps DEF kbintr_prefix, kbintr_release, timer_intr, IrqReturns, ring
<1>3. CASE kbintr_press
  BY <1>3, PressPuts
<1>4. CASE call_getkey \/ call_wait \/ \E key \in Putbacks : call_putback(key)
  BY <1>4, OtherQuietSteps
<1>5. CASE Step
  <2>1. CASE \/ getkey_cmp_ridx \/ getkey_index \/ getkey_adv_load \/ putback_dec_load
             \/ putback_wrap_load \/ putback_cmp_ridx \/ putback_adv_load \/ putback_index
    BY <2>1, LoadSteps
  <2>2. CASE getkey_elem \/ wait_sleep \/ halt_cpu \/ putback_cmp_widx
    BY <2>2, OtherQuietSteps
  <2>3. CASE getkey_cmp_widx
    BY <2>3, GetkeyLooks
  <2>4. CASE getkey_adv_store
    BY <2>4, GetkeyTakes
  <2>5. CASE putback_dec_store
    BY <2>5, PutbackMoves
  <2>6. CASE putback_wrap_store \/ putback_adv_store
    BY <2>6, PutbackWraps
  <2>7. CASE putback_elem
    BY <2>7, PutbackStores
  <2> QED BY <1>5, <2>1, <2>2, <2>3, <2>4, <2>5, <2>6, <2>7 DEF Step
<1>6. CASE reboot \/ UNCHANGED vars
  BY <1>6, IrqQuietSteps DEF reboot, vars, ring, main
<1> QED BY <1>1, <1>2, <1>3, <1>4, <1>5, <1>6, <1>7 DEF Next

IInv == DecoderInv /\ RingInv

LEMMA Inductive == ASSUME Preempt = "room" PROVE Spec => []IInv
<1>1. Init => IInv
  BY DecoderInit, RingInit DEF IInv
<1>2. IInv /\ [Next]_vars => IInv'
  BY DecoderNext, RingNext DEF IInv
<1> QED BY <1>1, <1>2, PTL DEF Spec

\* With interrupts only while there is room, the driver's indices stay inside the
\* buffer at every memory access of kb_getkey, kb_putback and kbintr, although the
\* interrupt handler moves them between any two accesses of the main program, and
\* kb_isdown is right, for one key and for KB_ANY.
THEOREM KeyboardIsSound == ASSUME Preempt = "room" PROVE Spec => []KeystateInv
<1>1. IInv => KeystateInv
  <2> SUFFICES ASSUME IInv PROVE KeystateInv
    OBVIOUS
  <2>1. DecoderType /\ RingType /\ MainType /\ Registers
    BY DEF IInv, DecoderInv, RingInv
  <2>2. owed \in -1 .. BUFSZ
    <3>1. owed \in 0 .. BUFSZ - 1 /\ BUFSZ \in Nat \ {0, 1}
      BY <2>1, Around DEF RingType
    <3> QED BY <3>1
  <2>3. TypeOK
    BY <2>1, <2>2 DEF TypeOK, DecoderType, RingType, MainType, Registers, Buffer, Index, Cell
  <2> QED BY <2>3, DecoderTells DEF IInv, KeystateInv
<1> QED BY <1>1, Inductive, PTL

\* With interrupts only while there is room, the ring is the queue keyb.h describes: in
\* every interleaving of kbintr with the single memory accesses of kb_getkey, kb_putback
\* and kb_wait, keys come out in the order they were pressed, a press into the full
\* buffer discards the oldest key and no other, and a key put back comes out next.
THEOREM KeyboardImplementsQueue == ASSUME Preempt = "room" PROVE Spec => ImplementsQueue
<1>1. Init => Queue!Init
  BY RingInit
<1>2. IInv /\ [Next]_vars => [Queue!Next]_<<Contents, got>>
  BY RingNext DEF IInv, QueueStep
<1> QED BY <1>1, <1>2, Inductive, PTL DEF Spec, ImplementsQueue, Queue!Spec

\* The comment in kbintr: overtaking the read end discards "the oldest keypress".  When a
\* call of the main program is over, the ring holds every other key that was pressed.
THEOREM OldestIsDiscarded == ASSUME Preempt = "room" PROVE Spec => []OnlyOldestDiscarded
<1>1. IInv => OnlyOldestDiscarded
  <2> SUFFICES ASSUME IInv, pc = "idle" PROVE Unread >= owed
    BY DEF OnlyOldestDiscarded
  <2>1. Unread = Distance /\ Distance \in 0 .. BUFSZ - 1 /\ Amount(Distance)
    BY RingOpened DEF IInv
  <2>2. Distance = owed
    BY <2>1 DEF Amount, PuttingBack
  <2> QED BY <2>1, <2>2
<1> QED BY <1>1, Inductive, PTL
=============================================================================
