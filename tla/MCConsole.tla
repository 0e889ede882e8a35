------------------------------ MODULE MCConsole ------------------------------
EXTENDS Console

Conv(c, f, w, a) == [conv |-> c, flags |-> f, width |-> w, arg |-> a]
Lit(ch) == Conv("lit", {}, 0, ch)
Ints == {0, 26, -3, MinInt}
Items ==
    {Conv("d", f, w, a) : f \in {{}, {"-"}, {"0"}, {"+"}, {"l"}, {"-", "0"}}, w \in {0, 4}, a \in Ints}
    \union {Conv(c, f, w, a) : c \in {"x", "X"}, f \in {{}, {"#"}, {"0"}}, w \in {0, 12}, a \in {26, -3}}
    \union {Conv(c, {}, w, a) : c \in {"u", "o"}, w \in {0, 4}, a \in {8, -3}}
    \union {Conv("s", f, w, s) : f \in {{}, {"-"}}, w \in {0, 3}, s \in {<< >>, <<"p", "q">>}}
    \union {Conv("c", {}, 0, "z"), Conv("n", {}, 0, 0), Conv("%", {}, 0, 0), Lit("k")}
FewItems == {Conv("d", {"-"}, 4, 26), Conv("X", {}, 0, 26), Conv("d", {"0"}, 4, 5),
             Conv("n", {}, 0, 0), Conv("s", {}, 3, <<"p">>)}
SomeBufFormats == {<<a>> : a \in Items} \union {<<a, b>> : a \in Items, b \in Items}
                  \union {<<a, b, c>> : a \in FewItems, b \in FewItems, c \in FewItems}
                  \union {<< >>}

SomeConFormats ==
    {<<Lit("a"), Lit("nl"), Lit("b"), Lit("nl")>>,
     <<Conv("d", {}, 9, 5), Lit("c")>>,
     <<Conv("s", {}, 0, [k \in 1 .. 14 |-> "s"])>>}
SomeCursors == {<<0, 0>>, <<7, 1>>}
==============================================================================
