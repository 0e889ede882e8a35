------------------------------- MODULE MCSound -------------------------------
EXTENDS Sound

Card(ports, ver, i, d, f) == [ports |-> ports, ver |-> ver, irq |-> i, dma |-> d, fixed |-> f]
SomeCards ==
    {Card({2}, 4, i, d, f) : i \in SUBSET (0 .. 3), d \in SUBSET {0, 1, 3, 5, 6}, f \in BOOLEAN}
    \union {Card({2, 4}, 2, {}, {}, TRUE), Card({}, 0, {}, {}, TRUE)}
PlayedCards == {Card({2}, 4, {1}, {1, 5}, FALSE), Card({2}, 4, {}, {}, FALSE)}
SomeSizes == {1, 256, 65536}
=============================================================================
