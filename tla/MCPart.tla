------------------------------- MODULE MCPart -------------------------------
EXTENDS Part, TLC

Drive(f, e, c, h, s, m) ==
    [floppy |-> f, ext |-> e, cyls |-> c, heads |-> h, sects |-> s, multi |-> m]
SomeDrives ==
    {Drive(TRUE, FALSE, 80, 2, 18, m) : m \in BOOLEAN}
    \union {Drive(FALSE, FALSE, c, 3, 17, TRUE) : c \in {255, 256, 257, 600, 1024}}
    \union {Drive(FALSE, TRUE, 600, 3, 17, TRUE)}
SomeLbas == {<<0, k>> : k \in {0, 17, 35, 36, 2879, 13004, 13055, 13056}} \union {<<1, 5>>}

Data(f) == [type |-> "data", first |-> f, act |-> f = 1]
Link(f) == [type |-> "ext", first |-> f, act |-> FALSE]
Mbrs == {<<Data(1), None, Data(2), Link(4)>>, <<None, Link(4), Data(2), Data(3)>>,
         <<Data(1), Data(2), Data(3), Data(9)>>, <<None, None, None, None>>,
         <<Data(1), Link(0), None, None>>, <<Link(4), Data(1), Link(7), None>>, << >>}
Ebrs(far) == {<<Data(1), None>>, <<Data(1), Link(far)>>, <<None, None>>, <<Link(far), None>>,
              <<Data(1), Data(2)>>}
SomeDisks == {(0 :> m) @@ (4 :> e) @@ (7 :> f) @@ (9 :> g) :
                m \in Mbrs, e \in Ebrs(3) \union {<< >>}, f \in {<<Data(1), None>>, <<Data(2), Link(5)>>,
                                                            <<Data(2), Link(0)>>},
                g \in {<<Data(1), None>>, <<Data(1), Link(3)>>}}
=============================================================================
