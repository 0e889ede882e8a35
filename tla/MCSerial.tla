------------------------------ MODULE MCSerial ------------------------------
EXTENDS Serial

Prog(ports, fns, chars, recv) == [ports |-> ports, fns |-> fns, chars |-> chars, recv |-> recv]
AllPrograms ==
    {Prog({0}, {"getc", "read", "block"}, {"x"}, 6),
     Prog({0}, {"getline", "block"}, {"x", "nl"}, 4),
     Prog({0}, {"getc", "close"}, {"x"}, 4),
     Prog({0, 1}, {"getc", "close"}, {"x", "err"}, 3),
     Prog({0}, {"wait", "write"}, {"x"}, 1)}
Reopening == {Prog({0, 1}, {"close"}, {"x"}, 4)}
SomeTexts == {<<"x">>, <<"x", "nl", "x">>, <<"nl", "nl">>}
=============================================================================
