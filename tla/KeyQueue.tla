------------------------------ MODULE KeyQueue ------------------------------
(***************************************************************************)
(* What the keyboard driver promises (keyb.h and the comments in keyb.c):  *)
(* a queue of Capacity keys, from which keypresses come out in order.  A   *)
(* keypress that finds it full discards the oldest key, and a key that is  *)
(* put back into a full queue overwrites the oldest one.                   *)
(***************************************************************************)
EXTENDS Naturals, Sequences

CONSTANTS Keys, NoKey, Capacity

VARIABLES queue, got   \* got: what the last kb_getkey returned

Init == queue = << >> /\ got = NoKey

Press(k) ==
    /\ queue' = IF Len(queue) < Capacity THEN Append(queue, k) ELSE Append(Tail(queue), k)
    /\ UNCHANGED got

GetKey ==
    \/ queue # << >> /\ got' = Head(queue) /\ queue' = Tail(queue)
    \/ queue = << >> /\ got' = NoKey /\ UNCHANGED queue

PutBack(k) ==
    /\ queue' = IF Len(queue) < Capacity THEN <<k>> \o queue ELSE <<k>> \o Tail(queue)
    /\ UNCHANGED got

Next == GetKey \/ \E k \in Keys : Press(k) \/ PutBack(k)

Spec == Init /\ [][Next]_<<queue, got>>
=============================================================================
