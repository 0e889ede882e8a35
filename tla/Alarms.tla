------------------------------- MODULE Alarms -------------------------------
(***************************************************************************)
(* What the timer promises its clients (timer.h): a scheduled function is  *)
(* called exactly once, at the tick its delay runs out, unless it is       *)
(* cancelled first.  The delays are counted down one by one here; timer.c  *)
(* keeps a list of differences instead (module Timer).                     *)
(***************************************************************************)
EXTENDS Naturals

CONSTANTS Ids, Funcs, NoFunc, MaxTicks

VARIABLES pending,   \* the scheduled alarms, by id: function and ticks to go
          inTick,    \* the alarms of the current tick are being called
          called     \* the function the last step called, or NoFunc

avars == <<pending, inTick, called>>

Alarm == [func : Funcs, left : 0 .. MaxTicks]

\* pending without alarm i
Without(i) == [j \in DOMAIN pending \ {i} |-> pending[j]]

Init == /\ pending = [i \in {} |-> 0]
        /\ inTick = FALSE
        /\ called = NoFunc

Schedule(i, f, t) ==
    /\ i \notin DOMAIN pending
    /\ pending' = [j \in DOMAIN pending \union {i} |->
                      IF j = i THEN [func |-> f, left |-> t] ELSE pending[j]]
    /\ called' = NoFunc
    /\ UNCHANGED inTick

\* the earliest alarm for f is dropped
Cancel(f) ==
    \E i \in DOMAIN pending :
        /\ pending[i].func = f
        /\ \A j \in DOMAIN pending :
              pending[j].func = f => pending[i].left <= pending[j].left
        /\ pending' = Without(i)
        /\ called' = NoFunc
        /\ UNCHANGED inTick

Tick ==
    /\ ~inTick
    /\ inTick' = TRUE
    /\ pending' = [i \in DOMAIN pending |->
                      [pending[i] EXCEPT !.left = pending[i].left - 1]]
    /\ called' = NoFunc

Call ==
    /\ inTick
    /\ \E i \in DOMAIN pending :
          /\ pending[i].left = 0
          /\ pending' = Without(i)
          /\ called' = pending[i].func
    /\ UNCHANGED inTick

\* the tick is over only when every alarm that is due has been called
EndTick ==
    /\ inTick
    /\ \A i \in DOMAIN pending : pending[i].left > 0
    /\ inTick' = FALSE
    /\ called' = NoFunc
    /\ UNCHANGED pending

Next ==
    \/ \E i \in Ids, f \in Funcs, t \in 1 .. MaxTicks : Schedule(i, f, t)
    \/ \E f \in Funcs : Cancel(f)
    \/ Tick
    \/ Call
    \/ EndTick

Spec == Init /\ [][Next]_avars
=============================================================================
