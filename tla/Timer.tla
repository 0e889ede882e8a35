------------------------------- MODULE Timer -------------------------------
(***************************************************************************)
(* The alarms of the timer driver (src/src/timer.c): a linked list of      *)
(* events, each with the ticks between it and the one before it.           *)
(*                                                                         *)
(* The list is the sequence of events that the next pointers lead to from  *)
(* evlist.  Each event carries its heap address, so that one that stays on *)
(* the list after it has been freed can be seen; its contents last until   *)
(* malloc hands the address out again.  set_alarm and cancel_alarm are     *)
(* called by the main program and by the alarm functions themselves, which *)
(* timer_handler calls with interrupts off.                                *)
(***************************************************************************)
EXTENDS Integers, Sequences, SequencesExt

CONSTANTS
    Nodes,        \* heap addresses of timer events
    NULL,         \* the null pointer
    Funcs,        \* alarm functions
    NoFunc,       \* no function was called
    Msecs,        \* delays clients ask for
    TICK_FREQ_HZ, \* timer frequency
    MsecPerSec,   \* 1000
    UlongMod,     \* 2^32: unsigned long arithmetic wraps
    NticksMod,    \* the tick counter wraps
    CancelHead    \* do clients cancel the alarm that is next to fire?

ASSUME TimerAssumption ==
    /\ NULL \notin Nodes
    /\ NoFunc \notin Funcs
    /\ Msecs \subseteq Nat
    /\ {TICK_FREQ_HZ, MsecPerSec, UlongMod, NticksMod} \subseteq Nat \ {0}
    /\ CancelHead \in BOOLEAN

VARIABLES
    evlist,   \* the list: sequence of [node, dt, func]
    used,     \* heap addresses that are allocated
    ev,       \* the main program's event between malloc and insertion, or NULL
    evticks,  \* and its delay
    evfunc,   \* and its function
    phase,    \* "run"; "tick" and "call" inside timer_handler
    firing,   \* address of the event whose function is being called
    called,   \* the function the last step called, or NoFunc
    wanted,   \* history: functions scheduled but neither called nor cancelled since
    nticks,
    stopped   \* why the machine stopped, or "no"

setting == <<ev, evticks, evfunc>>
vars == <<evlist, used, setting, phase, firing, called, wanted, nticks, stopped>>

MSEC_TO_TICKS(ms) == ((ms * TICK_FREQ_HZ) % UlongMod) \div MsecPerSec

-----------------------------------------------------------------------------
\* Broken: the function is not stored.
Event_nofunc(n, d, f) == [node |-> n, dt |-> d, func |-> NoFunc]
Event(n, d, f) == [node |-> n, dt |-> d, func |-> f]
Addresses(list) == {list[i].node : i \in DOMAIN list}

\* ticks from now until the i-th event
Due(list, i) ==
    LET D[k \in 0 .. Len(list)] == IF k = 0 THEN 0 ELSE D[k - 1] + list[k].dt
    IN D[i]

\* the first event of the list with its delta changed by d, if there is one
Shifted(list, d) ==
    IF list = << >> THEN list ELSE [list EXCEPT ![1].dt = @ + d]

Init ==
    /\ evlist = << >>
    /\ used = {}
    /\ ev = NULL /\ evticks = 0 /\ evfunc = NoFunc
    /\ phase = "run" /\ firing = NULL
    /\ called = NoFunc
    /\ wanted = {}
    /\ nticks = 0
    /\ stopped = "no"

-----------------------------------------------------------------------------
\* free(n): the magic number of a freed block gives a second free away
Free(n) ==
    IF n \in used
    THEN used' = used \ {n} /\ stopped' = stopped
    ELSE used' = used /\ stopped' = "double free"

(***************************************************************************)
(* The insertion of set_alarm.  Writing to an event that is still on the   *)
(* list (a freed one that malloc returned again) links it to itself; the   *)
(* model stops there.                                                      *)
(***************************************************************************)
\* the loop passes every event that is due before the new one, but not the head
Passed(ticks) ==
    CHOOSE i \in 0 .. Len(evlist) :
        /\ \A j \in 1 .. i : IF j = 1 THEN ticks >= Due(evlist, 1) ELSE ticks > Due(evlist, j)
        /\ i < Len(evlist) => IF i = 0 THEN ticks < Due(evlist, 1) ELSE ticks <= Due(evlist, i + 1)
\* Broken: the delta of the event behind the new one stays; the rest of the list is lost.
Inserted_noshift(n, f, ticks) ==
    LET i == Passed(ticks)
    IN SubSeq(evlist, 1, i) \o <<Event(n, ticks - Due(evlist, i), f)>>
           \o SubSeq(evlist, i + 1, Len(evlist))
Inserted_cut(n, f, ticks) ==
    LET i == Passed(ticks)
    IN SubSeq(evlist, 1, i) \o <<Event(n, ticks - Due(evlist, i), f)>>
Inserted(n, f, ticks) ==
    LET i == Passed(ticks)
        delta == ticks - Due(evlist, i)
    IN SubSeq(evlist, 1, i) \o <<Event(n, delta, f)>>
           \o Shifted(SubSeq(evlist, i + 1, Len(evlist)), -delta)
Insert(n, f, ticks) ==
    IF n \in Addresses(evlist)
    THEN stopped' = "cyclic list" /\ evlist' = evlist
    ELSE stopped' = stopped /\ evlist' = Inserted(n, f, ticks)

\* the alarm function or the main program runs, and is not inside set_alarm
InCall == stopped = "no" /\ phase = "call"
InMain == stopped = "no" /\ phase = "run" /\ ev = NULL

\* set_alarm with a delay below one tick, or one that wraps to it, returns at once
set_alarm_nothing(ms) ==
    /\ InCall \/ InMain
    /\ MSEC_TO_TICKS(ms) <= 0
    /\ UNCHANGED vars

set_alarm_nomem(ms, f) ==
    /\ InCall \/ InMain
    /\ MSEC_TO_TICKS(ms) > 0
    /\ used = Nodes
    /\ stopped' = "failed to allocate"
    /\ wanted' = wanted \union {f}
    /\ UNCHANGED <<evlist, used, setting, phase, firing, called, nticks>>

\* the main program: interrupts are on until the insertion
set_alarm_malloc(ms, f) ==
    /\ InMain
    /\ MSEC_TO_TICKS(ms) > 0
    /\ \E n \in Nodes \ used :
          /\ ev' = n
          /\ used' = used \union {n}
    /\ evticks' = MSEC_TO_TICKS(ms)
    /\ evfunc' = f
    /\ wanted' = wanted \union {f}
    /\ UNCHANGED <<evlist, phase, firing, called, nticks, stopped>>
set_alarm_insert ==
    /\ stopped = "no" /\ phase = "run" /\ ev # NULL
    /\ Insert(ev, evfunc, evticks)
    /\ ev' = NULL /\ evticks' = 0 /\ evfunc' = NoFunc
    /\ called' = NoFunc
    /\ UNCHANGED <<used, phase, firing, wanted, nticks>>

\* an alarm function: the whole call happens inside the interrupt
set_alarm_call(ms, f) ==
    /\ InCall
    /\ MSEC_TO_TICKS(ms) > 0
    /\ \E n \in Nodes \ used :
          /\ used' = used \union {n}
          /\ Insert(n, f, MSEC_TO_TICKS(ms))
    /\ called' = NoFunc
    /\ wanted' = wanted \union {f}
    /\ UNCHANGED <<setting, phase, firing, nticks>>

(***************************************************************************)
(* cancel_alarm unlinks the first event of f.  The head is unlinked from   *)
(* the local dummy only: evlist keeps pointing to it.                      *)
(***************************************************************************)
\* Broken: the event stays on the list.
Unlinked_never(i) ==
    SubSeq(evlist, 1, i) \o Shifted(SubSeq(evlist, i + 1, Len(evlist)), evlist[i].dt)
Unlinked(i) ==
    LET rest == Shifted(SubSeq(evlist, i + 1, Len(evlist)), evlist[i].dt)
    IN IF i = 1 THEN <<evlist[1]>> \o rest ELSE SubSeq(evlist, 1, i - 1) \o rest

cancel_alarm(f) ==
    /\ InCall \/ InMain
    /\ \/ \E i \in DOMAIN evlist :
             /\ evlist[i].func = f
             /\ \A j \in 1 .. i - 1 : evlist[j].func # f
             /\ i = 1 => CancelHead
             /\ evlist' = Unlinked(i)
             /\ Free(evlist[i].node)
             /\ called' = NoFunc
             /\ wanted' = wanted \ {f}
       \/ /\ \A i \in DOMAIN evlist : evlist[i].func # f
          /\ UNCHANGED <<evlist, used, called, wanted, stopped>>
    /\ UNCHANGED <<setting, phase, firing, nticks>>

-----------------------------------------------------------------------------
\* timer_handler: the counters go down, then every event that is due fires
timer_tick ==
    /\ stopped = "no" /\ phase = "run"
    /\ nticks' = (nticks + 1) % NticksMod
    /\ evlist' = Shifted(evlist, -1)
    /\ phase' = "tick"
    /\ called' = NoFunc
    /\ UNCHANGED <<used, setting, firing, wanted, stopped>>

timer_fire ==
    /\ stopped = "no" /\ phase = "tick"
    /\ evlist # << >> /\ evlist[1].dt <= 0
    /\ firing' = evlist[1].node
    /\ evlist' = Tail(evlist)
    /\ called' = evlist[1].func
    /\ wanted' = wanted \ {evlist[1].func}
    /\ phase' = "call"
    /\ UNCHANGED <<used, setting, nticks, stopped>>

\* the function returns and its event is freed
timer_free ==
    /\ stopped = "no" /\ phase = "call"
    /\ Free(firing)
    /\ firing' = NULL
    /\ phase' = "tick"
    /\ UNCHANGED <<evlist, setting, called, wanted, nticks>>

timer_done ==
    /\ stopped = "no" /\ phase = "tick"
    /\ evlist # << >> => evlist[1].dt > 0
    /\ phase' = "run"
    /\ called' = NoFunc
    /\ UNCHANGED <<evlist, used, setting, firing, wanted, nticks, stopped>>

halted == stopped # "no" /\ UNCHANGED vars

timer_handler == timer_tick \/ timer_fire \/ timer_free \/ timer_done

Next ==
    \/ \E ms \in Msecs, f \in Funcs :
          \/ set_alarm_nothing(ms)
          \/ set_alarm_nomem(ms, f)
          \/ set_alarm_malloc(ms, f)
          \/ set_alarm_call(ms, f)
    \/ set_alarm_insert
    \/ \E f \in Funcs : cancel_alarm(f)
    \/ timer_tick \/ timer_fire \/ timer_free \/ timer_done
    \/ halted

\* The 8254 keeps ticking, alarm functions return, and between the ticks the main
\* program gets on with a set_alarm it has begun.
Fairness == WF_vars(timer_handler) /\ SF_vars(set_alarm_insert)

Spec == Init /\ [][Next]_vars /\ Fairness

-----------------------------------------------------------------------------
\* The fields hold what their C types allow; a delta is negative at most while a
\* handler is catching up.
TypeOK ==
    /\ evlist \in Seq([node : Nodes, dt : Int, func : Funcs])
    /\ used \subseteq Nodes
    /\ ev \in Nodes \union {NULL} /\ evticks \in Nat /\ evfunc \in Funcs \union {NoFunc}
    /\ phase \in {"run", "tick", "call"} /\ firing \in Nodes \union {NULL}
    /\ called \in Funcs \union {NoFunc} /\ wanted \subseteq Funcs
    /\ nticks \in 0 .. NticksMod - 1
    /\ stopped \in {"no", "double free", "failed to allocate", "cyclic list"}

\* The list runs through allocated events only: neither the handler, which frees
\* an event after its function returned, nor cancel_alarm inside that function,
\* leaves a freed event, the one being fired or one still being set up on it.
ListIsAllocated ==
    stopped = "no" =>
        /\ Addresses(evlist) \subseteq used \ {firing, ev}
        /\ IsInjective([i \in DOMAIN evlist |-> evlist[i].node])
        /\ phase = "call" => firing \in used

MaxTicks == CHOOSE m \in {MSEC_TO_TICKS(ms) : ms \in Msecs} :
                \A ms \in Msecs : MSEC_TO_TICKS(ms) <= m

\* the alarms that a list stands for, by the address of their event
Pending(list) ==
    [n \in Addresses(list) |->
        LET i == CHOOSE j \in DOMAIN list : list[j].node = n
        IN [func |-> list[i].func, left |-> Due(list, i)]]

Abstract == INSTANCE Alarms WITH
    Ids <- Nodes, pending <- Pending(evlist), inTick <- phase # "run"

\* The delta list implements the alarms: every function is called exactly once,
\* at the tick its own delay runs out, whatever was inserted before or after it,
\* cancelled, or fired in the same tick.
ImplementsAlarms == Abstract!Spec

\* The assertion in free(): no event is freed twice.
NoDoubleFree == stopped # "double free"

\* The comment on set_alarm: a function scheduled at least one tick ahead gets called
\* (unless it is cancelled, or the machine has stopped), although set_alarm is
\* interrupted by ticks before it has inserted the event.
AlarmIsCalled ==
    \A f \in Funcs : f \in wanted ~> (f \notin wanted \/ stopped # "no")

\* The list of events is sound in both respects above, at every step of the handler and
\* of the alarm functions it calls.
ListInv == TypeOK /\ ListIsAllocated
=============================================================================
