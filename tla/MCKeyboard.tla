----------------------------- MODULE MCKeyboard -----------------------------
(***************************************************************************)
(* Small instances of Keyboard.  Code "a" stands for alt and ctrl, its     *)
(* extended form for delete.                                               *)
(***************************************************************************)
EXTENDS Keyboard

Left(c) == <<FALSE, c>>
Right(c) == <<TRUE, c>>
\* code "b", like 4a and e0 35 (both KB_NUM_MINUS), is one key with a prefix or without
Set1 == [c \in Codes |-> IF c = "a" THEN "ctrl" ELSE "minus"]
Set1Ext == [c \in Codes |-> IF c = "a" THEN "del" ELSE "minus"]
Ctrl == {"ctrl"}
AllKeys == {"ctrl", "del", "minus"}

BothA == {Left("a"), Right("a")}
BothB == {Left("b"), Right("b")}
AllPlaces == BothA \union BothB

\* Pause: E1 and the codes of two other keys, first pressed and then released
Pause == <<Byte("b", FALSE), Byte("a", TRUE), Byte("b", TRUE),
           Byte("b", FALSE), Byte("a", FALSE), Byte("b", FALSE)>>
HasPause == {Pause}

-----------------------------------------------------------------------------
(***************************************************************************)
(* Two users.  One has a small keyboard, without Pause, and types for      *)
(* ever: the ring wraps and overflows.  The other has all the keys, and    *)
(* stops before the ring wraps; the program only looks for keys then.      *)
(***************************************************************************)
VARIABLE user

Users == {"typist", "player"}
MayType(u) ==
    \/ u = "typist" /\ held' \subseteq BothA /\ ~extra'
    \/ u = "player" /\ buf_widx' + Makes' < BUFSZ /\ ~waiting' /\ pc' # "p_dec"

MCInit == Init /\ user \in Users
MCNext == Next /\ MayType(user) /\ UNCHANGED user
MCSpec ==
    /\ MCInit /\ [][MCNext]_<<vars, user>>
    /\ WF_vars(Step) /\ WF_vars(kbintr) /\ WF_vars(timer_intr)
=============================================================================
