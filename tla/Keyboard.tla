------------------------------ MODULE Keyboard ------------------------------
(***************************************************************************)
(* The keyboard driver (src/src/keyb.c): the interrupt handler kbintr,     *)
(* which decodes scan codes into a ring buffer and a table of pressed      *)
(* keys, and the main program's kb_getkey, kb_putback and kb_wait, which   *)
(* use the same indices with interrupts enabled.                           *)
(*                                                                         *)
(* The main program is followed one memory access at a time (the program   *)
(* is compiled without optimisation, so that each use of buf_ridx or       *)
(* buf_widx is a load or a store of its own); kbintr runs with interrupts  *)
(* off and is one step per byte.                                           *)
(***************************************************************************)
EXTENDS Integers, Sequences, FiniteSets

CONSTANTS
    BUFSZ,        \* size of the ring buffer (64)
    Codes,        \* scan codes without the release bit
    Keys,         \* what the driver takes them for, the 0 of the unused ones included
    scantbl_set1, scantbl_set1_ext,   \* the tables of kbscan.h
    NoKey,        \* the -1 of kb_getkey
    UserKeys,     \* the keys the user has, each <<extended, code>>
    Extras,       \* what the keyboard sends besides a code for every key: the bytes of the
                  \* Pause key, which begin with E1 (a release of code 61 to kbintr), and the
                  \* shifts around some extended keys
    AltKeys, CtrlKeys, DelKey,   \* left and right alt and ctrl, and delete
    Typematic,    \* does the keyboard repeat the code of a key that is held?
    Preempt,      \* interrupts inside kb_getkey, kb_putback and kb_wait: "any", or
                  \* "room": only while the buffer has room for another key
    MaxUnread,    \* bound: the user does not type while so many keys are unread
    MaxPressed,   \* bound: nor while num_pressed has this value
    MaxWire,      \* bound: bytes in the keyboard controller, except for one of Extras
    Putbacks      \* keys the main program passes to kb_putback itself

Places == BOOLEAN \X Codes      \* keys by what they send: <<extended, code>>
E0 == [e0 |-> TRUE]
Byte(code, make) == [e0 |-> FALSE, code |-> code, make |-> make]
WireByte == {E0} \union [e0 : {FALSE}, code : Codes, make : BOOLEAN]

ASSUME KeyboardAssumption ==
    /\ BUFSZ \in Nat \ {0, 1}
    /\ NoKey \notin Keys
    /\ scantbl_set1 \in [Codes -> Keys] /\ scantbl_set1_ext \in [Codes -> Keys]
    /\ UserKeys \subseteq Places /\ Extras \subseteq Seq(WireByte)
    /\ AltKeys \union CtrlKeys \union Putbacks \subseteq Keys
    /\ Typematic \in BOOLEAN /\ Preempt \in {"any", "room"}
    /\ {MaxUnread, MaxPressed, MaxWire} \subseteq Nat

VARIABLES
    buffer, buf_ridx, buf_widx,      \* the ring
    num_pressed, keystate, ext,      \* the decoder
    heard,     \* history: for every code, whether its last byte was a press
    extra,     \* history: the keyboard has sent one of Extras
    held,      \* environment: keys that are physically down
    wire,      \* environment: bytes waiting in the keyboard controller
    pc, waiting,   \* where the main program is, and whether inside kb_wait
    tmp, res,      \* its registers: an index, and the key it reads or puts back
    got,           \* what kb_getkey returned last
    owed,          \* history: how many keys the ring should hold (see OnlyOldestDiscarded)
    intr_flag,
    rebooting      \* kbintr has called reboot()

ring == <<buffer, buf_ridx, buf_widx, owed>>
decoder == <<num_pressed, keystate, ext, heard, extra>>
main == <<pc, waiting, tmp, res, got>>
vars == <<ring, decoder, held, wire, main, intr_flag, rebooting>>

\* ADVANCE
Succ(x) == (x + 1) % BUFSZ

\* kb_init; the main program may be running with interrupts off
Init ==
    /\ buffer = [i \in 0 .. BUFSZ - 1 |-> NoKey]
    /\ buf_ridx = 0 /\ buf_widx = 0
    /\ num_pressed = 0 /\ keystate = [k \in Keys |-> 0] /\ ext = FALSE
    /\ heard = [p \in Places |-> 0] /\ extra = FALSE
    /\ held = {} /\ wire = << >>
    /\ pc = "idle" /\ waiting = FALSE
    /\ tmp = 0 /\ res = NoKey /\ got = NoKey
    /\ owed = 0
    /\ intr_flag \in {0, 1}
    /\ rebooting = FALSE

-----------------------------------------------------------------------------
(***************************************************************************)
(* The keyboard: extended keys send a prefix byte first.                   *)
(***************************************************************************)
Bytes(k, make) == (IF k[1] THEN <<E0>> ELSE << >>) \o <<Byte(k[2], make)>>
Unread == (buf_widx - buf_ridx) % BUFSZ
Makes == Cardinality({i \in DOMAIN wire : ~wire[i].e0 /\ wire[i].make})

Sends(k, make) ==
    /\ Len(wire \o Bytes(k, make)) <= MaxWire
    /\ wire' = wire \o Bytes(k, make)
Types(k) ==
    /\ ~rebooting
    /\ Unread + Makes < MaxUnread
    /\ num_pressed + Makes < MaxPressed
    /\ Sends(k, TRUE)
key_down(k) ==
    /\ k \notin held
    /\ Types(k)
    /\ held' = held \union {k}
    /\ UNCHANGED <<ring, decoder, main, intr_flag, rebooting>>
key_repeat(k) ==
    /\ Typematic
    /\ k \in held
    /\ Types(k)
    /\ UNCHANGED <<held, ring, decoder, main, intr_flag, rebooting>>
key_up(k) ==
    /\ ~rebooting
    /\ k \in held
    /\ Sends(k, FALSE)
    /\ held' = held \ {k}
    /\ UNCHANGED <<ring, decoder, main, intr_flag, rebooting>>
sends_extra(s) ==
    /\ ~rebooting
    /\ wire = << >> \/ Len(wire \o s) <= MaxWire
    /\ wire' = wire \o s
    /\ extra' = TRUE
    /\ UNCHANGED <<held, ring, num_pressed, keystate, ext, heard, main, intr_flag, rebooting>>

(***************************************************************************)
(* kbintr.  An interrupt also ends the halt of kb_wait.                    *)
(***************************************************************************)
PuttingBack == pc \in {"p_wrap", "p_wrap_store", "p_cmp_r", "p_cmp_w", "p_adv",
                       "p_adv_store", "p_idx", "p_elem"}
\* places taken, with the key that is being put back
Taken == owed + IF PuttingBack \/ pc \in {"p_dec", "p_dec_store"} THEN 1 ELSE 0
CanInterrupt ==
    /\ ~rebooting
    /\ intr_flag = 1
    /\ pc \in {"idle", "halt"} \/ Preempt = "any" \/ Taken < BUFSZ - 1
Wake == pc' = IF pc = "halt" THEN "g_cmp_r" ELSE pc
IrqReturns == Wake /\ UNCHANGED <<waiting, tmp, res, got, intr_flag>>

\* Broken: the read end is not advanced.
PutKey_overtake(key) ==
    /\ buffer' = [buffer EXCEPT ![buf_widx] = key]
    /\ buf_widx' = Succ(buf_widx)
    /\ UNCHANGED <<buf_ridx, owed>>

\* append to the buffer; if the write end overtook the read end, advance that too
PutKey(key) ==
    /\ buffer' = [buffer EXCEPT ![buf_widx] = key]
    /\ buf_widx' = Succ(buf_widx)
    /\ buf_ridx' = IF buf_ridx = Succ(buf_widx) THEN Succ(buf_ridx) ELSE buf_ridx
    /\ owed' = IF buf_ridx = Succ(buf_widx) THEN owed ELSE owed + 1

\* the tables are not injective: some keys have two codes, and unused codes are all 0
KeyOf(p) == IF p[1] THEN scantbl_set1_ext[p[2]] ELSE scantbl_set1[p[2]]
IsDown(S) == \E k \in S : keystate[k] = 1

kbintr_prefix ==
    /\ CanInterrupt
    /\ wire # << >> /\ Head(wire).e0
    /\ ext' = TRUE
    /\ wire' = Tail(wire)
    /\ IrqReturns
    /\ UNCHANGED <<ring, num_pressed, keystate, heard, extra, held, rebooting>>

kbintr_press ==
    /\ CanInterrupt
    /\ wire # << >> /\ ~Head(wire).e0 /\ Head(wire).make
    /\ num_pressed' = num_pressed + 1
    /\ ext' = FALSE
    /\ LET place == <<ext, Head(wire).code>>
           key == KeyOf(place)
       IN IF key = DelKey /\ IsDown(AltKeys) /\ IsDown(CtrlKeys)
          THEN rebooting' = TRUE /\ UNCHANGED <<ring, keystate, heard>>
          ELSE /\ PutKey(key)
               /\ keystate' = [keystate EXCEPT ![key] = 1]
               /\ heard' = [heard EXCEPT ![place] = 1]
               /\ UNCHANGED rebooting
    /\ wire' = Tail(wire)
    /\ IrqReturns
    /\ UNCHANGED <<held, extra>>

\* Broken: the count is reset; the prefix is applied to the next code too.
Released(count, prefix) ==
    /\ CanInterrupt
    /\ wire # << >> /\ ~Head(wire).e0 /\ ~Head(wire).make
    /\ num_pressed' = count
    /\ ext' = prefix
    /\ LET place == <<ext, Head(wire).code>>
       IN /\ keystate' = [keystate EXCEPT ![KeyOf(place)] = 0]
          /\ heard' = [heard EXCEPT ![place] = 0]
    /\ wire' = Tail(wire)
    /\ IrqReturns
    /\ UNCHANGED <<ring, held, extra, rebooting>>
kbintr_release_reset == Released(0, FALSE)
kbintr_release_prefixed ==
    Released(IF num_pressed > 0 THEN num_pressed - 1 ELSE num_pressed, ext)
kbintr_release ==
    /\ CanInterrupt
    /\ wire # << >> /\ ~Head(wire).e0 /\ ~Head(wire).make
    /\ num_pressed' = IF num_pressed > 0 THEN num_pressed - 1 ELSE num_pressed
    /\ ext' = FALSE
    /\ LET place == <<ext, Head(wire).code>>
       IN /\ keystate' = [keystate EXCEPT ![KeyOf(place)] = 0]
          /\ heard' = [heard EXCEPT ![place] = 0]
    /\ wire' = Tail(wire)
    /\ IrqReturns
    /\ UNCHANGED <<ring, held, extra, rebooting>>

\* any other interrupt, such as the timer's, 250 times a second
timer_intr ==
    /\ CanInterrupt
    /\ pc = "halt"
    /\ IrqReturns
    /\ UNCHANGED <<ring, decoder, held, wire, rebooting>>

-----------------------------------------------------------------------------
(***************************************************************************)
(* The main program: one action per memory access.                         *)
(***************************************************************************)
At(l) == pc = l /\ ~rebooting
Env == <<decoder, held, wire, intr_flag, rebooting>>

LoadRidx(from, to) ==
    /\ At(from)
    /\ tmp' = buf_ridx
    /\ pc' = to
    /\ UNCHANGED <<ring, waiting, res, got, Env>>
StoreRidx(from, to, value) ==
    /\ At(from)
    /\ buf_ridx' = value
    /\ pc' = to
    /\ UNCHANGED <<buffer, buf_widx, waiting, tmp, res, Env>>

\* calls
call_getkey ==
    /\ At("idle")
    /\ pc' = "g_cmp_r"
    /\ waiting' = FALSE
    /\ owed' = Unread
    /\ UNCHANGED <<buffer, buf_ridx, buf_widx, tmp, res, got, Env>>
call_wait ==
    /\ At("idle")
    /\ pc' = "g_cmp_r"
    /\ waiting' = TRUE
    /\ owed' = Unread
    /\ UNCHANGED <<buffer, buf_ridx, buf_widx, tmp, res, got, Env>>
call_putback(key) ==
    /\ At("idle")
    /\ pc' = "p_dec"
    /\ waiting' = FALSE
    /\ res' = key
    /\ owed' = Unread
    /\ UNCHANGED <<buffer, buf_ridx, buf_widx, tmp, got, Env>>

\* kb_getkey: if(buf_ridx == buf_widx) return -1;
getkey_cmp_ridx == LoadRidx("g_cmp_r", "g_cmp_w")
getkey_cmp_widx ==
    /\ At("g_cmp_w")
    /\ \/ /\ tmp = buf_widx
          /\ got' = NoKey
          /\ pc' = IF waiting THEN "sti" ELSE "idle"
       \/ /\ tmp # buf_widx
          /\ pc' = "g_idx"
          /\ UNCHANGED got
    /\ UNCHANGED <<ring, waiting, tmp, res, Env>>
\* res = buffer[buf_ridx];
getkey_index == LoadRidx("g_idx", "g_elem")
getkey_elem ==
    /\ At("g_elem")
    /\ res' = buffer[tmp]
    /\ pc' = "g_adv"
    /\ UNCHANGED <<ring, waiting, tmp, got, Env>>
\* ADVANCE(buf_ridx); return res;
getkey_adv_load == LoadRidx("g_adv", "g_store")
getkey_adv_store ==
    /\ StoreRidx("g_store", IF waiting THEN "p_dec" ELSE "idle", Succ(tmp))
    /\ got' = res
    /\ owed' = owed - 1

\* kb_wait: enable_intr(); halt_cpu(); an interrupt leads back to kb_getkey
\* Broken: interrupts are left as they are.
enable_intr_not == intr_flag' = intr_flag
enable_intr == intr_flag' = 1
wait_sleep ==
    /\ At("sti")
    /\ enable_intr
    /\ pc' = "hlt"
    /\ UNCHANGED <<ring, decoder, held, wire, waiting, tmp, res, got, rebooting>>
halt_cpu ==
    /\ At("hlt")
    /\ pc' = "halt"
    /\ UNCHANGED <<ring, waiting, tmp, res, got, Env>>

\* kb_putback: if(--buf_ridx < 0) buf_ridx += BUFSZ;
putback_dec_load == LoadRidx("p_dec", "p_dec_store")
\* Broken: no wrap below zero.
putback_dec_store_nowrap ==
    StoreRidx("p_dec_store", "p_cmp_r", tmp - 1) /\ UNCHANGED <<got, owed>>
putback_dec_store ==
    StoreRidx("p_dec_store", IF tmp - 1 < 0 THEN "p_wrap" ELSE "p_cmp_r", tmp - 1)
    /\ UNCHANGED <<got, owed>>
putback_wrap_load == LoadRidx("p_wrap", "p_wrap_store")
putback_wrap_store ==
    StoreRidx("p_wrap_store", "p_cmp_r", tmp + BUFSZ) /\ UNCHANGED <<got, owed>>
\* if(buf_ridx == buf_widx) ADVANCE(buf_ridx);
putback_cmp_ridx == LoadRidx("p_cmp_r", "p_cmp_w")
putback_cmp_widx ==
    /\ At("p_cmp_w")
    /\ pc' = IF tmp = buf_widx THEN "p_adv" ELSE "p_idx"
    /\ UNCHANGED <<ring, waiting, tmp, res, got, Env>>
putback_adv_load == LoadRidx("p_adv", "p_adv_store")
putback_adv_store == StoreRidx("p_adv_store", "p_idx", Succ(tmp)) /\ UNCHANGED <<got, owed>>
\* buffer[buf_ridx] = key;
putback_index == LoadRidx("p_idx", "p_elem")
putback_elem ==
    /\ At("p_elem")
    /\ buffer' = [i \in DOMAIN buffer |-> IF i = tmp THEN res ELSE buffer[i]]
    /\ pc' = "idle"
    /\ waiting' = FALSE
    /\ owed' = IF owed < BUFSZ - 1 THEN owed + 1 ELSE owed
    /\ UNCHANGED <<buf_ridx, buf_widx, tmp, res, got, Env>>

reboot == rebooting /\ UNCHANGED vars

Step ==
    \/ getkey_cmp_ridx \/ getkey_cmp_widx \/ getkey_index \/ getkey_elem
    \/ getkey_adv_load \/ getkey_adv_store
    \/ wait_sleep \/ halt_cpu
    \/ putback_dec_load \/ putback_dec_store \/ putback_wrap_load \/ putback_wrap_store
    \/ putback_cmp_ridx \/ putback_cmp_widx \/ putback_adv_load \/ putback_adv_store
    \/ putback_index \/ putback_elem
kbintr == kbintr_prefix \/ kbintr_press \/ kbintr_release

Next ==
    \/ \E k \in UserKeys : key_down(k) \/ key_repeat(k) \/ key_up(k)
    \/ \E s \in Extras : sends_extra(s)
    \/ kbintr_prefix \/ kbintr_press \/ kbintr_release
    \/ timer_intr
    \/ call_getkey \/ call_wait \/ \E key \in Putbacks : call_putback(key)
    \/ Step
    \/ reboot

\* The main program runs, the controller's and the timer's interrupts are taken
\* when they are enabled.
Spec == Init /\ [][Next]_vars /\ WF_vars(Step) /\ WF_vars(kbintr) /\ WF_vars(timer_intr)

-----------------------------------------------------------------------------
\* Indices stay inside the buffer (buf_ridx is -1 for a moment in kb_putback).
TypeOK ==
    /\ buffer \in [0 .. BUFSZ - 1 -> Keys \union {NoKey}]
    /\ buf_ridx \in -1 .. BUFSZ - 1 /\ buf_widx \in 0 .. BUFSZ - 1
    /\ buf_ridx = -1 => pc \in {"p_wrap", "p_wrap_store"}
    /\ num_pressed \in Nat /\ keystate \in [Keys -> {0, 1}] /\ ext \in BOOLEAN
    /\ heard \in [Places -> {0, 1}] /\ extra \in BOOLEAN
    /\ held \subseteq Places /\ wire \in Seq(WireByte)
    /\ waiting \in BOOLEAN /\ tmp \in -1 .. BUFSZ - 1
    /\ res \in Keys \union {NoKey} /\ got \in Keys \union {NoKey}
    /\ owed \in -1 .. BUFSZ
    /\ intr_flag \in {0, 1} /\ rebooting \in BOOLEAN

\* The keys in the ring.  From the moment kb_putback has moved buf_ridx the key it
\* is putting back counts as the first one.
From(i) == [j \in 1 .. (buf_widx - i) % BUFSZ |-> buffer[(i + j - 1) % BUFSZ]]
Contents ==
    IF ~PuttingBack THEN From(buf_ridx)
    ELSE LET q == From(IF buf_ridx % BUFSZ = buf_widx THEN buf_ridx + 1 ELSE buf_ridx)
         IN <<res>> \o Tail(q)

Queue == INSTANCE KeyQueue WITH Capacity <- BUFSZ - 1, queue <- Contents

\* The ring is the queue keyb.h describes: kb_getkey returns the keys in the order
\* they were pressed, a press into a full buffer discards the oldest key and no
\* other (the comment in kbintr), a putback comes out next.
ImplementsQueue == Queue!Spec

\* The comment in kbintr: overtaking the read end discards "the oldest keypress".
\* owed counts the keys at the last call of the main program, plus those pressed
\* into a free place since, less the one kb_getkey removed; each press into a full
\* buffer replaces one key by another.  When the call is over the ring holds no
\* fewer.
OnlyOldestDiscarded == pc = "idle" => Unread >= owed

Quiet == wire = << >> /\ ~rebooting

\* keyb.h on kb_isdown: KB_ANY tests "if any key is held down".  It overlooks no key,
\* although repeated codes, codes that share a key and keys released in any order share
\* one counter; unless the keyboard has sent bytes that belong to no key's code.
AnyKeyIsSeen == Quiet /\ ~extra /\ held # {} => num_pressed > 0

\* The table kb_isdown reads, once the keyboard's bytes are handled: a key it tells to
\* be down is held, and one that is held is told, if it shares its table entry with no
\* other.  The prefix byte, which comes in an interrupt of its own, is always applied to
\* the code it belongs to.
Alone(p) == \A q \in Places : KeyOf(q) = KeyOf(p) => q = p
KeystateIsExact ==
    Quiet /\ ~extra =>
        /\ \A k \in Keys : keystate[k] = 1 => \E p \in held : KeyOf(p) = k
        /\ \A p \in held : Alone(p) => keystate[KeyOf(p)] = 1

\* keyb.h:56-57: kb_isdown tests "the current state of a particular key", and KB_ANY "if
\* any key is held down".
AnyKeyHeld == Quiet /\ held # {} => num_pressed > 0
EveryKeyHeld == Quiet => \A p \in held : keystate[KeyOf(p)] = 1

\* kb_wait returns once a key is in the buffer or on its way, although it may come
\* between the last look at the buffer and the halt instruction, and although the
\* caller may have had interrupts disabled.
WaitReturns ==
    (waiting /\ (buf_ridx # buf_widx \/ Makes > 0)) ~> (~waiting \/ rebooting)

\* What kb_isdown tells agrees with the keyboard, for one key and for KB_ANY, and the ring's
\* indices are in range at every memory access.
KeystateInv == TypeOK /\ AnyKeyIsSeen /\ KeystateIsExact
=============================================================================
