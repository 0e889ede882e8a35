------------------------------- MODULE BootDev -------------------------------
(***************************************************************************)
(* The boot device (src/src/bootdev.c, src/src/floppy.c): reads and writes *)
(* of sectors through BIOS calls, by LBA where the BIOS has the extension  *)
(* and by cylinder, head and sector otherwise, with retries and resets,    *)
(* and the alarm that stops the motor of a floppy drive.                   *)
(*                                                                         *)
(* What is transferred is the sequence of sector numbers the BIOS accesses *)
(* given the registers it is passed.  A sector number is <<hi, lo>>, the   *)
(* two halves of a 64 bit number.                                          *)
(***************************************************************************)
EXTENDS Integers, Sequences, FiniteSets

CONSTANTS
    Drives,        \* the drives: floppy, ext (int 13h extensions), cyls, heads, sects, and
                   \* multi: the BIOS transfers past the end of a track
    NRETRIES,      \* 3
    MaxFaults,     \* bound: BIOS errors in one call
    MotorTimeout,  \* FLOPPY_MOTOR_OFF_TIMEOUT in ticks
    Others         \* does the program set alarms of its own?

ASSUME BootDevAssumption ==
    /\ NRETRIES \in Nat \ {0} /\ MaxFaults \in Nat /\ MotorTimeout \in Nat \ {0}
    /\ Others \in BOOLEAN
    /\ \A d \in Drives :
        /\ d.cyls \in 1 .. 1024 /\ d.heads \in 1 .. 256 /\ d.sects \in 1 .. 63
        /\ d.floppy \in BOOLEAN /\ d.ext \in BOOLEAN

VARIABLES
    drive,         \* environment: the drive that was booted from
    status,        \* "boot", "ready", or why the machine stopped: "panic", "double free"
                   \* (free's panic), "hang", "undefined"
    have_bios_ext, bdev_is_floppy, num_cyl, num_heads, num_track_sect,
    motor,         \* environment: is the motor on?
    alarms,        \* the floppy_motors_off events on the list of alarms, by the ticks
                   \* until they are due
    evlist,        \* that list: "sound"; "freed": its head has been freed; "cyclic": its
                   \* head links to itself; "cut": alarms before the motor's are lost
    idle_ticks,    \* history: ticks since the last access began
    req,           \* the call in progress: fn, lba, n, loop counter, and where it is: before
                   \* set_alarm or in the BIOS; fn = "none" without one
    errs,          \* history: BIOS errors in this call
    res            \* result of the last call, and what was transferred

geometry == <<have_bios_ext, bdev_is_floppy, num_cyl, num_heads, num_track_sect>>
motors == <<motor, alarms, evlist, idle_ticks>>
bdev == <<drive, status, geometry, motors, req, errs, res>>

NoReq == [fn |-> "none", lba |-> <<0, 0>>, n |-> 0, i |-> 0, at |-> "none"]
NoRes == [code |-> "none", req |-> NoReq, xfer |-> << >>]
BdevInit ==
    /\ drive \in Drives
    /\ status = "boot"
    /\ have_bios_ext = FALSE /\ bdev_is_floppy = FALSE
    /\ num_cyl = 0 /\ num_heads = 0 /\ num_track_sect = 0
    /\ motor = FALSE /\ alarms = {} /\ evlist = "sound" /\ idle_ticks = 0
    /\ req = NoReq /\ errs = 0 /\ res = NoRes

-----------------------------------------------------------------------------
(***************************************************************************)
(* Register encodings of int 13h.                                          *)
(***************************************************************************)
\* the BIOS: function 8 returns the largest cylinder, head and sector
ParamCx == ((drive.cyls - 1) % 256) * 256 + ((drive.cyls - 1) \div 256) * 64 + drive.sects
ParamDx == (drive.heads - 1) * 256 + 1
\* the BIOS: the first sector it accesses, given cx and dx
SectorAt(cx, dx) ==
    LET c == ((cx \div 256) % 256) + ((cx \div 64) % 4) * 256
    IN (c * drive.heads + (dx \div 256)) * drive.sects + (cx % 64) - 1

\* get_drive_chs
\* Broken: the high bits of the cylinder are not moved into place.
Cylinders_high(cx) == ((cx \div 256) % 256) + (((cx \div 256) % 4) * 256) + 1
Cylinders(cx) == ((cx \div 256) % 256) + ((((cx * 4) \div 256) % 4) * 256) + 1
Heads(dx) == (dx \div 256) + 1
TrackSectors(cx) == cx % 64

\* calc_chs, for the low half of a sector number
\* Broken: sectors are counted from 0.
calc_chs_zero(lba) ==
    LET trk == lba \div num_track_sect
    IN [tsect |-> lba % num_track_sect, cyl |-> trk \div num_heads, head |-> trk % num_heads]
calc_chs(lba) ==
    LET trk == lba \div num_track_sect
    IN [tsect |-> (lba % num_track_sect) + 1, cyl |-> trk \div num_heads, head |-> trk % num_heads]

\* bios_rw_sect_chs: ((cyl << 8) & 0xff00) | ((cyl >> 10) & 0xc0) | tsect
Cx(chs) == (chs.cyl % 256) * 256 + ((chs.cyl \div 65536) % 4) * 64 + chs.tsect
Dx(chs) == chs.head * 256

-----------------------------------------------------------------------------
\* bdev_init
bdev_init ==
    /\ status = "boot"
    /\ have_bios_ext' = drive.ext
    /\ \/ /\ drive.ext
          /\ bdev_is_floppy' = drive.floppy
          /\ status' = "ready"
          /\ UNCHANGED <<num_cyl, num_heads, num_track_sect>>
       \/ /\ ~drive.ext        \* get_drive_chs
          /\ num_cyl' = Cylinders(ParamCx)
          /\ num_heads' = Heads(ParamDx)
          /\ num_track_sect' = TrackSectors(ParamCx)
          /\ bdev_is_floppy' = drive.floppy
          /\ status' = "ready"
       \/ /\ ~drive.ext        \* the query failed
          /\ status' = "panic"
          /\ UNCHANGED <<bdev_is_floppy, num_cyl, num_heads, num_track_sect>>
    /\ UNCHANGED <<drive, motors, req, errs, res>>

(***************************************************************************)
(* Every access to a floppy begins with cancel_alarm and set_alarm, with   *)
(* interrupts enabled in between.  Both are as in Timer: cancel_alarm      *)
(* frees an alarm at the head of the list but leaves it there.  Nothing    *)
(* else in the repository sets alarms, so the motor's is the head unless   *)
(* the program has set one that is due earlier.                            *)
(***************************************************************************)
\* Broken: nothing is cancelled.
Cancelled_not(as) == as
Cancelled(as) == {}
cancel_alarm ==
    \/ /\ alarms = {}
       /\ UNCHANGED <<status, alarms, evlist>>
    \/ /\ alarms # {} /\ evlist \in {"sound", "cut"}
       /\ \/ Others /\ alarms' = Cancelled(alarms) /\ UNCHANGED evlist
          \/ evlist' = "freed" /\ UNCHANGED alarms
       /\ UNCHANGED status
    \/ /\ evlist = "freed"             \* found again, and freed again
       /\ status' = "double free"
       /\ UNCHANGED <<alarms, evlist>>
    \/ /\ alarms # {} /\ evlist = "cyclic"
       /\ UNCHANGED <<status, alarms, evlist>>

(***************************************************************************)
(* The insertion behind a freed head.  malloc may hand out its address, as *)
(* it does when nothing else was allocated since: the event is then linked *)
(* to itself or, when other alarms are due before it, behind the last of   *)
(* those, while evlist still leads to it and past them.                    *)
(***************************************************************************)
AtFreedHead ==
    \/ evlist' = "freed" /\ alarms' = alarms \union {MotorTimeout}
    \/ evlist' = "cyclic" /\ alarms' = {1}
    \/ Others /\ evlist' = "cut" /\ \E left \in 1 .. MotorTimeout : alarms' = {left}
set_alarm ==
    /\ status = "ready" /\ req.at = "alarm"
    /\ \/ /\ evlist \in {"sound", "cut"}
          /\ alarms' = alarms \union {MotorTimeout}
          /\ req' = [req EXCEPT !.at = "bios"]
          /\ UNCHANGED <<status, evlist>>
       \/ /\ evlist = "freed"
          /\ AtFreedHead
          /\ req' = [req EXCEPT !.at = "bios"]
          /\ UNCHANGED status
       \/ /\ evlist = "cyclic"         \* the search for the place does not end
          /\ status' = "hang"
          /\ UNCHANGED <<alarms, evlist, req>>
       \/ /\ status' = "panic"         \* no memory
          /\ UNCHANGED <<alarms, evlist, req>>
    /\ UNCHANGED <<drive, geometry, motor, idle_ticks, errs, res>>

IsRead(fn) == fn \in {"read_sect", "read_range"}
\* Broken: only reads renew the alarm.
Renews_reads(fn) == bdev_is_floppy /\ IsRead(fn)
Renews(fn) == bdev_is_floppy
bdev_call(fn, lba, n) ==
    /\ status = "ready" /\ req.fn = "none"
    /\ IF Renews(fn) THEN cancel_alarm ELSE UNCHANGED <<status, alarms, evlist>>
    /\ req' = [fn |-> fn, lba |-> lba, n |-> n, i |-> 0,
               at |-> IF Renews(fn) THEN "alarm" ELSE "bios"]
    /\ errs' = 0 /\ res' = NoRes
    /\ idle_ticks' = 0
    /\ UNCHANGED <<drive, geometry, motor>>

InBios == status = "ready" /\ req.at = "bios"
\* a call whose sector number has more than 32 bits
calc_chs_panics ==
    /\ InBios
    /\ ~have_bios_ext /\ req.lba[1] > 0
    /\ status' = "panic"
    /\ UNCHANGED <<drive, geometry, motors, req, errs, res>>

From(hi, lo) == [k \in 1 .. req.n |-> <<hi, lo + k - 1>>]
Sectors ==
    IF have_bios_ext THEN From(req.lba[1], req.lba[2])
    ELSE LET c == calc_chs(req.lba[2])
         IN From(0, SectorAt(Cx(c), Dx(c)))
CrossesTrack == ~drive.multi /\ ~have_bios_ext /\ (req.lba[2] % drive.sects) + req.n > drive.sects

\* the call returns; the range functions return the count when they use LBA, else 0 or
\* the count, and -1 after an error: "done" stands for all but -1
Returns(code, xfer) ==
    /\ req' = NoReq
    /\ res' = [code |-> code, req |-> req, xfer |-> xfer]

\* one BIOS call
bios_ok ==
    /\ InBios /\ (have_bios_ext \/ req.lba[1] = 0)
    /\ ~CrossesTrack
    /\ motor' = (motor \/ drive.floppy)
    /\ Returns("done", Sectors)
    /\ UNCHANGED <<drive, status, geometry, alarms, evlist, idle_ticks, errs>>

\* Broken: the last retry is not made.
GiveUp_early(i) == i + 2 >= NRETRIES
\* Broken: one retry too many.
GiveUp_late(i) == i >= NRETRIES
GiveUp(i) == i + 1 = NRETRIES
\* reads by CHS are repeated after a reset, other accesses are not
bios_error ==
    /\ InBios /\ (have_bios_ext \/ req.lba[1] = 0)
    /\ CrossesTrack \/ errs < MaxFaults
    /\ motor' = (motor \/ drive.floppy)
    /\ errs' = errs + 1
    /\ \/ /\ have_bios_ext \/ ~IsRead(req.fn) \/ GiveUp(req.i)
          /\ Returns("failed", << >>)
       \/ /\ ~have_bios_ext /\ IsRead(req.fn) /\ ~GiveUp(req.i)
          /\ req' = [req EXCEPT !.i = @ + 1]
          /\ UNCHANGED res
    /\ UNCHANGED <<drive, status, geometry, alarms, evlist, idle_ticks>>

\* the timer: an event that is due is taken off the list, calls floppy_motors_off and is
\* freed; a head that links to itself, or was freed before, is freed twice.  The memory of
\* a freed head may also have been handed out: what follows then is undefined.
tick ==
    /\ status = "ready" /\ alarms # {}
    /\ alarms' = {t - 1 : t \in alarms \ {1}}
    /\ motor' = (motor /\ 1 \notin alarms)
    /\ \/ status' = IF 1 \in alarms /\ evlist \in {"freed", "cyclic"} THEN "double free" ELSE status
       \/ evlist = "freed" /\ status' = "undefined"
    /\ idle_ticks' = IF idle_ticks < MotorTimeout THEN idle_ticks + 1 ELSE idle_ticks
    /\ UNCHANGED <<drive, geometry, evlist, req, errs, res>>

BdevStep == set_alarm \/ calc_chs_panics \/ bios_ok \/ bios_error

-----------------------------------------------------------------------------
BdevTypeOK ==
    /\ drive \in Drives
    /\ status \in {"boot", "ready", "panic", "double free", "hang", "undefined"}
    /\ {have_bios_ext, bdev_is_floppy, motor} \subseteq BOOLEAN
    /\ num_cyl \in 0 .. 1024 /\ num_heads \in 0 .. 256 /\ num_track_sect \in 0 .. 63
    /\ alarms \subseteq 1 .. MotorTimeout /\ evlist \in {"sound", "freed", "cyclic", "cut"}
    /\ req.i \in 0 .. NRETRIES - 1 /\ req.at \in {"none", "alarm", "bios"}

\* bdev_init recovers the drive's geometry from the packed registers, up to 1024
\* cylinders, for every drive it is going to address by cylinder, head and sector.
GeometryIsRight ==
    (status = "ready" /\ ~have_bios_ext) =>
        num_cyl = drive.cyls /\ num_heads = drive.heads /\ num_track_sect = drive.sects

\* An access that succeeds has transferred the sectors that were asked for, whichever way
\* they were addressed and however often it was repeated.  Cylinders from 256 on are
\* addressed wrongly (bits 8 and 9 of the cylinder never reach the register).
CylinderOf(lba) == lba \div (drive.heads * drive.sects)
TransferIsExact ==
    (res.code = "done" /\ (have_bios_ext \/ CylinderOf(res.req.lba[2]) < 256)) =>
        res.xfer = [k \in 1 .. res.req.n |-> <<res.req.lba[1], res.req.lba[2] + k - 1>>]

\* A read by CHS fails only after NRETRIES errors in a row, any other access after one.
\* (A transfer past the end of a track, which some BIOSes refuse, fails every time.)
RetriesSuffice ==
    res.code = "failed" =>
        errs >= IF have_bios_ext \/ ~IsRead(res.req.fn) THEN 1 ELSE NRETRIES

\* The motor is not switched off within the timeout of the latest access, whatever accesses
\* came before it, as long as none of them cancelled the motor's alarm while it was the
\* next to fire.
MotorStaysOn ==
    [][(motor /\ ~motor' /\ evlist = "sound") => idle_ticks' >= MotorTimeout]_bdev

\* Under the same condition, a motor that runs has an alarm that will stop it, unless the
\* latest access has yet to set it, or lasted longer than the timeout (then nothing stops
\* the motor before another access).
MotorWillStop ==
    (motor /\ alarms = {} /\ evlist = "sound" /\ req.at # "alarm") => idle_ticks >= MotorTimeout

\* free's assertion (malloc.c:157) that nothing is freed twice, for the alarms of the floppy
\* drive's motor.
NoDoubleFree == status # "double free"
=============================================================================
