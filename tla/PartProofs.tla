----------------------------- MODULE PartProofs -----------------------------
(***************************************************************************)
(* Proofs about the boot device and the partition table reader, for every  *)
(* drive geometry the BIOS can report, every disk, every sequence of       *)
(* accesses and errors.                                                    *)
(***************************************************************************)
EXTENDS Part, FiniteSetTheorems, SequenceTheorems, TLAPS, WellFoundedInduction

-----------------------------------------------------------------------------
(***************************************************************************)
(* Registers of int 13h.  The packed numbers of function 8 give the        *)
(* geometry back, and a sector number goes through cylinder, head and      *)
(* sector and the registers and comes out as it was, below cylinder 256.   *)
(***************************************************************************)
LEMMA DivFacts ==
    ASSUME NEW a \in Nat, NEW b \in Nat \ {0}
    PROVE  \E q \in Nat, r \in 0 .. b - 1 : q = a \div b /\ r = a % b /\ a = b * q + r
<1>1. a % b \in 0 .. b - 1 /\ a \div b \in Int
  OBVIOUS
<1>2. PICK q \in Int, r \in 0 .. b - 1 : q = a \div b /\ r = a % b
  BY <1>1
<1>3. a = b * q + r
  BY <1>2
<1>4. q \in Nat
  BY <1>2
<1> QED BY <1>2, <1>3, <1>4

LEMMA TimesFacts ==
    ASSUME NEW x \in Int, NEW y \in Int, NEW z \in Int
    PROVE  x * (y + z) = x * y + x * z /\ x * (y * z) = (x * y) * z /\ x * y = y * x
  OBVIOUS

\* a field above another one
LEMMA FieldFacts ==
    /\ \A q \in Nat, r \in 0 .. 255 : (q * 256 + r) \div 256 = q /\ (q * 256 + r) % 256 = r
    /\ \A q \in Nat, r \in 0 .. 63 : (q * 64 + r) % 64 = r
    /\ \A q \in Nat, r \in 0 .. 3 : (q * 4 + r) % 4 = r
<1>1. ASSUME NEW q \in Nat, NEW r \in 0 .. 255 PROVE (q * 256 + r) \div 256 = q
  BY SMTT(60)
<1>2. ASSUME NEW q \in Nat, NEW r \in 0 .. 255 PROVE (q * 256 + r) % 256 = r
  BY SMTT(60)
<1>3. ASSUME NEW q \in Nat, NEW r \in 0 .. 63 PROVE (q * 64 + r) % 64 = r
  BY SMTT(60)
<1>4. ASSUME NEW q \in Nat, NEW r \in 0 .. 3 PROVE (q * 4 + r) % 4 = r
  BY SMTT(60)
<1> QED BY <1>1, <1>2, <1>3, <1>4, ZenonT(60)

LEMMA GeometryFacts ==
    ASSUME drive \in Drives
    PROVE  /\ Cylinders(ParamCx) = drive.cyls
           /\ Heads(ParamDx) = drive.heads
           /\ TrackSectors(ParamCx) = drive.sects
<1>0. drive.cyls \in 1 .. 1024 /\ drive.heads \in 1 .. 256 /\ drive.sects \in 1 .. 63
  BY BootDevAssumption, SMTT(60)
<1>1. PICK c : c = drive.cyls /\ c \in 1 .. 1024
  BY <1>0
<1>2. PICK h : h = drive.heads /\ h \in 1 .. 256
  BY <1>0
<1>3. PICK s : s = drive.sects /\ s \in 1 .. 63
  BY <1>0
<1>4. PICK hi \in 0 .. 3 : c - 1 - hi * 256 \in 0 .. 255
  <2>1. CASE c - 1 < 256
    BY <1>1, <2>1
  <2>2. CASE c - 1 >= 256 /\ c - 1 < 512
    BY <1>1, <2>2
  <2>3. CASE c - 1 >= 512 /\ c - 1 < 768
    BY <1>1, <2>3
  <2>4. CASE c - 1 >= 768
    BY <1>1, <2>4
  <2> QED BY <1>1, <2>1, <2>2, <2>3, <2>4
<1>5. PICK lo \in 0 .. 255 : lo = c - 1 - hi * 256
  BY <1>4
<1>6. (c - 1) \div 256 = hi /\ (c - 1) % 256 = lo
  <2>1. hi \in Nat /\ c - 1 = hi * 256 + lo
    BY <1>1, <1>5
  <2>2. (hi * 256 + lo) \div 256 = hi /\ (hi * 256 + lo) % 256 = lo
    BY <2>1, FieldFacts, ZenonT(60)
  <2> QED BY <2>1, <2>2
<1>7. PICK cx \in Nat : cx = lo * 256 + hi * 64 + s
  BY <1>3
<1>8. ParamCx = cx
  BY <1>1, <1>3, <1>6, <1>7 DEF ParamCx
<1>9. cx \div 256 = lo
  <2>1. PICK a \in 0 .. 255 : a = hi * 64 + s
    BY <1>3
  <2>2. cx = lo * 256 + a /\ lo \in Nat
    BY <1>3, <1>7, <2>1
  <2>3. (lo * 256 + a) \div 256 = lo
    BY <2>2, FieldFacts, ZenonT(60)
  <2> QED BY <2>2, <2>3
<1>10. PICK d \in Nat : d = lo * 4 + hi
  OBVIOUS
<1>11. (cx * 4) \div 256 = d
  <2>1. PICK b \in 0 .. 255 : b = s * 4
    BY <1>3
  <2>2. cx * 4 = d * 256 + b
    BY <1>3, <1>7, <1>10, <2>1
  <2>3. (d * 256 + b) \div 256 = d
    BY FieldFacts, ZenonT(60)
  <2> QED BY <2>2, <2>3
<1>12. cx % 64 = s
  <2>1. cx = d * 64 + s /\ s \in 0 .. 63
    BY <1>3, <1>7, <1>10
  <2>2. (d * 64 + s) % 64 = s
    BY <2>1, FieldFacts, ZenonT(60)
  <2> QED BY <2>1, <2>2
<1>13. d % 4 = hi
  <2>1. (lo * 4 + hi) % 4 = hi /\ lo \in Nat
    BY FieldFacts
  <2> QED BY <1>10, <2>1
<1>14. Cylinders(ParamCx) = c
  <2>1. lo % 256 = lo
    OBVIOUS
  <2>2. Cylinders(ParamCx) = lo + hi * 256 + 1
    BY <1>8, <1>9, <1>11, <1>13, <2>1 DEF Cylinders
  <2>3. c = lo + hi * 256 + 1
    BY <1>1, <1>5
  <2> QED BY <2>2, <2>3
<1>15. TrackSectors(ParamCx) = s
  BY <1>8, <1>12 DEF TrackSectors
<1>16. Heads(ParamDx) = h
  BY <1>2 DEF Heads, ParamDx
<1> QED BY <1>1, <1>2, <1>3, <1>14, <1>15, <1>16

\* calc_chs, bios_rw_sect_chs and the BIOS, for a sector below cylinder 256
LEMMA AddressFacts ==
    ASSUME drive \in Drives, num_heads = drive.heads, num_track_sect = drive.sects,
           NEW lba \in Nat, CylinderOf(lba) < 256
    PROVE  SectorAt(Cx(calc_chs(lba)), Dx(calc_chs(lba))) = lba
<1>1. drive.heads \in 1 .. 256 /\ drive.sects \in 1 .. 63
  BY BootDevAssumption
<1>2. PICK h \in 1 .. 256, s \in 1 .. 63 : h = drive.heads /\ s = drive.sects
  BY <1>1
<1>3. h \in Nat \ {0} /\ s \in Nat \ {0}
  OBVIOUS
<1>4. PICK trk \in Nat, ts \in 0 .. s - 1 : trk = lba \div s /\ ts = lba % s /\ lba = s * trk + ts
  BY <1>3, DivFacts
<1>5. PICK cyl \in Nat, hd \in 0 .. h - 1 : cyl = trk \div h /\ hd = trk % h /\ trk = h * cyl + hd
  BY <1>3, DivFacts
<1>6. cyl < 256
  <2>1. PICK hs \in Nat \ {0} : hs = h * s
    <3>1. h * s \in Nat /\ h * s # 0
      OBVIOUS
    <3> QED BY <3>1
  <2>2. lba \div hs < 256
    BY <1>2, <2>1 DEF CylinderOf
  <2>3. PICK q \in Nat, r \in 0 .. hs - 1 : q = lba \div hs /\ lba = hs * q + r
    BY DivFacts
  <2>4. q <= 255
    BY <2>2, <2>3
  <2>5. hs * q <= hs * 255
    BY <2>4
  <2>6. lba < hs * 256
    BY <2>3, <2>5
  <2>7. lba = hs * cyl + s * hd + ts
    <3>1. PICK m \in Int : m = h * cyl
      OBVIOUS
    <3>2. s * (m + hd) = s * m + s * hd
      BY TimesFacts
    <3>3. s * m = hs * cyl
      <4>1. s * (h * cyl) = (s * h) * cyl /\ s * h = h * s
        BY TimesFacts
      <4> QED BY <2>1, <3>1, <4>1
    <3>4. trk = m + hd
      BY <1>5, <3>1
    <3>5. s * trk = hs * cyl + s * hd
      BY <3>2, <3>3, <3>4
    <3> QED BY <1>4, <3>5
  <2>8. s * hd >= 0
    OBVIOUS
  <2>9. hs * cyl < hs * 256
    BY <2>6, <2>7, <2>8
  <2>10. ASSUME cyl >= 256 PROVE FALSE
    <3>1. PICK e \in Nat : cyl = 256 + e
      BY <2>10
    <3>2. hs * cyl = hs * 256 + hs * e /\ hs * e >= 0
      BY <3>1
    <3> QED BY <2>9, <3>2
  <2> QED BY <2>10
<1>7. calc_chs(lba) = [tsect |-> ts + 1, cyl |-> cyl, head |-> hd]
  BY <1>2, <1>4, <1>5 DEF calc_chs
<1>8. PICK cx \in Nat, dx \in Nat : cx = cyl * 256 + ts + 1 /\ dx = hd * 256
  OBVIOUS
<1>9. Cx(calc_chs(lba)) = cx /\ Dx(calc_chs(lba)) = dx
  <2>1. cyl % 256 = cyl /\ cyl \div 65536 = 0 /\ 0 % 4 = 0
    BY <1>6
  <2> QED BY <1>7, <1>8, <2>1 DEF Cx, Dx
<1>10. (cx \div 256) % 256 = cyl /\ (cx \div 64) % 4 = 0 /\ cx % 64 = ts + 1 /\ dx \div 256 = hd
  <2>1. ts + 1 \in 1 .. 63
    OBVIOUS
  <2>2. cx \div 256 = cyl /\ cx \div 64 = 4 * cyl /\ cx % 64 = ts + 1 /\ dx \div 256 = hd
    BY <1>6, <1>8, <2>1
  <2> QED BY <1>6, <2>2
<1>11. SectorAt(cx, dx) = (cyl * h + hd) * s + (ts + 1) - 1
  <2>1. PICK c, d, t : /\ c = ((cx \div 256) % 256) + ((cx \div 64) % 4) * 256
                       /\ d = dx \div 256 /\ t = cx % 64
    OBVIOUS
  <2>2. c = cyl /\ d = hd /\ t = ts + 1
    BY <1>10, <2>1
  <2>3. SectorAt(cx, dx) = (c * h + d) * s + t - 1
    BY <1>2, <2>1, ZenonT(60) DEF SectorAt
  <2> QED BY <2>2, <2>3
<1>12. (cyl * h + hd) * s + (ts + 1) - 1 = lba
  <2>1. cyl * h + hd = trk
    BY <1>5, TimesFacts
  <2>2. PICK m \in Int : m = s * trk /\ m = trk * s
    BY TimesFacts
  <2>3. m + (ts + 1) - 1 = lba
    BY <1>4, <2>2
  <2> QED BY <2>1, <2>2, <2>3
<1> QED BY <1>9, <1>11, <1>12

-----------------------------------------------------------------------------
(***************************************************************************)
(* Accesses.                                                               *)
(***************************************************************************)
CallNames == {"none", "read_sect", "write_sect", "read_range", "write_range"}
ReqType(r) ==
    r \in [fn : CallNames, lba : Nat \X Nat, n : Nat, i : 0 .. NRETRIES - 1,
          at : {"none", "alarm", "bios"}]
Statuses == {"boot", "ready", "panic", "double free", "hang", "undefined"}

DeviceType ==
    /\ drive \in Drives /\ status \in Statuses
    /\ have_bios_ext \in BOOLEAN /\ bdev_is_floppy \in BOOLEAN
    /\ num_cyl \in 0 .. 1024 /\ num_heads \in 0 .. 256 /\ num_track_sect \in 0 .. 63
    /\ ReqType(req) /\ errs \in Nat
Booting == status = "boot" => req.fn = "none" /\ res.code = "none"
\* a read by CHS has been tried once for every error
InProgress ==
    (req.fn # "none" /\ ~have_bios_ext) => (IsRead(req.fn) => errs = req.i)
AccessIInv ==
    /\ DeviceType /\ Booting /\ InProgress
    /\ GeometryIsRight /\ TransferIsExact /\ RetriesSuffice

accessing == <<drive, status, geometry, req, errs, res>>

LEMMA NoReqFacts ==
    /\ NoReq.fn = "none" /\ ReqType(NoReq) /\ NoRes.code = "none"
<1>1. NRETRIES \in Nat \ {0}
  BY BootDevAssumption
<1> QED BY <1>1 DEF NoReq, NoRes, ReqType, CallNames

LEMMA AccessInit == BdevInit => AccessIInv
<1> SUFFICES ASSUME BdevInit PROVE AccessIInv
  OBVIOUS
<1>1. DeviceType
  <2>1. have_bios_ext \in BOOLEAN /\ bdev_is_floppy \in BOOLEAN
    BY Zenon DEF BdevInit
  <2> QED BY <2>1, NoReqFacts DEF BdevInit, DeviceType, Statuses
<1> QED BY <1>1, NoReqFacts DEF BdevInit, AccessIInv, Booting, InProgress, GeometryIsRight,
                            TransferIsExact, RetriesSuffice

LEMMA AccessUnchanged == AccessIInv /\ UNCHANGED accessing => AccessIInv'
  BY DEF AccessIInv, DeviceType, Booting, InProgress, GeometryIsRight, TransferIsExact,
         RetriesSuffice, accessing, geometry, CylinderOf

LEMMA InitKeeps == AccessIInv /\ bdev_init => AccessIInv'
<1> SUFFICES ASSUME AccessIInv, bdev_init PROVE AccessIInv'
  OBVIOUS
<1>1. /\ DeviceType /\ status = "boot" /\ req.fn = "none" /\ res.code = "none"
      /\ UNCHANGED <<drive, req, errs, res>>
  BY DEF AccessIInv, Booting, bdev_init
<1>2. /\ drive.cyls \in 1 .. 1024 /\ drive.heads \in 1 .. 256 /\ drive.sects \in 1 .. 63
      /\ drive.floppy \in BOOLEAN /\ drive.ext \in BOOLEAN /\ drive \in Drives
  BY <1>1, BootDevAssumption DEF DeviceType
<1>3. /\ have_bios_ext' = drive.ext /\ status' \in {"ready", "panic"}
      /\ bdev_is_floppy' = drive.floppy \/ bdev_is_floppy' = bdev_is_floppy
      /\ \/ UNCHANGED <<num_cyl, num_heads, num_track_sect>> /\ (status' = "ready" => drive.ext)
         \/ num_cyl' = drive.cyls /\ num_heads' = drive.heads /\ num_track_sect' = drive.sects
  BY <1>2, GeometryFacts DEF bdev_init
<1>4. DeviceType'
  <2>1. num_cyl' \in 0 .. 1024 /\ num_heads' \in 0 .. 256 /\ num_track_sect' \in 0 .. 63
    BY <1>1, <1>2, <1>3, SMTT(60) DEF DeviceType
  <2>2. have_bios_ext' \in BOOLEAN /\ bdev_is_floppy' \in BOOLEAN
    BY <1>1, <1>2, <1>3 DEF DeviceType
  <2> QED BY <1>1, <1>3, <2>1, <2>2 DEF DeviceType, ReqType, Statuses
<1>5. GeometryIsRight'
  BY <1>1, <1>3 DEF GeometryIsRight
<1>6. Booting' /\ InProgress' /\ TransferIsExact' /\ RetriesSuffice'
  BY <1>1, <1>3 DEF Booting, InProgress, TransferIsExact, RetriesSuffice
<1> QED BY <1>4, <1>5, <1>6 DEF AccessIInv

LEMMA CallKeeps ==
    ASSUME AccessIInv, NEW fn \in CallNames, NEW lba \in Nat \X Nat, NEW n \in Nat, bdev_call(fn, lba, n)
    PROVE  AccessIInv'
<1>1. /\ DeviceType /\ status = "ready" /\ status' \in {"ready", "double free"}
      /\ UNCHANGED <<drive, geometry>> /\ errs' = 0 /\ res' = NoRes
  BY DEF AccessIInv, bdev_call, cancel_alarm
<1>2. PICK at \in {"alarm", "bios"} : req' = [fn |-> fn, lba |-> lba, n |-> n, i |-> 0, at |-> at]
  BY DEF bdev_call
<1>3. ReqType(req') /\ req'.i = 0
  <2>1. NRETRIES \in Nat \ {0}
    BY BootDevAssumption
  <2> QED BY <1>2, <2>1 DEF ReqType
<1>4. DeviceType'
  BY <1>1, <1>3 DEF DeviceType, Statuses, geometry
<1>5. GeometryIsRight'
  BY <1>1 DEF AccessIInv, GeometryIsRight, geometry
<1>6. Booting' /\ InProgress'
  BY <1>1, <1>3 DEF Booting, InProgress, geometry
<1>7. TransferIsExact' /\ RetriesSuffice'
  BY <1>1, NoReqFacts DEF TransferIsExact, RetriesSuffice
<1> QED BY <1>4, <1>5, <1>6, <1>7 DEF AccessIInv

LEMMA PanicKeeps ==
    ASSUME AccessIInv, calc_chs_panics
    PROVE  AccessIInv'
<1>1. UNCHANGED <<drive, geometry, req, errs, res>> /\ status' = "panic"
  BY DEF calc_chs_panics
<1> QED BY <1>1 DEF AccessIInv, DeviceType, Statuses, Booting, InProgress, GeometryIsRight,
                    TransferIsExact, RetriesSuffice, geometry, CylinderOf

LEMMA AlarmKeeps ==
    ASSUME AccessIInv, set_alarm
    PROVE  AccessIInv'
<1>1. /\ AccessIInv /\ status = "ready" /\ status' \in {"ready", "hang", "panic"}
      /\ UNCHANGED <<drive, geometry, errs, res>>
      /\ req' = req \/ req' = [req EXCEPT !.at = "bios"]
  BY DEF set_alarm
<1>2. /\ ReqType(req') /\ req'.i = req.i /\ req'.fn = req.fn
  BY <1>1 DEF AccessIInv, DeviceType, ReqType
<1>3. DeviceType'
  BY <1>1, <1>2 DEF AccessIInv, DeviceType, Statuses, geometry
<1> QED BY <1>1, <1>2, <1>3 DEF AccessIInv, Booting, InProgress, GeometryIsRight,
                    TransferIsExact, RetriesSuffice, geometry, CylinderOf

\* a tick may stop the machine
LEMMA TickKeeps ==
    ASSUME AccessIInv, tick
    PROVE  AccessIInv'
<1>1. /\ UNCHANGED <<drive, geometry, req, errs, res>>
      /\ status = "ready" /\ status' \in {"ready", "double free", "undefined"}
  BY DEF tick
<1> QED BY <1>1 DEF AccessIInv, DeviceType, Statuses, Booting, InProgress, GeometryIsRight,
                    TransferIsExact, RetriesSuffice, geometry, CylinderOf

LEMMA OkKeeps ==
    ASSUME AccessIInv, bios_ok
    PROVE  AccessIInv'
<1>1. /\ DeviceType /\ status = "ready" /\ InProgress /\ GeometryIsRight
      /\ have_bios_ext \/ req.lba[1] = 0
      /\ UNCHANGED <<drive, status, geometry, errs>>
      /\ req' = NoReq /\ res' = [code |-> "done", req |-> req, xfer |-> Sectors]
  BY DEF AccessIInv, bios_ok, InBios, Returns
<1>2. DeviceType' /\ Booting' /\ InProgress'
  BY <1>1, NoReqFacts DEF DeviceType, Booting, InProgress, geometry
<1>3. GeometryIsRight' /\ RetriesSuffice'
  BY <1>1 DEF GeometryIsRight, RetriesSuffice, geometry
<1>4. TransferIsExact'
  <2>1. SUFFICES ASSUME have_bios_ext \/ CylinderOf(req.lba[2]) < 256
                 PROVE  Sectors = [k \in 1 .. req.n |-> <<req.lba[1], req.lba[2] + k - 1>>]
    BY <1>1 DEF TransferIsExact, geometry, CylinderOf
  <2>2. CASE have_bios_ext
    BY <2>2 DEF Sectors, From
  <2>3. CASE ~have_bios_ext
    <3>1. PICK lba \in Nat : lba = req.lba[2]
      BY <1>1 DEF DeviceType, ReqType
    <3>2. SectorAt(Cx(calc_chs(lba)), Dx(calc_chs(lba))) = lba
      <4>1. drive \in Drives /\ num_heads = drive.heads /\ num_track_sect = drive.sects
        BY <1>1, <2>3 DEF DeviceType, GeometryIsRight
      <4>2. CylinderOf(lba) < 256
        BY <2>1, <2>3, <3>1
      <4> QED BY <4>1, <4>2, AddressFacts
    <3>3. req.lba[1] = 0
      BY <1>1, <2>3
    <3>4. Sectors = From(0, lba)
      BY <2>3, <3>1, <3>2 DEF Sectors
    <3> QED BY <3>1, <3>3, <3>4 DEF From
  <2> QED BY <2>2, <2>3
<1> QED BY <1>2, <1>3, <1>4 DEF AccessIInv

LEMMA ErrorKeeps ==
    ASSUME AccessIInv, bios_error
    PROVE  AccessIInv'
<1>1. /\ DeviceType /\ status = "ready" /\ InProgress /\ GeometryIsRight
      /\ TransferIsExact /\ RetriesSuffice /\ NRETRIES \in Nat \ {0}
      /\ UNCHANGED <<drive, status, geometry>> /\ errs' = errs + 1
  BY BootDevAssumption DEF AccessIInv, bios_error, InBios
<1>2. GeometryIsRight' /\ Booting'
  BY <1>1 DEF GeometryIsRight, Booting, geometry
<1>3. CASE /\ have_bios_ext \/ ~IsRead(req.fn) \/ GiveUp(req.i)
           /\ Returns("failed", << >>)
  <2>1. req' = NoReq /\ res' = [code |-> "failed", req |-> req, xfer |-> << >>]
    BY <1>3 DEF Returns
  <2>2. DeviceType' /\ InProgress' /\ TransferIsExact'
    BY <1>1, <2>1, NoReqFacts DEF DeviceType, InProgress, TransferIsExact, geometry
  <2>3. errs' >= IF have_bios_ext \/ ~IsRead(req.fn) THEN 1 ELSE NRETRIES
    <3>1. errs \in Nat /\ req.i \in 0 .. NRETRIES - 1
      BY <1>1 DEF DeviceType, ReqType
    <3>2. CASE have_bios_ext \/ ~IsRead(req.fn)
      BY <1>1, <3>1, <3>2
    <3>3. CASE ~have_bios_ext /\ IsRead(req.fn)
      <4>1. errs = req.i
        BY <1>1, <3>3 DEF InProgress, IsRead
      <4>2. req.i + 1 = NRETRIES
        BY <1>3, <3>3 DEF GiveUp
      <4> QED BY <1>1, <3>1, <3>3, <4>1, <4>2
    <3> QED BY <3>2, <3>3
  <2>4. RetriesSuffice'
    BY <1>1, <2>1, <2>3 DEF RetriesSuffice, geometry
  <2> QED BY <1>2, <2>2, <2>4 DEF AccessIInv
<1>4. CASE /\ ~have_bios_ext /\ IsRead(req.fn) /\ ~GiveUp(req.i)
           /\ req' = [req EXCEPT !.i = @ + 1]
           /\ UNCHANGED res
  <2>1. errs \in Nat /\ req.i \in 0 .. NRETRIES - 1 /\ errs = req.i
    BY <1>1, <1>4 DEF DeviceType, ReqType, InProgress, IsRead
  <2>2. req'.fn = req.fn /\ req'.lba = req.lba /\ req'.n = req.n /\ req'.i = req.i + 1
    BY <1>1, <1>4 DEF DeviceType, ReqType
  <2>3. ReqType(req')
    BY <1>1, <1>4, <2>1 DEF DeviceType, ReqType, GiveUp
  <2>4. DeviceType' /\ InProgress'
    BY <1>1, <2>1, <2>2, <2>3 DEF DeviceType, InProgress, geometry
  <2>5. TransferIsExact'
    BY <1>1, <1>4 DEF TransferIsExact, geometry, CylinderOf
  <2>6. RetriesSuffice'
    <3>1. res' = res /\ have_bios_ext' = have_bios_ext /\ errs' > errs /\ errs' \in Nat
      BY <1>1, <1>4, <2>1 DEF geometry
    <3>2. SUFFICES ASSUME res.code = "failed"
                   PROVE  errs' >= IF have_bios_ext \/ ~IsRead(res.req.fn) THEN 1 ELSE NRETRIES
      BY <3>1 DEF RetriesSuffice
    <3>3. errs >= IF have_bios_ext \/ ~IsRead(res.req.fn) THEN 1 ELSE NRETRIES
      BY <1>1, <3>2 DEF RetriesSuffice
    <3> QED BY <1>1, <2>1, <3>1, <3>3
  <2> QED BY <1>2, <2>4, <2>5, <2>6 DEF AccessIInv
<1> QED BY <1>3, <1>4 DEF bios_error

-----------------------------------------------------------------------------
(***************************************************************************)
(* The motor: while the list of alarms is sound, an access leaves one      *)
(* alarm of the motor, which has as many ticks left as the timeout has     *)
(* after the ticks since the access began.                                 *)
(***************************************************************************)
OneAlarm ==
    /\ alarms = {} \/ (alarms = {MotorTimeout - idle_ticks} /\ idle_ticks < MotorTimeout)
    /\ req.at = "alarm" => alarms = {} /\ idle_ticks = 0
    /\ (alarms = {} /\ req.at # "alarm" /\ (motor \/ (drive.floppy /\ req.at = "bios"))) =>
          idle_ticks = MotorTimeout
MotorInv ==
    /\ motor \in BOOLEAN /\ idle_ticks \in 0 .. MotorTimeout
    /\ alarms \subseteq 1 .. MotorTimeout /\ evlist \in {"sound", "freed", "cyclic", "cut"}
    /\ status = "boot" => req.at = "none"
    /\ req.fn = "none" => req.at = "none"
    /\ status = "ready" => bdev_is_floppy = drive.floppy
    /\ motor \/ alarms # {} \/ req.at = "alarm" => drive.floppy
    /\ evlist = "sound" => OneAlarm

turning == <<drive, status, bdev_is_floppy, motors, req>>

LEMMA MotorInit == BdevInit => MotorInv
<1> SUFFICES ASSUME BdevInit PROVE MotorInv
  OBVIOUS
<1>1. MotorTimeout \in Nat \ {0}
  BY BootDevAssumption
<1>2. /\ motor = FALSE /\ idle_ticks = 0 /\ status = "boot" /\ alarms = {} /\ evlist = "sound"
      /\ req.at = "none"
  BY DEF BdevInit, NoReq
<1>3. motor \in BOOLEAN
  BY <1>2
<1> QED BY <1>1, <1>2, <1>3 DEF MotorInv, OneAlarm

LEMMA MotorUnchanged == MotorInv /\ UNCHANGED turning => MotorInv'
  BY DEF MotorInv, OneAlarm, turning, motors

LEMMA MotorBoots ==
    ASSUME MotorInv, bdev_init
    PROVE  MotorInv'
<1>1. /\ status = "boot" /\ UNCHANGED <<drive, motors, req>>
      /\ status' = "panic" \/ (status' = "ready" /\ bdev_is_floppy' = drive.floppy)
  BY DEF bdev_init
<1> QED BY <1>1 DEF MotorInv, OneAlarm, motors

\* cancel_alarm, and the call begins
LEMMA MotorCancelled ==
    ASSUME MotorInv, drive \in Drives, NEW fn \in CallNames, NEW lba, NEW n, bdev_call(fn, lba, n),
           fn # "none"
    PROVE  MotorInv' /\ motor' = motor
<1>1. /\ MotorTimeout \in Nat \ {0} /\ motor \in BOOLEAN /\ motor' = motor /\ idle_ticks' = 0
      /\ status = "ready" /\ bdev_is_floppy = drive.floppy /\ drive.floppy \in BOOLEAN
      /\ UNCHANGED <<drive, bdev_is_floppy>>
  BY BootDevAssumption DEF MotorInv, bdev_call, geometry
<1>2. req' = [fn |-> fn, lba |-> lba, n |-> n, i |-> 0, at |-> IF drive.floppy THEN "alarm" ELSE "bios"]
  BY <1>1 DEF bdev_call, Renews
<1>3. req'.fn = fn /\ req'.at = IF drive.floppy THEN "alarm" ELSE "bios"
  BY <1>2
<1>4. CASE ~drive.floppy
  <2>1. ~motor /\ alarms = {} /\ UNCHANGED <<status, alarms, evlist>>
    BY <1>1, <1>4 DEF MotorInv, bdev_call, Renews
  <2> QED BY <1>1, <1>3, <1>4, <2>1 DEF MotorInv, OneAlarm
<1>5. CASE drive.floppy
  <2>1. cancel_alarm
    BY <1>1, <1>5 DEF bdev_call, Renews
  <2>2. /\ alarms' = {} \/ alarms' = alarms
        /\ evlist' = evlist \/ evlist' = "freed"
        /\ evlist' = "sound" => alarms' = {}
        /\ status' \in {"ready", "double free"}
    BY <1>1, <2>1 DEF cancel_alarm, Cancelled
  <2>3. alarms' \subseteq 1 .. MotorTimeout /\ evlist' \in {"sound", "freed", "cyclic", "cut"}
    BY <2>2 DEF MotorInv
  <2>4. req'.at = "alarm" /\ req'.fn # "none"
    BY <1>3, <1>5
  <2>5. evlist' = "sound" => OneAlarm'
    BY <1>1, <2>2, <2>4 DEF OneAlarm
  <2>6. motor' \in BOOLEAN /\ idle_ticks' \in 0 .. MotorTimeout
    BY <1>1
  <2>7. /\ status' # "boot" /\ bdev_is_floppy' = drive'.floppy /\ drive'.floppy
    BY <1>1, <1>5, <2>2
  <2> QED BY <1>1, <2>3, <2>4, <2>5, <2>6, <2>7, Zenon DEF MotorInv
<1> QED BY <1>4, <1>5

\* set_alarm
LEMMA MotorRenewed ==
    ASSUME MotorInv, AccessIInv, set_alarm
    PROVE  MotorInv' /\ motor' = motor
<1>1. /\ MotorTimeout \in Nat \ {0} /\ motor \in BOOLEAN /\ status = "ready" /\ req.at = "alarm"
      /\ UNCHANGED <<drive, bdev_is_floppy, motor, idle_ticks>> /\ req.fn # "none" /\ drive.floppy
      /\ status' \in {"ready", "hang", "panic"}
  BY BootDevAssumption DEF MotorInv, set_alarm, geometry
<1>2. req' = req \/ (req'.fn = req.fn /\ req'.at = "bios")
  BY <1>1 DEF set_alarm, AccessIInv, DeviceType, ReqType
<1>3. CASE evlist \in {"sound", "cut"} /\ alarms' = alarms \union {MotorTimeout} /\ UNCHANGED evlist
           /\ req' = [req EXCEPT !.at = "bios"]
  <2>1. evlist = "sound" => alarms' = {MotorTimeout} /\ idle_ticks = 0
    BY <1>1, <1>3 DEF MotorInv, OneAlarm
  <2>2. MotorTimeout - 0 = MotorTimeout /\ alarms' # {}
    BY <1>1, <1>3
  <2>5. alarms' \subseteq 1 .. MotorTimeout
    BY <1>1, <1>3 DEF MotorInv
  <2>3. req'.at = "bios"
    BY <1>3 DEF AccessIInv, DeviceType, ReqType
  <2>4. evlist' = "sound" => OneAlarm'
    BY <1>1, <1>3, <2>1, <2>2, <2>3 DEF OneAlarm
  <2>6. req'.fn # "none"
    BY <1>1, <1>2
  <2> QED BY <1>1, <1>3, <2>3, <2>4, <2>5, <2>6 DEF MotorInv
<1>4. CASE evlist = "freed" /\ AtFreedHead
  <2>1. alarms \subseteq 1 .. MotorTimeout
    BY DEF MotorInv
  <2>2. alarms' \subseteq 1 .. MotorTimeout
    <3>1. CASE alarms' = alarms \union {MotorTimeout}
      BY <1>1, <2>1, <3>1
    <3>2. CASE alarms' = {1}
      BY <1>1, <3>2
    <3>3. CASE \E left \in 1 .. MotorTimeout : alarms' = {left}
      BY <3>3
    <3> QED BY <1>4, <3>1, <3>2, <3>3 DEF AtFreedHead
  <2>3. evlist' \in {"freed", "cyclic", "cut"}
    BY <1>4 DEF AtFreedHead
  <2> QED BY <1>1, <1>2, <2>2, <2>3 DEF MotorInv
<1>5. CASE UNCHANGED <<alarms, evlist, req>>
  BY <1>1, <1>5 DEF MotorInv, OneAlarm
<1> QED BY <1>1, <1>3, <1>4, <1>5 DEF set_alarm

\* a BIOS call switches the motor on
LEMMA MotorTurnsOn ==
    ASSUME MotorInv, drive \in Drives, InBios, motor' = (motor \/ drive.floppy),
           req'.at \in {"none", "bios"}, req'.fn = "none" => req'.at = "none",
           UNCHANGED <<drive, status, bdev_is_floppy, alarms, evlist, idle_ticks>>
    PROVE  MotorInv'
<1>1. drive.floppy \in BOOLEAN /\ motor \in BOOLEAN /\ status = "ready" /\ req.at = "bios"
  BY BootDevAssumption DEF MotorInv, InBios
<1>2. motor' \in BOOLEAN
  BY <1>1
<1> QED BY <1>1, <1>2 DEF MotorInv, OneAlarm

LEMMA MotorTicks ==
    ASSUME MotorInv, tick
    PROVE  /\ MotorInv'
           /\ motor /\ ~motor' /\ evlist = "sound" => idle_ticks' >= MotorTimeout
<1>1. /\ MotorTimeout \in Nat \ {0} /\ idle_ticks \in 0 .. MotorTimeout /\ motor \in BOOLEAN
      /\ status = "ready" /\ status' \in {"ready", "double free", "undefined"}
      /\ UNCHANGED <<drive, bdev_is_floppy, evlist, req>> /\ alarms # {} /\ drive.floppy
      /\ idle_ticks' = IF idle_ticks < MotorTimeout THEN idle_ticks + 1 ELSE idle_ticks
  BY BootDevAssumption DEF tick, MotorInv, geometry
<1>6. alarms' = {t - 1 : t \in alarms \ {1}} /\ alarms \subseteq 1 .. MotorTimeout
  BY DEF tick, MotorInv
<1>2. motor' \in BOOLEAN /\ (motor' <=> motor /\ 1 \notin alarms)
  <2>1. motor' = (motor /\ 1 \notin alarms)
    BY DEF tick
  <2> QED BY <1>1, <2>1, Zenon
<1>3. alarms' \subseteq 1 .. MotorTimeout /\ idle_ticks' \in 0 .. MotorTimeout
  <2>1. ASSUME NEW a \in alarms' PROVE a \in 1 .. MotorTimeout
    <3>1. PICK t \in alarms \ {1} : a = t - 1
      BY <1>6, <2>1, Zenon
    <3>2. t \in 1 .. MotorTimeout /\ t # 1 /\ MotorTimeout \in Nat
      BY <1>1, <1>6, <3>1
    <3> QED BY <3>1, <3>2
  <2>2. idle_ticks' \in 0 .. MotorTimeout
    <3>1. /\ MotorTimeout \in Nat /\ idle_ticks \in 0 .. MotorTimeout
          /\ idle_ticks' = IF idle_ticks < MotorTimeout THEN idle_ticks + 1 ELSE idle_ticks
      BY BootDevAssumption DEF MotorInv, tick
    <3> QED BY <3>1
  <2> QED BY <2>1, <2>2, Zenon
<1>4. CASE evlist # "sound"
  BY <1>1, <1>2, <1>3, <1>4 DEF MotorInv
<1>5. CASE evlist = "sound"
  <2>1. alarms = {MotorTimeout - idle_ticks} /\ idle_ticks < MotorTimeout /\ req.at # "alarm"
    BY <1>1, <1>5 DEF MotorInv, OneAlarm
  <2>0. /\ alarms' = {t - 1 : t \in alarms \ {1}} /\ MotorTimeout \in Nat
        /\ idle_ticks \in Nat /\ idle_ticks' = idle_ticks + 1 /\ req' = req
    <3>1. /\ MotorTimeout \in Nat /\ idle_ticks \in 0 .. MotorTimeout
          /\ idle_ticks' = IF idle_ticks < MotorTimeout THEN idle_ticks + 1 ELSE idle_ticks
      BY BootDevAssumption DEF MotorInv, tick
    <3>2. idle_ticks \in Nat /\ idle_ticks' = idle_ticks + 1
      BY <2>1, <3>1
    <3> QED BY <1>1, <1>6, <3>1, <3>2, Zenon
  <2>4. /\ status' = "boot" => req'.at = "none"
        /\ req'.fn = "none" => req'.at = "none"
        /\ status' = "ready" => bdev_is_floppy' = drive'.floppy
        /\ drive'.floppy
        /\ evlist' \in {"sound", "freed", "cyclic", "cut"}
    BY <1>1 DEF MotorInv
  <2>2. CASE MotorTimeout - idle_ticks = 1
    <3>0. alarms = {1}
      BY <2>1, <2>2
    <3>1. alarms' = {} /\ 1 \in alarms
      BY <2>0, <3>0
    <3>2. idle_ticks' = MotorTimeout /\ MotorTimeout >= MotorTimeout
      BY <2>0, <2>2
    <3>3. OneAlarm'
      BY <2>0, <2>1, <3>1, <3>2, Zenon DEF OneAlarm
    <3>4. MotorInv'
      BY <1>2, <1>3, <2>4, <3>3, Zenon DEF MotorInv
    <3> QED BY <3>2, <3>4
  <2>3. CASE MotorTimeout - idle_ticks # 1
    <3>0. PICK t : t = MotorTimeout - idle_ticks
      OBVIOUS
    <3>1. alarms = {t} /\ t # 1 /\ 1 \notin alarms /\ alarms \ {1} = {t}
      BY <2>1, <2>3, <3>0
    <3>2. alarms' = {t - 1}
      BY <2>0, <3>1
    <3>3. t - 1 = MotorTimeout - idle_ticks' /\ idle_ticks' < MotorTimeout
      BY <2>0, <2>1, <2>3, <3>0
    <3>4. alarms' = {MotorTimeout - idle_ticks'} /\ alarms' # {}
      BY <3>2, <3>3
    <3>5. OneAlarm'
      BY <2>0, <2>1, <3>3, <3>4 DEF OneAlarm
    <3>6. MotorInv'
      BY <1>2, <1>3, <2>4, <3>5, Zenon DEF MotorInv
    <3> QED BY <1>2, <3>1, <3>6
  <2> QED BY <2>2, <2>3
<1> QED BY <1>4, <1>5

-----------------------------------------------------------------------------
(***************************************************************************)
(* The walk: one boot record adds as many entries as it has records that   *)
(* are looked at, and another one is read only while the table has room.   *)
(***************************************************************************)
Entries == [at : Nat \X Nat, prim : BOOLEAN, act : BOOLEAN, start : Nat]
Scans == [sidx : Nat, found : Seq(Entries), stop : BOOLEAN]

WalkType ==
    /\ disk \in Disks /\ pc \in {"idle", "read", "parse", "done"}
    /\ ptabsz \in Nat /\ sidx \in Nat /\ first_ebr_offs \in Nat /\ nparts \in Nat
    /\ table \in Seq(Entries)
WalkInv ==
    /\ WalkType
    /\ Len(table) <= nparts /\ (ptabsz > 0 => Len(table) = nparts)
    /\ pc = "idle" => nparts = 0
    /\ pc \in {"read", "parse"} => /\ ptabsz > 0 => nparts < ptabsz
                                   /\ sidx = 0 => nparts = 0
    /\ OverrunIsBounded

walking == <<disk, pc, ptabsz, sidx, first_ebr_offs, nparts, table>>

LEMMA WalkInit == Init => WalkInv
<1> SUFFICES ASSUME Init PROVE WalkInv
  OBVIOUS
<1>1. table = << >> /\ << >> \in Seq(Entries) /\ Len(table) = 0
  BY DEF Init
<1> QED BY <1>1 DEF Init, WalkInv, WalkType, OverrunIsBounded

LEMMA WalkUnchanged == WalkInv /\ UNCHANGED walking => WalkInv'
  BY DEF WalkInv, WalkType, OverrunIsBounded, walking

LEMMA ScanRecordFacts ==
    ASSUME WalkType, sectdata # << >>, NEW w \in Scans, NEW i \in Records(sidx)
    PROVE  /\ ScanRecord(w, i) \in Scans
           /\ Len(ScanRecord(w, i).found) <= Len(w.found) + 1
<1>1. w.sidx \in Nat /\ w.found \in Seq(Entries) /\ w.stop \in BOOLEAN /\ Len(w.found) \in Nat
  BY DEF Scans
<1>2. PICK rec : rec = sectdata[i]
  OBVIOUS
<1>3. rec.first \in Nat /\ rec.act \in BOOLEAN /\ i \in Nat
  <2>1. sidx \in DOMAIN disk /\ sectdata = disk[sidx]
    BY DEF sectdata
  <2>2. disk[sidx][i].first \in Nat /\ disk[sidx][i].act \in BOOLEAN
    BY <2>1, PartAssumption DEF WalkType
  <2>3. i \in Nat
    BY DEF Records
  <2> QED BY <1>2, <2>1, <2>2, <2>3
<1>4. PICK wc : wc = EndOfChain(w) /\ wc \in Scans /\ wc.found = w.found
  <2>1. PICK x : x = EndOfChain(w)
    OBVIOUS
  <2>2. x \in Scans /\ x.found = w.found
    BY <1>1, <2>1 DEF EndOfChain, Scans
  <2> QED BY <2>1, <2>2
<1>5. PICK t \in Nat : t = Target(rec)
  BY <1>3 DEF Target, WalkType
<1>6. PICK wt : wt = [w EXCEPT !.sidx = t] /\ wt \in Scans /\ wt.found = w.found
  <2>1. PICK x : x = [w EXCEPT !.sidx = t]
    OBVIOUS
  <2>2. x \in Scans /\ x.found = w.found
    BY <1>1, <2>1 DEF Scans
  <2> QED BY <2>1, <2>2
<1>7. PICK e \in Entries : e = Entry(<<sidx, i>>, rec, w.sidx)
  <2>1. PICK s \in Nat : s = rec.first + first_ebr_offs
    BY <1>3 DEF WalkType
  <2>2. PICK at \in Nat \X Nat : at = <<sidx, i>>
    BY <1>3 DEF WalkType
  <2>5. PICK p \in BOOLEAN : p = (w.sidx = 0)
    BY Zenon
  <2>3. Entry(<<sidx, i>>, rec, w.sidx)
          = [at |-> at, prim |-> p, act |-> rec.act, start |-> s]
    BY <2>1, <2>2, <2>5 DEF Entry
  <2>4. Entry(<<sidx, i>>, rec, w.sidx) \in Entries
    BY <1>3, <2>3 DEF Entries
  <2> QED BY <2>4
<1>8. PICK f \in Seq(Entries) : f = Append(w.found, e) /\ Len(f) = Len(w.found) + 1
  <2>1. PICK g \in Seq(Entries) : g = w.found
    BY <1>1
  <2>2. Append(g, e) \in Seq(Entries) /\ Len(Append(g, e)) = Len(g) + 1
    OBVIOUS
  <2> QED BY <2>1, <2>2
<1>9. PICK wf : wf = [w EXCEPT !.found = f] /\ wf \in Scans /\ wf.found = f
  <2>1. PICK x : x = [w EXCEPT !.found = f]
    OBVIOUS
  <2>2. x \in Scans /\ x.found = f
    BY <1>1, <2>1 DEF Scans
  <2> QED BY <2>1, <2>2
<1>10. PICK r : r = ScanRecord(w, i)
  OBVIOUS
<1>11. r = w \/ r = wc \/ r = wt \/ r = wf
  <2>1. CASE w.stop
    BY <1>10, <2>1 DEF ScanRecord
  <2>2. CASE ~w.stop /\ rec.type = "none"
    BY <1>2, <1>4, <1>10, <2>2 DEF ScanRecord
  <2>3. CASE ~w.stop /\ rec.type = "ext"
    BY <1>2, <1>5, <1>6, <1>10, <2>3 DEF ScanRecord
  <2>4. CASE ~w.stop /\ rec.type # "none" /\ rec.type # "ext"
    <3>1. r = [w EXCEPT !.found = Append(w.found, Entry(<<sidx, i>>, rec, w.sidx))]
      BY <1>2, <1>10, <2>4 DEF ScanRecord
    <3> QED BY <1>7, <1>8, <1>9, <3>1
  <2> QED BY <2>1, <2>2, <2>3, <2>4
<1>12. r \in Scans /\ (r.found = w.found \/ r.found = f)
  BY <1>4, <1>6, <1>9, <1>11
<1>13. Len(r.found) <= Len(w.found) + 1
  <2>1. PICK m \in Nat : m = Len(w.found) /\ Len(f) = m + 1
    BY <1>1, <1>8
  <2>2. Len(r.found) = m \/ Len(r.found) = m + 1
    BY <1>12, <2>1
  <2> QED BY <2>1, <2>2
<1> QED BY <1>10, <1>12, <1>13

LEMMA ScanFacts ==
    ASSUME WalkType, sectdata # << >>
    PROVE  /\ Scan \in Scans
           /\ Len(Scan.found) <= 4 /\ (sidx # 0 => Len(Scan.found) <= 2)
<1> DEFINE w == [sidx |-> sidx, found |-> << >>, stop |-> FALSE]
<1>1. w \in Scans /\ Len(w.found) = 0
  <2>1. << >> \in Seq(Entries) /\ Len(<< >>) = 0
    OBVIOUS
  <2> QED BY <2>1, Zenon DEF Scans, WalkType
<1>2. 1 \in Records(sidx) /\ 2 \in Records(sidx) /\ (sidx = 0 => 3 \in Records(sidx) /\ 4 \in Records(sidx))
  BY DEF Records
<1>3. PICK a \in Scans : a = ScanRecord(w, 1) /\ Len(a.found) <= Len(w.found) + 1
  BY <1>1, <1>2, ScanRecordFacts
<1>4. PICK b \in Scans : b = ScanRecord(a, 2) /\ Len(b.found) <= Len(a.found) + 1
  BY <1>2, ScanRecordFacts
<1>5. Len(a.found) \in Nat /\ Len(b.found) \in Nat
  BY DEF Scans
<1>6. Len(b.found) <= 2
  BY <1>1, <1>3, <1>4, <1>5
<1>7. CASE sidx # 0
  <2>1. Scan = b
    BY <1>3, <1>4, <1>7 DEF Scan
  <2> QED BY <1>5, <1>6, <1>7, <2>1
<1>8. CASE sidx = 0
  <2>1. PICK c \in Scans : c = ScanRecord(b, 3) /\ Len(c.found) <= Len(b.found) + 1
    BY <1>2, <1>8, ScanRecordFacts
  <2>2. PICK d \in Scans : d = ScanRecord(c, 4) /\ Len(d.found) <= Len(c.found) + 1
    BY <1>2, <1>8, ScanRecordFacts
  <2>3. Len(c.found) \in Nat /\ Len(d.found) \in Nat
    BY DEF Scans
  <2>4. Scan = d
    BY <1>3, <1>4, <1>8, <2>1, <2>2 DEF Scan
  <2> QED BY <1>5, <1>6, <1>8, <2>1, <2>2, <2>3, <2>4
<1> QED BY <1>7, <1>8

LEMMA ParseKeeps ==
    ASSUME WalkInv, parse
    PROVE  WalkInv'
<1>1. /\ WalkType /\ pc = "parse" /\ sectdata # << >> /\ UNCHANGED <<disk, ptabsz, first_ebr_offs>>
      /\ ptabsz > 0 => Len(table) = nparts /\ nparts < ptabsz
      /\ sidx = 0 => nparts = 0
  BY DEF WalkInv, parse
<1>2. PICK r \in Scans : /\ r = Scan /\ Len(r.found) <= 4
                         /\ sidx # 0 => Len(r.found) <= 2
  BY <1>1, ScanFacts
<1>3. /\ sidx' = r.sidx /\ nparts' = nparts + Len(r.found)
      /\ table' = IF ptabsz > 0 THEN table \o r.found ELSE table
      /\ \/ r.sidx > 0 /\ More(nparts') /\ pc' = "read"
         \/ pc' = "done"
  BY <1>2 DEF parse
<1>4. PICK f \in Seq(Entries), t \in Seq(Entries) : f = r.found /\ t = table
  BY <1>1 DEF Scans, WalkType
<1>5. PICK p \in Nat, n \in Nat, l \in Nat, k \in Nat :
        p = ptabsz /\ n = nparts /\ l = Len(f) /\ k = Len(t)
  BY <1>1 DEF WalkType
<1>6. t \o f \in Seq(Entries) /\ Len(t \o f) = k + l
  BY <1>5
<1>7. table' \in Seq(Entries) /\ Len(table') = IF p > 0 THEN k + l ELSE k
  BY <1>3, <1>4, <1>5, <1>6
<1>8. /\ k <= n /\ l <= 4 /\ (p > 0 => k = n /\ n < p)
      /\ sidx = 0 => n = 0
      /\ sidx # 0 => l <= 2
  BY <1>1, <1>2, <1>4, <1>5 DEF WalkInv
<1>9. nparts' = n + l /\ ptabsz' = p /\ sidx' \in Nat
  BY <1>1, <1>3, <1>4, <1>5 DEF Scans
<1>10. WalkType'
  BY <1>1, <1>3, <1>7, <1>9 DEF WalkType
<1>11. OverrunIsBounded'
  <2>1. p > 0 => k + l <= 4 \/ k + l <= p + 1
    BY <1>8
  <2> QED BY <1>7, <1>9, <2>1 DEF OverrunIsBounded
<1>12. Len(table') <= nparts' /\ (ptabsz' > 0 => Len(table') = nparts')
  BY <1>7, <1>8, <1>9
<1>13. pc' = "read" => sidx' # 0 /\ (ptabsz' > 0 => nparts' < ptabsz')
  BY <1>3, <1>5, <1>9 DEF More
<1>14. pc' = "read" \/ pc' = "done"
  BY <1>3
<1> QED BY <1>10, <1>11, <1>12, <1>13, <1>14 DEF WalkInv

LEMMA StartKeeps == WalkInv /\ start_walk => WalkInv'
<1> SUFFICES ASSUME WalkInv, start_walk PROVE WalkInv'
  OBVIOUS
<1>1. /\ pc = "idle" /\ ptabsz' \in Nat /\ pc' \in {"read", "done"}
      /\ UNCHANGED <<disk, sidx, first_ebr_offs, nparts, table>>
  BY PartAssumption DEF start_walk
<1>2. nparts = 0 /\ Len(table) = 0
  BY <1>1 DEF WalkInv, WalkType
<1> QED BY <1>1, <1>2 DEF WalkInv, WalkType, OverrunIsBounded

LEMMA ReadKeeps == WalkInv /\ read_next => WalkInv'
<1> SUFFICES ASSUME WalkInv, read_next PROVE WalkInv'
  OBVIOUS
<1>1. /\ pc = "read" /\ pc' = "parse" /\ UNCHANGED <<disk, ptabsz, sidx, nparts, table>>
      /\ first_ebr_offs' \in {sidx, first_ebr_offs}
  BY DEF read_next
<1> QED BY <1>1 DEF WalkInv, WalkType, OverrunIsBounded

-----------------------------------------------------------------------------
(***************************************************************************)
(* The chain of a well formed disk, as TableIsRight describes it.          *)
(***************************************************************************)
LEMMA LeastExists ==
    ASSUME NEW S, S \subseteq Nat, S # {}
    PROVE  \E x \in S : \A y \in S : x <= y
<1> DEFINE R == OpToRel(<, Nat)
<1>1. IsWellFoundedOn(R, Nat)
  BY NatLessThanWellFounded
<1>2. \A x, y \in Nat : x < y => <<x, y>> \in R
  BY DEF OpToRel
<1> HIDE DEF R
<1>3. PICK x \in S : \A y \in S : ~(<<y, x>> \in R)
  BY <1>1, WFMin
<1>4. ASSUME NEW y \in S PROVE x <= y
  <2>1. x \in Nat /\ y \in Nat
    OBVIOUS
  <2>2. ~(y < x)
    BY <1>2, <1>3, <2>1, Zenon
  <2> QED BY <2>1, <2>2
<1> QED BY <1>4

LEMMA FromOne ==
    ASSUME NEW n \in Nat, NEW S, 1 \in S, \A k \in 2 .. n : k - 1 \in S => k \in S
    PROVE  \A k \in 1 .. n : k \in S
<1> DEFINE T == {k \in 1 .. n : k \notin S}
<1>1. SUFFICES ASSUME T # {} PROVE FALSE
  OBVIOUS
<1>2. T \subseteq Nat
  OBVIOUS
<1>3. PICK x \in T : \A y \in T : x <= y
  <2> HIDE DEF T
  <2> QED BY <1>1, <1>2, LeastExists
<1>4. x \in 2 .. n /\ x \notin S
  BY <1>3
<1>5. x - 1 \notin T /\ x - 1 \in 1 .. n
  BY <1>3, <1>4
<1> QED BY <1>4, <1>5

LEMMA DiskFacts ==
    ASSUME NEW d \in Disks, WellFormed(d)
    PROVE  /\ Cardinality(DOMAIN d) \in Nat
           /\ FirstEbr(d) \in Nat /\ (FirstEbr(d) = 0 <=> Ext(d[0]) = {})
           /\ \A i \in Ext(d[0]) : Ext(d[0]) = {i} /\ d[0][i].first = FirstEbr(d)
           /\ \A s \in Nat : NextEbr(d, s) \in Nat
<1>1. Cardinality(DOMAIN d) \in Nat
  BY PartAssumption, FS_CardinalityType
<1>2. \A i \in 1 .. 4 : d[0][i].first \in Nat
  BY PartAssumption DEF WellFormed, Records
<1>3. ASSUME NEW i \in Ext(d[0])
      PROVE  Ext(d[0]) = {i} /\ d[0][i].first = FirstEbr(d) /\ FirstEbr(d) > 0
  <2>1. \A j \in Ext(d[0]) : j = i
    BY <1>3 DEF Ext, WellFormed
  <2>2. (CHOOSE j \in Ext(d[0]) : TRUE) \in Ext(d[0]) /\ Ext(d[0]) # {}
    BY <1>3
  <2>3. (CHOOSE j \in Ext(d[0]) : TRUE) = i
    BY <2>1, <2>2
  <2>4. FirstEbr(d) = d[0][i].first
    BY <2>2, <2>3 DEF FirstEbr
  <2> QED BY <1>3, <2>1, <2>4 DEF WellFormed
<1>4. FirstEbr(d) \in Nat /\ (FirstEbr(d) = 0 <=> Ext(d[0]) = {})
  <2>1. CASE Ext(d[0]) = {}
    BY <2>1 DEF FirstEbr
  <2>2. CASE Ext(d[0]) # {}
    <3>1. PICK i \in Ext(d[0]) : TRUE
      BY <2>2
    <3>2. i \in 1 .. 4
      BY DEF Ext
    <3> QED BY <1>2, <1>3, <2>2, <3>1, <3>2
  <2> QED BY <2>1, <2>2
<1>5. ASSUME NEW s \in Nat PROVE NextEbr(d, s) \in Nat
  <2>1. CASE s \in DOMAIN d \ {0} /\ d[s] # << >>
    <3>1. d[s][2].first \in Nat
      BY <2>1, PartAssumption DEF Records
    <3> QED BY <1>4, <3>1 DEF NextEbr
  <2>2. CASE ~(s \in DOMAIN d \ {0} /\ d[s] # << >>)
    BY <2>2 DEF NextEbr
  <2> QED BY <2>1, <2>2
<1> QED BY <1>1, <1>3, <1>4, <1>5

LEMMA EbrFacts ==
    ASSUME NEW d \in Disks, WellFormed(d), NEW m \in Nat, m = Cardinality(DOMAIN d) + 1
    PROVE  /\ Ebr(d) \in [1 .. m -> Nat] /\ Ebr(d)[1] = FirstEbr(d)
           /\ \A n \in 2 .. m : Ebr(d)[n] = NextEbr(d, Ebr(d)[n - 1])
<1> DEFINE P(n) == \E g \in [1 .. n -> Nat] :
                      g[1] = FirstEbr(d) /\ \A k \in 2 .. n : g[k] = NextEbr(d, g[k - 1])
           S == {n \in 1 .. m : P(n)}
<1>1. /\ FirstEbr(d) \in Nat /\ \A s \in Nat : NextEbr(d, s) \in Nat
      /\ m >= 1
  BY DiskFacts
<1>2. 1 \in S
  <2>1. PICK g : g = [k \in 1 .. 1 |-> FirstEbr(d)]
    OBVIOUS
  <2>2. g \in [1 .. 1 -> Nat] /\ g[1] = FirstEbr(d)
    BY <1>1, <2>1
  <2>3. P(1)
    BY <2>2
  <2> QED BY <1>1, <2>3
<1>3. ASSUME NEW n \in 2 .. m, n - 1 \in S PROVE n \in S
  <2>0. P(n - 1)
    <3> HIDE DEF P
    <3> QED BY <1>3
  <2>1. PICK g \in [1 .. n - 1 -> Nat] :
          g[1] = FirstEbr(d) /\ \A k \in 2 .. n - 1 : g[k] = NextEbr(d, g[k - 1])
    BY <2>0
  <2>2. PICK q \in Nat : q = NextEbr(d, g[n - 1])
    <3>1. g[n - 1] \in Nat
      BY <2>1
    <3> QED BY <1>1, <3>1
  <2> DEFINE h == [k \in 1 .. n |-> IF k = n THEN q ELSE g[k]]
  <2>3. h \in [1 .. n -> Nat]
    BY <2>1
  <2>4. h[1] = FirstEbr(d)
    BY <2>1
  <2>5. ASSUME NEW k \in 2 .. n PROVE h[k] = NextEbr(d, h[k - 1])
    <3>1. h[k - 1] = g[k - 1]
      OBVIOUS
    <3>2. CASE k = n
      BY <2>2, <3>1, <3>2
    <3>3. CASE k # n
      <4>1. k \in 2 .. n - 1 /\ h[k] = g[k]
        BY <3>3
      <4>2. g[k] = NextEbr(d, g[k - 1])
        BY <2>1, <4>1
      <4> QED BY <3>1, <4>1, <4>2
    <3> QED BY <3>2, <3>3
  <2>6. P(n)
    BY <2>3, <2>4, <2>5
  <2> HIDE DEF P
  <2> QED BY <2>6
<1>4. P(m)
  <2> HIDE DEF P
  <2>1. \A k \in 1 .. m : k \in S
    <3> HIDE DEF S
    <3> QED BY <1>2, <1>3, FromOne
  <2> QED BY <1>1, <2>1
<1> DEFINE Rec(g) == g = [n \in 1 .. m |-> IF n = 1 THEN FirstEbr(d) ELSE NextEbr(d, g[n - 1])]
           G == CHOOSE g : Rec(g)
<1>5. PICK g \in [1 .. m -> Nat] :
        g[1] = FirstEbr(d) /\ \A k \in 2 .. m : g[k] = NextEbr(d, g[k - 1])
  BY <1>4
<1>6. Rec(g)
  <2> DEFINE f == [n \in 1 .. m |-> IF n = 1 THEN FirstEbr(d) ELSE NextEbr(d, g[n - 1])]
  <2>1. \A n \in 1 .. m : f[n] = g[n]
    BY <1>5
  <2> QED BY <1>5, <2>1
<1>7. Rec(G)
  BY <1>6
<1>8. Ebr(d) = G
  BY DEF Ebr
<1> HIDE DEF G, P
<1>9. /\ DOMAIN G = 1 .. m /\ G[1] = FirstEbr(d)
      /\ \A n \in 2 .. m : G[n] = NextEbr(d, G[n - 1])
  <2>1. DOMAIN G = 1 .. m
    BY <1>7, Zenon
  <2>2. \A n \in 1 .. m : G[n] = IF n = 1 THEN FirstEbr(d) ELSE NextEbr(d, G[n - 1])
    BY <1>7, Zenon
  <2>3. 1 \in 1 .. m /\ \A n \in 2 .. m : n \in 1 .. m /\ n # 1
    BY <1>1
  <2> QED BY <2>1, <2>2, <2>3, Zenon
<1> DEFINE T == {n \in 1 .. m : G[n] = g[n]}
<1>10. 1 \in T
  BY <1>1, <1>5, <1>9
<1>11. ASSUME NEW n \in 2 .. m, n - 1 \in T PROVE n \in T
  <2>1. G[n - 1] = g[n - 1] /\ n \in 1 .. m
    BY <1>11
  <2> QED BY <1>5, <1>9, <2>1
<1>12. \A n \in 1 .. m : n \in T
  <2> HIDE DEF T
  <2> QED BY <1>10, <1>11, FromOne
<1>13. \A n \in 1 .. m : G[n] \in Nat
  BY <1>5, <1>12
<1>14. G = [n \in 1 .. m |-> G[n]]
  BY <1>7
<1>15. G \in [1 .. m -> Nat]
  BY <1>13, <1>14
<1> QED BY <1>8, <1>9, <1>15

\* What the walk has stored, and where it stands.
At(t) == [k \in DOMAIN t |-> t[k].at]
Mbr(d) == InMbr(d, 1) \o InMbr(d, 2) \o InMbr(d, 3) \o InMbr(d, 4)
Chain(d, n) == [k \in 1 .. n |-> <<Ebr(d)[k], 1>>]
EntryRight(e) ==
    /\ e.prim => e.at[1] = 0
    /\ e.at[1] = 0 /\ (\A j \in Ext(disk[0]) : j > e.at[2]) => e.prim
    /\ e.at[1] \in {0, FirstEbr(disk)} => e.start = e.at[1] + disk[e.at[1]][e.at[2]].first
AllRight(t) == \A k \in DOMAIN t : EntryRight(t[k])

LEMMA ConcatFacts ==
    ASSUME NEW S, NEW u \in Seq(S), NEW v \in Seq(S), NEW q, q = u \o v
    PROVE  /\ q \in Seq(S) /\ Len(q) = Len(u) + Len(v)
           /\ \A k \in 1 .. Len(u) + Len(v) : q[k] = IF k <= Len(u) THEN u[k] ELSE v[k - Len(u)]
  OBVIOUS

LEMMA AtIs ==
    ASSUME NEW u \in Seq(Entries)
    PROVE  /\ At(u) \in Seq(Nat \X Nat) /\ Len(At(u)) = Len(u)
           /\ \A k \in 1 .. Len(u) : At(u)[k] = u[k].at
<1>1. \A k \in 1 .. Len(u) : u[k].at \in Nat \X Nat
  <2>1. ASSUME NEW e \in Entries PROVE e.at \in Nat \X Nat
    BY Zenon DEF Entries
  <2>2. \A k \in 1 .. Len(u) : u[k] \in Entries
    OBVIOUS
  <2> QED BY <2>1, <2>2
<1>2. At(u) = [k \in 1 .. Len(u) |-> u[k].at]
  BY DEF At
<1> QED BY <1>1, <1>2

LEMMA AtConcat ==
    ASSUME NEW t \in Seq(Entries), NEW u \in Seq(Entries)
    PROVE  At(t \o u) = At(t) \o At(u)
<1>0. PICK Places : Places = Nat \X Nat
  OBVIOUS
<1>1. PICK q : q = t \o u
  OBVIOUS
<1>2. /\ q \in Seq(Entries) /\ Len(q) = Len(t) + Len(u)
      /\ \A k \in 1 .. Len(t) + Len(u) : q[k] = IF k <= Len(t) THEN t[k] ELSE u[k - Len(t)]
  BY <1>1, ConcatFacts
<1>3. PICK x, y, z : x = At(t) /\ y = At(u) /\ z = At(q)
  OBVIOUS
<1>4. /\ x \in Seq(Places) /\ Len(x) = Len(t) /\ \A k \in 1 .. Len(t) : x[k] = t[k].at
      /\ y \in Seq(Places) /\ Len(y) = Len(u) /\ \A k \in 1 .. Len(u) : y[k] = u[k].at
      /\ z \in Seq(Places) /\ Len(z) = Len(q) /\ \A k \in 1 .. Len(q) : z[k] = q[k].at
  BY <1>0, <1>2, <1>3, AtIs, Zenon
<1>5. PICK r : r = x \o y
  OBVIOUS
<1>6. /\ r \in Seq(Places) /\ Len(r) = Len(x) + Len(y)
      /\ \A k \in 1 .. Len(x) + Len(y) : r[k] = IF k <= Len(x) THEN x[k] ELSE y[k - Len(x)]
  <2>1. x \in Seq(Places) /\ y \in Seq(Places)
    BY <1>4
  <2> QED BY <1>5, <2>1, ConcatFacts
<1>7. PICK m \in Nat, n \in Nat : m = Len(t) /\ n = Len(u)
  OBVIOUS
<1>8. ASSUME NEW k \in 1 .. m + n PROVE z[k] = r[k]
  <2>1. CASE k <= m
    <3>1. k \in 1 .. Len(t) /\ k \in 1 .. Len(q) /\ k <= Len(x) /\ k \in 1 .. Len(x) + Len(y)
      BY <1>2, <1>4, <1>7, <2>1
    <3>2. r[k] = x[k] /\ q[k] = t[k] /\ k <= Len(t)
      BY <1>2, <1>4, <1>6, <3>1
    <3> QED BY <1>4, <3>1, <3>2, Zenon
  <2>2. CASE k > m
    <3>1. /\ k - Len(t) \in 1 .. Len(u) /\ k \in 1 .. Len(q) /\ k \in 1 .. Len(x) + Len(y)
          /\ ~(k <= Len(x)) /\ ~(k <= Len(t)) /\ Len(x) = Len(t) /\ k \in 1 .. Len(t) + Len(u)
      BY <1>2, <1>4, <1>7, <2>2
    <3>2. r[k] = y[k - Len(t)] /\ q[k] = u[k - Len(t)]
      BY <1>2, <1>6, <3>1, Zenon
    <3> QED BY <1>4, <3>1, <3>2, Zenon
  <2> QED BY <2>1, <2>2
<1>9. Len(z) = m + n /\ Len(r) = m + n
  BY <1>2, <1>4, <1>6, <1>7
<1>10. z = r
  BY <1>4, <1>6, <1>8, <1>9, SeqEqual
<1> QED BY <1>1, <1>3, <1>5, <1>10

LEMMA AtAppend ==
    ASSUME NEW t \in Seq(Entries), NEW e \in Entries
    PROVE  At(Append(t, e)) = At(t) \o <<e.at>>
<1>1. Append(t, e) = t \o <<e>> /\ <<e>> \in Seq(Entries)
  OBVIOUS
<1>2. At(<<e>>) = <<e.at>>
  BY DEF At
<1> QED BY <1>1, <1>2, AtConcat

LEMMA RightAppend ==
    ASSUME NEW t \in Seq(Entries), AllRight(t), NEW e \in Entries, EntryRight(e)
    PROVE  AllRight(Append(t, e))
<1>1. ASSUME NEW k \in DOMAIN Append(t, e) PROVE Append(t, e)[k] = e \/ (k \in DOMAIN t /\ Append(t, e)[k] = t[k])
  OBVIOUS
<1> HIDE DEF EntryRight
<1> QED BY <1>1 DEF AllRight

LEMMA RightConcat ==
    ASSUME NEW t \in Seq(Entries), AllRight(t), NEW u \in Seq(Entries), AllRight(u)
    PROVE  AllRight(t \o u)
<1>1. ASSUME NEW k \in DOMAIN (t \o u)
      PROVE  (k \in DOMAIN t /\ (t \o u)[k] = t[k]) \/ (k - Len(t) \in DOMAIN u /\ (t \o u)[k] = u[k - Len(t)])
  OBVIOUS
<1> HIDE DEF EntryRight
<1> QED BY <1>1 DEF AllRight

\* Before record i of the master boot record.
InScan(w, i) ==
    /\ w \in Scans /\ w.stop = FALSE /\ AllRight(w.found)
    /\ w.sidx = IF \E j \in Ext(disk[0]) : j < i THEN FirstEbr(disk) ELSE 0

LEMMA MbrRecord ==
    ASSUME WalkType, WellFormed(disk), sidx = 0, num_bootrec = 0, first_ebr_offs = 0,
           NEW i \in 1 .. 4, NEW w, InScan(w, i), NEW m, m = i + 1
    PROVE  /\ InScan(ScanRecord(w, i), m)
           /\ At(ScanRecord(w, i).found) = At(w.found) \o InMbr(disk, i)
<1>1. disk \in Disks /\ 0 \in DOMAIN disk /\ sectdata = disk[0] /\ sectdata # << >>
  BY DEF WalkType, WellFormed, sectdata
<1>2. PICK rec : rec = disk[0][i] /\ rec.first \in Nat /\ rec.act \in BOOLEAN
  BY <1>1, PartAssumption DEF Records
<1>3. PICK f \in Seq(Entries) : f = w.found /\ AllRight(f)
  BY DEF InScan, Scans
<1>4. PICK r \in Scans : r = ScanRecord(w, i)
  <2>1. w \in Scans /\ i \in Records(sidx)
    BY DEF InScan, Records
  <2> QED BY <1>1, <2>1, ScanRecordFacts
<1>5. At(f) \in Seq(Nat \X Nat) /\ At(f) \o << >> = At(f)
  <2>1. PICK x, P : x = At(f) /\ P = Nat \X Nat
    OBVIOUS
  <2>2. x \in Seq(P)
    BY <2>1, AtIs, Zenon
  <2>3. x \o << >> = x
    BY <2>2
  <2> QED BY <2>1, <2>2, <2>3
<1>6. ~w.stop /\ w.stop = FALSE /\ w.sidx \in Nat
  BY DEF InScan, Scans
<1>7. CASE rec.type = "none"
  <2>1. r = w
    BY <1>1, <1>2, <1>4, <1>6, <1>7 DEF ScanRecord
  <2>2. InMbr(disk, i) = << >> /\ i \notin Ext(disk[0])
    BY <1>2, <1>7 DEF InMbr, IsData, Ext
  <2>3. (\E j \in Ext(disk[0]) : j < i + 1) <=> (\E j \in Ext(disk[0]) : j < i)
    BY <2>2 DEF Ext
  <2>4. InScan(r, i + 1)
    BY <2>1, <2>3 DEF InScan
  <2> QED BY <1>3, <1>4, <1>5, <2>1, <2>2, <2>4
<1>8. CASE rec.type = "ext"
  <2>1. r = [w EXCEPT !.sidx = rec.first]
    BY <1>1, <1>2, <1>4, <1>6, <1>8 DEF ScanRecord, Target
  <2>2. InMbr(disk, i) = << >> /\ i \in Ext(disk[0])
    BY <1>2, <1>8 DEF InMbr, IsData, Ext
  <2>3. rec.first = FirstEbr(disk)
    BY <1>1, <1>2, <2>2, DiskFacts
  <2>4. r.sidx = rec.first /\ r.found = f /\ r.stop = FALSE
    BY <1>3, <1>6, <2>1 DEF InScan, Scans
  <2>5. \E j \in Ext(disk[0]) : j < i + 1
    BY <2>2
  <2>6. InScan(r, i + 1)
    BY <1>3, <2>3, <2>4, <2>5 DEF InScan
  <2> QED BY <1>3, <1>4, <1>5, <2>2, <2>4, <2>6
<1>9. CASE rec.type # "none" /\ rec.type # "ext"
  <2>1. PICK e : e = Entry(<<sidx, i>>, rec, w.sidx)
    OBVIOUS
  <2>2. r = [w EXCEPT !.found = Append(w.found, e)]
    BY <1>1, <1>2, <1>4, <1>6, <1>9, <2>1 DEF ScanRecord
  <2>3. InMbr(disk, i) = <<<<0, i>>>> /\ i \notin Ext(disk[0])
    BY <1>2, <1>9 DEF InMbr, IsData, Ext
  <2>4. r.found = Append(f, e) /\ r.stop = FALSE /\ r.sidx = w.sidx
    BY <1>3, <1>6, <2>2 DEF InScan, Scans
  <2>5. e.at = <<0, i>> /\ e.prim = (w.sidx = 0) /\ e.act = rec.act /\ e.start = rec.first
    BY <1>2, <2>1 DEF Entry
  <2>6. e \in Entries
    <3>1. PICK p \in BOOLEAN : p = (w.sidx = 0)
      BY Zenon
    <3>2. e = [at |-> <<0, i>>, prim |-> p, act |-> rec.act, start |-> rec.first]
      BY <1>2, <2>1, <3>1 DEF Entry
    <3>3. <<0, i>> \in Nat \X Nat
      OBVIOUS
    <3> QED BY <1>2, <3>2, <3>3 DEF Entries
  <2>7. EntryRight(e)
    <3>1. e.at[1] = 0 /\ e.at[2] = i
      BY <2>5
    <3>2. (\A j \in Ext(disk[0]) : j > i) => e.prim
      <4>1. (\A j \in Ext(disk[0]) : j > i) => ~(\E j \in Ext(disk[0]) : j < i)
        BY DEF Ext
      <4>2. (\A j \in Ext(disk[0]) : j > i) => w.sidx = 0
        BY <4>1 DEF InScan
      <4> QED BY <2>5, <4>2
    <3>3. e.start = 0 + disk[0][i].first
      BY <1>2, <2>5
    <3> QED BY <3>1, <3>2, <3>3 DEF EntryRight
  <2>8. AllRight(r.found)
    BY <1>3, <2>4, <2>6, <2>7, RightAppend
  <2>9. At(r.found) = At(f) \o InMbr(disk, i)
    BY <2>3, <2>4, <2>5, <2>6, AtAppend
  <2>10. (\E j \in Ext(disk[0]) : j < i + 1) <=> (\E j \in Ext(disk[0]) : j < i)
    BY <2>3 DEF Ext
  <2>11. InScan(r, i + 1)
    BY <2>4, <2>8, <2>10 DEF InScan
  <2> QED BY <1>3, <1>4, <2>9, <2>11
<1> QED BY <1>7, <1>8, <1>9

LEMMA MbrScan ==
    ASSUME WalkType, WellFormed(disk), sidx = 0, num_bootrec = 0, first_ebr_offs = 0
    PROVE  Scan.sidx = FirstEbr(disk) /\ At(Scan.found) = Mbr(disk) /\ AllRight(Scan.found)
<1> DEFINE w == [sidx |-> sidx, found |-> << >>, stop |-> FALSE]
<1>1. InScan(w, 1) /\ At(w.found) = << >>
  <2>1. << >> \in Seq(Entries) /\ AllRight(<< >>) /\ At(<< >>) = << >>
    BY DEF AllRight, At
  <2>2. w \in Scans
    BY <2>1, Zenon DEF Scans, WalkType
  <2>3. ~(\E j \in Ext(disk[0]) : j < 1)
    BY DEF Ext
  <2> QED BY <2>1, <2>2, <2>3 DEF InScan
<1>2. PICK a : a = ScanRecord(w, 1)
  OBVIOUS
<1> HIDE DEF w
<1>3. PICK b, c, d : b = ScanRecord(a, 2) /\ c = ScanRecord(b, 3) /\ d = ScanRecord(c, 4)
  OBVIOUS
<1>0. /\ 1 \in 1 .. 4 /\ 2 \in 1 .. 4 /\ 3 \in 1 .. 4 /\ 4 \in 1 .. 4
      /\ 2 = 1 + 1 /\ 3 = 2 + 1 /\ 4 = 3 + 1 /\ 5 = 4 + 1
  OBVIOUS
<1>4. InScan(a, 2) /\ At(a.found) = << >> \o InMbr(disk, 1)
  BY <1>0, <1>1, <1>2, MbrRecord, Zenon
<1>5. InScan(b, 3) /\ At(b.found) = At(a.found) \o InMbr(disk, 2)
  BY <1>0, <1>3, <1>4, MbrRecord, Zenon
<1>6. InScan(c, 4) /\ At(c.found) = At(b.found) \o InMbr(disk, 3)
  BY <1>0, <1>3, <1>5, MbrRecord, Zenon
<1>7. InScan(d, 5) /\ At(d.found) = At(c.found) \o InMbr(disk, 4)
  BY <1>0, <1>3, <1>6, MbrRecord, Zenon
<1>8. << >> \o InMbr(disk, 1) = InMbr(disk, 1)
  BY DEF InMbr
<1>9. At(d.found) = Mbr(disk)
  BY <1>4, <1>5, <1>6, <1>7, <1>8 DEF Mbr
<1>10. Scan = d
  BY <1>2, <1>3 DEF Scan, w
<1>11. d.sidx = FirstEbr(disk)
  <2>1. FirstEbr(disk) = 0 <=> Ext(disk[0]) = {}
    BY DiskFacts DEF WalkType
  <2>2. \A j \in Ext(disk[0]) : j < 5
    BY DEF Ext
  <2> QED BY <1>7, <2>1, <2>2 DEF InScan
<1> QED BY <1>7, <1>9, <1>10, <1>11 DEF InScan

LEMMA EbrScan ==
    ASSUME WalkType, WellFormed(disk), num_bootrec > 0, first_ebr_offs = FirstEbr(disk),
           sidx \in DOMAIN disk \ {0}, IsEbr(disk[sidx])
    PROVE  /\ Scan.sidx = NextEbr(disk, sidx)
           /\ At(Scan.found) = <<<<sidx, 1>>>> /\ AllRight(Scan.found)
<1> DEFINE w == [sidx |-> sidx, found |-> << >>, stop |-> FALSE]
<1>1. sectdata = disk[sidx] /\ sectdata # << >>
  BY DEF sectdata, IsEbr
<1>2. PICK q, r : /\ q = sectdata[1] /\ r = sectdata[2] /\ {q.first, r.first} \subseteq Nat
                  /\ q.act \in BOOLEAN
  BY <1>1, PartAssumption DEF WalkType, Records
<1>3. q.type # "none" /\ q.type # "ext" /\ r.type \in {"none", "ext"}
  BY <1>1, <1>2 DEF IsEbr, IsData
<1>4. PICK e : e = Entry(<<sidx, 1>>, q, sidx)
  OBVIOUS
<1>5. PICK s \in Nat : s = q.first + first_ebr_offs
  BY <1>2 DEF WalkType
<1>6. e = [at |-> <<sidx, 1>>, prim |-> FALSE, act |-> q.act, start |-> s]
  BY <1>4, <1>5 DEF Entry
<1>7. e \in Entries /\ e.at = <<sidx, 1>>
  <2>1. <<sidx, 1>> \in Nat \X Nat
    BY DEF WalkType
  <2> QED BY <1>2, <1>6, <2>1 DEF Entries
<1>8. EntryRight(e)
  <2>1. e.at[1] = sidx /\ e.at[2] = 1 /\ ~e.prim /\ e.start = s
    BY <1>6
  <2>2. sidx = FirstEbr(disk) => s = sidx + disk[sidx][1].first
    BY <1>1, <1>2, <1>5 DEF WalkType
  <2> QED BY <2>1, <2>2 DEF EntryRight
<1>9. PICK a : a = ScanRecord(w, 1)
  OBVIOUS
<1>10. a = [sidx |-> sidx, found |-> <<e>>, stop |-> FALSE]
  <2>1. w.stop = FALSE /\ w.sidx = sidx /\ Append(w.found, e) = <<e>>
    OBVIOUS
  <2>2. a = [w EXCEPT !.found = Append(w.found, e)]
    BY <1>2, <1>3, <1>4, <1>9, <2>1 DEF ScanRecord
  <2> QED BY <2>1, <2>2
<1>11. Scan = ScanRecord(a, 2)
  BY <1>9 DEF Scan
<1>12. ScanRecord(a, 2).sidx = NextEbr(disk, sidx) /\ ScanRecord(a, 2).found = <<e>>
  <2>1. CASE r.type = "none"
    <3>1. ScanRecord(a, 2) = EndOfChain(a)
      BY <1>2, <1>10, <2>1 DEF ScanRecord
    <3>2. EndOfChain(a).sidx = 0 /\ EndOfChain(a).found = <<e>>
      BY <1>10 DEF EndOfChain
    <3>3. NextEbr(disk, sidx) = 0
      BY <1>1, <1>2, <2>1 DEF NextEbr
    <3> QED BY <3>1, <3>2, <3>3
  <2>2. CASE r.type = "ext"
    <3>1. ScanRecord(a, 2) = [a EXCEPT !.sidx = Target(r)]
      BY <1>2, <1>10, <2>2 DEF ScanRecord
    <3>2. NextEbr(disk, sidx) = Target(r)
      BY <1>1, <1>2, <2>2 DEF NextEbr, Target
    <3> QED BY <1>10, <3>1, <3>2
  <2> QED BY <1>3, <2>1, <2>2
<1>13. At(<<e>>) = <<<<sidx, 1>>>> /\ AllRight(<<e>>)
  <2>1. At(<<e>>) = <<e.at>>
    BY DEF At
  <2>2. DOMAIN <<e>> = {1} /\ <<e>>[1] = e
    OBVIOUS
  <2> QED BY <1>7, <1>8, <2>1, <2>2 DEF AllRight
<1> QED BY <1>11, <1>12, <1>13

OnChain ==
    /\ first_ebr_offs \in {0, FirstEbr(disk)} /\ AllRight(table)
    /\ num_bootrec = 0 => sidx = 0 /\ table = << >> /\ first_ebr_offs = 0 /\ pc # "done"
    /\ num_bootrec > 1 \/ (num_bootrec = 1 /\ pc = "parse") => first_ebr_offs = FirstEbr(disk)
    /\ num_bootrec > 0 =>
         /\ num_bootrec <= Cardinality(DOMAIN disk) + 1 /\ sidx = Ebr(disk)[num_bootrec]
         /\ \A k \in 1 .. num_bootrec - 1 : Ebr(disk)[k] # 0
         /\ pc \in {"read", "parse"} => sidx # 0
         /\ pc = "done" => sidx = 0 \/ ~More(nparts)
         /\ ptabsz > 0 => At(table) = Mbr(disk) \o Chain(disk, num_bootrec - 1)
ChainInv ==
    /\ num_bootrec \in Nat /\ (pc = "idle" => num_bootrec = 0) /\ (ret = "error" => pc = "done")
    /\ WellFormed(disk) /\ ret # "error" => OnChain

LEMMA ChainFacts ==
    ASSUME NEW d \in Disks, WellFormed(d), NEW n \in 0 .. Cardinality(DOMAIN d)
    PROVE  /\ Mbr(d) \in Seq(Nat \X Nat) /\ Chain(d, n) \in Seq(Nat \X Nat) /\ Len(Chain(d, n)) = n
           /\ n > 0 => Mbr(d) \o Chain(d, n)
                        = (Mbr(d) \o Chain(d, n - 1)) \o <<<<Ebr(d)[n], 1>>>>
<1>1. PICK P : P = Nat \X Nat
  OBVIOUS
<1>2. PICK m \in Nat : m = Cardinality(DOMAIN d) + 1
  BY DiskFacts
<1> DEFINE E(k) == <<Ebr(d)[k], 1>>
<1>3. \A k \in 1 .. n : E(k) \in P
  <2>1. ASSUME NEW k \in 1 .. n PROVE E(k) \in P
    <3>1. Ebr(d)[k] \in Nat
      <4>1. Ebr(d) \in [1 .. m -> Nat]
        BY <1>2, EbrFacts
      <4>2. k \in 1 .. m
        BY <1>2, DiskFacts
      <4> QED BY <4>1, <4>2
    <3>2. <<Ebr(d)[k], 1>> \in Nat \X Nat
      BY <3>1
    <3> QED BY <1>1, <3>2, Zenon
  <2> QED BY <2>1, Zenon
<1>4. ASSUME NEW k \in 0 .. n
      PROVE  /\ Chain(d, k) \in Seq(P) /\ Len(Chain(d, k)) = k
             /\ \A j \in 1 .. k : Chain(d, k)[j] = E(j)
  <2>1. \A j \in 1 .. k : E(j) \in P
    BY <1>2, <1>3
  <2>2. PICK c : c = [j \in 1 .. k |-> E(j)]
    OBVIOUS
  <2>3. c \in Seq(P) /\ Len(c) = k /\ \A j \in 1 .. k : c[j] = E(j)
    <3> HIDE DEF E
    <3> QED BY <1>2, <2>1, <2>2
  <2>4. Chain(d, k) = c
    BY <2>2 DEF Chain
  <2> HIDE DEF E
  <2> QED BY <2>3, <2>4
<1>5. \A i \in 1 .. 4 : InMbr(d, i) \in Seq(P)
  <2>1. ASSUME NEW i \in 1 .. 4 PROVE InMbr(d, i) \in Seq(P)
    <3>1. <<0, i>> \in Nat \X Nat
      OBVIOUS
    <3>2. PICK e \in P : e = <<0, i>>
      BY <1>1, <3>1, Zenon
    <3>3. InMbr(d, i) = <<e>> \/ InMbr(d, i) = << >>
      BY <3>2, Zenon DEF InMbr
    <3>4. <<e>> \in Seq(P) /\ << >> \in Seq(P)
      BY <3>2
    <3> QED BY <3>3, <3>4, Zenon
  <2> QED BY <2>1
<1>6. Mbr(d) \in Seq(P)
  <2>1. PICK a \in Seq(P), b \in Seq(P), c \in Seq(P), e \in Seq(P) :
          a = InMbr(d, 1) /\ b = InMbr(d, 2) /\ c = InMbr(d, 3) /\ e = InMbr(d, 4)
    BY <1>5
  <2>2. a \o b \o c \o e \in Seq(P)
    OBVIOUS
  <2> QED BY <2>1, <2>2 DEF Mbr
<1>7. ASSUME n > 0 PROVE Mbr(d) \o Chain(d, n) = (Mbr(d) \o Chain(d, n - 1)) \o <<<<Ebr(d)[n], 1>>>>
  <2> HIDE DEF E
  <2>0. n - 1 \in 0 .. n /\ n \in 0 .. n /\ n \in 1 .. n
    BY <1>2, <1>7
  <2>1. PICK x \in Seq(P), y \in Seq(P), z \in Seq(P), e \in P :
          /\ x = Mbr(d) /\ y = Chain(d, n - 1) /\ z = Chain(d, n) /\ e = E(n)
    BY <1>3, <1>4, <1>6, <2>0
  <2>2. /\ Len(y) = n - 1 /\ \A j \in 1 .. n - 1 : y[j] = E(j)
        /\ Len(z) = n /\ \A j \in 1 .. n : z[j] = E(j)
    BY <1>4, <2>0, <2>1
  <2>3. z = y \o <<e>>
    <3>1. PICK u : u = y \o <<e>>
      OBVIOUS
    <3>2. u \in Seq(P) /\ Len(u) = n /\ u[n] = e /\ \A j \in 1 .. n - 1 : u[j] = y[j]
      BY <1>2, <1>7, <2>2, <3>1
    <3>3. \A j \in 1 .. n : u[j] = z[j]
      BY <1>2, <2>0, <2>1, <2>2, <3>2
    <3> QED BY <2>2, <3>1, <3>2, <3>3, SeqEqual
  <2>4. x \o (y \o <<e>>) = (x \o y) \o <<e>>
    OBVIOUS
  <2>5. Mbr(d) \o Chain(d, n) = (Mbr(d) \o Chain(d, n - 1)) \o <<E(n)>>
    BY <2>1, <2>3, <2>4
  <2> QED BY <2>5 DEF E
<1>8. Chain(d, n) \in Seq(P) /\ Len(Chain(d, n)) = n
  BY <1>2, <1>4
<1> QED BY <1>1, <1>6, <1>7, <1>8

LEMMA ChainEnd ==
    ASSUME WalkType, WellFormed(disk), num_bootrec \in Nat \ {0}, OnChain, NEW n \in Lengths(disk)
    PROVE  /\ n \in 0 .. Cardinality(DOMAIN disk) /\ num_bootrec - 1 <= n
           /\ sidx = 0 => num_bootrec = n + 1
           /\ sidx # 0 => num_bootrec <= n /\ sidx \in DOMAIN disk \ {0} /\ IsEbr(disk[sidx])
<1>1. /\ n \in 0 .. Cardinality(DOMAIN disk) /\ Ebr(disk)[n + 1] = 0
      /\ \A k \in 1 .. n : Ebr(disk)[k] \in DOMAIN disk \ {0} /\ IsEbr(disk[Ebr(disk)[k]])
  BY DEF Lengths, IsLength
<1>2. /\ sidx = Ebr(disk)[num_bootrec] /\ \A k \in 1 .. num_bootrec - 1 : Ebr(disk)[k] # 0
  BY DEF OnChain
<1>3. n \in Nat
  <2>1. Cardinality(DOMAIN disk) \in Nat
    BY DiskFacts DEF WalkType
  <2> QED BY <1>1, <2>1
<1>4. num_bootrec - 1 <= n
  <2>1. CASE n + 1 <= num_bootrec - 1
    <3>1. n + 1 \in 1 .. num_bootrec - 1
      BY <1>3, <2>1
    <3> QED BY <1>1, <1>2, <3>1
  <2> QED BY <1>3, <2>1
<1>5. CASE num_bootrec = n + 1
  BY <1>1, <1>2, <1>3, <1>5
<1>6. CASE num_bootrec <= n
  <2>1. num_bootrec \in 1 .. n
    BY <1>3, <1>6
  <2> QED BY <1>1, <1>2, <1>3, <1>4, <2>1
<1> QED BY <1>1, <1>3, <1>4, <1>5, <1>6

LEMMA ChainStart == ChainInv /\ WalkInv /\ start_walk => ChainInv'
<1> SUFFICES ASSUME ChainInv, WalkInv, start_walk PROVE ChainInv'
  OBVIOUS
<1>1. /\ UNCHANGED <<disk, sidx, first_ebr_offs, num_bootrec, nparts, table>> /\ pc = "idle"
      /\ (pc' = "read" /\ ret' = ret) \/ (pc' = "done" /\ ret' = "error")
  BY DEF start_walk
<1>2. CASE pc' = "done" /\ ret' = "error"
  BY <1>1, <1>2 DEF ChainInv
<1>3. CASE pc' = "read" /\ ret' = ret /\ WellFormed(disk) /\ ret # "error"
  <2>1. OnChain
    BY <1>3 DEF ChainInv
  <2>2. num_bootrec = 0
    BY <1>1 DEF ChainInv
  <2> QED BY <1>1, <1>3, <2>1, <2>2 DEF ChainInv, OnChain, AllRight, EntryRight
<1>4. CASE pc' = "read" /\ ret' = ret /\ ~(WellFormed(disk) /\ ret # "error")
  BY <1>1, <1>4 DEF ChainInv
<1> QED BY <1>1, <1>2, <1>3, <1>4

LEMMA ChainRead == ChainInv /\ WalkInv /\ read_next => ChainInv'
<1> SUFFICES ASSUME ChainInv, WalkInv, read_next PROVE ChainInv'
  OBVIOUS
<1>1. /\ UNCHANGED <<disk, ptabsz, sidx, num_bootrec, nparts, table, ret>> /\ pc = "read"
      /\ pc' = "parse"
      /\ first_ebr_offs' = IF sidx # 0 /\ first_ebr_offs = 0 THEN sidx ELSE first_ebr_offs
  BY DEF read_next
<1>2. CASE ~(WellFormed(disk) /\ ret # "error")
  BY <1>1, <1>2 DEF ChainInv
<1>3. CASE WellFormed(disk) /\ ret # "error"
  <2>1. OnChain /\ num_bootrec \in Nat /\ WalkType
    BY <1>3 DEF ChainInv, WalkInv
  <2>2. AllRight(table)'
    BY <1>1, <2>1 DEF OnChain, AllRight, EntryRight
  <2>3. CASE num_bootrec = 0
    BY <1>1, <2>1, <2>2, <2>3 DEF ChainInv, OnChain
  <2>4. CASE num_bootrec > 0
    <3>1. sidx # 0
      BY <1>1, <2>1, <2>4 DEF OnChain
    <3>2. first_ebr_offs' = FirstEbr(disk)
      <4>1. CASE num_bootrec = 1
        <5>1. PICK m \in Nat : m = Cardinality(DOMAIN disk) + 1
          BY <1>3, <2>1, DiskFacts DEF WalkType
        <5>2. sidx = FirstEbr(disk)
          BY <1>3, <2>1, <4>1, <5>1, EbrFacts DEF WalkType, OnChain
        <5> QED BY <1>1, <2>1, <3>1, <5>2 DEF OnChain
      <4>2. CASE num_bootrec > 1
        <5>1. first_ebr_offs = FirstEbr(disk)
          BY <2>1, <4>2 DEF OnChain
        <5>2. FirstEbr(disk) # 0
          <6>1. PICK m \in Nat : m = Cardinality(DOMAIN disk) + 1
            BY <1>3, <2>1, DiskFacts DEF WalkType
          <6>2. Ebr(disk)[1] = FirstEbr(disk)
            BY <1>3, <2>1, <6>1, EbrFacts DEF WalkType
          <6>3. 1 \in 1 .. num_bootrec - 1
            BY <2>1, <4>2
          <6> QED BY <2>1, <2>4, <6>2, <6>3 DEF OnChain
        <5> QED BY <1>1, <5>1, <5>2
      <4> QED BY <2>1, <2>4, <4>1, <4>2
    <3> QED BY <1>1, <2>1, <2>2, <2>4, <3>1, <3>2 DEF ChainInv, OnChain
  <2> QED BY <2>1, <2>3, <2>4
<1> QED BY <1>2, <1>3

LEMMA ChainParse == ChainInv /\ WalkInv /\ parse => ChainInv'
<1> SUFFICES ASSUME ChainInv, WalkInv, parse PROVE ChainInv'
  OBVIOUS
<1>1. /\ UNCHANGED <<disk, ptabsz, first_ebr_offs>> /\ pc = "parse" /\ sectdata # << >>
      /\ WalkType /\ num_bootrec \in Nat /\ num_bootrec' = num_bootrec + 1
  BY DEF parse, ChainInv, WalkInv
<1>2. PICK r \in Scans : r = Scan
  BY <1>1, ScanFacts
<1>3. /\ sidx' = r.sidx /\ nparts' = nparts + Len(r.found)
      /\ table' = IF ptabsz > 0 THEN table \o r.found ELSE table
      /\ \/ r.sidx > 0 /\ More(nparts') /\ pc' = "read" /\ ret' = ret
         \/ ~(r.sidx > 0 /\ More(nparts')) /\ pc' = "done" /\ ret' = "ok"
  BY <1>2 DEF parse
<1>4. r.sidx \in Nat /\ r.found \in Seq(Entries) /\ table \in Seq(Entries)
  BY <1>1 DEF Scans, WalkType
<1>5. pc' # "idle" /\ num_bootrec' \in Nat
  BY <1>1, <1>3
<1>6. CASE ~(WellFormed(disk) /\ ret # "error")
  \* a walk that goes on has not failed
  BY <1>1, <1>3, <1>5, <1>6 DEF ChainInv
<1>7. CASE WellFormed(disk) /\ ret # "error"
  <2>1. OnChain
    BY <1>7 DEF ChainInv
  <2>2. PICK c \in Nat : c = Cardinality(DOMAIN disk)
    BY <1>1, <1>7, DiskFacts DEF WalkType
  <2>3. PICK g : /\ g = Ebr(disk) /\ g \in [1 .. c + 1 -> Nat] /\ g[1] = FirstEbr(disk)
                 /\ \A k \in 2 .. c + 1 : g[k] = NextEbr(disk, g[k - 1])
    <3>1. PICK m \in Nat : m = c + 1
      BY <2>2
    <3>2. /\ Ebr(disk) \in [1 .. m -> Nat] /\ Ebr(disk)[1] = FirstEbr(disk)
          /\ \A k \in 2 .. m : Ebr(disk)[k] = NextEbr(disk, Ebr(disk)[k - 1])
      BY <1>1, <1>7, <2>2, <3>1, EbrFacts DEF WalkType
    <3> QED BY <3>1, <3>2
  <2>4. /\ AllRight(r.found) /\ num_bootrec + 1 <= c + 1 /\ r.sidx = g[num_bootrec + 1]
        /\ \A k \in 1 .. num_bootrec : g[k] # 0
        /\ num_bootrec > 0 => first_ebr_offs = FirstEbr(disk)
        /\ ptabsz > 0 => At(table) \o At(r.found) = Mbr(disk) \o Chain(disk, num_bootrec)
    <3>1. CASE num_bootrec = 0
      <4>1. sidx = 0 /\ first_ebr_offs = 0 /\ table = << >>
        BY <2>1, <3>1 DEF OnChain
      <4>2. r.sidx = FirstEbr(disk) /\ At(r.found) = Mbr(disk) /\ AllRight(r.found)
        BY <1>1, <1>2, <1>7, <3>1, <4>1, MbrScan
      <4>3. At(table) = << >> /\ Chain(disk, 0) = << >>
        BY <4>1 DEF At, Chain
      <4>4. << >> \o Mbr(disk) = Mbr(disk) \o << >>
        <5>1. PICK P : P = Nat \X Nat
          OBVIOUS
        <5>2. Mbr(disk) \in Seq(P)
          <6>1. 0 \in 0 .. Cardinality(DOMAIN disk) /\ disk \in Disks
            BY <1>1, <2>2 DEF WalkType
          <6> QED BY <1>7, <5>1, <6>1, ChainFacts
        <5> QED BY <5>2
      <4>5. num_bootrec + 1 = 1 /\ num_bootrec + 1 <= c + 1 /\ 1 .. num_bootrec = {}
        BY <2>2, <3>1
      <4>6. At(table) \o At(r.found) = Mbr(disk) \o Chain(disk, num_bootrec)
        BY <3>1, <4>2, <4>3, <4>4
      <4> QED BY <2>3, <3>1, <4>2, <4>5, <4>6
    <3>2. CASE num_bootrec > 0
      <4>1. PICK n \in Lengths(disk) : TRUE
        BY <1>7 DEF WellFormed
      <4>2. sidx # 0 /\ first_ebr_offs = FirstEbr(disk) /\ sidx = g[num_bootrec]
        BY <1>1, <2>1, <2>3, <3>2 DEF OnChain
      <4>3. /\ n \in 0 .. c /\ num_bootrec <= n /\ sidx \in DOMAIN disk \ {0}
            /\ IsEbr(disk[sidx])
        <5>1. num_bootrec \in Nat \ {0}
          BY <1>1, <3>2
        <5> QED BY <1>1, <1>7, <2>1, <2>2, <4>2, <5>1, ChainEnd
      <4>4. /\ r.sidx = NextEbr(disk, sidx) /\ At(r.found) = <<<<sidx, 1>>>>
            /\ AllRight(r.found)
        BY <1>1, <1>2, <1>7, <3>2, <4>2, <4>3, EbrScan
      <4>5. num_bootrec + 1 \in 2 .. c + 1 /\ num_bootrec \in 1 .. c
        BY <1>1, <2>2, <3>2, <4>3
      <4>6. r.sidx = g[num_bootrec + 1]
        <5>1. (num_bootrec + 1) - 1 = num_bootrec
          BY <1>1
        <5> QED BY <2>3, <4>2, <4>4, <4>5, <5>1
      <4>7. \A k \in 1 .. num_bootrec : g[k] # 0
        BY <1>1, <2>1, <2>3, <3>2, <4>2 DEF OnChain
      <4>8. ptabsz > 0 => At(table) \o At(r.found) = Mbr(disk) \o Chain(disk, num_bootrec)
        <5>1. ptabsz > 0 => At(table) = Mbr(disk) \o Chain(disk, num_bootrec - 1)
          BY <2>1, <3>2 DEF OnChain
        <5>2. Mbr(disk) \o Chain(disk, num_bootrec)
                = (Mbr(disk) \o Chain(disk, num_bootrec - 1)) \o <<<<g[num_bootrec], 1>>>>
          <6>1. disk \in Disks /\ num_bootrec \in 0 .. Cardinality(DOMAIN disk)
            BY <1>1, <2>2, <4>5 DEF WalkType
          <6> QED BY <1>7, <2>3, <3>2, <6>1, ChainFacts
        <5> QED BY <4>2, <4>4, <5>1, <5>2
      <4>9. num_bootrec + 1 <= c + 1
        BY <1>1, <2>2, <4>5
      <4> QED BY <4>2, <4>4, <4>6, <4>7, <4>8, <4>9
    <3> QED BY <1>1, <3>1, <3>2
  <2>5. AllRight(table')
    <3>1. AllRight(table)
      BY <2>1 DEF OnChain
    <3> QED BY <1>3, <1>4, <2>4, <3>1, RightConcat
  <2>6. AllRight(table)'
    BY <1>1, <2>5 DEF AllRight, EntryRight
  <2>7. ptabsz' > 0 => At(table') = Mbr(disk) \o Chain(disk, num_bootrec)
    <3>1. ptabsz > 0 => At(table') = At(table) \o At(r.found)
      BY <1>3, <1>4, AtConcat
    <3> QED BY <1>1, <2>4, <3>1
  <2>8. num_bootrec' - 1 = num_bootrec /\ num_bootrec' > 0
    BY <1>1
  <2>9. (At(table) = Mbr(disk) \o Chain(disk, num_bootrec - 1))'
          <=> At(table') = Mbr(disk) \o Chain(disk, num_bootrec)
    BY <1>1, <2>8 DEF At, Mbr, Chain, InMbr
  <2>10. /\ first_ebr_offs' \in {0, FirstEbr(disk')}
         /\ num_bootrec' > 1 \/ (num_bootrec' = 1 /\ pc' = "parse") => first_ebr_offs' = FirstEbr(disk')
    BY <1>1, <1>3, <2>1, <2>4 DEF OnChain
  <2>11. /\ num_bootrec' <= Cardinality(DOMAIN disk') + 1 /\ sidx' = Ebr(disk')[num_bootrec']
         /\ \A k \in 1 .. num_bootrec' - 1 : Ebr(disk')[k] # 0
         /\ pc' \in {"read", "parse"} => sidx' # 0
    BY <1>1, <1>3, <2>2, <2>3, <2>4, <2>8
  <2>12. pc' = "done" => sidx' = 0 \/ ~More(nparts')
    BY <1>3, <1>4
  <2>13. More(nparts') <=> More(nparts)'
    BY <1>1 DEF More
  <2>14. ptabsz' > 0 => (At(table) = Mbr(disk) \o Chain(disk, num_bootrec - 1))'
    BY <2>7, <2>9
  <2>15. num_bootrec' # 0
    BY <2>8
  <2>16. pc' = "done" => sidx' = 0 \/ ~More(nparts)'
    BY <2>12, <2>13
  <2>17. OnChain'
    BY <2>6, <2>10, <2>11, <2>14, <2>15, <2>16, Zenon DEF OnChain
  <2> QED BY <1>3, <1>5, <1>7, <2>17 DEF ChainInv
<1> QED BY <1>6, <1>7

LEMMA ChainUnchanged == ChainInv /\ UNCHANGED <<disk, walk>> => ChainInv'
<1> SUFFICES ASSUME ChainInv, UNCHANGED <<disk, walk>> PROVE ChainInv'
  OBVIOUS
<1>1. UNCHANGED <<disk, pc, ptabsz, sidx, first_ebr_offs, num_bootrec, nparts, table, ret>>
  BY DEF walk
<1>2. OnChain => OnChain'
  BY <1>1 DEF OnChain, AllRight, EntryRight, More
<1> QED BY <1>1, <1>2 DEF ChainInv

LEMMA ChainInit == Init => ChainInv
<1> SUFFICES ASSUME Init PROVE ChainInv
  OBVIOUS
<1>1. /\ num_bootrec = 0 /\ sidx = 0 /\ first_ebr_offs = 0 /\ table = << >> /\ pc = "idle"
      /\ ret = "none"
  BY DEF Init
<1>2. AllRight(table)
  BY <1>1 DEF AllRight
<1> QED BY <1>1, <1>2 DEF ChainInv, OnChain

\* At the end of the walk: all of the chain, or a full table.
LEMMA TableFacts ==
    ASSUME WalkInv, ChainInv
    PROVE  TableIsRight
<1> SUFFICES ASSUME pc = "done", ret = "ok", WellFormed(disk), ptabsz > 0 PROVE TableIsRight
  BY DEF TableIsRight
<1>1. WalkType /\ OnChain /\ num_bootrec \in Nat \ {0} /\ disk \in Disks
  BY DEF WalkInv, WalkType, ChainInv, OnChain
<1>2. PICK N \in Lengths(disk) : N = CHOOSE n \in Lengths(disk) : TRUE
  BY DEF WellFormed
<1>3. /\ N \in 0 .. Cardinality(DOMAIN disk) /\ num_bootrec - 1 <= N
      /\ sidx = 0 => num_bootrec = N + 1
  BY <1>1, ChainEnd
<1>4. PICK c \in Nat : c = Cardinality(DOMAIN disk)
  BY <1>1, DiskFacts
<1>5. PICK m \in 0 .. N : m = num_bootrec - 1
  BY <1>1, <1>3, <1>4
<1>6. N \in Nat /\ m \in 0 .. Cardinality(DOMAIN disk)
  BY <1>3, <1>4, <1>5
<1>7. PICK P : P = Nat \X Nat
  OBVIOUS
<1>8. PICK u \in Seq(P), v \in Seq(P), w \in Seq(P) :
        /\ u = Mbr(disk) /\ v = Chain(disk, N) /\ w = Chain(disk, m)
        /\ Len(v) = N /\ Len(w) = m
  BY <1>1, <1>3, <1>6, <1>7, ChainFacts
<1>9. \A k \in 1 .. m : w[k] = v[k]
  <2>1. \A k \in 1 .. m : k \in 1 .. N
    BY <1>5, <1>6
  <2> QED BY <1>8, <2>1 DEF Chain
<1>10. Expected(disk) = u \o v
  <2>1. Expected(disk) = Mbr(disk) \o Chain(disk, N)
    BY <1>2 DEF Expected, Mbr, Chain
  <2> QED BY <1>8, <2>1
<1>11. At(table) = u \o w
  BY <1>1, <1>5, <1>8 DEF OnChain
<1>12. u \o w = SubSeq(u \o v, 1, Len(u \o w))
  <2>1. Len(u \o w) = Len(u) + m /\ Len(u \o v) = Len(u) + N
    BY <1>8
  <2>2. \A k \in 1 .. Len(u) + m : (u \o w)[k] = (u \o v)[k]
    BY <1>5, <1>6, <1>8, <1>9
  <2>3. \A k \in 1 .. Len(u) + m : SubSeq(u \o v, 1, Len(u) + m)[k] = (u \o v)[k]
    BY <1>5, <1>6, <1>8, <2>1
  <2>4. /\ SubSeq(u \o v, 1, Len(u) + m) \in Seq(P)
        /\ Len(SubSeq(u \o v, 1, Len(u) + m)) = Len(u) + m
    BY <1>5, <1>6, <1>8, <2>1
  <2>5. u \o w \in Seq(P)
    BY <1>8
  <2> HIDE DEF TableIsRight
  <2> QED BY <2>1, <2>2, <2>3, <2>4, <2>5, SeqEqual
<1>13. Len(At(table)) = Len(Expected(disk)) \/ Len(At(table)) >= ptabsz
  <2>1. sidx = 0 \/ ~More(nparts)
    BY <1>1 DEF OnChain
  <2>2. CASE sidx = 0
    <3>1. m = N
      BY <1>1, <1>3, <1>5, <1>6, <2>2
    <3> QED BY <1>8, <1>10, <1>11, <3>1
  <2>3. CASE ~More(nparts)
    <3>1. Len(At(table)) = nparts
      BY <1>1, AtIs DEF WalkInv, WalkType
    <3> QED BY <1>1, <2>3, <3>1 DEF More, WalkType
  <2> QED BY <2>1, <2>2, <2>3
<1>14. ASSUME NEW k \in DOMAIN table
       PROVE  LET s == At(table)[k][1]
                  i == At(table)[k][2]
              IN /\ table[k].prim => s = 0
                 /\ s = 0 /\ (\A j \in Ext(disk[0]) : j > i) => table[k].prim
                 /\ s \in {0, first_ebr_offs} => table[k].start = s + disk[s][i].first
  <2>1. EntryRight(table[k]) /\ first_ebr_offs \in {0, FirstEbr(disk)}
    BY <1>1 DEF OnChain, AllRight
  <2>2. At(table)[k] = table[k].at
    BY DEF At
  <2> QED BY <2>1, <2>2 DEF EntryRight
<1>15. At(table) = [k \in DOMAIN table |-> table[k].at]
  BY DEF At
<1> QED BY <1>10, <1>11, <1>12, <1>13, <1>14, <1>15 DEF TableIsRight

-----------------------------------------------------------------------------
IInv == AccessIInv /\ MotorInv /\ WalkInv /\ ChainInv

LEMMA InitIInv == Init => IInv
  BY AccessInit, MotorInit, WalkInit, ChainInit DEF Init, IInv

\* A call of the boot device, by the program or by the walk.
LEMMA DeviceCalled ==
    ASSUME IInv, NEW fn \in CallNames \ {"none"}, NEW lba \in Nat \X Nat, NEW n \in Nat,
           bdev_call(fn, lba, n)
    PROVE  AccessIInv' /\ MotorInv' /\ motor' = motor
<1>1. AccessIInv /\ MotorInv /\ drive \in Drives /\ fn \in CallNames /\ fn # "none"
  BY DEF IInv, AccessIInv, DeviceType
<1> QED BY <1>1, CallKeeps, MotorCancelled

LEMMA DeviceSteps ==
    ASSUME IInv, bdev_init \/ BdevStep \/ tick
    PROVE  /\ AccessIInv' /\ MotorInv'
           /\ motor /\ ~motor' /\ evlist = "sound" => idle_ticks' >= MotorTimeout
<1>0. MotorInv /\ AccessIInv /\ drive \in Drives /\ motor \in BOOLEAN
  BY DEF IInv, AccessIInv, DeviceType, MotorInv
<1>1. CASE bdev_init
  <2>1. motor' = motor
    BY <1>1 DEF bdev_init, motors
  <2> QED BY <1>0, <1>1, <2>1, InitKeeps, MotorBoots
<1>2. CASE bios_ok \/ bios_error
  <2>1. AccessIInv'
    BY <1>0, <1>2, OkKeeps, ErrorKeeps
  <2>2. /\ InBios /\ motor' = (motor \/ drive.floppy)
        /\ UNCHANGED <<drive, status, bdev_is_floppy, alarms, evlist, idle_ticks>>
    BY <1>2 DEF bios_ok, bios_error, geometry
  <2>3. req' = NoReq \/ req' = [req EXCEPT !.i = @ + 1]
    BY <1>2 DEF bios_ok, bios_error, Returns
  <2>4. req'.at \in {"none", "bios"} /\ (req'.fn = "none" => req'.at = "none")
    BY <1>0, <2>2, <2>3 DEF NoReq, AccessIInv, DeviceType, ReqType, MotorInv, InBios
  <2>5. MotorInv'
    BY <1>0, <2>2, <2>4, MotorTurnsOn
  <2>6. motor => motor'
    BY <2>2, Zenon
  <2> QED BY <2>1, <2>5, <2>6
<1>3. CASE set_alarm
  BY <1>0, <1>3, AlarmKeeps, MotorRenewed
<1>4. CASE calc_chs_panics
  <2>1. /\ status' = "panic" /\ UNCHANGED <<drive, bdev_is_floppy, req>> /\ UNCHANGED motors
        /\ motor' = motor
    BY <1>4 DEF calc_chs_panics, motors, geometry
  <2>2. MotorInv'
    BY <1>0, <2>1 DEF MotorInv, OneAlarm, motors
  <2> QED BY <1>0, <1>4, <2>1, <2>2, PanicKeeps
<1>5. CASE tick
  BY <1>0, <1>5, TickKeeps, MotorTicks
<1> QED BY <1>1, <1>2, <1>3, <1>4, <1>5 DEF BdevStep

LEMMA NextIInv ==
    ASSUME IInv, [Next]_vars
    PROVE  /\ IInv'
           /\ motor /\ ~motor' /\ evlist = "sound" => idle_ticks' >= MotorTimeout
<1>0. AccessIInv /\ MotorInv /\ WalkInv /\ WalkType /\ ChainInv
  BY DEF IInv, WalkInv
<1>1. ASSUME UNCHANGED bdev PROVE AccessIInv' /\ MotorInv' /\ motor' = motor
  <2>1. UNCHANGED accessing /\ UNCHANGED turning /\ motor' = motor
    BY <1>1 DEF bdev, accessing, turning, motors, geometry
  <2> QED BY <1>0, <2>1, AccessUnchanged, MotorUnchanged
<1>2. ASSUME UNCHANGED <<disk, walk>> PROVE WalkInv' /\ ChainInv'
  <2>1. UNCHANGED walking
    BY <1>2 DEF walk, walking
  <2> QED BY <1>0, <1>2, <2>1, WalkUnchanged, ChainUnchanged
<1>3. CASE direct
  <2>1. PICK fn \in CallNames \ {"none"}, lba \in Nat \X Nat, n \in Nat : bdev_call(fn, lba, n)
    BY <1>3, PartAssumption DEF direct, CallNames
  <2>2. AccessIInv' /\ MotorInv' /\ motor' = motor
    BY <2>1, DeviceCalled
  <2>3. WalkInv' /\ ChainInv'
    BY <1>2, <1>3 DEF direct
  <2> QED BY <2>2, <2>3 DEF IInv
<1>4. CASE device
  <2>1. WalkInv' /\ ChainInv'
    BY <1>2, <1>4 DEF device
  <2> QED BY <1>4, <2>1, DeviceSteps DEF IInv, device
<1>5. CASE start_walk
  BY <1>0, <1>1, <1>5, StartKeeps, ChainStart DEF IInv, start_walk
<1>6. CASE read_next
  <2>1. <<0, sidx>> \in Nat \X Nat /\ "read_sect" \in CallNames \ {"none"} /\ 1 \in Nat
    BY <1>0 DEF WalkType, CallNames
  <2>2. bdev_call("read_sect", <<0, sidx>>, 1)
    BY <1>6 DEF read_next
  <2>3. AccessIInv' /\ MotorInv' /\ motor' = motor
    BY <2>1, <2>2, DeviceCalled
  <2> QED BY <1>0, <1>6, <2>3, ReadKeeps, ChainRead DEF IInv
<1>7. CASE walk_error
  <2>1. WalkInv'
    BY <1>0, <1>7 DEF walk_error, WalkInv, WalkType, OverrunIsBounded
  <2>2. ChainInv'
    BY <1>0, <1>7 DEF walk_error, ChainInv
  <2> QED BY <1>1, <1>7, <2>1, <2>2 DEF IInv, walk_error
<1>8. CASE parse
  BY <1>0, <1>1, <1>8, ParseKeeps, ChainParse DEF IInv, parse
<1>9. CASE UNCHANGED vars
  BY <1>1, <1>2, <1>9 DEF IInv, vars
<1>10. CASE stopped
  BY <1>9, <1>10 DEF stopped
<1> QED BY <1>3, <1>4, <1>5, <1>6, <1>7, <1>8, <1>9, <1>10 DEF Next

LEMMA InvHolds == Spec => []IInv
<1>1. IInv /\ [Next]_vars => IInv'
  BY NextIInv
<1> QED BY InitIInv, <1>1, PTL DEF Spec

-----------------------------------------------------------------------------
\* For every drive geometry and BIOS: bdev_init finds the drive's geometry; an access that
\* succeeds has transferred exactly the sectors asked for (by CHS, below cylinder 256), after
\* however many errors and resets; and one that fails has made all its tries.
THEOREM AccessesAreExact == Spec => []AccessInv
<1>1. IInv => AccessInv
  <2> SUFFICES ASSUME IInv PROVE AccessInv
    OBVIOUS
  <2>1. AccessIInv /\ MotorInv /\ WalkInv /\ DeviceType /\ WalkType /\ MotorTimeout \in Nat \ {0}
    BY BootDevAssumption DEF IInv, AccessIInv, WalkInv
  <2>2. alarms \subseteq 1 .. MotorTimeout /\ evlist \in {"sound", "freed", "cyclic", "cut"}
    BY <2>1 DEF MotorInv
  <2>3. {have_bios_ext, bdev_is_floppy, motor} \subseteq BOOLEAN
    <3>1. have_bios_ext \in BOOLEAN /\ bdev_is_floppy \in BOOLEAN /\ motor \in BOOLEAN
      BY <2>1 DEF DeviceType, MotorInv
    <3> QED BY <3>1, Zenon
  <2>4. req.i \in 0 .. NRETRIES - 1 /\ req.at \in {"none", "alarm", "bios"}
    BY <2>1 DEF DeviceType, ReqType
  <2>5. BdevTypeOK
    BY <2>1, <2>2, <2>3, <2>4 DEF BdevTypeOK, DeviceType, Statuses
  <2>6. TypeOK
    BY <2>1, <2>5 DEF TypeOK, WalkType, WalkInv
  <2> QED BY <2>1, <2>6 DEF AccessInv, AccessIInv
<1> QED BY InvHolds, <1>1, PTL

\* A running motor has an alarm that will stop it, for every timeout and every sequence of
\* accesses none of which cancelled the motor's alarm at the head of the list, unless the
\* latest access outlasted the timeout.
THEOREM MotorIsStopped == Spec => []MotorWillStop
<1>1. IInv => MotorWillStop
  <2> SUFFICES ASSUME IInv, motor, alarms = {}, evlist = "sound", req.at # "alarm"
               PROVE  idle_ticks >= MotorTimeout
    BY DEF MotorWillStop
  <2>1. idle_ticks = MotorTimeout /\ MotorTimeout \in Nat
    BY BootDevAssumption DEF IInv, MotorInv, OneAlarm
  <2> QED BY <2>1
<1> QED BY InvHolds, <1>1, PTL

\* Under the same condition the alarm of an earlier access never stops the motor: every later
\* access cancels it, although ticks come between the cancellation and the new alarm.
THEOREM MotorRunsOn == Spec => MotorStaysOn
<1>1. IInv /\ [Next]_vars => [(motor /\ ~motor' /\ evlist = "sound") => idle_ticks' >= MotorTimeout]_bdev
  BY NextIInv
<1> QED BY InvHolds, <1>1, PTL DEF Spec, MotorStaysOn

\* Whatever is on the disk, read_partitions overruns a table of ptabsz entries by one entry
\* at most, or up to the four of the master boot record.
THEOREM TableOverrunIsBounded == Spec => []OverrunIsBounded
<1>1. IInv => OverrunIsBounded
  BY DEF IInv, WalkInv
<1> QED BY InvHolds, <1>1, PTL

\* For every disk whose chain of boot records is well formed, however long, and every size
\* of the table, the walk stores the partitions of the master boot record and of the chain,
\* each once and in order, until the table is full, with the bits and starts on the disk.
THEOREM TableIsCorrect == Spec => []TableInv
<1>1. IInv => TableInv
  BY TableFacts DEF IInv, WalkInv, TableInv
<1> QED BY InvHolds, <1>1, PTL
=============================================================================
