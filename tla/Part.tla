-------------------------------- MODULE Part --------------------------------
(***************************************************************************)
(* The partition table reader (src/src/part.c) over the boot device: the   *)
(* walk from the master boot record along the chain of extended boot       *)
(* records.                                                                *)
(***************************************************************************)
EXTENDS BootDev

CONSTANTS
    Disks,         \* functions from sectors to boot records: <<record, ...>>, or << >>
                   \* for a sector without the signature
    TableSizes,    \* values of ptabsz
    Uses,          \* "walk": read_partitions; "direct": sector accesses by the program
    Lbas, Counts,  \* arguments of direct accesses
    MaxRecords     \* bound: boot records read in one walk

Records(s) == IF s = 0 THEN 1 .. 4 ELSE 1 .. 2     \* what is looked at in sector s

ASSUME PartAssumption ==
    /\ Lbas \subseteq Nat \X Nat /\ Counts \subseteq Nat /\ TableSizes \subseteq Nat
    /\ \A d \in Disks : DOMAIN d \subseteq Nat /\ IsFiniteSet(DOMAIN d)
    /\ \A d \in Disks : \A s \in DOMAIN d :
        d[s] # << >> => /\ Records(s) \subseteq DOMAIN d[s]
                        /\ \A i \in Records(s) : d[s][i].first \in Nat /\ d[s][i].act \in BOOLEAN

None == [type |-> "none", first |-> 0, act |-> FALSE]

VARIABLES
    use, disk,
    pc,            \* "idle", "read", "parse", "done"
    ptabsz, sidx, first_ebr_offs, num_bootrec, nparts,
    table,         \* the entries stored: where they come from, primary bit, active bit, start
    ret            \* "none", "ok" or "error"

walk == <<pc, ptabsz, sidx, first_ebr_offs, num_bootrec, nparts, table, ret>>
vars == <<bdev, use, disk, walk>>

Init ==
    /\ BdevInit
    /\ use \in Uses
    /\ disk \in Disks
    /\ use = "direct" => disk = CHOOSE d \in Disks : TRUE
    /\ use = "walk" => drive = CHOOSE d \in Drives : ~d.floppy /\ ~d.ext
    /\ pc = "idle" /\ ptabsz = 0
    /\ sidx = 0 /\ first_ebr_offs = 0 /\ num_bootrec = 0 /\ nparts = 0
    /\ table = << >> /\ ret = "none"

\* accesses of the program itself
direct ==
    /\ use = "direct"
    /\ \E fn \in {"read_sect", "write_sect", "read_range", "write_range"}, lba \in Lbas,
          n \in Counts :
        /\ fn \in {"read_sect", "write_sect"} => n = 1
        /\ lba[1] = 0 => lba[2] + n <= drive.cyls * drive.heads * drive.sects
        /\ bdev_call(fn, lba, n)
    /\ UNCHANGED <<use, disk, walk>>

device == (bdev_init \/ BdevStep \/ tick) /\ UNCHANGED <<use, disk, walk>>

-----------------------------------------------------------------------------
\* the boot record in sectdata
sectdata == IF sidx \in DOMAIN disk THEN disk[sidx] ELSE << >>

start_walk ==
    /\ use = "walk" /\ status = "ready" /\ pc = "idle"
    /\ ptabsz' \in TableSizes
    /\ \/ pc' = "read" /\ UNCHANGED ret
       \/ pc' = "done" /\ ret' = "error"       \* another drive than the boot drive
    /\ UNCHANGED <<bdev, use, disk, sidx, first_ebr_offs, num_bootrec, nparts, table>>

\* top of the loop: IS_FIRST_EBR, then read_sector
read_next ==
    /\ pc = "read" /\ num_bootrec < MaxRecords
    /\ first_ebr_offs' = IF sidx # 0 /\ first_ebr_offs = 0 THEN sidx ELSE first_ebr_offs
    /\ bdev_call("read_sect", <<0, sidx>>, 1)
    /\ pc' = "parse"
    /\ UNCHANGED <<use, disk, ptabsz, sidx, num_bootrec, nparts, table, ret>>

walk_error ==
    /\ pc = "parse" /\ req.fn = "none"
    /\ res.code = "failed" \/ sectdata = << >>
    /\ pc' = "done" /\ ret' = "error"
    /\ UNCHANGED <<bdev, use, disk, ptabsz, sidx, first_ebr_offs, num_bootrec, nparts, table>>

\* the loop over the records of one boot record: sidx as it goes, what was found
\* Broken: a start is taken as it stands, also in an extended boot record.
Entry_absolute(at, rec, s) ==
    [at |-> at, prim |-> s = 0, act |-> rec.act, start |-> rec.first]
Entry(at, rec, s) ==
    [at |-> at, prim |-> s = 0, act |-> rec.act, start |-> rec.first + first_ebr_offs]
\* Broken: an empty record of an extended boot record only ends the scan.
EndOfChain_stay(w) == [w EXCEPT !.stop = TRUE]
EndOfChain(w) == [w EXCEPT !.sidx = 0, !.stop = TRUE]
Target(rec) == first_ebr_offs + rec.first
ScanRecord(w, i) ==
    LET rec == sectdata[i]
    IN CASE w.stop -> w
         [] ~w.stop /\ rec.type = "none" ->
              IF num_bootrec > 0 THEN EndOfChain(w) ELSE w
         [] ~w.stop /\ rec.type = "ext" -> [w EXCEPT !.sidx = Target(rec)]
         [] OTHER -> [w EXCEPT !.found = Append(@, Entry(<<sidx, i>>, rec, w.sidx))]
Scan ==
    LET two == ScanRecord(ScanRecord([sidx |-> sidx, found |-> << >>, stop |-> FALSE], 1), 2)
    IN IF sidx = 0 THEN ScanRecord(ScanRecord(two, 3), 4) ELSE two
\* Broken: one entry more is let through.
More_one(n) == ptabsz <= 0 \/ n <= ptabsz
\* !ptab || nparts < ptabsz
More(n) == ptabsz <= 0 \/ n < ptabsz
parse ==
    /\ pc = "parse" /\ req.fn = "none"
    /\ res.code = "done" /\ sectdata # << >>
    /\ \E r \in {Scan} :
        /\ sidx' = r.sidx
        /\ nparts' = nparts + Len(r.found)
        /\ table' = IF ptabsz > 0 THEN table \o r.found ELSE table
        /\ num_bootrec' = num_bootrec + 1
        /\ \/ r.sidx > 0 /\ More(nparts') /\ pc' = "read" /\ UNCHANGED ret
           \/ ~(r.sidx > 0 /\ More(nparts')) /\ pc' = "done" /\ ret' = "ok"
    /\ UNCHANGED <<bdev, use, disk, ptabsz, first_ebr_offs>>

stopped == (status \notin {"boot", "ready"} \/ pc = "done" \/ num_bootrec = MaxRecords) /\ UNCHANGED vars

WalkStep == read_next \/ walk_error \/ parse
Next == direct \/ device \/ start_walk \/ read_next \/ walk_error \/ parse \/ stopped

\* The program runs and the BIOS answers.
Spec ==
    /\ Init /\ [][Next]_vars
    /\ WF_vars(WalkStep) /\ WF_vars(BdevStep /\ UNCHANGED <<use, disk, walk>>)

-----------------------------------------------------------------------------
TypeOK ==
    /\ BdevTypeOK
    /\ pc \in {"idle", "read", "parse", "done"}
    /\ sidx \in Nat /\ first_ebr_offs \in Nat
    /\ Len(table) <= nparts

\* A well formed disk: at most one extended partition, and from there a chain of boot
\* records, each with one partition and a link to another sector or the end.
IsData(r) == r.type \notin {"none", "ext"}
IsEbr(b) == b # << >> /\ IsData(b[1]) /\ b[2].type \in {"none", "ext"}
Ext(b) == {i \in 1 .. 4 : b[i].type = "ext"}
FirstEbr(d) == IF Ext(d[0]) = {} THEN 0 ELSE d[0][CHOOSE i \in Ext(d[0]) : TRUE].first
NextEbr(d, s) ==
    IF s \in DOMAIN d \ {0} /\ d[s] # << >> /\ d[s][2].type = "ext"
    THEN FirstEbr(d) + d[s][2].first ELSE 0
Ebr(d) ==           \* sectors of the boot records linked to, then 0
    LET at[n \in 1 .. Cardinality(DOMAIN d) + 1] ==
            IF n = 1 THEN FirstEbr(d) ELSE NextEbr(d, at[n - 1])
    IN at
IsLength(d, n) ==   \* the chain has n boot records
    /\ Ebr(d)[n + 1] = 0
    /\ \A k \in 1 .. n : Ebr(d)[k] \in DOMAIN d \ {0} /\ IsEbr(d[Ebr(d)[k]])
Lengths(d) == {n \in 0 .. Cardinality(DOMAIN d) : IsLength(d, n)}
WellFormed(d) ==
    /\ 0 \in DOMAIN d /\ d[0] # << >>
    /\ \A i \in Ext(d[0]), j \in 1 .. 4 : d[0][i].first > 0 /\ (d[0][j].type = "ext" => j = i)
    /\ Lengths(d) # {}
InMbr(d, i) == IF IsData(d[0][i]) THEN <<<<0, i>>>> ELSE << >>
Expected(d) ==
    InMbr(d, 1) \o InMbr(d, 2) \o InMbr(d, 3) \o InMbr(d, 4)
    \o [k \in 1 .. CHOOSE n \in Lengths(d) : TRUE |-> <<Ebr(d)[k], 1>>]

\* On a well formed disk the table holds the partitions of the master boot record and then
\* those of the chain, each once and in order.  A partition marked primary is in the master
\* boot record; the start of one there, or in the first extended boot record, is absolute.
\* (One that follows the extended partition in the master boot record is not marked; later
\* starts in the chain count from the first extended boot record.)
TableIsRight ==
    (pc = "done" /\ ret = "ok" /\ WellFormed(disk) /\ ptabsz > 0) =>
        LET at == [k \in DOMAIN table |-> table[k].at]
            all == Expected(disk)
        IN /\ at = SubSeq(all, 1, Len(at))
           /\ Len(at) = Len(all) \/ Len(at) >= ptabsz
           /\ \A k \in DOMAIN table :
                LET s == at[k][1]
                    i == at[k][2]
                IN /\ table[k].prim => s = 0
                   /\ s = 0 /\ (\A j \in Ext(disk[0]) : j > i) => table[k].prim
                   /\ s \in {0, first_ebr_offs} => table[k].start = s + disk[s][i].first

\* Whatever is on the disk, a table of ptabsz entries is overrun by one entry at most,
\* or up to the four of the master boot record.
OverrunIsBounded == ptabsz > 0 => Len(table) <= 4 \/ Len(table) <= ptabsz + 1

\* On a well formed disk the walk ends.  (A chain that leads back to itself is followed for
\* ever if no table, or no partition on the way, ends it.)
WalkEnds == (pc = "read" /\ WellFormed(disk)) ~> (pc = "done" \/ status = "panic")

\* Accesses of the boot device: with the geometry the drive has, success means that exactly
\* the sectors asked for were transferred, and failure that the retries are used up.
AccessInv == TypeOK /\ GeometryIsRight /\ TransferIsExact /\ RetriesSuffice

\* The table is right for well formed disks, and its overrun is bounded for all disks.
TableInv == TableIsRight /\ OverrunIsBounded
=============================================================================
