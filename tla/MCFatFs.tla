------------------------------ MODULE MCFatFs ------------------------------
(***************************************************************************)
(* A small disk for FatFs: clusters of two bytes, a file "f" of three      *)
(* clusters out of order, a directory "d" of two clusters with a file of   *)
(* two full clusters that has a long name, and a directory "e" with a name *)
(* that is too long.                                                       *)
(***************************************************************************)
EXTENDS FatFs

Raw(kind, name, first, size) ==
    [kind |-> kind, name |-> <<name>>, last |-> FALSE, first |-> first, size |-> size]
Lfn(piece, last) == [Raw("lfn", piece, 0, 0) EXCEPT !.last = last]

RootEnts == <<Raw("volid", "v", 0, 0), Raw("file", "f", 6, 5), Raw("unused", "x", 3, 1),
              Raw("dir", "d", 3, 0), Raw("dir", "e", 9, 0), Raw("null", "", 0, 0)>>
SubEnts == [c \in 2 .. 9 |->
    CASE c = 3 -> <<Raw("dir", ".", 3, 0), Raw("dir", "..", 0, 0), Lfn("name", TRUE)>>
      [] c = 5 -> <<Lfn("long", FALSE), Raw("file", "LONGNA~1", 7, 4), Raw("null", "", 0, 0)>>
      [] c = 9 -> <<Lfn("too", TRUE), Lfn("long", FALSE), Lfn("name", FALSE),
                    Raw("file", "NAMETO~1", 0, 0), Raw("null", "", 0, 0)>>
      [] OTHER -> << >>]

\* f: 6, 2, 4; d: 3, 5; long name: 7, 8
Next2 == [c \in 0 .. 9 |-> CASE c = 6 -> 2 [] c = 2 -> 4 [] c = 3 -> 5 [] c = 7 -> 8 [] OTHER -> -1]
Entry(c, end) == IF Next2[c] < 0 THEN end ELSE Next2[c]

Byte(n, i) == (n \div (256 ^ i)) % 256
Fat16 == [b \in 0 .. 19 |-> Byte(Entry(b \div 2, 65535), b % 2)]
Fat32 == [b \in 0 .. 39 |-> Byte(Entry(b \div 4, 268435455), b % 4)]
\* twelve bits each, in a FAT of 32 bytes
Nibble(i) == IF i \div 3 > 9 THEN 0 ELSE (Entry(i \div 3, 4095) \div (16 ^ (i % 3))) % 16
Fat12 == [b \in 0 .. 31 |-> Nibble(2 * b) + 16 * Nibble(2 * b + 1)]

Disk(type, fat) == [type |-> type, fat |-> fat, root |-> RootEnts, ents |-> SubEnts]
Disks16 == {Disk("FAT16", Fat16)}
Disks12 == {[Disk("FAT12", Fat12) EXCEPT !.root = <<Raw("file", "f", 6, 5)>>,
                                      !.ents = [c \in 2 .. 9 |-> << >>]]}
DisksBoth == {Disk("FAT16", Fat16), Disk("FAT32", Fat32)}

P(abs, names) == [abs |-> abs, names |-> [i \in DOMAIN names |-> <<names[i]>>]]
LongName == [abs |-> FALSE, names |-> <<<<".">>, <<"long", "name", "cut">>>>]
OpenPaths == {P(TRUE, <<>>), P(TRUE, <<"d">>), P(TRUE, <<"f">>), P(FALSE, <<"..">>),
              P(TRUE, <<"d", "..">>), P(TRUE, <<"d", "no">>), P(TRUE, <<"f", "no">>), P(TRUE, <<"e">>), LongName}
RootFile == {P(TRUE, <<"f">>)}
ChdirPaths == {P(TRUE, <<>>), P(TRUE, <<"f">>), P(FALSE, <<"d">>), P(FALSE, <<"..">>),
               P(TRUE, <<"d", ".">>)}
NoPaths == {}
Symmetric == Permutations(Handles)
SeekBy == {-3, -1, 0, 3}

\* the hypotheses of the proof of FileInv, which FAT12 does not meet
ASSUME DisksAreSound == Disks = Disks12 \/ (WellFormed /\ Direct)
=============================================================================
