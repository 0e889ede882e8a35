------------------------------- MODULE FatFs -------------------------------
(***************************************************************************)
(* The FAT file system (src/src/fsfat.c), read only, as the root file      *)
(* system, with the working directory of src/src/fs.c.                     *)
(*                                                                         *)
(* The disk does not change.  A byte of a cluster is identified with its   *)
(* place <<cluster, offset>>; the FAT is kept as bytes, because decoding   *)
(* it is what the driver does.  Names are sequences of pieces: one for a   *)
(* short name, one per entry for a long name.  Directories in memory have  *)
(* addresses, so that freed and leaked ones can be told.                   *)
(***************************************************************************)
EXTENDS Integers, Sequences, FiniteSets, SequencesExt, CwdPath

CONSTANTS
    Disks,         \* [type, fat, root, ents]: FAT type, FAT bytes, raw entries of the
                   \* root directory and, by cluster, of the others
    ClusterBytes,  \* cluster_size * 512
    Handles,       \* nodes clients have open
    MaxDirs,       \* bound: directories in memory
    OpenArgs,      \* [abs, names]: paths clients open
    ChdirArgs,     \* paths clients change to
    MaxName,       \* pieces of a name that fit in MAX_NAME bytes
    CwdSize,       \* size of cwdpath (1024), names being one character long
    Offsets,       \* offsets clients seek by
    ReadSizes,     \* sizes clients read
    MaxPos,        \* bound: positions clients seek to
    PosMod,        \* number of values of uint32_t (2^32)
    Seeks,         \* "any", or "safe": to where the cluster is recomputed, in the file
    Failures       \* what the disk may fail to read: subset of {"dir", "file"}

\* fs_path_next cuts a name that does not fit; in cwdpath it is kept as it will be taken
fs_path_next(name) == IF Len(name) <= MaxName THEN name ELSE SubSeq(name, 1, MaxName)
Taken(path) == [path EXCEPT !.names = [i \in DOMAIN @ |-> fs_path_next(@[i])]]
Paths == {Taken(path) : path \in OpenArgs}
Dirs == {Taken(path) : path \in ChdirArgs}
Names == UNION {Range(path.names) : path \in Paths \union Dirs}

ASSUME FatAssumption ==
    /\ {ClusterBytes, MaxDirs, CwdSize, MaxName, MaxPos, PosMod} \subseteq Nat \ {0}
    /\ ReadSizes \subseteq Nat /\ Offsets \subseteq Int /\ IsFiniteSet(Handles)
    /\ \A path \in Paths \union Dirs : path.names \in Seq(Names)
    /\ Seeks \in {"any", "safe"} /\ Failures \subseteq {"dir", "file"}
    /\ \A disk \in Disks : disk.type \in {"FAT12", "FAT16", "FAT32"}

VARIABLES
    disk,      \* the mounted one
    dirs,      \* struct fat_dir, by address: [at, ref, cur_ent]
    nodes,     \* struct fs_node of each handle
    cwd,       \* cwdnode->data
    cwdpath,   \* its names
    exact,     \* history: every read has returned the bytes the file has at its position
    seen,      \* history: entries each handle's readdir has returned since it was rewound
    stopped    \* why the machine stopped, or "no"

vars == <<disk, dirs, nodes, cwd, cwdpath, exact, seen, stopped>>

NoNode == [type |-> "none"]
NoDir == -1
Root == 0                        \* address of fatfs->rootdir

-----------------------------------------------------------------------------
(***************************************************************************)
(* The file allocation table.                                              *)
(***************************************************************************)
Word(fatfs, i) == fatfs.fat[2 * i] + 256 * fatfs.fat[2 * i + 1]
\* FAT12: idx counts 16 bit words, and its parity selects the half
read_fat(fatfs, addr) ==
    CASE fatfs.type = "FAT12" ->
            LET idx == addr + addr \div 2
            IN IF idx % 2 = 1 THEN Word(fatfs, idx) \div 16 ELSE Word(fatfs, idx) % 4096
      [] fatfs.type = "FAT16" -> Word(fatfs, addr)
      [] OTHER -> Word(fatfs, 2 * addr) + 65536 * Word(fatfs, 2 * addr + 1)

EndMark(fatfs) ==
    CASE fatfs.type = "FAT12" -> 4088
      [] fatfs.type = "FAT16" -> 65528
      [] OTHER -> 268435448
next_cluster(fatfs, addr) ==
    LET fatval == read_fat(fatfs, addr)
    IN IF fatval = 0 \/ fatval >= EndMark(fatfs) THEN -1 ELSE fatval

\* count steps along the chain
Follow(fatfs, count, clust) ==
    LET after[n \in 0 .. count] ==
            IF n = 0 THEN clust
            ELSE IF after[n - 1] < 0 THEN after[n - 1] ELSE next_cluster(fatfs, after[n - 1])
    IN after[count]
Clusters(fatfs) == DOMAIN fatfs.ents
\* Broken: one step less.
find_cluster_short(fatfs, count, clust) ==
    {Follow(fatfs, IF count > 0 THEN count - 1 ELSE 0, clust)}
\* from cluster -1 the loop reads memory in front of the FAT: any cluster, or none
find_cluster(fatfs, count, clust) ==
    IF clust < 0 /\ count > 0 THEN Clusters(fatfs) \union {-1} ELSE {Follow(fatfs, count, clust)}

(***************************************************************************)
(* Directories.  A raw entry is [kind, name, last, first, size].           *)
(***************************************************************************)
\* the clusters load_dir reads
ChainOf(fatfs, first) ==
    LET n == CHOOSE k \in 0 .. Cardinality(Clusters(fatfs)) :
                 Follow(fatfs, k, first) >= 0 /\ Follow(fatfs, k + 1, first) < 0
    IN [i \in 1 .. n + 1 |-> Follow(fatfs, i - 1, first)]
RawEntries(fatfs, at) ==
    IF at = 0 THEN fatfs.root
    ELSE LET chain == ChainOf(fatfs, at)
         IN FlattenSeq([i \in DOMAIN chain |-> fatfs.ents[chain[i]]])

\* long name entries stand before their entry, the first piece nearest to it
IsLong(raws, i) == i > 0 /\ raws[i].kind = "lfn"
dent_filename(raws, i) ==
    IF ~IsLong(raws, i - 1) THEN raws[i].name
    ELSE LET n == CHOOSE k \in 1 .. i - 1 :
                     /\ raws[i - k].last \/ ~IsLong(raws, i - k - 1)
                     /\ \A j \in 1 .. k - 1 : ~raws[i - j].last /\ IsLong(raws, i - j - 1)
         IN FlattenSeq([k \in 1 .. n |-> raws[i - k].name])

\* the fs_dirent array: unused entries, volume labels and long names are left out
parse_dir_entries(raws) ==
    LET actual == {i \in DOMAIN raws : /\ raws[i].kind \in {"file", "dir"}
                                       /\ \A j \in 1 .. i : raws[j].kind # "null"}
        order == SetToSortSeq(actual, <)
    IN [k \in DOMAIN order |-> [name |-> dent_filename(raws, order[k]), ent |-> raws[order[k]]]]

\* the entries of each directory of a disk, by first cluster (0: the root directory)
DirStarts(fatfs) ==
    {0} \union {e.first : e \in {r \in UNION {Range(raws) : raws \in Range(fatfs.ents) \union {fatfs.root}} :
                                  r.kind = "dir"}}
Listings == [fatfs \in Disks |->
                [at \in DirStarts(fatfs) |-> parse_dir_entries(RawEntries(fatfs, at))]]
EntriesOf(at) == Listings[disk][at]
\* dent_filename writes names into entname, of MAX_NAME bytes, however long they are
Overlong(at) == \E i \in DOMAIN EntriesOf(at) : Len(EntriesOf(at)[i].name) > MaxName

\* the first entry with the name, or none
FoundOn(fatfs, at, name) ==
    LET found == SelectSeq(Listings[fatfs][at], LAMBDA e : e.name = name)
    IN IF found = << >> THEN << >> ELSE <<Head(found).ent>>
find_entry(at, name) == FoundOn(disk, at, name)

-----------------------------------------------------------------------------
(***************************************************************************)
(* open.  w is the loop's state: the directories in memory, dir, the entry *)
(* found last, whether the directory that holds it has been freed, and     *)
(* whether the walk has failed.                                            *)
(***************************************************************************)
New(ds) == CHOOSE d \in 1 .. MaxDirs : d \notin DOMAIN ds /\ \A e \in 1 .. d - 1 : e \in DOMAIN ds
Without(ds, d) == [e \in DOMAIN ds \ {d} |-> ds[e]]
Added(ds, dir) == [e \in DOMAIN ds \union {New(ds)} |-> IF e = New(ds) THEN dir ELSE ds[e]]

load_dir(ent) == [at |-> ent.first, ref |-> 0, cur_ent |-> 0]

free_dir(ds, d) ==
    IF ds[d].ref > 1 THEN [ds EXCEPT ![d].ref = @ - 1] ELSE Without(ds, d)

\* an entry without clusters is "..", for the root directory, or an empty file
IsRootEnt(ent) == ent.first = 0 /\ ent.kind = "dir"
\* go on to the entry: load it if it is a directory, free the directory it is in
Enter(w, ent, loads) ==
    [dirs |-> LET loaded == IF loads THEN Added(w.dirs, load_dir(ent)) ELSE w.dirs
              IN IF w.dir \in {Root, cwd} THEN loaded ELSE free_dir(loaded, w.dir),
     dir |-> IF loads THEN New(w.dirs) ELSE IF IsRootEnt(ent) THEN Root ELSE NoDir,
     ent |-> ent, freed |-> w.dir \notin {Root, cwd}, failed |-> FALSE]
Select(w, found, reads) ==
    IF found = << >> \/ (found[1].first = 0 /\ ~IsRootEnt(found[1])) THEN [w EXCEPT !.failed = TRUE]
    ELSE Enter(w, found[1], found[1].first # 0 /\ found[1].kind = "dir" /\ reads)
\* one pass of the loop; reads says whether the disk can be read
Step(w, name, reads) ==
    IF w.failed \/ (w.dir # NoDir /\ name = <<".">>) THEN w
    ELSE IF w.dir = NoDir THEN [w EXCEPT !.failed = TRUE]
    ELSE Select(w, find_entry(w.dirs[w.dir].at, name), reads)
Walk(path, bad) ==
    LET start == [dirs |-> dirs, dir |-> IF path.abs THEN Root ELSE cwd,
                  ent |-> << >>, freed |-> FALSE, failed |-> FALSE]
        after[n \in 0 .. Len(path.names)] ==
            IF n = 0 THEN start ELSE Step(after[n - 1], path.names[n], n # bad)
    IN after[Len(path.names)]

\* Broken: the root directory itself is used; the reference is not counted.
DirOf_root(w) ==
    [dirs |-> [w.dirs EXCEPT ![w.dir].cur_ent = 0, ![w.dir].ref = @ + 1], dir |-> w.dir]
DirOf_uncounted(w) ==
    IF w.dir = Root
    THEN [dirs |-> Added(w.dirs, [w.dirs[Root] EXCEPT !.ref = 0, !.cur_ent = 0]), dir |-> New(w.dirs)]
    ELSE [dirs |-> [w.dirs EXCEPT ![w.dir].cur_ent = 0], dir |-> w.dir]
\* the directory a node gets: a copy of the root directory's structure, or dir
DirOf(w) ==
    IF w.dir = Root
    THEN [dirs |-> Added(w.dirs, [w.dirs[Root] EXCEPT !.ref = 1, !.cur_ent = 0]), dir |-> New(w.dirs)]
    ELSE [dirs |-> [w.dirs EXCEPT ![w.dir].cur_ent = 0, ![w.dir].ref = @ + 1], dir |-> w.dir]

\* the entry copied by init_file; in freed memory it may have been zeroed by calloc
Zeroed(ent) == [ent EXCEPT !.first = 0, !.size = 0]
CopiesOf(w) == IF w.freed THEN {w.ent, Zeroed(w.ent)} ELSE {w.ent}
init_file(ent, of) ==
    [type |-> "file", ent |-> ent, of |-> of, cur_pos |-> 0, cur_clust |-> ent.first,
     clustbuf |-> 0, buf_valid |-> FALSE]

\* the walk has at most two directories of its own in memory
Room == Cardinality(1 .. MaxDirs \ DOMAIN dirs) >= 2
\* the walk loads a directory with such a name
Overruns(path, bad) ==
    \E n \in 1 .. Len(path.names) :
        LET w == Walk([path EXCEPT !.names = SubSeq(@, 1, n)], bad)
        IN ~w.failed /\ w.dir # NoDir /\ Overlong(w.dirs[w.dir].at)
MayFail(path) == {0} \union IF "dir" \in Failures THEN 1 .. Len(path.names) ELSE {}
BadReads(path) == {bad \in MayFail(path) : ~Overruns(path, bad)}

\* the panics of load_dir, parse_dir_entries and open
open_nomem ==
    /\ stopped = "no" /\ ~Room
    /\ stopped' = "no memory"
    /\ UNCHANGED <<disk, dirs, nodes, cwd, cwdpath, exact, seen>>

open(h, path) ==
    /\ stopped = "no" /\ nodes[h] = NoNode /\ Room
    /\ \E w \in {Walk(path, bad) : bad \in BadReads(path)} :
          \/ /\ w.failed
             /\ dirs' = w.dirs
             /\ UNCHANGED <<nodes, seen>>
          \/ /\ ~w.failed /\ w.dir # NoDir
             /\ dirs' = DirOf(w).dirs
             /\ nodes' = [nodes EXCEPT ![h] = [type |-> "dir", dir |-> DirOf(w).dir]]
             /\ seen' = [seen EXCEPT ![h] = 0]
          \/ /\ ~w.failed /\ w.dir = NoDir
             /\ dirs' = w.dirs
             /\ \E ent \in CopiesOf(w) :
                   nodes' = [nodes EXCEPT ![h] = init_file(ent, w.ent)]
             /\ UNCHANGED seen
    /\ UNCHANGED <<disk, cwd, cwdpath, exact, stopped>>

close(h) ==
    /\ stopped = "no" /\ nodes[h] # NoNode
    /\ dirs' = IF nodes[h].type = "dir" THEN free_dir(dirs, nodes[h].dir) ELSE dirs
    /\ nodes' = [nodes EXCEPT ![h] = NoNode]
    /\ seen' = [seen EXCEPT ![h] = 0]
    /\ UNCHANGED <<disk, cwd, cwdpath, exact, stopped>>

\* Broken: no end.
readdir_endless(h) ==
    /\ stopped = "no" /\ nodes[h].type = "dir"
    /\ dirs' = [dirs EXCEPT ![nodes[h].dir].cur_ent = @ + 1]
    /\ seen' = [seen EXCEPT ![h] = @ + 1]
    /\ UNCHANGED <<disk, nodes, cwd, cwdpath, exact, stopped>>
readdir(h) ==
    /\ stopped = "no" /\ nodes[h].type = "dir"
    /\ dirs[nodes[h].dir].cur_ent < Len(EntriesOf(dirs[nodes[h].dir].at))
    /\ dirs' = [dirs EXCEPT ![nodes[h].dir].cur_ent = @ + 1]
    /\ seen' = [seen EXCEPT ![h] = @ + 1]
    /\ UNCHANGED <<disk, nodes, cwd, cwdpath, exact, stopped>>
rewinddir(h) ==
    /\ stopped = "no" /\ nodes[h].type = "dir"
    /\ dirs' = [dirs EXCEPT ![nodes[h].dir].cur_ent = 0]
    /\ seen' = [seen EXCEPT ![h] = 0]
    /\ UNCHANGED <<disk, nodes, cwd, cwdpath, exact, stopped>>

-----------------------------------------------------------------------------
(***************************************************************************)
(* Files.                                                                  *)
(***************************************************************************)
ClustIdx(pos) == pos \div ClusterBytes

\* from the end, the sum is a uint32_t, and never negative
NewPos(f, offs, whence) ==
    LET pos == CASE whence = "set" -> offs
                 [] whence = "cur" -> f.cur_pos + offs
                 [] whence = "end" -> (f.ent.size + offs) % PosMod
    IN IF pos < 0 THEN 0 ELSE pos

\* Broken: the buffer stays valid.
SeekTo_keep(f, pos) ==
    {[f EXCEPT !.cur_pos = pos, !.cur_clust = c] :
        c \in IF ClustIdx(pos) = ClustIdx(f.cur_pos) THEN {f.cur_clust}
              ELSE IF ClustIdx(pos) < ClustIdx(f.cur_pos)
              THEN find_cluster(disk, ClustIdx(pos), f.ent.first)
              ELSE find_cluster(disk, ClustIdx(pos) - ClustIdx(f.cur_pos), f.cur_clust)}
\* in another cluster, it is looked up from the start of the file or from here
SeekTo(f, pos) ==
    IF ClustIdx(pos) = ClustIdx(f.cur_pos) THEN {[f EXCEPT !.cur_pos = pos]}
    ELSE {[f EXCEPT !.cur_pos = pos, !.cur_clust = c, !.buf_valid = FALSE] :
            c \in IF ClustIdx(pos) < ClustIdx(f.cur_pos)
                  THEN find_cluster(disk, ClustIdx(pos), f.ent.first)
                  ELSE find_cluster(disk, ClustIdx(pos) - ClustIdx(f.cur_pos), f.cur_clust)}

SafeSeek(f, pos) ==
    /\ pos <= f.ent.size
    /\ f.cur_clust < 0 => ClustIdx(pos) < ClustIdx(f.cur_pos)

seek(h, offs, whence) ==
    /\ stopped = "no" /\ nodes[h].type = "file"
    /\ LET pos == NewPos(nodes[h], offs, whence)
       IN /\ pos <= MaxPos
          /\ Seeks = "safe" => SafeSeek(nodes[h], pos)
          /\ \E f \in SeekTo(nodes[h], pos) : nodes' = [nodes EXCEPT ![h] = f]
    /\ UNCHANGED <<disk, dirs, cwd, cwdpath, exact, seen, stopped>>

Lesser(a, b) == IF a < b THEN a ELSE b

\* one pass of read's loop.  fails: the cluster cannot be read, and that goes unnoticed
ReadPass(r, sz, fails) ==
    LET f == r.file
        buf == IF f.buf_valid \/ fails THEN f.clustbuf ELSE f.cur_clust
        offs == f.cur_pos % ClusterBytes
        want == Lesser(ClusterBytes - offs, sz - Len(r.data))
        len == Lesser(want, f.ent.size - f.cur_pos)
        pos == f.cur_pos + len
        next == next_cluster(disk, f.cur_clust)
        full == [f EXCEPT !.cur_pos = pos, !.clustbuf = buf, !.buf_valid = TRUE]
        data == r.data \o [i \in 1 .. len |-> <<buf, offs + i - 1>>]
    IN CASE len < 0 -> [r EXCEPT !.done = TRUE, !.overrun = TRUE]
         [] len >= 0 /\ pos >= f.ent.size ->
              [r EXCEPT !.file = [full EXCEPT !.cur_clust = -1, !.buf_valid = FALSE],
                        !.data = data, !.done = TRUE]
         [] len >= 0 /\ pos < f.ent.size /\ ClustIdx(pos) # ClustIdx(f.cur_pos) ->
              [r EXCEPT !.file = [full EXCEPT !.cur_clust = next, !.buf_valid = FALSE],
                        !.data = data, !.done = next < 0 \/ Len(data) >= sz]
         [] OTHER -> [r EXCEPT !.file = full, !.data = data, !.done = Len(data) >= sz]
ReadLoop(f, sz, fails) ==
    LET pass[n \in 0 .. sz] ==
            IF n = 0
            THEN [file |-> f, data |-> << >>, done |-> f.cur_clust < 0 \/ sz = 0, overrun |-> FALSE]
            ELSE IF pass[n - 1].done THEN pass[n - 1] ELSE ReadPass(pass[n - 1], sz, fails)
    IN pass[sz]

\* what the FAT's definition says: entry n of FAT12 is the 12 bits from bit 12 n on
FatEntry(n) ==
    LET b == n + n \div 2
    IN IF disk.type # "FAT12" THEN read_fat(disk, n)
       ELSE IF n % 2 = 0 THEN disk.fat[b] + 256 * (disk.fat[b + 1] % 16)
       ELSE disk.fat[b] \div 16 + 16 * disk.fat[b + 1]
ClusterOf(ent, idx) ==
    LET at[n \in 0 .. idx] == IF n = 0 THEN ent.first ELSE FatEntry(at[n - 1])
    IN at[idx]
BytesOf(ent, pos, sz) ==
    [i \in 1 .. Lesser(sz, ent.size - pos) |->
        <<ClusterOf(ent, ClustIdx(pos + i - 1)), (pos + i - 1) % ClusterBytes>>]

ReadFails == IF "file" \in Failures THEN BOOLEAN ELSE {FALSE}
read(h, sz) ==
    /\ stopped = "no" /\ nodes[h].type = "file"
    /\ \E r \in {ReadLoop(nodes[h], sz, fails) : fails \in ReadFails} :
          /\ nodes' = [nodes EXCEPT ![h] = r.file]
          /\ exact' = (exact /\ r.data = BytesOf(nodes[h].of, nodes[h].cur_pos, sz))
          /\ stopped' = IF r.overrun THEN "overrun" ELSE stopped
    /\ UNCHANGED <<disk, dirs, cwd, cwdpath, seen>>

-----------------------------------------------------------------------------
(***************************************************************************)
(* fs_chdir.  ".." is the working directory's path less its last name,     *)
(* opened again from the root.                                             *)
(***************************************************************************)
Up == [abs |-> FALSE, names |-> <<<<"..">>>>]

fs_chdir(path) ==
    /\ stopped = "no" /\ Room
    /\ path = Up => cwdpath # << >>
    /\ \E w \in {Walk(Target(cwdpath, path, Up), bad) : bad \in BadReads(Target(cwdpath, path, Up))} :
          \/ /\ w.failed \/ w.dir = NoDir
             /\ dirs' = w.dirs
             /\ UNCHANGED <<cwd, cwdpath, stopped>>
          \/ /\ ~w.failed /\ w.dir # NoDir /\ ~Fits(cwdpath, path, Up, CwdSize)
             /\ stopped' = "path too long"
             /\ UNCHANGED <<dirs, cwd, cwdpath>>
          \/ /\ ~w.failed /\ w.dir # NoDir /\ Fits(cwdpath, path, Up, CwdSize)
             /\ dirs' = free_dir(DirOf(w).dirs, cwd)
             /\ cwd' = DirOf(w).dir
             /\ cwdpath' = NewCwd(cwdpath, path, Up)
             /\ UNCHANGED stopped
    /\ UNCHANGED <<disk, nodes, exact, seen>>

\* the stack is overwritten while a directory is loaded
Asked == Paths \union
    {Target(cwdpath, path, Up) : path \in {p \in Dirs : p = Up => cwdpath # << >>}}
load_dir_overlong ==
    /\ stopped = "no" /\ Room
    /\ \E path \in Asked : BadReads(path) # MayFail(path)
    /\ stopped' = "name too long"
    /\ UNCHANGED <<disk, dirs, nodes, cwd, cwdpath, exact, seen>>

halted == stopped # "no" /\ UNCHANGED vars

\* fsfat_create loads the root directory; fs_mount changes to it
Init ==
    /\ disk \in Disks
    /\ dirs = [d \in {Root, 1} |-> [at |-> 0, ref |-> 1, cur_ent |-> 0]]
    /\ nodes = [h \in Handles |-> NoNode]
    /\ cwd = 1 /\ cwdpath = << >>
    /\ exact = TRUE
    /\ seen = [h \in Handles |-> 0]
    /\ stopped = IF Overlong(0) THEN "name too long" ELSE "no"

Next ==
    \/ \E h \in Handles :
          \/ \E path \in Paths : open(h, path)
          \/ close(h)
          \/ readdir(h)
          \/ rewinddir(h)
          \/ \E offs \in Offsets, whence \in {"set", "cur", "end"} : seek(h, offs, whence)
          \/ \E sz \in ReadSizes : read(h, sz)
    \/ \E path \in Dirs : fs_chdir(path)
    \/ open_nomem
    \/ load_dir_overlong
    \/ halted

Spec == Init /\ [][Next]_vars

-----------------------------------------------------------------------------
Files == {h \in Handles : nodes[h].type = "file"}
OpenDirs == {h \in Handles : nodes[h].type = "dir"}

\* Handles and directories have the shape the driver's structures give them, and
\* readdir never passes the end of the entry array.
TypeOK ==
    /\ DOMAIN dirs \subseteq 0 .. MaxDirs
    /\ \A d \in DOMAIN dirs : dirs[d].ref \in Nat /\ dirs[d].cur_ent \in 0 .. Len(EntriesOf(dirs[d].at))
    /\ \A h \in Files : nodes[h].cur_pos \in Nat /\ nodes[h].cur_clust \in Clusters(disk) \union {-1, 0}
    /\ seen \in [Handles -> Nat]
    /\ stopped \in {"no", "no memory", "overrun", "path too long", "name too long"}

\* The comment on cur_clust: it is the "cluster number corresponding to cur_pos", after
\* any sequence of seeks in both directions and reads across clusters.
CurClustMatches ==
    \A h \in Files : nodes[h].cur_pos < nodes[h].of.size =>
        nodes[h].cur_clust = ClusterOf(nodes[h].of, ClustIdx(nodes[h].cur_pos))

\* A read returns the bytes the file has at its position, as many as there are,
\* although the cluster buffer is kept between reads and seeks.
ReadIsExact == exact

\* A directory in memory lives exactly as long as it is used: what a node or the
\* working directory refers to has not been freed, and is counted as often.
RefsAreCounted ==
    /\ {Root, cwd} \union {nodes[h].dir : h \in OpenDirs} \subseteq DOMAIN dirs
    /\ \A d \in DOMAIN dirs \ {Root} :
          dirs[d].ref = Cardinality({h \in OpenDirs : nodes[h].dir = d}) + (IF d = cwd THEN 1 ELSE 0)

\* A handle's readdir goes through the entries one by one from its last rewind or its
\* open, whatever happens to other handles of the same directory (opened by its name;
\* handles of "." share the working directory's position).
ListingIsExact == \A h \in OpenDirs : dirs[nodes[h].dir].cur_ent = seen[h]

\* Following the names of cwdpath from the root leads to the working directory, so
\* that fs_getcwd tells where relative paths start, and chdir("..") can build on it.
Follows(at, name) ==        \* at: where the names so far lead, << >> if nowhere
    LET found == find_entry(at[1], name)
    IN IF at = << >> \/ name = <<".">> THEN at
       ELSE IF found = << >> \/ found[1].kind # "dir" THEN << >> ELSE <<found[1].first>>
CwdMatches ==
    LET at[n \in 0 .. Len(cwdpath)] == IF n = 0 THEN <<0>> ELSE Follows(at[n - 1], cwdpath[n])
    IN at[Len(cwdpath)] = <<dirs[cwd].at>>

\* An open file's cached cluster is that of its position, and reads through it return the
\* file's bytes.
FileInv == TypeOK /\ CurClustMatches /\ ReadIsExact

-----------------------------------------------------------------------------
(***************************************************************************)
(* What the proof of FileInv supposes: a disk is as a FAT file system has  *)
(* it to be, and not FAT12, whose entries read_fat takes from the wrong    *)
(* place.                                                                  *)
(***************************************************************************)
\* A file has every cluster its size needs.
Chained(fatfs, ent) ==
    /\ ent.size \in Nat /\ ent.first \in Clusters(fatfs)
    /\ \A pos \in 0 .. ent.size - 1 : Follow(fatfs, ClustIdx(pos), ent.first) >= 0
\* What is found in a directory is a directory, of size 0, or a file.
SoundEntry(fatfs, ent) ==
    /\ ent \in [kind : {ent.kind}, name : {ent.name}, last : {ent.last},
               first : {ent.first}, size : {ent.size}]
    /\ ent.kind = "dir" => ent.size = 0 /\ ent.first \in DirStarts(fatfs)
    /\ ent.first # 0 => Chained(fatfs, ent)
\* A cluster of a chain is followed by another, or by the end.
WellFormed ==
    \A fatfs \in Disks :
        /\ fatfs.type # "FAT12" /\ Clusters(fatfs) \subseteq Nat \ {0}
        /\ \A c \in Clusters(fatfs) : next_cluster(fatfs, c) \in Clusters(fatfs) \union {-1}
        /\ \A at \in DirStarts(fatfs) :
              /\ Len(Listings[fatfs][at]) \in Nat
              /\ \A name \in Names : FoundOn(fatfs, at, name) # << >> =>
                                      SoundEntry(fatfs, FoundOn(fatfs, at, name)[1])
\* Files are opened in the root or the working directory: the entry of one elsewhere is
\* copied from memory that open has freed.
Direct ==
    \A path \in Paths : (\E k \in 1 .. Len(path.names) - 1 : path.names[k] # <<".">>) =>
        \A fatfs \in Disks : \A at \in DirStarts(fatfs) :
            LET found == FoundOn(fatfs, at, path.names[Len(path.names)])
            IN found # << >> => found[1].kind = "dir"
=============================================================================
