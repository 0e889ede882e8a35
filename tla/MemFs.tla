------------------------------- MODULE MemFs -------------------------------
(***************************************************************************)
(* The memory file system (src/src/fsmem.c) with what reaches it: fs_mount *)
(* and fs_chdir of src/src/fs.c, mkdir and rmdir of src/src/libc/unistd.c. *)
(* All file systems are memory file systems; one is named by its root      *)
(* node.                                                                   *)
(*                                                                         *)
(* Nodes (struct memfs_node) are linked by addresses as in the code.  The  *)
(* code never frees them.  Open nodes (struct fs_node) are freed by close, *)
(* and a node keeps the address of the first one that was opened for it:   *)
(* what is read there later is the old contents, those of the open node    *)
(* that has the address now, or anything, when the heap has given the      *)
(* memory to another block.                                                *)
(***************************************************************************)
EXTENDS Integers, Sequences, FiniteSets, SequencesExt, CwdPath

CONSTANTS
    Programs,    \* the sets of operations programs use
    MaxNodes,    \* memory for memfs_nodes
    Opens,       \* addresses of fs_nodes
    Paths,       \* [abs, names]: paths clients open
    NewPaths,    \* paths they create files and directories at
    Dirs,        \* paths they change to
    NewNames,    \* names clients rename to
    Lower,       \* tolower: [names -> names]
    CwdSize,     \* size of cwdpath
    Bytes,       \* values clients write
    Sizes,       \* sizes clients read and write
    Offsets,     \* offsets clients seek by
    MaxFiles,    \* bound: files clients create
    MaxPos,      \* bound: positions clients seek to
    MountOn      \* "any" open node, or "own": one no other node keeps the address of

ASSUME MemAssumption ==
    /\ {MaxNodes, MaxFiles, MaxPos, CwdSize} \subseteq Nat \ {0}
    /\ Sizes \subseteq Nat \ {0} /\ Offsets \subseteq Int
    /\ 0 \notin Opens
    /\ MountOn \in {"any", "own"}

VARIABLES
    uses,      \* the operations of the program that runs
    mn,        \* memfs_nodes, by address: [type, name, parent, next, fsnode] with
               \* [clist, ctail] or [data, size, max, freed]; max is max_size, and data
               \* as long as the memory there really is
    fsn,       \* fs_nodes: [live, fs, node, cur, mnt]; cur is cur_pos or od->cur; mnt is
               \* Unknown in memory that has another use
    cwd,       \* cwdnode
    cwdpath,   \* its names
    mounts,    \* history: the file system mounted on each node
    ideal,     \* history: the bytes written to each file
    due,       \* history: entries each open directory has yet to list
    exact,     \* history: every read has returned the bytes written
    stopped    \* why the machine stopped, or "no"

vars == <<uses, mn, fsn, cwd, cwdpath, mounts, ideal, due, exact, stopped>>

Nil == 0
Dummy == -1                      \* the list head on remove's stack
Junk == "junk"                   \* what fresh memory holds
Unknown == -2
RootFs == 1
NoOpen == [live |-> FALSE, fs |-> Nil, node |-> Nil, cur |-> 0, mnt |-> Nil]
Up == [abs |-> FALSE, names |-> <<"..">>]

-----------------------------------------------------------------------------
(***************************************************************************)
(* Nodes and their lists.                                                  *)
(***************************************************************************)
New == 1 + Cardinality(DOMAIN mn)
Fresh(type, name, parent) ==
    [type |-> type, name |-> name, parent |-> parent, next |-> Nil, fsnode |-> Nil] @@
    (IF type = "dir" THEN [clist |-> Nil, ctail |-> Nil]
                     ELSE [data |-> << >>, size |-> 0, max |-> 0, freed |-> FALSE])

\* the nodes of a list, from n on
From(nodes, n) ==
    LET at[k \in 1 .. Cardinality(DOMAIN nodes)] ==
            IF k = 1 THEN n ELSE IF at[k - 1] = Nil THEN Nil ELSE nodes[at[k - 1]].next
    IN SelectSeq(at, LAMBDA m : m # Nil)
Children(nodes, d) == From(nodes, nodes[d].clist)

find_entry(d, name) ==
    LET found == SelectSeq(Children(mn, d), LAMBDA n : Lower[mn[n].name] = Lower[name])
    IN CASE name = "." -> d
         [] name = ".." -> mn[d].parent
         [] OTHER -> IF found = << >> THEN Nil ELSE Head(found)

\* Broken: the new node becomes the tail without being linked to the old one.
add_child_tail(nodes, d, n) ==
    IF nodes[d].clist = Nil
    THEN [nodes EXCEPT ![d].clist = n, ![d].ctail = n, ![n].parent = d]
    ELSE [nodes EXCEPT ![d].ctail = n, ![n].parent = d]
add_child(nodes, d, n) ==
    IF nodes[d].clist = Nil
    THEN [nodes EXCEPT ![d].clist = n, ![d].ctail = n, ![n].parent = d]
    ELSE [nodes EXCEPT ![nodes[d].ctail].next = n, ![d].ctail = n, ![n].parent = d]

\* a file's memory is freed and may hold anything from then on; the node is not
free_node(node) ==
    IF node.type = "dir" THEN node
    ELSE [node EXCEPT !.freed = node.data # << >>, !.data = [i \in DOMAIN @ |-> Junk]]

\* remove's loop, with n after prev in the list of par
Unlink(par, prev, n) ==
    LET tail == IF mn[par].ctail = n THEN prev ELSE mn[par].ctail
        removed == [mn EXCEPT ![n] = free_node(@), ![par].ctail = tail]
    IN IF prev = Dummy THEN [removed EXCEPT ![par].clist = mn[n].next]
       ELSE [removed EXCEPT ![prev].next = mn[n].next]
\* Broken: the tail stays; the removed node's link is cleared.
Removed_tail(n) ==
    LET par == mn[n].parent
        list == Children(mn, par)
        before == {m \in DOMAIN mn : m # n /\ mn[m].next = n}
    IN IF n \notin Range(list) THEN mn
       ELSE [Unlink(par, IF before \intersect Range(list) = {} THEN Dummy
                         ELSE CHOOSE m \in before : m \in Range(list), n)
                EXCEPT ![par].ctail = mn[par].ctail]
Removed_cleared(n) ==
    LET par == mn[n].parent
        list == Children(mn, par)
        before == {m \in Range(list) : mn[m].next = n}
    IN IF n \notin Range(list) THEN mn
       ELSE [Unlink(par, IF before = {} THEN Dummy ELSE CHOOSE m \in before : TRUE, n)
                EXCEPT ![n].next = Nil]
\* a node that is in no list any more is not found, and nothing happens
Removed(n) ==
    LET par == mn[n].parent
        list == Children(mn, par)
        before == {m \in Range(list) : mn[m].next = n}
    IN IF n \notin Range(list) THEN mn
       ELSE Unlink(par, IF before = {} THEN Dummy ELSE CHOOSE m \in before : TRUE, n)
MayRemove(n) ==
    /\ mn[n].type = "dir" => mn[n].clist = Nil
    /\ mn[n].parent # Nil

-----------------------------------------------------------------------------
(***************************************************************************)
(* open.  A mount point is left at once: open_mount opens the rest of the  *)
(* path from the root of the other file system.                            *)
(***************************************************************************)
\* NODE_IS_MNTPT: the file system on a node, or Nil.  What overwrites the open node may
\* leave nothing there, and the walk goes on; or anything else, and it is Astray.
Overwritten(n) == mn[n].fsnode # Nil /\ fsn[mn[n].fsnode].mnt = Unknown
MountOf(n) == IF mn[n].fsnode = Nil \/ Overwritten(n) THEN Nil ELSE fsn[mn[n].fsnode].mnt
open_mount(at) ==
    LET to[k \in 0 .. MaxNodes] ==
            IF k = 0 THEN at
            ELSE IF MountOf(to[k - 1].node) = Nil THEN to[k - 1]
            ELSE [fs |-> MountOf(to[k - 1].node), node |-> MountOf(to[k - 1].node)]
    IN to[MaxNodes]

\* one pass of the loop, from node w.node; a node that is not found ends it
Enter(w, at, name) ==
    [w EXCEPT !.fs = at.fs, !.node = find_entry(at.node, name), !.parent = at.node, !.name = name,
              !.astray = @ \/ Overwritten(at.node)]
Step(w, name) ==
    IF w.failed \/ w.node = Nil \/ mn[w.node].type # "dir" THEN [w EXCEPT !.failed = TRUE]
    ELSE Enter(w, open_mount([fs |-> w.fs, node |-> w.node]), name)
\* Broken: the check after the loop is missing.
Final_uncrossed(w) == w
Final(w) ==
    IF w.failed \/ w.node = Nil THEN w
    ELSE LET at == open_mount([fs |-> w.fs, node |-> w.node])
         IN [w EXCEPT !.fs = at.fs, !.node = at.node, !.astray = @ \/ Overwritten(at.node)]
Start(path) ==
    IF path.abs THEN [fs |-> RootFs, node |-> RootFs]
    ELSE [fs |-> fsn[cwd].fs, node |-> fsn[cwd].node]
Walk(path) ==
    Final(FoldLeft(Step, Start(path) @@ [parent |-> Nil, name |-> "", failed |-> FALSE, astray |-> FALSE],
                   path.names))

\* open calls the file system that it takes what it reads for
Astray(path) ==
    /\ Walk(path).astray
    /\ stopped' = "undefined"
    /\ UNCHANGED <<mn, fsn, cwd, cwdpath, mounts, ideal, due, exact>>

Free == {a \in Opens : ~fsn[a].live}
FirstCur(nodes, n) == IF nodes[n].type = "dir" THEN nodes[n].clist ELSE 0
Opened(nodes, a, fs, n) ==
    [fsn EXCEPT ![a] = [live |-> TRUE, fs |-> fs, node |-> n, cur |-> FirstCur(nodes, n), mnt |-> Nil]]
Kept(nodes, a, n) == IF nodes[n].fsnode = Nil THEN [nodes EXCEPT ![n].fsnode = a] ELSE nodes
Due(nodes, n) == IF nodes[n].type = "dir" THEN Range(Children(nodes, n)) ELSE {}

\* what open can end in: the nodes, and the fs_node's address, or Nil.  Memory may run
\* out before a new node is added and, with the node added, before it is opened.
Outcome(nodes, a, w, n) ==
    [nodes |-> IF a = Nil THEN nodes ELSE Kept(nodes, a, n),
     open |-> IF a = Nil THEN fsn ELSE Opened(nodes, a, w.fs, n),
     at |-> a, node |-> n, new |-> n \notin DOMAIN mn]
Nothing == [nodes |-> mn, open |-> fsn, at |-> Nil, node |-> Nil, new |-> FALSE]
Create(w, type) == add_child(mn @@ (New :> Fresh(type, w.name, Nil)), w.parent, New)
Results(w, flags) ==
    {Nothing} \union
    IF w.failed THEN {}
    ELSE IF w.node = Nil
    THEN IF "create" \notin flags \/ New > MaxNodes THEN {}
         ELSE {Outcome(Create(w, IF "dir" \in flags THEN "dir" ELSE "file"), a, w, New) :
                  a \in Free \union {Nil}}
    ELSE IF "excl" \in flags THEN {} ELSE {Outcome(mn, a, w, w.node) : a \in Free}
fs_open(path, flags) == UNION {Results(w, flags) : w \in {Walk(path)}}

\* histories of a result: a new file is empty, a directory has all its entries to list
NewIdeal(r) == IF r.new THEN ideal @@ (r.node :> << >>) ELSE ideal
NewMounts(r) == IF r.new THEN mounts @@ (r.node :> Nil) ELSE mounts

FileNodes == {n \in DOMAIN mn : mn[n].type = "file"}

open(path, flags) ==
    /\ stopped = "no"
    /\ "create" \in flags => Cardinality(FileNodes) < MaxFiles
    /\ \/ Astray(path)
       \/ /\ \E r \in fs_open(path, flags) :
                /\ mn' = r.nodes /\ fsn' = r.open
                /\ ideal' = NewIdeal(r) /\ mounts' = NewMounts(r)
                /\ due' = IF r.at = Nil THEN due ELSE [due EXCEPT ![r.at] = Due(r.nodes, r.node)]
          /\ UNCHANGED <<cwd, cwdpath, exact, stopped>>

\* of freed memory, only mnt is looked at; free leaves it as it is
Closed(opens, a) == [opens EXCEPT ![a] = [NoOpen EXCEPT !.mnt = opens[a].mnt]]
MayClose(a) == MountOn = "own" => fsn[a].mnt = Nil
close(a) ==
    /\ stopped = "no" /\ fsn[a].live /\ MayClose(a)
    /\ fsn' = Closed(fsn, a)
    /\ due' = [due EXCEPT ![a] = {}]
    /\ UNCHANGED <<mn, cwd, cwdpath, mounts, ideal, exact, stopped>>

\* The heap gives the memory of an open node that was closed to another block: a
\* memfs_node, a file's contents or anything else that is allocated.
reused(a) ==
    /\ stopped = "no" /\ ~fsn[a].live /\ \E n \in DOMAIN mn : mn[n].fsnode = a
    /\ fsn[a].mnt # Unknown
    /\ fsn' = [fsn EXCEPT ![a].mnt = Unknown]
    /\ UNCHANGED <<mn, cwd, cwdpath, mounts, ideal, due, exact, stopped>>

mkdir(path) ==
    /\ stopped = "no"
    /\ \/ Astray(path)
       \/ /\ \E r \in fs_open(path, {"create", "dir", "excl"}) :
                /\ mn' = r.nodes
                /\ fsn' = IF r.at = Nil THEN r.open ELSE Closed(r.open, r.at)
                /\ ideal' = NewIdeal(r) /\ mounts' = NewMounts(r)
          /\ UNCHANGED <<cwd, cwdpath, due, exact, stopped>>

WithoutFreed(nodes) ==
    [n \in DOMAIN ideal |-> IF nodes[n].type = "file" /\ nodes[n].freed THEN << >> ELSE ideal[n]]
remove(a) ==
    /\ stopped = "no" /\ fsn[a].live /\ MayRemove(fsn[a].node)
    /\ mn' = Removed(fsn[a].node)
    /\ due' = [b \in Opens |-> due[b] \ {fsn[a].node}]
    /\ ideal' = WithoutFreed(mn')
    /\ UNCHANGED <<fsn, cwd, cwdpath, mounts, exact, stopped>>

\* opens whatever has the name, a file too, and ignores what remove returns
rmdir(path) ==
    /\ stopped = "no"
    /\ \/ Astray(path)
       \/ /\ \E r \in {q \in fs_open(path, {"dir"}) : q.at # Nil} :
                /\ mn' = IF MayRemove(r.node) THEN Kept(Removed(r.node), r.at, r.node) ELSE r.nodes
                /\ fsn' = Closed(r.open, r.at)
                /\ due' = IF MayRemove(r.node) THEN [b \in Opens |-> due[b] \ {r.node}] ELSE due
                /\ ideal' = WithoutFreed(mn')
          /\ UNCHANGED <<cwd, cwdpath, mounts, exact, stopped>>

\* the name is not compared with the others; clients give names that are not in use
rename(a, name) ==
    /\ stopped = "no" /\ fsn[a].live
    /\ LET par == mn[fsn[a].node].parent
       IN par # Nil => find_entry(par, name) = Nil
    /\ mn' = [mn EXCEPT ![fsn[a].node].name = name]
    /\ UNCHANGED <<fsn, cwd, cwdpath, mounts, ideal, due, exact, stopped>>

-----------------------------------------------------------------------------
(***************************************************************************)
(* Files and directories that are open.                                    *)
(***************************************************************************)
IsFile(a) == fsn[a].live /\ mn[fsn[a].node].type = "file"
IsDir(a) == fsn[a].live /\ mn[fsn[a].node].type = "dir"
FileOf(a) == mn[fsn[a].node]

seek(a, offs, whence) ==
    /\ stopped = "no" /\ IsFile(a)
    /\ LET pos == CASE whence = "set" -> offs
                    [] whence = "cur" -> fsn[a].cur + offs
                    [] whence = "end" -> FileOf(a).size + offs
       IN /\ pos <= MaxPos
          /\ fsn' = [fsn EXCEPT ![a].cur = IF pos < 0 THEN 0 ELSE pos]
    /\ UNCHANGED <<mn, cwd, cwdpath, mounts, ideal, due, exact, stopped>>

Lesser(a, b) == IF a < b THEN a ELSE b
Greater(a, b) == IF a > b THEN a ELSE b

\* at most sz elements of seq behind its first pos
BytesAt(seq, pos, sz) == [i \in 1 .. Lesser(sz, Len(seq) - pos) |-> seq[pos + i]]

\* behind the end the length is negative
ReadLen(file, pos, sz) == Lesser(sz, file.size - pos)
read(a, sz) ==
    /\ stopped = "no" /\ IsFile(a)
    /\ \E len \in {ReadLen(FileOf(a), fsn[a].cur, sz)}, file \in {FileOf(a)}, pos \in {fsn[a].cur} :
          IF len < 0 \/ file.freed
          THEN /\ stopped' = IF len < 0 THEN "overrun" ELSE "freed"
               /\ UNCHANGED <<fsn, exact>>
          ELSE /\ fsn' = [fsn EXCEPT ![a].cur = pos + len]
               /\ exact' = (exact /\ BytesAt(file.data, pos, len) =
                                    BytesAt(ideal[fsn[a].node], pos, sz))
               /\ UNCHANGED stopped
    /\ UNCHANGED <<mn, cwd, cwdpath, mounts, ideal, due>>

NewMax(max, total) == IF total < 2 * max THEN 2 * max ELSE total
\* fresh memory behind the old contents
Grown(data, max) == [i \in 1 .. max |-> IF i <= Len(data) THEN data[i] ELSE Junk]
Filled(data, pos, bytes) ==
    [i \in 1 .. Len(data) |-> IF i - pos \in DOMAIN bytes THEN bytes[i - pos] ELSE data[i]]
\* realloc, for total bytes: the memory there is and the size asked for.  realloc takes
\* the block's descriptor for usable memory, and may return the block as it is although
\* it is short of the size, by as much as a descriptor.
Reallocs(file, total) ==
    IF total <= file.max THEN {[room |-> Len(file.data), max |-> file.max]}
    ELSE [room : (IF file.data = << >> THEN NewMax(file.max, total) ELSE Len(file.data))
                    .. NewMax(file.max, total),
          max : {NewMax(file.max, total)}]
\* Broken: the size is always where the write ends.
Written_ends(file, data, pos, bytes) ==
    [file EXCEPT !.data = Filled(data, pos, bytes), !.size = pos + Len(bytes)]
Written(file, data, pos, bytes) ==
    [file EXCEPT !.data = Filled(data, pos, bytes), !.size = Greater(@, pos + Len(bytes))]

write(a, bytes) ==
    /\ stopped = "no" /\ IsFile(a) /\ fsn[a].cur + Len(bytes) <= MaxPos
    /\ \E file \in {FileOf(a)}, pos \in {fsn[a].cur}, n \in {fsn[a].node} :
          \/ /\ file.freed
             /\ stopped' = "freed"
             /\ UNCHANGED <<mn, fsn, ideal>>
          \/ /\ ~file.freed /\ pos + Len(bytes) > file.max    \* realloc fails
             /\ UNCHANGED <<mn, fsn, ideal, stopped>>
          \/ /\ ~file.freed
             /\ \E r \in Reallocs(file, pos + Len(bytes)) :
                   IF r.room < pos + Len(bytes)
                   THEN stopped' = "overrun" /\ UNCHANGED <<mn, fsn, ideal>>
                   ELSE /\ mn' = [mn EXCEPT ![n] = Written([file EXCEPT !.max = r.max],
                                                           Grown(file.data, r.room), pos, bytes)]
                        /\ fsn' = [fsn EXCEPT ![a].cur = pos + Len(bytes)]
                        /\ ideal' = [ideal EXCEPT ![n] =
                                       Filled(Grown(@, Greater(Len(@), pos + Len(bytes))), pos, bytes)]
                        /\ UNCHANGED stopped
    /\ UNCHANGED <<cwd, cwdpath, mounts, due, exact>>

rewinddir(a) ==
    /\ stopped = "no" /\ IsDir(a)
    /\ fsn' = [fsn EXCEPT ![a].cur = mn[fsn[a].node].clist]
    /\ due' = [due EXCEPT ![a] = Range(Children(mn, fsn[a].node))]
    /\ UNCHANGED <<mn, cwd, cwdpath, mounts, ideal, exact, stopped>>

readdir(a) ==
    /\ stopped = "no" /\ IsDir(a) /\ fsn[a].cur # Nil
    /\ fsn' = [fsn EXCEPT ![a].cur = mn[@].next]
    /\ due' = [due EXCEPT ![a] = @ \ {fsn[a].cur}]
    /\ UNCHANGED <<mn, cwd, cwdpath, mounts, ideal, exact, stopped>>

-----------------------------------------------------------------------------
(***************************************************************************)
(* fs.c.                                                                   *)
(***************************************************************************)
\* "own": no other node has the address of this open node, nor will have
MayMount(a) ==
    MountOn = "own" => {n \in DOMAIN mn : mn[n].fsnode = a} = {fsn[a].node}
fs_mount(a) ==
    /\ stopped = "no" /\ IsDir(a) /\ New <= MaxNodes /\ MayMount(a)
    /\ mn' = mn @@ (New :> Fresh("dir", "", Nil))
    /\ fsn' = [fsn EXCEPT ![a].mnt = New]
    /\ mounts' = [mounts EXCEPT ![fsn[a].node] = New] @@ (New :> Nil)
    /\ ideal' = ideal @@ (New :> << >>)
    /\ UNCHANGED <<cwd, cwdpath, due, exact, stopped>>

fs_chdir(path) ==
    /\ stopped = "no" /\ MayClose(cwd)
    /\ path = Up => cwdpath # << >>
    /\ \/ Astray(Target(cwdpath, path, Up))
       \/ /\ \E r \in {q \in fs_open(Target(cwdpath, path, Up), {}) : q.at # Nil} :
                \/ /\ mn[r.node].type # "dir"
                   /\ fsn' = Closed(r.open, r.at) /\ mn' = r.nodes
                   /\ UNCHANGED <<cwd, cwdpath, stopped>>
                \/ /\ mn[r.node].type = "dir" /\ ~Fits(cwdpath, path, Up, CwdSize)
                   /\ stopped' = "path too long"
                   /\ UNCHANGED <<mn, fsn, cwd, cwdpath>>
                \/ /\ mn[r.node].type = "dir" /\ Fits(cwdpath, path, Up, CwdSize)
                   /\ mn' = r.nodes
                   /\ fsn' = [Closed(r.open, cwd) EXCEPT ![r.at].cur = Nil]     \* nobody lists it
                   /\ cwd' = r.at
                   /\ cwdpath' = NewCwd(cwdpath, path, Up)
                   /\ UNCHANGED stopped
          /\ UNCHANGED <<mounts, ideal, due, exact>>

halted ==
    /\ stopped # "no"
    /\ UNCHANGED <<mn, fsn, cwd, cwdpath, mounts, ideal, due, exact, stopped>>

\* fs_mount has made the root file system and changed to its root
Init ==
    /\ uses \in Programs
    /\ cwd \in Opens
    /\ mn = (RootFs :> [Fresh("dir", "", Nil) EXCEPT !.fsnode = cwd])
    /\ fsn = [a \in Opens |-> IF a = cwd THEN [NoOpen EXCEPT !.live = TRUE, !.fs = RootFs, !.node = RootFs]
                                         ELSE NoOpen]
    /\ cwdpath = << >>
    /\ mounts = (RootFs :> Nil) /\ ideal = (RootFs :> << >>)
    /\ due = [a \in Opens |-> {}]
    /\ exact = TRUE /\ stopped = "no"

OnPath(path) ==
    \/ "open" \in uses /\ open(path, {})
    \/ "rmdir" \in uses /\ rmdir(path)
OnNewPath(path) ==
    \/ "create" \in uses /\ open(path, {"create"})
    \/ "mkdir" \in uses /\ mkdir(path)
OnOpen(a) ==
    \/ "close" \in uses /\ close(a)
    \/ "remove" \in uses /\ remove(a)
    \/ "rename" \in uses /\ \E name \in NewNames : rename(a, name)
    \/ "seek" \in uses /\ \E offs \in Offsets, whence \in {"set", "cur", "end"} : seek(a, offs, whence)
    \/ "read" \in uses /\ \E sz \in Sizes : read(a, sz)
    \/ "write" \in uses /\ \E sz \in Sizes, b \in Bytes : write(a, [i \in 1 .. sz |-> b])
    \/ "readdir" \in uses /\ (rewinddir(a) \/ readdir(a))
    \/ "mount" \in uses /\ fs_mount(a)

\* the working directory's open node is fs.c's own
Next ==
    /\ \/ \E path \in Paths : OnPath(path)
       \/ \E path \in NewPaths : OnNewPath(path)
       \/ \E path \in Dirs : "chdir" \in uses /\ fs_chdir(path)
       \/ \E a \in Opens \ {cwd} : OnOpen(a) \/ ("reuse" \in uses /\ reused(a))
       \/ halted
    /\ UNCHANGED uses

Spec == Init /\ [][Next]_vars

-----------------------------------------------------------------------------
DirNodes == {n \in DOMAIN mn : mn[n].type = "dir"}

\* The links of nodes and open nodes lead to nodes, and a file's size is within the
\* memory allocated for it.
TypeOK ==
    /\ DOMAIN mn \in SUBSET (1 .. MaxNodes)
    /\ \A n \in DOMAIN mn : {mn[n].parent, mn[n].next} \subseteq DOMAIN mn \union {Nil}
    /\ \A n \in FileNodes : mn[n].size \in 0 .. Len(mn[n].data)
    /\ \A a \in Opens : fsn[a].live => fsn[a].node \in DOMAIN mn /\ fsn[a].fs \in DirNodes
    /\ fsn[cwd].live /\ mn[fsn[cwd].node].type = "dir"

\* add_child relies on ctail: in a directory that is not empty it is the last entry,
\* however entries have been removed (remove may set it to its local dummy); and an
\* entry's parent, which ".." and remove follow, is the directory that lists it.
ListsAreSound ==
    \A d \in DirNodes :
        /\ mn[d].clist # Nil => mn[d].ctail = Last(Children(mn, d))
        /\ \A n \in Range(Children(mn, d)) : mn[n].parent = d

\* No two entries of a directory have names that find_entry takes for the same.
EntriesAreUnique ==
    \A d \in DirNodes : \A m, n \in Range(Children(mn, d)) :
        Lower[mn[m].name] = Lower[mn[n].name] => m = n

\* A read returns what was written there last, by whichever open node of the file,
\* across every growth of the file's memory.
ReadIsExact == exact

\* An entry that has been in a directory since it was opened or rewound, and has not
\* been listed yet, will be: readdir's position does not lose it although entries are
\* removed, the one at the position too, and added behind its back.
ListingIsComplete ==
    \A a \in Opens \ {cwd} : IsDir(a) => due[a] \subseteq Range(From(mn, fsn[a].cur))

\* Every path leads to the node, and the file system, that it would lead to if mounts
\* were recorded by node: a mount point leads to the root of what is mounted there, also
\* "when the mount point is the last part of the path string", and nothing else does.
\* Walks that read what is left of an overwritten open node are OnlyMountsAreCrossed's.
Top(n) ==
    LET to[k \in 0 .. MaxNodes] ==
            IF k = 0 THEN n ELSE IF mounts[to[k - 1]] = Nil THEN to[k - 1] ELSE mounts[to[k - 1]]
    IN to[MaxNodes]
Below(n, name) == IF n = Nil \/ mn[n].type # "dir" THEN Nil ELSE find_entry(Top(n), name)
LeadsTo(path) ==
    LET n == FoldLeft(Below, Start(path).node, path.names) IN IF n = Nil THEN Nil ELSE Top(n)
RootOf(n) ==
    LET up[k \in 0 .. MaxNodes] ==
            IF k = 0 THEN n
            ELSE IF mn[up[k - 1]].parent = Nil THEN up[k - 1] ELSE mn[up[k - 1]].parent
    IN up[MaxNodes]
MountsAreCrossed ==
    \A path \in Paths \union NewPaths \union Dirs : \A w \in {v \in {Walk(path)} : ~v.astray} :
        /\ LeadsTo(path) = IF w.failed THEN Nil ELSE w.node
        /\ ~w.failed /\ w.node # Nil => w.fs = RootOf(w.node)

\* "check if it's another filesystem hanging off this directory, and if so, recursively
\* call that open function": open calls no other file system where none is mounted.
OnlyMountsAreCrossed == stopped # "undefined"

\* The tree is sound: its links lead to nodes, the lists of entries are as add_child and
\* remove rely on, and names are unique in a directory.
TreeInv == TypeOK /\ ListsAreSound /\ EntriesAreUnique
=============================================================================
