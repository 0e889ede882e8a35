---------------------------- MODULE FatFsProofs ----------------------------
(***************************************************************************)
(* Proofs about the directories the FAT file system keeps in memory, for   *)
(* every disk, every set of handles and paths, and every number of         *)
(* directories there is memory for; and about its open files, for every    *)
(* disk whose chains are sound.                                            *)
(***************************************************************************)
EXTENDS FatFs, FiniteSetTheorems, SequenceTheorems, TLAPS, WellFoundedInduction

IsDir(r) == r \in [at : {r.at}, ref : Nat, cur_ent : Nat]
IsDirs(ds) ==
    /\ ds = [d \in DOMAIN ds |-> ds[d]] /\ DOMAIN ds \subseteq 0 .. MaxDirs
    /\ \A d \in DOMAIN ds : IsDir(ds[d])
IsFile(f) ==
    f \in [type : {"file"}, ent : {f.ent}, of : {f.of}, cur_pos : {f.cur_pos},
           cur_clust : {f.cur_clust}, clustbuf : {f.clustbuf}, buf_valid : {f.buf_valid}]
IsNode(n) ==
    \/ n = NoNode
    \/ n.type = "dir" /\ n = [type |-> "dir", dir |-> n.dir]
    \/ n.type = "file" /\ IsFile(n)

Uses(d) == {h \in OpenDirs : nodes[h].dir = d}
Held(d) == IF d = cwd THEN 1 ELSE 0

DirsInv == IsDirs(dirs) /\ {Root, cwd} \subseteq DOMAIN dirs /\ cwd # Root
NodesInv ==
    /\ nodes = [h \in Handles |-> nodes[h]] /\ \A h \in Handles : IsNode(nodes[h])
    /\ \A h \in OpenDirs : nodes[h].dir \in DOMAIN dirs \ {Root}
CountInv == \A d \in DOMAIN dirs \ {Root} : dirs[d].ref = Cardinality(Uses(d)) + Held(d)
IInv == DirsInv /\ NodesInv /\ CountInv /\ cwdpath \in Seq(Names)

\* every handle has a directory of its own
SeenInv ==
    /\ seen = [h \in Handles |-> seen[h]]
    /\ \A h \in OpenDirs : /\ nodes[h].dir # cwd /\ dirs[nodes[h].dir].cur_ent = seen[h]
                           /\ \A g \in OpenDirs : nodes[g].dir = nodes[h].dir => g = h

-----------------------------------------------------------------------------
(***************************************************************************)
(* Induction: what holds for no least number holds for none.               *)
(***************************************************************************)
LEMMA LeastExists ==
    ASSUME NEW S, S \subseteq Nat, S # {}
    PROVE  \E x \in S : \A y \in S : x <= y
<1> DEFINE R == OpToRel(<, Nat)
<1>1. IsWellFoundedOn(R, Nat)
  BY NatLessThanWellFounded
<1>2. \A x, y \in Nat : x < y => <<x, y>> \in R
  BY DEF OpToRel
<1> HIDE DEF R
<1>3. PICK x \in S : \A y \in S : ~(<<y, x>> \in R)
  BY <1>1, WFMin
<1>4. ASSUME NEW y \in S PROVE x <= y
  <2>1. x \in Nat /\ y \in Nat
    OBVIOUS
  <2>2. ~(y < x)
    BY <1>2, <1>3, <2>1, Zenon
  <2> QED BY <2>1, <2>2
<1> QED BY <1>4

LEMMA UpTo ==
    ASSUME NEW n \in Nat, NEW S, 0 \in S, \A k \in 1 .. n : k - 1 \in S => k \in S
    PROVE  \A k \in 0 .. n : k \in S
<1> DEFINE T == {k \in 0 .. n : k \notin S}
<1>1. SUFFICES ASSUME T # {} PROVE FALSE
  OBVIOUS
<1>2. T \subseteq Nat
  OBVIOUS
<1>3. PICK x \in T : \A y \in T : x <= y
  <2> HIDE DEF T
  <2> QED BY <1>1, <1>2, LeastExists
<1>4. x \in 1 .. n /\ x \notin S
  BY <1>3
<1>5. x - 1 \notin T /\ x - 1 \in 0 .. n
  BY <1>3, <1>4
<1> QED BY <1>4, <1>5

-----------------------------------------------------------------------------
(***************************************************************************)
(* Directories in memory: one more, one changed, one less.                 *)
(***************************************************************************)
With(ds, d, r) == [e \in DOMAIN ds \union {d} |-> IF e = d THEN r ELSE ds[e]]

IsWith(es, ds, d, r) ==
    /\ IsDirs(es) /\ DOMAIN es = DOMAIN ds \union {d} /\ es[d] = r
    /\ \A e \in DOMAIN ds : e # d => es[e] = ds[e]

LEMMA WithFacts ==
    ASSUME NEW ds, IsDirs(ds), NEW d \in 0 .. MaxDirs, NEW r, IsDir(r)
    PROVE  IsWith(With(ds, d, r), ds, d, r)
<1>1. PICK es : es = With(ds, d, r)
  OBVIOUS
<1>2. /\ DOMAIN es = DOMAIN ds \union {d}
      /\ \A e \in DOMAIN es : es[e] = IF e = d THEN r ELSE ds[e]
  BY <1>1 DEF With
<1>3. es = [e \in DOMAIN es |-> es[e]]
  BY <1>1 DEF With
<1>4. IsDirs(es)
  BY <1>2, <1>3 DEF IsDirs
<1> QED BY <1>1, <1>2, <1>4 DEF IsWith

LEMMA WithoutFacts ==
    ASSUME NEW ds, IsDirs(ds), NEW d
    PROVE  /\ IsDirs(Without(ds, d)) /\ DOMAIN Without(ds, d) = DOMAIN ds \ {d}
           /\ \A e \in DOMAIN ds : e # d => Without(ds, d)[e] = ds[e]
<1>1. PICK es : es = Without(ds, d)
  OBVIOUS
<1>2. DOMAIN es = DOMAIN ds \ {d} /\ \A e \in DOMAIN es : es[e] = ds[e]
  BY <1>1 DEF Without
<1>3. es = [e \in DOMAIN es |-> es[e]]
  BY <1>1 DEF Without
<1>4. IsDirs(es)
  BY <1>2, <1>3 DEF IsDirs
<1> QED BY <1>1, <1>2, <1>4

\* what is loaded last is freed first
LEMMA WithoutWith ==
    ASSUME NEW ds, IsDirs(ds), NEW d, d \notin DOMAIN ds, NEW r
    PROVE  /\ Without(With(ds, d, r), d) = ds
           /\ \A e, s : e # d => Without(With(With(ds, d, r), e, s), d) = With(ds, e, s)
<1>1. ds = [e \in DOMAIN ds |-> ds[e]]
  BY DEF IsDirs
<1>2. Without(With(ds, d, r), d) = ds
  <2>1. Without(With(ds, d, r), d) = [e \in DOMAIN ds |-> ds[e]]
    BY DEF With, Without
  <2> QED BY <1>1, <2>1
<1>3. ASSUME NEW e, NEW s, e # d PROVE Without(With(With(ds, d, r), e, s), d) = With(ds, e, s)
  BY <1>3 DEF With, Without
<1> QED BY <1>2, <1>3

\* a free address is found when there is one
Free(ds) == 1 .. MaxDirs \ DOMAIN ds
LEMMA NewFacts ==
    ASSUME NEW ds, Free(ds) # {}
    PROVE  New(ds) \in Free(ds)
<1>1. Free(ds) \subseteq Nat
  BY DEF Free
<1>2. PICK x \in Free(ds) : \A y \in Free(ds) : x <= y
  BY <1>1, LeastExists
<1>3. x \in 1 .. MaxDirs /\ x \notin DOMAIN ds /\ \A e \in 1 .. x - 1 : e \in DOMAIN ds
  <2>1. MaxDirs \in Nat
    BY FatAssumption
  <2> QED BY <1>2, <2>1 DEF Free
<1>4. New(ds) \in 1 .. MaxDirs /\ New(ds) \notin DOMAIN ds
  BY <1>3 DEF New
<1> QED BY <1>4 DEF Free

\* Room leaves two
LEMMA RoomFacts ==
    ASSUME Room
    PROVE  Free(dirs) # {} /\ \A d, r : Free(With(dirs, d, r)) # {}
<1>1. PICK S : S = Free(dirs)
  OBVIOUS
<1>2. IsFiniteSet(S) /\ Cardinality(S) >= 2
  <2>1. MaxDirs \in Nat
    BY FatAssumption
  <2>2. IsFiniteSet(1 .. MaxDirs)
    BY <2>1, FS_Interval
  <2>3. IsFiniteSet(S)
    BY <1>1, <2>2, FS_Subset DEF Free
  <2> QED BY <1>1, <2>3 DEF Room, Free
<1>3. S # {}
  BY <1>2, FS_EmptySet
<1>4. ASSUME NEW d, NEW r PROVE Free(With(dirs, d, r)) # {}
  <2>1. Free(With(dirs, d, r)) = S \ {d}
    BY <1>1 DEF Free, With
  <2>2. S \ {d} # {}
    <3>1. SUFFICES ASSUME S = {d} PROVE FALSE
      BY <1>3
    <3>2. Cardinality(S) = 1
      BY <3>1, FS_Singleton
    <3> QED BY <1>2, <3>2
  <2> QED BY <2>1, <2>2
<1> QED BY <1>1, <1>3, <1>4

-----------------------------------------------------------------------------
(***************************************************************************)
(* The loop of open.  Its directory is the root, the working directory, or *)
(* one it has loaded itself, to which nothing else refers.                 *)
(***************************************************************************)
IsWalk(w) ==
    w \in [dirs : {w.dirs}, dir : {w.dir}, ent : {w.ent}, freed : {w.freed}, failed : BOOLEAN]
Loaded(ds, d) ==
    d \in Free(dirs) /\ \E r : IsDir(r) /\ r.ref = 0 /\ r.cur_ent = 0 /\ ds = With(dirs, d, r)
WalkInv(w) ==
    IsWalk(w) /\ ((w.dir \in {NoDir, Root, cwd} /\ w.dirs = dirs) \/ Loaded(w.dirs, w.dir))

LEMMA LoadFacts ==
    ASSUME NEW ent
    PROVE  /\ IsDir(load_dir(ent)) /\ load_dir(ent).ref = 0 /\ load_dir(ent).cur_ent = 0
           /\ load_dir(ent).at = ent.first
  BY DEF IsDir, load_dir

LEMMA EnterFacts ==
    ASSUME DirsInv, Room, NEW w, WalkInv(w), w.dir # NoDir, NEW ent, NEW loads \in BOOLEAN,
           NEW v, v = Enter(w, ent, loads)
    PROVE  /\ WalkInv(v) /\ v.dir # cwd /\ ~v.failed
           /\ dirs[Root].at = 0 /\ v.dir # NoDir => v.dirs[v.dir].at = ent.first
<1>0. /\ IsDirs(dirs) /\ Root \in DOMAIN dirs /\ cwd \in DOMAIN dirs /\ cwd # Root
      /\ DOMAIN dirs \subseteq 0 .. MaxDirs /\ MaxDirs \in Nat
  BY FatAssumption DEF DirsInv, IsDirs
<1>1. PICK l : l = load_dir(ent) /\ IsDir(l) /\ l.ref = 0 /\ l.cur_ent = 0 /\ l.at = ent.first
  BY LoadFacts
<1> DEFINE AtEnt == dirs[Root].at = 0 /\ v.dir # NoDir => v.dirs[v.dir].at = ent.first
<1> SUFFICES WalkInv(v) /\ v.dir # cwd /\ ~v.failed /\ AtEnt
  OBVIOUS
<1>2. NoDir \notin DOMAIN dirs /\ NoDir \notin Free(dirs) /\ Root \notin Free(dirs) /\ cwd \notin Free(dirs)
  BY <1>0 DEF Free, NoDir, Root
<1>3. /\ v.dirs = IF w.dir \in {Root, cwd}
                  THEN IF loads THEN Added(w.dirs, l) ELSE w.dirs
                  ELSE free_dir(IF loads THEN Added(w.dirs, l) ELSE w.dirs, w.dir)
      /\ v.dir = IF loads THEN New(w.dirs) ELSE IF IsRootEnt(ent) THEN Root ELSE NoDir
      /\ v.failed = FALSE /\ IsWalk(v)
  BY <1>1 DEF Enter, IsWalk
<1>4. \A ds : Added(ds, l) = With(ds, New(ds), l)
  BY DEF Added, With
<1>5. Free(dirs) # {} /\ \A d, r : Free(With(dirs, d, r)) # {}
  BY RoomFacts
<1>6. ASSUME v.dirs = dirs, ~loads PROVE WalkInv(v) /\ v.dir # cwd /\ AtEnt
  <2>1. WalkInv(v) /\ v.dir # cwd
    BY <1>0, <1>2, <1>3, <1>6 DEF WalkInv
  <2>2. AtEnt
    BY <1>3, <1>6 DEF IsRootEnt
  <2> QED BY <2>1, <2>2
<1>7. ASSUME NEW n \in Free(dirs), v.dirs = With(dirs, n, l), v.dir = n
      PROVE  WalkInv(v) /\ v.dir # cwd /\ AtEnt
  <2>1. WalkInv(v) /\ v.dir # cwd
    BY <1>1, <1>2, <1>3, <1>7 DEF WalkInv, Loaded
  <2>2. AtEnt
    BY <1>1, <1>7 DEF With
  <2> QED BY <2>1, <2>2
<1> HIDE DEF AtEnt
<1>8. CASE w.dir \in {Root, cwd}
  <2>1. w.dirs = dirs
    BY <1>2, <1>8 DEF WalkInv, Loaded
  <2>2. New(dirs) \in Free(dirs)
    BY <1>5, NewFacts
  <2>3. CASE loads
    BY <1>3, <1>4, <1>7, <1>8, <2>1, <2>2, <2>3
  <2>4. CASE ~loads
    BY <1>3, <1>6, <1>8, <2>1, <2>4
  <2> QED BY <1>3, <2>3, <2>4
<1>9. CASE w.dir \notin {Root, cwd}
  <2>1. PICK d, r : d \in Free(dirs) /\ d = w.dir /\ IsDir(r) /\ r.ref = 0 /\ w.dirs = With(dirs, d, r)
    BY <1>9 DEF WalkInv, Loaded
  <2>2. d \notin DOMAIN dirs /\ d \in 0 .. MaxDirs
    BY <1>0, <2>1 DEF Free
  <2>3. /\ IsDirs(w.dirs) /\ DOMAIN w.dirs = DOMAIN dirs \union {d} /\ w.dirs[d] = r
    <3>1. IsWith(w.dirs, dirs, d, r)
      BY <1>0, <2>1, <2>2, WithFacts
    <3> QED BY <3>1 DEF IsWith
  <2>4. CASE loads
    <3>1. PICK n : n = New(w.dirs) /\ n \in Free(w.dirs)
      BY <1>5, <2>1, NewFacts
    <3>2. n \in Free(dirs) /\ n # d /\ n \in 0 .. MaxDirs
      BY <1>0, <2>3, <3>1 DEF Free
    <3>3. PICK es : es = With(w.dirs, n, l)
      OBVIOUS
    <3>4. es[d] = r
      <4>1. IsWith(es, w.dirs, n, l)
        BY <1>1, <2>3, <3>2, <3>3, WithFacts
      <4> QED BY <2>3, <3>2, <4>1 DEF IsWith
    <3>5. v.dirs = free_dir(es, d) /\ v.dir = n
      BY <1>3, <1>4, <1>9, <2>1, <2>4, <3>1, <3>3
    <3>6. v.dirs = Without(es, d)
      BY <2>1, <3>4, <3>5 DEF free_dir
    <3>7. v.dirs = With(dirs, n, l)
      BY <1>0, <2>1, <2>2, <3>2, <3>3, <3>6, WithoutWith
    <3> QED BY <1>3, <1>7, <3>2, <3>5, <3>7
  <2>5. CASE ~loads
    <3>1. v.dirs = free_dir(w.dirs, d)
      BY <1>3, <1>9, <2>1, <2>5
    <3>2. v.dirs = Without(w.dirs, d)
      BY <2>1, <2>3, <3>1 DEF free_dir
    <3>3. v.dirs = dirs
      BY <1>0, <2>1, <2>2, <3>2, WithoutWith
    <3> QED BY <1>3, <1>6, <2>5, <3>3
  <2> QED BY <2>4, <2>5
<1> QED BY <1>8, <1>9

\* a walk that has come to a directory, and where that is on the disk
Leads(w) == ~w.failed /\ w.dir # NoDir
Dest(w) == <<w.dirs[w.dir].at>>
\* a pass that goes on from the working directory and stays there had the name "."
IsStep(v, w, name, k, bad) == v = Step(w, name, k # bad)
LEMMA StepFacts ==
    ASSUME DirsInv, Room, NEW w, WalkInv(w), NEW name, NEW k, NEW bad, NEW v,
           IsStep(v, w, name, k, bad)
    PROVE  /\ WalkInv(v)
           /\ ~v.failed /\ v.dir = cwd => ~w.failed /\ w.dir = cwd /\ name = <<".">>
           /\ Leads(v) => Leads(w) /\ (dirs[Root].at = 0 => Dest(v) = Follows(Dest(w), name))
<1>1. PICK u : u = [w EXCEPT !.failed = TRUE]
  OBVIOUS
<1>2. WalkInv(u) /\ u.failed
  <2>1. w \in [dirs : {w.dirs}, dir : {w.dir}, ent : {w.ent}, freed : {w.freed}, failed : BOOLEAN]
    BY DEF WalkInv, IsWalk
  <2>2. /\ u \in [dirs : {w.dirs}, dir : {w.dir}, ent : {w.ent}, freed : {w.freed}, failed : BOOLEAN]
        /\ u.dirs = w.dirs /\ u.dir = w.dir /\ u.ent = w.ent /\ u.freed = w.freed /\ u.failed = TRUE
    BY <1>1, <2>1
  <2> QED BY <2>2 DEF WalkInv, IsWalk
<1>3. CASE v = u
  BY <1>2, <1>3 DEF Leads
<1>4. CASE v = w /\ (w.failed \/ name = <<".">>)
  <2>1. name = <<".">> => Follows(Dest(w), name) = Dest(w)
    BY DEF Follows
  <2> QED BY <1>4, <2>1 DEF Leads
<1>6. CASE ~w.failed /\ w.dir # NoDir /\ name # <<".">>
  <2>1. PICK found : found = find_entry(w.dirs[w.dir].at, name)
    OBVIOUS
  <2>2. v = Select(w, found, k # bad)
    BY <1>6, <2>1 DEF IsStep, Step
  <2>3. PICK loads \in BOOLEAN : loads = (found[1].first # 0 /\ found[1].kind = "dir" /\ k # bad)
    BY Zenon
  <2>4. v = u \/ (found # << >> /\ v = Enter(w, found[1], loads))
    BY <1>1, <2>2, <2>3 DEF Select
  <2>5. CASE found # << >> /\ v = Enter(w, found[1], loads)
    <3>1. PICK ent : ent = found[1] /\ v = Enter(w, ent, loads)
      BY <2>5
    <3>2. /\ WalkInv(v) /\ v.dir # cwd /\ ~v.failed
          /\ dirs[Root].at = 0 /\ v.dir # NoDir => v.dirs[v.dir].at = ent.first
      BY <1>6, <3>1, EnterFacts
    <3>3. v.dir # NoDir => ent.kind = "dir"
      <4>1. v.dir = IF loads THEN New(w.dirs) ELSE IF IsRootEnt(ent) THEN Root ELSE NoDir
        BY <3>1 DEF Enter
      <4> QED BY <2>3, <3>1, <4>1 DEF IsRootEnt
    <3>4. ent.kind = "dir" => Follows(Dest(w), name) = <<ent.first>>
      <4>0. PICK d : d = w.dirs[w.dir].at
        OBVIOUS
      <4>1. PICK at : at = <<d>> /\ at # << >> /\ at[1] = d /\ at = Dest(w)
        BY <4>0 DEF Dest
      <4>2. find_entry(at[1], name) = found
        BY <2>1, <4>0, <4>1
      <4> QED BY <1>6, <2>5, <3>1, <4>1, <4>2 DEF Follows
    <3> QED BY <1>6, <3>2, <3>3, <3>4 DEF Leads, Dest
  <2> QED BY <1>3, <2>4, <2>5
<1>7. CASE ~(~w.failed /\ w.dir # NoDir /\ name # <<".">>)
  <2>1. v = u \/ (v = w /\ (w.failed \/ name = <<".">>))
    BY <1>1, <1>7 DEF IsStep, Step
  <2> QED BY <1>3, <1>4, <2>1
<1> QED BY <1>6, <1>7

\* the recursion of Walk
Start(path) ==
    [dirs |-> dirs, dir |-> IF path.abs THEN Root ELSE cwd,
     ent |-> << >>, freed |-> FALSE, failed |-> FALSE]
IsRun(g, path, bad, n) ==
    /\ g = [k \in 0 .. n |-> g[k]] /\ g[0] = Start(path)
    /\ \A k \in 1 .. n : g[k] = Step(g[k - 1], path.names[k], k # bad)

LEMMA RunExists ==
    ASSUME NEW path, NEW bad, NEW n \in Nat
    PROVE  \E g : IsRun(g, path, bad, n)
<1> DEFINE S == {m \in 0 .. n : \E g : IsRun(g, path, bad, m)}
<1>1. 0 \in S
  <2>1. PICK g : g = [k \in 0 .. 0 |-> Start(path)]
    OBVIOUS
  <2>2. g = [k \in 0 .. 0 |-> g[k]] /\ g[0] = Start(path)
    BY <2>1
  <2>3. IsRun(g, path, bad, 0)
    BY <2>2 DEF IsRun
  <2> QED BY <2>3
<1>2. ASSUME NEW m \in 1 .. n, m - 1 \in S PROVE m \in S
  <2>1. PICK g : IsRun(g, path, bad, m - 1)
    BY <1>2
  <2>2. PICK q : q = Step(g[m - 1], path.names[m], m # bad)
    OBVIOUS
  <2>3. PICK h : h = [k \in 0 .. m |-> IF k = m THEN q ELSE g[k]]
    OBVIOUS
  <2>4. h = [k \in 0 .. m |-> h[k]] /\ h[0] = Start(path)
    BY <2>1, <2>3 DEF IsRun
  <2>5. ASSUME NEW k \in 1 .. m PROVE h[k] = Step(h[k - 1], path.names[k], k # bad)
    <3>1. h[k - 1] = g[k - 1]
      BY <2>3
    <3>2. CASE k = m
      BY <2>2, <2>3, <3>1, <3>2
    <3>3. CASE k # m
      <4>1. k \in 1 .. m - 1 /\ h[k] = g[k]
        BY <2>3, <3>3
      <4>2. g[k] = Step(g[k - 1], path.names[k], k # bad)
        BY <2>1, <4>1 DEF IsRun
      <4> QED BY <3>1, <4>1, <4>2
    <3> QED BY <3>2, <3>3
  <2>6. IsRun(h, path, bad, m)
    BY <2>4, <2>5 DEF IsRun
  <2> QED BY <2>6
<1> HIDE DEF S
<1>3. \A k \in 0 .. n : k \in S
  BY <1>1, <1>2, UpTo
<1>4. n \in S
  BY <1>3
<1> QED BY <1>4 DEF S

LEMMA WalkRuns ==
    ASSUME NEW path, NEW bad, NEW n \in Nat, n = Len(path.names)
    PROVE  \E g : IsRun(g, path, bad, n) /\ Walk(path, bad) = g[n]
<1> DEFINE Rec(g) == g = [k \in 0 .. n |-> IF k = 0 THEN Start(path)
                                           ELSE Step(g[k - 1], path.names[k], k # bad)]
           G == CHOOSE g : Rec(g)
<1>1. Walk(path, bad) = G[n]
  BY DEF Walk, Start
<1>2. PICK g : IsRun(g, path, bad, n)
  BY RunExists
<1>3. Rec(g)
  BY <1>2, SMTT(60) DEF IsRun
<1>4. Rec(G)
  BY <1>3
<1> HIDE DEF G
<1>5. IsRun(G, path, bad, n)
  <2>1. G = [k \in 0 .. n |-> G[k]]
    BY <1>4
  <2>2. G[0] = Start(path) /\ \A k \in 1 .. n : G[k] = Step(G[k - 1], path.names[k], k # bad)
    BY <1>4
  <2> QED BY <2>1, <2>2 DEF IsRun
<1> QED BY <1>1, <1>5

\* the names a walk went through, of a path that leads to where it starts
OnlyDots(path, n) == ~path.abs /\ \A k \in 1 .. n : path.names[k] = <<".">>
LEMMA WalkFacts ==
    ASSUME DirsInv, Room, NEW path, NEW bad, NEW n \in Nat, n = Len(path.names),
           NEW w, w = Walk(path, bad)
    PROVE  WalkInv(w) /\ (~w.failed /\ w.dir = cwd => OnlyDots(path, n))
<1>1. PICK g : IsRun(g, path, bad, n) /\ w = g[n]
  BY WalkRuns
<1> DEFINE P(k) == WalkInv(g[k]) /\ (~g[k].failed /\ g[k].dir = cwd => OnlyDots(path, k))
           S == {k \in 0 .. n : P(k)}
<1>2. 0 \in S
  <2>1. g[0] = Start(path)
    BY <1>1 DEF IsRun
  <2>2. /\ Start(path).dirs = dirs /\ Start(path).failed = FALSE /\ IsWalk(Start(path))
        /\ Start(path).dir = IF path.abs THEN Root ELSE cwd
    BY DEF Start, IsWalk
  <2>3. WalkInv(Start(path))
    BY <2>2 DEF WalkInv
  <2>4. Start(path).dir = cwd => ~path.abs
    BY <2>2 DEF DirsInv
  <2>5. P(0)
    BY <2>1, <2>3, <2>4 DEF OnlyDots
  <2> HIDE DEF P
  <2> QED BY <2>5
<1>3. ASSUME NEW k \in 1 .. n, k - 1 \in S PROVE k \in S
  <2>1. P(k - 1)
    <3> HIDE DEF P
    <3> QED BY <1>3
  <2>2. PICK u, v, name :
          u = g[k - 1] /\ v = g[k] /\ IsStep(v, u, name, k, bad) /\ name = path.names[k]
    BY <1>1 DEF IsRun, IsStep
  <2>3. /\ WalkInv(v)
        /\ ~v.failed /\ v.dir = cwd => ~u.failed /\ u.dir = cwd /\ name = <<".">>
    BY <2>1, <2>2, StepFacts
  <2>4. OnlyDots(path, k - 1) /\ path.names[k] = <<".">> => OnlyDots(path, k)
    BY DEF OnlyDots
  <2>5. P(k)
    BY <2>1, <2>2, <2>3, <2>4
  <2> HIDE DEF P
  <2> QED BY <2>5
<1>4. P(n)
  <2> HIDE DEF P
  <2>1. \A k \in 0 .. n : k \in S
    <3> HIDE DEF S
    <3> QED BY <1>2, <1>3, UpTo
  <2> QED BY <2>1
<1> QED BY <1>1, <1>4

-----------------------------------------------------------------------------
(***************************************************************************)
(* What open and fs_chdir do with the directory they find.                 *)
(***************************************************************************)
Reset(q, k, c) == [q EXCEPT !.ref = k, !.cur_ent = c]
LEMMA DirFields ==
    ASSUME NEW q, IsDir(q), NEW k \in Nat, NEW c \in Nat, NEW r, r = Reset(q, k, c)
    PROVE  IsDir(r) /\ r.ref = k /\ r.cur_ent = c /\ r.at = q.at
<1>1. q \in [at : {q.at}, ref : Nat, cur_ent : Nat]
  BY DEF IsDir
<1> QED BY <1>1 DEF IsDir, Reset

Counts(ds, x) == [ds EXCEPT ![x].cur_ent = 0, ![x].ref = @ + 1]
LEMMA Counted ==
    ASSUME NEW ds, IsDirs(ds), NEW x \in DOMAIN ds, NEW k \in Nat, k = ds[x].ref + 1,
           NEW r, r = Reset(ds[x], k, 0)
    PROVE  Counts(ds, x) = With(ds, x, r)
<1>1. PICK q : q = ds[x] /\ q \in [at : {q.at}, ref : Nat, cur_ent : Nat]
  BY DEF IsDirs, IsDir
<1>2. ds = [d \in DOMAIN ds |-> ds[d]]
  BY DEF IsDirs
<1>3. [[q EXCEPT !.cur_ent = 0] EXCEPT !.ref = k] = r
  BY <1>1 DEF Reset
<1>4. [ds EXCEPT ![x].cur_ent = 0] = [ds EXCEPT ![x] = [q EXCEPT !.cur_ent = 0]]
  BY <1>1
<1>5. Counts(ds, x) = [ds EXCEPT ![x] = r]
  BY <1>1, <1>2, <1>3, <1>4 DEF Counts
<1> QED BY <1>2, <1>5, ZenonT(60) DEF With

\* x has one reference more, and is new unless it is the working directory
IsGot(ds, x, r) ==
    /\ IsDir(r) /\ r.cur_ent = 0 /\ ds = With(dirs, x, r) /\ x \in 1 .. MaxDirs
    /\ \/ x \notin DOMAIN dirs /\ r.ref = 1
       \/ x = cwd /\ r.ref = dirs[cwd].ref + 1 /\ r.at = dirs[cwd].at

LEMMA GotDir ==
    ASSUME DirsInv, Room, NEW w, WalkInv(w), w.dir # NoDir
    PROVE  \E r : /\ IsGot(DirOf(w).dirs, DirOf(w).dir, r) /\ (DirOf(w).dir = cwd => w.dir = cwd)
                  /\ <<r.at>> = Dest(w)
<1>0. /\ IsDirs(dirs) /\ Root \in DOMAIN dirs /\ cwd \in DOMAIN dirs /\ cwd # Root
      /\ DOMAIN dirs \subseteq 0 .. MaxDirs /\ MaxDirs \in Nat
      /\ \A d \in DOMAIN dirs : IsDir(dirs[d])
  BY FatAssumption DEF DirsInv, IsDirs
<1>2. CASE w.dir = Root
  <2>1. w.dirs = dirs
    BY <1>0, <1>2 DEF WalkInv, Loaded, Free
  <2>2. PICK r : /\ r = Reset(dirs[Root], 1, 0) /\ IsDir(r) /\ r.ref = 1 /\ r.cur_ent = 0
                 /\ r.at = dirs[Root].at
    <3>1. PICK q : q = dirs[Root] /\ IsDir(q)
      BY <1>0
    <3>2. PICK r : r = Reset(q, 1, 0)
      OBVIOUS
    <3>3. IsDir(r) /\ r.ref = 1 /\ r.cur_ent = 0 /\ r.at = q.at
      BY <3>1, <3>2, DirFields
    <3> QED BY <3>1, <3>2, <3>3
  <2>3. PICK x : x = New(dirs) /\ x \in Free(dirs)
    BY RoomFacts, NewFacts
  <2>4. DirOf(w).dirs = With(dirs, x, r) /\ DirOf(w).dir = x
    BY <1>2, <2>1, <2>2, <2>3 DEF DirOf, Added, With, Reset
  <2>5. x \notin DOMAIN dirs /\ x \in 1 .. MaxDirs /\ x # cwd
    BY <1>0, <2>3 DEF Free
  <2>6. <<r.at>> = Dest(w)
    BY <1>2, <2>1, <2>2 DEF Dest
  <2> QED BY <2>2, <2>4, <2>5, <2>6 DEF IsGot
<1>3. CASE w.dir # Root
  <2>1. PICK x, q : /\ x = w.dir /\ q = w.dirs[x] /\ IsDir(q) /\ x \in 1 .. MaxDirs /\ IsDirs(w.dirs)
                    /\ x \in DOMAIN w.dirs
                    /\ \/ x \notin DOMAIN dirs /\ q.ref = 0 /\ w.dirs = With(dirs, x, q)
                       \/ x = cwd /\ q = dirs[x] /\ w.dirs = dirs
    <3>1. CASE w.dir = cwd
      <4>1. w.dirs = dirs
        BY <1>0, <3>1 DEF WalkInv, Loaded, Free
      <4>2. cwd \in 1 .. MaxDirs
        BY <1>0 DEF Root
      <4> QED BY <1>0, <3>1, <4>1, <4>2
    <3>2. CASE w.dir # cwd
      <4>1. PICK r : w.dir \in Free(dirs) /\ IsDir(r) /\ r.ref = 0 /\ w.dirs = With(dirs, w.dir, r)
        BY <1>3, <3>2 DEF WalkInv, Loaded
      <4>2. w.dir \in 1 .. MaxDirs /\ w.dir \notin DOMAIN dirs /\ w.dir \in 0 .. MaxDirs
        BY <1>0, <4>1 DEF Free
      <4>3. IsWith(w.dirs, dirs, w.dir, r)
        BY <1>0, <4>1, <4>2, WithFacts
      <4> QED BY <4>1, <4>2, <4>3 DEF IsWith
    <3> QED BY <3>1, <3>2
  <2>2. PICK k \in Nat : k = q.ref + 1
    <3>1. q.ref \in Nat
      BY <2>1 DEF IsDir
    <3> QED BY <3>1
  <2>3. PICK r : r = Reset(q, k, 0) /\ IsDir(r) /\ r.ref = k /\ r.cur_ent = 0 /\ r.at = q.at
    <3>1. PICK r : r = Reset(q, k, 0)
      OBVIOUS
    <3>2. IsDir(q)
      BY <2>1
    <3>3. IsDir(r) /\ r.ref = k /\ r.cur_ent = 0 /\ r.at = q.at
      BY <3>1, <3>2, DirFields
    <3> QED BY <3>1, <3>3
  <2>4. DirOf(w).dir = x /\ DirOf(w).dirs = With(w.dirs, x, r)
    <3>1. DirOf(w).dirs = Counts(w.dirs, x) /\ DirOf(w).dir = x
      BY <1>3, <2>1 DEF DirOf, Counts
    <3>2. PICK ds : ds = w.dirs
      OBVIOUS
    <3>3. Counts(ds, x) = With(ds, x, r)
      BY <2>1, <2>2, <2>3, <3>2, Counted
    <3> QED BY <3>1, <3>2, <3>3
  <2>5. With(w.dirs, x, r) = With(dirs, x, r)
    BY <2>1 DEF With
  <2>6. \/ x \notin DOMAIN dirs /\ r.ref = 1
        \/ x = cwd /\ r.ref = dirs[cwd].ref + 1 /\ r.at = dirs[cwd].at
    <3>1. (x \notin DOMAIN dirs /\ q.ref = 0) \/ (x = cwd /\ q = dirs[x])
      BY <2>1
    <3>2. r.ref = q.ref + 1
      BY <2>2, <2>3
    <3> QED BY <2>3, <3>1, <3>2
  <2>7. <<r.at>> = Dest(w)
    BY <2>1, <2>3 DEF Dest
  <2> QED BY <2>1, <2>3, <2>4, <2>5, <2>6, <2>7 DEF IsGot
<1> QED BY <1>2, <1>3

-----------------------------------------------------------------------------
(***************************************************************************)
(* Counting the nodes that refer to a directory.                           *)
(***************************************************************************)
LEMMA UsesFacts ==
    ASSUME NEW d
    PROVE  IsFiniteSet(Uses(d)) /\ Cardinality(Uses(d)) \in Nat /\ (Cardinality(Uses(d)) = 0 <=> Uses(d) = {})
<1>1. IsFiniteSet(Handles) /\ Uses(d) \subseteq Handles
  BY FatAssumption DEF Uses, OpenDirs
<1>2. IsFiniteSet(Uses(d))
  BY <1>1, FS_Subset
<1> QED BY <1>2, FS_EmptySet, FS_CardinalityType

SetNode(h, n) ==
    /\ nodes' = [g \in Handles |-> nodes'[g]] /\ \A g \in Handles : IsNode(nodes'[g])
    /\ nodes'[h] = n /\ \A g \in Handles : g # h => nodes'[g] = nodes[g]
LEMMA NodeSet ==
    ASSUME NodesInv, NEW h \in Handles, NEW n, IsNode(n), nodes' = [nodes EXCEPT ![h] = n]
    PROVE  SetNode(h, n)
<1>1. nodes = [g \in Handles |-> nodes[g]] /\ \A g \in Handles : IsNode(nodes[g])
  BY DEF NodesInv
<1>2. nodes' = [g \in Handles |-> IF g = h THEN n ELSE nodes[g]]
  BY <1>1
<1>3. nodes' = [g \in Handles |-> nodes'[g]]
  BY <1>2
<1>4. \A g \in Handles : nodes'[g] = IF g = h THEN n ELSE nodes[g]
  BY <1>2
<1> QED BY <1>1, <1>3, <1>4 DEF SetNode

(***************************************************************************)
(* Steps after which the same nodes refer to the same directories: more    *)
(* may have been left behind by a walk that failed.                        *)
(***************************************************************************)
SameNodes ==
    /\ nodes' = [h \in Handles |-> nodes'[h]] /\ \A h \in Handles : IsNode(nodes'[h])
    /\ \A h \in Handles : nodes'[h].type = "dir" \/ nodes[h].type = "dir" => nodes'[h] = nodes[h]
SameRefs(ds) ==
    /\ IsDirs(ds) /\ DOMAIN dirs \subseteq DOMAIN ds
    /\ \A d \in DOMAIN dirs : ds[d].ref = dirs[d].ref
    /\ \A d \in DOMAIN ds \ DOMAIN dirs : ds[d].ref = 0

LEMMA QuietStep ==
    ASSUME IInv, SameNodes, SameRefs(dirs'), cwd' = cwd, cwdpath' \in Seq(Names)
    PROVE  IInv'
<1>1. OpenDirs' = OpenDirs /\ \A h \in OpenDirs : nodes'[h] = nodes[h]
  BY DEF SameNodes, OpenDirs
<1>2. \A d : Uses(d)' = Uses(d)
  BY <1>1 DEF Uses
<1>3. DirsInv'
  BY DEF IInv, DirsInv, SameRefs
<1>4. NodesInv'
  <2>1. \A h \in OpenDirs' : nodes'[h].dir \in DOMAIN dirs' \ {Root}
    BY <1>1 DEF IInv, NodesInv, SameRefs
  <2> QED BY <2>1 DEF NodesInv, SameNodes
<1>5. CountInv'
  <2>1. SUFFICES ASSUME NEW d \in DOMAIN dirs', d # Root
                 PROVE  dirs'[d].ref = Cardinality(Uses(d)) + Held(d)
    BY <1>2 DEF CountInv, Held
  <2>2. CASE d \in DOMAIN dirs
    BY <2>1, <2>2 DEF IInv, CountInv, SameRefs
  <2>3. CASE d \notin DOMAIN dirs
    <3>1. dirs'[d].ref = 0 /\ d # cwd
      BY <2>3 DEF SameRefs, IInv, DirsInv
    <3>2. Uses(d) = {}
      BY <2>3 DEF IInv, NodesInv, Uses
    <3>3. Cardinality(Uses(d)) = 0 /\ Held(d) = 0
      BY <3>1, <3>2, UsesFacts DEF Held
    <3> QED BY <3>1, <3>3
  <2> QED BY <2>2, <2>3
<1> QED BY <1>3, <1>4, <1>5 DEF IInv

LEMMA StayNodes ==
    ASSUME IInv, nodes' = nodes
    PROVE  SameNodes
  BY DEF IInv, NodesInv, SameNodes

LEMMA StayRefs ==
    ASSUME IInv, NEW ds, ds = dirs
    PROVE  SameRefs(ds)
  BY DEF IInv, DirsInv, SameRefs

\* what a walk leaves behind
LEMMA WalkRefs ==
    ASSUME IInv, NEW w, WalkInv(w), NEW ds, ds = w.dirs
    PROVE  SameRefs(ds) /\ \A d \in DOMAIN dirs : ds[d] = dirs[d]
<1>0. IsDirs(dirs)
  BY DEF IInv, DirsInv
<1>1. CASE ds = dirs
  BY <1>1, StayRefs
<1>2. CASE ds # dirs
  <2>1. PICK d, r : d \in Free(dirs) /\ IsDir(r) /\ r.ref = 0 /\ ds = With(dirs, d, r)
    BY <1>2 DEF WalkInv, Loaded
  <2>2. d \notin DOMAIN dirs /\ d \in 0 .. MaxDirs
    BY <2>1, FatAssumption DEF Free
  <2>3. IsWith(ds, dirs, d, r)
    BY <1>0, <2>1, <2>2, WithFacts
  <2> QED BY <2>1, <2>2, <2>3 DEF IsWith, SameRefs
<1> QED BY <1>1, <1>2

(***************************************************************************)
(* open of a directory, close and fs_chdir.                                *)
(***************************************************************************)
Opens(h, x, r) ==
    /\ nodes[h] = NoNode /\ IsGot(dirs', x, r) /\ UNCHANGED <<cwd, cwdpath>>
    /\ nodes' = [nodes EXCEPT ![h] = [type |-> "dir", dir |-> x]]
LEMMA OpenStep ==
    ASSUME IInv, NEW h \in Handles, NEW x, NEW r, Opens(h, x, r)
    PROVE  IInv'
<1>0. DirsInv /\ NodesInv /\ CountInv /\ IsDirs(dirs) /\ MaxDirs \in Nat
  BY FatAssumption DEF IInv, DirsInv
<1>1. /\ IsDir(r) /\ dirs' = With(dirs, x, r) /\ x \in 1 .. MaxDirs /\ cwd' = cwd /\ cwdpath' = cwdpath
      /\ \/ x \notin DOMAIN dirs /\ r.ref = 1
         \/ x = cwd /\ r.ref = dirs[cwd].ref + 1
  BY DEF Opens, IsGot
<1>2. x \in 0 .. MaxDirs /\ x # Root
  BY <1>0, <1>1 DEF Root
<1>3. IsWith(dirs', dirs, x, r)
  BY <1>0, <1>1, <1>2, WithFacts
<1>4. PICK n : n = [type |-> "dir", dir |-> x]
  OBVIOUS
<1>5. n.type = "dir" /\ n.dir = x /\ IsNode(n)
  BY <1>4 DEF IsNode
<1>6. SetNode(h, n)
  BY <1>0, <1>4, <1>5, NodeSet DEF Opens
<1>7. h \notin OpenDirs
  BY DEF Opens, NoNode, OpenDirs
<1>8. OpenDirs' = OpenDirs \union {h}
  BY <1>5, <1>6 DEF SetNode, OpenDirs
<1>9. Uses(x)' = Uses(x) \union {h} /\ \A d : d # x => Uses(d)' = Uses(d)
  BY <1>5, <1>6, <1>7, <1>8 DEF SetNode, OpenDirs, Uses
<1>10. Cardinality(Uses(x)') = Cardinality(Uses(x)) + 1 /\ Cardinality(Uses(x)) \in Nat
  <2>1. h \notin Uses(x)
    BY <1>7 DEF Uses
  <2> QED BY <1>9, <2>1, UsesFacts, FS_AddElement
<1>11. DirsInv'
  BY <1>0, <1>1, <1>3 DEF DirsInv, IsWith
<1>12. NodesInv'
  <2>1. \A g \in OpenDirs' : nodes'[g].dir \in DOMAIN dirs' \ {Root}
    BY <1>0, <1>2, <1>3, <1>5, <1>6, <1>8 DEF NodesInv, SetNode, IsWith, OpenDirs
  <2> QED BY <1>6, <2>1 DEF NodesInv, SetNode
<1>13. CountInv'
  <2>1. SUFFICES ASSUME NEW d \in DOMAIN dirs', d # Root
                 PROVE  dirs'[d].ref = Cardinality(Uses(d)') + Held(d)
    BY <1>1 DEF CountInv, Held
  <2>2. CASE d # x
    <3>1. dirs'[d] = dirs[d] /\ d \in DOMAIN dirs
      BY <1>3, <2>2 DEF IsWith
    <3> QED BY <1>0, <1>9, <2>1, <2>2, <3>1 DEF CountInv
  <2>3. CASE d = x
    <3>1. dirs'[d] = r
      BY <1>3, <2>3 DEF IsWith
    <3>2. CASE x \notin DOMAIN dirs /\ r.ref = 1
      <4>1. x # cwd /\ Uses(x) = {}
        BY <1>0, <3>2 DEF DirsInv, NodesInv, Uses
      <4>2. Cardinality(Uses(x)) = 0
        BY <4>1, UsesFacts
      <4> QED BY <1>10, <2>3, <3>1, <3>2, <4>1, <4>2 DEF Held
    <3>3. CASE x = cwd /\ r.ref = dirs[cwd].ref + 1
      <4>1. dirs[cwd].ref = Cardinality(Uses(x)) + 1
        BY <1>0, <3>3 DEF CountInv, DirsInv, Held
      <4> QED BY <1>10, <2>3, <3>1, <3>3, <4>1 DEF Held
    <3> QED BY <1>1, <3>2, <3>3
  <2> QED BY <2>2, <2>3
<1> QED BY <1>1, <1>11, <1>12, <1>13 DEF IInv

\* one reference to d less: the last one frees it
IsFreed(es, ds, d) ==
    /\ IsDirs(es) /\ DOMAIN ds \ {d} \subseteq DOMAIN es /\ DOMAIN es \subseteq DOMAIN ds
    /\ \A e \in DOMAIN ds : e # d => es[e] = ds[e]
    /\ d \in DOMAIN es <=> ds[d].ref > 1
    /\ ds[d].ref > 1 => /\ es[d].ref = ds[d].ref - 1 /\ es[d].cur_ent = ds[d].cur_ent
                        /\ es[d].at = ds[d].at
Less(q) == [q EXCEPT !.ref = @ - 1]
LEMMA FreeFacts ==
    ASSUME NEW ds, IsDirs(ds), NEW d \in DOMAIN ds, NEW es, es = free_dir(ds, d)
    PROVE  IsFreed(es, ds, d)
<1>0. ds = [e \in DOMAIN ds |-> ds[e]] /\ IsDir(ds[d]) /\ d \in 0 .. MaxDirs
  BY DEF IsDirs
<1>1. PICK q : q = ds[d] /\ q \in [at : {q.at}, ref : Nat, cur_ent : Nat]
  BY <1>0 DEF IsDir
<1>2. CASE q.ref > 1
  <2>1. PICK r : r = Less(q)
    OBVIOUS
  <2>2. r.ref = q.ref - 1 /\ r.cur_ent = q.cur_ent /\ r.at = q.at /\ r \in [at : {q.at}, ref : Nat, cur_ent : Nat]
    BY <1>1, <1>2, <2>1 DEF Less
  <2>3. IsDir(r)
    BY <2>2 DEF IsDir
  <2>4. es = [ds EXCEPT ![d] = r]
    BY <1>0, <1>1, <1>2, <2>1 DEF free_dir, Less
  <2>5. es = With(ds, d, r)
    BY <1>0, <2>4, ZenonT(60) DEF With
  <2>6. IsWith(es, ds, d, r)
    BY <1>0, <2>3, <2>5, WithFacts
  <2> QED BY <1>1, <1>2, <2>2, <2>6 DEF IsWith, IsFreed
<1>3. CASE ~(q.ref > 1)
  <2>1. es = Without(ds, d)
    BY <1>1, <1>3 DEF free_dir
  <2>2. /\ IsDirs(es) /\ DOMAIN es = DOMAIN ds \ {d}
        /\ \A e \in DOMAIN ds : e # d => es[e] = ds[e]
    <3>1. /\ IsDirs(Without(ds, d)) /\ DOMAIN Without(ds, d) = DOMAIN ds \ {d}
          /\ \A e \in DOMAIN ds : e # d => Without(ds, d)[e] = ds[e]
      BY WithoutFacts
    <3> QED BY <2>1, <3>1
  <2> QED BY <1>1, <1>3, <2>2 DEF IsFreed
<1> QED BY <1>2, <1>3

Closes(h, x) ==
    /\ nodes[h].type = "dir" /\ x = nodes[h].dir /\ dirs' = free_dir(dirs, x)
    /\ UNCHANGED <<cwd, cwdpath>> /\ nodes' = [nodes EXCEPT ![h] = NoNode]
LEMMA CloseStep ==
    ASSUME IInv, NEW h \in Handles, NEW x, Closes(h, x)
    PROVE  IInv'
<1>0. DirsInv /\ NodesInv /\ CountInv /\ IsDirs(dirs)
  BY DEF IInv, DirsInv
<1>1. h \in OpenDirs /\ h \in Uses(x) /\ x \in DOMAIN dirs /\ x # Root /\ cwd' = cwd /\ cwdpath' = cwdpath
  BY <1>0 DEF Closes, OpenDirs, Uses, NodesInv
<1>2. IsFreed(dirs', dirs, x)
  BY <1>0, <1>1, FreeFacts DEF Closes
<1>3. SetNode(h, NoNode)
  BY <1>0, NodeSet DEF Closes, IsNode
<1>4. OpenDirs' = OpenDirs \ {h}
  BY <1>3 DEF SetNode, OpenDirs, NoNode
<1>5. Uses(x)' = Uses(x) \ {h} /\ \A d : d # x => Uses(d)' = Uses(d)
  <2>1. \A g \in OpenDirs' : nodes'[g] = nodes[g]
    BY <1>3, <1>4 DEF SetNode, OpenDirs
  <2>2. nodes[h].dir = x
    BY DEF Closes
  <2> QED BY <1>4, <2>1, <2>2 DEF Uses
<1>6. Cardinality(Uses(x)') = Cardinality(Uses(x)) - 1 /\ Cardinality(Uses(x)) \in Nat
  BY <1>1, <1>5, UsesFacts, FS_RemoveElement, ZenonT(60)
<1>7. dirs[x].ref = Cardinality(Uses(x)) + Held(x)
  BY <1>0, <1>1 DEF CountInv
<1>8. (cwd = x => dirs[x].ref > 1) /\ (dirs[x].ref = 1 => Uses(x)' = {})
  <2>1. Cardinality(Uses(x)) # 0
    BY <1>1, UsesFacts
  <2>2. cwd = x => dirs[x].ref > 1
    BY <1>6, <1>7, <2>1 DEF Held
  <2>3. ASSUME dirs[x].ref = 1 PROVE Uses(x)' = {}
    <3>1. Cardinality(Uses(x)) = 1
      BY <1>6, <1>7, <2>1, <2>3 DEF Held
    <3>2. Cardinality(Uses(x) \ {h}) = 0
      BY <1>5, <1>6, <3>1
    <3>3. IsFiniteSet(Uses(x) \ {h})
      BY UsesFacts, FS_Subset
    <3> QED BY <1>5, <3>2, <3>3, FS_EmptySet
  <2> QED BY <2>2, <2>3
<1>9. DirsInv'
  BY <1>0, <1>1, <1>2, <1>8 DEF DirsInv, IsFreed
<1>10. NodesInv'
  <2>1. SUFFICES ASSUME NEW g \in OpenDirs' PROVE nodes'[g].dir \in DOMAIN dirs' \ {Root}
    BY <1>3 DEF NodesInv, SetNode
  <2>2. nodes'[g] = nodes[g] /\ g \in OpenDirs
    BY <1>3, <1>4 DEF SetNode, OpenDirs
  <2>3. nodes[g].dir \in DOMAIN dirs /\ nodes[g].dir # Root
    BY <1>0, <2>2 DEF NodesInv
  <2>4. CASE nodes[g].dir = x
    <3>1. g \in Uses(x)'
      BY <2>1, <2>2, <2>4 DEF Uses
    <3>2. dirs[x].ref # 1
      BY <1>8, <3>1
    <3>3. dirs[x].ref > 1
      BY <1>1, <1>6, <1>7, <3>2, UsesFacts DEF Held
    <3> QED BY <1>1, <1>2, <2>2, <2>4, <3>3 DEF IsFreed
  <2>5. CASE nodes[g].dir # x
    BY <1>2, <2>2, <2>3, <2>5 DEF IsFreed
  <2> QED BY <2>4, <2>5
<1>11. CountInv'
  <2>1. SUFFICES ASSUME NEW d \in DOMAIN dirs', d # Root
                 PROVE  dirs'[d].ref = Cardinality(Uses(d)') + Held(d)
    BY <1>1 DEF CountInv, Held
  <2>2. CASE d # x
    <3>1. dirs'[d] = dirs[d] /\ d \in DOMAIN dirs
      BY <1>2, <2>1, <2>2 DEF IsFreed
    <3> QED BY <1>0, <1>5, <2>1, <2>2, <3>1 DEF CountInv
  <2>3. CASE d = x
    <3>1. dirs'[d].ref = dirs[x].ref - 1
      BY <1>2, <2>1, <2>3 DEF IsFreed
    <3> QED BY <1>6, <1>7, <2>3, <3>1 DEF Held
  <2> QED BY <2>2, <2>3
<1> QED BY <1>1, <1>9, <1>10, <1>11 DEF IInv

Changes(ds, x, r) ==
    /\ IsGot(ds, x, r) /\ dirs' = free_dir(ds, cwd) /\ cwd' = x /\ nodes' = nodes
    /\ cwdpath' \in Seq(Names)
LEMMA ChdirStep ==
    ASSUME IInv, NEW ds, NEW x, NEW r, Changes(ds, x, r)
    PROVE  IInv'
<1>0. /\ DirsInv /\ NodesInv /\ CountInv /\ IsDirs(dirs) /\ MaxDirs \in Nat
      /\ Root \in DOMAIN dirs /\ cwd \in DOMAIN dirs /\ cwd # Root
  BY FatAssumption DEF IInv, DirsInv
<1>1. /\ IsDir(r) /\ ds = With(dirs, x, r) /\ x \in 1 .. MaxDirs /\ cwd' = x
      /\ nodes' = nodes /\ cwdpath' \in Seq(Names) /\ dirs' = free_dir(ds, cwd)
      /\ \/ x \notin DOMAIN dirs /\ r.ref = 1
         \/ x = cwd /\ r.ref = dirs[cwd].ref + 1
  BY DEF Changes, IsGot
<1>2. x \in 0 .. MaxDirs /\ x # Root
  BY <1>0, <1>1 DEF Root
<1>3. IsWith(ds, dirs, x, r)
  BY <1>0, <1>1, <1>2, WithFacts
<1>4. IsDirs(ds) /\ DOMAIN ds = DOMAIN dirs \union {x} /\ ds[x] = r /\ \A e \in DOMAIN dirs : e # x => ds[e] = dirs[e]
  BY <1>3 DEF IsWith
<1>5. IsFreed(dirs', ds, cwd)
  BY <1>0, <1>1, <1>4, FreeFacts
<1>6. dirs[cwd].ref = Cardinality(Uses(cwd)) + 1 /\ Cardinality(Uses(cwd)) \in Nat
  <2>1. dirs[cwd].ref = Cardinality(Uses(cwd)) + Held(cwd)
    BY <1>0 DEF CountInv
  <2> QED BY <2>1, UsesFacts DEF Held
<1>7. CASE x = cwd /\ r.ref = dirs[cwd].ref + 1
  <2>1. ds[cwd].ref = dirs[cwd].ref + 1 /\ ds[cwd].ref > 1
    BY <1>4, <1>6, <1>7
  <2>2. dirs'[cwd].ref = dirs[cwd].ref /\ DOMAIN dirs' = DOMAIN dirs /\ IsDirs(dirs')
    <3>1. dirs'[cwd].ref = ds[cwd].ref - 1
      BY <1>5, <2>1 DEF IsFreed
    <3>2. dirs'[cwd].ref = dirs[cwd].ref
      BY <1>6, <2>1, <3>1
    <3> QED BY <1>0, <1>4, <1>5, <1>7, <2>1, <3>2 DEF IsFreed
  <2>3. \A d \in DOMAIN dirs : dirs'[d].ref = dirs[d].ref
    BY <1>4, <1>5, <1>7, <2>2 DEF IsFreed
  <2>4. SameRefs(dirs')
    BY <2>2, <2>3 DEF SameRefs
  <2>5. SameNodes
    BY <1>1, StayNodes
  <2> QED BY <1>1, <1>7, <2>4, <2>5, QuietStep
<1>8. CASE x \notin DOMAIN dirs /\ r.ref = 1
  <2>1. ds[cwd] = dirs[cwd] /\ x # cwd
    BY <1>0, <1>4, <1>8
  <2>2. \A d : Uses(d)' = Uses(d)
    BY <1>1 DEF Uses, OpenDirs
  <2>3. DirsInv'
    BY <1>0, <1>1, <1>2, <1>4, <1>5, <2>1 DEF DirsInv, IsFreed
  <2>4. NodesInv'
    <3>1. SUFFICES ASSUME NEW h \in OpenDirs PROVE nodes[h].dir \in DOMAIN dirs' \ {Root}
      BY <1>0, <1>1 DEF NodesInv, OpenDirs
    <3>2. nodes[h].dir \in DOMAIN dirs /\ nodes[h].dir # Root
      BY <1>0 DEF NodesInv
    <3>3. CASE nodes[h].dir = cwd
      <4>1. Uses(cwd) # {}
        BY <3>3 DEF Uses
      <4>2. dirs[cwd].ref > 1
        BY <1>6, <4>1, UsesFacts
      <4> QED BY <1>5, <2>1, <3>2, <3>3, <4>2 DEF IsFreed
    <3>4. CASE nodes[h].dir # cwd
      BY <1>4, <1>5, <3>2, <3>4 DEF IsFreed
    <3> QED BY <3>3, <3>4
  <2>5. CountInv'
    <3>1. SUFFICES ASSUME NEW d \in DOMAIN dirs', d # Root
                   PROVE  dirs'[d].ref = Cardinality(Uses(d)) + Held(d)'
      BY <2>2 DEF CountInv
    <3>2. d \in DOMAIN dirs \union {x}
      BY <1>4, <1>5 DEF IsFreed
    <3>3. CASE d = x
      <4>1. dirs'[d].ref = 1
        BY <1>4, <1>5, <1>8, <2>1, <3>3 DEF IsFreed
      <4>2. Uses(x) = {}
        BY <1>0, <1>8 DEF NodesInv, Uses
      <4>3. Cardinality(Uses(x)) = 0
        BY <4>2, UsesFacts
      <4> QED BY <1>1, <3>3, <4>1, <4>3 DEF Held
    <3>4. CASE d = cwd
      <4>1. dirs'[d].ref = dirs[cwd].ref - 1
        BY <1>5, <2>1, <3>1, <3>4 DEF IsFreed
      <4> QED BY <1>1, <1>6, <2>1, <3>4, <4>1 DEF Held
    <3>5. CASE d # x /\ d # cwd
      <4>1. dirs'[d] = dirs[d] /\ d \in DOMAIN dirs
        BY <1>4, <1>5, <3>2, <3>5 DEF IsFreed
      <4> QED BY <1>0, <1>1, <3>1, <3>5, <4>1 DEF CountInv, Held
    <3> QED BY <3>3, <3>4, <3>5
  <2> QED BY <1>1, <2>3, <2>4, <2>5 DEF IInv
<1> QED BY <1>1, <1>7, <1>8

\* the path that is walked, and the one that is kept, have names of the paths given
LEMMA PathFacts ==
    ASSUME cwdpath \in Seq(Names), NEW path \in Dirs, path = Up => cwdpath # << >>
    PROVE  /\ Target(cwdpath, path, Up).names \in Seq(Names)
           /\ NewCwd(cwdpath, path, Up) \in Seq(Names)
<1>1. path.names \in Seq(Names)
  BY FatAssumption
<1>2. cwdpath # << >> => Front(cwdpath) \in Seq(Names)
  BY DEF Front
<1>3. cwdpath \o path.names \in Seq(Names)
  BY <1>1
<1>4. Target(cwdpath, path, Up).names = IF path = Up THEN Front(cwdpath) ELSE path.names
  BY DEF Target, Absolute
<1> QED BY <1>1, <1>2, <1>3, <1>4 DEF NewCwd

-----------------------------------------------------------------------------
(***************************************************************************)
(* Files: a seek or a read leaves a file a file.                           *)
(***************************************************************************)
Moved(f, pos) == [f EXCEPT !.cur_pos = pos]
Turned(f, c) == [f EXCEPT !.cur_clust = c, !.buf_valid = FALSE]
Sought(f, pos, c) == [f EXCEPT !.cur_pos = pos, !.cur_clust = c, !.buf_valid = FALSE]
Filled(f, pos, b) == [f EXCEPT !.cur_pos = pos, !.clustbuf = b, !.buf_valid = TRUE]

LEMMA FileFields ==
    ASSUME NEW f, IsFile(f), NEW pos, NEW c, NEW b
    PROVE  /\ IsFile(Moved(f, pos)) /\ IsFile(Turned(f, c))
           /\ IsFile(Sought(f, pos, c)) /\ IsFile(Filled(f, pos, b))
<1>0. f \in [type : {"file"}, ent : {f.ent}, of : {f.of}, cur_pos : {f.cur_pos},
             cur_clust : {f.cur_clust}, clustbuf : {f.clustbuf}, buf_valid : {f.buf_valid}]
  BY DEF IsFile
<1>1. IsFile(Moved(f, pos))
  BY <1>0 DEF IsFile, Moved
<1>2. IsFile(Turned(f, c))
  BY <1>0 DEF IsFile, Turned
<1>3. IsFile(Sought(f, pos, c))
  BY <1>0 DEF IsFile, Sought
<1>4. IsFile(Filled(f, pos, b))
  BY <1>0 DEF IsFile, Filled
<1> QED BY <1>1, <1>2, <1>3, <1>4

LEMMA SeekFacts ==
    ASSUME NEW f, IsFile(f), NEW pos, NEW g \in SeekTo(f, pos)
    PROVE  IsFile(g)
<1>1. g = Moved(f, pos) \/ \E c : g = Sought(f, pos, c)
  BY DEF SeekTo, Moved, Sought
<1> QED BY <1>1, FileFields

IsRead(r) ==
    IsFile(r.file) /\ r \in [file : {r.file}, data : {r.data}, done : {r.done}, overrun : {r.overrun}]
Over(r) == [r EXCEPT !.done = TRUE, !.overrun = TRUE]
Took(r, f, d, x) == [r EXCEPT !.file = f, !.data = d, !.done = x]
LEMMA ReadFields ==
    ASSUME NEW r, IsRead(r), NEW f, IsFile(f), NEW d, NEW x
    PROVE  IsRead(Over(r)) /\ IsRead(Took(r, f, d, x))
<1>0. r \in [file : {r.file}, data : {r.data}, done : {r.done}, overrun : {r.overrun}] /\ IsFile(r.file)
  BY DEF IsRead
<1>1. PICK o : o = Over(r)
  OBVIOUS
<1>2. o.file = r.file /\ o \in [file : {o.file}, data : {o.data}, done : {o.done}, overrun : {o.overrun}]
  BY <1>0, <1>1 DEF Over
<1>3. PICK t : t = Took(r, f, d, x)
  OBVIOUS
<1>4. t.file = f /\ t \in [file : {t.file}, data : {t.data}, done : {t.done}, overrun : {t.overrun}]
  BY <1>0, <1>3 DEF Took
<1> QED BY <1>0, <1>1, <1>2, <1>3, <1>4 DEF IsRead

\* a pass of read, by its four outcomes
IsPass(v, r, f, sz, fails, buf, len, pos, next, data) ==
    /\ f = r.file /\ buf = IF f.buf_valid \/ fails THEN f.clustbuf ELSE f.cur_clust
    /\ len = Lesser(Lesser(ClusterBytes - (f.cur_pos % ClusterBytes), sz - Len(r.data)), f.ent.size - f.cur_pos)
    /\ pos = f.cur_pos + len /\ next = next_cluster(disk, f.cur_clust)
    /\ data = r.data \o [i \in 1 .. len |-> <<buf, (f.cur_pos % ClusterBytes) + i - 1>>]
    /\ \/ len < 0 /\ v = Over(r)
       \/ len >= 0 /\ pos >= f.ent.size /\ v = Took(r, Turned(Filled(f, pos, buf), -1), data, TRUE)
       \/ /\ len >= 0 /\ pos < f.ent.size /\ ClustIdx(pos) # ClustIdx(f.cur_pos)
          /\ v = Took(r, Turned(Filled(f, pos, buf), next), data, next < 0 \/ Len(data) >= sz)
       \/ /\ ~(len < 0) /\ ~(len >= 0 /\ pos >= f.ent.size)
          /\ ~(len >= 0 /\ pos < f.ent.size /\ ClustIdx(pos) # ClustIdx(f.cur_pos))
          /\ v = Took(r, Filled(f, pos, buf), data, Len(data) >= sz)
LEMMA PassCases ==
    ASSUME NEW r, NEW sz, NEW fails, NEW v, v = ReadPass(r, sz, fails)
    PROVE  \E f, buf, len, pos, next, data : IsPass(v, r, f, sz, fails, buf, len, pos, next, data)
<1>1. PICK f, buf, offs :
        /\ f = r.file /\ buf = (IF f.buf_valid \/ fails THEN f.clustbuf ELSE f.cur_clust)
        /\ offs = f.cur_pos % ClusterBytes
  OBVIOUS
<1>2. PICK len : len = Lesser(Lesser(ClusterBytes - offs, sz - Len(r.data)), f.ent.size - f.cur_pos)
  OBVIOUS
<1>3. PICK pos, next, data :
        /\ pos = f.cur_pos + len /\ next = next_cluster(disk, f.cur_clust)
        /\ data = r.data \o [i \in 1 .. len |-> <<buf, offs + i - 1>>]
  OBVIOUS
<1>4. PICK full : full = Filled(f, pos, buf)
  OBVIOUS
<1>5. PICK x, y : x = (next < 0 \/ Len(data) >= sz) /\ y = (Len(data) >= sz)
  BY Zenon
<1>6. v = CASE len < 0 -> Over(r)
            [] len >= 0 /\ pos >= f.ent.size -> Took(r, Turned(full, -1), data, TRUE)
            [] len >= 0 /\ pos < f.ent.size /\ ClustIdx(pos) # ClustIdx(f.cur_pos) ->
                 Took(r, Turned(full, next), data, x)
            [] OTHER -> Took(r, full, data, y)
  BY <1>1, <1>2, <1>3, <1>4, <1>5, ZenonT(60) DEF ReadPass, Over, Took, Turned, Filled
<1>7. \/ len < 0 /\ v = Over(r)
      \/ len >= 0 /\ pos >= f.ent.size /\ v = Took(r, Turned(full, -1), data, TRUE)
      \/ /\ len >= 0 /\ pos < f.ent.size /\ ClustIdx(pos) # ClustIdx(f.cur_pos)
         /\ v = Took(r, Turned(full, next), data, x)
      \/ /\ ~(len < 0) /\ ~(len >= 0 /\ pos >= f.ent.size)
         /\ ~(len >= 0 /\ pos < f.ent.size /\ ClustIdx(pos) # ClustIdx(f.cur_pos))
         /\ v = Took(r, full, data, y)
  <2>1. CASE len < 0
    BY <1>6, <2>1
  <2>2. CASE ~(len < 0)
    BY <1>6, <2>2
  <2> QED BY <2>1, <2>2
<1>8. IsPass(v, r, f, sz, fails, buf, len, pos, next, data)
  BY <1>1, <1>2, <1>3, <1>4, <1>5, <1>7, ZenonT(60) DEF IsPass
<1> QED BY <1>8, Zenon

LEMMA PassFacts ==
    ASSUME NEW r, IsRead(r), NEW sz, NEW fails, NEW v, v = ReadPass(r, sz, fails)
    PROVE  IsRead(v)
<1>1. PICK f, buf, len, pos, next, data : IsPass(v, r, f, sz, fails, buf, len, pos, next, data)
  BY PassCases
<1>2. PICK full, x, y : /\ full = Filled(f, pos, buf) /\ x = (next < 0 \/ Len(data) >= sz)
                        /\ y = (Len(data) >= sz)
  BY Zenon
<1>3. \/ v = Over(r) \/ v = Took(r, Turned(full, -1), data, TRUE)
      \/ v = Took(r, Turned(full, next), data, x) \/ v = Took(r, full, data, y)
  BY <1>1, <1>2, Zenon DEF IsPass
<1>4. IsFile(full) /\ IsFile(Turned(full, -1)) /\ IsFile(Turned(full, next))
  <2>1. IsFile(f)
    BY <1>1 DEF IsPass, IsRead
  <2>2. IsFile(full)
    BY <1>2, <2>1, FileFields
  <2> QED BY <2>2, FileFields
<1> QED BY <1>3, <1>4, ReadFields

\* the recursion of ReadLoop
Pass(r, sz, fails) == IF r.done THEN r ELSE ReadPass(r, sz, fails)
First(f, sz) ==
    [file |-> f, data |-> << >>, done |-> f.cur_clust < 0 \/ sz = 0, overrun |-> FALSE]
IsLoop(g, f, sz, fails, n) ==
    /\ g = [k \in 0 .. n |-> g[k]] /\ g[0] = First(f, sz)
    /\ \A k \in 1 .. n : g[k] = Pass(g[k - 1], sz, fails)

LEMMA LoopExists ==
    ASSUME NEW f, NEW sz, NEW fails, NEW n \in Nat
    PROVE  \E g : IsLoop(g, f, sz, fails, n)
<1> DEFINE S == {m \in 0 .. n : \E g : IsLoop(g, f, sz, fails, m)}
<1>1. 0 \in S
  <2>1. PICK q, g : q = First(f, sz) /\ g = [k \in 0 .. 0 |-> q]
    OBVIOUS
  <2>2. g = [k \in 0 .. 0 |-> g[k]] /\ g[0] = First(f, sz)
    BY <2>1
  <2>3. IsLoop(g, f, sz, fails, 0)
    BY <2>2 DEF IsLoop
  <2> QED BY <2>3
<1>2. ASSUME NEW m \in 1 .. n, m - 1 \in S PROVE m \in S
  <2>1. PICK g : IsLoop(g, f, sz, fails, m - 1)
    BY <1>2
  <2>2. PICK q : q = Pass(g[m - 1], sz, fails)
    OBVIOUS
  <2>3. PICK h : h = [k \in 0 .. m |-> IF k = m THEN q ELSE g[k]]
    OBVIOUS
  <2>4. h = [k \in 0 .. m |-> h[k]] /\ h[0] = First(f, sz)
    BY <2>1, <2>3 DEF IsLoop
  <2>5. ASSUME NEW k \in 1 .. m PROVE h[k] = Pass(h[k - 1], sz, fails)
    <3>1. h[k - 1] = g[k - 1]
      BY <2>3
    <3>2. CASE k = m
      BY <2>2, <2>3, <3>1, <3>2
    <3>3. CASE k # m
      <4>1. k \in 1 .. m - 1 /\ h[k] = g[k]
        BY <2>3, <3>3
      <4>2. g[k] = Pass(g[k - 1], sz, fails)
        BY <2>1, <4>1 DEF IsLoop
      <4> QED BY <3>1, <4>1, <4>2
    <3> QED BY <3>2, <3>3
  <2>6. IsLoop(h, f, sz, fails, m)
    BY <2>4, <2>5 DEF IsLoop
  <2> QED BY <2>6
<1> HIDE DEF S
<1>3. \A k \in 0 .. n : k \in S
  BY <1>1, <1>2, UpTo
<1>4. n \in S
  BY <1>3
<1> QED BY <1>4 DEF S

LEMMA LoopRuns ==
    ASSUME NEW f, NEW sz \in Nat, NEW fails
    PROVE  \E g : IsLoop(g, f, sz, fails, sz) /\ ReadLoop(f, sz, fails) = g[sz]
<1> DEFINE Rec(g) == g = [k \in 0 .. sz |-> IF k = 0 THEN First(f, sz) ELSE Pass(g[k - 1], sz, fails)]
           G == CHOOSE g : Rec(g)
<1>1. ReadLoop(f, sz, fails) = G[sz]
  BY DEF ReadLoop, First, Pass
<1>2. PICK g : IsLoop(g, f, sz, fails, sz)
  BY LoopExists
<1>3. Rec(g)
  <2>1. \A k \in 0 .. sz : g[k] = IF k = 0 THEN First(f, sz) ELSE Pass(g[k - 1], sz, fails)
    BY <1>2 DEF IsLoop
  <2>2. g = [k \in 0 .. sz |-> g[k]]
    BY <1>2 DEF IsLoop
  <2> QED BY <2>1, <2>2
<1>4. Rec(G)
  BY <1>3
<1> HIDE DEF G
<1>5. IsLoop(G, f, sz, fails, sz)
  <2>1. G = [k \in 0 .. sz |-> G[k]]
    BY <1>4
  <2>2. G[0] = First(f, sz) /\ \A k \in 1 .. sz : G[k] = Pass(G[k - 1], sz, fails)
    BY <1>4
  <2> QED BY <2>1, <2>2 DEF IsLoop
<1> QED BY <1>1, <1>5

LEMMA ReadFacts ==
    ASSUME NEW f, IsFile(f), NEW sz \in Nat, NEW fails, NEW r, r = ReadLoop(f, sz, fails)
    PROVE  IsFile(r.file)
<1>1. PICK g : IsLoop(g, f, sz, fails, sz) /\ r = g[sz]
  BY LoopRuns
<1> DEFINE S == {k \in 0 .. sz : IsRead(g[k])}
<1>2. 0 \in S
  <2>1. PICK x : x = (f.cur_clust < 0 \/ sz = 0)
    BY Zenon
  <2>2. First(f, sz) = [file |-> f, data |-> << >>, done |-> x, overrun |-> FALSE]
    BY <2>1, Zenon DEF First
  <2>3. IsRead(First(f, sz))
    BY <2>2 DEF IsRead
  <2> QED BY <1>1, <2>3 DEF IsLoop
<1>3. ASSUME NEW k \in 1 .. sz, k - 1 \in S PROVE k \in S
  <2>1. PICK q, v : q = g[k - 1] /\ v = g[k] /\ v = Pass(q, sz, fails) /\ IsRead(q)
    BY <1>1, <1>3 DEF IsLoop
  <2>2. IsRead(v)
    <3>1. CASE v = q
      BY <2>1, <3>1
    <3>2. CASE v = ReadPass(q, sz, fails)
      BY <2>1, <3>2, PassFacts
    <3> QED BY <2>1, <3>1, <3>2 DEF Pass
  <2>3. IsRead(g[k]) /\ k \in 0 .. sz
    BY <2>1, <2>2
  <2> QED BY <2>3
<1>4. \A k \in 0 .. sz : k \in S
  <2> HIDE DEF S
  <2> QED BY <1>2, <1>3, UpTo
<1>5. sz \in S
  BY <1>4
<1> QED BY <1>1, <1>5 DEF IsRead

-----------------------------------------------------------------------------
(***************************************************************************)
(* The actions.                                                            *)
(***************************************************************************)
\* what a walk did and left behind
Walked(path, w) ==
    /\ WalkInv(w)
    /\ ~w.failed /\ w.dir # NoDir =>
         \E r : /\ IsGot(DirOf(w).dirs, DirOf(w).dir, r) /\ <<r.at>> = Dest(w)
                /\ DirOf(w).dir = cwd => OnlyDots(path, Len(path.names))
LEMMA WalkedFacts ==
    ASSUME IInv, Room, NEW path, path.names \in Seq(Names), NEW bad, NEW w, w = Walk(path, bad)
    PROVE  Walked(path, w)
<1>1. PICK n \in Nat : n = Len(path.names)
  OBVIOUS
<1>2. DirsInv
  BY DEF IInv
<1>3. WalkInv(w) /\ (~w.failed /\ w.dir = cwd => OnlyDots(path, n))
  BY <1>1, <1>2, WalkFacts
<1>4. ASSUME ~w.failed, w.dir # NoDir
      PROVE  \E r : /\ IsGot(DirOf(w).dirs, DirOf(w).dir, r) /\ <<r.at>> = Dest(w)
                    /\ DirOf(w).dir = cwd => OnlyDots(path, n)
  <2>1. PICK r : /\ IsGot(DirOf(w).dirs, DirOf(w).dir, r) /\ (DirOf(w).dir = cwd => w.dir = cwd)
                 /\ <<r.at>> = Dest(w)
    BY <1>2, <1>3, <1>4, GotDir
  <2> QED BY <1>3, <1>4, <2>1
<1> QED BY <1>1, <1>3, <1>4 DEF Walked

\* the file open hands out; only a directory's node is opened otherwise
NewFile(h) == \E ent, of : nodes' = [nodes EXCEPT ![h] = init_file(ent, of)]
LEMMA FileOpened ==
    ASSUME IInv, NEW h \in Handles, nodes[h] = NoNode, NewFile(h)
    PROVE  SameNodes
<1>1. PICK ent, of : nodes' = [nodes EXCEPT ![h] = init_file(ent, of)]
  BY DEF NewFile
<1>2. PICK n : n = init_file(ent, of) /\ n.type = "file" /\ IsFile(n)
  <2>1. PICK n : n = init_file(ent, of)
    OBVIOUS
  <2>2. n.type = "file" /\ IsFile(n)
    BY <2>1 DEF init_file, IsFile
  <2> QED BY <2>1, <2>2
<1>3. SetNode(h, n)
  BY <1>1, <1>2, NodeSet DEF IInv, IsNode
<1>4. nodes[h].type # "dir" /\ nodes'[h].type # "dir"
  BY <1>2, <1>3 DEF SetNode, NoNode
<1> QED BY <1>3, <1>4 DEF SetNode, SameNodes

Opened(h, path) ==
    \/ /\ \E w : WalkInv(w) /\ dirs' = w.dirs
       /\ SameNodes /\ UNCHANGED <<seen, cwd, cwdpath>>
    \/ /\ \E x, r : Opens(h, x, r) /\ (x = cwd => OnlyDots(path, Len(path.names)))
       /\ seen' = [seen EXCEPT ![h] = 0]
LEMMA OpenCases ==
    ASSUME IInv, NEW h \in Handles, NEW path \in Paths, open(h, path)
    PROVE  Opened(h, path)
<1>1. /\ nodes[h] = NoNode /\ Room /\ cwd' = cwd /\ cwdpath' = cwdpath
      /\ path.names \in Seq(Names)
  BY FatAssumption DEF open
<1>2. PICK bad \in BadReads(path) :
        \E w : /\ w = Walk(path, bad)
               /\ \/ w.failed /\ dirs' = w.dirs /\ UNCHANGED <<nodes, seen>>
                  \/ /\ ~w.failed /\ w.dir # NoDir /\ dirs' = DirOf(w).dirs
                     /\ nodes' = [nodes EXCEPT ![h] = [type |-> "dir", dir |-> DirOf(w).dir]]
                     /\ seen' = [seen EXCEPT ![h] = 0]
                  \/ dirs' = w.dirs /\ NewFile(h) /\ UNCHANGED seen
  BY Zenon DEF open, NewFile
<1>3. PICK w : /\ w = Walk(path, bad)
               /\ \/ w.failed /\ dirs' = w.dirs /\ UNCHANGED <<nodes, seen>>
                  \/ /\ ~w.failed /\ w.dir # NoDir /\ dirs' = DirOf(w).dirs
                     /\ nodes' = [nodes EXCEPT ![h] = [type |-> "dir", dir |-> DirOf(w).dir]]
                     /\ seen' = [seen EXCEPT ![h] = 0]
                  \/ dirs' = w.dirs /\ NewFile(h) /\ UNCHANGED seen
  BY <1>2
<1>4. Walked(path, w)
  BY <1>1, <1>3, WalkedFacts
<1>5. WalkInv(w)
  BY <1>4 DEF Walked
<1>6. CASE dirs' = w.dirs /\ UNCHANGED <<nodes, seen>>
  BY <1>1, <1>5, <1>6, StayNodes DEF Opened
<1>7. CASE dirs' = w.dirs /\ NewFile(h) /\ UNCHANGED seen
  BY <1>1, <1>5, <1>7, FileOpened DEF Opened
<1>8. CASE /\ ~w.failed /\ w.dir # NoDir /\ dirs' = DirOf(w).dirs
           /\ nodes' = [nodes EXCEPT ![h] = [type |-> "dir", dir |-> DirOf(w).dir]]
           /\ seen' = [seen EXCEPT ![h] = 0]
  <2>1. PICK x : x = DirOf(w).dir
    OBVIOUS
  <2>2. PICK r : IsGot(dirs', x, r) /\ (x = cwd => OnlyDots(path, Len(path.names)))
    BY <1>4, <1>8, <2>1 DEF Walked
  <2>3. Opens(h, x, r)
    BY <1>1, <1>8, <2>1, <2>2 DEF Opens
  <2> QED BY <1>8, <2>2, <2>3 DEF Opened
<1> QED BY <1>3, <1>6, <1>7, <1>8

LEMMA OpenInv ==
    ASSUME IInv, NEW h \in Handles, NEW path \in Paths, open(h, path)
    PROVE  IInv'
<1>1. Opened(h, path)
  BY OpenCases
<1>2. ASSUME NEW w, WalkInv(w), dirs' = w.dirs, SameNodes, UNCHANGED <<seen, cwd, cwdpath>> PROVE IInv'
  <2>1. SameRefs(dirs')
    BY <1>2, WalkRefs
  <2>2. cwd' = cwd /\ cwdpath' \in Seq(Names)
    BY <1>2 DEF IInv
  <2> QED BY <1>2, <2>1, <2>2, QuietStep
<1>3. ASSUME NEW x, NEW r, Opens(h, x, r) PROVE IInv'
  BY <1>3, OpenStep
<1> QED BY <1>1, <1>2, <1>3 DEF Opened

LEMMA CloseInv ==
    ASSUME IInv, NEW h \in Handles, close(h)
    PROVE  IInv'
<1>1. /\ nodes' = [nodes EXCEPT ![h] = NoNode] /\ UNCHANGED <<cwd, cwdpath>>
      /\ dirs' = IF nodes[h].type = "dir" THEN free_dir(dirs, nodes[h].dir) ELSE dirs
  BY DEF close
<1>2. CASE nodes[h].type = "dir"
  <2>1. PICK x : x = nodes[h].dir
    OBVIOUS
  <2>2. Closes(h, x)
    BY <1>1, <1>2, <2>1 DEF Closes
  <2> QED BY <2>2, CloseStep
<1>3. CASE nodes[h].type # "dir"
  <2>1. SetNode(h, NoNode)
    BY <1>1, NodeSet DEF IInv, IsNode
  <2>2. SameNodes
    BY <1>3, <2>1 DEF SetNode, SameNodes, NoNode
  <2>3. SameRefs(dirs')
    BY <1>1, <1>3, StayRefs
  <2>4. cwd' = cwd /\ cwdpath' \in Seq(Names)
    BY <1>1 DEF IInv
  <2> QED BY <2>2, <2>3, <2>4, QuietStep
<1> QED BY <1>2, <1>3

\* a position in a directory
Place(ds, x, c) == [ds EXCEPT ![x].cur_ent = c]
LEMMA Placed ==
    ASSUME IInv, NEW x \in DOMAIN dirs, NEW c \in Nat, NEW ds, ds = Place(dirs, x, c)
    PROVE  /\ SameRefs(ds) /\ DOMAIN ds = DOMAIN dirs /\ ds[x].cur_ent = c /\ ds[x].at = dirs[x].at
           /\ \A d \in DOMAIN dirs : d # x => ds[d] = dirs[d]
<1>0. IsDirs(dirs) /\ dirs = [d \in DOMAIN dirs |-> dirs[d]] /\ x \in 0 .. MaxDirs /\ IsDir(dirs[x])
  BY DEF IInv, DirsInv, IsDirs
<1>1. PICK q : q = dirs[x] /\ q \in [at : {q.at}, ref : Nat, cur_ent : Nat]
  BY <1>0 DEF IsDir
<1>2. PICK r : r = [q EXCEPT !.cur_ent = c]
  OBVIOUS
<1>3. r.ref = q.ref /\ r.cur_ent = c /\ r.at = q.at /\ r \in [at : {q.at}, ref : Nat, cur_ent : Nat]
  BY <1>1, <1>2
<1>4. IsDir(r)
  BY <1>3 DEF IsDir
<1>5. ds = With(dirs, x, r)
  <2>1. ds = [dirs EXCEPT ![x] = r]
    BY <1>1, <1>2 DEF Place
  <2> QED BY <1>0, <2>1, ZenonT(60) DEF With
<1>6. IsWith(ds, dirs, x, r)
  BY <1>0, <1>4, <1>5, WithFacts
<1> QED BY <1>1, <1>3, <1>6 DEF IsWith, SameRefs

\* a directory read on or rewound
Placing(h, x, c) ==
    /\ h \in OpenDirs /\ x = nodes[h].dir /\ dirs' = Place(dirs, x, c)
    /\ seen' = [seen EXCEPT ![h] = IF c = 0 THEN 0 ELSE @ + 1]
    /\ c # 0 => c = dirs[x].cur_ent + 1
    /\ UNCHANGED <<nodes, cwd, cwdpath>>
LEMMA PlacingCases ==
    ASSUME IInv, NEW h \in Handles, readdir(h) \/ rewinddir(h)
    PROVE  \E x : \E c \in Nat : Placing(h, x, c) /\ x \in DOMAIN dirs
<1>1. PICK x : x = nodes[h].dir /\ x \in DOMAIN dirs /\ h \in OpenDirs
  BY DEF IInv, NodesInv, OpenDirs, readdir, rewinddir
<1>2. dirs[x].cur_ent \in Nat
  BY <1>1 DEF IInv, DirsInv, IsDirs, IsDir
<1>3. CASE rewinddir(h)
  <2>1. Placing(h, x, 0)
    BY <1>1, <1>3 DEF rewinddir, Placing, Place
  <2> QED BY <1>1, <2>1
<1>4. CASE readdir(h)
  <2>1. PICK c \in Nat : c = dirs[x].cur_ent + 1 /\ c # 0
    BY <1>2
  <2>2. dirs' = Place(dirs, x, c)
    BY <1>1, <1>4, <2>1 DEF readdir, Place
  <2>3. Placing(h, x, c)
    BY <1>1, <1>4, <2>1, <2>2 DEF readdir, Placing
  <2> QED BY <1>1, <2>3
<1> QED BY <1>3, <1>4

LEMMA PlacingInv ==
    ASSUME IInv, NEW h \in Handles, readdir(h) \/ rewinddir(h)
    PROVE  IInv'
<1>1. PICK x, c : Placing(h, x, c) /\ x \in DOMAIN dirs /\ c \in Nat
  BY PlacingCases
<1>2. SameRefs(dirs')
  BY <1>1, Placed DEF Placing
<1>3. SameNodes /\ cwd' = cwd /\ cwdpath' \in Seq(Names)
  BY <1>1, StayNodes DEF Placing, IInv
<1> QED BY <1>2, <1>3, QuietStep

\* a file's own state
Filed(h) ==
    /\ UNCHANGED <<dirs, cwd, cwdpath, seen>> /\ nodes[h].type = "file"
    /\ \E f : IsFile(f) /\ nodes' = [nodes EXCEPT ![h] = f]
LEMMA FiledNodes ==
    ASSUME IInv, NEW h \in Handles, Filed(h)
    PROVE  SameNodes
<1>1. PICK f : IsFile(f) /\ nodes' = [nodes EXCEPT ![h] = f]
  BY DEF Filed
<1>2. f.type = "file"
  BY <1>1 DEF IsFile
<1>3. SetNode(h, f)
  BY <1>1, <1>2, NodeSet DEF IInv, IsNode
<1> QED BY <1>2, <1>3 DEF SetNode, SameNodes, Filed

LEMMA FiledInv ==
    ASSUME IInv, NEW h \in Handles, Filed(h)
    PROVE  IInv'
<1>1. SameNodes
  BY FiledNodes
<1>2. SameRefs(dirs') /\ cwd' = cwd /\ cwdpath' \in Seq(Names)
  BY StayRefs DEF Filed, IInv
<1> QED BY <1>1, <1>2, QuietStep

LEMMA SeekFiles ==
    ASSUME IInv, NEW h \in Handles, NEW offs, NEW whence, seek(h, offs, whence)
    PROVE  Filed(h)
<1>1. nodes[h].type = "file" /\ UNCHANGED <<dirs, cwd, cwdpath, seen>>
  BY DEF seek
<1>2. IsFile(nodes[h])
  BY <1>1 DEF IInv, NodesInv, IsNode, NoNode
<1>3. PICK pos : \E g \in SeekTo(nodes[h], pos) : nodes' = [nodes EXCEPT ![h] = g]
  BY DEF seek
<1>4. PICK f, g : f = nodes[h] /\ g \in SeekTo(f, pos) /\ nodes' = [nodes EXCEPT ![h] = g]
  BY <1>3
<1>5. IsFile(g)
  BY <1>2, <1>4, SeekFacts
<1> QED BY <1>1, <1>4, <1>5 DEF Filed

LEMMA ReadFiles ==
    ASSUME IInv, NEW h \in Handles, NEW sz \in ReadSizes, read(h, sz)
    PROVE  Filed(h)
<1>1. nodes[h].type = "file" /\ UNCHANGED <<dirs, cwd, cwdpath, seen>> /\ sz \in Nat
  BY FatAssumption DEF read
<1>2. IsFile(nodes[h])
  BY <1>1 DEF IInv, NodesInv, IsNode, NoNode
<1>3. PICK fails \in ReadFails :
        \E r : r = ReadLoop(nodes[h], sz, fails) /\ nodes' = [nodes EXCEPT ![h] = r.file]
  BY DEF read
<1>4. PICK f, r : f = nodes[h] /\ r = ReadLoop(f, sz, fails) /\ nodes' = [nodes EXCEPT ![h] = r.file]
  BY <1>3
<1>5. IsFile(r.file)
  BY <1>1, <1>2, <1>4, ReadFacts
<1> QED BY <1>1, <1>4, <1>5 DEF Filed

Changed ==
    \/ /\ \E w : WalkInv(w) /\ dirs' = w.dirs
       /\ UNCHANGED <<nodes, cwd, cwdpath, seen>>
    \/ (\E ds, x, r : Changes(ds, x, r)) /\ UNCHANGED seen
    \/ UNCHANGED <<dirs, nodes, cwd, cwdpath, seen>>
LEMMA ChdirCases ==
    ASSUME IInv, NEW path \in Dirs, fs_chdir(path)
    PROVE  Changed
<1>1. nodes' = nodes /\ seen' = seen /\ Room /\ (path = Up => cwdpath # << >>)
  BY DEF fs_chdir
<1>2. PICK t : /\ t = Target(cwdpath, path, Up) /\ t.names \in Seq(Names)
               /\ NewCwd(cwdpath, path, Up) \in Seq(Names)
  BY <1>1, PathFacts DEF IInv
<1>3. PICK bad, w : /\ w = Walk(t, bad)
                    /\ \/ dirs' = w.dirs /\ UNCHANGED <<cwd, cwdpath>>
                       \/ UNCHANGED <<dirs, cwd, cwdpath>>
                       \/ /\ ~w.failed /\ w.dir # NoDir /\ dirs' = free_dir(DirOf(w).dirs, cwd)
                          /\ cwd' = DirOf(w).dir /\ cwdpath' = NewCwd(cwdpath, path, Up)
  BY <1>2 DEF fs_chdir
<1>4. Walked(t, w)
  BY <1>1, <1>2, <1>3, WalkedFacts
<1>5. CASE dirs' = w.dirs /\ UNCHANGED <<cwd, cwdpath>>
  BY <1>1, <1>4, <1>5 DEF Changed, Walked
<1>6. CASE UNCHANGED <<dirs, cwd, cwdpath>>
  BY <1>1, <1>6 DEF Changed
<1>7. CASE /\ ~w.failed /\ w.dir # NoDir /\ dirs' = free_dir(DirOf(w).dirs, cwd)
           /\ cwd' = DirOf(w).dir /\ cwdpath' = NewCwd(cwdpath, path, Up)
  <2>1. PICK ds, x : ds = DirOf(w).dirs /\ x = DirOf(w).dir
    OBVIOUS
  <2>2. PICK r : IsGot(ds, x, r)
    BY <1>4, <1>7, <2>1 DEF Walked
  <2>3. Changes(ds, x, r)
    BY <1>1, <1>2, <1>7, <2>1, <2>2 DEF Changes
  <2> QED BY <1>1, <2>3 DEF Changed
<1> QED BY <1>3, <1>5, <1>6, <1>7

LEMMA StayInv ==
    ASSUME IInv, UNCHANGED <<dirs, nodes, cwd, cwdpath, seen>>
    PROVE  IInv'
  BY DEF IInv, DirsInv, NodesInv, CountInv, OpenDirs, Uses, Held

LEMMA ChdirInv ==
    ASSUME IInv, NEW path \in Dirs, fs_chdir(path)
    PROVE  IInv'
<1>1. Changed
  BY ChdirCases
<1>2. ASSUME NEW w, WalkInv(w), dirs' = w.dirs, UNCHANGED <<nodes, cwd, cwdpath, seen>> PROVE IInv'
  <2>1. SameRefs(dirs')
    BY <1>2, WalkRefs
  <2>2. SameNodes /\ cwd' = cwd /\ cwdpath' \in Seq(Names)
    BY <1>2, StayNodes DEF IInv
  <2> QED BY <2>1, <2>2, QuietStep
<1>3. ASSUME NEW ds, NEW x, NEW r, Changes(ds, x, r) PROVE IInv'
  BY <1>3, ChdirStep
<1> QED BY <1>1, <1>2, <1>3, StayInv DEF Changed

LEMMA InitInv ==
    ASSUME Init
    PROVE  IInv /\ SeenInv
<1>1. dirs = [d \in {Root, 1} |-> [at |-> 0, ref |-> 1, cur_ent |-> 0]] /\ cwd = 1 /\ Root = 0
  BY DEF Init, Root
<1>2. nodes = [h \in Handles |-> NoNode] /\ cwdpath = << >> /\ seen = [h \in Handles |-> 0]
  BY DEF Init
<1>3. MaxDirs \in Nat \ {0}
  BY FatAssumption
<1>4. DOMAIN dirs = {Root, 1} /\ \A d \in DOMAIN dirs : dirs[d] = [at |-> 0, ref |-> 1, cur_ent |-> 0]
  BY <1>1
<1>5. DirsInv
  <2>1. dirs = [d \in DOMAIN dirs |-> dirs[d]]
    BY <1>1
  <2>2. {Root, 1} \subseteq 0 .. MaxDirs
    BY <1>1, <1>3
  <2>3. \A d \in DOMAIN dirs : IsDir(dirs[d])
    BY <1>4 DEF IsDir
  <2> QED BY <1>1, <1>4, <2>1, <2>2, <2>3 DEF DirsInv, IsDirs
<1>6. OpenDirs = {}
  BY <1>2 DEF OpenDirs, NoNode
<1>7. NodesInv
  <2>1. nodes = [h \in Handles |-> nodes[h]] /\ \A h \in Handles : nodes[h] = NoNode
    BY <1>2
  <2> QED BY <1>6, <2>1 DEF NodesInv, IsNode
<1>8. CountInv
  <2>1. SUFFICES ASSUME NEW d \in DOMAIN dirs, d # Root
                 PROVE  dirs[d].ref = Cardinality(Uses(d)) + Held(d)
    BY DEF CountInv
  <2>2. d = 1 /\ dirs[d].ref = 1 /\ Uses(d) = {}
    BY <1>4, <1>6, <2>1 DEF Uses
  <2>3. Cardinality(Uses(d)) = 0
    BY <2>2, UsesFacts
  <2> QED BY <1>1, <2>2, <2>3 DEF Held
<1>9. cwdpath \in Seq(Names)
  BY <1>2
<1>10. SeenInv
  BY <1>2, <1>6 DEF SeenInv
<1> QED BY <1>5, <1>7, <1>8, <1>9, <1>10 DEF IInv

LEMMA NextInv ==
    ASSUME IInv, [Next]_vars
    PROVE  IInv'
<1>1. ASSUME NEW h \in Handles, NEW path \in Paths, open(h, path) PROVE IInv'
  BY <1>1, OpenInv
<1>2. ASSUME NEW h \in Handles, close(h) PROVE IInv'
  BY <1>2, CloseInv
<1>3. ASSUME NEW h \in Handles, readdir(h) \/ rewinddir(h) PROVE IInv'
  BY <1>3, PlacingInv
<1>4. ASSUME NEW h \in Handles, NEW offs, NEW whence, seek(h, offs, whence) PROVE IInv'
  BY <1>4, SeekFiles, FiledInv
<1>5. ASSUME NEW h \in Handles, NEW sz \in ReadSizes, read(h, sz) PROVE IInv'
  BY <1>5, ReadFiles, FiledInv
<1>6. ASSUME NEW path \in Dirs, fs_chdir(path) PROVE IInv'
  BY <1>6, ChdirInv
<1>7. CASE UNCHANGED <<dirs, nodes, cwd, cwdpath, seen>>
  BY <1>7, StayInv
<1>8. open_nomem \/ load_dir_overlong \/ halted \/ UNCHANGED vars => UNCHANGED <<dirs, nodes, cwd, cwdpath, seen>>
  BY DEF open_nomem, load_dir_overlong, halted, vars
<1> QED BY <1>1, <1>2, <1>3, <1>4, <1>5, <1>6, <1>7, <1>8 DEF Next

(***************************************************************************)
(* The reference counts of the directories in memory, whatever clients     *)
(* open, close and change to, and whatever cannot be read: what a node or  *)
(* the working directory refers to has not been freed, and is counted      *)
(* (open, close and free_dir of fsfat.c).                                  *)
(***************************************************************************)
THEOREM ReferencesAreCounted == Spec => []RefsAreCounted
<1>1. Init => IInv
  BY InitInv
<1>2. IInv /\ [Next]_vars => IInv'
  BY NextInv
<1>3. IInv => RefsAreCounted
  BY DEF IInv, DirsInv, NodesInv, CountInv, RefsAreCounted, Uses, Held
<1> QED BY <1>1, <1>2, <1>3, PTL DEF Spec

-----------------------------------------------------------------------------
(***************************************************************************)
(* Listings.  A path of nothing but "." leads a handle to the working      *)
(* directory's own structure, and to its position; no other path does.     *)
(***************************************************************************)
Named == \A path \in Paths : ~OnlyDots(path, Len(path.names))

SamePlaces == \A h \in OpenDirs : /\ dirs'[nodes[h].dir].cur_ent = dirs[nodes[h].dir].cur_ent
                                  /\ nodes[h].dir # cwd'
LEMMA SeenStays ==
    ASSUME SeenInv, SameNodes, SamePlaces, seen' = seen
    PROVE  SeenInv'
<1>1. OpenDirs' = OpenDirs /\ \A h \in OpenDirs : nodes'[h] = nodes[h]
  BY DEF SameNodes, OpenDirs
<1> QED BY <1>1 DEF SeenInv, SamePlaces

LEMMA WalkSeen ==
    ASSUME IInv, SeenInv, NEW w, WalkInv(w), dirs' = w.dirs, SameNodes, cwd' = cwd, seen' = seen
    PROVE  SeenInv'
<1>1. \A d \in DOMAIN dirs : dirs'[d] = dirs[d]
  BY WalkRefs
<1>2. SamePlaces
  BY <1>1 DEF IInv, NodesInv, SeenInv, SamePlaces
<1> QED BY <1>2, SeenStays

LEMMA StaySeen ==
    ASSUME IInv, SeenInv, dirs' = dirs, SameNodes, cwd' = cwd, seen' = seen
    PROVE  SeenInv'
<1>1. SamePlaces
  BY DEF SeenInv, SamePlaces
<1> QED BY <1>1, SeenStays

\* one handle's position
SetSeen(h, c) ==
    /\ seen' = [g \in Handles |-> seen'[g]] /\ seen'[h] = c
    /\ \A g \in Handles : g # h => seen'[g] = seen[g]
LEMMA SeenSet ==
    ASSUME SeenInv, NEW h \in Handles, NEW c, seen' = [seen EXCEPT ![h] = c]
    PROVE  SetSeen(h, c)
<1>1. seen = [g \in Handles |-> seen[g]]
  BY DEF SeenInv
<1>2. seen' = [g \in Handles |-> IF g = h THEN c ELSE seen[g]]
  BY <1>1
<1> QED BY <1>2 DEF SetSeen

LEMMA OpensSeen ==
    ASSUME IInv, SeenInv, NEW h \in Handles, NEW x, NEW r, Opens(h, x, r), x # cwd,
           seen' = [seen EXCEPT ![h] = 0]
    PROVE  SeenInv'
<1>0. IsDirs(dirs) /\ NodesInv /\ MaxDirs \in Nat
  BY FatAssumption DEF IInv, DirsInv
<1>1. /\ IsDir(r) /\ r.cur_ent = 0 /\ dirs' = With(dirs, x, r) /\ x \in 1 .. MaxDirs /\ cwd' = cwd
      /\ x \notin DOMAIN dirs
  BY DEF Opens, IsGot
<1>2. IsWith(dirs', dirs, x, r)
  <2>1. x \in 0 .. MaxDirs
    BY <1>0, <1>1
  <2> QED BY <1>0, <1>1, <2>1, WithFacts
<1>3. PICK n : n = [type |-> "dir", dir |-> x]
  OBVIOUS
<1>4. n.type = "dir" /\ n.dir = x /\ IsNode(n)
  BY <1>3 DEF IsNode
<1>5. SetNode(h, n)
  BY <1>0, <1>3, <1>4, NodeSet DEF Opens
<1>6. OpenDirs' = OpenDirs \union {h} /\ h \notin OpenDirs
  BY <1>4, <1>5 DEF SetNode, OpenDirs, Opens, NoNode
<1>7. SetSeen(h, 0)
  BY SeenSet
<1>8. \A g \in OpenDirs : g # h /\ g \in Handles /\ nodes'[g] = nodes[g] /\ nodes[g].dir \in DOMAIN dirs
  BY <1>0, <1>5, <1>6 DEF SetNode, OpenDirs, NodesInv
<1>9. \A g \in OpenDirs : nodes'[g].dir # x /\ dirs'[nodes'[g].dir] = dirs[nodes[g].dir] /\ seen'[g] = seen[g]
  BY <1>1, <1>2, <1>7, <1>8 DEF IsWith, SetSeen
<1>10. nodes'[h].dir = x /\ dirs'[x].cur_ent = 0 /\ seen'[h] = 0
  BY <1>1, <1>2, <1>4, <1>5, <1>7 DEF IsWith, SetNode, SetSeen
<1>11. seen' = [g \in Handles |-> seen'[g]]
  BY <1>7 DEF SetSeen
<1> QED BY <1>1, <1>6, <1>8, <1>9, <1>10, <1>11 DEF SeenInv

LEMMA OpenSeen ==
    ASSUME Named, IInv, SeenInv, NEW h \in Handles, NEW path \in Paths, open(h, path)
    PROVE  SeenInv'
<1>1. Opened(h, path) /\ ~OnlyDots(path, Len(path.names))
  BY OpenCases DEF Named
<1> QED BY <1>1, WalkSeen, OpensSeen DEF Opened

LEMMA CloseSeen ==
    ASSUME IInv, SeenInv, NEW h \in Handles, close(h)
    PROVE  SeenInv'
<1>0. IsDirs(dirs) /\ NodesInv
  BY DEF IInv, DirsInv
<1>1. /\ nodes' = [nodes EXCEPT ![h] = NoNode] /\ seen' = [seen EXCEPT ![h] = 0] /\ cwd' = cwd
      /\ dirs' = IF nodes[h].type = "dir" THEN free_dir(dirs, nodes[h].dir) ELSE dirs
  BY DEF close
<1>2. SetNode(h, NoNode)
  BY <1>0, <1>1, NodeSet DEF IsNode
<1>3. SetSeen(h, 0)
  BY <1>1, SeenSet
<1>4. OpenDirs' = OpenDirs \ {h}
  BY <1>2 DEF SetNode, OpenDirs, NoNode
<1>5. ASSUME NEW g \in OpenDirs, g # h
      PROVE  /\ nodes'[g] = nodes[g] /\ seen'[g] = seen[g]
             /\ dirs'[nodes[g].dir] = dirs[nodes[g].dir]
  <2>1. nodes'[g] = nodes[g] /\ seen'[g] = seen[g] /\ nodes[g].dir \in DOMAIN dirs
    BY <1>0, <1>2, <1>3, <1>5 DEF SetNode, SetSeen, OpenDirs, NodesInv
  <2>2. CASE nodes[h].type = "dir"
    <3>1. PICK x : x = nodes[h].dir /\ h \in OpenDirs
      BY <2>2 DEF OpenDirs
    <3>2. x \in DOMAIN dirs /\ nodes[g].dir # x
      BY <1>0, <1>5, <3>1 DEF NodesInv, SeenInv
    <3>3. IsFreed(dirs', dirs, x)
      BY <1>0, <1>1, <2>2, <3>1, <3>2, FreeFacts
    <3> QED BY <2>1, <3>2, <3>3 DEF IsFreed
  <2>3. CASE nodes[h].type # "dir"
    BY <1>1, <2>1, <2>3
  <2> QED BY <2>2, <2>3
<1>6. seen' = [g \in Handles |-> seen'[g]]
  BY <1>3 DEF SetSeen
<1> QED BY <1>1, <1>4, <1>5, <1>6 DEF SeenInv

LEMMA PlacingSeen ==
    ASSUME IInv, SeenInv, NEW h \in Handles, readdir(h) \/ rewinddir(h)
    PROVE  SeenInv'
<1>1. PICK x, c : Placing(h, x, c) /\ x \in DOMAIN dirs /\ c \in Nat
  BY PlacingCases
<1>2. /\ h \in OpenDirs /\ x = nodes[h].dir /\ nodes' = nodes /\ cwd' = cwd
      /\ dirs' = Place(dirs, x, c)
  BY <1>1 DEF Placing
<1>3. dirs'[x].cur_ent = c /\ \A d \in DOMAIN dirs : d # x => dirs'[d] = dirs[d]
  BY <1>1, <1>2, Placed
<1>4. SetSeen(h, c)
  <2>1. seen' = [seen EXCEPT ![h] = c]
    <3>1. c # 0 => c = seen[h] + 1
      BY <1>1, <1>2 DEF Placing, SeenInv
    <3>2. PICK e : e = seen[h]
      OBVIOUS
    <3>3. seen' = [seen EXCEPT ![h] = IF c = 0 THEN 0 ELSE e + 1]
      BY <1>1, <3>2 DEF Placing, SeenInv
    <3>4. (IF c = 0 THEN 0 ELSE e + 1) = c
      BY <3>1, <3>2
    <3> QED BY <3>3, <3>4
  <2> QED BY <2>1, SeenSet
<1>5. OpenDirs' = OpenDirs /\ OpenDirs \subseteq Handles
  BY <1>2 DEF OpenDirs
<1>6. ASSUME NEW g \in OpenDirs, g # h
      PROVE  dirs'[nodes[g].dir] = dirs[nodes[g].dir] /\ seen'[g] = seen[g]
  <2>1. nodes[g].dir # x /\ nodes[g].dir \in DOMAIN dirs
    BY <1>2, <1>6 DEF SeenInv, IInv, NodesInv
  <2> QED BY <1>3, <1>4, <1>5, <1>6, <2>1 DEF SetSeen
<1>7. seen' = [g \in Handles |-> seen'[g]] /\ seen'[h] = c
  BY <1>4 DEF SetSeen
<1> QED BY <1>2, <1>3, <1>5, <1>6, <1>7 DEF SeenInv

LEMMA ChangesSeen ==
    ASSUME IInv, SeenInv, NEW ds, NEW x, NEW r, Changes(ds, x, r), seen' = seen
    PROVE  SeenInv'
<1>0. IsDirs(dirs) /\ NodesInv /\ MaxDirs \in Nat /\ cwd \in DOMAIN dirs
  BY FatAssumption DEF IInv, DirsInv
<1>1. /\ IsDir(r) /\ ds = With(dirs, x, r) /\ x \in 1 .. MaxDirs /\ cwd' = x
      /\ nodes' = nodes /\ dirs' = free_dir(ds, cwd) /\ (x \notin DOMAIN dirs \/ x = cwd)
  BY DEF Changes, IsGot
<1>2. IsWith(ds, dirs, x, r)
  <2>1. x \in 0 .. MaxDirs
    BY <1>0, <1>1
  <2> QED BY <1>0, <1>1, <2>1, WithFacts
<1>3. IsFreed(dirs', ds, cwd)
  <2>1. cwd \in DOMAIN ds /\ IsDirs(ds)
    BY <1>0, <1>2 DEF IsWith
  <2> QED BY <1>1, <2>1, FreeFacts
<1>4. ASSUME NEW h \in OpenDirs
      PROVE  dirs'[nodes[h].dir].cur_ent = dirs[nodes[h].dir].cur_ent /\ nodes[h].dir # cwd'
  <2>1. nodes[h].dir \in DOMAIN dirs /\ nodes[h].dir # cwd
    BY <1>0 DEF NodesInv, SeenInv
  <2>2. nodes[h].dir # x
    BY <1>1, <2>1
  <2>3. ds[nodes[h].dir] = dirs[nodes[h].dir] /\ nodes[h].dir \in DOMAIN ds
    BY <1>2, <2>1, <2>2 DEF IsWith
  <2>4. dirs'[nodes[h].dir] = ds[nodes[h].dir]
    BY <1>3, <2>1, <2>3 DEF IsFreed
  <2> QED BY <1>1, <2>2, <2>3, <2>4
<1>5. SamePlaces
  BY <1>4 DEF SamePlaces
<1>6. SameNodes
  BY <1>1, StayNodes
<1> QED BY <1>5, <1>6, SeenStays

LEMMA NextSeen ==
    ASSUME Named, IInv, SeenInv, [Next]_vars
    PROVE  SeenInv'
<1>1. ASSUME NEW h \in Handles, NEW path \in Paths, open(h, path) PROVE SeenInv'
  BY <1>1, OpenSeen
<1>2. ASSUME NEW h \in Handles, close(h) PROVE SeenInv'
  BY <1>2, CloseSeen
<1>3. ASSUME NEW h \in Handles, readdir(h) \/ rewinddir(h) PROVE SeenInv'
  BY <1>3, PlacingSeen
<1>4. ASSUME NEW h \in Handles, Filed(h) PROVE SeenInv'
  BY <1>4, FiledNodes, StaySeen DEF Filed
<1>5. ASSUME NEW h \in Handles, NEW offs, NEW whence, seek(h, offs, whence) PROVE SeenInv'
  BY <1>4, <1>5, SeekFiles
<1>6. ASSUME NEW h \in Handles, NEW sz \in ReadSizes, read(h, sz) PROVE SeenInv'
  BY <1>4, <1>6, ReadFiles
<1>7. CASE UNCHANGED <<dirs, nodes, cwd, cwdpath, seen>>
  BY <1>7, StayNodes, StaySeen
<1>8. ASSUME NEW path \in Dirs, fs_chdir(path) PROVE SeenInv'
  <2>1. Changed
    BY <1>8, ChdirCases
  <2>2. ASSUME NEW w, WalkInv(w), dirs' = w.dirs, UNCHANGED <<nodes, cwd, cwdpath, seen>> PROVE SeenInv'
    BY <2>2, StayNodes, WalkSeen
  <2> QED BY <1>7, <2>1, <2>2, ChangesSeen DEF Changed
<1>9. open_nomem \/ load_dir_overlong \/ halted \/ UNCHANGED vars => UNCHANGED <<dirs, nodes, cwd, cwdpath, seen>>
  BY DEF open_nomem, load_dir_overlong, halted, vars
<1> QED BY <1>1, <1>2, <1>3, <1>5, <1>6, <1>7, <1>8, <1>9 DEF Next

(***************************************************************************)
(* When no path a client opens consists of "." alone, readdir goes through *)
(* a handle's entries one by one, whatever other handles of the same       *)
(* directory do and wherever the working directory goes (the copy of the   *)
(* root directory, load_dir for every open, and the cwd check of open in   *)
(* fsfat.c).                                                               *)
(***************************************************************************)
THEOREM ListingsAreExact ==
    ASSUME Named
    PROVE  Spec => []ListingIsExact
<1>1. Init => IInv /\ SeenInv
  BY InitInv
<1>2. IInv /\ SeenInv /\ [Next]_vars => (IInv /\ SeenInv)'
  BY NextInv, NextSeen
<1>3. SeenInv => ListingIsExact
  BY DEF SeenInv, ListingIsExact
<1> QED BY <1>1, <1>2, <1>3, PTL DEF Spec

-----------------------------------------------------------------------------
(***************************************************************************)
(* The working directory's path.  Following names one by one from a        *)
(* directory on the disk:                                                  *)
(***************************************************************************)
FollowsOn(d, at, name) ==
    IF at = << >> \/ name = <<".">> THEN at
    ELSE IF FoundOn(d, at[1], name) = << >> \/ FoundOn(d, at[1], name)[1].kind # "dir" THEN << >>
    ELSE <<FoundOn(d, at[1], name)[1].first>>
LEMMA FollowsIs ==
    \A d, at, name : d = disk => FollowsOn(d, at, name) = Follows(at, name)
<1>1. \A at, name : find_entry(at, name) = FoundOn(disk, at, name)
  BY DEF find_entry, FoundOn, EntriesOf
<1> QED BY <1>1 DEF Follows, FollowsOn

IsTrail(d, g, at, names, n) ==
    /\ g = [k \in 0 .. n |-> g[k]] /\ g[0] = <<at>>
    /\ \A k \in 1 .. n : g[k] = FollowsOn(d, g[k - 1], names[k])
Goes(d, at, names, to) == \A g : IsTrail(d, g, at, names, Len(names)) => g[Len(names)] = <<to>>

LEMMA TrailExists ==
    ASSUME NEW d, NEW at, NEW names, NEW n \in Nat
    PROVE  \E g : IsTrail(d, g, at, names, n)
<1> DEFINE S == {m \in 0 .. n : \E g : IsTrail(d, g, at, names, m)}
<1>1. 0 \in S
  <2>1. PICK g : g = [k \in 0 .. 0 |-> <<at>>]
    OBVIOUS
  <2>2. g = [k \in 0 .. 0 |-> g[k]] /\ g[0] = <<at>>
    BY <2>1
  <2>3. IsTrail(d, g, at, names, 0)
    BY <2>2 DEF IsTrail
  <2> QED BY <2>3
<1>2. ASSUME NEW m \in 1 .. n, m - 1 \in S PROVE m \in S
  <2>1. PICK g : IsTrail(d, g, at, names, m - 1)
    BY <1>2
  <2>2. PICK q : q = FollowsOn(d, g[m - 1], names[m])
    OBVIOUS
  <2>3. PICK h : h = [k \in 0 .. m |-> IF k = m THEN q ELSE g[k]]
    OBVIOUS
  <2>4. h = [k \in 0 .. m |-> h[k]] /\ h[0] = <<at>>
    <3>1. h[0] = g[0]
      BY <2>3
    <3>2. h = [k \in 0 .. m |-> h[k]]
      BY <2>3
    <3> QED BY <2>1, <3>1, <3>2 DEF IsTrail
  <2>5. ASSUME NEW k \in 1 .. m PROVE h[k] = FollowsOn(d, h[k - 1], names[k])
    <3>1. h[k - 1] = g[k - 1]
      BY <2>3
    <3>2. CASE k = m
      BY <2>2, <2>3, <3>1, <3>2
    <3>3. CASE k # m
      <4>1. k \in 1 .. m - 1 /\ h[k] = g[k]
        BY <2>3, <3>3
      <4>2. g[k] = FollowsOn(d, g[k - 1], names[k])
        BY <2>1, <4>1 DEF IsTrail
      <4> QED BY <3>1, <4>1, <4>2
    <3> QED BY <3>2, <3>3
  <2>6. IsTrail(d, h, at, names, m)
    BY <2>4, <2>5 DEF IsTrail
  <2> QED BY <2>6
<1> HIDE DEF S
<1>3. \A k \in 0 .. n : k \in S
  BY <1>1, <1>2, UpTo
<1>4. n \in S
  BY <1>3
<1> QED BY <1>4 DEF S

LEMMA PathLeads ==
    ASSUME cwdpath \in Seq(Names), NEW d, d = disk, Goes(d, 0, cwdpath, dirs[cwd].at)
    PROVE  CwdMatches
<1>0. PICK n \in Nat : n = Len(cwdpath)
  OBVIOUS
<1> DEFINE Rec(g) == g = [k \in 0 .. n |-> IF k = 0 THEN <<0>> ELSE Follows(g[k - 1], cwdpath[k])]
           G == CHOOSE g : Rec(g)
<1>1. CwdMatches <=> G[n] = <<dirs[cwd].at>>
  BY <1>0 DEF CwdMatches
<1>6. \A at, name : FollowsOn(d, at, name) = Follows(at, name)
  BY FollowsIs
<1>2. PICK g : IsTrail(d, g, 0, cwdpath, n)
  BY TrailExists
<1>3. Rec(g)
  <2>1. /\ g = [k \in 0 .. n |-> g[k]] /\ g[0] = <<0>>
        /\ \A k \in 1 .. n : g[k] = Follows(g[k - 1], cwdpath[k])
    BY <1>2, <1>6 DEF IsTrail
  <2>2. ASSUME NEW k \in 0 .. n
        PROVE  g[k] = IF k = 0 THEN <<0>> ELSE Follows(g[k - 1], cwdpath[k])
    <3>1. k = 0 \/ k \in 1 .. n
      OBVIOUS
    <3> QED BY <2>1, <3>1, Zenon
  <2> QED BY <2>1, <2>2, Zenon
<1>4. Rec(G)
  BY <1>3
<1> HIDE DEF G
<1>5. IsTrail(d, G, 0, cwdpath, n)
  <2>1. G = [k \in 0 .. n |-> G[k]]
    BY <1>4
  <2>2. G[0] = <<0>> /\ \A k \in 1 .. n : G[k] = Follows(G[k - 1], cwdpath[k])
    BY <1>4
  <2>3. \A k \in 1 .. n : G[k] = FollowsOn(d, G[k - 1], cwdpath[k])
    BY <1>6, <2>2
  <2> QED BY <2>1, <2>2, <2>3 DEF IsTrail
<1> QED BY <1>0, <1>1, <1>5 DEF Goes

\* one path after the other
LEMMA GoesOn ==
    ASSUME NEW d, NEW p \in Seq(Names), NEW q \in Seq(Names), NEW a, NEW b, NEW c,
           Goes(d, a, p, b), Goes(d, b, q, c)
    PROVE  Goes(d, a, p \o q, c)
<1>1. PICK m \in Nat, n \in Nat : m = Len(p) /\ n = Len(q)
  OBVIOUS
<1>2. PICK r : /\ r = p \o q /\ Len(r) = m + n
               /\ \A k \in 1 .. m : r[k] = p[k]
               /\ \A k \in 1 .. n : r[m + k] = q[k]
  <2>1. PICK r : r = p \o q
    OBVIOUS
  <2>2. Len(r) = m + n /\ \A k \in 1 .. m : r[k] = p[k]
    BY <1>1, <2>1
  <2>3. \A k \in 1 .. n : r[m + k] = q[k]
    BY <1>1, <2>1
  <2> QED BY <2>1, <2>2, <2>3
<1>3. SUFFICES ASSUME NEW g, IsTrail(d, g, a, p \o q, Len(p \o q)) PROVE g[Len(p \o q)] = <<c>>
  BY Zenon DEF Goes
<1>4. g[0] = <<a>> /\ \A k \in 1 .. m + n : g[k] = FollowsOn(d, g[k - 1], r[k])
  BY <1>2, <1>3 DEF IsTrail
<1>5. PICK f : f = [k \in 0 .. m |-> g[k]]
  OBVIOUS
<1>6. IsTrail(d, f, a, p, m)
  <2>1. f = [k \in 0 .. m |-> f[k]] /\ f[0] = <<a>>
    BY <1>4, <1>5
  <2>2. ASSUME NEW k \in 1 .. m PROVE f[k] = FollowsOn(d, f[k - 1], p[k])
    <3>1. k \in 1 .. m + n /\ f[k] = g[k] /\ f[k - 1] = g[k - 1] /\ r[k] = p[k]
      BY <1>2, <1>5
    <3> QED BY <1>4, <3>1
  <2> QED BY <2>1, <2>2 DEF IsTrail
<1>7. g[m] = <<b>>
  <2>1. f[m] = <<b>>
    BY <1>1, <1>6 DEF Goes
  <2> QED BY <1>5, <2>1
<1>8. PICK h : h = [k \in 0 .. n |-> g[m + k]]
  OBVIOUS
<1>9. IsTrail(d, h, b, q, n)
  <2>1. h = [k \in 0 .. n |-> h[k]] /\ h[0] = <<b>>
    BY <1>7, <1>8
  <2>2. ASSUME NEW k \in 1 .. n PROVE h[k] = FollowsOn(d, h[k - 1], q[k])
    <3>1. /\ m + k \in 1 .. m + n /\ h[k] = g[m + k] /\ h[k - 1] = g[(m + k) - 1]
          /\ r[m + k] = q[k]
      BY <1>2, <1>8
    <3> QED BY <1>4, <3>1
  <2> QED BY <2>1, <2>2 DEF IsTrail
<1>10. h[n] = <<c>>
  BY <1>1, <1>9 DEF Goes
<1> QED BY <1>2, <1>8, <1>10

\* a walk goes where its names lead
LEMMA WalkGoes ==
    ASSUME DirsInv, Room, dirs[Root].at = 0, NEW d, d = disk, NEW path, path.names \in Seq(Names), NEW bad,
           NEW w, w = Walk(path, bad), Leads(w), NEW a, a = dirs[IF path.abs THEN Root ELSE cwd].at,
           NEW b, <<b>> = Dest(w)
    PROVE  Goes(d, a, path.names, b)
<1>0. PICK n \in Nat : n = Len(path.names)
  OBVIOUS
<1>1. PICK g : IsRun(g, path, bad, n) /\ w = g[n]
  BY <1>0, WalkRuns
<1>2. SUFFICES ASSUME NEW f, IsTrail(d, f, a, path.names, n) PROVE f[n] = <<b>>
  BY <1>0 DEF Goes
<1> DEFINE P(k) == WalkInv(g[k]) /\ (Leads(g[k]) => f[k] = Dest(g[k]))
           S == {k \in 0 .. n : P(k)}
<1>3. 0 \in S
  <2>1. g[0] = Start(path)
    BY <1>1 DEF IsRun
  <2>2. /\ Start(path).dirs = dirs /\ IsWalk(Start(path))
        /\ Start(path).dir = IF path.abs THEN Root ELSE cwd
    BY DEF Start, IsWalk
  <2>3. WalkInv(Start(path))
    BY <2>2 DEF WalkInv
  <2>4. f[0] = Dest(Start(path))
    BY <1>2, <2>2 DEF IsTrail, Dest
  <2>5. P(0)
    BY <2>1, <2>3, <2>4
  <2> HIDE DEF P
  <2> QED BY <2>5
<1>4. ASSUME NEW k \in 1 .. n, k - 1 \in S PROVE k \in S
  <2>1. P(k - 1)
    <3> HIDE DEF P
    <3> QED BY <1>4
  <2>2. PICK u, v, name :
          u = g[k - 1] /\ v = g[k] /\ IsStep(v, u, name, k, bad) /\ name = path.names[k]
    BY <1>1 DEF IsRun, IsStep
  <2>3. WalkInv(v) /\ (Leads(v) => Leads(u) /\ Dest(v) = FollowsOn(d, Dest(u), name))
    BY <2>1, <2>2, StepFacts, FollowsIs
  <2>4. f[k] = FollowsOn(d, f[k - 1], name)
    BY <1>2, <2>2 DEF IsTrail
  <2>5. P(k)
    BY <2>1, <2>2, <2>3, <2>4
  <2> HIDE DEF P
  <2> QED BY <2>5
<1>5. P(n)
  <2> HIDE DEF P
  <2>1. \A k \in 0 .. n : k \in S
    <3> HIDE DEF S
    <3> QED BY <1>3, <1>4, UpTo
  <2> QED BY <2>1
<1> QED BY <1>1, <1>5

CwdInv == dirs[Root].at = 0 /\ Goes(disk, 0, cwdpath, dirs[cwd].at)
CwdKept == /\ UNCHANGED <<disk, cwd, cwdpath>>
           /\ dirs'[Root].at = dirs[Root].at /\ dirs'[cwd].at = dirs[cwd].at

LEMMA KeptCwd == CwdInv /\ CwdKept => CwdInv'
<1> SUFFICES ASSUME CwdInv, CwdKept PROVE CwdInv'
  OBVIOUS
<1>1. /\ disk' = disk /\ cwd' = cwd /\ cwdpath' = cwdpath /\ dirs'[Root].at = 0
      /\ dirs'[cwd'].at = dirs[cwd].at
  BY DEF CwdInv, CwdKept
<1>2. Goes(disk', 0, cwdpath', dirs'[cwd'].at)
  BY <1>1 DEF CwdInv
<1> QED BY <1>1, <1>2 DEF CwdInv

LEMMA OpenCwd ==
    ASSUME IInv, NEW h \in Handles, NEW path \in Paths, open(h, path)
    PROVE  CwdKept
<1>0. IsDirs(dirs) /\ MaxDirs \in Nat /\ {Root, cwd} \subseteq DOMAIN dirs /\ cwd # Root
  BY FatAssumption DEF IInv, DirsInv
<1>1. Opened(h, path) /\ UNCHANGED <<disk, cwd, cwdpath>>
  BY OpenCases DEF open
<1>2. ASSUME NEW w, WalkInv(w), dirs' = w.dirs PROVE CwdKept
  <2>1. \A d \in DOMAIN dirs : dirs'[d] = dirs[d]
    BY <1>2, WalkRefs
  <2> QED BY <1>0, <1>1, <2>1 DEF CwdKept
<1>3. ASSUME NEW x, NEW r, Opens(h, x, r) PROVE CwdKept
  <2>1. /\ IsDir(r) /\ dirs' = With(dirs, x, r) /\ x \in 1 .. MaxDirs
        /\ x \notin DOMAIN dirs \/ (x = cwd /\ r.at = dirs[cwd].at)
    BY <1>3 DEF Opens, IsGot
  <2>2. x \in 0 .. MaxDirs /\ x # Root
    BY <1>0, <2>1 DEF Root
  <2>3. IsWith(dirs', dirs, x, r)
    BY <1>0, <2>1, <2>2, WithFacts
  <2> QED BY <1>0, <1>1, <2>1, <2>2, <2>3 DEF IsWith, CwdKept
<1> QED BY <1>1, <1>2, <1>3 DEF Opened

LEMMA CloseCwd ==
    ASSUME IInv, NEW h \in Handles, close(h)
    PROVE  CwdKept
<1>0. DirsInv /\ NodesInv /\ CountInv /\ IsDirs(dirs) /\ {Root, cwd} \subseteq DOMAIN dirs /\ cwd # Root
  BY DEF IInv, DirsInv
<1>1. /\ UNCHANGED <<disk, cwd, cwdpath>>
      /\ dirs' = IF nodes[h].type = "dir" THEN free_dir(dirs, nodes[h].dir) ELSE dirs
  BY DEF close
<1>2. CASE nodes[h].type # "dir"
  BY <1>1, <1>2 DEF CwdKept
<1>3. CASE nodes[h].type = "dir"
  <2>1. PICK x : x = nodes[h].dir /\ h \in Uses(x) /\ x \in DOMAIN dirs /\ x # Root
    BY <1>0, <1>3 DEF OpenDirs, Uses, NodesInv
  <2>2. IsFreed(dirs', dirs, x)
    BY <1>0, <1>1, <1>3, <2>1, FreeFacts
  <2>3. cwd = x => dirs[x].ref > 1
    <3>1. Cardinality(Uses(x)) \in Nat /\ Cardinality(Uses(x)) # 0
      BY <2>1, UsesFacts
    <3>2. dirs[x].ref = Cardinality(Uses(x)) + Held(x)
      BY <1>0, <2>1 DEF CountInv
    <3> QED BY <3>1, <3>2 DEF Held
  <2> QED BY <1>0, <1>1, <2>1, <2>2, <2>3 DEF IsFreed, CwdKept
<1> QED BY <1>2, <1>3

LEMMA PlacingCwd ==
    ASSUME IInv, NEW h \in Handles, readdir(h) \/ rewinddir(h)
    PROVE  CwdKept
<1>1. PICK x, c : Placing(h, x, c) /\ x \in DOMAIN dirs /\ c \in Nat
  BY PlacingCases
<1>2. dirs' = Place(dirs, x, c) /\ UNCHANGED <<disk, cwd, cwdpath>>
  BY <1>1 DEF Placing, readdir, rewinddir
<1>3. dirs'[x].at = dirs[x].at /\ \A d \in DOMAIN dirs : d # x => dirs'[d] = dirs[d]
  BY <1>1, <1>2, Placed
<1> QED BY <1>2, <1>3 DEF CwdKept, IInv, DirsInv

\* The new path leads to the new directory: it is the one that was walked, from the root,
\* or its names come after those that led to the old one.
LEMMA ChdirCwd ==
    ASSUME IInv, CwdInv, NEW path \in Dirs, fs_chdir(path)
    PROVE  CwdInv'
<1>0. /\ DirsInv /\ IsDirs(dirs) /\ MaxDirs \in Nat /\ {Root, cwd} \subseteq DOMAIN dirs /\ cwd # Root
      /\ cwdpath \in Seq(Names) /\ dirs[Root].at = 0
  BY FatAssumption DEF IInv, DirsInv, CwdInv
<1>1. disk' = disk /\ Room /\ (path = Up => cwdpath # << >>) /\ path.names \in Seq(Names)
  BY FatAssumption DEF fs_chdir
<1>2. PICK t : t = Target(cwdpath, path, Up) /\ t.names \in Seq(Names)
  BY <1>0, <1>1, PathFacts
<1>3. PICK bad, w : /\ w = Walk(t, bad)
                    /\ \/ dirs' = w.dirs /\ UNCHANGED <<cwd, cwdpath>>
                       \/ UNCHANGED <<dirs, cwd, cwdpath>>
                       \/ /\ ~w.failed /\ w.dir # NoDir /\ dirs' = free_dir(DirOf(w).dirs, cwd)
                          /\ cwd' = DirOf(w).dir /\ cwdpath' = NewCwd(cwdpath, path, Up)
  BY <1>2 DEF fs_chdir
<1>4. Walked(t, w)
  BY <1>1, <1>2, <1>3, WalkedFacts
<1>5. CASE dirs' = w.dirs /\ UNCHANGED <<cwd, cwdpath>>
  <2>1. \A d \in DOMAIN dirs : dirs'[d] = dirs[d]
    BY <1>4, <1>5, WalkRefs DEF Walked
  <2> QED BY <1>0, <1>1, <1>5, <2>1, KeptCwd DEF CwdKept
<1>6. CASE UNCHANGED <<dirs, cwd, cwdpath>>
  BY <1>1, <1>6, KeptCwd DEF CwdKept
<1>7. CASE /\ ~w.failed /\ w.dir # NoDir /\ dirs' = free_dir(DirOf(w).dirs, cwd)
           /\ cwd' = DirOf(w).dir /\ cwdpath' = NewCwd(cwdpath, path, Up)
  <2>1. PICK ds, x, r : ds = DirOf(w).dirs /\ x = DirOf(w).dir /\ IsGot(ds, x, r) /\ <<r.at>> = Dest(w)
    BY <1>4, <1>7 DEF Walked
  <2>2. /\ IsDir(r) /\ ds = With(dirs, x, r) /\ x \in 1 .. MaxDirs
        /\ \/ x \notin DOMAIN dirs
           \/ x = cwd /\ r.ref = dirs[cwd].ref + 1
    BY <2>1 DEF IsGot
  <2>3. x \in 0 .. MaxDirs /\ x # Root
    BY <1>0, <2>2 DEF Root
  <2>4. IsWith(ds, dirs, x, r)
    BY <1>0, <2>2, <2>3, WithFacts
  <2>5. IsFreed(dirs', ds, cwd)
    <3>1. cwd \in DOMAIN ds /\ IsDirs(ds)
      BY <1>0, <2>4 DEF IsWith
    <3> QED BY <1>7, <2>1, <3>1, FreeFacts
  <2>6. x = cwd => ds[cwd].ref > 1
    <3>1. dirs[cwd].ref \in Nat /\ dirs[cwd].ref >= 1
      <4>1. dirs[cwd].ref = Cardinality(Uses(cwd)) + 1
        BY <1>0 DEF IInv, CountInv, Held
      <4> QED BY <4>1, UsesFacts
    <3> QED BY <1>0, <2>2, <2>4, <3>1 DEF IsWith
  <2>7. dirs'[x].at = r.at /\ dirs'[Root].at = 0 /\ cwd' = x
    BY <1>0, <1>7, <2>1, <2>3, <2>4, <2>5, <2>6 DEF IsWith, IsFreed
  <2>8. PICK d, a, b : /\ d = disk /\ a = dirs[IF t.abs THEN Root ELSE cwd].at /\ b = r.at
                       /\ Goes(d, a, t.names, b)
    <3>1. PICK d, a, b : d = disk /\ a = dirs[IF t.abs THEN Root ELSE cwd].at /\ b = r.at
      OBVIOUS
    <3>2. Leads(w) /\ <<b>> = Dest(w)
      BY <1>7, <2>1, <3>1 DEF Leads
    <3>3. Goes(d, a, t.names, b)
      BY <1>0, <1>1, <1>2, <1>3, <3>1, <3>2, WalkGoes
    <3> QED BY <3>1, <3>3
  <2>9. Goes(d, 0, NewCwd(cwdpath, path, Up), b)
    <3>1. CASE path = Up
      <4>1. t.abs = TRUE /\ t.names = NewCwd(cwdpath, path, Up)
        BY <1>2, <3>1 DEF Target, Absolute, NewCwd
      <4> QED BY <1>0, <2>8, <4>1
    <3>2. CASE path # Up /\ path.abs
      <4>1. t = path /\ t.names = NewCwd(cwdpath, path, Up)
        BY <1>2, <3>2 DEF Target, NewCwd
      <4> QED BY <1>0, <2>8, <3>2, <4>1
    <3>3. CASE path # Up /\ ~path.abs
      <4>1. t = path /\ NewCwd(cwdpath, path, Up) = cwdpath \o t.names
        BY <1>2, <3>3 DEF Target, NewCwd
      <4>2. a = dirs[cwd].at /\ Goes(d, 0, cwdpath, a)
        BY <2>8, <3>3, <4>1 DEF CwdInv
      <4>3. Goes(d, 0, cwdpath \o t.names, b)
        BY <1>0, <1>2, <2>8, <4>2, GoesOn
      <4> QED BY <4>1, <4>3
    <3> QED BY <3>1, <3>2, <3>3
  <2>10. Goes(disk', 0, cwdpath', dirs'[cwd'].at)
    BY <1>1, <1>7, <2>7, <2>8, <2>9
  <2> QED BY <2>7, <2>10 DEF CwdInv
<1> QED BY <1>3, <1>5, <1>6, <1>7

LEMMA InitCwd == Init => CwdInv
<1> SUFFICES ASSUME Init PROVE CwdInv
  OBVIOUS
<1>1. dirs[Root].at = 0 /\ dirs[cwd].at = 0 /\ cwdpath = << >>
  BY DEF Init, Root
<1>2. Goes(disk, 0, << >>, 0)
  BY DEF Goes, IsTrail
<1> QED BY <1>1, <1>2 DEF CwdInv

LEMMA NextCwd ==
    ASSUME IInv, CwdInv, [Next]_vars
    PROVE  CwdInv'
<1>1. ASSUME NEW h \in Handles, NEW path \in Paths, open(h, path) PROVE CwdInv'
  BY <1>1, OpenCwd, KeptCwd
<1>2. ASSUME NEW h \in Handles, close(h) PROVE CwdInv'
  BY <1>2, CloseCwd, KeptCwd
<1>3. ASSUME NEW h \in Handles, readdir(h) \/ rewinddir(h) PROVE CwdInv'
  BY <1>3, PlacingCwd, KeptCwd
<1>4. CASE UNCHANGED <<disk, dirs, cwd, cwdpath>>
  BY <1>4, KeptCwd DEF CwdKept
<1>5. ASSUME NEW h \in Handles, NEW offs, NEW whence, seek(h, offs, whence) PROVE CwdInv'
  BY <1>4, <1>5 DEF seek
<1>6. ASSUME NEW h \in Handles, NEW sz \in ReadSizes, read(h, sz) PROVE CwdInv'
  BY <1>4, <1>6 DEF read
<1>7. ASSUME NEW path \in Dirs, fs_chdir(path) PROVE CwdInv'
  BY <1>7, ChdirCwd
<1>8. open_nomem \/ load_dir_overlong \/ halted \/ UNCHANGED vars => UNCHANGED <<disk, dirs, cwd, cwdpath>>
  BY DEF open_nomem, load_dir_overlong, halted, vars
<1> QED BY <1>1, <1>2, <1>3, <1>4, <1>5, <1>6, <1>7, <1>8 DEF Next

(***************************************************************************)
(* On every disk, whatever it holds and whatever of it cannot be read,     *)
(* after any sequence of fs_chdir with absolute and relative paths and     *)
(* "..", of opens and of closes, the names in cwdpath lead from the root   *)
(* directory to the working directory.                                     *)
(***************************************************************************)
THEOREM CwdPathLeadsToCwd == Spec => []CwdMatches
<1>1. Init => IInv /\ CwdInv
  BY InitInv, InitCwd
<1>2. IInv /\ CwdInv /\ [Next]_vars => (IInv /\ CwdInv)'
  BY NextInv, NextCwd
<1>3. IInv /\ CwdInv => CwdMatches
  BY PathLeads DEF IInv, CwdInv
<1> QED BY <1>1, <1>2, <1>3, PTL DEF Spec

-----------------------------------------------------------------------------
(***************************************************************************)
(* Files.  What a file's node keeps: its cluster is the one its position   *)
(* has on the chain, or -1 at the end, and a valid buffer holds it.        *)
(***************************************************************************)
AtOk(d, r) == r.at \in DirStarts(d) /\ r.cur_ent \in 0 .. Len(Listings[d][r.at])
Kept(d, ds) == \A e \in DOMAIN ds : AtOk(d, ds[e])
FileOk(d, f) ==
    /\ f.cur_pos \in Nat /\ f.cur_pos <= f.ent.size
    /\ f.ent.size = f.of.size /\ (f.ent.size > 0 => f.ent.first = f.of.first)
    /\ (f.ent.first = 0 /\ f.ent.size = 0) \/ Chained(d, f.ent)
    /\ \/ f.cur_clust = -1 /\ f.cur_pos = f.ent.size
       \/ f.cur_clust = Follow(d, ClustIdx(f.cur_pos), f.ent.first)
    /\ f.buf_valid => f.clustbuf = f.cur_clust
DiskInv ==
    /\ disk \in Disks /\ Kept(disk, dirs)
    /\ \A h \in Files : FileOk(disk, nodes[h])
    /\ exact = TRUE /\ seen \in [Handles -> Nat]
    /\ stopped \in {"no", "no memory", "overrun", "path too long", "name too long"}

\* a position's cluster and its place there
LEMMA Positions ==
    ASSUME NEW p \in Nat, NEW n \in Nat
    PROVE  /\ ClustIdx(p) \in Nat /\ p % ClusterBytes \in 0 .. ClusterBytes - 1
           /\ n < ClusterBytes - (p % ClusterBytes) =>
                ClustIdx(p + n) = ClustIdx(p) /\ (p + n) % ClusterBytes = (p % ClusterBytes) + n
           /\ n = ClusterBytes - (p % ClusterBytes) => ClustIdx(p + n) = ClustIdx(p) + 1
<1>1. PICK c \in Nat : c > 0 /\ c = ClusterBytes
  BY FatAssumption
<1>2. PICK q, r : q = p \div c /\ r = p % c
  OBVIOUS
<1>3. q \in Nat /\ r \in 0 .. c - 1 /\ p = c * q + r
  BY <1>1, <1>2
<1>4. ASSUME n < c - r PROVE (p + n) \div c = q /\ (p + n) % c = r + n
  BY <1>1, <1>3, <1>4
<1>5. ASSUME n = c - r PROVE (p + n) \div c = q + 1
  BY <1>1, <1>3, <1>5
<1>6. PICK a, b : a = (p + n) \div c /\ b = (p + n) % c
  OBVIOUS
<1>7. /\ ClustIdx(p) = q /\ p % ClusterBytes = r
      /\ ClustIdx(p + n) = a /\ (p + n) % ClusterBytes = b
  BY <1>1, <1>2, <1>6 DEF ClustIdx
<1>8. (n < c - r => a = q /\ b = r + n) /\ (n = c - r => a = q + 1)
  BY <1>4, <1>5, <1>6
<1> QED BY <1>1, <1>3, <1>7, <1>8

\* the recursion of Follow
Advance(d, c) == IF c < 0 THEN c ELSE next_cluster(d, c)
IsChain(g, d, first, n) ==
    /\ g = [k \in 0 .. n |-> g[k]] /\ g[0] = first
    /\ \A k \in 1 .. n : g[k] = Advance(d, g[k - 1])
LEMMA ChainExists ==
    ASSUME NEW d, NEW first, NEW n \in Nat
    PROVE  \E g : IsChain(g, d, first, n)
<1> DEFINE S == {m \in 0 .. n : \E g : IsChain(g, d, first, m)}
<1>1. 0 \in S
  <2>1. PICK g : g = [k \in 0 .. 0 |-> first]
    OBVIOUS
  <2>2. g = [k \in 0 .. 0 |-> g[k]] /\ g[0] = first
    BY <2>1
  <2>3. IsChain(g, d, first, 0)
    BY <2>2 DEF IsChain
  <2> QED BY <2>3
<1>2. ASSUME NEW m \in 1 .. n, m - 1 \in S PROVE m \in S
  <2>1. PICK g : IsChain(g, d, first, m - 1)
    BY <1>2
  <2>2. PICK q : q = Advance(d, g[m - 1])
    OBVIOUS
  <2>3. PICK h : h = [k \in 0 .. m |-> IF k = m THEN q ELSE g[k]]
    OBVIOUS
  <2>4. h = [k \in 0 .. m |-> h[k]] /\ h[0] = first
    BY <2>1, <2>3 DEF IsChain
  <2>5. ASSUME NEW k \in 1 .. m PROVE h[k] = Advance(d, h[k - 1])
    <3>1. h[k - 1] = g[k - 1]
      BY <2>3
    <3>2. CASE k = m
      BY <2>2, <2>3, <3>1, <3>2
    <3>3. CASE k # m
      <4>1. k \in 1 .. m - 1 /\ h[k] = g[k]
        BY <2>3, <3>3
      <4>2. g[k] = Advance(d, g[k - 1])
        BY <2>1, <4>1 DEF IsChain
      <4> QED BY <3>1, <4>1, <4>2
    <3> QED BY <3>2, <3>3
  <2>6. IsChain(h, d, first, m)
    BY <2>4, <2>5 DEF IsChain
  <2> QED BY <2>6
<1> HIDE DEF S
<1>3. \A k \in 0 .. n : k \in S
  BY <1>1, <1>2, UpTo
<1>4. n \in S
  BY <1>3
<1> QED BY <1>4 DEF S

LEMMA ChainsAgree ==
    ASSUME NEW d, NEW first, NEW m \in Nat, NEW n \in Nat, m <= n, NEW g, NEW h,
           IsChain(g, d, first, m), IsChain(h, d, first, n)
    PROVE  \A k \in 0 .. m : g[k] = h[k]
<1> DEFINE S == {k \in 0 .. m : g[k] = h[k]}
<1>1. 0 \in S
  BY DEF IsChain
<1>2. ASSUME NEW k \in 1 .. m, k - 1 \in S PROVE k \in S
  <2>1. k \in 1 .. n /\ g[k - 1] = h[k - 1]
    BY <1>2
  <2>2. g[k] = Advance(d, g[k - 1]) /\ h[k] = Advance(d, h[k - 1])
    BY <2>1 DEF IsChain
  <2> QED BY <2>1, <2>2
<1> HIDE DEF S
<1>3. \A k \in 0 .. m : k \in S
  BY <1>1, <1>2, UpTo
<1> QED BY <1>3 DEF S

LEMMA ChainIs ==
    ASSUME NEW d, NEW first, NEW n \in Nat
    PROVE  \E g : IsChain(g, d, first, n) /\ Follow(d, n, first) = g[n]
<1> DEFINE Rec(g) == g = [k \in 0 .. n |-> IF k = 0 THEN first
                                           ELSE IF g[k - 1] < 0 THEN g[k - 1] ELSE next_cluster(d, g[k - 1])]
           G == CHOOSE g : Rec(g)
<1>1. Follow(d, n, first) = G[n]
  BY DEF Follow
<1>2. PICK g : IsChain(g, d, first, n)
  BY ChainExists
<1>3. Rec(g)
  <2>1. \A k \in 0 .. n : g[k] = IF k = 0 THEN first
                                 ELSE IF g[k - 1] < 0 THEN g[k - 1] ELSE next_cluster(d, g[k - 1])
    <3> SUFFICES ASSUME NEW k \in 0 .. n
                 PROVE  g[k] = IF k = 0 THEN first
                               ELSE IF g[k - 1] < 0 THEN g[k - 1] ELSE next_cluster(d, g[k - 1])
      OBVIOUS
    <3>1. k = 0 \/ k \in 1 .. n
      OBVIOUS
    <3>2. g[0] = first /\ \A j \in 1 .. n : g[j] = Advance(d, g[j - 1])
      BY <1>2 DEF IsChain
    <3> QED BY <3>1, <3>2, Zenon DEF Advance
  <2>2. g = [k \in 0 .. n |-> g[k]]
    BY <1>2 DEF IsChain
  <2> QED BY <2>1, <2>2
<1>4. Rec(G)
  BY <1>3
<1> HIDE DEF G
<1>5. IsChain(G, d, first, n)
  <2>1. G = [k \in 0 .. n |-> G[k]]
    BY <1>4
  <2>2. G[0] = first /\ \A k \in 1 .. n : G[k] = Advance(d, G[k - 1])
    BY <1>4 DEF Advance
  <2> QED BY <2>1, <2>2 DEF IsChain
<1> QED BY <1>1, <1>5

LEMMA FollowIs ==
    ASSUME NEW d, NEW first, NEW n \in Nat, NEW g, IsChain(g, d, first, n)
    PROVE  \A k \in 0 .. n : Follow(d, k, first) = g[k]
<1> SUFFICES ASSUME NEW k \in 0 .. n PROVE Follow(d, k, first) = g[k]
  OBVIOUS
<1>1. PICK h : IsChain(h, d, first, k) /\ Follow(d, k, first) = h[k]
  BY ChainIs
<1>2. h[k] = g[k]
  BY <1>1, ChainsAgree
<1> QED BY <1>1, <1>2

LEMMA FollowSteps ==
    ASSUME NEW d, NEW first, NEW n \in Nat
    PROVE  Follow(d, 0, first) = first /\ Follow(d, n + 1, first) = Advance(d, Follow(d, n, first))
<1>1. PICK g : IsChain(g, d, first, n + 1)
  BY ChainExists
<1>2. \A k \in 0 .. n + 1 : Follow(d, k, first) = g[k]
  BY <1>1, FollowIs
<1>3. g[0] = first /\ g[n + 1] = Advance(d, g[n])
  <2>1. n + 1 \in 1 .. n + 1 /\ (n + 1) - 1 = n
    OBVIOUS
  <2> QED BY <1>1, <2>1 DEF IsChain
<1> QED BY <1>2, <1>3

\* going on from where a chain has come to
LEMMA FollowOn ==
    ASSUME NEW d, NEW first, NEW m \in Nat, NEW n \in Nat
    PROVE  Follow(d, n, Follow(d, m, first)) = Follow(d, m + n, first)
<1> DEFINE S == {k \in 0 .. n : Follow(d, k, Follow(d, m, first)) = Follow(d, m + k, first)}
<1>1. 0 \in S
  BY FollowSteps
<1>2. ASSUME NEW k \in 1 .. n, k - 1 \in S PROVE k \in S
  <2>1. PICK j \in Nat : j = k - 1
    OBVIOUS
  <2>2. Follow(d, j, Follow(d, m, first)) = Follow(d, m + j, first)
    BY <1>2, <2>1
  <2>3. Follow(d, j + 1, Follow(d, m, first)) = Follow(d, (m + j) + 1, first)
    BY <2>2, FollowSteps
  <2>4. j + 1 = k /\ (m + j) + 1 = m + k
    BY <2>1
  <2> QED BY <2>3, <2>4
<1> HIDE DEF S
<1>3. \A k \in 0 .. n : k \in S
  BY <1>1, <1>2, UpTo
<1> QED BY <1>3 DEF S

\* a chain that has not ended had not ended before
LEMMA FollowBefore ==
    ASSUME WellFormed, NEW d \in Disks, NEW first \in Clusters(d), NEW n \in Nat
    PROVE  /\ Follow(d, n, first) \in Clusters(d) \union {-1}
           /\ Follow(d, n, first) >= 0 => \A k \in 0 .. n : Follow(d, k, first) >= 0
<1>0. Clusters(d) \subseteq Nat \ {0} /\ \A c \in Clusters(d) : next_cluster(d, c) \in Clusters(d) \union {-1}
  BY DEF WellFormed
<1> DEFINE S == {k \in 0 .. n : /\ Follow(d, k, first) \in Clusters(d) \union {-1}
                                /\ Follow(d, k, first) >= 0 => \A j \in 0 .. k : Follow(d, j, first) >= 0}
<1>1. 0 \in S
  BY <1>0, FollowSteps
<1>2. ASSUME NEW k \in 1 .. n, k - 1 \in S PROVE k \in S
  <2>1. PICK m \in Nat : m = k - 1 /\ k = m + 1
    OBVIOUS
  <2>2. /\ Follow(d, m, first) \in Clusters(d) \union {-1}
        /\ Follow(d, m, first) >= 0 => \A j \in 0 .. m : Follow(d, j, first) >= 0
    BY <1>2, <2>1
  <2>3. Follow(d, k, first) = Advance(d, Follow(d, m, first))
    BY <2>1, FollowSteps
  <2>4. /\ Follow(d, k, first) \in Clusters(d) \union {-1}
        /\ Follow(d, k, first) >= 0 => Follow(d, m, first) >= 0
    BY <1>0, <2>2, <2>3 DEF Advance
  <2>5. \A j \in 0 .. k : j = k \/ j \in 0 .. m
    BY <2>1
  <2> QED BY <2>2, <2>4, <2>5
<1> HIDE DEF S
<1>3. \A k \in 0 .. n : k \in S
  BY <1>1, <1>2, UpTo
<1>4. n \in S
  BY <1>3
<1> QED BY <1>4 DEF S

\* the chain as the file's definition gives it
LEMMA ClusterIs ==
    ASSUME WellFormed, NEW d \in Disks, d = disk, NEW ent, ent.first \in Clusters(d), NEW n \in Nat,
           Follow(d, n, ent.first) >= 0
    PROVE  ClusterOf(ent, n) = Follow(d, n, ent.first)
<1>0. PICK first \in Clusters(d) : first = ent.first
  OBVIOUS
<1>1. PICK g : IsChain(g, d, first, n)
  BY ChainExists
<1>2. \A k \in 0 .. n : g[k] = Follow(d, k, first) /\ g[k] >= 0 /\ g[k] \in Clusters(d)
  <2>1. \A k \in 0 .. n : g[k] = Follow(d, k, first) /\ Follow(d, k, first) >= 0
    BY <1>0, <1>1, FollowIs, FollowBefore
  <2>2. \A k \in 0 .. n : Follow(d, k, first) \in Clusters(d) \union {-1}
    BY FollowBefore
  <2> QED BY <2>1, <2>2
<1> DEFINE Rec(f) == f = [k \in 0 .. n |-> IF k = 0 THEN first ELSE FatEntry(f[k - 1])]
           G == CHOOSE f : Rec(f)
<1>3. ClusterOf(ent, n) = G[n]
  BY <1>0 DEF ClusterOf
<1>4. ASSUME NEW k \in 1 .. n PROVE g[k] = FatEntry(g[k - 1])
  <2>0. k - 1 \in 0 .. n /\ k \in 0 .. n
    OBVIOUS
  <2>1. g[k] = Advance(d, g[k - 1])
    BY <1>1, Zenon DEF IsChain
  <2>2. g[k] >= 0 /\ g[k - 1] >= 0 /\ g[k] \in Nat /\ g[k - 1] \in Nat
    BY <1>2, <2>0 DEF WellFormed
  <2>3. g[k] = next_cluster(d, g[k - 1])
    BY <2>1, <2>2 DEF Advance
  <2>4. next_cluster(d, g[k - 1]) = read_fat(d, g[k - 1])
    BY <2>2, <2>3 DEF next_cluster
  <2>5. FatEntry(g[k - 1]) = read_fat(d, g[k - 1])
    BY DEF FatEntry, WellFormed
  <2> QED BY <2>3, <2>4, <2>5
<1>5. g = [k \in 0 .. n |-> g[k]] /\ g[0] = first
  BY <1>1 DEF IsChain
<1>6. Rec(g)
  <2>1. ASSUME NEW k \in 0 .. n PROVE g[k] = IF k = 0 THEN first ELSE FatEntry(g[k - 1])
    <3>1. k = 0 \/ k \in 1 .. n
      OBVIOUS
    <3> QED BY <1>4, <1>5, <3>1, Zenon
  <2> QED BY <1>5, <2>1, Zenon
<1>7. Rec(G)
  BY <1>6
<1> HIDE DEF G
<1>8. G[0] = first /\ \A k \in 1 .. n : G[k] = FatEntry(G[k - 1])
  BY <1>7
<1> DEFINE S == {k \in 0 .. n : G[k] = g[k]}
<1>9. 0 \in S
  BY <1>5, <1>8
<1>10. ASSUME NEW k \in 1 .. n, k - 1 \in S PROVE k \in S
  BY <1>4, <1>8, <1>10
<1> HIDE DEF S
<1>11. \A k \in 0 .. n : k \in S
  BY <1>9, <1>10, UpTo
<1>12. G[n] = g[n]
  BY <1>11 DEF S
<1> QED BY <1>0, <1>2, <1>3, <1>12

\* the bytes of a file, as a sequence
Bytes(b, pos, n) == [i \in 1 .. n |-> b[pos + i - 1]]
LEMMA BytesOn ==
    ASSUME NEW b, NEW pos \in Nat, NEW m \in Nat, NEW n \in Nat
    PROVE  Bytes(b, pos, m) \o Bytes(b, pos + m, n) = Bytes(b, pos, m + n)
<1>1. PICK T : T = {b[p] : p \in Nat}
  OBVIOUS
<1>2. \A p, k \in Nat : Bytes(b, p, k) \in Seq(T) /\ Len(Bytes(b, p, k)) = k
  <2> SUFFICES ASSUME NEW p \in Nat, NEW k \in Nat PROVE Bytes(b, p, k) \in Seq(T) /\ Len(Bytes(b, p, k)) = k
    OBVIOUS
  <2>1. ASSUME NEW i \in 1 .. k PROVE b[p + i - 1] \in T
    <3>1. p + i - 1 \in Nat
      OBVIOUS
    <3> QED BY <1>1, <3>1
  <2>2. Bytes(b, p, k) \in [1 .. k -> T]
    BY <2>1 DEF Bytes
  <2>3. Bytes(b, p, k) \in Seq(T)
    BY <2>2
  <2>4. DOMAIN Bytes(b, p, k) = 1 .. k
    BY DEF Bytes
  <2> QED BY <2>3, <2>4, LenProperties
<1>3. PICK s \in Seq(T), t \in Seq(T), u \in Seq(T) :
        /\ s = Bytes(b, pos, m) /\ t = Bytes(b, pos + m, n) /\ u = Bytes(b, pos, m + n)
        /\ Len(s) = m /\ Len(t) = n /\ Len(u) = m + n
  BY <1>2
<1>4. s \o t \in Seq(T) /\ Len(s \o t) = m + n
  <2>1. s \o t \in Seq(T) /\ Len(s \o t) = Len(s) + Len(t)
    BY ConcatProperties
  <2> QED BY <1>3, <2>1
<1>5. ASSUME NEW i \in 1 .. m + n PROVE (s \o t)[i] = u[i]
  <2>1. u[i] = b[pos + i - 1]
    BY <1>3 DEF Bytes
  <2>2. CASE i <= m
    <3>1. (s \o t)[i] = s[i] /\ i \in 1 .. m
      BY <1>3, <2>2
    <3> QED BY <1>3, <2>1, <3>1 DEF Bytes
  <2>3. CASE i > m
    <3>1. PICK j \in 1 .. n : j = i - m
      BY <2>3
    <3>2. (s \o t)[i] = t[j]
      BY <1>3, <2>3, <3>1
    <3>3. t[j] = b[(pos + m) + j - 1]
      BY <1>3 DEF Bytes
    <3>4. (pos + m) + j - 1 = pos + i - 1
      BY <3>1
    <3> QED BY <2>1, <3>2, <3>3, <3>4
  <2>4. i <= m \/ i > m
    OBVIOUS
  <2> QED BY <2>2, <2>3, <2>4, Zenon
<1>6. s \o t = u
  BY <1>3, <1>4, <1>5, SeqEqual
<1> QED BY <1>3, <1>6

\* what a seek or a pass of read leaves of a file
SameEnt(g, f) == g.ent = f.ent /\ g.of = f.of
LEMMA MovedFacts ==
    ASSUME NEW f, IsFile(f), NEW pos, NEW g, g = Moved(f, pos)
    PROVE  /\ SameEnt(g, f) /\ g.cur_pos = pos /\ g.cur_clust = f.cur_clust
           /\ g.clustbuf = f.clustbuf /\ g.buf_valid = f.buf_valid
<1>1. f \in [type : {"file"}, ent : {f.ent}, of : {f.of}, cur_pos : {f.cur_pos},
             cur_clust : {f.cur_clust}, clustbuf : {f.clustbuf}, buf_valid : {f.buf_valid}]
  BY DEF IsFile
<1> QED BY <1>1 DEF Moved, SameEnt

LEMMA SoughtFacts ==
    ASSUME NEW f, IsFile(f), NEW pos, NEW c, NEW g, g = Sought(f, pos, c)
    PROVE  SameEnt(g, f) /\ g.cur_pos = pos /\ g.cur_clust = c /\ ~g.buf_valid
<1>1. f \in [type : {"file"}, ent : {f.ent}, of : {f.of}, cur_pos : {f.cur_pos},
             cur_clust : {f.cur_clust}, clustbuf : {f.clustbuf}, buf_valid : {f.buf_valid}]
  BY DEF IsFile
<1> QED BY <1>1 DEF Sought, SameEnt

LEMMA TurnedFacts ==
    ASSUME NEW f, IsFile(f), NEW c, NEW g, g = Turned(f, c)
    PROVE  SameEnt(g, f) /\ g.cur_pos = f.cur_pos /\ g.cur_clust = c /\ ~g.buf_valid
<1>1. f \in [type : {"file"}, ent : {f.ent}, of : {f.of}, cur_pos : {f.cur_pos},
             cur_clust : {f.cur_clust}, clustbuf : {f.clustbuf}, buf_valid : {f.buf_valid}]
  BY DEF IsFile
<1> QED BY <1>1 DEF Turned, SameEnt

LEMMA FilledFacts ==
    ASSUME NEW f, IsFile(f), NEW pos, NEW b, NEW g, g = Filled(f, pos, b)
    PROVE  /\ SameEnt(g, f) /\ g.cur_pos = pos /\ g.cur_clust = f.cur_clust
           /\ g.clustbuf = b /\ g.buf_valid
<1>1. f \in [type : {"file"}, ent : {f.ent}, of : {f.of}, cur_pos : {f.cur_pos},
             cur_clust : {f.cur_clust}, clustbuf : {f.clustbuf}, buf_valid : {f.buf_valid}]
  BY DEF IsFile
<1> QED BY <1>1 DEF Filled, SameEnt

\* the cluster of a position
At(d, f, pos, c) == c = Follow(d, ClustIdx(pos), f.ent.first) \/ (c = -1 /\ pos = f.ent.size)
Whole(d, f) ==
    /\ f.ent.size \in Nat /\ f.ent.size = f.of.size /\ (f.ent.size > 0 => f.ent.first = f.of.first)
    /\ (f.ent.first = 0 /\ f.ent.size = 0) \/ Chained(d, f.ent)
LEMMA FileIs ==
    ASSUME NEW d, NEW f
    PROVE  FileOk(d, f) <=> /\ Whole(d, f) /\ f.cur_pos \in Nat /\ f.cur_pos <= f.ent.size
                            /\ At(d, f, f.cur_pos, f.cur_clust)
                            /\ f.buf_valid => f.clustbuf = f.cur_clust
  BY DEF FileOk, Whole, At, Chained

LEMMA FileMoved ==
    ASSUME NEW d, NEW f, FileOk(d, f), NEW g, SameEnt(g, f), g.cur_pos \in Nat, g.cur_pos <= f.ent.size,
           At(d, f, g.cur_pos, g.cur_clust), g.buf_valid => g.clustbuf = g.cur_clust
    PROVE  FileOk(d, g)
<1>1. Whole(d, g)
  BY FileIs DEF Whole, SameEnt
<1>2. At(d, g, g.cur_pos, g.cur_clust)
  BY DEF At, SameEnt
<1> QED BY <1>1, <1>2, FileIs DEF SameEnt

LEMMA FirstFacts ==
    ASSUME WellFormed, NEW d \in Disks, NEW f, FileOk(d, f)
    PROVE  /\ f.ent.first \in Nat /\ f.ent.size \in Nat
           /\ \A pos \in 0 .. f.ent.size :
                /\ Follow(d, ClustIdx(pos), f.ent.first) \in Int
                /\ pos < f.ent.size => Follow(d, ClustIdx(pos), f.ent.first) >= 0 /\ f.ent.first \in Clusters(d)
           /\ f.cur_clust \in Clusters(d) \union {-1, 0}
<1>0. Clusters(d) \subseteq Nat \ {0} /\ \A pos \in Nat : ClustIdx(pos) \in Nat /\ ClustIdx(0) = 0
  <2>1. \A c \in Nat \ {0} : 0 \div c = 0
    OBVIOUS
  <2>2. ClustIdx(0) = 0
    BY <2>1, FatAssumption DEF ClustIdx
  <2> QED BY <2>2, Positions DEF WellFormed
<1>1. /\ Whole(d, f) /\ f.cur_pos \in Nat /\ f.cur_pos <= f.ent.size /\ At(d, f, f.cur_pos, f.cur_clust)
      /\ f.ent.size \in Nat
  BY FileIs DEF Whole
<1>2. CASE Chained(d, f.ent)
  <2>1. f.ent.first \in Clusters(d) /\ \A pos \in 0 .. f.ent.size - 1 : Follow(d, ClustIdx(pos), f.ent.first) >= 0
    BY <1>2 DEF Chained
  <2>2. \A pos \in Nat : Follow(d, ClustIdx(pos), f.ent.first) \in Clusters(d) \union {-1}
    BY <1>0, <2>1, FollowBefore
  <2> QED BY <1>0, <1>1, <2>1, <2>2 DEF At
<1>3. CASE f.ent.first = 0 /\ f.ent.size = 0
  <2>1. Follow(d, 0, f.ent.first) = 0
    BY <1>3, FollowSteps
  <2>2. f.cur_pos = 0 /\ f.cur_clust \in {-1, 0}
    BY <1>0, <1>1, <1>3, <2>1 DEF At
  <2> QED BY <1>0, <1>1, <1>3, <2>1, <2>2
<1> QED BY <1>1, <1>2, <1>3 DEF Whole

LEMMA SeekOk ==
    ASSUME WellFormed, NEW d \in Disks, d = disk, NEW f, IsFile(f), FileOk(d, f), NEW pos \in Nat,
           SafeSeek(f, pos), NEW g \in SeekTo(f, pos)
    PROVE  FileOk(d, g)
<1>1. /\ f.ent.first \in Nat /\ f.cur_pos \in Nat /\ At(d, f, f.cur_pos, f.cur_clust)
      /\ f.buf_valid => f.clustbuf = f.cur_clust
  BY FirstFacts, FileIs
<1>2. pos <= f.ent.size /\ (f.cur_clust < 0 => ClustIdx(pos) < ClustIdx(f.cur_pos))
  BY DEF SafeSeek
<1>3. PICK m \in Nat, n \in Nat : m = ClustIdx(f.cur_pos) /\ n = ClustIdx(pos)
  BY <1>1, Positions
<1>4. CASE n = m
  <2>1. g = Moved(f, pos)
    BY <1>3, <1>4 DEF SeekTo, Moved
  <2>2. f.cur_clust # -1
    BY <1>2, <1>3, <1>4
  <2>3. At(d, f, pos, f.cur_clust)
    BY <1>1, <1>3, <1>4, <2>2 DEF At
  <2>4. /\ SameEnt(g, f) /\ g.cur_pos = pos /\ g.cur_clust = f.cur_clust /\ g.clustbuf = f.clustbuf
        /\ g.buf_valid = f.buf_valid
    BY <2>1, MovedFacts
  <2> QED BY <1>1, <1>2, <2>3, <2>4, FileMoved
<1>5. CASE n # m
  <2>1. PICK c \in (IF n < m THEN find_cluster(d, n, f.ent.first) ELSE find_cluster(d, n - m, f.cur_clust)) :
          g = Sought(f, pos, c)
    BY <1>3, <1>5 DEF SeekTo, Sought
  <2>2. c = Follow(d, n, f.ent.first)
    <3>1. CASE n < m
      BY <1>1, <2>1, <3>1 DEF find_cluster
    <3>2. CASE n > m
      <4>1. ~(f.cur_clust < 0) /\ f.cur_clust # -1
        BY <1>2, <1>3, <3>2
      <4>2. f.cur_clust = Follow(d, m, f.ent.first)
        BY <1>1, <1>3, <4>1 DEF At
      <4>3. c = Follow(d, n - m, f.cur_clust)
        BY <2>1, <3>2, <4>1 DEF find_cluster
      <4>4. PICK k \in Nat : k = n - m /\ m + k = n
        BY <3>2
      <4> QED BY <4>2, <4>3, <4>4, FollowOn
    <3> QED BY <1>5, <3>1, <3>2
  <2>3. At(d, f, pos, c)
    BY <1>3, <2>2 DEF At
  <2>4. SameEnt(g, f) /\ g.cur_pos = pos /\ g.cur_clust = c /\ ~g.buf_valid
    BY <2>1, SoughtFacts
  <2> QED BY <1>2, <2>3, <2>4, FileMoved
<1> QED BY <1>4, <1>5

\* the fields of a pass's outcome
IsTook(v, r, f, d, x) == v = Took(r, f, d, x)
LEMMA TookFacts ==
    ASSUME NEW r, IsRead(r), NEW f, IsFile(f), NEW d, NEW x, NEW v, IsTook(v, r, f, d, x)
    PROVE  IsRead(v) /\ v.file = f /\ v.data = d /\ v.done = x /\ v.overrun = r.overrun
<1>1. r \in [file : {r.file}, data : {r.data}, done : {r.done}, overrun : {r.overrun}]
  BY DEF IsRead
<1>2. v.file = f /\ v.data = d /\ v.done = x /\ v.overrun = r.overrun
  BY <1>1 DEF IsTook, Took
<1> QED BY <1>2, ReadFields DEF IsTook

\* After k passes of a read of sz bytes from f: n bytes have been read.
FileBytes(d, first) == [p \in Nat |-> <<Follow(d, ClustIdx(p), first), p % ClusterBytes>>]
HasRead(d, f, b, sz, k, r, n) ==
    /\ IsRead(r) /\ FileOk(d, r.file) /\ SameEnt(r.file, f) /\ ~r.overrun
    /\ n \in 0 .. sz /\ r.data = Bytes(b, f.cur_pos, n) /\ r.file.cur_pos = f.cur_pos + n
    /\ r.done => n = sz \/ r.file.cur_pos = f.ent.size
    /\ ~r.done => n >= k /\ n < sz /\ r.file.cur_clust >= 0

LEMMA BytesLen ==
    ASSUME NEW b, NEW pos, NEW n \in Nat
    PROVE  Len(Bytes(b, pos, n)) = n
  BY DEF Bytes

\* the bytes one pass takes from the cluster buffer
LEMMA PassBytes ==
    ASSUME NEW d, NEW first, NEW b, b = FileBytes(d, first), NEW p \in Nat, NEW len \in Nat,
           len <= ClusterBytes - (p % ClusterBytes), NEW buf, buf = Follow(d, ClustIdx(p), first)
    PROVE  [i \in 1 .. len |-> <<buf, (p % ClusterBytes) + i - 1>>] = Bytes(b, p, len)
<1>1. ASSUME NEW i \in 1 .. len PROVE b[p + i - 1] = <<buf, (p % ClusterBytes) + i - 1>>
  <2>1. PICK j \in Nat : j = i - 1 /\ j < ClusterBytes - (p % ClusterBytes)
    <3>2. ClusterBytes \in Int
      BY FatAssumption
    <3>3. p % ClusterBytes \in Int
      BY Positions
    <3>1. ClusterBytes - (p % ClusterBytes) \in Int
      BY <3>2, <3>3
    <3> QED BY <3>1
  <2>2. ClustIdx(p + j) = ClustIdx(p) /\ (p + j) % ClusterBytes = (p % ClusterBytes) + j
    BY <2>1, Positions
  <2>3. p + i - 1 = p + j /\ p + j \in Nat /\ (p % ClusterBytes) + i - 1 = (p % ClusterBytes) + j
    <3>1. p % ClusterBytes \in Int
      BY Positions
    <3> QED BY <2>1, <3>1
  <2>4. b[p + j] = <<Follow(d, ClustIdx(p + j), first), (p + j) % ClusterBytes>>
    BY <2>3 DEF FileBytes
  <2> QED BY <2>2, <2>3, <2>4
<1> QED BY <1>1, Zenon DEF Bytes

Reached(t, f, m) == t.cur_pos = f.cur_pos + m
EndsWell(x, m, sz, k, t, f) ==
    (x => m = sz \/ t.cur_pos = f.ent.size) /\ (~x => m >= k /\ m < sz /\ t.cur_clust >= 0)
LEMMA PassTook ==
    ASSUME NEW d, NEW f, NEW b, NEW sz, NEW k, NEW r, IsRead(r), ~r.overrun, NEW t, IsFile(t),
           FileOk(d, t), SameEnt(t, f), NEW m, m \in 0 .. sz, Reached(t, f, m),
           NEW x, EndsWell(x, m, sz, k, t, f), NEW v, IsTook(v, r, t, Bytes(b, f.cur_pos, m), x)
    PROVE  HasRead(d, f, b, sz, k, v, m)
<1>1. IsRead(v) /\ v.file = t /\ v.data = Bytes(b, f.cur_pos, m) /\ v.done = x /\ v.overrun = r.overrun
  BY TookFacts
<1>2. EndsWell(v.done, m, sz, k, t, f)
  BY <1>1
<1>3. ~v.overrun
  BY <1>1
<1> QED BY <1>1, <1>2, <1>3, Zenon DEF HasRead, Reached, EndsWell

AreBytes(s, b, p, n) == s = Bytes(b, p, n)
IsData(data, old, b, p, len) == data = old \o Bytes(b, p, len)
IsSum(k, m, n) == m \in Nat /\ n \in Nat /\ k = m + n
LEMMA DataOn ==
    ASSUME NEW b, NEW p, NEW n, NEW len, NEW old, AreBytes(old, b, p, n),
           NEW q, IsSum(q, p, n), NEW data, IsData(data, old, b, q, len), NEW m, IsSum(m, n, len)
    PROVE  data = Bytes(b, p, m) /\ Len(data) = m
<1>1. Bytes(b, p, n) \o Bytes(b, p + n, len) = Bytes(b, p, n + len)
  BY BytesOn DEF IsSum
<1>2. data = Bytes(b, p, m)
  BY <1>1, Zenon DEF IsData, AreBytes, IsSum
<1>3. m \in Nat
  BY DEF IsSum
<1> QED BY <1>2, <1>3, BytesLen

IsBytesOf(b, d, f) == b = FileBytes(d, f.ent.first)
LEMMA PassReads ==
    ASSUME WellFormed, NEW d \in Disks, d = disk, NEW f, IsFile(f), FileOk(d, f), NEW b,
           IsBytesOf(b, d, f), NEW sz \in Nat, NEW k \in Nat, NEW n, NEW r,
           HasRead(d, f, b, sz, k, r, n), ~r.done, NEW v, v = ReadPass(r, sz, FALSE)
    PROVE  \E m : HasRead(d, f, b, sz, k + 1, v, m)
<1>0. /\ f.cur_pos \in Nat /\ f.ent.size \in Nat /\ ClusterBytes \in Nat /\ ClusterBytes > 0
  BY FatAssumption, FileIs, FirstFacts
<1>1. PICK g, buf, len, pos, next, data : IsPass(v, r, g, sz, FALSE, buf, len, pos, next, data)
  BY PassCases
<1>2. /\ g = r.file /\ buf = (IF g.buf_valid THEN g.clustbuf ELSE g.cur_clust)
      /\ len = Lesser(Lesser(ClusterBytes - (g.cur_pos % ClusterBytes), sz - Len(r.data)), g.ent.size - g.cur_pos)
      /\ pos = g.cur_pos + len /\ next = next_cluster(disk, g.cur_clust)
  BY <1>1, Zenon DEF IsPass
<1>3. /\ IsRead(r) /\ FileOk(d, g) /\ SameEnt(g, f) /\ ~r.overrun /\ IsFile(g)
      /\ n \in 0 .. sz /\ r.data = Bytes(b, f.cur_pos, n) /\ g.cur_pos = f.cur_pos + n
      /\ n >= k /\ n < sz /\ g.cur_clust >= 0
  BY <1>2 DEF HasRead, IsRead
<1>4. /\ g.cur_pos \in Nat /\ g.cur_pos <= f.ent.size /\ g.cur_clust = Follow(d, ClustIdx(g.cur_pos), f.ent.first)
      /\ g.ent.size = f.ent.size /\ g.ent.first = f.ent.first /\ buf = g.cur_clust
  <2>1. At(d, g, g.cur_pos, g.cur_clust) /\ (g.buf_valid => g.clustbuf = g.cur_clust) /\ g.cur_clust # -1
    BY <1>3, FileIs
  <2> QED BY <1>0, <1>2, <1>3, <2>1, FileIs DEF At, SameEnt
<1>5. PICK offs \in 0 .. ClusterBytes - 1 : offs = g.cur_pos % ClusterBytes
  BY <1>4, Positions
<1>6. Len(r.data) = n
  BY <1>3, BytesLen
<1>7. /\ len \in Nat /\ len <= ClusterBytes - offs /\ len <= sz - n /\ len <= f.ent.size - g.cur_pos
      /\ len = ClusterBytes - offs \/ len = sz - n \/ len = f.ent.size - g.cur_pos
  <2>1. len = Lesser(Lesser(ClusterBytes - offs, sz - n), f.ent.size - g.cur_pos)
    BY <1>2, <1>4, <1>5, <1>6
  <2>2. PICK c \in Nat, e \in Nat, p \in Nat : c = ClusterBytes /\ e = f.ent.size /\ p = g.cur_pos /\ p <= e
    BY <1>0, <1>4
  <2>3. n \in Nat /\ n < sz /\ offs \in Nat /\ offs < c
    BY <1>3, <2>2
  <2> QED BY <2>1, <2>2, <2>3 DEF Lesser
<1>8. PICK m \in Nat : m = n + len /\ m \in 0 .. sz /\ pos = f.cur_pos + m /\ pos <= f.ent.size /\ pos \in Nat
  <2>1. pos = g.cur_pos + len /\ g.cur_pos = f.cur_pos + n /\ n \in 0 .. sz
    BY <1>2, <1>3
  <2> QED BY <1>0, <1>4, <1>7, <2>1
<1>9. data = Bytes(b, f.cur_pos, m) /\ Len(data) = m
  <2>1. [i \in 1 .. len |-> <<buf, (g.cur_pos % ClusterBytes) + i - 1>>] = Bytes(b, g.cur_pos, len)
    <3>1. PICK first, p : first = f.ent.first /\ p = g.cur_pos /\ p \in Nat
      BY <1>4
    <3>2. len \in Nat /\ len <= ClusterBytes - (p % ClusterBytes) /\ buf = Follow(d, ClustIdx(p), first)
      BY <1>4, <1>5, <1>7, <3>1
    <3>3. b = FileBytes(d, first)
      BY <3>1 DEF IsBytesOf
    <3> QED BY <3>1, <3>2, <3>3, PassBytes
  <2>2. IsData(data, r.data, b, g.cur_pos, len)
    <3>1. data = r.data \o [i \in 1 .. len |-> <<buf, (g.cur_pos % ClusterBytes) + i - 1>>]
      BY <1>1, Zenon DEF IsPass
    <3> QED BY <2>1, <3>1, Zenon DEF IsData
  <2>3. PICK p \in Nat : p = f.cur_pos
    BY <1>0
  <2>4. n \in Nat /\ len \in Nat
    BY <1>3, <1>7
  <2>5. AreBytes(r.data, b, p, n) /\ g.cur_pos = p + n /\ m = n + len
    BY <1>3, <1>8, <2>3 DEF AreBytes
  <2>7. PICK old, q : old = r.data /\ q = g.cur_pos
    OBVIOUS
  <2>8. AreBytes(old, b, p, n) /\ IsData(data, old, b, q, len)
    BY <2>2, <2>5, <2>7, Zenon
  <2>9. IsSum(q, p, n) /\ IsSum(m, n, len)
    BY <2>4, <2>5, <2>7 DEF IsSum
  <2>6. data = Bytes(b, p, m) /\ Len(data) = m
    BY <2>8, <2>9, DataOn
  <2> QED BY <2>3, <2>6
<1>10. PICK full : full = Filled(g, pos, buf)
  OBVIOUS
<1>15. \/ len < 0
       \/ pos >= f.ent.size /\ v = Took(r, Turned(full, -1), data, TRUE)
       \/ /\ pos < f.ent.size /\ ClustIdx(pos) # ClustIdx(g.cur_pos)
          /\ v = Took(r, Turned(full, next), data, next < 0 \/ Len(data) >= sz)
       \/ /\ ~(len >= 0 /\ pos >= f.ent.size)
          /\ ~(len >= 0 /\ pos < f.ent.size /\ ClustIdx(pos) # ClustIdx(g.cur_pos))
          /\ v = Took(r, full, data, Len(data) >= sz)
  <2>1. g.ent.size = f.ent.size
    BY <1>4
  <2> QED BY <1>1, <1>10, <2>1, ZenonT(60) DEF IsPass
<1>16. len >= 0 /\ ~(len < 0) /\ len \in Nat
  BY <1>7
<1>11. /\ IsFile(full) /\ SameEnt(full, g) /\ full.cur_pos = pos /\ full.cur_clust = g.cur_clust
       /\ full.clustbuf = buf /\ full.buf_valid
  BY <1>3, <1>10, FileFields, FilledFacts
<1>12. \A c : LET t == Turned(full, c)
              IN IsFile(t) /\ SameEnt(t, g) /\ t.cur_pos = pos /\ t.cur_clust = c /\ ~t.buf_valid
  <2> SUFFICES ASSUME NEW c, NEW t, t = Turned(full, c)
               PROVE  IsFile(t) /\ SameEnt(t, g) /\ t.cur_pos = pos /\ t.cur_clust = c /\ ~t.buf_valid
    OBVIOUS
  <2> QED BY <1>11, FileFields, TurnedFacts DEF SameEnt
<1>13. CASE pos >= f.ent.size
  <2>1. PICK t : t = Turned(full, -1)
    OBVIOUS
  <2>2. v = Took(r, t, data, TRUE)
    <3>1. ~(pos < f.ent.size)
      BY <1>0, <1>8, <1>13
    <3> QED BY <1>13, <1>15, <1>16, <2>1, <3>1, Zenon
  <2>3. IsFile(t) /\ SameEnt(t, g) /\ t.cur_pos = pos /\ t.cur_clust = -1 /\ ~t.buf_valid
    BY <1>12, <2>1
  <2>5. At(d, g, pos, -1) /\ pos = f.ent.size
    BY <1>0, <1>4, <1>8, <1>13 DEF At
  <2>6. FileOk(d, t)
    BY <1>3, <1>4, <1>8, <2>3, <2>5, FileMoved
  <2>7. SameEnt(t, f)
    BY <1>3, <2>3 DEF SameEnt
  <2>8. HasRead(d, f, b, sz, k + 1, v, m)
    <3>1. IsTook(v, r, t, Bytes(b, f.cur_pos, m), TRUE)
      BY <1>9, <2>2, Zenon DEF IsTook
    <3>2. Reached(t, f, m) /\ t.cur_pos = f.ent.size
      BY <1>8, <2>3, <2>5 DEF Reached
    <3>3. EndsWell(TRUE, m, sz, k + 1, t, f)
      BY <3>2, Zenon DEF EndsWell
    <3> QED BY <1>3, <1>8, <2>3, <2>6, <2>7, <3>1, <3>2, <3>3, PassTook, ZenonT(30)
  <2> QED BY <2>8
<1>14. CASE pos < f.ent.size
  <2>0. len > 0 /\ m > k
    BY <1>0, <1>3, <1>4, <1>7, <1>8, <1>14
  <2>1. PICK i \in Nat : i = ClustIdx(g.cur_pos)
    BY <1>4, Positions
  <2>2. CASE ClustIdx(pos) # ClustIdx(g.cur_pos)
    <3>1. PICK t : t = Turned(full, next)
      OBVIOUS
    <3>2. PICK x \in BOOLEAN : x = (next < 0 \/ Len(data) >= sz)
      BY Zenon
    <3>3. v = Took(r, t, data, x)
      <4>1. ~(pos >= f.ent.size)
        BY <1>0, <1>8, <1>14
      <4> QED BY <1>14, <1>15, <1>16, <2>2, <3>1, <3>2, <4>1, Zenon
    <3>4. IsFile(t) /\ SameEnt(t, g) /\ t.cur_pos = pos /\ t.cur_clust = next /\ ~t.buf_valid
      BY <1>12, <3>1
    <3>6. ClustIdx(pos) = i + 1
      <4>1. len = ClusterBytes - offs \/ len < ClusterBytes - offs
        BY <1>0, <1>5, <1>7
      <4> QED BY <1>2, <1>4, <1>5, <1>7, <2>1, <2>2, <4>1, Positions
    <3>7. next = Follow(d, ClustIdx(pos), f.ent.first)
      <4>1. Follow(d, i + 1, f.ent.first) = Advance(d, Follow(d, i, f.ent.first))
        BY <2>1, FollowSteps
      <4>2. Advance(d, g.cur_clust) = next
        <5>1. ~(g.cur_clust < 0)
          BY <1>3, <1>4, <1>0, FirstFacts
        <5> QED BY <1>2, <5>1 DEF Advance
      <4> QED BY <1>4, <2>1, <3>6, <4>1, <4>2
    <3>8. next >= 0
      BY <1>8, <1>14, <3>7, FirstFacts
    <3>9. At(d, g, pos, next)
      BY <1>4, <3>7 DEF At
    <3>10. FileOk(d, t)
      BY <1>3, <1>4, <1>8, <3>4, <3>9, FileMoved
    <3>11. SameEnt(t, f)
      BY <1>3, <3>4 DEF SameEnt
    <3>12. (x => m = sz) /\ (~x => m < sz)
      <4>1. ~(next < 0)
        BY <1>4, <1>8, <3>7, <3>8, FirstFacts
      <4>2. (x => m >= sz) /\ (~x => ~(m >= sz))
        BY <1>9, <3>2, <4>1, Zenon
      <4> QED BY <1>8, <4>2
    <3>13. HasRead(d, f, b, sz, k + 1, v, m)
      <4>1. IsTook(v, r, t, Bytes(b, f.cur_pos, m), x)
        BY <1>9, <3>3, Zenon DEF IsTook
      <4>2. Reached(t, f, m) /\ m >= k + 1 /\ t.cur_clust >= 0
        BY <1>3, <1>8, <2>0, <3>4, <3>8 DEF Reached
      <4>3. EndsWell(x, m, sz, k + 1, t, f)
        BY <3>12, <4>2, Zenon DEF EndsWell
      <4> QED BY <1>3, <1>8, <3>4, <3>10, <3>11, <4>1, <4>2, <4>3, PassTook, ZenonT(30)
    <3> QED BY <3>13
  <2>3. CASE ClustIdx(pos) = ClustIdx(g.cur_pos)
    <3>2. PICK x : x = (Len(data) >= sz)
      BY Zenon
    <3>3. v = Took(r, full, data, x)
      <4>1. ~(pos >= f.ent.size)
        BY <1>0, <1>8, <1>14
      <4> QED BY <1>15, <1>16, <2>3, <3>2, <4>1, Zenon
    <3>9. At(d, g, pos, g.cur_clust)
      BY <1>4, <2>3 DEF At
    <3>10. FileOk(d, full)
      BY <1>3, <1>4, <1>8, <1>11, <3>9, FileMoved
    <3>11. SameEnt(full, f)
      BY <1>3, <1>11 DEF SameEnt
    <3>12. (x => m = sz) /\ (~x => m < sz)
      <4>1. (x => m >= sz) /\ (~x => ~(m >= sz))
        BY <1>9, <3>2, Zenon
      <4> QED BY <1>8, <4>1
    <3>13. HasRead(d, f, b, sz, k + 1, v, m)
      <4>1. IsTook(v, r, full, Bytes(b, f.cur_pos, m), x)
        BY <1>9, <3>3, Zenon DEF IsTook
      <4>2. Reached(full, f, m) /\ m >= k + 1 /\ full.cur_clust >= 0
        BY <1>3, <1>8, <2>0, <1>11 DEF Reached
      <4>3. EndsWell(x, m, sz, k + 1, full, f)
        BY <3>12, <4>2, Zenon DEF EndsWell
      <4> QED BY <1>3, <1>8, <1>11, <3>10, <3>11, <4>1, <4>2, <4>3, PassTook, ZenonT(30)
    <3> QED BY <3>13
  <2> QED BY <2>2, <2>3, Zenon
<1>17. pos >= f.ent.size \/ pos < f.ent.size
  BY <1>0, <1>8
<1> QED BY <1>13, <1>14, <1>17, Zenon

LEMMA FirstReads ==
    ASSUME WellFormed, NEW d \in Disks, NEW f, IsFile(f), FileOk(d, f), NEW b, NEW sz \in Nat
    PROVE  HasRead(d, f, b, sz, 0, First(f, sz), 0)
<1>0. /\ f.cur_pos \in Nat /\ f.ent.size \in Nat /\ f.cur_pos <= f.ent.size
      /\ f.cur_clust \in Int /\ At(d, f, f.cur_pos, f.cur_clust)
  BY FileIs, FirstFacts DEF WellFormed
<1>1. PICK x \in BOOLEAN : x = (f.cur_clust < 0 \/ sz = 0)
  BY Zenon
<1>2. PICK r : r = [file |-> f, data |-> << >>, done |-> x, overrun |-> FALSE]
  OBVIOUS
<1>3. First(f, sz) = r
  BY <1>1, <1>2, Zenon DEF First
<1>4. IsRead(r) /\ r.file = f /\ r.data = << >> /\ r.done = x /\ ~r.overrun
  BY <1>2 DEF IsRead
<1>5. << >> = Bytes(b, f.cur_pos, 0)
  BY DEF Bytes
<1>6. f.cur_clust < 0 => f.cur_pos = f.ent.size
  BY <1>0, FirstFacts DEF At
<1>7. (x => f.cur_clust < 0 \/ sz = 0) /\ (~x => ~(f.cur_clust < 0) /\ sz # 0)
  BY <1>1, Zenon
<1>8. (x => 0 = sz \/ f.cur_pos = f.ent.size) /\ (~x => 0 >= 0 /\ 0 < sz /\ f.cur_clust >= 0)
  BY <1>0, <1>6, <1>7
<1>9. 0 \in 0 .. sz /\ f.cur_pos = f.cur_pos + 0 /\ SameEnt(f, f)
  BY <1>0 DEF SameEnt
<1>10. HasRead(d, f, b, sz, 0, r, 0)
  BY <1>4, <1>5, <1>8, <1>9, Zenon DEF HasRead
<1> QED BY <1>3, <1>10

LEMMA LoopReads ==
    ASSUME WellFormed, NEW d \in Disks, d = disk, NEW f, IsFile(f), FileOk(d, f), NEW b,
           IsBytesOf(b, d, f), NEW sz \in Nat, NEW r, r = ReadLoop(f, sz, FALSE)
    PROVE  \E n : HasRead(d, f, b, sz, sz, r, n)
<1>1. PICK g : IsLoop(g, f, sz, FALSE, sz) /\ r = g[sz]
  BY LoopRuns, Zenon
<1> DEFINE P(k) == \E n : HasRead(d, f, b, sz, k, g[k], n)
           S == {k \in 0 .. sz : P(k)}
<1>2. 0 \in S
  <2>1. g[0] = First(f, sz)
    BY <1>1 DEF IsLoop
  <2>2. HasRead(d, f, b, sz, 0, g[0], 0)
    BY <2>1, FirstReads
  <2> QED BY <2>2
<1>3. ASSUME NEW k \in 1 .. sz, k - 1 \in S PROVE k \in S
  <2>1. PICK j \in Nat : j = k - 1 /\ k = j + 1
    OBVIOUS
  <2>2. PICK q, v, n : q = g[j] /\ v = g[k] /\ v = Pass(q, sz, FALSE) /\ HasRead(d, f, b, sz, j, q, n)
    BY <1>1, <1>3, <2>1 DEF IsLoop
  <2>3. \E m : HasRead(d, f, b, sz, j + 1, v, m)
    <3>1. CASE q.done
      <4>1. v = q
        BY <2>2, <3>1 DEF Pass
      <4> QED BY <2>2, <3>1, <4>1, Zenon DEF HasRead
    <3>2. CASE ~q.done
      <4>1. v = ReadPass(q, sz, FALSE)
        BY <2>2, <3>2 DEF Pass
      <4> QED BY <2>2, <3>2, <4>1, PassReads
    <3> QED BY <3>1, <3>2
  <2>4. P(k)
    BY <2>1, <2>2, <2>3
  <2> HIDE DEF P
  <2> QED BY <2>4
<1>4. \A k \in 0 .. sz : k \in S
  <2> HIDE DEF S
  <2> QED BY <1>2, <1>3, UpTo
<1>5. P(sz)
  <2> HIDE DEF P
  <2> QED BY <1>4
<1> QED BY <1>1, <1>5

\* a read returns the bytes the file's definition gives
LEMMA ReadOk ==
    ASSUME WellFormed, NEW d \in Disks, d = disk, NEW f, IsFile(f), FileOk(d, f),
           NEW sz \in Nat, NEW r, r = ReadLoop(f, sz, FALSE)
    PROVE  FileOk(d, r.file) /\ ~r.overrun /\ r.data = BytesOf(f.of, f.cur_pos, sz)
<1>1. PICK b : IsBytesOf(b, d, f)
  BY DEF IsBytesOf
<1>2. PICK n : HasRead(d, f, b, sz, sz, r, n)
  BY <1>1, LoopReads
<1>3. /\ FileOk(d, r.file) /\ ~r.overrun /\ r.data = Bytes(b, f.cur_pos, n) /\ SameEnt(r.file, f)
      /\ n \in 0 .. sz /\ r.file.cur_pos = f.cur_pos + n
      /\ n = sz \/ r.file.cur_pos = f.ent.size
  <2>1. n \in 0 .. sz /\ (~r.done => n >= sz /\ n < sz)
    BY <1>2, Zenon DEF HasRead
  <2>2. ~(n >= sz /\ n < sz)
    BY <2>1
  <2> QED BY <1>2, <2>1, <2>2, Zenon DEF HasRead
<1>4. /\ f.cur_pos \in Nat /\ f.ent.size \in Nat /\ f.cur_pos + n <= f.ent.size
      /\ f.ent.size = f.of.size /\ (f.ent.size > 0 => f.ent.first = f.of.first)
  <2>1. r.file.cur_pos <= r.file.ent.size /\ r.file.ent.size = f.ent.size
    BY <1>3, FileIs DEF SameEnt
  <2> QED BY <1>3, <2>1, FileIs DEF Whole
<1>5. n = Lesser(sz, f.of.size - f.cur_pos)
  <2>1. PICK p \in Nat, e \in Nat : p = f.cur_pos /\ e = f.ent.size
    BY <1>4
  <2>2. n = sz \/ p + n = e
    BY <1>3, <2>1
  <2>3. n \in Nat /\ n <= sz /\ p + n <= e
    BY <1>3, <1>4, <2>1
  <2>4. n = Lesser(sz, e - p)
    BY <2>2, <2>3 DEF Lesser
  <2> QED BY <1>4, <2>1, <2>4
<1>6. ASSUME NEW i \in 1 .. n
      PROVE  b[f.cur_pos + i - 1] = <<ClusterOf(f.of, ClustIdx(f.cur_pos + i - 1)), (f.cur_pos + i - 1) % ClusterBytes>>
  <2>1. PICK p \in Nat : p = f.cur_pos + i - 1 /\ p < f.ent.size /\ p \in 0 .. f.ent.size
    BY <1>3, <1>4
  <2>2. Follow(d, ClustIdx(p), f.of.first) >= 0 /\ f.of.first \in Clusters(d) /\ f.ent.first = f.of.first
    <3>1. f.ent.first = f.of.first
      BY <1>4, <2>1
    <3> QED BY <2>1, <3>1, FirstFacts
  <2>3. ClusterOf(f.of, ClustIdx(p)) = Follow(d, ClustIdx(p), f.of.first)
    <3>0. PICK k \in Nat : k = ClustIdx(p)
      BY Positions
    <3>1. PICK ent : ent = f.of /\ k = ClustIdx(p)
      BY <3>0
    <3>2. ClusterOf(ent, k) = Follow(d, k, ent.first)
      BY <2>2, <3>1, ClusterIs
    <3> QED BY <3>1, <3>2
  <2>4. b[p] = <<Follow(d, ClustIdx(p), f.ent.first), p % ClusterBytes>>
    BY <1>1 DEF IsBytesOf, FileBytes
  <2> QED BY <2>1, <2>2, <2>3, <2>4
<1>7. Bytes(b, f.cur_pos, n) = BytesOf(f.of, f.cur_pos, sz)
  BY <1>5, <1>6, Zenon DEF Bytes, BytesOf
<1> QED BY <1>3, <1>7

-----------------------------------------------------------------------------
(***************************************************************************)
(* Opening: what a walk finds is on the disk.                              *)
(***************************************************************************)
\* a pass of open's loop stays, fails, or goes on to the entry it finds
Enters(d, v, w, name) ==
    \E found, loads : /\ found = FoundOn(d, w.dirs[w.dir].at, name) /\ found # << >> /\ loads \in BOOLEAN
                      /\ found[1].first # 0 \/ found[1].kind = "dir"
                      /\ loads => found[1].first # 0 /\ found[1].kind = "dir"
                      /\ v = Enter(w, found[1], loads)
LEMMA StepKinds ==
    ASSUME NEW w, IsWalk(w), NEW name, NEW k, NEW bad, NEW v, IsStep(v, w, name, k, bad), NEW d, d = disk
    PROVE  \/ v.dirs = w.dirs /\ v.dir = w.dir /\ v.failed
           \/ v = w /\ (w.failed \/ w.dir # NoDir)
           \/ w.dir # NoDir /\ name # <<".">> /\ Enters(d, v, w, name)
<1>0. \A at : find_entry(at, name) = FoundOn(d, at, name)
  BY DEF find_entry, FoundOn, EntriesOf
<1>1. PICK u : u = [w EXCEPT !.failed = TRUE]
  OBVIOUS
<1>2. u.dirs = w.dirs /\ u.dir = w.dir /\ u.failed
  BY <1>1 DEF IsWalk
<1>3. CASE ~w.failed /\ w.dir # NoDir /\ name # <<".">>
  <2>1. PICK found : found = FoundOn(d, w.dirs[w.dir].at, name)
    OBVIOUS
  <2>2. v = Select(w, found, k # bad)
    BY <1>0, <1>3, <2>1 DEF IsStep, Step
  <2>3. PICK loads \in BOOLEAN : loads = (found[1].first # 0 /\ found[1].kind = "dir" /\ k # bad)
    BY Zenon
  <2>4. \/ v = u
        \/ /\ found # << >> /\ ~(found[1].first = 0 /\ ~IsRootEnt(found[1]))
           /\ v = Enter(w, found[1], loads)
    BY <1>1, <2>2, <2>3 DEF Select
  <2>5. CASE v = u
    BY <1>2, <2>5
  <2>6. CASE /\ found # << >> /\ ~(found[1].first = 0 /\ ~IsRootEnt(found[1]))
             /\ v = Enter(w, found[1], loads)
    <3>1. found[1].first # 0 \/ found[1].kind = "dir"
      BY <2>6 DEF IsRootEnt
    <3>2. loads => found[1].first # 0 /\ found[1].kind = "dir"
      BY <2>3, Zenon
    <3>3. Enters(d, v, w, name)
      BY <2>1, <2>6, <3>1, <3>2, Zenon DEF Enters
    <3> QED BY <1>3, <3>3
  <2> QED BY <2>4, <2>5, <2>6
<1>4. CASE ~(~w.failed /\ w.dir # NoDir /\ name # <<".">>)
  <2>1. v = u \/ (v = w /\ (w.failed \/ w.dir # NoDir))
    BY <1>1, <1>4 DEF IsStep, Step
  <2> QED BY <1>2, <2>1
<1> QED BY <1>3, <1>4

\* What is known of a walk after k names: its directory is one of the disk's, and one it
\* has loaded itself if a name was not "."; a file it has found is in a directory of the
\* disk, which has been freed only if another name led there.
Beyond(names, k) == \E j \in 1 .. k : names[j] # <<".">>
Finds(d, w, names, k) ==
    \E at \in DirStarts(d) :
        /\ FoundOn(d, at, names[k]) # << >> /\ w.ent = FoundOn(d, at, names[k])[1]
        /\ names[k] \in Names /\ w.ent.first # 0 /\ (w.freed => Beyond(names, k - 1))
OnDisk(d, w, names, k) ==
    /\ WalkInv(w) /\ (w.dir # NoDir => w.dirs[w.dir].at \in DirStarts(d))
    /\ w.dir \notin {NoDir, Root, cwd} => Beyond(names, k)
    /\ ~w.failed /\ w.dir = NoDir => Finds(d, w, names, k)

LEMMA StepOnDisk ==
    ASSUME WellFormed, DirsInv, Room, dirs[Root].at = 0, NEW d \in Disks, d = disk, NEW names, NEW k \in Nat, k > 0,
           names[k] \in Names, NEW w, OnDisk(d, w, names, k - 1), NEW bad, NEW v, IsStep(v, w, names[k], k, bad)
    PROVE  OnDisk(d, v, names, k)
<1>0. WalkInv(w) /\ IsWalk(w) /\ (w.dir # NoDir => w.dirs[w.dir].at \in DirStarts(d))
  BY DEF OnDisk, WalkInv
<1>1. WalkInv(v)
  BY <1>0, StepFacts
<1>2. Beyond(names, k - 1) => Beyond(names, k)
  <2>1. \A j \in 1 .. k - 1 : j \in 1 .. k
    OBVIOUS
  <2> QED BY <2>1, Zenon DEF Beyond
<1>3. CASE v.dirs = w.dirs /\ v.dir = w.dir /\ v.failed
  BY <1>0, <1>1, <1>2, <1>3 DEF OnDisk
<1>4. CASE v = w /\ (w.failed \/ w.dir # NoDir)
  BY <1>0, <1>1, <1>2, <1>4 DEF OnDisk
<1>5. CASE w.dir # NoDir /\ names[k] # <<".">> /\ Enters(d, v, w, names[k])
  <2>1. PICK at : at = w.dirs[w.dir].at /\ at \in DirStarts(d)
    BY <1>0, <1>5
  <2>2. PICK found, loads :
          /\ found = FoundOn(d, at, names[k]) /\ found # << >> /\ loads \in BOOLEAN
          /\ found[1].first # 0 \/ found[1].kind = "dir"
          /\ loads => found[1].first # 0 /\ found[1].kind = "dir"
          /\ v = Enter(w, found[1], loads)
    BY <1>5, <2>1, Zenon DEF Enters
  <2>3. PICK ent : ent = found[1] /\ v = Enter(w, ent, loads) /\ SoundEntry(d, ent)
    BY <2>1, <2>2 DEF WellFormed
  <2>4. v.dir # cwd /\ ~v.failed /\ (v.dir # NoDir => v.dirs[v.dir].at = ent.first)
    BY <1>0, <1>5, <2>2, <2>3, EnterFacts
  <2>5. /\ v.dir = IF loads THEN New(w.dirs) ELSE IF IsRootEnt(ent) THEN Root ELSE NoDir
        /\ v.ent = ent /\ v.freed = (w.dir \notin {Root, cwd})
    BY <2>3 DEF Enter
  <2>6. v.dir # NoDir => v.dirs[v.dir].at \in DirStarts(d)
    BY <2>2, <2>3, <2>4, <2>5 DEF SoundEntry, IsRootEnt
  <2>7. Beyond(names, k)
    <3>1. k \in 1 .. k
      OBVIOUS
    <3> QED BY <1>5, <3>1, Zenon DEF Beyond
  <2>8. v.dir = NoDir => Finds(d, v, names, k)
    <3>1. SUFFICES ASSUME v.dir = NoDir PROVE Finds(d, v, names, k)
      OBVIOUS
    <3>2. ~loads
      <4>1. SUFFICES ASSUME loads PROVE FALSE
        OBVIOUS
      <4>2. w.dir # NoDir /\ v.dir # NoDir
        <5>1. Loaded(v.dirs, v.dir) \/ v.dir = New(w.dirs)
          BY <2>5, <4>1
        <5>2. v.dir \in 1 .. MaxDirs
          <6>1. w.dirs = dirs \/ \E e, r : w.dirs = With(dirs, e, r)
            BY <1>0 DEF WalkInv, Loaded
          <6>2. Free(w.dirs) # {}
            BY <6>1, RoomFacts
          <6>3. New(w.dirs) \in Free(w.dirs)
            BY <6>2, NewFacts
          <6> QED BY <2>5, <4>1, <6>3 DEF Free
        <5> QED BY <1>5, <5>2 DEF NoDir
      <4> QED BY <3>1, <4>2
    <3>3. ent.first # 0
      BY <2>2, <2>3, <2>5, <3>1, <3>2 DEF IsRootEnt, NoDir, Root
    <3>4. v.freed => Beyond(names, k - 1)
      BY <1>5, <2>5 DEF OnDisk
    <3> QED BY <2>1, <2>2, <2>3, <2>5, <3>3, <3>4 DEF Finds
  <2> QED BY <1>1, <2>4, <2>6, <2>7, <2>8 DEF OnDisk
<1> QED BY <1>0, <1>3, <1>4, <1>5, StepKinds

LEMMA WalkOnDisk ==
    ASSUME WellFormed, DirsInv, Room, dirs[Root].at = 0, NEW d \in Disks, d = disk, Kept(d, dirs),
           NEW path, path.names \in Seq(Names), NEW bad, NEW n \in Nat, n = Len(path.names),
           NEW w, w = Walk(path, bad)
    PROVE  OnDisk(d, w, path.names, n)
<1>1. PICK g : IsRun(g, path, bad, n) /\ w = g[n]
  BY WalkRuns
<1> DEFINE S == {k \in 0 .. n : OnDisk(d, g[k], path.names, k)}
<1>2. 0 \in S
  <2>1. g[0] = Start(path)
    BY <1>1 DEF IsRun
  <2>2. /\ Start(path).dirs = dirs /\ IsWalk(Start(path))
        /\ Start(path).dir = IF path.abs THEN Root ELSE cwd
    BY DEF Start, IsWalk
  <2>3. WalkInv(Start(path))
    BY <2>2 DEF WalkInv
  <2>4. Root \in DOMAIN dirs /\ cwd \in DOMAIN dirs /\ NoDir \notin DOMAIN dirs
    BY FatAssumption DEF DirsInv, IsDirs, NoDir
  <2>5. dirs[Root].at \in DirStarts(d) /\ dirs[cwd].at \in DirStarts(d)
    BY <2>4 DEF Kept, AtOk
  <2>6. OnDisk(d, g[0], path.names, 0)
    BY <2>1, <2>2, <2>3, <2>4, <2>5 DEF OnDisk
  <2> QED BY <2>6
<1>3. ASSUME NEW k \in 1 .. n, k - 1 \in S PROVE k \in S
  <2>2. PICK names, u, v :
          names = path.names /\ u = g[k - 1] /\ v = g[k] /\ IsStep(v, u, names[k], k, bad)
    BY <1>1 DEF IsRun, IsStep
  <2>3. names[k] \in Names /\ OnDisk(d, u, names, k - 1) /\ k \in Nat /\ k > 0
    BY <1>3, <2>2
  <2>4. OnDisk(d, v, names, k)
    BY <2>2, <2>3, StepOnDisk
  <2> QED BY <2>2, <2>4
<1>4. \A k \in 0 .. n : k \in S
  <2> HIDE DEF S
  <2> QED BY <1>2, <1>3, UpTo
<1> QED BY <1>1, <1>4

LEMMA KeptWith ==
    ASSUME NEW d, NEW ds, NEW es, NEW x, NEW r, IsWith(es, ds, x, r), Kept(d, ds), AtOk(d, r)
    PROVE  Kept(d, es)
  BY DEF IsWith, Kept

LEMMA KeptFreed ==
    ASSUME NEW d, NEW ds, NEW es, NEW x, IsFreed(es, ds, x), Kept(d, ds)
    PROVE  Kept(d, es)
<1> SUFFICES ASSUME NEW e \in DOMAIN es PROVE AtOk(d, es[e])
  BY DEF Kept
<1>1. e \in DOMAIN ds /\ AtOk(d, ds[e])
  BY DEF IsFreed, Kept
<1>2. CASE e # x
  BY <1>1, <1>2 DEF IsFreed
<1>3. CASE e = x
  BY <1>1, <1>3 DEF IsFreed, AtOk
<1> QED BY <1>2, <1>3

LEMMA NewOk ==
    ASSUME WellFormed, NEW d \in Disks, NEW r, r.at \in DirStarts(d), r.cur_ent = 0
    PROVE  AtOk(d, r)
<1>1. Len(Listings[d][r.at]) \in Nat
  BY DEF WellFormed
<1> QED BY <1>1 DEF AtOk

\* what a walk and its directory leave in memory
LEMMA KeptWalk ==
    ASSUME WellFormed, DirsInv, NEW d \in Disks, Kept(d, dirs), NEW names, NEW k, NEW w, OnDisk(d, w, names, k)
    PROVE  Kept(d, w.dirs)
<1>1. WalkInv(w) /\ (w.dir # NoDir => w.dirs[w.dir].at \in DirStarts(d))
  BY DEF OnDisk
<1>2. CASE w.dirs = dirs
  BY <1>2
<1>3. CASE Loaded(w.dirs, w.dir)
  <2>1. PICK x, r : /\ x = w.dir /\ x \in Free(dirs) /\ IsDir(r) /\ r.cur_ent = 0
                    /\ w.dirs = With(dirs, x, r)
    BY <1>3 DEF Loaded
  <2>2. x \in 0 .. MaxDirs /\ x # NoDir /\ IsDirs(dirs)
    BY <2>1, FatAssumption DEF Free, NoDir, DirsInv
  <2>3. IsWith(w.dirs, dirs, x, r)
    BY <2>1, <2>2, WithFacts
  <2>4. r.at \in DirStarts(d)
    BY <1>1, <2>1, <2>2, <2>3 DEF IsWith
  <2>5. AtOk(d, r)
    BY <2>1, <2>4, NewOk
  <2> QED BY <2>3, <2>5, KeptWith
<1> QED BY <1>1, <1>2, <1>3 DEF WalkInv

LEMMA KeptGot ==
    ASSUME WellFormed, DirsInv, NEW d \in Disks, Kept(d, dirs), NEW names, NEW k, NEW w, OnDisk(d, w, names, k),
           w.dir # NoDir, NEW ds, NEW x, NEW r, IsGot(ds, x, r), <<r.at>> = Dest(w)
    PROVE  Kept(d, ds) /\ IsDirs(ds) /\ DOMAIN dirs \subseteq DOMAIN ds
<1>1. r.at \in DirStarts(d)
  <2>1. r.at = w.dirs[w.dir].at
    BY DEF Dest
  <2> QED BY <2>1 DEF OnDisk
<1>2. AtOk(d, r)
  BY <1>1, NewOk DEF IsGot
<1>3. IsDirs(dirs) /\ IsDir(r) /\ ds = With(dirs, x, r) /\ x \in 0 .. MaxDirs
  BY FatAssumption DEF IsGot, DirsInv
<1>4. IsWith(ds, dirs, x, r)
  BY <1>3, WithFacts
<1> QED BY <1>2, <1>4, KeptWith DEF IsWith

AllFiles(d, ns) == \A h \in Handles : ns[h].type = "file" => FileOk(d, ns[h])
Causes == {"no", "no memory", "overrun", "path too long", "name too long"}
LEMMA DiskIs ==
    DiskInv <=> /\ disk \in Disks /\ Kept(disk, dirs) /\ AllFiles(disk, nodes)
                /\ exact = TRUE /\ seen \in [Handles -> Nat] /\ stopped \in Causes
  BY DEF DiskInv, AllFiles, Files, Causes
LEMMA DiskStep ==
    ASSUME DiskInv, disk' = disk, Kept(disk, dirs'), AllFiles(disk, nodes'),
           exact' = TRUE, seen' \in [Handles -> Nat], stopped' \in Causes
    PROVE  DiskInv'
<1>1. \A h \in Handles : nodes'[h].type = "file" => FileOk(disk', nodes'[h])
  BY DEF AllFiles
<1>2. Kept(disk', dirs') /\ disk' \in Disks
  BY DEF DiskInv
<1> QED BY <1>1, <1>2 DEF DiskInv, Files, Causes

LEMMA NodeFiles ==
    ASSUME IInv, NEW d, AllFiles(d, nodes), NEW h \in Handles, NEW n, IsNode(n),
           nodes' = [nodes EXCEPT ![h] = n], n.type = "file" => FileOk(d, n)
    PROVE  AllFiles(d, nodes')
<1>1. SetNode(h, n)
  BY NodeSet DEF IInv
<1>2. ASSUME NEW g \in Handles, nodes'[g].type = "file" PROVE FileOk(d, nodes'[g])
  <2>1. CASE g = h
    BY <1>1, <1>2, <2>1 DEF SetNode
  <2>2. CASE g # h
    BY <1>1, <1>2, <2>2 DEF SetNode, AllFiles
  <2> QED BY <2>1, <2>2
<1> QED BY <1>2 DEF AllFiles

\* the file opened: its entry, or zeros for one that was empty
LEMMA NewFileOk ==
    ASSUME WellFormed, Direct, NEW d \in Disks, NEW path \in Paths, NEW w,
           Finds(d, w, path.names, Len(path.names)), NEW ent \in CopiesOf(w), NEW f, f = init_file(ent, w.ent)
    PROVE  FileOk(d, f) /\ IsNode(f)
<1>1. PICK n, name : n = Len(path.names) /\ name = path.names[n]
  OBVIOUS
<1>2. PICK at \in DirStarts(d) :
        /\ FoundOn(d, at, name) # << >> /\ w.ent = FoundOn(d, at, name)[1]
        /\ name \in Names /\ w.ent.first # 0 /\ (w.freed => Beyond(path.names, n - 1))
  BY <1>1 DEF Finds
<1>3. ClustIdx(0) = 0
  <2>1. \A c \in Nat \ {0} : 0 \div c = 0
    OBVIOUS
  <2> QED BY <2>1, FatAssumption DEF ClustIdx
<1>4. /\ f.ent = ent /\ f.of = w.ent /\ f.cur_pos = 0 /\ f.cur_clust = ent.first /\ ~f.buf_valid
      /\ f.type = "file" /\ IsFile(f)
  BY DEF init_file, IsFile
<1>5. Follow(d, ClustIdx(0), ent.first) = ent.first
  BY <1>3, FollowSteps
<1>6. SoundEntry(d, w.ent)
  BY <1>2 DEF WellFormed
<1>7. Chained(d, w.ent)
  BY <1>2, <1>6 DEF SoundEntry
<1>8. CASE ent = w.ent
  <2>1. Whole(d, f)
    BY <1>4, <1>7, <1>8 DEF Whole, Chained
  <2>2. 0 <= ent.size /\ At(d, f, 0, ent.first)
    BY <1>4, <1>5, <1>7, <1>8 DEF At, Chained
  <2> QED BY <1>4, <2>1, <2>2, FileIs DEF IsNode
<1>9. CASE ent # w.ent
  <2>1. ent = Zeroed(w.ent) /\ w.freed
    BY <1>9 DEF CopiesOf
  <2>2. w.ent.kind = "dir"
    <3>1. \E k \in 1 .. Len(path.names) - 1 : path.names[k] # <<".">>
      BY <1>1, <1>2, <2>1 DEF Beyond
    <3>2. FoundOn(d, at, path.names[Len(path.names)])[1].kind = "dir"
      BY <1>1, <1>2, <3>1, Zenon DEF Direct
    <3> QED BY <1>1, <1>2, <3>2
  <2>3. w.ent.size = 0
    BY <1>6, <2>2 DEF SoundEntry
  <2>4. ent.first = 0 /\ ent.size = 0
    BY <1>6, <2>1 DEF SoundEntry, Zeroed
  <2>5. Whole(d, f)
    BY <1>4, <2>3, <2>4 DEF Whole
  <2>6. At(d, f, 0, ent.first)
    BY <1>4, <1>5 DEF At
  <2> QED BY <1>4, <2>4, <2>5, <2>6, FileIs DEF IsNode
<1> QED BY <1>8, <1>9

-----------------------------------------------------------------------------
(***************************************************************************)
(* The actions.                                                            *)
(***************************************************************************)
LEMMA OpenDisk ==
    ASSUME WellFormed, Direct, IInv, CwdInv, DiskInv, NEW h \in Handles, NEW path \in Paths, open(h, path)
    PROVE  DiskInv'
<1>0. /\ DirsInv /\ dirs[Root].at = 0 /\ disk \in Disks /\ Kept(disk, dirs) /\ AllFiles(disk, nodes)
      /\ exact = TRUE /\ seen \in [Handles -> Nat] /\ stopped \in Causes
  BY DiskIs DEF IInv, CwdInv
<1>1. /\ Room /\ disk' = disk /\ exact' = exact /\ stopped' = stopped /\ path.names \in Seq(Names)
  BY FatAssumption DEF open
<1>2. PICK bad \in BadReads(path) :
        \E w : /\ w = Walk(path, bad)
               /\ \/ w.failed /\ dirs' = w.dirs /\ UNCHANGED <<nodes, seen>>
                  \/ /\ ~w.failed /\ w.dir # NoDir /\ dirs' = DirOf(w).dirs
                     /\ nodes' = [nodes EXCEPT ![h] = [type |-> "dir", dir |-> DirOf(w).dir]]
                     /\ seen' = [seen EXCEPT ![h] = 0]
                  \/ /\ ~w.failed /\ w.dir = NoDir /\ dirs' = w.dirs
                     /\ \E ent \in CopiesOf(w) : nodes' = [nodes EXCEPT ![h] = init_file(ent, w.ent)]
                     /\ UNCHANGED seen
  BY Zenon DEF open
<1>3. PICK w : /\ w = Walk(path, bad)
               /\ \/ w.failed /\ dirs' = w.dirs /\ UNCHANGED <<nodes, seen>>
                  \/ /\ ~w.failed /\ w.dir # NoDir /\ dirs' = DirOf(w).dirs
                     /\ nodes' = [nodes EXCEPT ![h] = [type |-> "dir", dir |-> DirOf(w).dir]]
                     /\ seen' = [seen EXCEPT ![h] = 0]
                  \/ /\ ~w.failed /\ w.dir = NoDir /\ dirs' = w.dirs
                     /\ \E ent \in CopiesOf(w) : nodes' = [nodes EXCEPT ![h] = init_file(ent, w.ent)]
                     /\ UNCHANGED seen
  BY <1>2
<1>10. PICK d \in Disks : d = disk
  BY <1>0
<1>4. PICK names : d = disk /\ names = path.names
  BY <1>0, <1>10
<1>5. OnDisk(d, w, names, Len(names))
  <2>1. PICK n \in Nat : n = Len(path.names)
    BY <1>1
  <2> QED BY <1>0, <1>1, <1>3, <1>4, <2>1, WalkOnDisk
<1>6. Kept(d, w.dirs)
  BY <1>0, <1>4, <1>5, KeptWalk
<1>7. CASE w.failed /\ dirs' = w.dirs /\ UNCHANGED <<nodes, seen>>
  BY <1>0, <1>1, <1>4, <1>6, <1>7, DiskStep
<1>8. CASE /\ ~w.failed /\ w.dir # NoDir /\ dirs' = DirOf(w).dirs
           /\ nodes' = [nodes EXCEPT ![h] = [type |-> "dir", dir |-> DirOf(w).dir]]
           /\ seen' = [seen EXCEPT ![h] = 0]
  <2>1. PICK r : IsGot(dirs', DirOf(w).dir, r) /\ <<r.at>> = Dest(w)
    BY <1>0, <1>1, <1>5, <1>8, GotDir DEF OnDisk
  <2>2. Kept(d, dirs')
    BY <1>0, <1>4, <1>5, <1>8, <2>1, KeptGot
  <2>3. PICK n : n = [type |-> "dir", dir |-> DirOf(w).dir] /\ IsNode(n) /\ n.type = "dir"
    <3>1. PICK x, n : x = DirOf(w).dir /\ n = [type |-> "dir", dir |-> x]
      OBVIOUS
    <3>2. IsNode(n) /\ n.type = "dir"
      BY <3>1 DEF IsNode
    <3> QED BY <3>1, <3>2
  <2>4. AllFiles(disk, nodes')
    BY <1>0, <1>8, <2>3, NodeFiles
  <2>5. seen' \in [Handles -> Nat]
    BY <1>0, <1>8
  <2> QED BY <1>0, <1>1, <1>4, <2>2, <2>4, <2>5, DiskStep
<1>9. CASE /\ ~w.failed /\ w.dir = NoDir /\ dirs' = w.dirs
           /\ \E ent \in CopiesOf(w) : nodes' = [nodes EXCEPT ![h] = init_file(ent, w.ent)]
           /\ UNCHANGED seen
  <2>1. Finds(d, w, path.names, Len(path.names))
    BY <1>4, <1>5, <1>9 DEF OnDisk
  <2>2. PICK ent \in CopiesOf(w) : nodes' = [nodes EXCEPT ![h] = init_file(ent, w.ent)]
    BY <1>9
  <2>3. PICK f : f = init_file(ent, w.ent)
    OBVIOUS
  <2>4. FileOk(d, f) /\ IsNode(f)
    BY <2>1, <2>3, NewFileOk
  <2>5. AllFiles(disk, nodes')
    BY <1>0, <1>4, <2>2, <2>3, <2>4, NodeFiles
  <2> QED BY <1>0, <1>1, <1>4, <1>6, <1>9, <2>5, DiskStep
<1> QED BY <1>3, <1>7, <1>8, <1>9

LEMMA CloseDisk ==
    ASSUME IInv, DiskInv, NEW h \in Handles, close(h)
    PROVE  DiskInv'
<1>0. /\ disk \in Disks /\ Kept(disk, dirs) /\ AllFiles(disk, nodes)
      /\ exact = TRUE /\ seen \in [Handles -> Nat] /\ stopped \in Causes
  BY DiskIs
<1>1. /\ UNCHANGED <<disk, exact, stopped>> /\ seen' = [seen EXCEPT ![h] = 0]
      /\ nodes' = [nodes EXCEPT ![h] = NoNode]
      /\ dirs' = IF nodes[h].type = "dir" THEN free_dir(dirs, nodes[h].dir) ELSE dirs
  BY DEF close
<1>2. Kept(disk, dirs')
  <2>1. CASE nodes[h].type = "dir"
    <3>1. nodes[h].dir \in DOMAIN dirs /\ IsDirs(dirs)
      BY <2>1 DEF IInv, NodesInv, DirsInv, OpenDirs
    <3>2. IsFreed(dirs', dirs, nodes[h].dir)
      BY <1>1, <2>1, <3>1, FreeFacts
    <3> QED BY <1>0, <3>2, KeptFreed
  <2>2. CASE nodes[h].type # "dir"
    BY <1>0, <1>1, <2>2
  <2> QED BY <2>1, <2>2
<1>3. AllFiles(disk, nodes')
  <2>1. IsNode(NoNode) /\ NoNode.type # "file"
    BY DEF IsNode, NoNode
  <2> QED BY <1>0, <1>1, <2>1, NodeFiles
<1>4. seen' \in [Handles -> Nat]
  BY <1>0, <1>1
<1> QED BY <1>0, <1>1, <1>2, <1>3, <1>4, DiskStep

LEMMA PlacingDisk ==
    ASSUME WellFormed, IInv, DiskInv, NEW h \in Handles, readdir(h) \/ rewinddir(h)
    PROVE  DiskInv'
<1>0. /\ disk \in Disks /\ Kept(disk, dirs) /\ AllFiles(disk, nodes)
      /\ exact = TRUE /\ seen \in [Handles -> Nat] /\ stopped \in Causes
  BY DiskIs
<1>1. PICK x, c : Placing(h, x, c) /\ x \in DOMAIN dirs /\ c \in Nat
  BY PlacingCases
<1>2. UNCHANGED <<disk, exact, stopped, nodes>>
  BY DEF readdir, rewinddir
<1>3. seen' \in [Handles -> Nat]
  <2>1. PICK k \in Nat : seen' = [seen EXCEPT ![h] = k]
    <3>1. seen[h] + 1 \in Nat
      BY <1>0
    <3> QED BY <3>1 DEF readdir, rewinddir
  <2> QED BY <1>0, <2>1
<1>4. Len(Listings[disk][dirs[x].at]) \in Nat /\ dirs[x].at \in DirStarts(disk)
  BY <1>0, <1>1 DEF Kept, AtOk, WellFormed
<1>5. c <= Len(Listings[disk][dirs[x].at])
  <2>1. CASE c = 0
    BY <1>4, <2>1
  <2>2. CASE c # 0
    <3>1. x = nodes[h].dir /\ c = dirs[x].cur_ent + 1 /\ dirs' = Place(dirs, x, c)
      BY <1>1, <2>2 DEF Placing
    <3>2. dirs'[x].cur_ent = c
      BY <1>1, <3>1, Placed
    <3>3. readdir(h)
      <4>1. SUFFICES ASSUME rewinddir(h) PROVE FALSE
        OBVIOUS
      <4>2. dirs' = Place(dirs, x, 0)
        BY <3>1, <4>1 DEF rewinddir, Place
      <4>3. dirs'[x].cur_ent = 0
        BY <1>1, <4>2, Placed
      <4> QED BY <2>2, <3>2, <4>3
    <3>4. dirs[x].cur_ent < Len(Listings[disk][dirs[x].at])
      BY <3>1, <3>3 DEF readdir, EntriesOf
    <3>5. dirs[x].cur_ent \in Nat
      BY <1>0, <1>1 DEF Kept, AtOk
    <3> QED BY <1>4, <3>1, <3>4, <3>5
  <2> QED BY <2>1, <2>2
<1>6. Kept(disk, dirs')
  <2>1. /\ DOMAIN dirs' = DOMAIN dirs /\ dirs'[x].cur_ent = c /\ dirs'[x].at = dirs[x].at
        /\ \A e \in DOMAIN dirs : e # x => dirs'[e] = dirs[e]
    BY <1>1, Placed DEF Placing
  <2>2. AtOk(disk, dirs'[x])
    BY <1>4, <1>5, <2>1, <1>1 DEF AtOk
  <2> QED BY <1>0, <2>1, <2>2 DEF Kept
<1> QED BY <1>0, <1>2, <1>3, <1>6, DiskStep

LEMMA SeekDisk ==
    ASSUME WellFormed, Seeks = "safe", IInv, DiskInv, NEW h \in Handles, NEW offs \in Offsets,
           NEW whence \in {"set", "cur", "end"}, seek(h, offs, whence)
    PROVE  DiskInv'
<1>0. /\ disk \in Disks /\ Kept(disk, dirs) /\ AllFiles(disk, nodes)
      /\ exact = TRUE /\ seen \in [Handles -> Nat] /\ stopped \in Causes
  BY DiskIs
<1>1. nodes[h].type = "file" /\ UNCHANGED <<disk, dirs, exact, seen, stopped>>
  BY DEF seek
<1>10. PICK d \in Disks : d = disk
  BY <1>0
<1>2. PICK f : d = disk /\ f = nodes[h] /\ IsFile(f) /\ FileOk(d, f)
  BY <1>0, <1>10, <1>1 DEF AllFiles, IInv, NodesInv, IsNode, NoNode
<1>3. PICK pos : /\ pos = NewPos(f, offs, whence) /\ SafeSeek(f, pos)
                 /\ \E g \in SeekTo(f, pos) : nodes' = [nodes EXCEPT ![h] = g]
  BY <1>2 DEF seek
<1>4. pos \in Nat
  <2>1. f.cur_pos \in Nat /\ f.ent.size \in Nat /\ offs \in Int
    BY <1>2, FirstFacts, FileIs, FatAssumption
  <2>2. PICK p : p = CASE whence = "set" -> offs [] whence = "cur" -> f.cur_pos + offs
                        [] whence = "end" -> (f.ent.size + offs) % PosMod
    OBVIOUS
  <2>5. PosMod \in Nat \ {0}
    BY FatAssumption
  <2>3. p \in Int
    BY <2>1, <2>2, <2>5
  <2>4. pos = IF p < 0 THEN 0 ELSE p
    BY <1>3, <2>2, Zenon DEF NewPos
  <2> QED BY <2>3, <2>4
<1>5. PICK g \in SeekTo(f, pos) : nodes' = [nodes EXCEPT ![h] = g]
  BY <1>3
<1>6. FileOk(d, g)
  BY <1>2, <1>3, <1>4, SeekOk
<1>7. IsNode(g)
  <2>1. IsFile(g)
    BY <1>2, SeekFacts
  <2> QED BY <2>1 DEF IsFile, IsNode
<1>8. AllFiles(disk, nodes')
  BY <1>0, <1>2, <1>5, <1>6, <1>7, NodeFiles
<1> QED BY <1>0, <1>1, <1>8, DiskStep

LEMMA ReadDisk ==
    ASSUME WellFormed, "file" \notin Failures, IInv, DiskInv, NEW h \in Handles, NEW sz \in ReadSizes, read(h, sz)
    PROVE  DiskInv'
<1>0. /\ disk \in Disks /\ Kept(disk, dirs) /\ AllFiles(disk, nodes)
      /\ exact = TRUE /\ seen \in [Handles -> Nat] /\ stopped \in Causes
  BY DiskIs
<1>1. nodes[h].type = "file" /\ UNCHANGED <<disk, dirs, seen>> /\ sz \in Nat
  BY FatAssumption DEF read
<1>10. PICK d \in Disks : d = disk
  BY <1>0
<1>2. PICK f : d = disk /\ f = nodes[h] /\ IsFile(f) /\ FileOk(d, f)
  BY <1>0, <1>10, <1>1 DEF AllFiles, IInv, NodesInv, IsNode, NoNode
<1>3. PICK r : /\ r = ReadLoop(f, sz, FALSE) /\ nodes' = [nodes EXCEPT ![h] = r.file]
               /\ exact' = (exact /\ r.data = BytesOf(f.of, f.cur_pos, sz))
               /\ stopped' = IF r.overrun THEN "overrun" ELSE stopped
  <2>1. ReadFails = {FALSE}
    BY DEF ReadFails
  <2> QED BY <1>2, <2>1, Zenon DEF read
<1>4. FileOk(d, r.file) /\ ~r.overrun /\ r.data = BytesOf(f.of, f.cur_pos, sz)
  BY <1>1, <1>2, <1>3, ReadOk
<1>5. IsNode(r.file)
  <2>1. IsFile(r.file)
    BY <1>1, <1>2, <1>3, ReadFacts, Zenon
  <2> QED BY <2>1 DEF IsFile, IsNode
<1>6. AllFiles(disk, nodes')
  <2>1. PICK g : g = r.file
    OBVIOUS
  <2> QED BY <1>0, <1>2, <1>3, <1>4, <1>5, <2>1, NodeFiles
<1>7. exact' = TRUE
  BY <1>0, <1>3, <1>4, Zenon
<1>8. stopped' \in Causes
  BY <1>0, <1>3, <1>4
<1> QED BY <1>0, <1>1, <1>6, <1>7, <1>8, DiskStep

LEMMA ChdirDisk ==
    ASSUME WellFormed, IInv, CwdInv, DiskInv, NEW path \in Dirs, fs_chdir(path)
    PROVE  DiskInv'
<1>0. /\ DirsInv /\ dirs[Root].at = 0 /\ disk \in Disks /\ Kept(disk, dirs) /\ AllFiles(disk, nodes)
      /\ exact = TRUE /\ seen \in [Handles -> Nat] /\ stopped \in Causes
      /\ cwdpath \in Seq(Names) /\ cwd \in DOMAIN dirs
  BY DiskIs DEF IInv, CwdInv, DirsInv
<1>1. /\ UNCHANGED <<disk, nodes, exact, seen>> /\ Room /\ (path = Up => cwdpath # << >>)
      /\ path.names \in Seq(Names)
  BY FatAssumption DEF fs_chdir
<1>2. PICK t : t = Target(cwdpath, path, Up) /\ t.names \in Seq(Names)
  BY <1>0, <1>1, PathFacts
<1>3. PICK bad, w : /\ w = Walk(t, bad)
                    /\ \/ dirs' = w.dirs /\ UNCHANGED stopped
                       \/ dirs' = dirs /\ stopped' = "path too long"
                       \/ ~w.failed /\ w.dir # NoDir /\ dirs' = free_dir(DirOf(w).dirs, cwd) /\ UNCHANGED stopped
  BY <1>2 DEF fs_chdir
<1>10. PICK d \in Disks : d = disk
  BY <1>0
<1>4. PICK names : d = disk /\ names = t.names
  BY <1>0, <1>10
<1>5. OnDisk(d, w, names, Len(names))
  <2>1. PICK n \in Nat : n = Len(t.names)
    BY <1>2
  <2> QED BY <1>0, <1>1, <1>2, <1>3, <1>4, <2>1, WalkOnDisk
<1>6. stopped' \in Causes
  BY <1>0, <1>3 DEF Causes
<1>7. Kept(disk, dirs')
  <2>1. CASE dirs' = w.dirs
    BY <1>0, <1>4, <1>5, <2>1, KeptWalk
  <2>2. CASE dirs' = dirs
    BY <1>0, <2>2
  <2>3. CASE ~w.failed /\ w.dir # NoDir /\ dirs' = free_dir(DirOf(w).dirs, cwd)
    <3>1. PICK ds, x : ds = DirOf(w).dirs /\ x = DirOf(w).dir
      OBVIOUS
    <3>2. PICK r : IsGot(ds, x, r) /\ <<r.at>> = Dest(w)
      BY <1>0, <1>1, <1>5, <2>3, <3>1, GotDir DEF OnDisk
    <3>3. Kept(d, ds) /\ IsDirs(ds) /\ cwd \in DOMAIN ds
      BY <1>0, <1>4, <1>5, <2>3, <3>2, KeptGot
    <3>4. IsFreed(dirs', ds, cwd)
      BY <2>3, <3>1, <3>3, FreeFacts
    <3> QED BY <1>4, <3>3, <3>4, KeptFreed
  <2> QED BY <1>3, <2>1, <2>2, <2>3
<1> QED BY <1>0, <1>1, <1>6, <1>7, DiskStep

LEMMA InitDisk ==
    ASSUME WellFormed, Init
    PROVE  DiskInv
<1>1. /\ disk \in Disks /\ exact = TRUE /\ seen \in [Handles -> Nat] /\ stopped \in Causes
      /\ \A h \in Handles : nodes[h] = NoNode
  BY DEF Init, Causes
<1>2. DOMAIN dirs = {Root, 1} /\ \A e \in DOMAIN dirs : dirs[e].at = 0 /\ dirs[e].cur_ent = 0
  BY DEF Init
<1>3. 0 \in DirStarts(disk)
  BY DEF DirStarts
<1>4. Kept(disk, dirs)
  BY <1>1, <1>2, <1>3, NewOk DEF Kept
<1>5. AllFiles(disk, nodes)
  BY <1>1 DEF AllFiles, NoNode
<1> QED BY <1>1, <1>4, <1>5, DiskIs

LEMMA NextDisk ==
    ASSUME WellFormed, Direct, Seeks = "safe", "file" \notin Failures, IInv, CwdInv, DiskInv, [Next]_vars
    PROVE  DiskInv'
<1>1. ASSUME NEW h \in Handles, NEW path \in Paths, open(h, path) PROVE DiskInv'
  BY <1>1, OpenDisk
<1>2. ASSUME NEW h \in Handles, close(h) PROVE DiskInv'
  BY <1>2, CloseDisk
<1>3. ASSUME NEW h \in Handles, readdir(h) \/ rewinddir(h) PROVE DiskInv'
  BY <1>3, PlacingDisk
<1>4. ASSUME NEW h \in Handles, NEW offs \in Offsets, NEW whence \in {"set", "cur", "end"}, seek(h, offs, whence)
      PROVE  DiskInv'
  BY <1>4, SeekDisk
<1>5. ASSUME NEW h \in Handles, NEW sz \in ReadSizes, read(h, sz) PROVE DiskInv'
  BY <1>5, ReadDisk
<1>6. ASSUME NEW path \in Dirs, fs_chdir(path) PROVE DiskInv'
  BY <1>6, ChdirDisk
<1>7. ASSUME UNCHANGED <<disk, dirs, nodes, exact, seen>>, stopped' \in Causes PROVE DiskInv'
  BY <1>7, DiskIs, DiskStep
<1>8. open_nomem \/ load_dir_overlong \/ halted \/ UNCHANGED vars =>
        UNCHANGED <<disk, dirs, nodes, exact, seen>> /\ stopped' \in Causes
  <2>1. stopped \in Causes
    BY DiskIs
  <2> QED BY <2>1 DEF open_nomem, load_dir_overlong, halted, vars, Causes
<1> QED BY <1>1, <1>2, <1>3, <1>4, <1>5, <1>6, <1>7, <1>8 DEF Next

LEMMA DiskImplies ==
    ASSUME WellFormed, IInv, DiskInv
    PROVE  FileInv
<1>0. /\ disk \in Disks /\ Kept(disk, dirs) /\ AllFiles(disk, nodes)
      /\ exact = TRUE /\ seen \in [Handles -> Nat] /\ stopped \in Causes
  BY DiskIs
<1>1. PICK d \in Disks : d = disk
  BY <1>0
<1>2. ASSUME NEW h \in Files
      PROVE  /\ nodes[h].cur_pos \in Nat /\ nodes[h].cur_clust \in Clusters(disk) \union {-1, 0}
             /\ nodes[h].cur_pos < nodes[h].of.size =>
                  nodes[h].cur_clust = ClusterOf(nodes[h].of, ClustIdx(nodes[h].cur_pos))
  <2>1. PICK f : f = nodes[h] /\ FileOk(d, f)
    BY <1>0, <1>1 DEF Files, AllFiles
  <2>2. /\ Whole(d, f) /\ f.cur_pos \in Nat /\ At(d, f, f.cur_pos, f.cur_clust)
        /\ f.cur_clust \in Clusters(d) \union {-1, 0} /\ f.ent.size \in Nat
    BY <2>1, FileIs, FirstFacts
  <2>3. ASSUME f.cur_pos < f.of.size PROVE f.cur_clust = ClusterOf(f.of, ClustIdx(f.cur_pos))
    <3>1. f.cur_pos \in 0 .. f.ent.size /\ f.cur_pos < f.ent.size /\ f.ent.first = f.of.first
      BY <2>2, <2>3 DEF Whole
    <3>2. f.cur_clust = Follow(d, ClustIdx(f.cur_pos), f.of.first)
      BY <2>2, <3>1 DEF At
    <3>3. Follow(d, ClustIdx(f.cur_pos), f.of.first) >= 0 /\ f.of.first \in Clusters(d)
      BY <2>1, <3>1, FirstFacts
    <3>4. PICK k \in Nat : k = ClustIdx(f.cur_pos)
      BY <2>2, Positions
    <3>5. PICK ent : ent = f.of
      OBVIOUS
    <3>6. ClusterOf(ent, k) = Follow(d, k, ent.first)
      BY <1>1, <3>3, <3>4, <3>5, ClusterIs
    <3> QED BY <3>2, <3>4, <3>5, <3>6
  <2> QED BY <1>1, <2>1, <2>2, <2>3
<1>3. CurClustMatches /\ ReadIsExact
  BY <1>0, <1>2 DEF CurClustMatches, ReadIsExact
<1>4. TypeOK
  <2>1. DOMAIN dirs \subseteq 0 .. MaxDirs /\ \A e \in DOMAIN dirs : dirs[e].ref \in Nat
    BY DEF IInv, DirsInv, IsDirs, IsDir
  <2>2. \A e \in DOMAIN dirs : dirs[e].cur_ent \in 0 .. Len(EntriesOf(dirs[e].at))
    BY <1>0 DEF Kept, AtOk, EntriesOf
  <2> QED BY <1>0, <1>2, <2>1, <2>2 DEF TypeOK, Causes
<1> QED BY <1>3, <1>4 DEF FileInv

(***************************************************************************)
(* On every FAT16 or FAT32 disk with sound chains, after any sequence of   *)
(* opens, reads and seeks that lead into the file, an open file's          *)
(* cur_clust is the cluster of its position and every read has returned    *)
(* the file's bytes (open, seek and read of fsfat.c), although reads keep  *)
(* the cluster buffer, and directories cannot always be read.              *)
(***************************************************************************)
THEOREM FilesAreRead ==
    ASSUME WellFormed, Direct, Seeks = "safe", "file" \notin Failures
    PROVE  Spec => []FileInv
<1>1. Init => IInv /\ CwdInv /\ DiskInv
  BY InitInv, InitCwd, InitDisk
<1>2. IInv /\ CwdInv /\ DiskInv /\ [Next]_vars => (IInv /\ CwdInv /\ DiskInv)'
  BY NextInv, NextCwd, NextDisk
<1>3. IInv /\ CwdInv /\ DiskInv => FileInv
  BY DiskImplies
<1> QED BY <1>1, <1>2, <1>3, PTL DEF Spec
=============================================================================
