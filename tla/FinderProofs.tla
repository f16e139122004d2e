----------------------------- MODULE FinderProofs -----------------------------
(***************************************************************************)
(* The Finder, for any tree, any number of threads and of runs: when it    *)
(* saves its database, and that a query answers what a walk of the tree    *)
(* would find.                                                             *)
(***************************************************************************)
EXTENDS Finder, WellFoundedInduction, TLAPS

Steps == {"stat", "list"} \X Dirs

EntryType == [path : Dirs, stamp : Nat, names : SUBSET FileNames]

DiskType == [Dirs -> [stamp : Nat, files : SUBSET FileNames, readable : BOOLEAN]]
DbType == [exclude : SUBSET Dirs, blocks : Seq(Seq(EntryType)), bad : SUBSET Nat]
RunType == [pc : {"idle", "load", "scan", "walk", "up"}, exclude : SUBSET Dirs, n : Nat]
NodesType == [Dirs -> [inTree : BOOLEAN, stamp : Nat, names : SUBSET FileNames]]

LoadTypes ==
    /\ stats \in [DOMAIN db.blocks -> Seq(Nat)]
    /\ unmerged \subseteq DOMAIN db.blocks
    /\ \A i \in DOMAIN db.blocks : Len(stats[i]) <= Len(db.blocks[i])

TypeOK ==
    /\ world \in Worlds
    /\ disk \in DiskType
    /\ clock \in Nat
    /\ db \in DbType
    /\ run \in RunType
    /\ quiet \in BOOLEAN
    /\ run.pc = "load" => LoadTypes
    /\ loadError \in BOOLEAN
    /\ nodes \in NodesType
    /\ jobs \in SUBSET Seq(Steps) /\ <<>> \notin jobs
    /\ modified \in BOOLEAN
    /\ errs \subseteq Dirs
    /\ dumping \in BOOLEAN
    /\ result \in {"none", "ok", "error"}

\* The db is one that New can use.
Usable == db.blocks # <<>> /\ db.exclude = run.exclude /\ db.bad = {}

\* A directory in the db has changed since it was saved.
SomeChanged == \E e \in SavedEntries : disk[e.path].stamp # e.stamp

\* What makes a needless dump impossible: a run that can use the db sets
\* modified only for an entry that has changed, and starts no job otherwise.
DumpInv ==
    /\ result # "none" => run.pc = "up"
    /\ run.pc = "load" =>
          /\ db.blocks # <<>> /\ db.exclude = run.exclude
          /\ loadError => db.bad # {}
          /\ quiet => \A i \in DOMAIN db.blocks : \A n \in 1 .. Len(stats[i]) :
                stats[i][n] \in {0, disk[db.blocks[i][n].path].stamp}
          /\ \A i \in DOMAIN db.blocks \ unmerged :
                i \notin db.bad => Len(stats[i]) = Len(db.blocks[i]) /\ (DirsToWalk(i) # <<>> => modified)
    /\ run.pc = "scan" => ~ Usable
    /\ run.pc = "walk" /\ Usable => (jobs # {} => modified)
    /\ quiet /\ modified /\ Usable /\ (run.pc = "up" => dumping) /\ run.pc # "idle" =>
          SomeChanged

Saved(d) == \E i \in DOMAIN db.blocks : \E n \in 1 .. Len(db.blocks[i]) : db.blocks[i][n].path = d

\* If d still has the stamp, then the names and the subdirectories that are
\* known for it are those it has.
Faithful(d, stamp, names, kids, exclude) ==
    disk[d].stamp = stamp => names = Names(d) /\ kids = Subdirs(d, exclude)

\* Stamps are in the past, the root stays, and no directory is without its
\* parent.
ClockInv ==
    /\ \A d \in Dirs : disk[d].stamp <= clock /\ nodes[d].stamp <= clock
    /\ Exists(Root)
    /\ \A d \in Dirs \ {Root} : Exists(d) => Exists(ParentOf[d])

SavedKids(d) == {c \in ChildrenOf(d) : Saved(c)}

\* An entry of the db is faithful, and not without that of its parent.
EntryOK(e) ==
    /\ e.stamp # 0 /\ e.stamp <= clock
    /\ e.path # Root => Saved(ParentOf[e.path])
    /\ Faithful(e.path, e.stamp, e.names, SavedKids(e.path), db.exclude)

\* The db has one entry for a directory.
DbInv ==
    /\ \A i \in DOMAIN db.blocks : \A n \in 1 .. Len(db.blocks[i]) : EntryOK(db.blocks[i][n])
    /\ \A i, k \in DOMAIN db.blocks : \A n \in 1 .. Len(db.blocks[i]), m \in 1 .. Len(db.blocks[k]) :
          db.blocks[i][n].path = db.blocks[k][m].path => i = k /\ n = m
    /\ db.blocks # <<>> => Saved(Root)

\* What Lstat said of the n-th directory of block i.
StatOK(i, n) ==
    LET e == db.blocks[i][n] IN
    /\ stats[i][n] <= clock
    /\ stats[i][n] # 0 <=> Exists(e.path)
    /\ quiet => stats[i][n] = disk[e.path].stamp
    /\ stats[i][n] = e.stamp => \A c \in SavedKids(e.path) : Exists(c)

\* What block i leaves in nodes.
MergeOK(i, n) ==
    LET e == db.blocks[i][n] IN
    IF i \in unmerged THEN nodes[e.path].stamp = 0
    ELSE /\ i \notin db.bad
         /\ nodes[e.path].inTree /\ nodes[e.path].stamp = stats[i][n]
         /\ stats[i][n] = e.stamp => nodes[e.path].names = e.names

LoadInv ==
    run.pc = "load" =>
        /\ \A i \in DOMAIN db.blocks : \A n \in 1 .. Len(stats[i]) : StatOK(i, n)
        /\ ~ loadError =>
              /\ \A d \in Dirs : nodes[d].inTree => Saved(d)
              /\ \A i \in DOMAIN db.blocks : \A n \in 1 .. Len(db.blocks[i]) : MergeOK(i, n)

ErrsInv == run.pc \in {"load", "scan", "walk"} => \A d \in errs : ~ Exists(d)

\* d is named in a job of the pool.
Queued(kind, d) == \E job \in jobs : \E n \in 1 .. Len(job) : job[n] = <<kind, d>>
Pending(d) == Queued("stat", d) \/ Queued("list", d)

\* No directory is in two steps of the pool.
OneStepEach ==
    \A job, other \in jobs : \A n \in 1 .. Len(job), m \in 1 .. Len(other) :
        job[n][2] = other[m][2] => job = other /\ n = m

KidsInTree(d) == {c \in ChildrenOf(d) : nodes[c].inTree}

Beneath(d) == {c \in Dirs \ {d} : d \in Above[c]}

\* Neither c, which is not in the tree, nor what is below it is known.
Unknown(c) == ~ Pending(c) /\ \A x \in Beneath(c) : ~ nodes[x].inTree /\ ~ Pending(x)

\* A directory that has a step in the pool exists, and a subdirectory that is
\* not in the tree is unknown.
PendingOK(d) ==
    /\ Queued("stat", d) => nodes[d].stamp = 0
    /\ Pending(d) => Exists(d) /\ \A c \in ChildrenOf(d) : ~ nodes[c].inTree => Unknown(c)

\* Lstat has been called for d.
StatDone(d) ==
    InCache(d) /\ ~ Queued("stat", d) =>
        /\ Exists(d) => nodes[d].stamp # 0
        /\ quiet => nodes[d].stamp = disk[d].stamp

NodeFaithful(d) == Faithful(d, nodes[d].stamp, nodes[d].names, KidsInTree(d), run.exclude)

\* d has been listed.
ListDone(d) ==
    InCache(d) /\ ~ Pending(d) /\ Exists(d) => NodeFaithful(d) /\ \A c \in KidsInTree(d) : Exists(c)

WalkInv ==
    run.pc = "walk" =>
        /\ nodes[Root].inTree
        /\ OneStepEach
        /\ \A d \in Dirs : PendingOK(d) /\ StatDone(d) /\ ListDone(d)

\* When New has returned, every node of the tree is faithful.
UpInv ==
    run.pc = "up" =>
        /\ nodes[Root].inTree
        /\ result # "error"
        /\ \A d \in Dirs : InCache(d) =>
              /\ nodes[d].stamp # 0
              /\ quiet => nodes[d].stamp = disk[d].stamp
              /\ NodeFaithful(d)

CacheSound == ClockInv /\ DbInv /\ LoadInv /\ ErrsInv /\ WalkInv /\ UpInv

CacheInv == DirsStay /\ MayFail = {} => CacheSound
-----------------------------------------------------------------------------
(* Sequences *)

\* A set of numbers that is not empty has a least one.
LEMMA LeastNumber ==
    ASSUME NEW T \in SUBSET Nat, T # {}
    PROVE  \E m \in T : \A n \in T : m <= n
<1> DEFINE R == OpToRel(<, Nat)
<1>1. IsWellFoundedOn(R, Nat)
  BY NatLessThanWellFounded, Zenon
<1>2. \A x, y \in Nat : x < y => <<x, y>> \in R
  BY Zenon DEF OpToRel
<1> HIDE DEF R
<1>3. PICK x \in T : \A y \in T : ~ (<<y, x>> \in R)
  <2>1. \E x \in T : \A y \in T : ~ (<<y, x>> \in R)
    BY <1>1, WFMin, Zenon
  <2> QED
    BY <2>1, Zenon
<1>4. \A y \in T : ~ (y < x)
  BY <1>2, <1>3, Zenon
<1> QED
  BY <1>4, SMTT(30)

\* Induction up to N, for a set.
LEMMA UpTo ==
    ASSUME NEW N \in Nat, NEW T, 0 \in T, \A n \in T : n \in 0 .. N - 1 => n + 1 \in T
    PROVE  0 .. N \subseteq T
<1> DEFINE Out == {n \in 0 .. N : n \notin T}
<1> SUFFICES ASSUME Out # {} PROVE FALSE
  BY Zenon
<1>1. PICK m \in Out : \A n \in Out : m <= n
  <2>1. Out \in SUBSET Nat
    BY SMTT(30)
  <2> HIDE DEF Out
  <2> QED
    BY <2>1, LeastNumber, Zenon
<1>2. m # 0 /\ m - 1 \in 0 .. N - 1 /\ m - 1 \notin Out
  BY <1>1, SMTT(30)
<1> QED
  BY <1>2, SMTT(30)

\* k holds the elements of s that are in S, up to the n-th.
KeepsFrom(k, s, n, S) ==
    /\ \A j \in 1 .. Len(k) : k[j] \in S /\ \E m \in 1 .. n : s[m] = k[j]
    /\ \A m \in 1 .. n : s[m] \in S => \E j \in 1 .. Len(k) : k[j] = s[m]
    /\ (\A x, y \in 1 .. Len(s) : s[x] = s[y] => x = y) =>
          \A x, y \in 1 .. Len(k) : k[x] = k[y] => x = y

\* Keep filters.
LEMMA KeepKeeps ==
    ASSUME NEW T, NEW s \in Seq(T), NEW S
    PROVE  Keep(s, S) \in Seq(T) /\ KeepsFrom(Keep(s, S), s, Len(s), S)
<1> DEFINE With(k, n) == IF s[n] \in S THEN Append(k, s[n]) ELSE k
           Def(f, n) == f = [m \in 0 .. n |-> IF m = 0 THEN <<>> ELSE With(f[m - 1], m)]
           Kept == CHOOSE f : Def(f, Len(s))
<1>0. Keep(s, S) = Kept[Len(s)]
  BY Zenon DEF Keep
<1> HIDE DEF With
<1>a. Len(s) \in Nat
  BY SMTT(30)
<1>1. \E f : Def(f, Len(s))
  <2> DEFINE D == {n \in Nat : \E f : Def(f, n)}
  <2>1. 0 \in D
    <3> DEFINE f == [m \in 0 .. 0 |-> <<>>]
    <3>1. Def(f, 0)
      BY SMTT(30)
    <3> QED
      BY <3>1, Zenon
  <2>2. ASSUME NEW n \in Nat, n \in D
        PROVE  n + 1 \in D
    <3>1. PICK f : Def(f, n)
      BY <2>2, Zenon
    <3> DEFINE g == [m \in 0 .. n + 1 |-> IF m <= n THEN f[m] ELSE With(f[n], n + 1)]
    <3>2. \A m \in 0 .. n + 1 : g[m] = IF m = 0 THEN <<>> ELSE With(g[m - 1], m)
      <4> SUFFICES ASSUME NEW m \in 0 .. n + 1
                   PROVE  g[m] = IF m = 0 THEN <<>> ELSE With(g[m - 1], m)
        BY Zenon
      <4>1. CASE m = 0
        BY <3>1, <4>1, SMTT(30)
      <4>2. CASE m \in 1 .. n
        BY <3>1, <4>2, SMTT(30)
      <4>3. CASE m = n + 1
        BY <4>3, SMTT(30)
      <4> QED
        BY <4>1, <4>2, <4>3, SMTT(30)
    <3>3. g = [m \in 0 .. n + 1 |-> g[m]]
      BY Zenon
    <3> HIDE DEF g
    <3>4. Def(g, n + 1)
      BY <3>2, <3>3, Zenon
    <3> QED
      BY <3>4, SMTT(30)
  <2> HIDE DEF D
  <2>3. 0 .. Len(s) \subseteq D
    <3>1. \A n \in D : n \in 0 .. Len(s) - 1 => n + 1 \in D
      BY <2>2, SMTT(30)
    <3> QED
      BY <1>a, <2>1, <3>1, UpTo, Zenon
  <2>4. Len(s) \in D
    BY <2>3, SMTT(30)
  <2> QED
    BY <2>4, Zenon DEF D
<1>2. Def(Kept, Len(s))
  BY <1>1, Zenon
<1> HIDE DEF Kept
<1>3. Kept[0] = <<>> /\ \A n \in 1 .. Len(s) : Kept[n] = With(Kept[n - 1], n)
  BY <1>2, SMTT(30)
<1> DEFINE G == {n \in 0 .. Len(s) : Kept[n] \in Seq(T) /\ KeepsFrom(Kept[n], s, n, S)}
<1>5. 0 \in G
  <2>1. <<>> \in Seq(T) /\ KeepsFrom(<<>>, s, 0, S)
    BY SMTT(30) DEF KeepsFrom
  <2>2. Kept[0] \in Seq(T) /\ KeepsFrom(Kept[0], s, 0, S)
    BY <1>3, <2>1, Zenon
  <2>3. 0 \in 0 .. Len(s)
    BY SMTT(30)
  <2> QED
    BY <2>2, <2>3, Zenon
<1>6. ASSUME NEW n \in 0 .. Len(s) - 1, n \in G
      PROVE  n + 1 \in G
  <2> DEFINE k == Kept[n]
             l == Kept[n + 1]
  <2>1. k \in Seq(T) /\ KeepsFrom(k, s, n, S)
    BY <1>6, Zenon
  <2>2. l = IF s[n + 1] \in S THEN Append(k, s[n + 1]) ELSE k
    BY <1>3, SMTT(30) DEF With
  <2>3. s[n + 1] \in T
    BY SMTT(30)
  <2> HIDE DEF k, l
  <2>4. l \in Seq(T) /\ KeepsFrom(l, s, n + 1, S)
    <3>1. CASE s[n + 1] \notin S
      <4>1. l = k
        BY <2>2, <3>1, Zenon
      <4>2. \A m \in 1 .. n + 1 : s[m] \in S => m \in 1 .. n
        BY <3>1, SMTT(30)
      <4> QED
        BY <2>1, <4>1, <4>2, SMTT(30) DEF KeepsFrom
    <3>2. CASE s[n + 1] \in S
      <4>1. /\ l \in Seq(T) /\ Len(l) = Len(k) + 1
            /\ \A j \in 1 .. Len(k) : l[j] = k[j]
            /\ l[Len(l)] = s[n + 1]
            /\ Len(k) \in Nat
        BY <2>1, <2>2, <2>3, <3>2, SMTT(30)
      <4>2. ASSUME NEW j \in 1 .. Len(l)
            PROVE  l[j] \in S /\ \E m \in 1 .. n + 1 : s[m] = l[j]
        <5>1. CASE j = Len(l)
          BY <5>1, <4>1, <3>2, SMTT(30)
        <5>2. CASE j \in 1 .. Len(k)
          <6>1. l[j] = k[j] /\ k[j] \in S
            BY <5>2, <4>1, <2>1, Zenon DEF KeepsFrom
          <6>2. PICK m \in 1 .. n : s[m] = k[j]
            BY <5>2, <2>1, Zenon DEF KeepsFrom
          <6> QED
            BY <6>1, <6>2, SMTT(30)
        <5> QED
          BY <5>1, <5>2, <4>1, SMTT(30)
      <4>3. ASSUME NEW m \in 1 .. n + 1, s[m] \in S
            PROVE  \E j \in 1 .. Len(l) : l[j] = s[m]
        <5>1. CASE m = n + 1
          BY <5>1, <4>1, SMTT(30)
        <5>2. CASE m \in 1 .. n
          <6>1. PICK j \in 1 .. Len(k) : k[j] = s[m]
            BY <5>2, <4>3, <2>1, Zenon DEF KeepsFrom
          <6> QED
            BY <6>1, <4>1, SMTT(30)
        <5> QED
          BY <5>1, <5>2, SMTT(30)
      <4>4. ASSUME \A x, y \in 1 .. Len(s) : s[x] = s[y] => x = y,
                   NEW x \in 1 .. Len(l), NEW y \in 1 .. Len(l), l[x] = l[y]
            PROVE  x = y
        <5>1. ASSUME NEW j \in 1 .. Len(k), k[j] = s[n + 1]
              PROVE  FALSE
          <6>1. PICK m \in 1 .. n : s[m] = k[j]
            BY <2>1, Zenon DEF KeepsFrom
          <6> QED
            BY <5>1, <6>1, <4>4, SMTT(30)
        <5>2. \A i, j \in 1 .. Len(k) : k[i] = k[j] => i = j
          BY <2>1, <4>4, Zenon DEF KeepsFrom
        <5> QED
          BY <5>1, <5>2, <4>1, <4>4, SMTT(30)
      <4> QED
        BY <4>1, <4>2, <4>3, <4>4, Zenon DEF KeepsFrom
    <3> QED
      BY <3>1, <3>2, Zenon
  <2> QED
    BY <2>4, SMTT(30) DEF l
<1> HIDE DEF G
<1>7. Len(s) \in G
  <2>1. \A n \in G : n \in 0 .. Len(s) - 1 => n + 1 \in G
    BY <1>6, Zenon
  <2>2. 0 .. Len(s) \subseteq G
    BY <1>a, <1>5, <2>1, UpTo, Zenon
  <2> QED
    BY <2>2
<1> QED
  BY <1>0, <1>7, Zenon DEF G

\* The bounds of num blocks of a sequence of length len.
BlockBound(len, num, i) == (len * i) \div num

\* They go from 0 to len and never back.
LEMMA BlockBounds ==
    ASSUME NEW len \in Nat, NEW num \in Nat \ {0}
    PROVE  /\ \A i \in 0 .. num : BlockBound(len, num, i) \in Nat
           /\ BlockBound(len, num, 0) = 0
           /\ BlockBound(len, num, num) = len
           /\ \A i, k \in 0 .. num : i <= k => BlockBound(len, num, i) <= BlockBound(len, num, k)
<1>1. \A a \in Nat : a \div num \in Nat
  BY SMTT(30)
<1>2. \A a, b \in Nat : a <= b => a \div num <= b \div num
  BY SMTT(30)
<1>3. \A i \in 0 .. num : len * i \in Nat
  BY SMTT(30)
<1>4. \A i, k \in 0 .. num : i <= k => len * i <= len * k
  BY SMTT(30)
<1>5. (len * num) \div num = len
  BY SMTT(30)
<1>6. (len * 0) \div num = 0
  BY SMTT(30)
<1> QED
  BY <1>1, <1>2, <1>3, <1>4, <1>5, <1>6, Zenon DEF BlockBound

\* B holds the bounds of num blocks of a sequence of length len.
Bounds(B, num, len) ==
    /\ B \in [0 .. num -> Nat]
    /\ B[0] = 0 /\ B[num] = len
    /\ \A i, k \in 0 .. num : i <= k => B[i] <= B[k]

\* The blocks.
Blocks(all, num, B) == [i \in 1 .. num |-> SubSeq(all, B[i - 1] + 1, B[i])]

\* Each entry of a sequence is in one of the blocks, and in one only if no two
\* entries have the same path.
SharedOut(blocks, all) ==
    /\ \A i \in DOMAIN blocks : \A n \in 1 .. Len(blocks[i]) :
          \E m \in 1 .. Len(all) : blocks[i][n] = all[m]
    /\ \A m \in 1 .. Len(all) : \E i \in DOMAIN blocks : \E n \in 1 .. Len(blocks[i]) :
          blocks[i][n] = all[m]
    /\ (\A m, n \in 1 .. Len(all) : all[m].path = all[n].path => m = n) =>
          \A i, k \in DOMAIN blocks : \A n \in 1 .. Len(blocks[i]), m \in 1 .. Len(blocks[k]) :
              blocks[i][n].path = blocks[k][m].path => i = k /\ n = m

\* Blocks cut at such bounds share a sequence out among them.
LEMMA BlocksShare ==
    ASSUME NEW T, NEW all \in Seq(T), NEW num \in Nat \ {0}, NEW B, Bounds(B, num, Len(all))
    PROVE  Blocks(all, num, B) \in Seq(Seq(T)) /\ SharedOut(Blocks(all, num, B), all)
<1> DEFINE blocks == Blocks(all, num, B)
<1>0. Len(all) \in Nat
  BY SMTT(30)
<1>1. ASSUME NEW i \in 1 .. num
      PROVE  B[i - 1] \in Nat /\ B[i] \in Nat /\ B[i - 1] <= B[i] /\ B[i] <= Len(all)
  BY <1>0, SMTT(30) DEF Bounds
<1>2. ASSUME NEW i \in 1 .. num
      PROVE  blocks[i] = SubSeq(all, B[i - 1] + 1, B[i])
  BY Zenon DEF Blocks
<1>3. DOMAIN blocks = 1 .. num /\ blocks = [i \in 1 .. num |-> blocks[i]]
  BY Zenon DEF Blocks
<1> HIDE DEF blocks
<1>4. ASSUME NEW i \in 1 .. num
      PROVE  /\ blocks[i] \in Seq(T) /\ Len(blocks[i]) = B[i] - B[i - 1]
             /\ \A n \in 1 .. Len(blocks[i]) : blocks[i][n] = all[B[i - 1] + n]
  <2> DEFINE x == B[i - 1]
             y == B[i]
  <2>1. x \in Nat /\ y \in Nat /\ x <= y /\ y <= Len(all) /\ blocks[i] = SubSeq(all, x + 1, y)
    BY <1>1, <1>2, Zenon
  <2> HIDE DEF x, y
  <2>2. blocks[i] \in Seq(T) /\ Len(blocks[i]) = y - x
    BY ONLY <2>1, all \in Seq(T), SMTT(30)
  <2>3. ASSUME NEW n \in 1 .. y - x
        PROVE  blocks[i][n] = all[x + n]
    BY ONLY <2>1, all \in Seq(T), n \in 1 .. y - x, SMTT(30)
  <2> QED
    BY <2>2, <2>3, Zenon DEF x, y
<1>6. blocks \in Seq(Seq(T))
  <2>1. blocks \in [1 .. num -> Seq(T)]
    BY <1>3, <1>4, Zenon
  <2> QED
    BY ONLY <2>1, num \in Nat \ {0}, SMTT(30)
<1>7. ASSUME NEW i \in 1 .. num, NEW n \in 1 .. Len(blocks[i])
      PROVE  B[i - 1] + n \in 1 .. Len(all) /\ blocks[i][n] = all[B[i - 1] + n]
  <2>1. B[i - 1] \in Nat /\ B[i] \in Nat /\ B[i] <= Len(all)
    BY <1>1, Zenon
  <2>2. n \in 1 .. B[i] - B[i - 1] /\ blocks[i][n] = all[B[i - 1] + n]
    BY <1>4, Zenon
  <2> QED
    BY <2>1, <2>2, <1>0, SMTT(30)
<1>8. ASSUME NEW m \in 1 .. Len(all)
      PROVE  \E i \in 1 .. num : \E n \in 1 .. Len(blocks[i]) : blocks[i][n] = all[m]
  <2> DEFINE Ends == {i \in 0 .. num : m <= B[i]}
  <2>1. Ends \in SUBSET Nat /\ Ends # {}
    BY SMTT(30) DEF Bounds
  <2>2. PICK i \in Ends : \A k \in Ends : i <= k
    <3> HIDE DEF Ends
    <3> QED
      BY <2>1, LeastNumber, Zenon
  <2>3. i \in 1 .. num /\ m <= B[i] /\ B[i - 1] < m
    BY <2>2, SMTT(30) DEF Bounds
  <2>4. m - B[i - 1] \in 1 .. Len(blocks[i])
    BY <2>3, <1>1, <1>4, SMTT(30)
  <2>5. blocks[i][m - B[i - 1]] = all[m]
    <3>1. blocks[i][m - B[i - 1]] = all[B[i - 1] + (m - B[i - 1])]
      BY <2>3, <2>4, <1>4, Zenon
    <3>2. B[i - 1] \in Nat
      BY <2>3, <1>1, Zenon
    <3> QED
      BY <3>1, <3>2, SMTT(30)
  <2> QED
    BY <2>3, <2>4, <2>5, Zenon
<1>9. ASSUME NEW i \in 1 .. num, NEW k \in 1 .. num,
             NEW n \in 1 .. Len(blocks[i]), NEW m \in 1 .. Len(blocks[k]),
             B[i - 1] + n = B[k - 1] + m
      PROVE  i = k /\ n = m
  <2>1. n \in Nat /\ m \in Nat /\ 0 < n /\ 0 < m /\ n <= B[i] - B[i - 1] /\ m <= B[k] - B[k - 1]
    <3>1. n \in 1 .. B[i] - B[i - 1] /\ m \in 1 .. B[k] - B[k - 1]
      BY <1>4, Zenon
    <3> QED
      BY <3>1, <1>1, SMTT(30)
  <2>2. CASE i < k
    <3>1. B[i] <= B[k - 1]
      BY <2>2, SMTT(30) DEF Bounds
    <3>2. B[i - 1] \in Nat /\ B[i] \in Nat /\ B[k - 1] \in Nat /\ B[k] \in Nat
      BY <1>1, Zenon
    <3> QED
      BY <3>1, <3>2, <2>1, <1>9, SMTT(30)
  <2>3. CASE k < i
    <3>1. B[k] <= B[i - 1]
      BY <2>3, SMTT(30) DEF Bounds
    <3>2. B[i - 1] \in Nat /\ B[i] \in Nat /\ B[k - 1] \in Nat /\ B[k] \in Nat
      BY <1>1, Zenon
    <3> QED
      BY <3>1, <3>2, <2>1, <1>9, SMTT(30)
  <2>4. CASE i = k
    BY <2>4, <1>9, <1>1, SMTT(30)
  <2> QED
    BY <2>2, <2>3, <2>4, SMTT(30)
<1>10. \A i \in 1 .. num : \A n \in 1 .. Len(blocks[i]) :
          \E m \in 1 .. Len(all) : blocks[i][n] = all[m]
  BY <1>7, Zenon
<1>11. ASSUME \A m, n \in 1 .. Len(all) : all[m].path = all[n].path => m = n,
              NEW i \in 1 .. num, NEW k \in 1 .. num,
              NEW n \in 1 .. Len(blocks[i]), NEW m \in 1 .. Len(blocks[k]),
              blocks[i][n].path = blocks[k][m].path
       PROVE  i = k /\ n = m
  <2> DEFINE x == B[i - 1] + n
             y == B[k - 1] + m
  <2>1. /\ x \in 1 .. Len(all) /\ blocks[i][n] = all[x]
        /\ y \in 1 .. Len(all) /\ blocks[k][m] = all[y]
    BY <1>7, Zenon
  <2>2. x = y
    <3> HIDE DEF x, y
    <3> QED
      BY <2>1, <1>11, Zenon
  <2> QED
    BY <2>2, <1>9, SMTT(30)
<1>12. SharedOut(blocks, all)
  BY <1>3, <1>8, <1>10, <1>11, Zenon DEF SharedOut
<1> QED
  BY <1>6, <1>12, Zenon DEF blocks
-----------------------------------------------------------------------------
(* The tree *)

\* What holds of the root, and of a directory if of its parent, holds of all.
LEMMA TreeInduction ==
    ASSUME NEW S, Root \in S, \A d \in Dirs \ {Root} : ParentOf[d] \in S => d \in S
    PROVE  \A d \in Dirs : d \in S
<1> DEFINE R == S \cap Dirs
<1>1. R \in SUBSET Dirs /\ Root \in R /\ \A d \in Dirs \ {Root} : ParentOf[d] \in R => d \in R
  BY TreeAssumption, Zenon
<1>2. R = Dirs
  <2> HIDE DEF R
  <2> QED
    BY <1>1, TreeAssumption, Zenon
<1> QED
  BY <1>2, Zenon

\* Above computes, from the root down, a directory and the ones it is in.
LEMMA AboveDef ==
    /\ Above \in [Dirs -> SUBSET Dirs]
    /\ Above[Root] = {Root}
    /\ \A d \in Dirs \ {Root} : Above[d] = {d} \cup Above[ParentOf[d]]
<1> DEFINE Closed(S) == \A x \in S \ {Root} : ParentOf[x] \in S
           C(d) == {c \in Dirs : \A S \in SUBSET Dirs : d \in S /\ Closed(S) => c \in S}
           Def(f) == f = [d \in Dirs |-> IF d = Root THEN {d} ELSE {d} \cup f[ParentOf[d]]]
<1>1. \A d \in Dirs : d \in C(d) /\ C(d) \in SUBSET Dirs
  BY Zenon
<1>2. \A d \in Dirs : Closed(C(d))
  BY TreeAssumption, Zenon
<1>3. C(Root) = {Root}
  <2>1. {Root} \in SUBSET Dirs /\ Closed({Root})
    BY TreeAssumption, Zenon
  <2>2. C(Root) \subseteq {Root}
    BY <2>1, Zenon
  <2>3. Root \in C(Root)
    BY <1>1, TreeAssumption, Zenon
  <2> HIDE DEF C
  <2> QED
    BY <2>2, <2>3, Zenon
<1>4. ASSUME NEW d \in Dirs \ {Root}
      PROVE  C(d) = {d} \cup C(ParentOf[d])
  <2> DEFINE p == ParentOf[d]
             U == {d} \cup C(p)
  <2>1. p \in Dirs
    BY TreeAssumption, Zenon
  <2>2. U \in SUBSET Dirs /\ Closed(U)
    BY <2>1, <1>1, <1>2, Zenon
  <2>3. C(d) \subseteq U
    BY <2>2, Zenon
  <2>4. C(p) \subseteq C(d)
    BY <2>1, Zenon
  <2> QED
    BY <2>3, <2>4, <1>1, ZenonT(40)
<1> HIDE DEF C
<1>5. \E f : Def(f)
  <2> DEFINE f == [d \in Dirs |-> C(d)]
  <2>1. \A d \in Dirs : f[d] = IF d = Root THEN {d} ELSE {d} \cup f[ParentOf[d]]
    BY <1>3, <1>4, TreeAssumption, Zenon
  <2>2. f = [d \in Dirs |-> f[d]]
    BY Zenon
  <2> HIDE DEF f
  <2>3. Def(f)
    BY <2>1, <2>2, Zenon
  <2> QED
    BY <2>3, Zenon
<1>6. Above = CHOOSE f : Def(f)
  BY Zenon DEF Above
<1>7. Def(Above)
  BY <1>5, <1>6, Zenon
<1> HIDE DEF Above
<1>8. Above[Root] = {Root} /\ \A d \in Dirs \ {Root} : Above[d] = {d} \cup Above[ParentOf[d]]
  BY <1>7, TreeAssumption, Zenon
<1>9. \A d \in Dirs : Above[d] \in SUBSET Dirs
  <2> DEFINE S == {d \in Dirs : Above[d] \in SUBSET Dirs}
  <2>1. Root \in S /\ \A d \in Dirs \ {Root} : ParentOf[d] \in S => d \in S
    <3>1. Root \in S
      BY <1>8, TreeAssumption, Zenon
    <3>2. ASSUME NEW d \in Dirs \ {Root}, ParentOf[d] \in S
          PROVE  d \in S
      <4>1. Above[ParentOf[d]] \in SUBSET Dirs /\ Above[d] = {d} \cup Above[ParentOf[d]]
        BY <1>8, <3>2, Zenon
      <4> QED
        BY <4>1, Zenon
    <3> QED
      BY <3>1, <3>2, Zenon
  <2> HIDE DEF S
  <2>2. \A d \in Dirs : d \in S
    BY <2>1, TreeInduction, Zenon
  <2> QED
    BY <2>2, Zenon DEF S
<1>10. Above = [d \in Dirs |-> Above[d]]
  <2> DEFINE g == [d \in Dirs |-> IF d = Root THEN {d} ELSE {d} \cup Above[ParentOf[d]]]
  <2>1. g = [d \in Dirs |-> g[d]]
    BY Zenon
  <2> HIDE DEF g
  <2>2. Above = g
    BY <1>7, Zenon DEF g
  <2> QED
    BY <2>1, <2>2, Zenon
<1> QED
  BY <1>8, <1>9, <1>10, Zenon

\* Above is reflexive and transitive, and no directory is above its parent.
LEMMA AboveOrder ==
    /\ \A d \in Dirs : d \in Above[d] /\ Root \in Above[d]
    /\ \A d \in Dirs : \A c \in Above[d] : Above[c] \subseteq Above[d]
    /\ \A d \in Dirs \ {Root} : d \notin Above[ParentOf[d]]
<1>1. \A d \in Dirs : d \in Above[d]
  BY AboveDef, Zenon
<1>2. \A d \in Dirs : Root \in Above[d]
  <2> DEFINE S == {d \in Dirs : Root \in Above[d]}
  <2>1. Root \in S /\ \A d \in Dirs \ {Root} : ParentOf[d] \in S => d \in S
    BY AboveDef, TreeAssumption, SMTT(30)
  <2> HIDE DEF S
  <2>2. \A d \in Dirs : d \in S
    BY <2>1, TreeInduction, Zenon
  <2> QED
    BY <2>2, Zenon DEF S
<1>3. \A d \in Dirs : \A c \in Above[d] : Above[c] \subseteq Above[d]
  <2> DEFINE S == {d \in Dirs : \A c \in Above[d] : Above[c] \subseteq Above[d]}
  <2>1. Root \in S
    BY AboveDef, TreeAssumption, Zenon
  <2>2. ASSUME NEW d \in Dirs \ {Root}, ParentOf[d] \in S
        PROVE  d \in S
    BY <2>2, AboveDef, ZenonT(40)
  <2> HIDE DEF S
  <2>3. \A d \in Dirs : d \in S
    BY <2>1, <2>2, TreeInduction, Zenon
  <2> QED
    BY <2>3, Zenon DEF S
<1>4. \A d \in Dirs \ {Root} : d \notin Above[ParentOf[d]]
  <2> DEFINE S == {d \in Dirs : d # Root => d \notin Above[ParentOf[d]]}
  <2>1. Root \in S
    BY TreeAssumption, Zenon
  <2>2. ASSUME NEW d \in Dirs \ {Root}, ParentOf[d] \in S, d \in Above[ParentOf[d]]
        PROVE  FALSE
    <3> DEFINE p == ParentOf[d]
    <3>1. p \in Dirs /\ p # Root /\ p \notin Above[ParentOf[p]] /\ ParentOf[p] \in Dirs
      BY <2>2, AboveDef, TreeAssumption, Zenon
    <3>2. p \in Above[d]
      BY <1>1, <3>1, AboveDef, Zenon
    <3>3. CASE d = p
      BY <3>3, <3>1, <1>1, Zenon
    <3>4. CASE d \in Above[ParentOf[p]]
      BY <3>4, <3>1, <3>2, <1>3, Zenon
    <3> QED
      BY <3>1, <3>3, <3>4, <2>2, AboveDef, Zenon
  <2>3. \A d \in Dirs \ {Root} : ParentOf[d] \in S => d \in S
    BY <2>2, Zenon
  <2> HIDE DEF S
  <2>4. \A d \in Dirs : d \in S
    BY <2>1, <2>3, TreeInduction, Zenon
  <2> QED
    BY <2>4, Zenon DEF S
<1> QED
  BY <1>1, <1>2, <1>3, <1>4, Zenon
-----------------------------------------------------------------------------
(* What the operators of Finder compute *)

\* DirsToWalk: the directories of a block that exist and have changed.
LEMMA DirsToWalkIs ==
    ASSUME db.blocks \in Seq(Seq(EntryType)), NEW i \in DOMAIN db.blocks
    PROVE  /\ DirsToWalk(i) \in Seq(Steps)
           /\ \A k \in 1 .. Len(DirsToWalk(i)) : \E n \in 1 .. Len(db.blocks[i]) :
                 /\ stats[i][n] \notin {0, db.blocks[i][n].stamp}
                 /\ DirsToWalk(i)[k] = <<"list", db.blocks[i][n].path>>
           /\ \A n \in 1 .. Len(db.blocks[i]) :
                 stats[i][n] \notin {0, db.blocks[i][n].stamp} =>
                     \E k \in 1 .. Len(DirsToWalk(i)) :
                         DirsToWalk(i)[k] = <<"list", db.blocks[i][n].path>>
           /\ (\A m, n \in 1 .. Len(db.blocks[i]) :
                  db.blocks[i][m].path = db.blocks[i][n].path => m = n) =>
                 \A j, k \in 1 .. Len(DirsToWalk(i)) :
                     DirsToWalk(i)[j][2] = DirsToWalk(i)[k][2] => j = k
<1> DEFINE block == db.blocks[i]
           s == ListSteps(i)
           changed == {n \in DOMAIN EntriesOf(i) : stats[i][n] \notin {0, EntriesOf(i)[n].stamp}}
           S == {s[n] : n \in changed}
           walk == DirsToWalk(i)
<1>1. block \in Seq(EntryType)
  BY SMTT(30)
<1>2. s = [n \in 1 .. Len(block) |-> <<"list", block[n].path>>]
  BY Zenon DEF ListSteps, EntriesOf
<1>3. changed = {n \in 1 .. Len(block) : stats[i][n] \notin {0, block[n].stamp}}
  BY <1>1, SMTT(30) DEF EntriesOf
<1>4. walk = Keep(s, S)
  BY Zenon DEF DirsToWalk
<1> HIDE DEF block, s, changed
<1>5. \A n \in 1 .. Len(block) : block[n].path \in Dirs
  <2>1. \A n \in 1 .. Len(block) : block[n] \in EntryType
    BY ONLY <1>1, SMTT(30)
  <2> QED
    BY ONLY <2>1, Zenon DEF EntryType
<1>6. s \in Seq(Steps) /\ Len(s) = Len(block) /\ \A n \in 1 .. Len(block) : s[n] = <<"list", block[n].path>>
  <2>1. s \in [1 .. Len(block) -> Steps]
    BY <1>2, <1>5, Zenon DEF Steps
  <2>2. Len(block) \in Nat
    BY <1>1, SMTT(30)
  <2>3. s \in Seq(Steps) /\ Len(s) = Len(block)
    BY ONLY <2>1, <2>2, SMTT(30)
  <2> QED
    BY ONLY <2>3, <1>2, Zenon
<1>7. walk \in Seq(Steps) /\ KeepsFrom(walk, s, Len(s), S)
  BY <1>4, <1>6, KeepKeeps, Zenon
<1> HIDE DEF walk
<1>8. ASSUME NEW k \in 1 .. Len(walk)
      PROVE  \E n \in 1 .. Len(block) :
                 stats[i][n] \notin {0, block[n].stamp} /\ walk[k] = <<"list", block[n].path>>
  <2>1. walk[k] \in S
    BY <1>7, Zenon DEF KeepsFrom
  <2>2. PICK n \in changed : walk[k] = s[n]
    BY <2>1, Zenon
  <2> QED
    BY <2>2, <1>3, <1>6, Zenon
<1>9. ASSUME NEW n \in 1 .. Len(block), stats[i][n] \notin {0, block[n].stamp}
      PROVE  \E k \in 1 .. Len(walk) : walk[k] = <<"list", block[n].path>>
  <2>1. n \in changed
    BY <1>9, <1>3, Zenon
  <2>2. s[n] \in S /\ n \in 1 .. Len(s)
    BY <2>1, <1>6, Zenon
  <2>3. PICK k \in 1 .. Len(walk) : walk[k] = s[n]
    BY <2>2, <1>7, Zenon DEF KeepsFrom
  <2> QED
    BY <2>3, <1>6, Zenon
<1>10. ASSUME \A m, n \in 1 .. Len(block) : block[m].path = block[n].path => m = n,
              NEW j \in 1 .. Len(walk), NEW k \in 1 .. Len(walk), walk[j][2] = walk[k][2]
       PROVE  j = k
  <2>1. \A x, y \in 1 .. Len(s) : s[x] = s[y] => x = y
    BY <1>10, <1>6, SMTT(30)
  <2>2. walk[j] = walk[k]
    <3>1. PICK m \in 1 .. Len(block) : walk[j] = <<"list", block[m].path>>
      BY <1>8, Zenon
    <3>2. PICK n \in 1 .. Len(block) : walk[k] = <<"list", block[n].path>>
      BY <1>8, Zenon
    <3> QED
      BY ONLY <3>1, <3>2, <1>10, SMTT(30)
  <2> QED
    BY <2>1, <2>2, <1>7, Zenon DEF KeepsFrom
<1> QED
  BY <1>7, <1>8, <1>9, <1>10, Zenon DEF walk, block

\* sortedDirEntries: the nodes in the tree whose directories were found.
LEMMA SortedDirEntriesIs ==
    ASSUME TypeOK
    PROVE  /\ SortedDirEntries \in Seq(EntryType)
           /\ \A n \in 1 .. Len(SortedDirEntries) :
                 LET e == SortedDirEntries[n]
                 IN  InCache(e.path) /\ e.stamp # 0 /\ e.stamp = nodes[e.path].stamp
                        /\ e.names = nodes[e.path].names
           /\ \A d \in Dirs : InCache(d) /\ nodes[d].stamp # 0 =>
                 \E n \in 1 .. Len(SortedDirEntries) : SortedDirEntries[n].path = d
           /\ \A m, n \in 1 .. Len(SortedDirEntries) :
                 SortedDirEntries[m].path = SortedDirEntries[n].path => m = n
<1> DEFINE S == {d \in Dirs : InCache(d) /\ nodes[d].stamp # 0}
           saved == Keep(PathOrder, S)
           Entry(d) == [path |-> d, stamp |-> nodes[d].stamp, names |-> nodes[d].names]
           all == SortedDirEntries
<1>1. saved \in Seq(Dirs) /\ KeepsFrom(saved, PathOrder, Len(PathOrder), S)
  BY KeepKeeps, TreeAssumption, Zenon
<1>2. all = [n \in DOMAIN saved |-> Entry(saved[n])]
  BY Zenon DEF SortedDirEntries
<1> HIDE DEF saved, all
<1>3. \A d \in Dirs : Entry(d) \in EntryType
  BY Zenon DEF TypeOK, NodesType, EntryType
<1>4. /\ all \in Seq(EntryType) /\ Len(all) = Len(saved)
      /\ \A n \in 1 .. Len(saved) : all[n] = Entry(saved[n]) /\ saved[n] \in Dirs
  <2>1. Len(saved) \in Nat /\ DOMAIN saved = 1 .. Len(saved)
    BY <1>1, SMTT(30)
  <2>2. \A n \in 1 .. Len(saved) : saved[n] \in Dirs
    BY <1>1, SMTT(30)
  <2> HIDE DEF Entry
  <2>3. all \in [1 .. Len(saved) -> EntryType]
    BY <1>2, <1>3, <2>1, <2>2, Zenon
  <2> QED
    BY <1>2, <2>1, <2>2, <2>3, SMTT(30)
<1>5. ASSUME NEW n \in 1 .. Len(all)
      PROVE  /\ InCache(all[n].path) /\ all[n].stamp # 0 /\ all[n].stamp = nodes[all[n].path].stamp
             /\ all[n].names = nodes[all[n].path].names
  <2>1. saved[n] \in S
    BY <1>1, <1>4, Zenon DEF KeepsFrom
  <2>2. all[n] = Entry(saved[n])
    BY <1>4, Zenon
  <2> QED
    BY <2>1, <2>2, SMTT(30)
<1>6. ASSUME NEW d \in Dirs, InCache(d), nodes[d].stamp # 0
      PROVE  \E n \in 1 .. Len(all) : all[n].path = d
  <2>1. d \in S
    BY <1>6, Zenon
  <2>2. PICK m \in 1 .. Len(PathOrder) : PathOrder[m] = d
    BY TreeAssumption, Zenon
  <2>3. PICK n \in 1 .. Len(saved) : saved[n] = d
    BY <1>1, <2>1, <2>2, Zenon DEF KeepsFrom
  <2>4. n \in 1 .. Len(all) /\ all[n] = Entry(d)
    BY <2>3, <1>4, Zenon
  <2> QED
    BY <2>4, SMTT(30)
<1>7. ASSUME NEW m \in 1 .. Len(all), NEW n \in 1 .. Len(all), all[m].path = all[n].path
      PROVE  m = n
  <2>1. saved[m] = saved[n]
    <3>1. all[m] = Entry(saved[m]) /\ all[n] = Entry(saved[n])
      BY <1>4, Zenon
    <3> QED
      BY ONLY <3>1, <1>7, SMTT(30)
  <2> QED
    BY <2>1, <1>1, <1>4, TreeAssumption, Zenon DEF KeepsFrom
<1> QED
  BY <1>4, <1>5, <1>6, <1>7, Zenon DEF all

\* serializeDb: each of those nodes has one entry in one block.
LEMMA SerializeDbIs ==
    ASSUME TypeOK
    PROVE  /\ SerializeDb \in Seq(Seq(EntryType))
           /\ \A i \in DOMAIN SerializeDb : \A n \in 1 .. Len(SerializeDb[i]) :
                 LET e == SerializeDb[i][n]
                 IN  InCache(e.path) /\ e.stamp # 0 /\ e.stamp = nodes[e.path].stamp
                        /\ e.names = nodes[e.path].names
           /\ \A d \in Dirs : InCache(d) /\ nodes[d].stamp # 0 =>
                 \E i \in DOMAIN SerializeDb : \E n \in 1 .. Len(SerializeDb[i]) :
                     SerializeDb[i][n].path = d
           /\ \A i, k \in DOMAIN SerializeDb :
                 \A n \in 1 .. Len(SerializeDb[i]), m \in 1 .. Len(SerializeDb[k]) :
                     SerializeDb[i][n].path = SerializeDb[k][m].path => i = k /\ n = m
<1> DEFINE all == SortedDirEntries
           num == IF world.threads > Len(all) THEN Len(all) ELSE world.threads
           B == [i \in 0 .. num |-> BlockBound(Len(all), num, i)]
           blocks == SerializeDb
<1>1. /\ all \in Seq(EntryType)
      /\ \A n \in 1 .. Len(all) :
            /\ InCache(all[n].path) /\ all[n].stamp # 0 /\ all[n].stamp = nodes[all[n].path].stamp
            /\ all[n].names = nodes[all[n].path].names
      /\ \A d \in Dirs : InCache(d) /\ nodes[d].stamp # 0 => \E n \in 1 .. Len(all) : all[n].path = d
      /\ \A m, n \in 1 .. Len(all) : all[m].path = all[n].path => m = n
  BY SortedDirEntriesIs, Zenon
<1>2. Len(all) \in Nat /\ num \in 0 .. Len(all) /\ (num = 0 => Len(all) = 0)
  <2>1. world.threads \in Nat \ {0}
    BY ParamsAssumption, Zenon DEF TypeOK, World
  <2>2. Len(all) \in Nat
    BY <1>1, SMTT(30)
  <2> HIDE DEF all
  <2> QED
    BY <2>1, <2>2, SMTT(30)
<1>3. blocks = [i \in 1 .. num |-> SubSeq(all, BlockBound(Len(all), num, i - 1) + 1,
                                               BlockBound(Len(all), num, i))]
  BY Zenon DEF SerializeDb, BlockBound
<1> HIDE DEF all, num, blocks
<1>4. CASE num = 0
  <2>1. blocks \in Seq(Seq(EntryType)) /\ DOMAIN blocks = {} /\ Len(all) = 0
    BY <1>2, <1>3, <1>4, SMTT(30)
  <2> QED
    BY <2>1, <1>1, SMTT(30) DEF blocks
<1>5. CASE num # 0
  <2>1. num \in Nat \ {0} /\ Len(all) \in Nat
    BY <1>2, <1>5, SMTT(30)
  <2>2. Bounds(B, num, Len(all))
    <3>1. /\ \A i \in 0 .. num : BlockBound(Len(all), num, i) \in Nat
          /\ BlockBound(Len(all), num, 0) = 0
          /\ BlockBound(Len(all), num, num) = Len(all)
          /\ \A i, k \in 0 .. num :
                i <= k => BlockBound(Len(all), num, i) <= BlockBound(Len(all), num, k)
      BY <2>1, BlockBounds, Zenon
    <3> QED
      BY <3>1, <2>1, SMTT(30) DEF Bounds
  <2>3. blocks = Blocks(all, num, B)
    <3>1. \A i \in 1 .. num : B[i - 1] = BlockBound(Len(all), num, i - 1) /\ B[i] = BlockBound(Len(all), num, i)
      BY <2>1, SMTT(30)
    <3> HIDE DEF B
    <3> QED
      BY <3>1, <1>3, Zenon DEF Blocks
  <2> HIDE DEF B
  <2>4. blocks \in Seq(Seq(EntryType)) /\ SharedOut(blocks, all)
    BY <1>1, <2>1, <2>2, <2>3, BlocksShare, Zenon
  <2>5. ASSUME NEW i \in DOMAIN blocks, NEW n \in 1 .. Len(blocks[i])
        PROVE  /\ InCache(blocks[i][n].path) /\ blocks[i][n].stamp # 0
               /\ blocks[i][n].stamp = nodes[blocks[i][n].path].stamp
               /\ blocks[i][n].names = nodes[blocks[i][n].path].names
    <3>0. \A k \in DOMAIN blocks : \A l \in 1 .. Len(blocks[k]) : \E m \in 1 .. Len(all) : blocks[k][l] = all[m]
      BY <2>4, Zenon DEF SharedOut
    <3>1. PICK m \in 1 .. Len(all) : blocks[i][n] = all[m]
      BY <3>0, Zenon
    <3> DEFINE e == blocks[i][n]
    <3>2. e = all[m]
      BY <3>1, Zenon
    <3> HIDE DEF e
    <3>3. InCache(e.path) /\ e.stamp # 0 /\ e.stamp = nodes[e.path].stamp /\ e.names = nodes[e.path].names
      BY <3>2, <1>1, Zenon
    <3> QED
      BY <3>3, Zenon DEF e
  <2>6. ASSUME NEW d \in Dirs, InCache(d), nodes[d].stamp # 0
        PROVE  \E i \in DOMAIN blocks : \E n \in 1 .. Len(blocks[i]) : blocks[i][n].path = d
    <3>1. PICK m \in 1 .. Len(all) : all[m].path = d
      BY <2>6, <1>1, Zenon
    <3>2. PICK i \in DOMAIN blocks : \E n \in 1 .. Len(blocks[i]) : blocks[i][n] = all[m]
      BY <2>4, Zenon DEF SharedOut
    <3> QED
      BY <3>1, <3>2, Zenon
  <2>7. \A i, k \in DOMAIN blocks : \A n \in 1 .. Len(blocks[i]), m \in 1 .. Len(blocks[k]) :
            blocks[i][n].path = blocks[k][m].path => i = k /\ n = m
    BY <2>4, <1>1, Zenon DEF SharedOut
  <2> QED
    BY <2>4, <2>5, <2>6, <2>7, SMTT(30) DEF blocks
<1> QED
  BY <1>4, <1>5, Zenon
-----------------------------------------------------------------------------
(* Types *)

\* A change of the tree by another program.
TreeChange ==
    \/ \E d \in Dirs, f \in FileNames : CreateFile(d, f) \/ DeleteFile(d, f)
    \/ \E d \in Dirs : Mkdir(d) \/ RemoveAll(d) \/ Chmod(d)

\* Such a change leaves the finder alone.
LEMMA TreeChangeType ==
    ASSUME TypeOK, TreeChange
    PROVE  /\ disk' \in DiskType /\ clock' = clock + 1 /\ quiet' = FALSE
           /\ UNCHANGED <<world, db, run, stats, unmerged, loadError, nodes, jobs, modified, errs,
                          dumping, result>>
<1>0. disk \in DiskType /\ clock \in Nat
  BY Zenon DEF TypeOK
<1>1. ASSUME NEW d \in Dirs, NEW f \in FileNames, CreateFile(d, f) \/ DeleteFile(d, f)
      PROVE  disk' \in DiskType
  BY <1>0, <1>1, SMTT(30) DEF CreateFile, DeleteFile, Change, Touched, DiskType
<1>2. ASSUME NEW d \in Dirs, Mkdir(d)
      PROVE  disk' \in DiskType
  <2>1. ParentOf[d] \in Dirs
    BY <1>2, TreeAssumption, Zenon DEF Mkdir
  <2>2. Touched(ParentOf[d]) \in DiskType
    BY <1>0, <2>1, SMTT(30) DEF Touched, DiskType
  <2>3. disk' = [Touched(ParentOf[d]) EXCEPT ![d] = EmptyDir(clock + 1)]
    BY <1>2, Zenon DEF Mkdir, Change
  <2>4. EmptyDir(clock + 1) \in [stamp : Nat, files : SUBSET FileNames, readable : BOOLEAN]
    <3>1. clock + 1 \in Nat /\ {} \in SUBSET FileNames
      BY <1>0, SMTT(30)
    <3> QED
      BY <3>1, Zenon DEF EmptyDir
  <2> DEFINE R == [stamp : Nat, files : SUBSET FileNames, readable : BOOLEAN]
             new == EmptyDir(clock + 1)
             old == Touched(ParentOf[d])
  <2>5. old \in [Dirs -> R] /\ new \in R /\ disk' = [old EXCEPT ![d] = new]
    BY <2>2, <2>3, <2>4, Zenon DEF DiskType
  <2> HIDE DEF R, new, old
  <2>6. disk' \in [Dirs -> R]
    BY <2>5, Zenon
  <2> QED
    BY <2>6, Zenon DEF DiskType, R
<1>3. ASSUME NEW d \in Dirs, RemoveAll(d)
      PROVE  disk' \in DiskType
  <2>1. ParentOf[d] \in Dirs
    BY <1>3, TreeAssumption, Zenon DEF RemoveAll
  <2> QED
    BY <1>0, <1>3, <2>1, SMTT(30) DEF RemoveAll, Change, Touched, DiskType, NoDir, EmptyDir
<1>4. ASSUME NEW d \in Dirs, Chmod(d)
      PROVE  disk' \in DiskType
  BY <1>0, <1>4, SMTT(30) DEF Chmod, Change, Touched, DiskType
<1>5. disk' \in DiskType
  BY <1>1, <1>2, <1>3, <1>4, Zenon DEF TreeChange
<1>6. /\ clock' = clock + 1 /\ quiet' = FALSE
      /\ UNCHANGED <<world, db, run, stats, unmerged, loadError, nodes, jobs, modified, errs,
                     dumping, result>>
  BY Zenon DEF TreeChange, CreateFile, DeleteFile, Mkdir, RemoveAll, Chmod, Change
<1> QED
  BY <1>5, <1>6, Zenon

\* MergeIn yields nodes.
LEMMA MergeInType ==
    ASSUME TypeOK, run.pc = "load", NEW i \in DOMAIN db.blocks, Len(stats[i]) = Len(db.blocks[i])
    PROVE  MergeIn(i) \in NodesType
<1>1. db.blocks[i] \in Seq(EntryType) /\ stats[i] \in Seq(Nat)
  BY SMTT(30) DEF TypeOK, DbType, LoadTypes
<1>2. \A n \in 1 .. Len(db.blocks[i]) : db.blocks[i][n] \in EntryType /\ stats[i][n] \in Nat
  BY <1>1, SMTT(30)
<1>3. \A n \in 1 .. Len(db.blocks[i]) : db.blocks[i][n].names \in SUBSET FileNames
  BY <1>2, Zenon DEF EntryType
<1>4. nodes \in NodesType
  BY Zenon DEF TypeOK
<1> QED
  BY <1>2, <1>3, <1>4, Zenon DEF MergeIn, EntriesOf, NodesType

\* JobDone keeps the pool's jobs not empty.
LEMMA JobDoneType ==
    ASSUME jobs \in SUBSET Seq(Steps), <<>> \notin jobs, NEW job \in jobs,
           NEW started \in SUBSET Seq(Steps), <<>> \notin started, JobDone(job, started)
    PROVE  jobs' \in SUBSET Seq(Steps) /\ <<>> \notin jobs'
<1>1. job \in Seq(Steps) /\ job # <<>>
  BY Zenon
<1>2. Tail(job) \in Seq(Steps)
  BY <1>1, SMTT(30)
<1> QED
  BY <1>2, Zenon DEF JobDone

\* A step of a job is well formed.
LEMMA HeadType ==
    ASSUME jobs \in SUBSET Seq(Steps), <<>> \notin jobs, NEW job \in jobs
    PROVE  /\ Head(job)[1] \in {"stat", "list"} /\ Head(job)[2] \in Dirs
           /\ Head(job) = <<Head(job)[1], Head(job)[2]>>
           /\ Len(job) \in Nat \ {0} /\ Head(job) = job[1]
           /\ Len(Tail(job)) = Len(job) - 1
           /\ \A n \in 1 .. Len(Tail(job)) : Tail(job)[n] = job[n + 1]
<1>1. job \in Seq(Steps) /\ job # <<>>
  BY Zenon
<1>2. Head(job) \in Steps /\ Head(job) = job[1] /\ Len(job) \in Nat \ {0}
  BY <1>1, SMTT(30)
<1>3. Len(Tail(job)) = Len(job) - 1 /\ \A n \in 1 .. Len(Tail(job)) : Tail(job)[n] = job[n + 1]
  BY <1>1, SMTT(30)
<1> QED
  BY <1>2, <1>3, SMTT(30) DEF Steps

\* The state is always well formed.
LEMMA TypeStep == TypeOK /\ [Next]_vars => TypeOK'
<1> SUFFICES ASSUME TypeOK, [Next]_vars
             PROVE  TypeOK'
  BY Zenon
<1>1. CASE TreeChange
  <2>1. /\ disk' \in DiskType /\ clock' = clock + 1 /\ quiet' = FALSE
        /\ UNCHANGED <<world, db, run, stats, unmerged, loadError, nodes, jobs, modified, errs,
                       dumping, result>>
    BY <1>1, TreeChangeType, Zenon
  <2>2. LoadTypes' <=> LoadTypes
    BY <2>1, Zenon DEF LoadTypes
  <2>3. clock \in Nat
    BY Zenon DEF TypeOK
  <2>4. clock' \in Nat
    BY <2>1, <2>3, SMTT(30)
  <2>5. quiet' \in BOOLEAN
    BY <2>1, Zenon
  <2> QED
    <3>1. /\ world \in Worlds /\ db \in DbType /\ run \in RunType /\ loadError \in BOOLEAN
          /\ nodes \in NodesType /\ jobs \in SUBSET Seq(Steps) /\ <<>> \notin jobs
          /\ modified \in BOOLEAN /\ errs \subseteq Dirs /\ dumping \in BOOLEAN
          /\ result \in {"none", "ok", "error"}
      BY Zenon DEF TypeOK
    <3>2. run.pc = "load" => LoadTypes
      BY Zenon DEF TypeOK
    <3>3. /\ world' \in Worlds /\ db' \in DbType /\ run' \in RunType /\ loadError' \in BOOLEAN
          /\ nodes' \in NodesType /\ jobs' \in SUBSET Seq(Steps) /\ <<>> \notin jobs'
          /\ modified' \in BOOLEAN /\ errs' \subseteq Dirs /\ dumping' \in BOOLEAN
          /\ result' \in {"none", "ok", "error"}
      BY <2>1, <3>1, Zenon
    <3>4. run'.pc = "load" => LoadTypes'
      BY <2>1, <2>2, <3>2, Zenon
    <3> QED
      BY <2>1, <2>4, <2>5, <3>3, <3>4, Zenon DEF TypeOK
<1>2. ASSUME NEW i \in DOMAIN db.blocks, DamageDb(i)
      PROVE  TypeOK'
  <2>1. i \in Nat
    BY SMTT(30) DEF TypeOK, DbType, LoadTypes
  <2>2. db' \in DbType /\ db'.blocks = db.blocks
    BY <1>2, <2>1, Zenon DEF TypeOK, DamageDb, DbType
  <2>3. run.pc = "idle" /\ UNCHANGED <<world, disk, clock, run, runVars>>
    BY <1>2, Zenon DEF DamageDb
  <2> QED
    BY <2>2, <2>3, Zenon DEF TypeOK, runVars
<1>3. ASSUME NEW exclude \in world.excludes, New(exclude)
      PROVE  TypeOK'
  <2>1. exclude \in SUBSET Dirs
    BY ParamsAssumption, Zenon DEF TypeOK, World
  <2>2. run' \in RunType /\ nodes' \in NodesType
    BY <1>3, <2>1, SMTT(30) DEF New, RunType, NodesType, NoNode, TypeOK
  <2>3. /\ stats' \in [DOMAIN db.blocks -> Seq(Nat)]
        /\ \A i \in DOMAIN db.blocks : Len(stats'[i]) = 0 /\ Len(db.blocks[i]) \in Nat
    BY <1>3, SMTT(30) DEF New, TypeOK, DbType
  <2>4. LoadTypes'
    BY <1>3, <2>3, SMTT(30) DEF New, LoadTypes
  <2> QED
    BY <1>3, <2>2, <2>4, Zenon DEF New, TypeOK
<1>4. ASSUME NEW i \in DOMAIN db.blocks, StatEntry(i)
      PROVE  TypeOK'
  <2> DEFINE n == Len(stats[i]) + 1
             d == db.blocks[i][n].path
  <2>1. run.pc = "load" /\ i \in unmerged /\ n <= Len(db.blocks[i])
    BY <1>4, Zenon DEF StatEntry, EntriesOf
  <2>2. stats[i] \in Seq(Nat) /\ db.blocks[i] \in Seq(EntryType)
    BY <2>1, SMTT(30) DEF TypeOK, DbType, LoadTypes
  <2>3. d \in Dirs
    <3>1. n \in 1 .. Len(db.blocks[i])
      BY <2>1, <2>2, SMTT(30)
    <3>2. db.blocks[i][n] \in EntryType
      BY <2>2, <3>1, SMTT(30)
    <3> QED
      BY <3>2, Zenon DEF EntryType
  <2>4. PICK stamp \in {0, disk[d].stamp} : stats' = [stats EXCEPT ![i] = Append(@, stamp)]
    BY <1>4, Zenon DEF StatEntry, EntriesOf, Lstat
  <2>5. errs' \in SUBSET Dirs
    BY <1>4, <2>3, ZenonT(40) DEF StatEntry, EntriesOf, ErrsOf, TypeOK
  <2>6. stamp \in Nat
    BY <2>3, <2>4, SMTT(30) DEF TypeOK, DiskType
  <2>7. /\ stats' \in [DOMAIN db.blocks -> Seq(Nat)]
        /\ \A k \in DOMAIN db.blocks : Len(stats'[k]) <= Len(db.blocks[k])
    BY <2>1, <2>2, <2>4, <2>6, SMTT(30) DEF TypeOK, LoadTypes
  <2>8. LoadTypes'
    BY <1>4, <2>1, <2>7, Zenon DEF StatEntry, LoadTypes, TypeOK
  <2> QED
    BY <1>4, <2>5, <2>8, <2>1, Zenon DEF TypeOK, StatEntry
<1>5. ASSUME NEW i \in DOMAIN db.blocks, CombineBlock(i)
      PROVE  TypeOK'
  <2>1. run.pc = "load" /\ unmerged' \in SUBSET DOMAIN db.blocks
    BY <1>5, Zenon DEF CombineBlock, TypeOK, LoadTypes
  <2>2. nodes' \in NodesType
    BY <1>5, MergeInType, Zenon DEF CombineBlock, EntriesOf, TypeOK
  <2>3. LoadTypes'
    BY <1>5, <2>1, Zenon DEF CombineBlock, LoadTypes, TypeOK
  <2> QED
    BY <1>5, <2>1, <2>2, <2>3, Zenon DEF CombineBlock, TypeOK
<1>6. CASE StartListing
  <2>1. jobs' \in SUBSET Seq(Steps) /\ <<>> \notin jobs'
    BY <1>6, DirsToWalkIs, SMTT(30) DEF StartListing, TypeOK, DbType
  <2> QED
    BY <1>6, <2>1, Zenon DEF StartListing, TypeOK, RunType, LoadTypes
<1>7. CASE StartWithoutExternalCache
  <2>1. jobs' \in SUBSET Seq(Steps) /\ <<>> \notin jobs'
    BY <1>7, TreeAssumption, SMTT(30) DEF StartWithoutExternalCache, Steps
  <2> QED
    BY <1>7, <2>1, Zenon DEF StartWithoutExternalCache, TypeOK, NewNode, NoNode, RunType, NodesType
<1>8. ASSUME NEW job \in jobs, StatDir(job)
      PROVE  TypeOK'
  <2> DEFINE d == Head(job)[2]
  <2>1. d \in Dirs
    BY HeadType, Zenon DEF TypeOK
  <2>2. PICK fails \in Fails("Lstat") :
            LET stamp == IF fails THEN 0 ELSE Lstat(d)
            IN  /\ errs' = IF stamp = 0 THEN errs \cup ErrsOf(d, fails) ELSE errs
                /\ IF nodes[d].stamp = stamp
                   THEN /\ JobDone(job, {})
                        /\ UNCHANGED <<nodes, modified>>
                   ELSE /\ nodes' = [nodes EXCEPT ![d].stamp = stamp, ![d].names = {}]
                        /\ modified' = TRUE
                        /\ JobDone(job, IF stamp # 0 THEN {<<<<"list", d>>>>} ELSE {})
    BY <1>8, Zenon DEF StatDir
  <2>3. (IF fails THEN 0 ELSE Lstat(d)) \in Nat
    BY <2>1, Zenon DEF Lstat, TypeOK, DiskType
  <2>4. errs' \in SUBSET Dirs /\ nodes' \in NodesType /\ modified' \in BOOLEAN
    <3> DEFINE stamp == IF fails THEN 0 ELSE Lstat(d)
    <3>1. errs' \in SUBSET Dirs
      BY <2>1, <2>2, Zenon DEF ErrsOf, TypeOK
    <3>2. stamp \in Nat /\ (nodes' = [nodes EXCEPT ![d].stamp = stamp, ![d].names = {}] \/ nodes' = nodes)
      BY <2>2, <2>3, Zenon
    <3> HIDE DEF stamp
    <3>3. nodes' \in NodesType
      <4>1. nodes \in NodesType /\ d \in Dirs
        BY <2>1, Zenon DEF TypeOK
      <4> QED
        BY ONLY <3>2, <4>1, SMTT(30) DEF NodesType
    <3>4. modified' \in BOOLEAN
      BY <2>2, Zenon DEF TypeOK
    <3> QED
      BY <3>1, <3>3, <3>4, Zenon
  <2>5. \E started \in SUBSET Seq(Steps) : <<>> \notin started /\ JobDone(job, started)
    <3>1. {<<<<"list", d>>>>} \in SUBSET Seq(Steps) /\ <<>> \notin {<<<<"list", d>>>>}
      BY <2>1, SMTT(30) DEF Steps
    <3> QED
      BY <2>2, <3>1, Zenon
  <2>6. jobs' \in SUBSET Seq(Steps) /\ <<>> \notin jobs'
    BY <2>5, JobDoneType, Zenon DEF TypeOK
  <2> QED
    BY <1>8, <2>4, <2>6, Zenon DEF StatDir, TypeOK
<1>9. ASSUME NEW job \in jobs, ListDir(job)
      PROVE  TypeOK'
  <2> DEFINE d == Head(job)[2]
             started(subdirs) == {<<<<"stat", c>>>> : c \in {c \in subdirs : ~ nodes[c].inTree}}
  <2>1. d \in Dirs
    BY HeadType, Zenon DEF TypeOK
  <2>2. PICK files \in SUBSET FileNames, subdirs \in SUBSET Dirs :
            nodes' = Listed(d, RelevantFiles(files), subdirs) /\ JobDone(job, started(subdirs))
    <3>1. \A files : RelevantDirs(d, files) \in SUBSET Dirs
      BY Zenon DEF RelevantDirs, ChildrenOf
    <3>2. disk[d].files \in SUBSET FileNames
      BY <2>1, Zenon DEF TypeOK, DiskType
    <3> QED
      BY <1>9, <3>1, <3>2, Zenon DEF ListDir
  <2>3. RelevantFiles(files) \in SUBSET FileNames
    BY Zenon DEF RelevantFiles
  <2>4. nodes' \in NodesType
    <3> DEFINE names == RelevantFiles(files)
    <3>1. names \in SUBSET FileNames /\ nodes \in NodesType
      BY <2>3, Zenon DEF TypeOK
    <3> HIDE DEF names
    <3>2. Listed(d, names, subdirs) \in NodesType
      BY <3>1, Zenon DEF Listed, NodesType, NewNode
    <3> QED
      BY <2>2, <3>2, Zenon DEF names
  <2>5. errs' \in SUBSET Dirs
    BY <1>9, <2>1, Zenon DEF ListDir, ErrsOf, TypeOK
  <2>6. started(subdirs) \in SUBSET Seq(Steps) /\ <<>> \notin started(subdirs)
    BY SMTT(30) DEF Steps
  <2>7. jobs' \in SUBSET Seq(Steps) /\ <<>> \notin jobs'
    BY <2>2, <2>6, JobDoneType, Zenon DEF TypeOK
  <2> QED
    BY <1>9, <2>4, <2>5, <2>7, Zenon DEF ListDir, TypeOK
<1>10. CASE Loaded
  BY <1>10, Zenon DEF Loaded, TypeOK, RunType
<1>11. CASE DumpDb
  <2>1. SerializeDb \in Seq(Seq(EntryType))
    BY SerializeDbIs, Zenon
  <2> QED
    BY <1>11, <2>1, Zenon DEF DumpDb, TypeOK, DbType, RunType
<1>12. CASE Exit
  BY <1>12, Zenon DEF Exit, TypeOK, NoNode, RunType, NodesType
<1>13. CASE UNCHANGED vars
  BY <1>13, Zenon DEF vars, runVars, TypeOK, LoadTypes
<1> QED
  BY <1>1, <1>2, <1>3, <1>4, <1>5, <1>6, <1>7, <1>8, <1>9, <1>10, <1>11, <1>12, <1>13, Zenon
     DEF Next, Environment, LoadStep, TreeChange
\* An entry of the db is well formed.
LEMMA EntryTyped ==
    ASSUME TypeOK, NEW i \in DOMAIN db.blocks, NEW n \in 1 .. Len(db.blocks[i])
    PROVE  /\ db.blocks[i][n].path \in Dirs /\ db.blocks[i][n].stamp \in Nat
           /\ Len(db.blocks[i]) \in Nat /\ DOMAIN db.blocks[i] = 1 .. Len(db.blocks[i])
<1>1. db.blocks \in Seq(Seq(EntryType))
  BY Zenon DEF TypeOK, DbType
<1>2. db.blocks[i] \in Seq(EntryType)
  BY <1>1, SMTT(30)
<1>3. db.blocks[i][n] \in EntryType
  BY <1>2, SMTT(30)
<1> QED
  BY <1>2, <1>3, SMTT(30) DEF EntryType

\* TypeOK holds before the first run.
LEMMA TypeInit == Init => TypeOK
<1> SUFFICES ASSUME Init PROVE TypeOK
  BY Zenon
<1>1. EmptyDir(1) \in [stamp : Nat, files : SUBSET FileNames, readable : BOOLEAN]
  <2>1. 1 \in Nat /\ {} \in SUBSET FileNames
    BY Zenon
  <2> QED
    BY <2>1, Zenon DEF EmptyDir
<1>2. NoDir \in [stamp : Nat, files : SUBSET FileNames, readable : BOOLEAN]
  <2>1. 0 \in Nat /\ {} \in SUBSET FileNames
    BY Zenon
  <2> QED
    BY <2>1, Zenon DEF EmptyDir, NoDir
<1>3. disk \in DiskType
  BY <1>1, <1>2, Zenon DEF Init, DiskType
<1>4. NoDb \in DbType
  BY SMTT(30) DEF NoDb, DbType
<1>5. run \in RunType /\ run.pc = "idle"
  BY Zenon DEF Init, RunType
<1>6. nodes \in NodesType
  BY Zenon DEF Init, NoNode, NodesType
<1> QED
  BY <1>3, <1>4, <1>5, <1>6, Zenon DEF Init, TypeOK

-----------------------------------------------------------------------------
(* Dumps *)

\* What is to be walked depends on the block and on its stats.
LEMMA DirsToWalkSame ==
    ASSUME UNCHANGED db, NEW i, stats'[i] = stats[i]
    PROVE  DirsToWalk(i)' = DirsToWalk(i)
BY Zenon DEF DirsToWalk, ListSteps, EntriesOf

\* A directory is walked because it has changed.
LEMMA WalkedChanged ==
    ASSUME TypeOK, run.pc = "load", NEW i \in DOMAIN db.blocks, DirsToWalk(i) # <<>>,
           Len(stats[i]) = Len(db.blocks[i]),
           \A n \in 1 .. Len(stats[i]) : stats[i][n] \in {0, disk[db.blocks[i][n].path].stamp}
    PROVE  SomeChanged
<1>1. db.blocks \in Seq(Seq(EntryType))
  BY Zenon DEF TypeOK, DbType
<1>2. DirsToWalk(i) \in Seq(Steps)
  BY <1>1, DirsToWalkIs, ZenonT(40)
<1>3. 1 \in 1 .. Len(DirsToWalk(i))
  BY <1>2, SMTT(30)
<1>4. PICK n \in 1 .. Len(db.blocks[i]) : stats[i][n] \notin {0, db.blocks[i][n].stamp}
  BY <1>1, <1>3, DirsToWalkIs, Zenon
<1>5. disk[db.blocks[i][n].path].stamp # db.blocks[i][n].stamp
  BY <1>4, Zenon
<1>6. db.blocks[i][n] \in SavedEntries
  <2>1. db.blocks[i] \in Seq(EntryType)
    BY <1>1, SMTT(30)
  <2>2. db.blocks[i][n] \in Range(db.blocks[i])
    BY <2>1, SMTT(30) DEF Range
  <2> QED
    BY <2>2, ZenonT(40) DEF SavedEntries
<1> QED
  BY <1>5, <1>6, Zenon DEF SomeChanged

\* Every action of the tree and of the Finder preserves DumpInv.
LEMMA DumpStep == TypeOK /\ DumpInv /\ [Next]_vars => DumpInv'
<1> SUFFICES ASSUME TypeOK, DumpInv, [Next]_vars
             PROVE  DumpInv'
  BY Zenon
<1>1. CASE TreeChange
  <2>1. quiet' = FALSE /\ UNCHANGED <<db, run, stats, unmerged, loadError, jobs, modified, dumping, result>>
    BY <1>1, TreeChangeType, Zenon
  <2>2. \A i : DirsToWalk(i)' = DirsToWalk(i)
    BY <2>1, DirsToWalkSame, Zenon
  <2> QED
    BY <2>1, <2>2, Zenon DEF DumpInv, Usable
<1>2. ASSUME NEW i \in DOMAIN db.blocks, DamageDb(i)
      PROVE  DumpInv'
  BY <1>2, ZenonT(40) DEF DamageDb, DumpInv, runVars
<1>3. ASSUME NEW exclude \in world.excludes, New(exclude)
      PROVE  DumpInv'
  <2>1. \A i \in DOMAIN db.blocks : Len(stats'[i]) = 0
    BY <1>3, Zenon DEF New
  <2> QED
    BY <1>3, <2>1, SMTT(30) DEF New, DumpInv, Usable
<1>4. ASSUME NEW i \in DOMAIN db.blocks, StatEntry(i)
      PROVE  DumpInv'
  <2> DEFINE m == Len(stats[i]) + 1
             d == db.blocks[i][m].path
  <2>1. run.pc = "load" /\ i \in unmerged /\ UNCHANGED <<disk, db, run, quiet, unmerged, loadError, modified, result>>
    BY <1>4, Zenon DEF StatEntry
  <2>2. stats \in [DOMAIN db.blocks -> Seq(Nat)]
    BY <2>1, Zenon DEF TypeOK, LoadTypes
  <2>3. PICK stamp \in {0, disk[d].stamp} : stats' = [stats EXCEPT ![i] = Append(@, stamp)]
    BY <1>4, Zenon DEF StatEntry, EntriesOf, Lstat
  <2>4. \A k \in DOMAIN db.blocks \ unmerged : DirsToWalk(k)' = DirsToWalk(k) /\ stats'[k] = stats[k]
    BY <2>1, <2>2, <2>3, DirsToWalkSame, Zenon
  <2>5. ASSUME quiet, NEW k \in DOMAIN db.blocks, NEW n \in 1 .. Len(stats'[k])
        PROVE  stats'[k][n] \in {0, disk[db.blocks[k][n].path].stamp}
    <3>1. CASE n \in 1 .. Len(stats[k])
      <4>1. stats'[k][n] = stats[k][n]
        BY <2>2, <2>3, <3>1, SMTT(30)
      <4> QED
        BY <2>1, <2>5, <3>1, <4>1, Zenon DEF DumpInv
    <3>2. CASE n \notin 1 .. Len(stats[k])
      <4>1. k = i /\ n = m
        BY <2>2, <2>3, <3>2, SMTT(30)
      <4>2. stats'[k][n] = stamp
        BY <2>2, <2>3, <4>1, SMTT(30)
      <4> QED
        BY <2>3, <4>1, <4>2, Zenon
    <3> QED
      BY <3>1, <3>2, Zenon
  <2>6. SomeChanged' <=> SomeChanged
    BY <2>1, SMTT(30) DEF SomeChanged, SavedEntries
  <2> QED
    BY <2>1, <2>4, <2>5, <2>6, ZenonT(30) DEF DumpInv, Usable
<1>5. ASSUME NEW i \in DOMAIN db.blocks, CombineBlock(i)
      PROVE  DumpInv'
  <2>1. /\ run.pc = "load" /\ i \in unmerged /\ unmerged' = unmerged \ {i}
        /\ UNCHANGED <<disk, db, run, quiet, stats, jobs, dumping, result>>
    BY <1>5, Zenon DEF CombineBlock
  <2>2. \A k : DirsToWalk(k)' = DirsToWalk(k)
    BY <2>1, DirsToWalkSame, Zenon
  <2>3. SomeChanged' <=> SomeChanged
    BY <2>1, SMTT(30) DEF SomeChanged, SavedEntries
  <2>4. CASE i \in db.bad
    <3>1. loadError' = TRUE /\ modified' = modified
      BY <1>5, <2>4, Zenon DEF CombineBlock
    <3> QED
      BY <2>1, <2>2, <2>3, <2>4, <3>1, Zenon DEF DumpInv, Usable
  <2>5. CASE i \notin db.bad
    <3>1. /\ loadError' = loadError /\ modified' = (modified \/ DirsToWalk(i) # <<>>)
          /\ Len(stats[i]) = Len(db.blocks[i])
      BY <1>5, <2>5, Zenon DEF CombineBlock, EntriesOf
    <3>2. quiet /\ DirsToWalk(i) # <<>> => SomeChanged
      BY <2>1, <3>1, WalkedChanged, Zenon DEF DumpInv
    <3> QED
      BY <2>1, <2>2, <2>3, <3>1, <3>2, Zenon DEF DumpInv, Usable
  <2> QED
    BY <2>4, <2>5, Zenon
<1>6. CASE StartListing
  <2>1. /\ run.pc = "load" /\ unmerged = {} /\ run' = [run EXCEPT !.pc = IF loadError THEN "scan" ELSE "walk"]
        /\ jobs' = IF loadError THEN jobs ELSE {DirsToWalk(i) : i \in DOMAIN db.blocks} \ {<<>>}
        /\ UNCHANGED <<disk, db, quiet, modified, dumping, result>>
    BY <1>6, Zenon DEF StartListing
  <2>2. SomeChanged' <=> SomeChanged
    BY <2>1, SMTT(30) DEF SomeChanged, SavedEntries
  <2>3. ~ loadError /\ db.bad = {} /\ jobs' # {} => modified
    BY <2>1, Zenon DEF DumpInv
  <2> QED
    BY <2>1, <2>2, <2>3, Zenon DEF DumpInv, Usable, TypeOK, RunType
<1>7. CASE StartWithoutExternalCache
  <2>1. SomeChanged' <=> SomeChanged
    BY <1>7, SMTT(30) DEF SomeChanged, SavedEntries, StartWithoutExternalCache
  <2> QED
    BY <1>7, <2>1, Zenon DEF StartWithoutExternalCache, DumpInv, Usable, TypeOK, RunType
<1>8. ASSUME NEW job \in jobs, StatDir(job) \/ ListDir(job)
      PROVE  DumpInv'
  <2>1. run.pc = "walk" /\ UNCHANGED <<disk, db, run, quiet, result, dumping>> /\ (modified => modified')
    <3>1. CASE StatDir(job)
      BY <3>1, Zenon DEF StatDir
    <3>2. CASE ListDir(job)
      BY <3>2, Zenon DEF ListDir
    <3> QED
      BY <1>8, <3>1, <3>2, Zenon
  <2>2. SomeChanged' <=> SomeChanged
    BY <2>1, SMTT(30) DEF SomeChanged, SavedEntries
  <2> QED
    BY <2>1, <2>2, Zenon DEF DumpInv, Usable
<1>9. CASE Loaded
  <2>1. SomeChanged' <=> SomeChanged
    BY <1>9, SMTT(30) DEF SomeChanged, SavedEntries, Loaded
  <2> QED
    BY <1>9, <2>1, Zenon DEF Loaded, DumpInv, Usable, TypeOK, RunType
<1>10. CASE DumpDb
  BY <1>10, Zenon DEF DumpDb, DumpInv, Usable
<1>11. CASE Exit
  BY <1>11, Zenon DEF Exit, DumpInv, Usable, TypeOK, RunType
<1>12. CASE UNCHANGED vars
  <2>1. SomeChanged' <=> SomeChanged
    BY <1>12, SMTT(30) DEF SomeChanged, SavedEntries, vars
  <2>2. \A k : DirsToWalk(k)' = DirsToWalk(k)
    BY <1>12, DirsToWalkSame, Zenon DEF vars, runVars
  <2> QED
    BY <1>12, <2>1, <2>2, Zenon DEF vars, runVars, DumpInv, Usable
<1> QED
  BY <1>1, <1>2, <1>3, <1>4, <1>5, <1>6, <1>7, <1>8, <1>9, <1>10, <1>11, <1>12, Zenon
     DEF Next, Environment, LoadStep, TreeChange

\* For every tree, every change of it and every number of threads: a run that
\* finds nothing changed does not rewrite the db.
THEOREM DumpsAreNeeded == Spec => []NoNeedlessDump
<1>1. Init => TypeOK /\ DumpInv
  <2>1. Init => DumpInv
    BY SMTT(30) DEF Init, DumpInv
  <2> QED
    BY <2>1, TypeInit, Zenon
<1>2. TypeOK /\ DumpInv /\ [Next]_vars => TypeOK' /\ DumpInv'
  BY TypeStep, DumpStep, Zenon
<1>3. TypeOK /\ DumpInv => NoNeedlessDump
  BY Zenon DEF DumpInv, NoNeedlessDump, Usable, SomeChanged
<1> QED
  BY <1>1, <1>2, <1>3, PTL DEF Spec
-----------------------------------------------------------------------------
(* Changes of the tree *)

\* A change touches the directory t, in which a directory and what is below it
\* has gone, or one has been made.
Changed(t, gone, made) ==
    /\ Exists(t) /\ t \notin gone /\ disk'[t].stamp = clock + 1
    /\ \A x \in gone : x # Root /\ disk'[x].stamp = 0 /\ ParentOf[x] \in gone \cup {t}
    /\ \A x \in Dirs \ {Root} : ParentOf[x] \in gone => x \in gone
    /\ \A x \in made : x # Root /\ x # t /\ ~ Exists(x) /\ disk'[x].stamp = clock + 1 /\ ParentOf[x] = t
    /\ \A x \in Dirs \ (gone \cup made \cup {t}) : disk'[x] = disk[x]

\* Every change that another program makes is of the form Changed; with
\* DirsStay none makes or removes a directory while a run loads.
LEMMA TreeChangeIs ==
    ASSUME TypeOK, ClockInv, TreeChange
    PROVE  \E t \in Dirs, gone \in SUBSET Dirs, made \in SUBSET Dirs :
              /\ Changed(t, gone, made)
              /\ DirsStay /\ run.pc \notin {"idle", "up"} => gone = {} /\ made = {}
<1>0. disk \in DiskType /\ clock \in Nat
  BY Zenon DEF TypeOK
<1>1. ASSUME NEW d \in Dirs, NEW f \in FileNames, CreateFile(d, f) \/ DeleteFile(d, f)
      PROVE  Changed(d, {}, {})
  BY <1>0, <1>1, ZenonT(40) DEF CreateFile, DeleteFile, Change, Touched, DiskType, Changed
<1>2. ASSUME NEW d \in Dirs, Chmod(d)
      PROVE  Changed(d, {}, {})
  BY <1>0, <1>2, Zenon DEF Chmod, Change, Touched, DiskType, Changed
<1>3. ASSUME NEW d \in Dirs, Mkdir(d)
      PROVE  /\ ParentOf[d] \in Dirs /\ Changed(ParentOf[d], {}, {d})
             /\ ~ (DirsStay /\ run.pc \notin {"idle", "up"})
  <2>1. ParentOf[d] \in Dirs /\ ParentOf[d] # d
    BY <1>3, TreeAssumption, Zenon DEF Mkdir
  <2>2. disk' = [Touched(ParentOf[d]) EXCEPT ![d] = EmptyDir(clock + 1)]
    BY <1>3, Zenon DEF Mkdir, Change
  <2>3. Touched(ParentOf[d])[ParentOf[d]].stamp = clock + 1
    BY <1>0, <2>1, Zenon DEF Touched, DiskType
  <2>4. \A x \in Dirs \ {ParentOf[d]} : Touched(ParentOf[d])[x] = disk[x]
    BY <1>0, <2>1, Zenon DEF Touched, DiskType
  <2>5. DOMAIN Touched(ParentOf[d]) = Dirs
    BY <1>0, Zenon DEF Touched, DiskType
  <2>6. EmptyDir(clock + 1).stamp = clock + 1
    BY Zenon DEF EmptyDir
  <2>7. disk'[d].stamp = clock + 1
    BY <2>2, <2>5, <2>6, Zenon
  <2>8. disk'[ParentOf[d]].stamp = clock + 1
    BY <2>1, <2>2, <2>3, <2>5, Zenon
  <2>9. \A x \in Dirs \ {d, ParentOf[d]} : disk'[x] = disk[x]
    BY <2>2, <2>4, <2>5, Zenon
  <2>10. ~ (DirsStay /\ run.pc \notin {"idle", "up"})
    BY <1>3, Zenon DEF Mkdir, Change, DirsStay
  <2> QED
    BY <1>3, <2>1, <2>7, <2>8, <2>9, <2>10, Zenon DEF Mkdir, Changed
<1>4. ASSUME NEW d \in Dirs, RemoveAll(d)
      PROVE  /\ ParentOf[d] \in Dirs /\ Changed(ParentOf[d], Below(d), {})
             /\ ~ (DirsStay /\ run.pc \notin {"idle", "up"})
  <2>1. d # Root /\ Exists(d) /\ ParentOf[d] \in Dirs /\ Exists(ParentOf[d])
    BY <1>4, TreeAssumption, Zenon DEF RemoveAll, ClockInv
  <2>2. \A x \in Dirs : disk'[x] = IF x \in Below(d) THEN NoDir ELSE Touched(ParentOf[d])[x]
    BY <1>4, Zenon DEF RemoveAll, Change
  <2>3. Touched(ParentOf[d])[ParentOf[d]].stamp = clock + 1
    BY <1>0, <2>1, Zenon DEF Touched, DiskType
  <2>4. \A x \in Dirs \ {ParentOf[d]} : Touched(ParentOf[d])[x] = disk[x]
    BY <1>0, <2>1, Zenon DEF Touched, DiskType
  <2>5. ParentOf[d] \notin Below(d)
    BY <2>1, AboveOrder, Zenon DEF Below
  <2>6. NoDir.stamp = 0
    BY Zenon DEF EmptyDir, NoDir
  <2>7. \A x \in Dirs \ {Root} : x \in Below(d) <=> x = d \/ ParentOf[x] \in Below(d)
    <3> TAKE x \in Dirs \ {Root}
    <3>1. ParentOf[x] \in Dirs /\ Above[x] = {x} \cup Above[ParentOf[x]]
      BY AboveDef, TreeAssumption, Zenon
    <3> QED
      BY <3>1, Zenon DEF Below
  <2>8. Root \notin Below(d)
    BY <2>1, AboveDef, Zenon DEF Below
  <2>9. Below(d) \in SUBSET Dirs
    BY Zenon DEF Below
  <2>10. ~ (DirsStay /\ run.pc \notin {"idle", "up"})
    BY <1>4, Zenon DEF RemoveAll, Change, DirsStay
  <2> QED
    BY <2>1, <2>2, <2>3, <2>4, <2>5, <2>6, <2>7, <2>8, <2>9, <2>10, Zenon DEF Changed
<1>5. \A d \in Dirs : Below(d) \in SUBSET Dirs /\ {d} \in SUBSET Dirs /\ {} \in SUBSET Dirs
  BY Zenon DEF Below
<1> DEFINE Goal == \E t \in Dirs, gone \in SUBSET Dirs, made \in SUBSET Dirs :
              /\ Changed(t, gone, made)
              /\ DirsStay /\ run.pc \notin {"idle", "up"} => gone = {} /\ made = {}
<1>6. \A d \in Dirs : Changed(d, {}, {}) => Goal
  BY <1>5, Zenon
<1>7. \A d \in Dirs : Mkdir(d) => Goal
  BY <1>3, <1>5, Zenon
<1>8. \A d \in Dirs : RemoveAll(d) => Goal
  BY <1>4, <1>5, Zenon
<1> HIDE DEF Goal
<1>9. Goal
  BY <1>1, <1>2, <1>6, <1>7, <1>8, Zenon DEF TreeChange
<1> QED
  BY <1>9, Zenon DEF Goal

\* A directory whose stamp is as before is as before, and so are the
\* directories in it.
LEMMA TreeChangeKeeps ==
    ASSUME TypeOK, ClockInv, TreeChange
    PROVE  /\ \A d \in Dirs : disk'[d].stamp <= clock + 1
           /\ \A d \in Dirs : disk'[d].stamp \in 1 .. clock =>
                 disk'[d] = disk[d] /\ \A c \in ChildrenOf(d) : Exists(c)' <=> Exists(c)
           /\ Exists(Root)'
           /\ \A d \in Dirs \ {Root} : Exists(d)' => Exists(ParentOf[d])'
           /\ DirsStay /\ run.pc \notin {"idle", "up"} => \A d \in Dirs : Exists(d)' <=> Exists(d)
<1>0. disk \in DiskType /\ clock \in Nat /\ \A d \in Dirs : disk[d].stamp \in Nat
  BY Zenon DEF TypeOK, DiskType
<1>1. PICK t \in Dirs, gone \in SUBSET Dirs, made \in SUBSET Dirs :
              /\ Changed(t, gone, made)
              /\ DirsStay /\ run.pc \notin {"idle", "up"} => gone = {} /\ made = {}
  BY TreeChangeIs, Zenon
<1>2. \A d \in Dirs : \/ d = t /\ disk'[d].stamp = clock + 1 /\ disk[d].stamp # 0
                      \/ d \in gone /\ disk'[d].stamp = 0
                      \/ d \in made /\ disk'[d].stamp = clock + 1 /\ disk[d].stamp = 0
                      \/ d \notin gone /\ d \notin made /\ disk'[d] = disk[d]
  BY <1>1, Zenon DEF Changed, Exists
<1>3. \A d \in Dirs : disk'[d].stamp <= clock + 1
  BY <1>0, <1>2, SMTT(30) DEF ClockInv
<1>4. ASSUME NEW d \in Dirs, disk'[d].stamp \in 1 .. clock
      PROVE  disk'[d] = disk[d] /\ \A c \in ChildrenOf(d) : Exists(c)' <=> Exists(c)
  <2>1. d # t /\ d \notin gone /\ d \notin made /\ disk'[d] = disk[d]
    BY <1>0, <1>1, <1>2, <1>4, SMTT(30) DEF Changed
  <2>2. \A c \in ChildrenOf(d) : c \in Dirs /\ c \notin gone /\ c \notin made
    BY <1>1, <2>1, SMTT(30) DEF Changed, ChildrenOf
  <2>3. \A c \in ChildrenOf(d) : (disk'[c].stamp = clock + 1 /\ disk[c].stamp # 0) \/ disk'[c] = disk[c]
    BY <1>2, <2>2, Zenon
  <2>4. clock + 1 # 0
    BY <1>0, SMTT(30)
  <2> QED
    BY <2>1, <2>3, <2>4, Zenon DEF Exists
<1>5. Root \in Dirs /\ clock + 1 # 0
  BY <1>0, TreeAssumption, SMTT(30)
<1>6. Exists(Root)'
  BY <1>1, <1>2, <1>5, Zenon DEF Changed, Exists, ClockInv
<1>7. ASSUME NEW d \in Dirs \ {Root}, Exists(d)'
      PROVE  Exists(ParentOf[d])'
  <2>1. ParentOf[d] \in Dirs
    BY TreeAssumption, Zenon
  <2>2. d \notin gone
    BY <1>1, <1>7, <1>5, Zenon DEF Changed, Exists
  <2>3. ParentOf[d] \notin gone
    BY <1>1, <2>2, Zenon DEF Changed
  <2>4. ParentOf[d] = t \/ Exists(d)
    BY <1>1, <1>2, <1>7, <2>2, Zenon DEF Changed, Exists
  <2>5. disk[ParentOf[d]].stamp # 0
    BY <1>1, <2>4, Zenon DEF ClockInv, Exists, Changed
  <2> QED
    BY <1>2, <1>5, <2>1, <2>3, <2>5, Zenon DEF Exists
<1>8. ASSUME DirsStay, run.pc \notin {"idle", "up"}, NEW d \in Dirs
      PROVE  Exists(d)' <=> Exists(d)
  BY <1>1, <1>2, <1>5, <1>8, Zenon DEF Exists
<1> QED
  BY <1>3, <1>4, <1>6, <1>7, <1>8, Zenon

\* What is faithful stays so.
LEMMA FaithfulStays ==
    ASSUME TypeOK, ClockInv, TreeChange, NEW d \in Dirs, NEW stamp \in 1 .. clock, NEW names, NEW kids,
           NEW exclude, Faithful(d, stamp, names, kids, exclude)
    PROVE  Faithful(d, stamp, names, kids, exclude)'
<1> SUFFICES ASSUME disk'[d].stamp = stamp
             PROVE  names = Names(d)' /\ kids = Subdirs(d, exclude)'
  BY Zenon DEF Faithful
<1>1. disk'[d] = disk[d] /\ \A c \in ChildrenOf(d) : Exists(c)' <=> Exists(c)
  BY TreeChangeKeeps, Zenon
<1>2. Names(d)' = Names(d)
  BY <1>1, Zenon DEF Names
<1>3. Subdirs(d, exclude)' = Subdirs(d, exclude)
  <2>1. {c \in ChildrenOf(d) : Exists(c)}' = {c \in ChildrenOf(d) : Exists(c)}
    BY <1>1, Zenon DEF ChildrenOf
  <2> QED
    BY <1>1, <2>1, Zenon DEF Subdirs
<1>4. names = Names(d) /\ kids = Subdirs(d, exclude)
  BY <1>1, Zenon DEF Faithful
<1> QED
  BY <1>2, <1>3, <1>4, Zenon

\* The cache stays sound when another program changes the tree.
LEMMA TreeChangeCache ==
    ASSUME TypeOK, DirsStay, CacheSound, TreeChange
    PROVE  CacheSound'
<1>0. ClockInv /\ DbInv /\ LoadInv /\ ErrsInv /\ WalkInv /\ UpInv
  BY Zenon DEF CacheSound
<1>1. /\ clock' = clock + 1 /\ quiet' = FALSE /\ clock \in Nat
      /\ UNCHANGED <<world, db, run, stats, unmerged, loadError, nodes, jobs, modified, errs,
                     dumping, result>>
  BY TreeChangeType, Zenon DEF TypeOK
<1>2. /\ \A d \in Dirs : disk'[d].stamp <= clock + 1
      /\ Exists(Root)'
      /\ \A d \in Dirs \ {Root} : Exists(d)' => Exists(ParentOf[d])'
      /\ run.pc \notin {"idle", "up"} => \A d \in Dirs : Exists(d)' <=> Exists(d)
  BY <1>0, TreeChangeKeeps, Zenon
<1>3. ClockInv'
  <2>1. \A d \in Dirs : nodes[d].stamp \in Nat
    BY Zenon DEF TypeOK, NodesType
  <2>2. \A d \in Dirs : nodes[d].stamp <= clock + 1
    BY <1>0, <1>1, <2>1, SMTT(30) DEF ClockInv
  <2> QED
    BY <1>1, <1>2, <2>2, Zenon DEF ClockInv
<1>4. \A d : (Saved(d)' <=> Saved(d)) /\ SavedKids(d)' = SavedKids(d)
  <2>1. \A d : Saved(d)' <=> Saved(d)
    BY <1>1, Zenon DEF Saved
  <2> QED
    BY <2>1, Zenon DEF SavedKids, ChildrenOf
<1>5. DbInv'
  <2>1. ASSUME NEW i \in DOMAIN db.blocks, NEW n \in 1 .. Len(db.blocks[i])
        PROVE  EntryOK(db.blocks[i][n])'
    <3> DEFINE e == db.blocks[i][n]
    <3>1. e.path \in Dirs /\ e.stamp \in Nat
      BY EntryTyped, Zenon
    <3>2. /\ e.stamp # 0 /\ e.stamp <= clock /\ (e.path # Root => Saved(ParentOf[e.path]))
          /\ Faithful(e.path, e.stamp, e.names, SavedKids(e.path), db.exclude)
      BY <1>0, ZenonT(40) DEF DbInv, EntryOK
    <3>3. e.stamp \in 1 .. clock /\ e.stamp <= clock'
      BY <1>1, <3>1, <3>2, SMTT(30)
    <3>4. Faithful(e.path, e.stamp, e.names, SavedKids(e.path), db.exclude)'
      BY <1>0, <1>1, <1>4, <3>1, <3>2, <3>3, FaithfulStays, Zenon
    <3> QED
      BY <1>1, <1>4, <3>2, <3>3, <3>4, Zenon DEF EntryOK
  <2> QED
    BY <1>0, <1>1, <1>4, <2>1, SMTT(30) DEF DbInv
<1>6. LoadInv'
  <2> SUFFICES ASSUME run.pc = "load"
               PROVE  LoadInv'
    BY <1>1, Zenon DEF LoadInv
  <2>1. ASSUME NEW i \in DOMAIN db.blocks, NEW n \in 1 .. Len(stats[i])
        PROVE  StatOK(i, n)'
    <3>1. StatOK(i, n) /\ LoadTypes
      BY <1>0, <2>1, Zenon DEF LoadInv, TypeOK
    <3>2. n \in 1 .. Len(db.blocks[i]) /\ stats[i][n] \in Nat
      BY <3>1, SMTT(30) DEF LoadTypes, TypeOK, DbType
    <3>3. db.blocks[i][n].path \in Dirs /\ \A c \in SavedKids(db.blocks[i][n].path) : c \in Dirs
      BY <3>2, EntryTyped, Zenon DEF SavedKids, ChildrenOf
    <3>4. stats[i][n] <= clock'
      BY <1>1, <3>1, <3>2, SMTT(30) DEF StatOK
    <3>5. /\ stats[i][n] # 0 <=> Exists(db.blocks[i][n].path)'
          /\ stats[i][n] = db.blocks[i][n].stamp => \A c \in SavedKids(db.blocks[i][n].path) : Exists(c)'
      BY <1>1, <1>2, <3>1, <3>3, ZenonT(40) DEF StatOK
    <3> QED
      BY <1>1, <1>4, <3>4, <3>5, Zenon DEF StatOK
  <2>2. \A i \in DOMAIN db.blocks : \A n \in 1 .. Len(db.blocks[i]) : MergeOK(i, n)' <=> MergeOK(i, n)
    BY <1>1, SMTT(30) DEF MergeOK
  <2> QED
    BY <1>0, <1>1, <1>4, <2>1, <2>2, Zenon DEF LoadInv
<1>7. ErrsInv'
  <2>1. errs \subseteq Dirs
    BY Zenon DEF TypeOK
  <2> QED
    BY <1>0, <1>1, <1>2, <2>1, Zenon DEF ErrsInv
<1>8. \A d \in Dirs :
          /\ InCache(d)' <=> InCache(d)
          /\ KidsInTree(d)' = KidsInTree(d)
          /\ \A kind : Queued(kind, d)' <=> Queued(kind, d)
          /\ Pending(d)' <=> Pending(d)
  <2>1. \A d \in Dirs : InCache(d)' <=> InCache(d)
    BY <1>1, Zenon DEF InCache
  <2>2. \A d \in Dirs : KidsInTree(d)' = KidsInTree(d)
    BY <1>1, Zenon DEF KidsInTree, ChildrenOf
  <2>3. \A d \in Dirs : \A kind : Queued(kind, d)' <=> Queued(kind, d)
    BY <1>1, Zenon DEF Queued
  <2>4. \A d \in Dirs : Pending(d)' <=> Pending(d)
    BY <2>3, Zenon DEF Pending
  <2> QED
    BY <2>1, <2>2, <2>3, <2>4, Zenon
<1>9. ASSUME NEW d \in Dirs, nodes[d].stamp # 0, NodeFaithful(d)
      PROVE  NodeFaithful(d)'
  <2>1. nodes[d].stamp \in 1 .. clock
    BY <1>0, <1>1, <1>9, SMTT(30) DEF ClockInv, TypeOK, NodesType
  <2> QED
    BY <1>0, <1>1, <1>8, <1>9, <2>1, FaithfulStays, ZenonT(40) DEF NodeFaithful
<1>10. WalkInv'
  <2> SUFFICES ASSUME run.pc = "walk"
               PROVE  WalkInv'
    BY <1>1, Zenon DEF WalkInv
  <2>1. nodes'[Root].inTree /\ OneStepEach'
    BY <1>0, <1>1, Zenon DEF WalkInv, OneStepEach
  <2>2. ASSUME NEW d \in Dirs
        PROVE  PendingOK(d)' /\ StatDone(d)' /\ ListDone(d)'
    <3>1. PendingOK(d) /\ StatDone(d) /\ ListDone(d)
      BY <1>0, Zenon DEF WalkInv
    <3>2. Exists(d)' <=> Exists(d)
      BY <1>1, <1>2, Zenon
    <3>3. PendingOK(d)'
      <4>1. \A c \in ChildrenOf(d) : Unknown(c)' <=> Unknown(c)
        BY <1>1, <1>8, Zenon DEF Unknown, ChildrenOf, Beneath
      <4> QED
        BY <1>1, <1>8, <3>1, <3>2, <4>1, Zenon DEF PendingOK
    <3>4. StatDone(d)'
      BY <1>1, <1>8, <3>1, <3>2, Zenon DEF StatDone
    <3>5. ListDone(d)'
      <4>1. \A c \in KidsInTree(d) : c \in Dirs
        BY Zenon DEF KidsInTree, ChildrenOf
      <4> QED
        BY <1>1, <1>2, <1>8, <1>9, <3>1, <3>2, <4>1, Zenon DEF ListDone, StatDone, Pending
    <3> QED
      BY <3>3, <3>4, <3>5, Zenon
  <2> QED
    BY <2>1, <2>2, Zenon DEF WalkInv
<1>11. UpInv'
  BY <1>0, <1>1, <1>8, <1>9, Zenon DEF UpInv
<1> QED
  BY <1>3, <1>5, <1>6, <1>7, <1>10, <1>11, Zenon DEF CacheSound
-----------------------------------------------------------------------------
(* Loading the db *)

\* A call fails only when it may.
LEMMA NoFailure ==
    ASSUME MayFail = {}, NEW kind
    PROVE  \A fails \in Fails(kind) : fails = FALSE
BY Zenon DEF Fails

\* The db has the directories above those it has.
LEMMA SavedAbove ==
    ASSUME DbInv
    PROVE  \A d \in Dirs : Saved(d) => \A c \in Above[d] : Saved(c)
<1> DEFINE S == {d \in Dirs : Saved(d) => \A c \in Above[d] : Saved(c)}
<1>1. Root \in S
  BY AboveDef, TreeAssumption, Zenon
<1>2. ASSUME NEW d \in Dirs \ {Root}, ParentOf[d] \in S
      PROVE  d \in S
  <2>1. Saved(d) => Saved(ParentOf[d])
    BY SMTT(30) DEF DbInv, EntryOK, Saved
  <2>2. Above[d] = {d} \cup Above[ParentOf[d]]
    BY AboveDef, Zenon
  <2> QED
    BY <1>2, <2>1, <2>2, Zenon
<1> HIDE DEF S
<1>3. \A d \in Dirs : d \in S
  BY <1>1, <1>2, TreeInduction, Zenon
<1> QED
  BY <1>3, Zenon DEF S

\* What is faithful depends on the tree only.
LEMMA SameDisk ==
    ASSUME UNCHANGED disk
    PROVE  /\ \A d : Exists(d)' <=> Exists(d)
           /\ \A d, stamp, names, kids, exclude :
                 Faithful(d, stamp, names, kids, exclude)' <=> Faithful(d, stamp, names, kids, exclude)
<1>1. \A d : Exists(d)' <=> Exists(d)
  BY Zenon DEF Exists
<1>2. \A d : Names(d)' = Names(d)
  BY Zenon DEF Names
<1>3. \A d : {c \in ChildrenOf(d) : Exists(c)}' = {c \in ChildrenOf(d) : Exists(c)}
  BY <1>1, Zenon DEF ChildrenOf
<1>4. \A d, exclude : Subdirs(d, exclude)' = Subdirs(d, exclude)
  BY <1>3, Zenon DEF Subdirs
<1>5. \A d, stamp, names, kids, exclude :
          Faithful(d, stamp, names, kids, exclude)' <=> Faithful(d, stamp, names, kids, exclude)
  BY <1>2, <1>4, Zenon DEF Faithful
<1> QED
  BY <1>1, <1>5, Zenon

\* What the db holds, and the invariant of it, depend on few variables.
LEMMA SameDb ==
    ASSUME UNCHANGED <<disk, clock>>, db'.blocks = db.blocks, db'.exclude = db.exclude
    PROVE  /\ \A d : (Saved(d)' <=> Saved(d)) /\ SavedKids(d)' = SavedKids(d) /\ (Exists(d)' <=> Exists(d))
           /\ DbInv => DbInv'
<1>1. \A d : Saved(d)' <=> Saved(d)
  BY Zenon DEF Saved
<1>2. \A d : SavedKids(d)' = SavedKids(d)
  BY <1>1, Zenon DEF SavedKids, ChildrenOf
<1>3. \A e : EntryOK(e)' <=> EntryOK(e)
  BY <1>1, <1>2, SameDisk, Zenon DEF EntryOK
<1>4. DbInv => DbInv'
  BY <1>1, <1>3, SMTT(30) DEF DbInv
<1> QED
  BY <1>1, <1>2, <1>4, SameDisk, Zenon

\* loadBytes stats a directory.
LEMMA StatEntryCache ==
    ASSUME TypeOK, MayFail = {}, CacheSound, NEW i \in DOMAIN db.blocks, StatEntry(i)
    PROVE  CacheSound'
<1> DEFINE m == Len(stats[i]) + 1
           e == db.blocks[i][m]
<1>0. ClockInv /\ DbInv /\ LoadInv /\ ErrsInv
  BY Zenon DEF CacheSound
<1>1. /\ run.pc = "load" /\ i \in unmerged /\ m <= Len(db.blocks[i])
      /\ UNCHANGED <<world, disk, clock, db, run, quiet, unmerged, loadError, nodes>>
  BY Zenon DEF StatEntry, EntriesOf
<1>2. stats \in [DOMAIN db.blocks -> Seq(Nat)] /\ \A k \in DOMAIN db.blocks : Len(db.blocks[k]) \in Nat
  BY <1>1, SMTT(30) DEF TypeOK, LoadTypes, DbType
<1>3. /\ stats' = [stats EXCEPT ![i] = Append(@, disk[e.path].stamp)]
      /\ errs' \subseteq IF disk[e.path].stamp = 0 THEN errs \cup {e.path} ELSE errs
  BY NoFailure, Zenon DEF StatEntry, EntriesOf, Lstat, ErrsOf
<1>4. m \in 1 .. Len(db.blocks[i])
  BY <1>1, <1>2, SMTT(30)
<1>5. e.path \in Dirs
  BY <1>4, EntryTyped, Zenon
<1>6. ClockInv' /\ DbInv' /\ ErrsInv'
  <2>1. ClockInv'
    BY <1>0, <1>1, Zenon DEF ClockInv, Exists
  <2>2. ErrsInv'
    BY <1>0, <1>1, <1>3, Zenon DEF ErrsInv, Exists
  <2> QED
    BY <1>0, <1>1, <2>1, <2>2, SameDb, Zenon
<1>7. LoadInv'
  <2>1. ASSUME NEW k \in DOMAIN db.blocks, NEW n \in 1 .. Len(stats'[k])
        PROVE  StatOK(k, n)'
    <3>1. CASE n \in 1 .. Len(stats[k])
      <4>1. stats'[k][n] = stats[k][n]
        BY <1>2, <1>3, <3>1, SMTT(30)
      <4>2. StatOK(k, n)
        BY <1>0, <1>1, <3>1, Zenon DEF LoadInv
      <4> QED
        BY <1>1, <4>1, <4>2, SameDb, ZenonT(40) DEF StatOK
    <3>2. CASE n \notin 1 .. Len(stats[k])
      <4>1. k = i /\ n = m
        BY <1>2, <1>3, <3>2, SMTT(30)
      <4>2. stats'[k][n] = disk[e.path].stamp
        BY <1>2, <1>3, <4>1, SMTT(30)
      <4>3. disk[e.path].stamp <= clock
        BY <1>0, <1>5, Zenon DEF ClockInv
      <4>4. disk[e.path].stamp = e.stamp => \A c \in SavedKids(e.path) : Exists(c)
        <5>1. EntryOK(e)
          BY <1>0, <1>4, Zenon DEF DbInv
        <5> QED
          BY <5>1, Zenon DEF EntryOK, Faithful, Subdirs
      <4>5. db'.blocks[k][n] = e
        BY <1>1, <4>1, Zenon
      <4> QED
        BY <1>1, <4>2, <4>3, <4>4, <4>5, SameDb, ZenonT(40) DEF StatOK, Exists
    <3> QED
      BY <3>1, <3>2, Zenon
  <2>2. ASSUME ~ loadError, NEW k \in DOMAIN db.blocks, NEW n \in 1 .. Len(db.blocks[k])
        PROVE  MergeOK(k, n)'
    <3>1. MergeOK(k, n)
      BY <1>0, <1>1, <2>2, Zenon DEF LoadInv
    <3>2. k # i => stats'[k] = stats[k]
      BY <1>2, <1>3, Zenon
    <3> QED
      BY <1>1, <3>1, <3>2, Zenon DEF MergeOK
  <2>3. ~ loadError => \A d \in Dirs : nodes[d].inTree => Saved(d)
    BY <1>0, <1>1, Zenon DEF LoadInv
  <2> QED
    BY <1>1, <2>1, <2>2, <2>3, SameDb, Zenon DEF LoadInv
<1> QED
  BY <1>1, <1>6, <1>7, Zenon DEF CacheSound, WalkInv, UpInv

\* What MergeIn makes of the node of a directory that is in the block, and of
\* another.
Put(node, old, stamp, e) ==
    IF stamp = 0 /\ old.inTree THEN node = old
    ELSE node.inTree /\ node.stamp = stamp /\ (stamp = e.stamp => node.names = e.names)

Left(node, old, saved) ==
    /\ node.stamp = old.stamp /\ node.names = old.names
    /\ old.inTree => node.inTree
    /\ node.inTree => old.inTree \/ saved

\* A merged block puts its entries into the tree and leaves the other nodes.
LEMMA MergeInIs ==
    ASSUME TypeOK, run.pc = "load", DbInv, NEW i \in DOMAIN db.blocks, Len(stats[i]) = Len(db.blocks[i])
    PROVE  /\ \A n \in 1 .. Len(db.blocks[i]) :
                 Put(MergeIn(i)[db.blocks[i][n].path], nodes[db.blocks[i][n].path], stats[i][n], db.blocks[i][n])
           /\ \A d \in Dirs : (\A n \in 1 .. Len(db.blocks[i]) : db.blocks[i][n].path # d) =>
                 Left(MergeIn(i)[d], nodes[d], Saved(d))
<1>1. ASSUME NEW n \in 1 .. Len(db.blocks[i])
      PROVE  Put(MergeIn(i)[db.blocks[i][n].path], nodes[db.blocks[i][n].path], stats[i][n], db.blocks[i][n])
  <2> DEFINE d == db.blocks[i][n].path
             at == {k \in 1 .. Len(db.blocks[i]) : db.blocks[i][k].path = d}
  <2>1. d \in Dirs
    BY EntryTyped, Zenon
  <2>2. at # {} /\ (CHOOSE k \in at : TRUE) = n
    <3>1. at = {n}
      BY SMTT(30) DEF DbInv
    <3> QED
      BY <3>1, Zenon
  <2>3. MergeIn(i)[d] = IF at # {}
            THEN LET k == CHOOSE k \in at : TRUE
                     cached == db.blocks[i][k]
                 IN  IF stats[i][k] = 0 /\ nodes[d].inTree
                     THEN nodes[d]
                     ELSE [inTree |-> TRUE, stamp |-> stats[i][k],
                           names |-> IF stats[i][k] \in {0, cached.stamp} THEN cached.names ELSE {}]
            ELSE IF \E k \in 1 .. Len(db.blocks[i]) : d \in Above[db.blocks[i][k].path]
                 THEN [nodes[d] EXCEPT !.inTree = TRUE]
                 ELSE nodes[d]
    BY <2>1, Zenon DEF MergeIn, EntriesOf
  <2> HIDE DEF at
  <2>4. MergeIn(i)[d] = IF stats[i][n] = 0 /\ nodes[d].inTree
                     THEN nodes[d]
                     ELSE [inTree |-> TRUE, stamp |-> stats[i][n],
                           names |-> IF stats[i][n] \in {0, db.blocks[i][n].stamp} THEN db.blocks[i][n].names
                                     ELSE {}]
    BY <2>2, <2>3, Zenon
  <2>5. CASE stats[i][n] = 0 /\ nodes[d].inTree
    BY <2>4, <2>5, Zenon DEF Put
  <2>6. CASE ~ (stats[i][n] = 0 /\ nodes[d].inTree)
    <3> DEFINE names == IF stats[i][n] \in {0, db.blocks[i][n].stamp} THEN db.blocks[i][n].names ELSE {}
    <3>1. stats[i][n] = db.blocks[i][n].stamp => names = db.blocks[i][n].names
      BY Zenon
    <3>2. MergeIn(i)[d] = [inTree |-> TRUE, stamp |-> stats[i][n], names |-> names]
      BY <2>4, <2>6, Zenon
    <3> HIDE DEF names
    <3>3. MergeIn(i)[d].inTree /\ MergeIn(i)[d].stamp = stats[i][n] /\ MergeIn(i)[d].names = names
      BY <3>2, SMTT(30)
    <3> QED
      BY <2>6, <3>1, <3>3, Zenon DEF Put
  <2> QED
    BY <2>5, <2>6, Zenon
<1>2. ASSUME NEW d \in Dirs, \A n \in 1 .. Len(db.blocks[i]) : db.blocks[i][n].path # d
      PROVE  Left(MergeIn(i)[d], nodes[d], Saved(d))
  <2>1. {k \in 1 .. Len(db.blocks[i]) : db.blocks[i][k].path = d} = {}
    BY <1>2, Zenon
  <2>2. MergeIn(i)[d] = IF \E k \in 1 .. Len(db.blocks[i]) : d \in Above[db.blocks[i][k].path]
                        THEN [nodes[d] EXCEPT !.inTree = TRUE]
                        ELSE nodes[d]
    BY <2>1, Zenon DEF MergeIn, EntriesOf
  <2>3. (\E k \in 1 .. Len(db.blocks[i]) : d \in Above[db.blocks[i][k].path]) => Saved(d)
    <3> SUFFICES ASSUME NEW k \in 1 .. Len(db.blocks[i]), d \in Above[db.blocks[i][k].path]
                 PROVE  Saved(d)
      BY Zenon
    <3>1. db.blocks[i][k].path \in Dirs /\ Saved(db.blocks[i][k].path)
      BY EntryTyped, Zenon DEF Saved
    <3> QED
      BY <3>1, SavedAbove, Zenon
  <2>4. nodes[d] \in [inTree : BOOLEAN, stamp : Nat, names : SUBSET FileNames]
    BY Zenon DEF TypeOK, NodesType
  <2> QED
    BY <2>2, <2>3, <2>4, Zenon DEF Left
<1> QED
  BY <1>1, <1>2, Zenon

\* combineResults receives a block.
LEMMA CombineBlockCache ==
    ASSUME TypeOK, CacheSound, NEW i \in DOMAIN db.blocks, CombineBlock(i)
    PROVE  CacheSound'
<1>0. ClockInv /\ DbInv /\ LoadInv /\ ErrsInv
  BY Zenon DEF CacheSound
<1>1. /\ run.pc = "load" /\ i \in unmerged /\ unmerged' = unmerged \ {i}
      /\ UNCHANGED <<world, disk, clock, db, run, quiet, stats, errs>>
  BY Zenon DEF CombineBlock
<1>2. DbInv' /\ ErrsInv'
  BY <1>0, <1>1, SameDb, ZenonT(40) DEF ErrsInv
<1>3. \A k \in DOMAIN db.blocks : \A n \in 1 .. Len(stats[k]) : StatOK(k, n)'
  <2>1. \A k \in DOMAIN db.blocks : \A n \in 1 .. Len(stats[k]) : StatOK(k, n)
    BY <1>0, <1>1, Zenon DEF LoadInv
  <2> QED
    BY <1>1, <2>1, SameDb, SMTT(30) DEF StatOK
<1>4. CASE loadError' = TRUE /\ nodes' = nodes
  <2>1. LoadInv'
    BY <1>1, <1>3, <1>4, Zenon DEF LoadInv
  <2>2. ClockInv'
    BY <1>0, <1>1, <1>4, Zenon DEF ClockInv, Exists
  <2> QED
    BY <1>1, <1>2, <2>1, <2>2, Zenon DEF CacheSound, WalkInv, UpInv
<1>5. CASE ~ loadError /\ loadError' = loadError /\ nodes' = MergeIn(i)
           /\ i \notin db.bad /\ Len(stats[i]) = Len(db.blocks[i])
  <2>1. \A n \in 1 .. Len(db.blocks[i]) : StatOK(i, n)
    BY <1>0, <1>1, <1>5, Zenon DEF LoadInv
  <2>2. ASSUME NEW d \in Dirs
        PROVE  nodes'[d].stamp <= clock /\ (nodes'[d].inTree => Saved(d))
    <3>1. nodes[d].stamp <= clock /\ (nodes[d].inTree => Saved(d))
      BY <1>0, <1>1, <1>5, Zenon DEF ClockInv, LoadInv
    <3>2. CASE \A n \in 1 .. Len(db.blocks[i]) : db.blocks[i][n].path # d
      <4>1. Left(nodes'[d], nodes[d], Saved(d))
        BY <1>0, <1>1, <1>5, <3>2, MergeInIs, Zenon
      <4> QED
        BY <3>1, <4>1, Zenon DEF Left
    <3>3. ASSUME NEW n \in 1 .. Len(db.blocks[i]), db.blocks[i][n].path = d
          PROVE  nodes'[d].stamp <= clock /\ Saved(d)
      <4>1. Put(nodes'[d], nodes[d], stats[i][n], db.blocks[i][n])
        BY <1>0, <1>1, <1>5, <3>3, MergeInIs, Zenon
      <4> QED
        BY <2>1, <3>1, <3>3, <4>1, Zenon DEF Put, StatOK, Saved
    <3> QED
      BY <3>2, <3>3, Zenon
  <2>3. ClockInv'
    BY <1>0, <1>1, <2>2, Zenon DEF ClockInv, Exists
  <2>4. ASSUME NEW k \in DOMAIN db.blocks, NEW n \in 1 .. Len(db.blocks[k])
        PROVE  MergeOK(k, n)'
    <3> DEFINE e == db.blocks[k][n]
    <3>1. MergeOK(k, n) /\ e.path \in Dirs /\ e.stamp # 0
      BY <1>0, <1>1, <1>5, EntryTyped, Zenon DEF LoadInv, DbInv, EntryOK
    <3>2. CASE k = i
      <4>1. nodes[e.path].stamp = 0
        BY <1>1, <3>1, <3>2, Zenon DEF MergeOK
      <4>2. Put(nodes'[e.path], nodes[e.path], stats[i][n], e)
        BY <1>0, <1>1, <1>5, <3>2, MergeInIs, Zenon
      <4>3. /\ nodes'[e.path].inTree /\ nodes'[e.path].stamp = stats[i][n]
            /\ stats[i][n] = e.stamp => nodes'[e.path].names = e.names
        BY <3>1, <4>1, <4>2, Zenon DEF Put
      <4> QED
        BY <1>1, <1>5, <3>2, <4>3, Zenon DEF MergeOK
    <3>3. CASE k # i
      <4>1. \A l \in 1 .. Len(db.blocks[i]) : db.blocks[i][l].path # e.path
        BY <1>0, <3>3, Zenon DEF DbInv
      <4>2. Left(nodes'[e.path], nodes[e.path], Saved(e.path))
        BY <1>0, <1>1, <1>5, <3>1, <4>1, MergeInIs, Zenon
      <4> QED
        BY <1>1, <3>1, <3>3, <4>2, Zenon DEF MergeOK, Left
    <3> QED
      BY <3>2, <3>3, Zenon
  <2>5. LoadInv'
    BY <1>1, <1>3, <2>2, <2>4, SameDb, Zenon DEF LoadInv
  <2> QED
    BY <1>1, <1>2, <2>3, <2>5, Zenon DEF CacheSound, WalkInv, UpInv
<1> QED
  BY <1>4, <1>5, Zenon DEF CombineBlock, EntriesOf, TypeOK

\* The db is loaded.
LEMMA StartListingCache ==
    ASSUME TypeOK, DumpInv, CacheSound, StartListing
    PROVE  CacheSound'
<1>0. ClockInv /\ DbInv /\ LoadInv /\ ErrsInv
  BY Zenon DEF CacheSound
<1>1. /\ run.pc = "load" /\ unmerged = {}
      /\ UNCHANGED <<world, disk, clock, db, quiet, stats, unmerged, loadError, nodes, errs, result>>
  BY Zenon DEF StartListing
<1>2. ClockInv' /\ DbInv' /\ ErrsInv'
  BY <1>0, <1>1, SameDb, Zenon DEF ClockInv, ErrsInv
<1>3. CASE loadError
  <2>1. run'.pc = "scan"
    BY <1>3, Zenon DEF StartListing, TypeOK, RunType
  <2> QED
    BY <1>2, <2>1, Zenon DEF CacheSound, LoadInv, WalkInv, UpInv
<1>4. CASE ~ loadError
  <2>1. /\ run'.pc = "walk" /\ run'.exclude = run.exclude
        /\ jobs' = {DirsToWalk(i) : i \in DOMAIN db.blocks} \ {<<>>}
    BY <1>4, Zenon DEF StartListing, TypeOK, RunType
  <2>2. db.blocks \in Seq(Seq(EntryType)) /\ db.blocks # <<>> /\ run.exclude = db.exclude
    BY <1>1, Zenon DEF TypeOK, DbType, DumpInv
  <2> DEFINE Stale(i, n) == stats[i][n] \notin {0, db.blocks[i][n].stamp}
             Path(i, n) == db.blocks[i][n].path
  <2>3. ASSUME NEW i \in DOMAIN db.blocks, NEW n \in 1 .. Len(db.blocks[i])
        PROVE  /\ Path(i, n) \in Dirs /\ Saved(Path(i, n)) /\ EntryOK(db.blocks[i][n]) /\ StatOK(i, n)
               /\ nodes[Path(i, n)].inTree /\ nodes[Path(i, n)].stamp = stats[i][n]
               /\ stats[i][n] = db.blocks[i][n].stamp => nodes[Path(i, n)].names = db.blocks[i][n].names
    <3>1. MergeOK(i, n) /\ EntryOK(db.blocks[i][n])
      BY <1>0, <1>1, <1>4, Zenon DEF LoadInv, DbInv
    <3>2. i \notin db.bad
      BY <1>1, <3>1, Zenon DEF MergeOK
    <3>3. Len(stats[i]) = Len(db.blocks[i])
      BY <1>1, <3>2, Zenon DEF DumpInv
    <3>4. StatOK(i, n)
      BY <1>0, <1>1, <3>3, Zenon DEF LoadInv
    <3>5. Path(i, n) \in Dirs /\ Saved(Path(i, n))
      BY EntryTyped, Zenon DEF Saved
    <3> QED
      BY <1>1, <3>1, <3>4, <3>5, Zenon DEF MergeOK
  <2>4. \A d \in Dirs : (nodes[d].inTree <=> Saved(d)) /\ (InCache(d) <=> Saved(d))
    <3>1. \A d \in Dirs : nodes[d].inTree <=> Saved(d)
      BY <1>0, <1>1, <1>4, <2>3, SMTT(30) DEF LoadInv, Saved
    <3>2. ASSUME NEW d \in Dirs
          PROVE  InCache(d) <=> Saved(d)
      <4>1. d \in Above[d] /\ Above[d] \in SUBSET Dirs
        BY AboveOrder, AboveDef, Zenon
      <4> QED
        BY <1>0, <3>1, <4>1, SavedAbove, Zenon DEF InCache
    <3> QED
      BY <3>1, <3>2, ZenonT(40)
  <2>5. ASSUME NEW job \in jobs'
        PROVE  \E i \in DOMAIN db.blocks :
                  /\ job = DirsToWalk(i)
                  /\ \A k \in 1 .. Len(job) : \E n \in 1 .. Len(db.blocks[i]) :
                        Stale(i, n) /\ job[k] = <<"list", Path(i, n)>>
    <3>1. PICK i \in DOMAIN db.blocks : job = DirsToWalk(i)
      BY <2>1, <2>5, Zenon
    <3>2. \A k \in 1 .. Len(DirsToWalk(i)) : \E n \in 1 .. Len(db.blocks[i]) :
              Stale(i, n) /\ DirsToWalk(i)[k] = <<"list", Path(i, n)>>
      BY <2>2, DirsToWalkIs, Zenon
    <3> QED
      BY <3>1, <3>2, Zenon
  <2>6. ASSUME NEW d \in Dirs
        PROVE  /\ ~ Queued("stat", d)'
               /\ Pending(d)' => \E i \in DOMAIN db.blocks : \E n \in 1 .. Len(db.blocks[i]) :
                                     Path(i, n) = d /\ Stale(i, n)
               /\ \A i \in DOMAIN db.blocks : \A n \in 1 .. Len(db.blocks[i]) :
                     Path(i, n) = d /\ Stale(i, n) => Pending(d)'
    <3>1. ASSUME NEW kind, Queued(kind, d)'
          PROVE  /\ kind = "list"
                 /\ \E i \in DOMAIN db.blocks : \E n \in 1 .. Len(db.blocks[i]) : Path(i, n) = d /\ Stale(i, n)
      <4>1. PICK job \in jobs', k \in Nat : k \in 1 .. Len(job) /\ job[k] = <<kind, d>>
        BY <3>1, SMTT(30) DEF Queued
      <4>2. PICK i \in DOMAIN db.blocks : \E n \in 1 .. Len(db.blocks[i]) :
                Stale(i, n) /\ job[k] = <<"list", Path(i, n)>>
        BY <2>5, <4>1, Zenon
      <4>3. PICK n \in 1 .. Len(db.blocks[i]) : Stale(i, n) /\ job[k] = <<"list", Path(i, n)>>
        BY <4>2, Zenon
      <4>4. kind = "list" /\ d = Path(i, n)
        BY <4>1, <4>3, SMTT(30)
      <4> QED
        BY <4>3, <4>4, Zenon
    <3>2. ASSUME NEW i \in DOMAIN db.blocks, NEW n \in 1 .. Len(db.blocks[i]), Path(i, n) = d, Stale(i, n)
          PROVE  Queued("list", d)'
      <4>0. Stale(i, n) => \E k \in 1 .. Len(DirsToWalk(i)) : DirsToWalk(i)[k] = <<"list", Path(i, n)>>
        BY <2>2, DirsToWalkIs, ZenonT(40)
      <4>1. PICK k \in 1 .. Len(DirsToWalk(i)) : DirsToWalk(i)[k] = <<"list", d>>
        BY <3>2, <4>0, Zenon
      <4>2. DirsToWalk(i) # <<>>
        BY <4>1, SMTT(30)
      <4>3. DirsToWalk(i) \in jobs'
        BY <2>1, <4>2, Zenon
      <4> QED
        BY <4>1, <4>3, Zenon DEF Queued
    <3>3. "stat" # "list"
      BY Zenon
    <3>4. ~ Queued("stat", d)'
      BY <3>1, <3>3, Zenon
    <3>5. Pending(d)' <=> Queued("list", d)'
      BY <3>4, Zenon DEF Pending
    <3> QED
      BY <3>1, <3>2, <3>4, <3>5, Zenon
  <2> HIDE DEF Stale, Path
  <2>7. OneStepEach'
    <3> SUFFICES ASSUME NEW job \in jobs', NEW other \in jobs', NEW n \in 1 .. Len(job), NEW m \in 1 .. Len(other),
                        job[n][2] = other[m][2]
                 PROVE  job = other /\ n = m
      BY Zenon DEF OneStepEach
    <3>1. PICK i \in DOMAIN db.blocks : job = DirsToWalk(i) /\ \E a \in 1 .. Len(db.blocks[i]) :
              Stale(i, a) /\ job[n] = <<"list", Path(i, a)>>
      BY <2>5, Zenon
    <3>2. PICK k \in DOMAIN db.blocks : other = DirsToWalk(k) /\ \E b \in 1 .. Len(db.blocks[k]) :
              Stale(k, b) /\ other[m] = <<"list", Path(k, b)>>
      BY <2>5, Zenon
    <3>3. i = k
      <4>1. PICK a \in 1 .. Len(db.blocks[i]) : job[n] = <<"list", Path(i, a)>>
        BY <3>1, Zenon
      <4>2. PICK b \in 1 .. Len(db.blocks[k]) : other[m] = <<"list", Path(k, b)>>
        BY <3>2, Zenon
      <4>3. Path(i, a) = Path(k, b)
        BY <4>1, <4>2, SMTT(30)
      <4> QED
        BY <1>0, <4>3, Zenon DEF DbInv, Path
    <3>4. \A a, b \in 1 .. Len(db.blocks[i]) : db.blocks[i][a].path = db.blocks[i][b].path => a = b
      <4>1. \A x, y \in DOMAIN db.blocks : \A a \in 1 .. Len(db.blocks[x]), b \in 1 .. Len(db.blocks[y]) :
                db.blocks[x][a].path = db.blocks[y][b].path => x = y /\ a = b
        BY <1>0, Zenon DEF DbInv
      <4> QED
        BY <4>1, ZenonT(30)
    <3> QED
      BY <2>2, <3>1, <3>2, <3>3, <3>4, DirsToWalkIs, ZenonT(40)
  <2>8. ASSUME NEW d \in Dirs, Pending(d)'
        PROVE  Saved(d) /\ Exists(d)
    <3>1. PICK i \in DOMAIN db.blocks : \E n \in 1 .. Len(db.blocks[i]) : Path(i, n) = d /\ Stale(i, n)
      BY <2>6, <2>8, Zenon
    <3>2. PICK n \in 1 .. Len(db.blocks[i]) : Path(i, n) = d /\ Stale(i, n)
      BY <3>1, Zenon
    <3>3. Saved(d) /\ StatOK(i, n)
      BY <2>3, <3>2, Zenon
    <3>4. stats[i][n] # 0
      BY <3>2, Zenon DEF Stale
    <3> QED
      BY <3>2, <3>3, <3>4, Zenon DEF StatOK, Path
  <2>9. ASSUME NEW d \in Dirs
        PROVE  PendingOK(d)'
    <3>1. ASSUME NEW c \in ChildrenOf(d), ~ nodes'[c].inTree
          PROVE  Unknown(c)'
      <4>1. c \in Dirs /\ ~ Saved(c)
        BY <1>1, <2>4, <3>1, Zenon DEF ChildrenOf
      <4>2. \A x \in Beneath(c) : x \in Dirs /\ ~ Saved(x)
        BY <1>0, <4>1, SavedAbove, Zenon DEF Beneath
      <4>3. ~ Pending(c)' /\ \A x \in Beneath(c) : ~ nodes'[x].inTree /\ ~ Pending(x)'
        BY <1>1, <2>4, <2>8, <4>1, <4>2, Zenon
      <4> QED
        BY <4>3, Zenon DEF Unknown, Beneath
    <3>2. Exists(d)' <=> Exists(d)
      BY <1>1, SameDisk, Zenon
    <3> QED
      BY <2>6, <2>8, <3>1, <3>2, Zenon DEF PendingOK
  <2>10. ASSUME NEW d \in Dirs
         PROVE  StatDone(d)' /\ ListDone(d)'
    <3> SUFFICES ASSUME InCache(d)
                 PROVE  StatDone(d)' /\ ListDone(d)'
      BY <1>1, Zenon DEF StatDone, ListDone, InCache
    <3>1. PICK i \in DOMAIN db.blocks : \E n \in 1 .. Len(db.blocks[i]) : db.blocks[i][n].path = d
      BY <2>4, Zenon DEF Saved
    <3>2. PICK n \in 1 .. Len(db.blocks[i]) : db.blocks[i][n].path = d
      BY <3>1, Zenon
    <3> DEFINE e == db.blocks[i][n]
    <3>3. /\ EntryOK(e) /\ StatOK(i, n) /\ nodes[d].stamp = stats[i][n]
          /\ stats[i][n] = e.stamp => nodes[d].names = e.names
      BY <2>3, <3>2, Zenon DEF Path
    <3>4. /\ Exists(d) => nodes[d].stamp # 0
          /\ quiet => nodes[d].stamp = disk[d].stamp
      BY <3>2, <3>3, Zenon DEF StatOK
    <3>5. StatDone(d)'
      BY <1>1, <3>4, SameDisk, Zenon DEF StatDone
    <3>6. SavedKids(d) = KidsInTree(d) /\ KidsInTree(d)' = KidsInTree(d)
      <4>1. \A c \in ChildrenOf(d) : nodes[c].inTree <=> Saved(c)
        BY <2>4, Zenon DEF ChildrenOf
      <4>2. KidsInTree(d)' = KidsInTree(d)
        BY <1>1, Zenon DEF KidsInTree, ChildrenOf
      <4> QED
        BY <4>1, <4>2, Zenon DEF SavedKids, KidsInTree
    <3>7. ASSUME ~ Pending(d)', Exists(d)
          PROVE  NodeFaithful(d)' /\ \A c \in KidsInTree(d) : Exists(c)
      <4>1. stats[i][n] = e.stamp
        <5>1. ~ Stale(i, n)
          BY <2>6, <3>2, <3>7, Zenon DEF Path
        <5> QED
          BY <3>3, <3>4, <3>7, <5>1, Zenon DEF Stale
      <4>2. \A c \in KidsInTree(d) : Exists(c)
        BY <3>2, <3>3, <3>6, <4>1, Zenon DEF StatOK
      <4>3. Faithful(d, nodes[d].stamp, nodes[d].names, KidsInTree(d), run.exclude)
        BY <2>2, <3>2, <3>3, <3>6, <4>1, Zenon DEF EntryOK
      <4> QED
        BY <1>1, <2>1, <3>6, <4>2, <4>3, SameDisk, Zenon DEF NodeFaithful
    <3>8. ListDone(d)'
      BY <1>1, <3>6, <3>7, SameDisk, Zenon DEF ListDone
    <3> QED
      BY <3>5, <3>8, Zenon
  <2>11. WalkInv'
    <3>1. nodes'[Root].inTree
      BY <1>0, <1>1, <2>2, <2>4, TreeAssumption, Zenon DEF DbInv
    <3> QED
      BY <2>7, <2>9, <2>10, <3>1, Zenon DEF WalkInv
  <2> QED
    BY <1>2, <2>1, <2>11, Zenon DEF CacheSound, LoadInv, UpInv
<1> QED
  BY <1>3, <1>4, Zenon
-----------------------------------------------------------------------------
(* Listing directories *)

\* The steps that are left when the first of a job is done, and those of the
\* jobs that it starts.
LEMMA StepsAfter ==
    ASSUME jobs \in SUBSET Seq(Steps), <<>> \notin jobs, OneStepEach, NEW job \in jobs,
           NEW kind \in {"stat", "list"}, NEW C \in SUBSET Dirs,
           \A c \in C : c = Head(job)[2] \/ ~ Pending(c),
           JobDone(job, {<<<<kind, c>>>> : c \in C})
    PROVE  /\ OneStepEach'
           /\ \A k \in {"stat", "list"} : \A x \in Dirs :
                 Queued(k, x)' <=> (Queued(k, x) /\ x # Head(job)[2]) \/ (k = kind /\ x \in C)
<1> DEFINE d == Head(job)[2]
<1>1. /\ Len(job) \in Nat \ {0} /\ d = job[1][2] /\ Len(Tail(job)) = Len(job) - 1
      /\ \A n \in 1 .. Len(Tail(job)) : Tail(job)[n] = job[n + 1] /\ n + 1 \in 1 .. Len(job) /\ n + 1 # 1
  BY HeadType, SMTT(30)
<1>2. \A j \in jobs : \A n \in 1 .. Len(j) : Queued(j[n][1], j[n][2]) /\ Pending(j[n][2])
  <2> SUFFICES ASSUME NEW j \in jobs, NEW n \in 1 .. Len(j)
               PROVE  Queued(j[n][1], j[n][2]) /\ Pending(j[n][2])
    BY Zenon
  <2>1. j[n] \in Steps
    BY SMTT(30)
  <2>2. j[n] = <<j[n][1], j[n][2]>> /\ j[n][1] \in {"stat", "list"}
    BY <2>1, SMTT(30) DEF Steps
  <2>3. Queued(j[n][1], j[n][2])
    BY <2>2, Zenon DEF Queued
  <2> QED
    BY <2>2, <2>3, Zenon DEF Pending
<1>3. \A j \in jobs' : \/ j \in jobs /\ j # job
                       \/ j = Tail(job)
                       \/ \E c \in C : j = <<<<kind, c>>>>
  BY Zenon DEF JobDone
<1>4. OneStepEach'
  <2> SUFFICES ASSUME NEW j \in jobs', NEW o \in jobs', NEW n \in 1 .. Len(j), NEW m \in 1 .. Len(o),
                      j[n][2] = o[m][2]
               PROVE  j = o /\ n = m
    BY Zenon DEF OneStepEach
  <2>1. \A a \in jobs, b \in jobs : \A p \in 1 .. Len(a), q \in 1 .. Len(b) : a[p][2] = b[q][2] => a = b /\ p = q
    BY Zenon DEF OneStepEach
  <2>2. 1 \in 1 .. Len(job)
    BY <1>1, SMTT(30)
  <2>3. ASSUME NEW a \in jobs, a # job, NEW p \in 1 .. Len(a)
        PROVE  a[p][2] \notin C
    BY <1>1, <1>2, <2>1, <2>2, <2>3, SMTT(30)
  <2>4. ASSUME NEW p \in 1 .. Len(Tail(job))
        PROVE  Tail(job)[p][2] \notin C
    BY <1>1, <1>2, <2>1, <2>2, SMTT(30)
  <2>5. ASSUME NEW c \in C, NEW p \in 1 .. Len(<<<<kind, c>>>>)
        PROVE  p = 1 /\ <<<<kind, c>>>>[p][2] = c
    BY SMTT(30)
  <2>6. CASE j \in jobs /\ j # job
    <3>1. CASE o \in jobs /\ o # job
      BY <2>1, <2>6, <3>1, ZenonT(40)
    <3>2. CASE o = Tail(job)
      BY <1>1, <2>1, <2>6, <3>2, SMTT(30)
    <3>3. CASE \E c \in C : o = <<<<kind, c>>>>
      BY <2>3, <2>5, <2>6, <3>3, SMTT(30)
    <3> QED
      BY <1>3, <3>1, <3>2, <3>3, Zenon
  <2>7. CASE j = Tail(job)
    <3>1. CASE o \in jobs /\ o # job
      BY <1>1, <2>1, <2>7, <3>1, SMTT(30)
    <3>2. CASE o = Tail(job)
      <4>1. n + 1 = m + 1
        BY <1>1, <2>1, <2>7, <3>2, SMTT(30)
      <4> QED
        BY <1>1, <2>7, <3>2, <4>1, SMTT(30)
    <3>3. CASE \E c \in C : o = <<<<kind, c>>>>
      BY <2>4, <2>5, <2>7, <3>3, SMTT(30)
    <3> QED
      BY <1>3, <3>1, <3>2, <3>3, Zenon
  <2>8. CASE \E c \in C : j = <<<<kind, c>>>>
    <3>1. CASE o \in jobs /\ o # job
      BY <2>3, <2>5, <2>8, <3>1, SMTT(30)
    <3>2. CASE o = Tail(job)
      BY <2>4, <2>5, <2>8, <3>2, SMTT(30)
    <3>3. CASE \E c \in C : o = <<<<kind, c>>>>
      BY <2>5, <2>8, <3>3, SMTT(30)
    <3> QED
      BY <1>3, <3>1, <3>2, <3>3, Zenon
  <2> QED
    BY <1>3, <2>6, <2>7, <2>8, Zenon
<1>5. ASSUME NEW k \in {"stat", "list"}, NEW x \in Dirs, Queued(k, x)'
      PROVE  (Queued(k, x) /\ x # d) \/ (k = kind /\ x \in C)
  <2>1. PICK j \in jobs', n \in Nat : n \in 1 .. Len(j) /\ j[n] = <<k, x>>
    BY <1>5, SMTT(30) DEF Queued
  <2>2. CASE j \in jobs /\ j # job
    <3>1. Queued(k, x)
      BY <2>1, <2>2, Zenon DEF Queued
    <3>2. x # d
      BY <1>1, <2>1, <2>2, SMTT(30) DEF OneStepEach
    <3> QED
      BY <3>1, <3>2, Zenon
  <2>3. CASE j = Tail(job)
    <3>1. job[n + 1] = <<k, x>> /\ n + 1 \in 1 .. Len(job) /\ n + 1 # 1
      BY <1>1, <2>1, <2>3, Zenon
    <3>2. Queued(k, x)
      BY <3>1, Zenon DEF Queued
    <3>3. x # d
      BY <1>1, <3>1, SMTT(30) DEF OneStepEach
    <3> QED
      BY <3>2, <3>3, Zenon
  <2>4. CASE \E c \in C : j = <<<<kind, c>>>>
    BY <2>1, <2>4, SMTT(30)
  <2> QED
    BY <1>3, <2>2, <2>3, <2>4, Zenon
<1>6. ASSUME NEW k \in {"stat", "list"}, NEW x \in Dirs, Queued(k, x), x # d
      PROVE  Queued(k, x)'
  <2>1. PICK j \in jobs, n \in Nat : n \in 1 .. Len(j) /\ j[n] = <<k, x>>
    BY <1>6, SMTT(30) DEF Queued
  <2>2. CASE j # job
    BY <2>1, <2>2, Zenon DEF Queued, JobDone
  <2>3. CASE j = job
    <3>1. n # 1
      BY <1>1, <1>6, <2>1, <2>3, SMTT(30)
    <3>2. n - 1 \in 1 .. Len(Tail(job)) /\ Tail(job)[n - 1] = <<k, x>>
      BY <1>1, <2>1, <2>3, <3>1, SMTT(30)
    <3>3. Tail(job) \in jobs'
      <4>1. Len(Tail(job)) # 0
        BY <1>1, <3>2, SMTT(30)
      <4>2. Len(<<>>) = 0
        BY Zenon
      <4>3. Tail(job) # <<>>
        BY <4>1, <4>2, Zenon
      <4> QED
        BY <4>3, Zenon DEF JobDone
    <3> QED
      BY <3>2, <3>3, Zenon DEF Queued
  <2> QED
    BY <2>2, <2>3, Zenon
<1>7. ASSUME NEW x \in C
      PROVE  Queued(kind, x)'
  <2>1. <<<<kind, x>>>> \in jobs'
    BY Zenon DEF JobDone
  <2> QED
    BY <2>1, SMTT(30) DEF Queued
<1> QED
  BY <1>4, <1>5, <1>6, <1>7, Zenon

\* The first step of a job is in the pool.
LEMMA HeadQueued ==
    ASSUME TypeOK, NEW job \in jobs
    PROVE  Queued(Head(job)[1], Head(job)[2]) /\ Head(job)[2] \in Dirs /\ Pending(Head(job)[2])
<1>1. /\ Head(job)[1] \in {"stat", "list"} /\ Head(job)[2] \in Dirs
      /\ Head(job) = <<Head(job)[1], Head(job)[2]>>
      /\ Len(job) \in Nat \ {0} /\ Head(job) = job[1]
  BY HeadType, Zenon DEF TypeOK
<1>2. 1 \in 1 .. Len(job) /\ job[1] = <<Head(job)[1], Head(job)[2]>>
  BY <1>1, SMTT(30)
<1>3. Queued(Head(job)[1], Head(job)[2])
  BY <1>2, Zenon DEF Queued
<1> QED
  BY <1>1, <1>3, Zenon DEF Pending

\* statDirAsync is called for a directory that exists, and finds its stamp.
LEMMA StatDirCache ==
    ASSUME TypeOK, MayFail = {}, CacheSound, NEW job \in jobs, StatDir(job)
    PROVE  CacheSound'
<1> DEFINE d == Head(job)[2]
<1>0. ClockInv /\ DbInv /\ ErrsInv /\ WalkInv /\ jobs \in SUBSET Seq(Steps) /\ <<>> \notin jobs
  BY Zenon DEF CacheSound, TypeOK
<1>1. /\ run.pc = "walk" /\ Head(job)[1] = "stat"
      /\ UNCHANGED <<world, disk, clock, db, run, quiet, result>>
  BY Zenon DEF StatDir
<1>2. d \in Dirs /\ Queued("stat", d) /\ Pending(d)
  BY <1>1, HeadQueued, Zenon
<1>3. /\ nodes[Root].inTree /\ OneStepEach
      /\ \A x \in Dirs : PendingOK(x) /\ StatDone(x) /\ ListDone(x)
  BY <1>0, <1>1, Zenon DEF WalkInv
<1>4. nodes[d].stamp = 0 /\ disk[d].stamp # 0
  BY <1>2, <1>3, Zenon DEF PendingOK, Exists
<1>5. /\ errs' = errs
      /\ nodes' = [nodes EXCEPT ![d].stamp = disk[d].stamp, ![d].names = {}]
      /\ JobDone(job, {<<<<"list", d>>>>})
  BY <1>4, NoFailure, Zenon DEF StatDir, Lstat
<1>6. /\ OneStepEach'
      /\ \A x \in Dirs : /\ Queued("stat", x)' <=> Queued("stat", x) /\ x # d
                         /\ Queued("list", x)' <=> (Queued("list", x) /\ x # d) \/ x = d
  <2> DEFINE C == {d}
  <2>1. C \in SUBSET Dirs /\ (\A c \in C : c = d \/ ~ Pending(c)) /\ {<<<<"list", c>>>> : c \in C} = {<<<<"list", d>>>>}
    BY <1>2, Zenon
  <2>2. JobDone(job, {<<<<"list", c>>>> : c \in C})
    BY <1>5, <2>1, Zenon
  <2>3. "list" \in {"stat", "list"} /\ "stat" \in {"stat", "list"} /\ "stat" # "list" /\ \A x : x \in C <=> x = d
    BY Zenon
  <2> HIDE DEF C
  <2>4. /\ OneStepEach'
        /\ \A k \in {"stat", "list"} : \A x \in Dirs :
              Queued(k, x)' <=> (Queued(k, x) /\ x # d) \/ (k = "list" /\ x \in C)
    BY <1>0, <1>3, <2>1, <2>2, <2>3, StepsAfter, Zenon
  <2> QED
    BY <2>3, <2>4, Zenon
<1>7. \A x \in Dirs : Pending(x)' <=> Pending(x)
  BY <1>2, <1>6, Zenon DEF Pending
<1>8. /\ nodes'[d].stamp = disk[d].stamp
      /\ \A x \in Dirs : nodes'[x].inTree = nodes[x].inTree
      /\ \A x \in Dirs \ {d} : nodes'[x] = nodes[x]
  BY <1>2, <1>5, Zenon DEF TypeOK, NodesType
<1>9. \A x \in Dirs : /\ InCache(x)' <=> InCache(x)
                      /\ KidsInTree(x)' = KidsInTree(x)
                      /\ Exists(x)' <=> Exists(x)
  <2>1. \A x \in Dirs : InCache(x)' <=> InCache(x)
    BY <1>8, AboveDef, Zenon DEF InCache
  <2>2. \A x \in Dirs : KidsInTree(x)' = KidsInTree(x)
    BY <1>8, Zenon DEF KidsInTree, ChildrenOf
  <2> QED
    BY <1>1, <2>1, <2>2, SameDisk, Zenon
<1>10. ClockInv' /\ DbInv' /\ ErrsInv'
  <2>1. ClockInv'
    BY <1>0, <1>1, <1>8, SameDisk, Zenon DEF ClockInv
  <2>2. ErrsInv'
    BY <1>0, <1>1, <1>5, SameDisk, Zenon DEF ErrsInv
  <2> QED
    BY <1>0, <1>1, <2>1, <2>2, SameDb, Zenon
<1>11. ASSUME NEW x \in Dirs
       PROVE  PendingOK(x)' /\ StatDone(x)' /\ ListDone(x)'
  <2>1. PendingOK(x)'
    <3>1. \A c \in ChildrenOf(x) : c \in Dirs /\ (nodes'[c].inTree <=> nodes[c].inTree) /\ (Unknown(c)' <=> Unknown(c))
      <4>1. \A c \in Dirs : \A y \in Beneath(c) : y \in Dirs /\ (nodes'[y].inTree <=> nodes[y].inTree)
                               /\ (Pending(y)' <=> Pending(y))
        BY <1>7, <1>8, Zenon DEF Beneath
      <4>2. \A c \in Dirs : Unknown(c)' <=> Unknown(c)
        BY <1>7, <4>1, Zenon DEF Unknown, Beneath
      <4> QED
        BY <1>8, <4>2, Zenon DEF ChildrenOf
    <3> QED
      BY <1>3, <1>6, <1>7, <1>8, <1>9, <3>1, ZenonT(30) DEF PendingOK
  <2>2. StatDone(x)'
    BY <1>1, <1>3, <1>4, <1>6, <1>8, <1>9, ZenonT(30) DEF StatDone
  <2>3. ListDone(x)'
    <3>1. CASE x = d
      BY <1>2, <1>7, <3>1, Zenon DEF ListDone
    <3>2. CASE x # d
      <4>1. NodeFaithful(x)' <=> NodeFaithful(x)
        BY <1>1, <1>8, <1>9, <3>2, SameDisk, ZenonT(40) DEF NodeFaithful
      <4>2. \A c \in KidsInTree(x) : Exists(c)' <=> Exists(c)
        BY <1>1, SameDisk, Zenon
      <4> QED
        BY <1>3, <1>7, <1>9, <4>1, <4>2, Zenon DEF ListDone
    <3> QED
      BY <3>1, <3>2, Zenon
  <2> QED
    BY <2>1, <2>2, <2>3, Zenon
<1>12. WalkInv'
  BY <1>3, <1>6, <1>8, <1>11, TreeAssumption, Zenon DEF WalkInv
<1> QED
  BY <1>1, <1>10, <1>12, Zenon DEF CacheSound, LoadInv, UpInv

\* Listed: only the subdirectories of d come into the tree and leave it.
LEMMA ListedIs ==
    ASSUME nodes \in NodesType, NEW d \in Dirs, NEW names, NEW subdirs \in SUBSET ChildrenOf(d)
    PROVE  LET after == Listed(d, names, subdirs) IN
           /\ after[d].names = names
           /\ \A x \in Dirs \ ChildrenOf(d) : after[x].inTree = nodes[x].inTree
           /\ \A x \in ChildrenOf(d) : after[x].inTree <=> x \in subdirs
           /\ \A x \in Dirs : IF x \in subdirs /\ ~ nodes[x].inTree THEN after[x].stamp = 0
                              ELSE /\ after[x].stamp = nodes[x].stamp
                                   /\ x # d => after[x].names = nodes[x].names
<1>1. \A x \in ChildrenOf(d) : x \in Dirs /\ x # d
  <2> SUFFICES ASSUME NEW x \in ChildrenOf(d) PROVE x \in Dirs /\ x # d
    BY Zenon
  <2>1. x \in Dirs \ {Root} /\ ParentOf[x] = d
    BY Zenon DEF ChildrenOf
  <2>2. x \in Above[x] /\ x \notin Above[ParentOf[x]] /\ d \in Above[d]
    BY <2>1, AboveOrder, Zenon
  <2> QED
    BY <2>1, <2>2, Zenon
<1> DEFINE after == Listed(d, names, subdirs)
<1>2. after[d] = [nodes[d] EXCEPT !.names = names]
  BY <1>1, Zenon DEF Listed
<1>3. \A x \in subdirs : after[x] = IF nodes[x].inTree THEN nodes[x] ELSE NewNode
  BY <1>1, Zenon DEF Listed
<1>4. \A x \in ChildrenOf(d) \ subdirs : after[x] = [nodes[x] EXCEPT !.inTree = FALSE]
  BY <1>1, Zenon DEF Listed
<1>5. \A x \in Dirs \ (ChildrenOf(d) \cup {d}) : after[x] = nodes[x]
  BY Zenon DEF Listed
<1> HIDE DEF after
<1>6. \A x \in Dirs : nodes[x] \in [inTree : BOOLEAN, stamp : Nat, names : SUBSET FileNames]
  BY Zenon DEF NodesType
<1>7. after[d].names = names /\ after[d].inTree = nodes[d].inTree /\ after[d].stamp = nodes[d].stamp
  BY <1>2, <1>6, Zenon
<1>8. \A x \in ChildrenOf(d) \ subdirs :
          after[x].inTree = FALSE /\ after[x].stamp = nodes[x].stamp /\ after[x].names = nodes[x].names
  <2> SUFFICES ASSUME NEW x \in ChildrenOf(d) \ subdirs
               PROVE  after[x].inTree = FALSE /\ after[x].stamp = nodes[x].stamp /\ after[x].names = nodes[x].names
    BY Zenon
  <2>1. /\ after[x] = [nodes[x] EXCEPT !.inTree = FALSE]
        /\ nodes[x] \in [inTree : BOOLEAN, stamp : Nat, names : SUBSET FileNames]
    BY <1>1, <1>4, <1>6, ZenonT(40)
  <2> QED
    BY <2>1, Zenon
<1>9. \A x \in subdirs :
          /\ after[x].inTree = TRUE
          /\ IF nodes[x].inTree THEN after[x].stamp = nodes[x].stamp /\ after[x].names = nodes[x].names
             ELSE after[x].stamp = 0
  BY <1>1, <1>3, <1>6, SMTT(30) DEF NewNode
<1> QED
  <2>1. \A x \in Dirs \ ChildrenOf(d) : after[x].inTree = nodes[x].inTree
    BY <1>5, <1>7, Zenon
  <2>2. \A x \in ChildrenOf(d) : after[x].inTree <=> x \in subdirs
    BY <1>8, <1>9, Zenon
  <2>3. ASSUME NEW x \in Dirs
        PROVE  IF x \in subdirs /\ ~ nodes[x].inTree THEN after[x].stamp = 0
               ELSE after[x].stamp = nodes[x].stamp /\ (x # d => after[x].names = nodes[x].names)
    BY <1>1, <1>5, <1>7, <1>8, <1>9, Zenon
  <2> QED
    BY <1>7, <2>1, <2>2, <2>3, Zenon DEF after

\* What is below a subdirectory of d is neither d nor a subdirectory of d.
LEMMA BeneathKid ==
    ASSUME NEW d \in Dirs, NEW x \in ChildrenOf(d), NEW z \in Beneath(x)
    PROVE  z \in Dirs /\ z # d /\ z \notin ChildrenOf(d)
<1>1. x \in Dirs \ {Root} /\ ParentOf[x] = d /\ z \in Dirs /\ z # x /\ x \in Above[z]
  BY Zenon DEF ChildrenOf, Beneath
<1>2. x \notin Above[d]
  BY <1>1, AboveOrder, Zenon
<1>3. z \in ChildrenOf(d) => Above[z] = {z} \cup Above[d]
  BY AboveDef, Zenon DEF ChildrenOf
<1> QED
  BY <1>1, <1>2, <1>3, Zenon

\* A directory whose parent is below c is below c.
LEMMA BeneathStep ==
    ASSUME NEW c \in Dirs, NEW d \in Dirs, NEW y \in ChildrenOf(d), y \in Beneath(c)
    PROVE  d = c \/ d \in Beneath(c)
<1>1. y \in Dirs \ {Root} /\ ParentOf[y] = d /\ y # c /\ c \in Above[y]
  BY Zenon DEF ChildrenOf, Beneath
<1>2. Above[y] = {y} \cup Above[d]
  BY <1>1, AboveDef, Zenon
<1> QED
  BY <1>1, <1>2, Zenon DEF Beneath

\* listDirSync is called for a directory that exists, and finds what is in it;
\* what it learns of is unknown to the pool.
LEMMA ListDirCache ==
    ASSUME TypeOK, MayFail = {}, CacheSound, NEW job \in jobs, ListDir(job)
    PROVE  CacheSound'
<1> DEFINE d == Head(job)[2]
           subdirs == Subdirs(d, run.exclude)
           C == {c \in subdirs : ~ nodes[c].inTree}
<1>0. ClockInv /\ DbInv /\ ErrsInv /\ WalkInv /\ jobs \in SUBSET Seq(Steps) /\ <<>> \notin jobs /\ nodes \in NodesType
  BY Zenon DEF CacheSound, TypeOK
<1>1. /\ run.pc = "walk" /\ Head(job)[1] = "list"
      /\ UNCHANGED <<world, disk, clock, db, run, quiet, result>>
  BY Zenon DEF ListDir
<1>2. d \in Dirs /\ Queued("list", d) /\ Pending(d)
  BY <1>1, HeadQueued, Zenon
<1>3. /\ nodes[Root].inTree /\ OneStepEach
      /\ \A x \in Dirs : PendingOK(x) /\ StatDone(x) /\ ListDone(x)
  BY <1>0, <1>1, Zenon DEF WalkInv
<1>4. /\ Exists(d) /\ \A c \in ChildrenOf(d) : ~ nodes[c].inTree => Unknown(c)
  BY <1>2, <1>3, Zenon DEF PendingOK
<1>5. errs' = errs /\ nodes' = Listed(d, Names(d), subdirs) /\ JobDone(job, {<<<<"stat", c>>>> : c \in C})
  <2>1. CASE disk[d].readable
    <3>1. Names(d) = RelevantFiles(disk[d].files) /\ subdirs = RelevantDirs(d, disk[d].files)
      BY <2>1, Zenon DEF Names, Subdirs, RelevantDirs
    <3> HIDE DEF subdirs
    <3> QED
      BY <1>4, <2>1, <3>1, NoFailure, Zenon DEF ListDir
  <2>2. CASE ~ disk[d].readable
    <3>1. Names(d) = RelevantFiles({}) /\ subdirs = {}
      BY <2>2, Zenon DEF Names, Subdirs, RelevantFiles, Pruned
    <3> HIDE DEF subdirs
    <3> QED
      BY <1>4, <2>2, <3>1, NoFailure, Zenon DEF ListDir
  <2> QED
    BY <2>1, <2>2, Zenon
<1>6. /\ subdirs \in SUBSET ChildrenOf(d) /\ (\A c \in subdirs : Exists(c))
      /\ C \in SUBSET Dirs /\ C \subseteq ChildrenOf(d)
  BY Zenon DEF Subdirs, ChildrenOf
<1>7. \A c \in C : Unknown(c)
  BY <1>4, <1>6, Zenon
<1>8. /\ nodes'[d].names = Names(d)
      /\ \A x \in Dirs \ ChildrenOf(d) : nodes'[x].inTree = nodes[x].inTree
      /\ \A x \in ChildrenOf(d) : nodes'[x].inTree <=> x \in subdirs
      /\ \A x \in C : nodes'[x].stamp = 0
      /\ \A x \in Dirs \ C : /\ nodes'[x].stamp = nodes[x].stamp
                             /\ x # d => nodes'[x].names = nodes[x].names
  <2>1. /\ nodes'[d].names = Names(d)
        /\ \A x \in Dirs \ ChildrenOf(d) : nodes'[x].inTree = nodes[x].inTree
        /\ \A x \in ChildrenOf(d) : nodes'[x].inTree <=> x \in subdirs
        /\ \A x \in Dirs : IF x \in subdirs /\ ~ nodes[x].inTree THEN nodes'[x].stamp = 0
                           ELSE /\ nodes'[x].stamp = nodes[x].stamp
                                /\ x # d => nodes'[x].names = nodes[x].names
    <3> DEFINE after == Listed(d, Names(d), subdirs)
    <3>1. /\ after[d].names = Names(d)
          /\ \A x \in Dirs \ ChildrenOf(d) : after[x].inTree = nodes[x].inTree
          /\ \A x \in ChildrenOf(d) : after[x].inTree <=> x \in subdirs
          /\ \A x \in Dirs : IF x \in subdirs /\ ~ nodes[x].inTree THEN after[x].stamp = 0
                             ELSE /\ after[x].stamp = nodes[x].stamp
                                  /\ x # d => after[x].names = nodes[x].names
      <4> HIDE DEF d, subdirs
      <4> QED
        BY <1>0, <1>2, <1>6, ListedIs, SMTT(30)
    <3>2. nodes' = after
      BY <1>5, Zenon
    <3> HIDE DEF d, subdirs, after
    <3> QED
      BY <3>1, <3>2, ZenonT(40)
  <2>2. \A x \in C : nodes'[x].stamp = 0
    BY <1>6, <2>1, Zenon
  <2>3. \A x \in Dirs \ C : x \in subdirs => nodes[x].inTree
    BY Zenon
  <2> HIDE DEF C
  <2>4. \A x \in Dirs \ C : nodes'[x].stamp = nodes[x].stamp /\ (x # d => nodes'[x].names = nodes[x].names)
    BY <2>1, <2>3, Zenon
  <2> QED
    BY <2>1, <2>2, <2>4, Zenon
<1>9. /\ OneStepEach'
      /\ \A x \in Dirs : /\ Queued("stat", x)' <=> (Queued("stat", x) /\ x # d) \/ x \in C
                         /\ Queued("list", x)' <=> Queued("list", x) /\ x # d
  <2>1. \A c \in C : c = d \/ ~ Pending(c)
    BY <1>7, Zenon DEF Unknown
  <2>2. "list" \in {"stat", "list"} /\ "stat" \in {"stat", "list"} /\ "list" # "stat"
    BY Zenon
  <2> HIDE DEF C
  <2>3. /\ OneStepEach'
        /\ \A k \in {"stat", "list"} : \A x \in Dirs :
              Queued(k, x)' <=> (Queued(k, x) /\ x # d) \/ (k = "stat" /\ x \in C)
    BY <1>0, <1>3, <1>5, <1>6, <2>1, <2>2, StepsAfter, Zenon
  <2> QED
    BY <2>2, <2>3, Zenon
<1> HIDE DEF subdirs, C
<1>10. \A x \in Dirs : Pending(x)' <=> (Pending(x) /\ x # d) \/ x \in C
  BY <1>9, Zenon DEF Pending
<1>11. ~ Queued("stat", d) /\ d \notin ChildrenOf(d)
  <2>1. ~ Queued("stat", d)
    <3> SUFFICES ASSUME Queued("stat", d) PROVE FALSE
      BY Zenon
    <3>1. PICK j \in jobs, n \in Nat : n \in 1 .. Len(j) /\ j[n] = <<"stat", d>>
      BY SMTT(30) DEF Queued
    <3>2. PICK o \in jobs, m \in Nat : m \in 1 .. Len(o) /\ o[m] = <<"list", d>>
      BY <1>2, SMTT(30) DEF Queued
    <3>3. j = o /\ n = m
      BY <1>3, <3>1, <3>2, SMTT(30) DEF OneStepEach
    <3> QED
      BY <3>1, <3>2, <3>3, SMTT(30)
  <2>2. d \notin ChildrenOf(d)
    BY <1>2, AboveOrder, Zenon DEF ChildrenOf
  <2> QED
    BY <2>1, <2>2, ZenonT(40)
<1>12. ASSUME NEW x \in C, NEW z \in Beneath(x)
       PROVE  z \in Dirs /\ z # d /\ z \notin C /\ ~ nodes[z].inTree /\ ~ nodes'[z].inTree /\ ~ Pending(z) /\ ~ Pending(z)'
  <2>1. z \in Dirs /\ z # d /\ z \notin ChildrenOf(d)
    BY <1>2, <1>6, BeneathKid, Zenon
  <2>2. ~ nodes[z].inTree /\ ~ Pending(z)
    BY <1>7, Zenon DEF Unknown
  <2> QED
    BY <1>6, <1>8, <1>10, <2>1, <2>2, Zenon
<1>13. ClockInv' /\ DbInv' /\ ErrsInv'
  <2>1. ClockInv'
    <3>1. \A x \in Dirs : nodes'[x].stamp <= clock
      <4>1. \A x \in Dirs : nodes[x].stamp <= clock
        BY <1>0, Zenon DEF ClockInv
      <4>2. 0 <= clock
        BY SMTT(30) DEF TypeOK
      <4> QED
        BY <1>8, <4>1, <4>2, Zenon
    <3> QED
      BY <1>0, <1>1, <3>1, SameDisk, Zenon DEF ClockInv
  <2>2. ErrsInv'
    BY <1>0, <1>1, <1>5, SameDisk, Zenon DEF ErrsInv
  <2> QED
    BY <1>0, <1>1, <2>1, <2>2, SameDb, Zenon
<1>14. ASSUME NEW x \in Dirs
       PROVE  PendingOK(x)'
  <2>1. Queued("stat", x)' => nodes'[x].stamp = 0
    <3>1. Queued("stat", x) => nodes[x].stamp = 0
      BY <1>3, Zenon DEF PendingOK
    <3> QED
      BY <1>8, <1>9, <3>1, Zenon
  <2>2. Pending(x)' => Exists(x)'
    <3>1. Exists(x)' <=> Exists(x)
      BY <1>1, SameDisk, Zenon
    <3>2. Pending(x) => Exists(x)
      BY <1>3, Zenon DEF PendingOK
    <3>3. x \in C => Exists(x)
      BY <1>6, Zenon DEF C
    <3> QED
      BY <1>10, <3>1, <3>2, <3>3, Zenon
  <2>3. ASSUME Pending(x)', NEW c \in ChildrenOf(x), ~ nodes'[c].inTree
        PROVE  Unknown(c)'
    <3>0. c \in Dirs \ {Root} /\ ParentOf[c] = x
      BY Zenon DEF ChildrenOf
    <3>1. CASE x \in C
      <4>1. Above[c] = {c} \cup Above[x] /\ x \in Above[x] /\ c \notin Above[x]
        BY <3>0, AboveDef, AboveOrder, Zenon
      <4>2. c \in Beneath(x)
        BY <3>0, <4>1, Zenon DEF Beneath
      <4>3. \A y \in Beneath(c) : y \in Beneath(x)
        BY <4>1, AboveOrder, Zenon DEF Beneath
      <4>4. ~ Pending(c)' /\ \A y \in Beneath(c) : ~ nodes'[y].inTree /\ ~ Pending(y)'
        BY <1>12, <3>1, <4>2, <4>3, Zenon
      <4> QED
        BY <4>4, Zenon DEF Unknown, Beneath
    <3>2. CASE x \notin C
      <4>1. Pending(x) /\ x # d
        BY <1>10, <2>3, <3>2, Zenon
      <4>2. c \notin ChildrenOf(d)
        BY <3>0, <4>1, Zenon DEF ChildrenOf
      <4>3. ~ nodes[c].inTree
        BY <1>8, <2>3, <3>0, <4>2, Zenon
      <4>4. Unknown(c)
        BY <1>3, <4>1, <4>3, Zenon DEF PendingOK
      <4>5. ~ Pending(c)'
        BY <1>6, <1>10, <3>0, <4>2, <4>4, Zenon DEF Unknown
      <4>6. ASSUME NEW y \in Beneath(c)
            PROVE  ~ nodes'[y].inTree /\ ~ Pending(y)'
        <5>1. y \in Dirs /\ ~ nodes[y].inTree /\ ~ Pending(y)
          BY <4>4, Zenon DEF Unknown, Beneath
        <5>2. y \notin ChildrenOf(d)
          <6> SUFFICES ASSUME y \in ChildrenOf(d) PROVE FALSE
            BY Zenon
          <6>1. d = c \/ d \in Beneath(c)
            BY <1>2, <3>0, BeneathStep, Zenon
          <6> QED
            BY <1>2, <4>4, <6>1, Zenon DEF Unknown
        <5> QED
          BY <1>6, <1>8, <1>10, <5>1, <5>2, Zenon
      <4> QED
        BY <4>5, <4>6, Zenon DEF Unknown, Beneath
    <3> QED
      BY <3>1, <3>2, Zenon
  <2> QED
    BY <2>1, <2>2, <2>3, Zenon DEF PendingOK
<1>15. ASSUME NEW x \in Dirs, x \notin C, InCache(x)'
       PROVE  InCache(x)
  <2> SUFFICES ASSUME NEW z \in Above[x]
               PROVE  nodes[z].inTree
    BY Zenon DEF InCache
  <2>1. z \in Dirs /\ nodes'[z].inTree /\ nodes'[x].inTree
    BY <1>15, AboveDef, AboveOrder, Zenon DEF InCache
  <2>2. z \notin C
    BY <1>12, <1>15, <2>1, Zenon DEF Beneath
  <2> QED
    BY <1>8, <2>1, <2>2, Zenon DEF C
<1>16. ASSUME NEW x \in Dirs
       PROVE  StatDone(x)'
  <2> SUFFICES ASSUME InCache(x)', ~ Queued("stat", x)'
               PROVE  /\ Exists(x)' => nodes'[x].stamp # 0
                      /\ quiet' => nodes'[x].stamp = disk'[x].stamp
    BY Zenon DEF StatDone
  <2>1. x \notin C /\ ~ Queued("stat", x)
    BY <1>9, <1>11, Zenon
  <2>2. InCache(x)
    BY <1>15, <2>1, Zenon
  <2>3. StatDone(x)
    BY <1>3, Zenon
  <2> QED
    BY <1>1, <1>8, <2>1, <2>2, <2>3, SameDisk, Zenon DEF StatDone
<1>17. ASSUME NEW x \in Dirs
       PROVE  ListDone(x)'
  <2> SUFFICES ASSUME InCache(x)', ~ Pending(x)', Exists(x)'
               PROVE  NodeFaithful(x)' /\ \A c \in KidsInTree(x)' : Exists(c)'
    BY Zenon DEF ListDone
  <2>1. x \notin C /\ (x = d \/ ~ Pending(x)) /\ Exists(x)
    BY <1>1, <1>10, SameDisk, Zenon
  <2>2. CASE x = d
    <3>1. KidsInTree(d)' = subdirs
      BY <1>6, <1>8, Zenon DEF KidsInTree, ChildrenOf
    <3>2. Faithful(d, nodes'[d].stamp, nodes'[d].names, subdirs, run.exclude)
      BY <1>8, Zenon DEF Faithful, subdirs
    <3> QED
      BY <1>1, <1>6, <2>2, <3>1, <3>2, SameDisk, Zenon DEF NodeFaithful
  <2>3. CASE x # d
    <3>1. \A c \in ChildrenOf(x) : c \in Dirs /\ nodes'[c].inTree = nodes[c].inTree
      BY <1>8, <2>3, Zenon DEF ChildrenOf
    <3>2. KidsInTree(x)' = KidsInTree(x)
      BY <3>1, Zenon DEF KidsInTree, ChildrenOf
    <3>3. InCache(x)
      BY <1>15, <2>1, Zenon
    <3>4. NodeFaithful(x) /\ \A c \in KidsInTree(x) : Exists(c)
      BY <1>3, <2>1, <2>3, <3>3, Zenon DEF ListDone
    <3>5. nodes'[x].stamp = nodes[x].stamp /\ nodes'[x].names = nodes[x].names
      BY <1>8, <2>1, <2>3, Zenon
    <3> QED
      BY <1>1, <3>2, <3>4, <3>5, SameDisk, Zenon DEF NodeFaithful
  <2> QED
    BY <2>2, <2>3, Zenon
<1>18. WalkInv'
  <2>1. nodes'[Root].inTree
    BY <1>3, <1>8, TreeAssumption, Zenon DEF ChildrenOf
  <2> QED
    BY <1>9, <1>14, <1>16, <1>17, <2>1, Zenon DEF WalkInv
<1> QED
  BY <1>1, <1>13, <1>18, Zenon DEF CacheSound, LoadInv, UpInv

\* startWithoutExternalCache: the root is known, and to be examined.
LEMMA StartCache ==
    ASSUME TypeOK, CacheSound, StartWithoutExternalCache
    PROVE  CacheSound'
<1>0. ClockInv /\ DbInv /\ ErrsInv
  BY Zenon DEF CacheSound
<1>1. /\ run.pc = "scan" /\ run'.pc = "walk" /\ jobs' = {<<<<"stat", Root>>>>}
      /\ UNCHANGED <<world, disk, clock, db, quiet, errs, result>>
  BY Zenon DEF StartWithoutExternalCache, TypeOK, RunType
<1>2. Root \in Dirs /\ \A x \in Dirs : nodes'[x].stamp = 0 /\ (nodes'[x].inTree <=> x = Root)
  BY TreeAssumption, Zenon DEF StartWithoutExternalCache, NewNode, NoNode
<1>3. OneStepEach' /\ \A x \in Dirs : (Queued("stat", x)' <=> x = Root) /\ (Pending(x)' <=> x = Root)
  <2>1. OneStepEach'
    BY <1>1, SMTT(30) DEF OneStepEach
  <2>2. \A x \in Dirs : (Queued("stat", x)' <=> x = Root) /\ ~ Queued("list", x)'
    BY <1>1, SMTT(30) DEF Queued
  <2> QED
    BY <2>1, <2>2, Zenon DEF Pending
<1>4. ClockInv' /\ DbInv' /\ ErrsInv'
  <2>1. 0 <= clock
    BY SMTT(30) DEF TypeOK
  <2>2. ClockInv'
    BY <1>0, <1>1, <1>2, <2>1, SameDisk, Zenon DEF ClockInv
  <2> QED
    BY <1>0, <1>1, <2>2, SameDb, Zenon DEF ErrsInv
<1>5. ASSUME NEW x \in Dirs
      PROVE  PendingOK(x)' /\ StatDone(x)' /\ ListDone(x)'
  <2>1. ~ (InCache(x)' /\ x # Root)
    BY <1>2, AboveOrder, Zenon DEF InCache
  <2>2. StatDone(x)' /\ ListDone(x)'
    BY <1>3, <2>1, Zenon DEF StatDone, ListDone
  <2>3. ASSUME NEW c \in ChildrenOf(x)
        PROVE  Unknown(c)'
    <3>1. c \in Dirs /\ c # Root /\ \A y \in Beneath(c) : y \in Dirs /\ y # Root
      BY AboveDef, Zenon DEF ChildrenOf, Beneath
    <3>2. ~ Pending(c)' /\ \A y \in Beneath(c) : ~ nodes'[y].inTree /\ ~ Pending(y)'
      BY <1>2, <1>3, <3>1, Zenon
    <3> QED
      BY <3>2, Zenon DEF Unknown, Beneath
  <2>4. x = Root => Exists(x)'
    BY <1>4, Zenon DEF ClockInv
  <2> QED
    BY <1>2, <1>3, <2>2, <2>3, <2>4, Zenon DEF PendingOK
<1> QED
  BY <1>1, <1>2, <1>3, <1>4, <1>5, Zenon DEF CacheSound, LoadInv, WalkInv, UpInv

\* When the pool is idle every node of the tree is of a directory that exists.
LEMMA LoadedCache ==
    ASSUME TypeOK, CacheSound, Loaded
    PROVE  CacheSound'
<1>0. ClockInv /\ DbInv /\ ErrsInv /\ WalkInv
  BY Zenon DEF CacheSound
<1>1. /\ run.pc = "walk" /\ jobs = {} /\ run'.pc = "up" /\ run'.exclude = run.exclude
      /\ UNCHANGED <<world, disk, clock, db, quiet, nodes, errs>>
  BY Zenon DEF Loaded, TypeOK, RunType
<1>2. nodes[Root].inTree /\ Root \in Dirs /\ \A x \in Dirs : StatDone(x) /\ ListDone(x)
  BY <1>0, <1>1, TreeAssumption, Zenon DEF WalkInv
<1>3. \A x \in Dirs : ~ Queued("stat", x) /\ ~ Pending(x)
  BY <1>1, Zenon DEF Queued, Pending
<1>4. \A x \in Dirs : InCache(x) => Exists(x)
  <2> DEFINE S == {x \in Dirs : InCache(x) => Exists(x)}
  <2>1. Root \in S
    BY <1>0, <1>2, Zenon DEF ClockInv
  <2>2. ASSUME NEW x \in Dirs \ {Root}, ParentOf[x] \in S
        PROVE  x \in S
    <3> SUFFICES ASSUME InCache(x) PROVE Exists(x)
      BY Zenon
    <3>1. Above[x] = {x} \cup Above[ParentOf[x]]
      BY AboveDef, Zenon
    <3>2. nodes[x].inTree /\ InCache(ParentOf[x])
      BY <3>1, Zenon DEF InCache
    <3>3. ParentOf[x] \in Dirs /\ Exists(ParentOf[x])
      BY <2>2, <3>2, Zenon
    <3>4. \A c \in KidsInTree(ParentOf[x]) : Exists(c)
      BY <1>2, <1>3, <3>2, <3>3, Zenon DEF ListDone
    <3> QED
      BY <3>2, <3>4, Zenon DEF KidsInTree, ChildrenOf
  <2> HIDE DEF S
  <2>3. \A x \in Dirs : x \in S
    BY <2>1, <2>2, TreeInduction, Zenon
  <2> QED
    BY <2>3, Zenon DEF S
<1>5. ASSUME NEW x \in Dirs, InCache(x)
      PROVE  nodes[x].stamp # 0 /\ (quiet => nodes[x].stamp = disk[x].stamp) /\ NodeFaithful(x)
  BY <1>2, <1>3, <1>4, <1>5, Zenon DEF StatDone, ListDone
<1>6. result' # "error"
  <2>1. \A x \in errs : ~ InCache(x)
    BY <1>0, <1>1, <1>4, Zenon DEF ErrsInv, TypeOK
  <2>2. InCache(Root)
    BY <1>2, AboveDef, Zenon DEF InCache
  <2>3. nodes[Root].stamp # 0
    BY <1>2, <1>5, <2>2, Zenon
  <2> QED
    BY <2>1, <2>2, <2>3, Zenon DEF Loaded
<1>7. \A x \in Dirs : (InCache(x)' <=> InCache(x)) /\ (NodeFaithful(x)' <=> NodeFaithful(x))
  <2>1. \A x \in Dirs : KidsInTree(x)' = KidsInTree(x)
    BY <1>1, Zenon DEF KidsInTree, ChildrenOf
  <2>2. \A x \in Dirs : NodeFaithful(x)' <=> NodeFaithful(x)
    BY <1>1, <2>1, SameDisk, Zenon DEF NodeFaithful
  <2>3. \A x \in Dirs : InCache(x)' <=> InCache(x)
    BY <1>1, Zenon DEF InCache
  <2> QED
    BY <2>2, <2>3, Zenon
<1>8. UpInv'
  BY <1>1, <1>2, <1>5, <1>6, <1>7, Zenon DEF UpInv
<1>9. ClockInv' /\ DbInv'
  BY <1>0, <1>1, SameDb, Zenon DEF ClockInv
<1> QED
  BY <1>1, <1>8, <1>9, Zenon DEF CacheSound, LoadInv, ErrsInv, WalkInv

\* dumpDb saves the nodes of the tree.
LEMMA DumpCache ==
    ASSUME TypeOK, CacheSound, DumpDb
    PROVE  CacheSound'
<1>0. ClockInv /\ UpInv
  BY Zenon DEF CacheSound
<1>1. /\ run.pc = "up" /\ db'.exclude = run.exclude /\ db'.blocks = SerializeDb
      /\ UNCHANGED <<world, disk, clock, run, quiet, nodes, result>>
  BY Zenon DEF DumpDb
<1>2. nodes[Root].inTree /\ \A x \in Dirs : InCache(x) => nodes[x].stamp # 0 /\ NodeFaithful(x)
  BY <1>0, <1>1, Zenon DEF UpInv
<1>3. /\ SerializeDb \in Seq(Seq(EntryType))
      /\ \A i \in DOMAIN SerializeDb : \A n \in 1 .. Len(SerializeDb[i]) :
            LET e == SerializeDb[i][n]
            IN  InCache(e.path) /\ e.stamp # 0 /\ e.stamp = nodes[e.path].stamp
                   /\ e.names = nodes[e.path].names
      /\ \A d \in Dirs : InCache(d) /\ nodes[d].stamp # 0 =>
            \E i \in DOMAIN SerializeDb : \E n \in 1 .. Len(SerializeDb[i]) :
                SerializeDb[i][n].path = d
      /\ \A i, k \in DOMAIN SerializeDb :
            \A n \in 1 .. Len(SerializeDb[i]), m \in 1 .. Len(SerializeDb[k]) :
                SerializeDb[i][n].path = SerializeDb[k][m].path => i = k /\ n = m
  BY SerializeDbIs, Zenon
<1>4. ASSUME NEW i \in DOMAIN SerializeDb, NEW n \in 1 .. Len(SerializeDb[i])
      PROVE  SerializeDb[i][n].path \in Dirs
  <2>1. SerializeDb[i] \in Seq(EntryType)
    BY <1>3, SMTT(30)
  <2>2. SerializeDb[i][n] \in EntryType
    BY <2>1, SMTT(30)
  <2> QED
    BY <2>2, Zenon DEF EntryType
<1>5. \A d \in Dirs : Saved(d)' <=> InCache(d)
  <2>1. \A d \in Dirs : Saved(d)' <=> \E i \in DOMAIN SerializeDb : \E n \in 1 .. Len(SerializeDb[i]) :
                                          SerializeDb[i][n].path = d
    BY <1>1, Zenon DEF Saved
  <2> QED
    BY <1>2, <1>3, <2>1, SMTT(30)
<1>6. ASSUME NEW d \in Dirs, InCache(d)
      PROVE  (d # Root => Saved(ParentOf[d])') /\ SavedKids(d)' = KidsInTree(d)
  <2>1. d # Root => ParentOf[d] \in Dirs /\ InCache(ParentOf[d])
    BY <1>6, AboveDef, TreeAssumption, SMTT(30) DEF InCache
  <2>2. \A c \in ChildrenOf(d) : c \in Dirs /\ (InCache(c) <=> nodes[c].inTree)
    <3> SUFFICES ASSUME NEW c \in ChildrenOf(d) PROVE c \in Dirs /\ (InCache(c) <=> nodes[c].inTree)
      BY Zenon
    <3>1. c \in Dirs /\ Above[c] = {c} \cup Above[d]
      BY AboveDef, Zenon DEF ChildrenOf
    <3> QED
      BY <1>6, <3>1, Zenon DEF InCache
  <2>3. \A c \in ChildrenOf(d) : Saved(c)' <=> nodes[c].inTree
    BY <1>5, <2>2, Zenon
  <2> QED
    BY <1>5, <2>1, <2>3, Zenon DEF SavedKids, KidsInTree, ChildrenOf
<1>7. ASSUME NEW i \in DOMAIN SerializeDb, NEW n \in 1 .. Len(SerializeDb[i]), NEW e, e = SerializeDb[i][n]
      PROVE  EntryOK(e)'
  <2>1. e.path \in Dirs /\ InCache(e.path) /\ e.stamp # 0 /\ e.stamp = nodes[e.path].stamp
        /\ e.names = nodes[e.path].names
    BY <1>3, <1>4, <1>7, SMTT(30)
  <2>2. e.stamp <= clock
    BY <1>0, <2>1, Zenon DEF ClockInv
  <2>3. Faithful(e.path, e.stamp, e.names, KidsInTree(e.path), run.exclude)
    BY <1>2, <2>1, Zenon DEF NodeFaithful
  <2> QED
    BY <1>1, <1>6, <2>1, <2>2, <2>3, SameDisk, ZenonT(40) DEF EntryOK
<1>8. DbInv'
  <2>1. Saved(Root)'
    BY <1>2, <1>5, AboveDef, TreeAssumption, Zenon DEF InCache
  <2>2. ASSUME NEW i \in DOMAIN db.blocks', NEW n \in 1 .. Len(db.blocks'[i])
        PROVE  EntryOK(db.blocks[i][n])'
    <3>1. PICK e : e = SerializeDb[i][n]
      BY Zenon
    <3>2. EntryOK(e)' /\ e = db.blocks'[i][n]
      BY <1>1, <1>7, <3>1, Zenon
    <3> QED
      BY <3>2, Zenon DEF EntryOK
  <2>3. \A i, k \in DOMAIN db.blocks' : \A n \in 1 .. Len(db.blocks'[i]), m \in 1 .. Len(db.blocks'[k]) :
            db.blocks'[i][n].path = db.blocks'[k][m].path => i = k /\ n = m
    <3> SUFFICES ASSUME NEW i \in DOMAIN db.blocks', NEW k \in DOMAIN db.blocks',
                        NEW n \in 1 .. Len(db.blocks'[i]), NEW m \in 1 .. Len(db.blocks'[k]),
                        db.blocks'[i][n].path = db.blocks'[k][m].path
                 PROVE  i = k /\ n = m
      BY Zenon
    <3>1. db.blocks' = SerializeDb
      BY <1>1, Zenon
    <3>2. /\ i \in DOMAIN SerializeDb /\ n \in 1 .. Len(SerializeDb[i])
          /\ k \in DOMAIN SerializeDb /\ m \in 1 .. Len(SerializeDb[k])
          /\ SerializeDb[i][n].path = SerializeDb[k][m].path
      BY <3>1, Zenon
    <3>3. \A x, y \in DOMAIN SerializeDb : \A a \in 1 .. Len(SerializeDb[x]), b \in 1 .. Len(SerializeDb[y]) :
              SerializeDb[x][a].path = SerializeDb[y][b].path => x = y /\ a = b
      BY <1>3, Zenon
    <3> QED
      BY <3>2, <3>3, SMTT(30)
  <2> QED
    BY <2>1, <2>2, <2>3, Zenon DEF DbInv
<1>9. ClockInv' /\ UpInv'
  <2>1. ClockInv'
    BY <1>0, <1>1, SameDisk, Zenon DEF ClockInv
  <2>2. \A x \in Dirs : (InCache(x)' <=> InCache(x)) /\ KidsInTree(x)' = KidsInTree(x)
    BY <1>1, Zenon DEF InCache, KidsInTree, ChildrenOf
  <2>3. \A x \in Dirs : NodeFaithful(x)' <=> NodeFaithful(x)
    BY <1>1, <2>2, SameDisk, Zenon DEF NodeFaithful
  <2> QED
    BY <1>0, <1>1, <2>1, <2>2, <2>3, Zenon DEF UpInv
<1> QED
  BY <1>1, <1>8, <1>9, Zenon DEF CacheSound, LoadInv, ErrsInv, WalkInv
-----------------------------------------------------------------------------
(* The theorems *)

\* CacheInv holds before the first run.
LEMMA CacheInit == Init => CacheInv
<1> SUFFICES ASSUME Init PROVE CacheSound
  BY Zenon DEF CacheInv
<1>1. /\ run.pc = "idle" /\ clock = 1 /\ db.blocks = <<>>
      /\ \A d \in Dirs : nodes[d].stamp = 0 /\ disk[d].stamp = IF d = Root THEN 1 ELSE 0
  BY Zenon DEF Init, NoDb, NoNode, NoDir, EmptyDir
<1>2. ClockInv
  <2>1. Root \in Dirs
    BY TreeAssumption, Zenon
  <2> QED
    BY <1>1, <2>1, SMTT(30) DEF ClockInv, Exists
<1>3. DbInv
  BY <1>1, SMTT(30) DEF DbInv
<1> QED
  BY <1>1, <1>2, <1>3, Zenon DEF CacheSound, LoadInv, ErrsInv, WalkInv, UpInv

\* A stuttering step preserves CacheSound.
LEMMA StutterCache ==
    ASSUME CacheSound, UNCHANGED vars
    PROVE  CacheSound'
<1>1. /\ UNCHANGED <<world, disk, clock, db, run, quiet, stats, unmerged, loadError, nodes, jobs>>
      /\ UNCHANGED <<errs, result>>
  BY Zenon DEF vars, runVars
<1>2. \A d : /\ Exists(d)' <=> Exists(d)
             /\ InCache(d)' <=> InCache(d)
             /\ KidsInTree(d)' = KidsInTree(d)
             /\ SavedKids(d)' = SavedKids(d)
             /\ Saved(d)' <=> Saved(d)
  BY <1>1, SameDb, Zenon DEF InCache, KidsInTree, ChildrenOf
<1>3. \A d : /\ \A kind : Queued(kind, d)' <=> Queued(kind, d)
             /\ Pending(d)' <=> Pending(d)
  <2>1. \A d : \A kind : Queued(kind, d)' <=> Queued(kind, d)
    BY <1>1, Zenon DEF Queued
  <2> QED
    BY <2>1, Zenon DEF Pending
<1>4. \A d : (Unknown(d)' <=> Unknown(d)) /\ (NodeFaithful(d)' <=> NodeFaithful(d))
  <2>1. \A d : Unknown(d)' <=> Unknown(d)
    BY <1>1, <1>3, Zenon DEF Unknown, Beneath
  <2>2. \A d : NodeFaithful(d)' <=> NodeFaithful(d)
    BY <1>1, <1>2, SameDisk, Zenon DEF NodeFaithful
  <2> QED
    BY <2>1, <2>2, Zenon
<1>5. \A d : /\ PendingOK(d)' <=> PendingOK(d)
             /\ StatDone(d)' <=> StatDone(d)
             /\ ListDone(d)' <=> ListDone(d)
  <2>1. \A d : PendingOK(d)' <=> PendingOK(d)
    BY <1>1, <1>2, <1>3, <1>4, Zenon DEF PendingOK
  <2>2. \A d : StatDone(d)' <=> StatDone(d)
    BY <1>1, <1>2, <1>3, Zenon DEF StatDone
  <2>3. \A d : ListDone(d)' <=> ListDone(d)
    BY <1>2, <1>3, <1>4, Zenon DEF ListDone
  <2> QED
    BY <2>1, <2>2, <2>3, Zenon
<1>6. WalkInv => WalkInv'
  BY <1>1, <1>5, Zenon DEF WalkInv, OneStepEach
<1>7. UpInv => UpInv'
  BY <1>1, <1>2, <1>4, Zenon DEF UpInv
<1>8. ClockInv => ClockInv'
  BY <1>1, <1>2, Zenon DEF ClockInv
<1>9. LoadInv => LoadInv'
  <2>1. \A i, n : (StatOK(i, n)' <=> StatOK(i, n)) /\ (MergeOK(i, n)' <=> MergeOK(i, n))
    <3> SUFFICES ASSUME NEW i, NEW n
                 PROVE  (StatOK(i, n)' <=> StatOK(i, n)) /\ (MergeOK(i, n)' <=> MergeOK(i, n))
      BY Zenon
    <3>1. StatOK(i, n)' <=> StatOK(i, n)
      <4>1. UNCHANGED <<stats[i][n], clock, quiet, db.blocks[i][n], disk>>
        BY <1>1, Zenon
      <4> QED
        BY <1>2, <4>1, Zenon DEF StatOK
    <3>2. MergeOK(i, n)' <=> MergeOK(i, n)
      <4>1. UNCHANGED <<stats[i][n], unmerged, db.bad, db.blocks[i][n], nodes>>
        BY <1>1, Zenon
      <4> QED
        BY <4>1, Zenon DEF MergeOK
    <3> QED
      BY <3>1, <3>2, Zenon
  <2> QED
    BY <1>1, <1>2, <2>1, Zenon DEF LoadInv
<1>10. (ErrsInv => ErrsInv') /\ (DbInv => DbInv')
  BY <1>1, <1>2, SameDb, Zenon DEF ErrsInv
<1> QED
  BY <1>6, <1>7, <1>8, <1>9, <1>10, Zenon DEF CacheSound

\* Every action of the tree and of the Finder preserves CacheInv.
LEMMA CacheStep == TypeOK /\ DumpInv /\ CacheInv /\ [Next]_vars => CacheInv'
<1> SUFFICES ASSUME TypeOK, DumpInv, CacheInv, [Next]_vars, DirsStay', MayFail = {}
             PROVE  CacheSound'
  BY Zenon DEF CacheInv
<1>1. CASE TreeChange
  <2>1. UNCHANGED world
    BY <1>1, TreeChangeType, Zenon
  <2>2. DirsStay
    BY <2>1, Zenon DEF DirsStay
  <2> QED
    BY <1>1, <2>2, TreeChangeCache, Zenon DEF CacheInv
<1> SUFFICES ASSUME ~ TreeChange
             PROVE  CacheSound'
  BY <1>1, Zenon
<1>2. UNCHANGED world
  BY Zenon DEF Next, Environment, LoadStep, TreeChange, DamageDb, New, StatEntry, CombineBlock, StartListing,
         StartWithoutExternalCache, StatDir, ListDir, Loaded, DumpDb, Exit, vars
<1>3. CacheSound
  BY <1>2, Zenon DEF CacheInv, DirsStay
<1>4. ASSUME NEW i \in DOMAIN db.blocks, DamageDb(i)
      PROVE  CacheSound'
  <2>1. /\ run'.pc = "idle" /\ db'.blocks = db.blocks /\ db'.exclude = db.exclude
        /\ UNCHANGED <<disk, clock, nodes>>
    BY <1>4, Zenon DEF DamageDb, runVars, TypeOK, DbType
  <2>2. ClockInv' /\ DbInv'
    BY <1>3, <2>1, SameDb, Zenon DEF CacheSound, ClockInv
  <2> QED
    BY <2>1, <2>2, Zenon DEF CacheSound, LoadInv, ErrsInv, WalkInv, UpInv
<1>5. ASSUME NEW exclude \in world.excludes, New(exclude)
      PROVE  CacheSound'
  <2>1. /\ run'.pc \in {"load", "scan"} /\ errs' = {} /\ unmerged' = DOMAIN db.blocks
        /\ \A i \in DOMAIN db.blocks : Len(stats'[i]) = 0
        /\ \A d \in Dirs : nodes'[d].stamp = 0 /\ nodes'[d].inTree = FALSE
        /\ UNCHANGED <<disk, clock, db>>
    BY <1>5, Zenon DEF New, NoNode
  <2>2. ClockInv'
    <3>1. 0 <= clock
      BY SMTT(30) DEF TypeOK
    <3> QED
      BY <1>3, <2>1, <3>1, SameDisk, Zenon DEF CacheSound, ClockInv
  <2>3. LoadInv'
    <3>1. \A i \in DOMAIN db.blocks : \A n \in 1 .. Len(db.blocks[i]) : MergeOK(i, n)'
      BY <2>1, EntryTyped, Zenon DEF MergeOK
    <3> QED
      BY <2>1, <3>1, SMTT(30) DEF LoadInv
  <2> QED
    BY <1>3, <2>1, <2>2, <2>3, SameDb, Zenon DEF CacheSound, ErrsInv, WalkInv, UpInv
<1>6. CASE Exit
  <2>1. run'.pc = "idle" /\ (\A d \in Dirs : nodes'[d].stamp = 0) /\ UNCHANGED <<disk, clock, db>>
    BY <1>6, Zenon DEF Exit, TypeOK, RunType, NoNode
  <2>2. ClockInv'
    <3>1. 0 <= clock
      BY SMTT(30) DEF TypeOK
    <3> QED
      BY <1>3, <2>1, <3>1, SameDisk, Zenon DEF CacheSound, ClockInv
  <2> QED
    BY <1>3, <2>1, <2>2, SameDb, Zenon DEF CacheSound, LoadInv, ErrsInv, WalkInv, UpInv
<1>7. CASE UNCHANGED vars
  BY <1>3, <1>7, StutterCache, Zenon
<1> QED
  BY <1>3, <1>4, <1>5, <1>6, <1>7, StatEntryCache, CombineBlockCache, StartListingCache, StartCache,
     StatDirCache, ListDirCache, LoadedCache, DumpCache, ZenonT(40)
     DEF Next, Environment, LoadStep, TreeChange

\* The inductive invariant of the three theorems.
LEMMA Invariants == Spec => [](TypeOK /\ DumpInv /\ CacheInv)
<1>1. Init => TypeOK /\ DumpInv /\ CacheInv
  <2>1. Init => DumpInv
    BY DEF Init, DumpInv
  <2> QED
    BY <2>1, TypeInit, CacheInit, Zenon
<1>2. TypeOK /\ DumpInv /\ CacheInv /\ [Next]_vars => (TypeOK /\ DumpInv /\ CacheInv)'
  BY TypeStep, DumpStep, CacheStep, Zenon
<1> QED
  BY <1>1, <1>2, PTL DEF Spec

\* In a quiet run the nodes of the tree are those of the directories that a
\* walk goes through.
LEMMA CacheIsWalked ==
    ASSUME CacheSound, run.pc = "up", quiet
    PROVE  \A d \in Dirs : InCache(d) <=> d \in Walked(run.exclude)
<1> DEFINE S == {d \in Dirs : InCache(d) <=> d \in Walked(run.exclude)}
<1>1. /\ nodes[Root].inTree /\ Exists(Root)
      /\ \A d \in Dirs \ {Root} : Exists(d) => Exists(ParentOf[d])
      /\ \A d \in Dirs : InCache(d) => KidsInTree(d) = Subdirs(d, run.exclude)
  BY Zenon DEF CacheSound, ClockInv, UpInv, NodeFaithful, Faithful
<1>2. Root \in S
  BY <1>1, AboveDef, TreeAssumption, Zenon DEF InCache, Walked
<1>3. ASSUME NEW d \in Dirs \ {Root}, ParentOf[d] \in S
      PROVE  d \in S
  <2>1. ParentOf[d] \in Dirs /\ Above[d] = {d} \cup Above[ParentOf[d]]
    BY AboveDef, TreeAssumption, Zenon
  <2>2. InCache(d) <=> nodes[d].inTree /\ InCache(ParentOf[d])
    BY <2>1, Zenon DEF InCache
  <2>3. d \in Walked(run.exclude) <=> d \in Subdirs(ParentOf[d], run.exclude) /\ ParentOf[d] \in Walked(run.exclude)
    <3>1. d \in Subdirs(ParentOf[d], run.exclude) => Exists(d)
      BY Zenon DEF Subdirs
    <3> QED
      BY <1>1, <2>1, <3>1, Zenon DEF Walked
  <2>4. InCache(ParentOf[d]) => (nodes[d].inTree <=> d \in Subdirs(ParentOf[d], run.exclude))
    <3>1. nodes[d].inTree <=> d \in KidsInTree(ParentOf[d])
      BY Zenon DEF KidsInTree, ChildrenOf
    <3> QED
      BY <1>1, <2>1, <3>1, Zenon
  <2> QED
    BY <1>3, <2>2, <2>3, <2>4, Zenon
<1> HIDE DEF S
<1>4. \A d \in Dirs : d \in S
  BY <1>2, <1>3, TreeInduction, Zenon
<1> QED
  BY <1>4, Zenon DEF S

\* For every tree, every number of threads and of runs, and every way in which
\* other programs change the tree between the runs and files while one loads:
\* a query of a run in which nothing changes finds what a walk finds, when no
\* call fails unexpectedly.
THEOREM AnswersAreExact == Spec => [](DirsStay /\ MayFail = {} => ExactAnswers)
<1>1. TypeOK /\ DumpInv /\ CacheInv => (DirsStay /\ MayFail = {} => ExactAnswers)
  <2> SUFFICES ASSUME TypeOK, DumpInv, CacheInv, MayFail = {}, DirsStay, result = "ok", quiet
               PROVE  Answers = {a \in Walked(run.exclude) \X FileNames : a[2] \in Names(a[1])}
    BY Zenon DEF ExactAnswers
  <2>1. run.pc = "up" /\ CacheSound
    BY Zenon DEF DumpInv, CacheInv
  <2>2. \A d \in Dirs : InCache(d) <=> d \in Walked(run.exclude)
    BY <2>1, CacheIsWalked, Zenon
  <2>3. \A d \in Dirs : InCache(d) => nodes[d].names = Names(d)
    BY <2>1, Zenon DEF CacheSound, UpInv, NodeFaithful, Faithful
  <2>4. Walked(run.exclude) \subseteq Dirs
    BY Zenon DEF Walked
  <2> HIDE DEF Walked
  <2> QED
    BY <2>2, <2>3, <2>4, Zenon DEF Answers
<1> QED
  BY <1>1, Invariants, PTL

\* In the same generality: New does not fail, unless a call fails unexpectedly.
THEOREM ErrorsHaveReasons == Spec => [](DirsStay => ErrorsAreReal)
<1>1. TypeOK /\ DumpInv /\ CacheInv => (DirsStay => ErrorsAreReal)
  <2> SUFFICES ASSUME DumpInv, CacheInv, DirsStay, MayFail = {}
               PROVE  result # "error"
    BY Zenon DEF ErrorsAreReal
  <2> QED
    BY Zenon DEF DumpInv, CacheInv, CacheSound, UpInv
<1> QED
  BY <1>1, Invariants, PTL
=============================================================================
