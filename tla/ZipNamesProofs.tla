---------------------------- MODULE ZipNamesProofs ----------------------------
(***************************************************************************)
(* The names of an archive, for all inputs.                                *)
(***************************************************************************)
EXTENDS ZipNames, WellFoundedInduction, TLAPS

EntryType == [name : Paths, kind : {"dir", "file"}]

DirEntry(path) == [name |-> path, kind |-> "dir"]

\* The names of the entries es do not clash, but for a jar's manifest.
NoClash(es) ==
    \A i, k \in 1 .. Len(es) :
        i # k /\ ~ (emulateJar /\ es[i].name = ManifestFile) =>
            /\ es[i].name # es[k].name
            /\ es[i].kind = "file" => ~ Under(es[k].name, es[i].name)

\* Each entry comes after those of the directories of its path.
ParentsFirst(es) ==
    \A k \in 1 .. Len(es) : \A n \in 1 .. Len(es[k].name) - 1 :
        \E i \in 1 .. k - 1 : es[i] = DirEntry(Prefix(es[k].name, n))

\* D is closed upwards.
Closed(D) == \A d \in D : \A n \in 1 .. Len(d) : Prefix(d, n) \in D

\* Each entry is accounted for in D or F.
Recorded(D, F, es) ==
    \A k \in 1 .. Len(es) :
        /\ es[k].kind = "dir" => es[k].name \in D
        /\ es[k].kind = "file" => es[k].name \in F \/ (emulateJar /\ es[k].name = ManifestFile)
        /\ \A n \in 1 .. Len(es[k].name) - 1 : Prefix(es[k].name, n) \in D

\* Each directory of D has its entry.
Stored(D, es) == \A d \in D : \E k \in 1 .. Len(es) : es[k] = DirEntry(d)

\* How the created directories D, the created files F and the entries es
\* hang together.
NamesInv(D, F, es) ==
    /\ es \in Seq(EntryType)
    /\ D \subseteq Paths /\ F \subseteq Paths
    /\ \A d \in D : d \notin F
    /\ Closed(D)
    /\ Recorded(D, F, es)
    /\ directories => Stored(D, es)
    /\ NoClash(es)
    /\ directories => ParentsFirst(es)

\* A set of numbers that is not empty has a least one.
LEMMA LeastNumber ==
    ASSUME NEW T \in SUBSET Nat, T # {}
    PROVE  \E m \in T : \A n \in T : m <= n
<1> DEFINE R == OpToRel(<, Nat)
<1>1. IsWellFoundedOn(R, Nat)
  BY NatLessThanWellFounded, Zenon
<1>2. \A x, y \in Nat : x < y => <<x, y>> \in R
  BY Zenon DEF OpToRel
<1> HIDE DEF R
<1>3. PICK x \in T : \A y \in T : ~ (<<y, x>> \in R)
  <2>1. \E x \in T : \A y \in T : ~ (<<y, x>> \in R)
    BY <1>1, WFMin, Zenon
  <2> QED
    BY <2>1, Zenon
<1>4. \A y \in T : ~ (y < x)
  BY <1>2, <1>3, Zenon
<1> QED
  BY <1>4, SMTT(30)

\* Induction up to N, for a set.
LEMMA UpTo ==
    ASSUME NEW N \in Nat, NEW T, 0 \in T, \A n \in T : n \in 0 .. N - 1 => n + 1 \in T
    PROVE  0 .. N \subseteq T
<1> DEFINE Out == {n \in 0 .. N : n \notin T}
<1> SUFFICES ASSUME Out # {} PROVE FALSE
  BY Zenon
<1>1. PICK m \in Out : \A n \in Out : m <= n
  <2>1. Out \in SUBSET Nat
    BY SMTT(30)
  <2> HIDE DEF Out
  <2> QED
    BY <2>1, LeastNumber, Zenon
<1>2. m # 0 /\ m - 1 \in 0 .. N - 1 /\ m - 1 \notin Out
  BY <1>1, SMTT(30)
<1> QED
  BY <1>2, SMTT(30)

-----------------------------------------------------------------------------
(* Paths *)

\* A prefix is a path of its length, whose prefixes are those of the path.
LEMMA PrefixIs ==
    ASSUME NEW p \in Seq(Components), NEW n \in 0 .. Len(p)
    PROVE  /\ Prefix(p, n) \in Seq(Components)
           /\ Len(Prefix(p, n)) = n
           /\ n > 0 => Prefix(p, n) \in Paths
           /\ \A k \in 0 .. n : Prefix(Prefix(p, n), k) = Prefix(p, k)
           /\ Prefix(p, Len(p)) = p
<1>1. Prefix(p, n) \in Seq(Components) /\ Len(Prefix(p, n)) = n
  BY SMTT(30) DEF Prefix
<1>2. ASSUME NEW k \in 0 .. n
      PROVE  Prefix(Prefix(p, n), k) = Prefix(p, k)
  BY SMTT(30) DEF Prefix
<1>3. Prefix(p, Len(p)) = p
  BY SMTT(30) DEF Prefix
<1>4. Len(<<>>) = 0
  BY Zenon
<1> QED
  BY <1>1, <1>2, <1>3, <1>4, SMTT(30) DEF Paths

\* The parent of a path has the path's prefixes but the last.
LEMMA ParentIs ==
    ASSUME NEW p \in Paths
    PROVE  /\ Parent(p) \in Seq(Components)
           /\ Len(p) \in Nat /\ Len(p) > 0
           /\ Len(Parent(p)) = Len(p) - 1
           /\ \A n \in 1 .. Len(p) - 1 : Prefix(Parent(p), n) = Prefix(p, n)
<1>1. p \in Seq(Components) /\ Len(p) \in Nat /\ Len(p) > 0
  BY SMTT(30) DEF Paths
<1>2. Len(p) - 1 \in 0 .. Len(p)
  BY <1>1, SMTT(30)
<1> QED
  BY <1>1, <1>2, PrefixIs, SMTT(30) DEF Parent

\* writeDirectory stops at the longest prefix that was created earlier.
LEMMA ExistingIs ==
    ASSUME NEW dir \in Seq(Components)
    PROVE  /\ Existing(dir) \in 0 .. Len(dir)
           /\ Existing(dir) > 0 => Prefix(dir, Existing(dir)) \in createdDirs
           /\ \A k \in Existing(dir) + 1 .. Len(dir) : Prefix(dir, k) \notin createdDirs
<1> DEFINE Stops(n) == /\ n > 0 => Prefix(dir, n) \in createdDirs
                       /\ \A k \in n + 1 .. Len(dir) : Prefix(dir, k) \notin createdDirs
           T == {m \in 0 .. Len(dir) : \A k \in m + 1 .. Len(dir) : Prefix(dir, k) \notin createdDirs}
<1>1. Len(dir) \in Nat /\ Len(dir) \in T
  BY SMTT(30)
<1>2. PICK m \in T : \A n \in T : m <= n
  <2>1. T \in SUBSET Nat /\ T # {}
    BY <1>1, SMTT(30)
  <2> HIDE DEF T
  <2> QED
    BY <2>1, LeastNumber, Zenon
<1>3. Stops(m)
  <2>1. ASSUME m > 0, Prefix(dir, m) \notin createdDirs
        PROVE  FALSE
    <3>1. m - 1 \in T
      BY <1>1, <1>2, <2>1, SMTT(30)
    <3>2. m <= m - 1
      BY <3>1, <1>2, Zenon
    <3>3. m \in Nat
      BY <1>1, SMTT(30)
    <3> QED
      BY <3>2, <3>3, SMTT(30)
  <2> QED
    BY <2>1, <1>2, Zenon
<1>4. \E n \in 0 .. Len(dir) : Stops(n)
  BY <1>2, <1>3, Zenon
<1>5. Existing(dir) = CHOOSE n \in 0 .. Len(dir) : Stops(n)
  BY Zenon DEF Existing
<1>6. Existing(dir) \in 0 .. Len(dir) /\ Stops(Existing(dir))
  BY <1>4, <1>5, Zenon
<1> QED
  BY <1>6, Zenon
-----------------------------------------------------------------------------
(* The two ways in which entries are added *)

\* A file is in no directory's way and in no file's, and below none.
LEMMA AddName ==
    ASSUME NEW D, NEW F, NEW G, NEW es, NamesInv(D, F, es),
           NEW f \in Paths, f \notin D, f \notin F,
           \A n \in 1 .. Len(f) - 1 : Prefix(f, n) \in D,
           G = F \cup {f} \/ (G = F /\ emulateJar /\ f = ManifestFile)
    PROVE  NamesInv(D, G, es \o FileEntry(f))
<1> DEFINE new == [name |-> f, kind |-> "file"]
           all == es \o FileEntry(f)
<1>1. /\ es \in Seq(EntryType) /\ D \subseteq Paths /\ F \subseteq Paths
      /\ \A d \in D : d \notin F
      /\ Closed(D) /\ Recorded(D, F, es)
      /\ directories => Stored(D, es)
      /\ NoClash(es)
      /\ directories => ParentsFirst(es)
  BY Zenon DEF NamesInv
<1>2. new \in EntryType /\ new.name = f /\ new.kind = "file"
  BY Zenon DEF EntryType
<1> HIDE DEF new
<1>3. FileEntry(f) = <<new>>
  BY Zenon DEF FileEntry, new
<1>4. /\ all \in Seq(EntryType) /\ Len(es) \in Nat
      /\ Len(all) = Len(es) + 1
      /\ \A k \in 1 .. Len(es) : all[k] = es[k] /\ es[k] \in EntryType
      /\ all[Len(es) + 1] = new
  BY <1>1, <1>2, <1>3, SMTT(30)
<1> HIDE DEF all
<1>5. \A k \in 1 .. Len(all) : k \in 1 .. Len(es) \/ k = Len(es) + 1
  BY <1>4, SMTT(30)
<1>6. D \subseteq Paths /\ G \subseteq Paths /\ \A d \in D : d \notin G
  BY <1>1, Zenon
<1>7. Recorded(D, G, all)
  <2> SUFFICES ASSUME NEW k \in 1 .. Len(all)
               PROVE  /\ all[k].kind = "dir" => all[k].name \in D
                      /\ all[k].kind = "file" => all[k].name \in G \/ (emulateJar /\ all[k].name = ManifestFile)
                      /\ \A n \in 1 .. Len(all[k].name) - 1 : Prefix(all[k].name, n) \in D
    BY Zenon DEF Recorded
  <2>1. CASE k \in 1 .. Len(es)
    <3>1. all[k] = es[k]
      BY <1>4, <2>1, Zenon
    <3>2. F \subseteq G
      BY Zenon
    <3> QED
      BY <1>1, <2>1, <3>1, <3>2, Zenon DEF Recorded
  <2>2. CASE k = Len(es) + 1
    <3>1. all[k] = new
      BY <1>4, <2>2, Zenon
    <3>2. f \in G \/ (emulateJar /\ f = ManifestFile)
      BY Zenon
    <3> QED
      BY <1>2, <3>1, <3>2, Zenon
  <2> QED
    BY <1>5, <2>1, <2>2, Zenon
<1>8. ASSUME directories
      PROVE  Stored(D, all)
  <2>1. Stored(D, es)
    BY <1>1, <1>8, Zenon
  <2> QED
    BY <2>1, <1>4, SMTT(30) DEF Stored
<1>9. NoClash(all)
  <2> SUFFICES ASSUME NEW i \in 1 .. Len(all), NEW k \in 1 .. Len(all), i # k,
                      ~ (emulateJar /\ all[i].name = ManifestFile)
               PROVE  /\ all[i].name # all[k].name
                      /\ all[i].kind = "file" => ~ Under(all[k].name, all[i].name)
    BY Zenon DEF NoClash
  <2>1. CASE i \in 1 .. Len(es) /\ k \in 1 .. Len(es)
    <3>1. all[i] = es[i] /\ all[k] = es[k]
      BY <1>4, <2>1, Zenon
    <3> QED
      BY <1>1, <2>1, <3>1, Zenon DEF NoClash
  <2>2. CASE i \in 1 .. Len(es) /\ k = Len(es) + 1
    <3>1. all[i] = es[i] /\ all[k] = new /\ es[i] \in EntryType
      BY <1>4, <2>2, Zenon
    <3>2. es[i].kind = "dir" => es[i].name \in D
      BY <1>1, <2>2, Zenon DEF Recorded
    <3>3. es[i].kind = "file" => es[i].name \in F
      BY <1>1, <2>2, <3>1, Zenon DEF Recorded
    <3>4. es[i].kind \in {"dir", "file"} /\ es[i].name \in Paths
      BY <3>1, Zenon DEF EntryType
    <3>5. es[i].name # f
      BY <3>2, <3>3, <3>4, Zenon
    <3>6. ASSUME es[i].kind = "file", Under(f, es[i].name)
          PROVE  FALSE
      <4>1. Prefix(f, Len(es[i].name)) = es[i].name /\ Len(es[i].name) <= Len(f)
        BY <3>6, Zenon DEF Under
      <4>2. Len(es[i].name) \in Nat /\ Len(es[i].name) > 0 /\ Len(f) \in Nat
        BY <3>4, ParentIs, Zenon
      <4>3. Len(es[i].name) # Len(f)
        <5>1. f \in Seq(Components) /\ Len(f) \in 0 .. Len(f)
          BY <4>2, SMTT(30) DEF Paths
        <5>2. Prefix(f, Len(f)) = f
          BY <5>1, PrefixIs, Zenon
        <5> QED
          BY <4>1, <5>2, <3>5, Zenon
      <4>4. es[i].name \in D
        BY <4>1, <4>2, <4>3, SMTT(30)
      <4> QED
        BY <4>4, <3>3, <3>6, <1>1, Zenon
    <3> QED
      BY <1>2, <3>1, <3>5, <3>6, Zenon
  <2>3. CASE i = Len(es) + 1 /\ k \in 1 .. Len(es)
    <3>1. all[i] = new /\ all[k] = es[k] /\ es[k] \in EntryType
      BY <1>4, <2>3, Zenon
    <3>2. ~ (emulateJar /\ f = ManifestFile)
      BY <1>2, <3>1, Zenon
    <3>3. es[k].kind = "dir" => es[k].name \in D
      BY <1>1, <2>3, Zenon DEF Recorded
    <3>4. es[k].kind = "file" => es[k].name \in F \/ (emulateJar /\ es[k].name = ManifestFile)
      BY <1>1, <2>3, Zenon DEF Recorded
    <3>5. es[k].kind \in {"dir", "file"} /\ es[k].name \in Paths
      BY <3>1, Zenon DEF EntryType
    <3>6. es[k].name # f
      BY <3>2, <3>3, <3>4, <3>5, Zenon
    <3>7. ASSUME Under(es[k].name, f)
          PROVE  FALSE
      <4>1. Prefix(es[k].name, Len(f)) = f /\ Len(f) <= Len(es[k].name)
        BY <3>7, Zenon DEF Under
      <4>2. Len(es[k].name) \in Nat /\ Len(f) > 0 /\ Len(f) \in Nat
        BY <3>5, ParentIs, Zenon
      <4>3. Len(es[k].name) # Len(f)
        <5>1. es[k].name \in Seq(Components) /\ Len(es[k].name) \in 0 .. Len(es[k].name)
          BY <3>5, <4>2, SMTT(30) DEF Paths
        <5>2. Prefix(es[k].name, Len(es[k].name)) = es[k].name
          BY <5>1, PrefixIs, Zenon
        <5> QED
          BY <4>1, <5>2, <3>6, Zenon
      <4>4. Len(f) \in 1 .. Len(es[k].name) - 1
        BY <4>1, <4>2, <4>3, SMTT(30)
      <4>5. f \in D
        BY <1>1, <2>3, <4>1, <4>4, Zenon DEF Recorded
      <4> QED
        BY <4>5, Zenon
    <3> QED
      BY <1>2, <3>1, <3>6, <3>7, Zenon
  <2> QED
    BY <1>5, <2>1, <2>2, <2>3, Zenon
<1>10. ASSUME directories
       PROVE  ParentsFirst(all)
  <2> SUFFICES ASSUME NEW k \in 1 .. Len(all), NEW n \in 1 .. Len(all[k].name) - 1
               PROVE  \E i \in 1 .. k - 1 : all[i] = DirEntry(Prefix(all[k].name, n))
    BY Zenon DEF ParentsFirst
  <2>0. ParentsFirst(es) /\ Stored(D, es)
    BY <1>1, <1>10, Zenon
  <2>1. CASE k \in 1 .. Len(es)
    <3>1. all[k] = es[k]
      BY <1>4, <2>1, Zenon
    <3>2. PICK i \in 1 .. k - 1 : es[i] = DirEntry(Prefix(es[k].name, n))
      BY <2>0, <2>1, <3>1, Zenon DEF ParentsFirst
    <3>3. all[i] = es[i]
      BY <1>4, <2>1, SMTT(30)
    <3> QED
      BY <3>1, <3>2, <3>3, Zenon
  <2>2. CASE k = Len(es) + 1
    <3>1. all[k] = new /\ all[k].name = f
      BY <1>2, <1>4, <2>2, Zenon
    <3>2. Prefix(f, n) \in D
      BY <3>1, Zenon
    <3>3. PICK i \in 1 .. Len(es) : es[i] = DirEntry(Prefix(f, n))
      BY <2>0, <3>2, Zenon DEF Stored
    <3>4. all[i] = es[i] /\ i \in 1 .. k - 1
      BY <1>4, <2>2, SMTT(30)
    <3> QED
      BY <3>1, <3>3, <3>4, Zenon
  <2> QED
    BY <1>5, <2>1, <2>2, Zenon
<1>11. NamesInv(D, G, all)
  BY <1>1, <1>4, <1>6, <1>7, <1>8, <1>9, <1>10, Zenon DEF NamesInv
<1> QED
  BY <1>11, Zenon DEF all

\* The entries that writeDirectory makes, from the prefix of length e on.
NewEntries(dir, e) ==
    IF directories THEN [i \in 1 .. Len(dir) - e |-> DirEntry(Prefix(dir, e + i))] ELSE <<>>

\* New directories complete a path: none is there yet, and none is a file.
LEMMA AddDirs ==
    ASSUME NEW D, NEW F, NEW es, NamesInv(D, F, es),
           NEW dir \in Seq(Components), NEW e \in 0 .. Len(dir),
           e > 0 => Prefix(dir, e) \in D,
           \A n \in e + 1 .. Len(dir) : Prefix(dir, n) \notin D /\ Prefix(dir, n) \notin F
    PROVE  LET C == D \cup {Prefix(dir, n) : n \in e + 1 .. Len(dir)}
           IN  /\ NamesInv(C, F, es \o NewEntries(dir, e))
               /\ \A n \in 1 .. Len(dir) : Prefix(dir, n) \in C
<1> DEFINE C == D \cup {Prefix(dir, n) : n \in e + 1 .. Len(dir)}
           all == es \o NewEntries(dir, e)
           len == IF directories THEN Len(dir) - e ELSE 0
           New(i) == DirEntry(Prefix(dir, e + i))
<1>1. /\ es \in Seq(EntryType) /\ D \subseteq Paths /\ F \subseteq Paths
      /\ \A d \in D : d \notin F
      /\ Closed(D) /\ Recorded(D, F, es)
      /\ directories => Stored(D, es)
      /\ NoClash(es)
      /\ directories => ParentsFirst(es)
  BY Zenon DEF NamesInv
<1>2. Len(dir) \in Nat /\ e \in Nat /\ e <= Len(dir)
  BY SMTT(30)
<1>3. ASSUME NEW n \in 1 .. Len(dir)
      PROVE  /\ Prefix(dir, n) \in Paths
             /\ Len(Prefix(dir, n)) = n
             /\ \A k \in 1 .. n : Prefix(Prefix(dir, n), k) = Prefix(dir, k)
  <2>1. n \in 0 .. Len(dir) /\ n > 0
    BY <1>2, SMTT(30)
  <2>2. \A k \in 1 .. n : k \in 0 .. n
    BY <1>2, SMTT(30)
  <2> QED
    BY <2>1, <2>2, PrefixIs, Zenon
<1>4. ASSUME NEW n \in 1 .. Len(dir)
      PROVE  n <= e => Prefix(dir, n) \in D
  <2> HAVE n <= e
  <2>1. e \in 1 .. Len(dir) /\ n \in 1 .. e /\ Prefix(dir, e) \in D
    BY <1>2, SMTT(30)
  <2>2. Len(Prefix(dir, e)) = e /\ Prefix(Prefix(dir, e), n) = Prefix(dir, n)
    BY <1>3, <2>1, Zenon
  <2> QED
    BY <1>1, <2>1, <2>2, Zenon DEF Closed
<1>5. \A n \in 1 .. Len(dir) : Prefix(dir, n) \in C
  <2> TAKE n \in 1 .. Len(dir)
  <2>1. n <= e \/ n \in e + 1 .. Len(dir)
    BY <1>2, SMTT(30)
  <2> QED
    BY <2>1, <1>4, Zenon
<1>6. \A i \in 1 .. len : e + i \in e + 1 .. Len(dir) /\ e + i \in 1 .. Len(dir) /\ directories
  BY <1>2, SMTT(30)
<1>7. \A i \in 1 .. len : /\ New(i) \in EntryType
                          /\ New(i).name = Prefix(dir, e + i) /\ New(i).kind = "dir"
  <2> TAKE i \in 1 .. len
  <2>1. Prefix(dir, e + i) \in Paths
    BY <1>3, <1>6, Zenon
  <2> QED
    BY <2>1, Zenon DEF DirEntry, EntryType
<1>8. len \in Nat /\ NewEntries(dir, e) = [i \in 1 .. len |-> New(i)]
  <2>1. CASE directories
    BY <1>2, <2>1, SMTT(30) DEF NewEntries
  <2>2. CASE ~ directories
    <3>1. NewEntries(dir, e) = <<>> /\ len = 0
      BY <2>2, Zenon DEF NewEntries
    <3>2. [i \in 1 .. 0 |-> New(i)] = <<>>
      BY SMTT(30)
    <3> QED
      BY <3>1, <3>2, SMTT(30)
  <2> QED
    BY <2>1, <2>2, Zenon
<1> HIDE DEF New, len
<1>9. /\ NewEntries(dir, e) \in Seq(EntryType) /\ Len(NewEntries(dir, e)) = len
      /\ \A i \in 1 .. len : NewEntries(dir, e)[i] = New(i)
  BY <1>7, <1>8, SMTT(30)
<1>10. /\ all \in Seq(EntryType) /\ Len(es) \in Nat
       /\ Len(all) = Len(es) + len
       /\ \A k \in 1 .. Len(es) : all[k] = es[k] /\ es[k] \in EntryType
       /\ \A i \in 1 .. len : all[Len(es) + i] = New(i)
  BY <1>1, <1>8, <1>9, SMTT(30)
<1> HIDE DEF all, C
<1>11. \A k \in 1 .. Len(all) : k \in 1 .. Len(es) \/ \E i \in 1 .. len : k = Len(es) + i
  <2> TAKE k \in 1 .. Len(all)
  <2>1. k \in 1 .. Len(es) \/ (k - Len(es) \in 1 .. len /\ k = Len(es) + (k - Len(es)))
    BY <1>8, <1>10, SMTT(30)
  <2> QED
    BY <2>1, Zenon
<1>12. \A i \in 1 .. len : /\ Prefix(dir, e + i) \in Paths
                           /\ Prefix(dir, e + i) \in C /\ Prefix(dir, e + i) \notin D
                           /\ Prefix(dir, e + i) \notin F /\ Len(Prefix(dir, e + i)) = e + i
                           /\ \A n \in 1 .. e + i : Prefix(Prefix(dir, e + i), n) = Prefix(dir, n)
  BY <1>3, <1>5, <1>6, Zenon
<1>13. D \subseteq C /\ C \subseteq Paths /\ \A d \in C : d \notin F
  <2>1. \A n \in e + 1 .. Len(dir) : n \in 1 .. Len(dir)
    BY <1>2, SMTT(30)
  <2>2. \A d \in C : d \in D \/ \E n \in e + 1 .. Len(dir) : d = Prefix(dir, n)
    BY Zenon DEF C
  <2>3. D \subseteq C
    BY Zenon DEF C
  <2> QED
    BY <1>1, <1>3, <2>1, <2>2, <2>3, Zenon
<1>14. Closed(C)
  <2> SUFFICES ASSUME NEW d \in C, NEW n \in 1 .. Len(d)
               PROVE  Prefix(d, n) \in C
    BY Zenon DEF Closed
  <2>1. CASE d \in D
    BY <2>1, <1>1, <1>13, Zenon DEF Closed
  <2>2. ASSUME NEW m \in e + 1 .. Len(dir), d = Prefix(dir, m)
        PROVE  Prefix(d, n) \in C
    <3>1. m \in 1 .. Len(dir)
      BY <1>2, SMTT(30)
    <3>2. Len(d) = m /\ Prefix(d, n) = Prefix(dir, n)
      BY <1>3, <2>2, <3>1, Zenon
    <3>3. n \in 1 .. Len(dir)
      BY <1>2, <3>2, SMTT(30)
    <3> QED
      BY <1>5, <3>2, <3>3, Zenon
  <2> QED
    BY <2>1, <2>2, Zenon DEF C
<1>15. Recorded(C, F, all)
  <2> SUFFICES ASSUME NEW k \in 1 .. Len(all)
               PROVE  /\ all[k].kind = "dir" => all[k].name \in C
                      /\ all[k].kind = "file" => all[k].name \in F \/ (emulateJar /\ all[k].name = ManifestFile)
                      /\ \A n \in 1 .. Len(all[k].name) - 1 : Prefix(all[k].name, n) \in C
    BY Zenon DEF Recorded
  <2>1. CASE k \in 1 .. Len(es)
    <3>1. all[k] = es[k]
      BY <1>10, <2>1, Zenon
    <3> QED
      BY <1>1, <2>1, <3>1, <1>13, Zenon DEF Recorded
  <2>2. ASSUME NEW i \in 1 .. len, k = Len(es) + i
        PROVE  /\ all[k].kind = "dir" /\ all[k].name \in C
               /\ \A n \in 1 .. Len(all[k].name) - 1 : Prefix(all[k].name, n) \in C
    <3>1. all[k].name = Prefix(dir, e + i) /\ all[k].kind = "dir"
      BY <1>7, <1>10, <2>2, Zenon
    <3>2. \A n \in 1 .. e + i - 1 : n \in 1 .. Len(dir) /\ n \in 1 .. e + i
      BY <1>2, <1>6, SMTT(30)
    <3> QED
      BY <3>1, <3>2, <1>5, <1>12, SMTT(30)
  <2> QED
    BY <1>11, <2>1, <2>2, Zenon
<1>16. ASSUME directories
       PROVE  Stored(C, all)
  <2> SUFFICES ASSUME NEW d \in C
               PROVE  \E k \in 1 .. Len(all) : all[k] = DirEntry(d)
    BY Zenon DEF Stored
  <2>1. CASE d \in D
    <3>1. PICK k \in 1 .. Len(es) : es[k] = DirEntry(d)
      BY <1>1, <1>16, <2>1, Zenon DEF Stored
    <3>2. len \in Nat
      BY <1>8, Zenon
    <3>3. k \in 1 .. Len(all) /\ all[k] = es[k]
      BY <1>10, <3>2, SMTT(30)
    <3> QED
      BY <3>1, <3>3, Zenon
  <2>2. ASSUME NEW n \in e + 1 .. Len(dir), d = Prefix(dir, n)
        PROVE  \E k \in 1 .. Len(all) : all[k] = DirEntry(d)
    <3>1. n - e \in 1 .. len /\ e + (n - e) = n
      BY <1>2, <1>16, SMTT(30) DEF len
    <3>2. all[Len(es) + (n - e)] = DirEntry(d)
      BY <1>10, <2>2, <3>1, Zenon DEF New
    <3>3. Len(es) + (n - e) \in 1 .. Len(all)
      BY <1>8, <1>10, <3>1, SMTT(30)
    <3> QED
      BY <3>2, <3>3, Zenon
  <2> QED
    BY <2>1, <2>2, Zenon DEF C
<1>17. NoClash(all)
  <2> SUFFICES ASSUME NEW i \in 1 .. Len(all), NEW k \in 1 .. Len(all), i # k,
                      ~ (emulateJar /\ all[i].name = ManifestFile)
               PROVE  /\ all[i].name # all[k].name
                      /\ all[i].kind = "file" => ~ Under(all[k].name, all[i].name)
    BY Zenon DEF NoClash
  <2>1. CASE i \in 1 .. Len(es) /\ k \in 1 .. Len(es)
    <3>1. all[i] = es[i] /\ all[k] = es[k]
      BY <1>10, <2>1, Zenon
    <3> QED
      BY <1>1, <2>1, <3>1, Zenon DEF NoClash
  <2>2. ASSUME i \in 1 .. Len(es), NEW m \in 1 .. len, k = Len(es) + m
        PROVE  /\ all[i].name # all[k].name
               /\ all[i].kind = "file" => ~ Under(all[k].name, all[i].name)
    <3> DEFINE p == Prefix(dir, e + m)
    <3>1. all[i] = es[i] /\ all[k].name = p /\ es[i] \in EntryType
      BY <1>7, <1>10, <2>2, Zenon
    <3>2. es[i].kind = "dir" => es[i].name \in D
      BY <1>1, <2>2, Zenon DEF Recorded
    <3>3. es[i].kind = "file" => es[i].name \in F
      BY <1>1, <2>2, <3>1, Zenon DEF Recorded
    <3>4. es[i].kind \in {"dir", "file"} /\ es[i].name \in Paths
      BY <3>1, Zenon DEF EntryType
    <3>5. es[i].name # p
      BY <3>2, <3>3, <3>4, <1>12, Zenon
    <3>6. ASSUME es[i].kind = "file", Under(p, es[i].name)
          PROVE  FALSE
      <4> DEFINE n == Len(es[i].name)
      <4>1. Prefix(p, n) = es[i].name /\ n <= Len(p)
        BY <3>6, Zenon DEF Under
      <4>2. n \in Nat /\ n > 0
        BY <3>4, ParentIs, Zenon
      <4>3. n \in 1 .. e + m /\ n \in 1 .. Len(dir)
        BY <1>2, <1>6, <1>12, <4>1, <4>2, SMTT(30)
      <4>4. es[i].name \in C
        BY <1>5, <1>12, <4>1, <4>3, Zenon
      <4> QED
        BY <4>4, <3>3, <3>6, <1>13, Zenon
    <3> QED
      BY <3>1, <3>5, <3>6, Zenon
  <2>3. ASSUME NEW m \in 1 .. len, i = Len(es) + m, k \in 1 .. Len(es)
        PROVE  all[i].name # all[k].name /\ all[i].kind = "dir"
    <3> DEFINE p == Prefix(dir, e + m)
    <3>1. all[k] = es[k] /\ all[i].name = p /\ es[k] \in EntryType /\ all[i].kind = "dir"
      BY <1>7, <1>10, <2>3, Zenon
    <3>2. es[k].kind = "dir" => es[k].name \in D
      BY <1>1, <2>3, Zenon DEF Recorded
    <3>3. es[k].kind = "file" => es[k].name \in F \/ (emulateJar /\ es[k].name = ManifestFile)
      BY <1>1, <2>3, Zenon DEF Recorded
    <3>4. es[k].kind \in {"dir", "file"}
      BY <3>1, Zenon DEF EntryType
    <3> QED
      BY <3>1, <3>2, <3>3, <3>4, <1>12, Zenon
  <2>4. ASSUME NEW m \in 1 .. len, i = Len(es) + m, NEW n \in 1 .. len, k = Len(es) + n
        PROVE  all[i].name # all[k].name /\ all[i].kind = "dir"
    <3>1. /\ all[i].name = Prefix(dir, e + m) /\ all[k].name = Prefix(dir, e + n)
          /\ all[i].kind = "dir"
      BY <1>7, <1>10, <2>4, Zenon
    <3>2. Len(Prefix(dir, e + m)) = e + m /\ Len(Prefix(dir, e + n)) = e + n
      BY <1>12, Zenon
    <3>3. e + m # e + n
      BY <1>2, <1>8, <2>4, SMTT(30)
    <3> QED
      BY <3>1, <3>2, <3>3, Zenon
  <2> QED
    BY <1>11, <2>1, <2>2, <2>3, <2>4, Zenon
<1>18. ASSUME directories
       PROVE  ParentsFirst(all)
  <2> SUFFICES ASSUME NEW k \in 1 .. Len(all), NEW n \in 1 .. Len(all[k].name) - 1
               PROVE  \E i \in 1 .. k - 1 : all[i] = DirEntry(Prefix(all[k].name, n))
    BY Zenon DEF ParentsFirst
  <2>0. ParentsFirst(es) /\ Stored(D, es)
    BY <1>1, <1>18, Zenon
  <2>1. CASE k \in 1 .. Len(es)
    <3>1. all[k] = es[k]
      BY <1>10, <2>1, Zenon
    <3>2. PICK i \in 1 .. k - 1 : es[i] = DirEntry(Prefix(es[k].name, n))
      BY <2>0, <2>1, <3>1, Zenon DEF ParentsFirst
    <3>3. all[i] = es[i]
      BY <1>10, <2>1, SMTT(30)
    <3> QED
      BY <3>1, <3>2, <3>3, Zenon
  <2>2. ASSUME NEW m \in 1 .. len, k = Len(es) + m
        PROVE  \E i \in 1 .. k - 1 : all[i] = DirEntry(Prefix(all[k].name, n))
    <3>1. all[k].name = Prefix(dir, e + m) /\ Len(all[k].name) = e + m
      BY <1>7, <1>10, <1>12, <2>2, Zenon
    <3>2. n \in 1 .. e + m - 1 /\ n \in 1 .. Len(dir) /\ n \in 1 .. e + m
      BY <3>1, <1>2, <1>6, SMTT(30)
    <3>3. Prefix(all[k].name, n) = Prefix(dir, n)
      BY <3>1, <3>2, <1>12, Zenon
    <3>4. CASE n <= e
      <4>1. Prefix(dir, n) \in D
        BY <1>4, <3>2, <3>4, Zenon
      <4>2. PICK i \in 1 .. Len(es) : es[i] = DirEntry(Prefix(dir, n))
        BY <2>0, <4>1, Zenon DEF Stored
      <4>3. all[i] = es[i] /\ i \in 1 .. k - 1
        BY <1>8, <1>10, <2>2, SMTT(30)
      <4> QED
        BY <3>3, <4>2, <4>3, Zenon
    <3>5. CASE n > e
      <4>1. n - e \in 1 .. len /\ e + (n - e) = n /\ Len(es) + (n - e) \in 1 .. k - 1
        BY <1>2, <1>8, <1>10, <2>2, <3>2, <3>5, SMTT(30)
      <4>2. all[Len(es) + (n - e)] = DirEntry(Prefix(dir, n))
        BY <1>10, <4>1, Zenon DEF New
      <4> QED
        BY <3>3, <4>1, <4>2, Zenon
    <3> QED
      BY <3>2, <3>4, <3>5, <1>2, SMTT(30)
  <2> QED
    BY <1>11, <2>1, <2>2, Zenon
<1>19. NamesInv(C, F, all)
  BY <1>1, <1>10, <1>13, <1>14, <1>15, <1>16, <1>17, <1>18, Zenon DEF NamesInv
<1> QED
  BY <1>5, <1>19, Zenon DEF C, all
-----------------------------------------------------------------------------
(* The order of a jar *)

MapType == Inputs \cup {[dest |-> ManifestFile, kind |-> "file"]}

\* k holds the mappings of ms in class c, up to the n-th.
InClassUpTo(k, ms, n, c) ==
    /\ \A j \in 1 .. Len(k) : JarClass(k[j]) = c
    /\ (\E m \in 1 .. n : JarClass(ms[m]) = c) => Len(k) > 0

\* InClass picks the mappings of a class.
LEMMA InClassIs ==
    ASSUME NEW T, NEW ms \in Seq(T), NEW c
    PROVE  InClass(ms, c) \in Seq(T) /\ InClassUpTo(InClass(ms, c), ms, Len(ms), c)
<1> DEFINE With(k, n) == IF JarClass(ms[n]) = c THEN Append(k, ms[n]) ELSE k
           Def(f, n) == f = [m \in 0 .. n |-> IF m = 0 THEN <<>> ELSE With(f[m - 1], m)]
           Kept == CHOOSE f : Def(f, Len(ms))
<1>0. InClass(ms, c) = Kept[Len(ms)]
  BY Zenon DEF InClass
<1> HIDE DEF With
<1>a. Len(ms) \in Nat
  BY SMTT(30)
<1>1. \E f : Def(f, Len(ms))
  <2> DEFINE D == {n \in Nat : \E f : Def(f, n)}
  <2>1. 0 \in D
    <3> DEFINE f == [m \in 0 .. 0 |-> <<>>]
    <3>1. Def(f, 0)
      BY SMTT(30)
    <3> QED
      BY <3>1, Zenon
  <2>2. ASSUME NEW n \in Nat, n \in D
        PROVE  n + 1 \in D
    <3>1. PICK f : Def(f, n)
      BY <2>2, Zenon
    <3> DEFINE g == [m \in 0 .. n + 1 |-> IF m <= n THEN f[m] ELSE With(f[n], n + 1)]
    <3>2. \A m \in 0 .. n + 1 : g[m] = IF m = 0 THEN <<>> ELSE With(g[m - 1], m)
      <4> SUFFICES ASSUME NEW m \in 0 .. n + 1
                   PROVE  g[m] = IF m = 0 THEN <<>> ELSE With(g[m - 1], m)
        BY Zenon
      <4>1. CASE m = 0
        BY <3>1, <4>1, SMTT(30)
      <4>2. CASE m \in 1 .. n
        BY <3>1, <4>2, SMTT(30)
      <4>3. CASE m = n + 1
        BY <4>3, SMTT(30)
      <4> QED
        BY <4>1, <4>2, <4>3, SMTT(30)
    <3>3. g = [m \in 0 .. n + 1 |-> g[m]]
      BY Zenon
    <3> HIDE DEF g
    <3>4. Def(g, n + 1)
      BY <3>2, <3>3, Zenon
    <3> QED
      BY <3>4, SMTT(30)
  <2> HIDE DEF D
  <2>3. 0 .. Len(ms) \subseteq D
    <3>1. \A n \in D : n \in 0 .. Len(ms) - 1 => n + 1 \in D
      BY <2>2, SMTT(30)
    <3> QED
      BY <1>a, <2>1, <3>1, UpTo, Zenon
  <2>4. Len(ms) \in D
    BY <2>3, SMTT(30)
  <2> QED
    BY <2>4, Zenon DEF D
<1>2. Def(Kept, Len(ms))
  BY <1>1, Zenon
<1> HIDE DEF Kept
<1>3. Kept[0] = <<>> /\ \A n \in 1 .. Len(ms) : Kept[n] = With(Kept[n - 1], n)
  BY <1>2, SMTT(30)
<1> DEFINE G == {n \in 0 .. Len(ms) : Kept[n] \in Seq(T) /\ InClassUpTo(Kept[n], ms, n, c)}
<1>5. 0 \in G
  <2>1. <<>> \in Seq(T) /\ InClassUpTo(<<>>, ms, 0, c)
    BY SMTT(30) DEF InClassUpTo
  <2>2. Kept[0] \in Seq(T) /\ InClassUpTo(Kept[0], ms, 0, c)
    BY <1>3, <2>1, Zenon
  <2>3. 0 \in 0 .. Len(ms)
    BY SMTT(30)
  <2> QED
    BY <2>2, <2>3, Zenon
<1>6. ASSUME NEW n \in 0 .. Len(ms) - 1, n \in G
      PROVE  n + 1 \in G
  <2> DEFINE k == Kept[n]
             l == Kept[n + 1]
  <2>1. k \in Seq(T) /\ InClassUpTo(k, ms, n, c)
    BY <1>6, Zenon
  <2>2. l = IF JarClass(ms[n + 1]) = c THEN Append(k, ms[n + 1]) ELSE k
    BY <1>3, SMTT(30) DEF With
  <2>3. ms[n + 1] \in T
    BY SMTT(30)
  <2> HIDE DEF k, l
  <2>4. l \in Seq(T) /\ InClassUpTo(l, ms, n + 1, c)
    <3>1. CASE JarClass(ms[n + 1]) # c
      <4>1. l = k
        BY <2>2, <3>1, Zenon
      <4>2. \A m \in 1 .. n + 1 : JarClass(ms[m]) = c => m \in 1 .. n
        BY <3>1, SMTT(30)
      <4> QED
        BY <2>1, <4>1, <4>2, Zenon DEF InClassUpTo
    <3>2. CASE JarClass(ms[n + 1]) = c
      <4>1. /\ l \in Seq(T) /\ Len(l) = Len(k) + 1
            /\ \A j \in 1 .. Len(k) : l[j] = k[j]
            /\ l[Len(l)] = ms[n + 1]
            /\ Len(k) \in Nat
        BY <2>1, <2>2, <2>3, <3>2, SMTT(30)
      <4> QED
        BY <2>1, <4>1, <3>2, SMTT(30) DEF InClassUpTo
    <3> QED
      BY <3>1, <3>2, Zenon
  <2>5. n + 1 \in 0 .. Len(ms)
    BY <1>a, SMTT(30)
  <2> QED
    BY <2>4, <2>5, Zenon DEF l
<1> HIDE DEF G
<1>7. Len(ms) \in G
  <2>1. \A n \in G : n \in 0 .. Len(ms) - 1 => n + 1 \in G
    BY <1>6, Zenon
  <2>2. 0 .. Len(ms) \subseteq G
    BY <1>a, <1>5, <2>1, UpTo, Zenon
  <2> QED
    BY <1>a, <2>2, SMTT(30)
<1> QED
  BY <1>0, <1>7, Zenon DEF G

\* What write makes of the inputs; a jar's mappings begin with a manifest.
LEMMA PathMappingsIs ==
    ASSUME NEW jar, NEW ms \in Seq(Inputs)
    PROVE  /\ PathMappings(jar, ms) \in Seq(MapType)
           /\ jar => /\ PathMappings(jar, ms) # <<>>
                     /\ Head(PathMappings(jar, ms)).dest = ManifestFile
<1>1. CASE ~ jar
  BY <1>1, SMTT(30) DEF PathMappings, MapType
<1>2. CASE jar
  <2> DEFINE man == [dest |-> ManifestFile, kind |-> "file"]
             all == Append(ms, man)
             a == InClass(all, 1)
             b == InClass(all, 2)
             c == InClass(all, 3)
  <2>1. man.dest = ManifestFile /\ man \in MapType
    BY Zenon DEF MapType
  <2>2. JarClass(man) = 1
    BY <2>1, Zenon DEF JarClass
  <2> HIDE DEF man
  <2>3. ms \in Seq(MapType)
    BY SMTT(30) DEF MapType
  <2>4. all \in Seq(MapType) /\ Len(all) \in 1 .. Len(all) /\ all[Len(all)] = man
    BY <2>1, <2>3, SMTT(30)
  <2>5. PathMappings(jar, ms) = a \o b \o c
    BY <1>2, Zenon DEF PathMappings, JarSort, man
  <2> HIDE DEF all
  <2>6. a \in Seq(MapType) /\ b \in Seq(MapType) /\ c \in Seq(MapType)
    BY <2>4, InClassIs, Zenon
  <2>7. InClassUpTo(a, all, Len(all), 1)
    BY <2>4, InClassIs, Zenon
  <2> HIDE DEF a, b, c
  <2>8. Len(a) > 0 /\ JarClass(a[1]) = 1
    <3>1. Len(a) > 0
      BY <2>2, <2>4, <2>7, Zenon DEF InClassUpTo
    <3>2. 1 \in 1 .. Len(a)
      BY <2>6, <3>1, SMTT(30)
    <3> QED
      BY <3>1, <3>2, <2>7, Zenon DEF InClassUpTo
  <2>9. a[1].dest = ManifestFile
    BY <2>8, SMTT(30) DEF JarClass
  <2>10. a \o b \o c \in Seq(MapType) /\ Len(a \o b \o c) > 0 /\ (a \o b \o c)[1] = a[1]
    BY <2>6, <2>8, SMTT(30)
  <2>11. a \o b \o c # <<>> /\ Head(a \o b \o c) = a[1]
    BY <2>10, SMTT(30)
  <2> QED
    BY <2>5, <2>9, <2>10, <2>11, Zenon
<1> QED
  BY <1>1, <1>2, Zenon
-----------------------------------------------------------------------------
(* The invariant *)

\* A jar has nothing, and a manifest to begin with, or it begins with META-INF
\* and the manifest.
JarStart ==
    /\ entries = <<>> =>
          /\ createdDirs = {} /\ createdFiles = {}
          /\ outcome = "adding" => mappings # <<>> /\ Head(mappings).dest = ManifestFile
    /\ entries # <<>> =>
          /\ Len(entries) > 1
          /\ entries[1] = [name |-> <<"META-INF">>, kind |-> "dir"]
          /\ entries[2] = [name |-> ManifestFile, kind |-> "file"]

NamesIInv ==
    /\ mappings \in Seq(MapType)
    /\ emulateJar => directories
    /\ NamesInv(createdDirs, createdFiles, entries)
    /\ emulateJar => JarStart

\* Pairs as sequences.
LEMMA PairIs ==
    ASSUME NEW T, NEW a \in T, NEW b \in T
    PROVE  /\ <<a, b>> \in Seq(T) /\ Len(<<a, b>>) = 2
           /\ SubSeq(<<a, b>>, 1, 1) = <<a>>
           /\ <<>> \o <<a>> \o <<b>> = <<a, b>>
<1>1. <<a, b>> \in Seq(T) /\ Len(<<a, b>>) = 2
  BY SMTT(30)
<1>2. \A s, t \in Seq(T) : Len(s) = Len(t) /\ (\A i \in 1 .. Len(s) : s[i] = t[i]) => s = t
  BY SMTT(30)
<1>3. SubSeq(<<a, b>>, 1, 1) = <<a>>
  <2> DEFINE s == SubSeq(<<a, b>>, 1, 1)
             t == <<a>>
  <2>1. s \in Seq(T) /\ Len(s) = 1 /\ s[1] = a
    BY <1>1, SMTT(30)
  <2>2. t \in Seq(T) /\ Len(t) = 1 /\ t[1] = a
    BY SMTT(30)
  <2> HIDE DEF s, t
  <2>3. s = t
    BY <1>2, <2>1, <2>2, SMTT(30)
  <2> QED
    BY <2>3, Zenon DEF s, t
<1>4. <<>> \o <<a>> \o <<b>> = <<a, b>>
  <2> DEFINE s == <<a>> \o <<b>>
             t == <<a, b>>
  <2>1. s \in Seq(T) /\ Len(s) = 2 /\ s[1] = a /\ s[2] = b
    BY SMTT(30)
  <2>2. t \in Seq(T) /\ Len(t) = 2 /\ t[1] = a /\ t[2] = b
    BY SMTT(30)
  <2>3. <<>> \o <<a>> = <<a>>
    BY SMTT(30)
  <2> HIDE DEF s, t
  <2>4. s = t
    BY <1>2, <2>1, <2>2, SMTT(30)
  <2> QED
    BY <2>3, <2>4, Zenon DEF s, t
<1> QED
  BY <1>1, <1>3, <1>4, Zenon

\* The manifest is a file in META-INF.
LEMMA ManifestIs ==
    /\ ManifestFile \in Seq(Components) /\ Len(ManifestFile) = 2
    /\ Parent(ManifestFile) = <<"META-INF">>
<1>1. "META-INF" \in Components /\ "MANIFEST.MF" \in Components
  BY InputsAssumption, Zenon
<1>2. ManifestFile \in Seq(Components) /\ Len(ManifestFile) = 2
  BY <1>1, PairIs, Zenon DEF ManifestFile
<1>3. SubSeq(ManifestFile, 1, 1) = <<"META-INF">>
  BY <1>1, PairIs, Zenon DEF ManifestFile
<1>4. Len(ManifestFile) - 1 = 1
  BY <1>2, SMTT(30)
<1> QED
  BY <1>2, <1>3, <1>4, Zenon DEF Parent, Prefix

\* The destination of every mapping is a path.
LEMMA DestIsPath ==
    ASSUME NEW m \in MapType
    PROVE  m.dest \in Paths
<1>1. ManifestFile \in Paths
  <2>1. ManifestFile \in Seq(Components) /\ Len(ManifestFile) = 2
    BY ManifestIs, Zenon
  <2>2. Len(<<>>) = 0
    BY Zenon
  <2> QED
    BY <2>1, <2>2, SMTT(30) DEF Paths
<1> QED
  BY <1>1, InputsAssumption, SMTT(30) DEF MapType

\* Nothing clashes in an empty archive.
LEMMA NamesInitially == NamesInit => NamesIInv
<1> SUFFICES ASSUME NamesInit PROVE NamesIInv
  BY Zenon
<1>1. PICK len \in 0 .. MaxInputs :
        \E ms \in [1 .. len -> Inputs] : mappings = PathMappings(emulateJar, ms)
  BY Zenon DEF NamesInit
<1>2. PICK ms \in [1 .. len -> Inputs] : mappings = PathMappings(emulateJar, ms)
  BY <1>1, Zenon
<1>3. ms \in Seq(Inputs)
  BY InputsAssumption, SMTT(30)
<1>4. /\ mappings \in Seq(MapType)
      /\ emulateJar => mappings # <<>> /\ Head(mappings).dest = ManifestFile
  BY <1>2, <1>3, PathMappingsIs, Zenon
<1>5. createdDirs = {} /\ createdFiles = {} /\ entries = <<>>
  BY Zenon DEF NamesInit
<1>6. emulateJar => directories
  BY Zenon DEF NamesInit
<1>7. NamesInv({}, {}, <<>>)
  <2>1. <<>> \in Seq(EntryType) /\ Len(<<>>) = 0
    BY SMTT(30)
  <2> QED
    BY <2>1, SMTT(30) DEF NamesInv, Closed, Recorded, Stored, NoClash, ParentsFirst
<1>8. JarStart \/ ~ emulateJar
  BY <1>4, <1>5, Zenon DEF JarStart
<1> QED
  BY <1>4, <1>5, <1>6, <1>7, <1>8, Zenon DEF NamesIInv

\* What writeDirectory does to the names when it meets no file.
LEMMA WriteDirectory ==
    ASSUME NamesInv(createdDirs, createdFiles, entries),
           NEW dir \in Seq(Components), ~ DirConflict(dir)
    PROVE  /\ NamesInv(createdDirs \cup NewDirs(dir), createdFiles, entries \o DirEntries(dir))
           /\ \A n \in 1 .. Len(dir) : Prefix(dir, n) \in createdDirs \cup NewDirs(dir)
<1> DEFINE e == Existing(dir)
<1>1. /\ e \in 0 .. Len(dir)
      /\ e > 0 => Prefix(dir, e) \in createdDirs
      /\ \A k \in e + 1 .. Len(dir) : Prefix(dir, k) \notin createdDirs
  BY ExistingIs, Zenon
<1>2. \A k \in e + 1 .. Len(dir) : Prefix(dir, k) \notin createdFiles
  BY Zenon DEF DirConflict, Uncreated
<1>3. NewDirs(dir) = {Prefix(dir, n) : n \in e + 1 .. Len(dir)}
  BY Zenon DEF NewDirs, Uncreated
<1>4. DirEntries(dir) = NewEntries(dir, e)
  BY Zenon DEF DirEntries, NewEntries, DirEntry
<1> HIDE DEF e
<1> QED
  BY <1>1, <1>2, <1>3, <1>4, AddDirs, SMTT(30)

\* The entries of new directories.
LEMMA DirEntriesType ==
    ASSUME NEW dir \in Seq(Components)
    PROVE  DirEntries(dir) \in Seq(EntryType)
<1> DEFINE e == Existing(dir)
<1>1. e \in 0 .. Len(dir) /\ Len(dir) \in Nat
  BY ExistingIs, SMTT(30)
<1> HIDE DEF e
<1>2. ASSUME NEW i \in 1 .. Len(dir) - e
      PROVE  [name |-> Prefix(dir, e + i), kind |-> "dir"] \in EntryType
  <2>1. e + i \in 0 .. Len(dir) /\ e + i > 0
    BY <1>1, SMTT(30)
  <2>2. Prefix(dir, e + i) \in Paths
    BY <2>1, PrefixIs, Zenon
  <2> QED
    BY <2>2, Zenon DEF EntryType
<1>3. Len(dir) - e \in Nat
  BY <1>1, SMTT(30)
<1>4. [i \in 1 .. Len(dir) - e |-> [name |-> Prefix(dir, e + i), kind |-> "dir"]] \in Seq(EntryType)
  BY <1>2, <1>3, SMTT(30)
<1>5. <<>> \in Seq(EntryType)
  BY SMTT(30)
<1> QED
  BY <1>4, <1>5, Zenon DEF DirEntries, e

\* New directories are not longer than the path that needs them.
LEMMA NewDirsShorter ==
    ASSUME NEW dir \in Seq(Components), NEW p \in NewDirs(dir)
    PROVE  Len(p) <= Len(dir)
<1>1. PICK n \in Existing(dir) + 1 .. Len(dir) : p = Prefix(dir, n)
  BY Zenon DEF NewDirs, Uncreated
<1>2. Existing(dir) \in 0 .. Len(dir) /\ Len(dir) \in Nat
  BY ExistingIs, SMTT(30)
<1>3. n \in 0 .. Len(dir)
  BY <1>2, SMTT(30)
<1> QED
  BY <1>1, <1>2, <1>3, PrefixIs, SMTT(30)

\* What addFile and addManifest store: the directories of the parent, and
\* then the file, which becomes a created one or is a jar's manifest.
LEMMA NewName ==
    ASSUME NamesInv(createdDirs, createdFiles, entries), NEW dest \in Paths,
           ~ DirConflict(Parent(dest)), dest \notin createdDirs \cup NewDirs(Parent(dest)),
           dest \notin createdFiles, NEW G,
           \/ G = createdFiles \cup {dest}
           \/ G = createdFiles /\ emulateJar /\ dest = ManifestFile
    PROVE  /\ NamesInv(createdDirs \cup NewDirs(Parent(dest)), G,
                       entries \o DirEntries(Parent(dest)) \o FileEntry(dest))
           /\ entries \o DirEntries(Parent(dest)) \o FileEntry(dest) =
                  entries \o (DirEntries(Parent(dest)) \o FileEntry(dest))
           /\ DirEntries(Parent(dest)) \o FileEntry(dest) \in Seq(EntryType)
<1> DEFINE dirs == createdDirs \cup NewDirs(Parent(dest))
           new == DirEntries(Parent(dest))
<1>1. /\ Parent(dest) \in Seq(Components) /\ Len(Parent(dest)) = Len(dest) - 1
      /\ \A n \in 1 .. Len(dest) - 1 : Prefix(Parent(dest), n) = Prefix(dest, n)
  BY ParentIs, Zenon
<1>2. /\ NamesInv(dirs, createdFiles, entries \o new)
      /\ \A n \in 1 .. Len(Parent(dest)) : Prefix(Parent(dest), n) \in dirs
  BY <1>1, WriteDirectory, Zenon
<1>3. \A n \in 1 .. Len(dest) - 1 : Prefix(dest, n) \in dirs
  BY <1>1, <1>2, Zenon
<1> HIDE DEF dirs
<1>4. NamesInv(dirs, G, (entries \o new) \o FileEntry(dest))
  <2>1. dest \notin dirs
    BY Zenon DEF dirs
  <2> QED
    BY <1>2, <1>3, <2>1, AddName, Zenon
<1>5. new \in Seq(EntryType)
  BY <1>1, DirEntriesType, Zenon
<1>6. FileEntry(dest) \in Seq(EntryType)
  BY SMTT(30) DEF FileEntry, EntryType
<1>7. entries \in Seq(EntryType)
  BY Zenon DEF NamesInv
<1> HIDE DEF new
<1>8. (entries \o new) \o FileEntry(dest) = entries \o (new \o FileEntry(dest))
  BY <1>5, <1>6, <1>7, SMTT(30)
<1>9. new \o FileEntry(dest) \in Seq(EntryType)
  BY <1>5, <1>6, SMTT(30)
<1> QED
  BY <1>4, <1>8, <1>9, Zenon DEF dirs, new

\* What is stored first stays first.
LEMMA JarStartStays ==
    ASSUME JarStart, entries # <<>>, entries \in Seq(EntryType),
           NEW more \in Seq(EntryType), entries' = entries \o more
    PROVE  JarStart'
<1>1. Len(entries) \in Nat /\ Len(entries) > 1
  BY SMTT(30) DEF JarStart
<1>2. Len(entries') > 1 /\ entries'[1] = entries[1] /\ entries'[2] = entries[2]
  BY <1>1, SMTT(30)
<1>3. entries' # <<>>
  BY <1>2, SMTT(30)
<1> QED
  BY <1>2, <1>3, Zenon DEF JarStart

\* Every mapping that is accepted keeps the names in order.
LEMMA NamesStep == NamesIInv /\ [NamesNext]_namesVars => NamesIInv'
<1> SUFFICES ASSUME NamesIInv, [NamesNext]_namesVars PROVE NamesIInv'
  BY Zenon
<1>0. /\ mappings \in Seq(MapType)
      /\ emulateJar => directories
      /\ NamesInv(createdDirs, createdFiles, entries)
      /\ emulateJar => JarStart
  BY Zenon DEF NamesIInv
<1>a. entries \in Seq(EntryType)
  BY <1>0, Zenon DEF NamesInv
<1>b. ASSUME mappings # <<>>
      PROVE  /\ Current \in MapType /\ Current.dest \in Paths
             /\ Tail(mappings) \in Seq(MapType)
  <2>1. Head(mappings) \in MapType /\ Tail(mappings) \in Seq(MapType)
    BY <1>0, <1>b, SMTT(30)
  <2> QED
    BY <2>1, DestIsPath, Zenon DEF Current
<1>c. ASSUME emulateJar' = emulateJar, directories' = directories, NEW D, NEW F, NEW es,
             NamesInv(D, F, es), createdDirs' = D, createdFiles' = F, entries' = es
      PROVE  NamesInv(createdDirs, createdFiles, entries)'
  BY <1>c, SMTT(30) DEF NamesInv, Closed, Recorded, Stored, NoClash, ParentsFirst
<1>1. CASE AddDirectory
  <2> DEFINE dest == Current.dest
  <2>1. dest \in Paths /\ Tail(mappings) \in Seq(MapType)
    BY <1>1, <1>b, Zenon DEF AddDirectory
  <2>2. emulateJar' = emulateJar /\ directories' = directories /\ mappings' = Tail(mappings)
        /\ createdFiles' = createdFiles /\ outcome' = outcome /\ outcome = "adding"
    BY <1>1, Zenon DEF AddDirectory, Done, config
  <2>3. ~ (emulateJar /\ dest = ManifestFile) /\ mappings # <<>>
    BY <1>1, Zenon DEF AddDirectory, IsManifest
  <2>4. emulateJar => entries # <<>>
    BY <1>0, <2>2, <2>3, Zenon DEF JarStart, Current
  <2>5. CASE ~ directories
    <3>1. createdDirs' = createdDirs /\ entries' = entries
      BY <1>1, <2>5, Zenon DEF AddDirectory
    <3>2. NamesInv(createdDirs, createdFiles, entries)'
      BY <1>0, <1>c, <2>2, <3>1, Zenon
    <3> QED
      BY <1>0, <2>1, <2>2, <2>5, <3>2, Zenon DEF NamesIInv
  <2>6. CASE directories
    <3>1. /\ ~ DirConflict(dest)
          /\ createdDirs' = createdDirs \cup NewDirs(dest)
          /\ entries' = entries \o DirEntries(dest)
      BY <1>1, <2>6, Zenon DEF AddDirectory
    <3>2. dest \in Seq(Components)
      BY <2>1, Zenon DEF Paths
    <3>3. NamesInv(createdDirs \cup NewDirs(dest), createdFiles, entries \o DirEntries(dest))
      BY <1>0, <3>1, <3>2, WriteDirectory, Zenon
    <3>4. NamesInv(createdDirs, createdFiles, entries)'
      BY <1>c, <2>2, <3>1, <3>3, Zenon
    <3>5. DirEntries(dest) \in Seq(EntryType)
      BY <3>2, DirEntriesType, Zenon
    <3>6. emulateJar => JarStart'
      BY <1>0, <1>a, <2>4, <3>1, <3>5, JarStartStays, Zenon
    <3> QED
      BY <1>0, <2>1, <2>2, <2>6, <3>4, <3>6, Zenon DEF NamesIInv
  <2> QED
    BY <2>5, <2>6, Zenon
<1>2. CASE AddFile
  <2> DEFINE dest == Current.dest
             dirs == createdDirs \cup NewDirs(Parent(dest))
  <2>1. dest \in Paths /\ Tail(mappings) \in Seq(MapType)
    BY <1>2, <1>b, Zenon DEF AddFile
  <2>2. emulateJar' = emulateJar /\ directories' = directories /\ mappings' = Tail(mappings)
        /\ outcome' = outcome /\ outcome = "adding"
    BY <1>2, Zenon DEF AddFile, Done, config
  <2>3. ~ (emulateJar /\ dest = ManifestFile) /\ mappings # <<>>
    BY <1>2, Zenon DEF AddFile, IsManifest
  <2>4. emulateJar => entries # <<>>
    BY <1>0, <2>2, <2>3, Zenon DEF JarStart, Current
  <2>5. ~ DirConflict(Parent(dest)) /\ dest \notin dirs /\ dest \notin createdFiles
    BY <1>2, Zenon DEF AddFile, FileConflict
  <2>6. /\ createdDirs' = dirs /\ createdFiles' = createdFiles \cup {dest}
        /\ entries' = entries \o DirEntries(Parent(dest)) \o FileEntry(dest)
    BY <1>2, Zenon DEF AddFile
  <2>7. /\ NamesInv(dirs, createdFiles \cup {dest},
                    entries \o DirEntries(Parent(dest)) \o FileEntry(dest))
        /\ entries' = entries \o (DirEntries(Parent(dest)) \o FileEntry(dest))
        /\ DirEntries(Parent(dest)) \o FileEntry(dest) \in Seq(EntryType)
    BY <1>0, <2>1, <2>5, <2>6, NewName, Zenon
  <2>8. NamesInv(createdDirs, createdFiles, entries)'
    BY <1>c, <2>2, <2>6, <2>7, Zenon
  <2>9. emulateJar => JarStart'
    BY <1>0, <1>a, <2>4, <2>7, JarStartStays, Zenon
  <2> QED
    BY <1>0, <2>1, <2>2, <2>8, <2>9, Zenon DEF NamesIInv
<1>3. CASE AddManifest
  <2> DEFINE dest == Current.dest
             dirs == createdDirs \cup NewDirs(Parent(dest))
             more == DirEntries(Parent(dest)) \o FileEntry(dest)
  <2>1. dest \in Paths /\ Tail(mappings) \in Seq(MapType)
    BY <1>3, <1>b, Zenon DEF AddManifest
  <2>2. emulateJar' = emulateJar /\ directories' = directories /\ mappings' = Tail(mappings)
        /\ outcome' = outcome /\ createdFiles' = createdFiles
    BY <1>3, Zenon DEF AddManifest, Done, config
  <2>3. emulateJar /\ dest = ManifestFile
    BY <1>3, Zenon DEF AddManifest, IsManifest
  <2>5. ~ DirConflict(Parent(dest)) /\ dest \notin createdDirs /\ dest \notin createdFiles
    BY <1>3, Zenon DEF AddManifest, ManifestConflict
  <2>6. /\ createdDirs' = dirs
        /\ entries' = entries \o DirEntries(Parent(dest)) \o FileEntry(dest)
    BY <1>3, Zenon DEF AddManifest
  <2>7. /\ NamesInv(dirs, createdFiles, entries \o DirEntries(Parent(dest)) \o FileEntry(dest))
        /\ entries \o DirEntries(Parent(dest)) \o FileEntry(dest) = entries \o more
        /\ more \in Seq(EntryType)
    <3>1. dest \notin dirs
      BY <2>1, <2>5, ParentIs, NewDirsShorter, SMTT(30)
    <3> QED
      BY <1>0, <2>1, <2>3, <2>5, <3>1, NewName, Zenon
  <2>8. NamesInv(createdDirs, createdFiles, entries)'
    BY <1>c, <2>2, <2>6, <2>7, Zenon
  <2>9. JarStart'
    <3>1. CASE entries # <<>>
      <4>1. entries' = entries \o more
        BY <2>6, <2>7, Zenon
      <4> QED
        BY <1>0, <1>a, <2>3, <2>7, <3>1, <4>1, JarStartStays, Zenon
    <3>2. CASE entries = <<>>
      <4>1. createdDirs = {} /\ directories
        BY <1>0, <2>3, <3>2, Zenon DEF JarStart
      <4>2. /\ Parent(dest) = <<"META-INF">> /\ Len(Parent(dest)) = 1
            /\ Parent(dest) \in Seq(Components) /\ Prefix(Parent(dest), 1) = Parent(dest)
        <5>1. Parent(dest) = <<"META-INF">>
          BY <2>3, ManifestIs, Zenon
        <5>2. Len(Parent(dest)) = 1
          BY <5>1, SMTT(30)
        <5>3. Parent(dest) \in Seq(Components)
          BY <2>1, ParentIs, Zenon
        <5>4. 1 \in 0 .. Len(Parent(dest))
          BY <5>2, SMTT(30)
        <5> QED
          BY <5>1, <5>2, <5>3, <5>4, PrefixIs, Zenon
      <4>3. Existing(Parent(dest)) = 0
        <5> DEFINE e == Existing(Parent(dest))
        <5>1. e \in 0 .. Len(Parent(dest)) /\ (e > 0 => Prefix(Parent(dest), e) \in createdDirs)
          BY <4>2, ExistingIs, Zenon
        <5> HIDE DEF e
        <5>2. e \in 0 .. 1 /\ ~ (e > 0)
          BY <5>1, <4>1, <4>2, Zenon
        <5>3. e = 0
          BY <5>2, SMTT(30)
        <5> QED
          BY <5>3, Zenon DEF e
      <4>4. DirEntries(Parent(dest)) = <<[name |-> <<"META-INF">>, kind |-> "dir"]>>
        BY <4>1, <4>2, <4>3, SMTT(30) DEF DirEntries
      <4>5. entries' = <<[name |-> <<"META-INF">>, kind |-> "dir"],
                         [name |-> ManifestFile, kind |-> "file"]>>
        <5>1. entries' = <<>> \o <<[name |-> <<"META-INF">>, kind |-> "dir"]>>
                            \o <<[name |-> ManifestFile, kind |-> "file"]>>
          BY <2>3, <2>6, <3>2, <4>4, Zenon DEF FileEntry
        <5> DEFINE a == [name |-> <<"META-INF">>, kind |-> "dir"]
                   b == [name |-> ManifestFile, kind |-> "file"]
        <5>2. <<>> \o <<a>> \o <<b>> = <<a, b>>
          <6> HIDE DEF a, b
          <6>1. a \in {a, b} /\ b \in {a, b}
            BY Zenon
          <6> QED
            BY <6>1, PairIs, Zenon
        <5> QED
          BY <5>1, <5>2, Zenon
      <4> QED
        BY <4>5, SMTT(30) DEF JarStart
    <3> QED
      BY <3>1, <3>2, Zenon
  <2> QED
    BY <1>0, <2>1, <2>2, <2>8, <2>9, Zenon DEF NamesIInv
<1>4. CASE Refuse \/ AllAdded \/ UNCHANGED namesVars
  <2>1. /\ emulateJar' = emulateJar /\ directories' = directories /\ mappings' = mappings
        /\ createdDirs' = createdDirs /\ createdFiles' = createdFiles /\ entries' = entries
        /\ outcome' = "adding" => outcome = "adding"
    BY <1>4, Zenon DEF Refuse, AllAdded, namesVars, config
  <2>2. NamesInv(createdDirs, createdFiles, entries)'
    BY <1>0, <1>c, <2>1, Zenon
  <2>3. JarStart => JarStart'
    BY <2>1, Zenon DEF JarStart
  <2> QED
    BY <1>0, <2>1, <2>2, <2>3, Zenon DEF NamesIInv
<1> QED
  BY <1>1, <1>2, <1>3, <1>4, Zenon DEF NamesNext

\* The archive keeps its names in order throughout.
LEMMA NamesInvariant == NamesSpec => []NamesIInv
  BY NamesInitially, NamesStep, PTL DEF NamesSpec

(***************************************************************************)
(* In every archive of any inputs, names clash with nothing but a jar's    *)
(* manifest.                                                               *)
(***************************************************************************)
THEOREM NamesAreDistinct == NamesSpec => []NamesDoNotClash
<1>1. NamesIInv => NamesDoNotClash
  <2> SUFFICES ASSUME NamesIInv PROVE NamesDoNotClash
    BY Zenon
  <2>1. entries \in Seq(EntryType) /\ NoClash(entries)
    BY Zenon DEF NamesIInv, NamesInv
  <2>2. DOMAIN entries = 1 .. Len(entries)
    BY <2>1, SMTT(30)
  <2> QED
    BY <2>1, <2>2, Zenon DEF NamesDoNotClash, NoClash
<1> QED
  BY <1>1, NamesInvariant, PTL

(***************************************************************************)
(* However the mappings lie inside each other, with directory entries on   *)
(* each directory of a path has its entry before the path's.               *)
(***************************************************************************)
THEOREM ParentsComeFirst == NamesSpec => []ParentsPrecedeChildren
<1>1. NamesIInv => ParentsPrecedeChildren
  <2> SUFFICES ASSUME NamesIInv, directories
               PROVE  \A k \in DOMAIN entries : \A n \in 1 .. Len(entries[k].name) - 1 :
                        \E i \in 1 .. k - 1 :
                            entries[i] = [name |-> Prefix(entries[k].name, n), kind |-> "dir"]
    BY Zenon DEF ParentsPrecedeChildren
  <2>1. entries \in Seq(EntryType) /\ ParentsFirst(entries)
    BY Zenon DEF NamesIInv, NamesInv
  <2>2. DOMAIN entries = 1 .. Len(entries)
    BY <2>1, SMTT(30)
  <2> QED
    BY <2>1, <2>2, Zenon DEF ParentsFirst, DirEntry
<1> QED
  BY <1>1, NamesInvariant, PTL

(***************************************************************************)
(* Every jar that has an entry begins with META-INF/ and its manifest.     *)
(***************************************************************************)
THEOREM ManifestComesFirst == NamesSpec => []ManifestLeadsJar
<1>1. NamesIInv => ManifestLeadsJar
  BY Zenon DEF NamesIInv, JarStart, ManifestLeadsJar
<1> QED
  BY <1>1, NamesInvariant, PTL
=============================================================================
