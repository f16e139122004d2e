------------------------------- MODULE ZipNames -------------------------------
(***************************************************************************)
(* zip/zip.go: which entries the producer of ZipWriter makes for the path  *)
(* mappings, in which order, and which conflicts between names it refuses  *)
(* (jarSort, addFile, addManifest, writeDirectory, writeSymlink).          *)
(*                                                                         *)
(* A path is the sequence of its components; the empty path is ".".        *)
(***************************************************************************)
EXTENDS Naturals, Sequences

CONSTANTS
    Components, \* the names that paths are made of
    Inputs,     \* the mappings a run may be given: [dest, kind]
    MaxInputs   \* bound on the number of mappings

ManifestFile == <<"META-INF", "MANIFEST.MF">>

Kinds == {"dir", "symlink", "file"}

Paths == Seq(Components) \ {<<>>}

ASSUME InputsAssumption ==
    /\ {"META-INF", "MANIFEST.MF"} \subseteq Components
    /\ \A m \in Inputs : m.dest \in Paths /\ m.kind \in Kinds
    /\ MaxInputs \in Nat

VARIABLES
    directories,  \* z.directories
    emulateJar,   \* args.EmulateJar
    mappings,     \* the pathMappings not yet processed
    createdDirs,  \* keys of z.createdDirs
    createdFiles, \* keys of z.createdFiles
    entries,      \* the entries queued so far: [name, kind], kind "dir" or "file"
    outcome       \* "adding", "done" or "error"

namesVars == <<directories, emulateJar, mappings, createdDirs, createdFiles, entries, outcome>>
config == <<directories, emulateJar>>

Prefix(path, n) == SubSeq(path, 1, n)

Parent(path) == Prefix(path, Len(path) - 1)

\* path is top or lies below it.
Under(path, top) == Len(top) <= Len(path) /\ Prefix(path, Len(top)) = top

\* The class of a name in a jar: jarOrder without "META-INF/" itself, which
\* no cleaned destination can be equal to.
JarClass(m) ==
    CASE m.dest = ManifestFile -> 1
      [] m.dest # ManifestFile /\ Len(m.dest) > 1 /\ Head(m.dest) = "META-INF" -> 2
      [] OTHER -> 3

\* The mappings of ms that are in class c, in their order.
InClass(ms, c) ==
    LET Kept[n \in 0 .. Len(ms)] ==
            IF n = 0 THEN <<>>
            ELSE IF JarClass(ms[n]) = c THEN Append(Kept[n - 1], ms[n]) ELSE Kept[n - 1]
    IN  Kept[Len(ms)]

\* Defect: the manifest stays where it was appended.
JarUnsorted(ms) == ms

\* jarSort is stable; the order of names inside a class is left open by
\* trying every order of the inputs.
JarSort(ms) == InClass(ms, 1) \o InClass(ms, 2) \o InClass(ms, 3)

\* write: add the manifest, sort for a jar.
PathMappings(jar, ms) ==
    IF jar
    THEN JarSort(Append(ms, [dest |-> ManifestFile, kind |-> "file"]))
    ELSE ms

NamesInit ==
    /\ emulateJar \in BOOLEAN
    /\ directories \in {d \in BOOLEAN : emulateJar => d}
    /\ \E len \in 0 .. MaxInputs : \E ms \in [1 .. len -> Inputs] :
          mappings = PathMappings(emulateJar, ms)
    /\ createdDirs = {}
    /\ createdFiles = {}
    /\ entries = <<>>
    /\ outcome = "adding"

-----------------------------------------------------------------------------
\* The length of the prefix of dir at which writeDirectory stops: the longest
\* one that was created earlier.
Existing(dir) ==
    CHOOSE n \in 0 .. Len(dir) :
        /\ n > 0 => Prefix(dir, n) \in createdDirs
        /\ \A k \in n + 1 .. Len(dir) : Prefix(dir, k) \notin createdDirs

\* The directories it meets on its way there, as lengths of prefixes.
Uncreated(dir) == Existing(dir) + 1 .. Len(dir)

\* writeDirectory refuses a path with a file in it.
DirConflict(dir) == \E n \in Uncreated(dir) : Prefix(dir, n) \in createdFiles

\* What writeDirectory adds to createdDirs.
NewDirs(dir) == {Prefix(dir, n) : n \in Uncreated(dir)}

\* Defect: children precede their parents.
DirEntriesChildFirst(dir) ==
    IF directories
    THEN [i \in 1 .. Len(dir) - Existing(dir) |->
            [name |-> Prefix(dir, Len(dir) - i + 1), kind |-> "dir"]]
    ELSE <<>>

\* Parent directories precede their children.
DirEntries(dir) ==
    IF directories
    THEN [i \in 1 .. Len(dir) - Existing(dir) |->
            [name |-> Prefix(dir, Existing(dir) + i), kind |-> "dir"]]
    ELSE <<>>

FileEntry(path) == <<[name |-> path, kind |-> "file"]>>

Current == Head(mappings)

IsManifest == emulateJar /\ Current.dest = ManifestFile

Done == mappings' = Tail(mappings) /\ UNCHANGED <<config, outcome>>

\* addFile of a directory: an entry of its own only with -d or -jar.
AddDirectory ==
    /\ outcome = "adding" /\ mappings # <<>>
    /\ ~ IsManifest
    /\ Current.kind = "dir"
    /\ directories => ~ DirConflict(Current.dest)
    /\ IF directories
       THEN /\ createdDirs' = createdDirs \cup NewDirs(Current.dest)
            /\ entries' = entries \o DirEntries(Current.dest)
       ELSE UNCHANGED <<createdDirs, entries>>
    /\ UNCHANGED createdFiles
    /\ Done

\* Defect: the new file is checked against files only.
FileConflictFilesOnly(dest) ==
    \/ DirConflict(Parent(dest))
    \/ dest \in createdFiles

\* createParentDirs, after writeDirectory of the parent.
FileConflict(dest) ==
    \/ DirConflict(Parent(dest))
    \/ dest \in createdDirs \cup NewDirs(Parent(dest))
    \/ dest \in createdFiles

\* addFile of a regular file, or of a symlink that is stored as one.
AddFile ==
    /\ outcome = "adding" /\ mappings # <<>>
    /\ ~ IsManifest
    /\ Current.kind \in {"file", "symlink"}
    /\ ~ FileConflict(Current.dest)
    /\ createdDirs' = createdDirs \cup NewDirs(Parent(Current.dest))
    /\ createdFiles' = createdFiles \cup {Current.dest}
    /\ entries' = entries \o DirEntries(Parent(Current.dest)) \o FileEntry(Current.dest)
    /\ Done

\* addManifest checks before it creates the parent, and records nothing; a
\* directory cannot be read as a manifest.
ManifestConflict ==
    \/ Current.kind = "dir"
    \/ Current.dest \in createdDirs
    \/ Current.dest \in createdFiles
    \/ DirConflict(Parent(Current.dest))

AddManifest ==
    /\ outcome = "adding" /\ mappings # <<>>
    /\ IsManifest
    /\ ~ ManifestConflict
    /\ createdDirs' = createdDirs \cup NewDirs(Parent(Current.dest))
    /\ entries' = entries \o DirEntries(Parent(Current.dest)) \o FileEntry(Current.dest)
    /\ UNCHANGED createdFiles
    /\ Done

\* The producer stops at the first conflict and write returns the error.
Refuse ==
    /\ outcome = "adding" /\ mappings # <<>>
    /\ IF IsManifest THEN ManifestConflict
       ELSE IF Current.kind = "dir" THEN directories /\ DirConflict(Current.dest)
       ELSE FileConflict(Current.dest)
    /\ outcome' = "error"
    /\ UNCHANGED <<config, mappings, createdDirs, createdFiles, entries>>

AllAdded ==
    /\ outcome = "adding" /\ mappings = <<>>
    /\ outcome' = "done"
    /\ UNCHANGED <<config, mappings, createdDirs, createdFiles, entries>>

NamesNext == AddDirectory \/ AddFile \/ AddManifest \/ Refuse \/ AllAdded

NamesSpec == NamesInit /\ [][NamesNext]_namesVars
-----------------------------------------------------------------------------
(***************************************************************************)
(* Two entries never have the same name, and nothing is stored below the   *)
(* name of a file: unpacking the archive cannot overwrite one input with   *)
(* another (the two "destination ..." errors of addFile, addManifest and   *)
(* writeDirectory).  The manifest of a jar is an exception: addManifest    *)
(* does not put it into createdFiles, so another mapping to its name, or   *)
(* to a path below it, is let through.                                     *)
(***************************************************************************)
NamesDoNotClash ==
    \A i, k \in DOMAIN entries :
        i # k /\ ~ (emulateJar /\ entries[i].name = ManifestFile) =>
            /\ entries[i].name # entries[k].name
            /\ entries[i].kind = "file" => ~ Under(entries[k].name, entries[i].name)

(***************************************************************************)
(* With directory entries on, every directory of an entry's path has its   *)
(* own entry before it (writeDirectory: "parent directories precede their  *)
(* children"), whatever was created by earlier mappings.                   *)
(***************************************************************************)
ParentsPrecedeChildren ==
    directories =>
        \A k \in DOMAIN entries : \A n \in 1 .. Len(entries[k].name) - 1 :
            \E i \in 1 .. k - 1 :
                entries[i] = [name |-> Prefix(entries[k].name, n), kind |-> "dir"]

(***************************************************************************)
(* A jar begins with META-INF/ and its manifest, wherever the inputs put   *)
(* other files of META-INF (jarOrder, jarSort, addManifest).               *)
(***************************************************************************)
ManifestLeadsJar ==
    emulateJar /\ entries # <<>> =>
        /\ Len(entries) > 1
        /\ entries[1] = [name |-> <<"META-INF">>, kind |-> "dir"]
        /\ entries[2] = [name |-> ManifestFile, kind |-> "file"]
=============================================================================
