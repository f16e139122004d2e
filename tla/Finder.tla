-------------------------------- MODULE Finder --------------------------------
(***************************************************************************)
(* finder/finder.go: the cache of the source tree.  A run loads the db of  *)
(* the previous run, stats every directory in it, lists again those that   *)
(* have changed, answers queries and saves the db.  Between the calls of a *)
(* run to the filesystem other programs change the tree, and a run may end *)
(* before it has saved the db.                                             *)
(*                                                                         *)
(* A stamp stands for a statResponse: a change of a directory gives it a   *)
(* stamp it never had, and 0 is what statDirSync returns on failure.       *)
(* Symlinks, which listDirSync counts as files or skips, are left out.     *)
(***************************************************************************)
EXTENDS Naturals, Sequences, Functions

CONSTANTS
    Dirs,            \* the paths directories may have
    Root,            \* the one root directory
    ParentOf,        \* ParentOf[d] for every d but Root
    PathOrder,       \* Dirs, sorted by path
    FileNames,       \* names of files
    IncludeFiles,    \* CacheParams: the names to report
    PruneFiles,      \* CacheParams: the names that hide a directory
    MayFail,         \* the calls that may fail unexpectedly: "Lstat", "ReadDir"
    Worlds,          \* the circumstances of the runs, see World
    MaxClock         \* bound on the number of changes

(***************************************************************************)
(* excludes       -- the values of ExcludeDirs that runs are given         *)
(* threads        -- numDbLoadingThreads                                   *)
(* ignoreNotExist -- whether canIgnoreFsErr recognizes a missing directory *)
(* duringRun      -- the changes other programs make while a run loads     *)
(* betweenRuns    -- the changes they make at other times                  *)
(* runs           -- bound on the number of runs                           *)
(***************************************************************************)
Changes == {"create", "delete", "mkdir", "remove", "chmod", "damage"}

World == [excludes : SUBSET SUBSET Dirs, threads : Nat \ {0}, ignoreNotExist : BOOLEAN,
          duringRun : SUBSET Changes, betweenRuns : SUBSET Changes, runs : Nat]

\* Every directory is reached from the root, and PathOrder lists each once.
ASSUME TreeAssumption ==
    /\ Root \in Dirs
    /\ ParentOf \in [Dirs \ {Root} -> Dirs]
    /\ \A S \in SUBSET Dirs :
          Root \in S /\ (\A d \in Dirs \ {Root} : ParentOf[d] \in S => d \in S) => S = Dirs
    /\ PathOrder \in Seq(Dirs)
    /\ \A d \in Dirs : \E n \in 1 .. Len(PathOrder) : PathOrder[n] = d
    /\ \A m, n \in 1 .. Len(PathOrder) : PathOrder[m] = PathOrder[n] => m = n

ASSUME ParamsAssumption ==
    /\ IncludeFiles \subseteq FileNames /\ PruneFiles \subseteq FileNames
    /\ Worlds \subseteq World
    /\ MaxClock \in Nat

VARIABLES
    world,     \* the member of Worlds, which nothing changes
    disk,      \* disk[d]: [stamp, files, readable], stamp 0 if there is none
    clock,     \* the last stamp given out
    db,        \* the file at DbPath: [exclude, blocks, bad], or NoDb
    run,       \* [pc, exclude, n]: how far run number n has come
    quiet,     \* nothing has changed since the run began
    stats,     \* stats[i]: the stamps loadBytes has got for block i
    unmerged,  \* the blocks that combineResults has not received
    loadError, \* combineResults' err
    nodes,     \* nodes[d]: [inTree, stamp, names], inTree below its parent
    jobs,      \* f.threadPool: sequences of <<"stat" or "list", d>>
    modified,  \* f.modifiedFlag
    errs,      \* the paths in f.fsErrs
    dumping,   \* the goroutine of goDumpDb has not renamed its file yet
    result     \* what New returned: "none", "ok" or "error"

runVars == <<quiet, stats, unmerged, loadError, nodes, jobs, modified, errs, dumping, result>>
vars == <<world, disk, clock, db, run, runVars>>

NoDb == [exclude |-> {}, blocks |-> <<>>, bad |-> {}]
EmptyDir(stamp) == [stamp |-> stamp, files |-> {}, readable |-> TRUE]
NoDir == EmptyDir(0)
NoNode == [inTree |-> FALSE, stamp |-> 0, names |-> {}]
NewNode == [inTree |-> TRUE, stamp |-> 0, names |-> {}]

\* The elements of sequence s that are in S, in their order.
Keep(s, S) ==
    LET Kept[n \in 0 .. Len(s)] ==
            IF n = 0 THEN <<>>
            ELSE IF s[n] \in S THEN Append(Kept[n - 1], s[n]) ELSE Kept[n - 1]
    IN  Kept[Len(s)]

ChildrenOf(d) == {c \in Dirs \ {Root} : ParentOf[c] = d}

\* d and the directories above it, and d and those below it.
Above[d \in Dirs] == IF d = Root THEN {d} ELSE {d} \cup Above[ParentOf[d]]
Below(d) == {c \in Dirs : d \in Above[c]}

Exists(d) == disk[d].stamp # 0

Init ==
    /\ world \in Worlds
    /\ disk = [d \in Dirs |-> IF d = Root THEN EmptyDir(1) ELSE NoDir]
    /\ clock = 1
    /\ db = NoDb
    /\ run = [pc |-> "idle", exclude |-> {}, n |-> 0]
    /\ quiet = TRUE
    /\ stats = <<>>
    /\ unmerged = {}
    /\ loadError = FALSE
    /\ nodes = [d \in Dirs |-> NoNode]
    /\ jobs = {}
    /\ modified = FALSE
    /\ errs = {}
    /\ dumping = FALSE
    /\ result = "none"
-----------------------------------------------------------------------------
(* The filesystem and the programs that change it *)

\* Lstat as statDirSync uses it: the stamp, or 0.
Lstat(d) == disk[d].stamp

\* A change of the tree: op names it, for the bounds.
Change(op, newDisk) ==
    /\ clock < MaxClock
    /\ op \in IF run.pc \in {"idle", "up"} THEN world.betweenRuns ELSE world.duringRun
    /\ disk' = newDisk
    /\ clock' = clock + 1
    /\ quiet' = FALSE
    /\ UNCHANGED <<world, db, run, stats, unmerged, loadError, nodes, jobs, modified, errs,
                   dumping, result>>

Touched(d) == [disk EXCEPT ![d].stamp = clock + 1]

CreateFile(d, f) ==
    /\ Exists(d) /\ f \notin disk[d].files
    /\ Change("create", [Touched(d) EXCEPT ![d].files = @ \cup {f}])

DeleteFile(d, f) ==
    /\ Exists(d) /\ f \in disk[d].files
    /\ Change("delete", [Touched(d) EXCEPT ![d].files = @ \ {f}])

Mkdir(d) ==
    /\ d # Root /\ ~ Exists(d) /\ Exists(ParentOf[d])
    /\ Change("mkdir", [Touched(ParentOf[d]) EXCEPT ![d] = EmptyDir(clock + 1)])

\* rm -r: the directory and what is below it.
RemoveAll(d) ==
    /\ d # Root /\ Exists(d)
    /\ Change("remove", [c \in Dirs |-> IF c \in Below(d) THEN NoDir ELSE Touched(ParentOf[d])[c]])

\* chmod: the change time, which statDirSync looks at, is set.
Chmod(d) ==
    /\ Exists(d)
    /\ Change("chmod", [Touched(d) EXCEPT ![d].readable = ~ @])

\* The db file is damaged.
DamageDb(i) ==
    /\ "damage" \in world.betweenRuns
    /\ run.pc = "idle"
    /\ i \in DOMAIN db.blocks \ db.bad
    /\ db' = [db EXCEPT !.bad = @ \cup {i}]
    /\ UNCHANGED <<world, disk, clock, run, runVars>>

Environment ==
    \/ \E d \in Dirs, f \in FileNames : CreateFile(d, f) \/ DeleteFile(d, f)
    \/ \E d \in Dirs : Mkdir(d) \/ RemoveAll(d) \/ Chmod(d)
    \/ \E i \in DOMAIN db.blocks : DamageDb(i)
-----------------------------------------------------------------------------
(* startFromExternalCache and startWithoutExternalCache *)

EntriesOf(i) == db.blocks[i]

\* New: open the db, check its header, start to read its blocks.  A db that
\* has no block does not pass for a db: its header has no end.
New(exclude) ==
    LET usable == db.blocks # <<>> /\ db.exclude = exclude
    IN  /\ run.pc = "idle"
        /\ run.n < world.runs
        /\ run' = [pc |-> IF usable THEN "load" ELSE "scan", exclude |-> exclude, n |-> run.n + 1]
        /\ quiet' = TRUE
        /\ stats' = [i \in DOMAIN db.blocks |-> <<>>]
        /\ unmerged' = DOMAIN db.blocks
        /\ loadError' = FALSE
        /\ nodes' = [d \in Dirs |-> NoNode]
        /\ jobs' = {}
        /\ modified' = FALSE
        /\ errs' = {}
        /\ dumping' = FALSE
        /\ result' = "none"
        /\ UNCHANGED <<world, disk, clock, db>>

\* onFsError: what a failed call on d adds to fsErrs.
ErrsOf(d, unexpected) == IF unexpected \/ ~ world.ignoreNotExist THEN {d} ELSE {}

\* A call of the named kind on d fails for a reason of its own.
Fails(kind) == IF kind \in MayFail THEN BOOLEAN ELSE {FALSE}

\* loadBytes stats the next directory of block i.
StatEntry(i) ==
    LET n == Len(stats[i]) + 1
        d == EntriesOf(i)[n].path
    IN  /\ run.pc = "load"
        /\ i \in unmerged \ db.bad
        /\ n <= Len(EntriesOf(i))
        /\ \E fails \in Fails("Lstat") :
            LET stamp == IF fails THEN 0 ELSE Lstat(d)
            IN  /\ stats' = [stats EXCEPT ![i] = Append(@, stamp)]
                /\ errs' = IF stamp = 0 THEN errs \cup ErrsOf(d, fails) ELSE errs
        /\ UNCHANGED <<world, disk, clock, db, run, quiet, unmerged, loadError, nodes, jobs, modified,
                       dumping, result>>

ListSteps(i) == [n \in 1 .. Len(EntriesOf(i)) |-> <<"list", EntriesOf(i)[n].path>>]

\* Defect: directories are walked whether or not they have changed.
DirsToWalkAll(i) ==
    Keep(ListSteps(i), {ListSteps(i)[n] : n \in {n \in DOMAIN EntriesOf(i) : stats[i][n] # 0}})

\* The directories of block i that loadBytes wants to be walked.
DirsToWalk(i) ==
    LET changed == {n \in DOMAIN EntriesOf(i) : stats[i][n] \notin {0, EntriesOf(i)[n].stamp}}
    IN  Keep(ListSteps(i), {ListSteps(i)[n] : n \in changed})

\* A block's tree is put into the main tree; the nodes above its directories
\* come with it.  MergeIn does not overwrite a node with one of a missing
\* directory, whose cached names are then lost.
MergeIn(i) ==
    [d \in Dirs |->
        LET at == {n \in 1 .. Len(EntriesOf(i)) : EntriesOf(i)[n].path = d}
        IN  IF at # {}
            THEN LET n == CHOOSE k \in at : TRUE
                     cached == EntriesOf(i)[n]
                 IN  IF stats[i][n] = 0 /\ nodes[d].inTree
                     THEN nodes[d]
                     ELSE [inTree |-> TRUE, stamp |-> stats[i][n],
                           names |-> IF stats[i][n] \in {0, cached.stamp} THEN cached.names ELSE {}]
            ELSE IF \E n \in 1 .. Len(EntriesOf(i)) : d \in Above[EntriesOf(i)[n].path]
                 THEN [nodes[d] EXCEPT !.inTree = TRUE]
                 ELSE nodes[d]]

\* Defect: nothing is sent for a block that could not be parsed.
CombineParsedBlock(i) ==
    /\ run.pc = "load"
    /\ i \in unmerged \ db.bad
    /\ Len(stats[i]) = Len(EntriesOf(i))
    /\ unmerged' = unmerged \ {i}
    /\ modified' = (modified \/ DirsToWalk(i) # <<>>)
    /\ nodes' = MergeIn(i)
    /\ UNCHANGED <<world, disk, clock, db, run, quiet, stats, loadError, jobs, errs, dumping, result>>

\* loadBytes ends, or could not parse the block; combineResults receives it.
CombineBlock(i) ==
    /\ run.pc = "load"
    /\ i \in unmerged
    /\ i \in db.bad \/ Len(stats[i]) = Len(EntriesOf(i))
    /\ unmerged' = unmerged \ {i}
    /\ IF i \in db.bad
       THEN /\ loadError' = TRUE
            /\ UNCHANGED <<nodes, modified>>
       ELSE /\ modified' = (modified \/ DirsToWalk(i) # <<>>)
            /\ nodes' = IF loadError THEN nodes ELSE MergeIn(i)
            /\ UNCHANGED loadError
    /\ UNCHANGED <<world, disk, clock, db, run, quiet, stats, jobs, errs, dumping, result>>

\* The db is loaded: list what has changed, one job for a block; or start
\* again without it.
StartListing ==
    /\ run.pc = "load"
    /\ unmerged = {}
    /\ IF loadError
       THEN /\ run' = [run EXCEPT !.pc = "scan"]
            /\ UNCHANGED jobs
       ELSE /\ run' = [run EXCEPT !.pc = "walk"]
            /\ jobs' = {DirsToWalk(i) : i \in DOMAIN db.blocks} \ {<<>>}
    /\ UNCHANGED <<world, disk, clock, db, quiet, stats, unmerged, loadError, nodes, modified, errs,
                   dumping, result>>

\* startWithoutExternalCache: stat the root directory.
StartWithoutExternalCache ==
    /\ run.pc = "scan"
    /\ run' = [run EXCEPT !.pc = "walk"]
    /\ nodes' = [d \in Dirs |-> IF d = Root THEN NewNode ELSE NoNode]
    /\ jobs' = {<<<<"stat", Root>>>>}
    /\ UNCHANGED <<world, disk, clock, db, quiet, stats, unmerged, loadError, modified, errs,
                   dumping, result>>
-----------------------------------------------------------------------------
(* The thread pool *)

\* What is left of job, and the jobs it starts.
JobDone(job, started) ==
    jobs' = ((jobs \ {job}) \cup started) \cup ({Tail(job)} \ {<<>>})

\* statDirAsync.
StatDir(job) ==
    LET d == Head(job)[2] IN
    /\ run.pc = "walk"
    /\ Head(job)[1] = "stat"
    /\ \E fails \in Fails("Lstat") :
        LET stamp == IF fails THEN 0 ELSE Lstat(d)
        IN  /\ errs' = IF stamp = 0 THEN errs \cup ErrsOf(d, fails) ELSE errs
            /\ IF nodes[d].stamp = stamp
               THEN /\ JobDone(job, {})
                    /\ UNCHANGED <<nodes, modified>>
               ELSE /\ nodes' = [nodes EXCEPT ![d].stamp = stamp, ![d].names = {}]
                    /\ modified' = TRUE
                    /\ JobDone(job, IF stamp # 0 THEN {<<<<"list", d>>>>} ELSE {})
    /\ UNCHANGED <<world, disk, clock, db, run, quiet, stats, unmerged, loadError, dumping, result>>

\* pruneCacheCandidates
Pruned(files) == files \cap PruneFiles # {}

RelevantFiles(files) == IF Pruned(files) THEN {} ELSE files \cap IncludeFiles

RelevantDirs(d, files) ==
    IF Pruned(files) THEN {} ELSE {c \in ChildrenOf(d) : Exists(c)} \ run.exclude

\* Defect: children that are already known are thrown away.
ListedForgetting(d, names, subdirs) ==
    [c \in Dirs |->
        CASE c = d -> [nodes[c] EXCEPT !.names = names]
          [] c \in subdirs -> NewNode
          [] c \in ChildrenOf(d) \ subdirs -> [nodes[c] EXCEPT !.inTree = FALSE]
          [] OTHER -> nodes[c]]

\* Defect: subdirectories that have gone stay in the tree.
ListedKeeping(d, names, subdirs) ==
    [c \in Dirs |->
        CASE c = d -> [nodes[c] EXCEPT !.names = names]
          [] c \in subdirs -> IF nodes[c].inTree THEN nodes[c] ELSE NewNode
          [] OTHER -> nodes[c]]

\* The nodes after the listing of d: unknown subdirectories are new, others
\* that are not relevant any more leave the tree.
Listed(d, names, subdirs) ==
    [c \in Dirs |->
        CASE c = d -> [nodes[c] EXCEPT !.names = names]
          [] c \in subdirs -> IF nodes[c].inTree THEN nodes[c] ELSE NewNode
          [] c \in ChildrenOf(d) \ subdirs -> [nodes[c] EXCEPT !.inTree = FALSE]
          [] OTHER -> nodes[c]]

\* listDirSync.  A directory that cannot be read is empty.
ListDir(job) ==
    LET d == Head(job)[2] IN
    /\ run.pc = "walk"
    /\ Head(job)[1] = "list"
    /\ \E fails \in Fails("ReadDir") :
        LET listed == Exists(d) /\ disk[d].readable /\ ~ fails
            files == IF listed THEN disk[d].files ELSE {}
            subdirs == IF listed THEN RelevantDirs(d, files) ELSE {}
        IN  /\ errs' = IF fails \/ ~ Exists(d) THEN errs \cup ErrsOf(d, fails) ELSE errs
            /\ nodes' = Listed(d, RelevantFiles(files), subdirs)
            /\ JobDone(job, {<<<<"stat", c>>>> : c \in {c \in subdirs : ~ nodes[c].inTree}})
    /\ UNCHANGED <<world, disk, clock, db, run, quiet, stats, unmerged, loadError, modified,
                   dumping, result>>
-----------------------------------------------------------------------------
(* The end of New, queries, and the db *)

InCache(d) == \A c \in Above[d] : nodes[c].inTree

\* FindAll
Answers == {a \in Dirs \X FileNames : InCache(a[1]) /\ a[2] \in nodes[a[1]].names}

\* The pool is idle: start the dump, then check the errors that still matter
\* and that the root exists.
Loaded ==
    /\ run.pc = "walk"
    /\ jobs = {}
    /\ run' = [run EXCEPT !.pc = "up"]
    /\ dumping' = modified
    /\ result' = IF (\E d \in errs : InCache(d)) \/ ~ InCache(Root) \/ nodes[Root].stamp = 0
                 THEN "error" ELSE "ok"
    /\ UNCHANGED <<world, disk, clock, db, quiet, stats, unmerged, loadError, nodes, jobs, modified, errs>>

\* sortedDirEntries: missing directories are not saved.
SortedDirEntries ==
    LET saved == Keep(PathOrder, {d \in Dirs : InCache(d) /\ nodes[d].stamp # 0})
    IN  [n \in DOMAIN saved |-> [path |-> saved[n], stamp |-> nodes[saved[n]].stamp,
                                 names |-> nodes[saved[n]].names]]

\* serializeDb: at most numDbLoadingThreads blocks of about the same size.
SerializeDb ==
    LET all == SortedDirEntries
        num == IF world.threads > Len(all) THEN Len(all) ELSE world.threads
        Bound(i) == (Len(all) * i) \div num
    IN  [i \in 1 .. num |-> SubSeq(all, Bound(i - 1) + 1, Bound(i))]

\* dumpDb: write beside the db, then rename.
DumpDb ==
    /\ run.pc = "up"
    /\ dumping
    /\ db' = [exclude |-> run.exclude, blocks |-> SerializeDb, bad |-> {}]
    /\ dumping' = FALSE
    /\ UNCHANGED <<world, disk, clock, run, quiet, stats, unmerged, loadError, nodes, jobs, modified,
                   errs, result>>

\* The process ends: after Shutdown, in Fatalf, or because it was killed.
Exit ==
    /\ run.pc # "idle"
    /\ run' = [run EXCEPT !.pc = "idle"]
    /\ dumping' = FALSE
    /\ result' = "none"
    /\ nodes' = [d \in Dirs |-> NoNode]
    /\ jobs' = {}
    /\ stats' = <<>>
    /\ unmerged' = {}
    /\ errs' = {}
    /\ modified' = FALSE
    /\ loadError' = FALSE
    /\ UNCHANGED <<world, disk, clock, db, quiet>>

LoadStep ==
    \/ \E i \in DOMAIN db.blocks : StatEntry(i) \/ CombineBlock(i)
    \/ StartListing
    \/ StartWithoutExternalCache
    \/ \E job \in jobs : StatDir(job) \/ ListDir(job)
    \/ Loaded

Next ==
    \/ Environment
    \/ \E exclude \in world.excludes : New(exclude)
    \/ LoadStep
    \/ DumpDb
    \/ Exit

Spec == Init /\ [][Next]_vars

\* The goroutines of a run are scheduled until New returns.
FairSpec == Spec /\ WF_vars(LoadStep)
-----------------------------------------------------------------------------
\* What a walk of the tree as it is now would find in d, and which
\* directories it would go through.
Names(d) == IF disk[d].readable THEN RelevantFiles(disk[d].files) ELSE {}

Subdirs(d, exclude) ==
    IF ~ disk[d].readable \/ Pruned(disk[d].files) THEN {}
    ELSE {c \in ChildrenOf(d) : Exists(c)} \ exclude

Walked(exclude) ==
    {d \in Dirs : Exists(d) /\ \A c \in Above[d] \ {Root} : c \in Subdirs(ParentOf[c], exclude)}

\* While a run loads, other programs change files and permissions, but make
\* and remove no directory.
DirsStay == world.duringRun \cap {"mkdir", "remove"} = {}

\* The db is one block, whose directories are checked parents first.
OneBlock == world.threads = 1

(***************************************************************************)
(* When the tree has not changed since New was called, a query finds what  *)
(* a walk of the tree finds: no file is missed or made up, whatever the    *)
(* earlier runs have seen, however files changed while they loaded and     *)
(* directories between them, and wherever they were cut short              *)
(* (finder.go:38-58).  Directories may come and go while runs load only if *)
(* the db is one block.                                                    *)
(***************************************************************************)
ExactAnswers ==
    (DirsStay \/ OneBlock) /\ result = "ok" /\ quiet =>
        Answers = {a \in Walked(run.exclude) \X FileNames : a[2] \in Names(a[1])}

(***************************************************************************)
(* New fails only for a reason: when no directory goes while it loads and  *)
(* no call fails unexpectedly, the errors of directories that have         *)
(* vanished since the db was saved are discarded with their nodes          *)
(* (discardErrsForPrunedPaths).                                            *)
(***************************************************************************)
ErrorsAreReal == (DirsStay \/ quiet) /\ result = "error" => MayFail # {}

SavedEntries == UNION {Range(db.blocks[i]) : i \in DOMAIN db.blocks}

\* A run that finds nothing changed does not rewrite the db (finder_test.go:1431).
NoNeedlessDump ==
    result # "none" /\ modified /\ quiet /\ run.exclude = db.exclude /\ db.blocks # <<>> /\ db.bad = {} =>
        \/ ~ dumping
        \/ \E e \in SavedEntries : disk[e.path].stamp # e.stamp

\* Loading ends: the pool runs dry however the tree changes.
NewReturns == run.pc \in {"load", "scan", "walk"} ~> run.pc \in {"up", "idle"}
=============================================================================
