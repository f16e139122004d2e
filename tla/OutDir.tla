-------------------------------- MODULE OutDir --------------------------------
(***************************************************************************)
(* What successive and simultaneous soong_ui processes do to an output     *)
(* directory: ui/build/build.go with proc_sync.go (the lock), kati.go and  *)
(* cleanbuild.go (what may stay installed), and the rotation of the logs   *)
(* in ui/logger/logger.go.  A process may be killed between any two of the *)
(* steps below, and the next one starts from what it left.                 *)
(*                                                                         *)
(* Kati and ninja are modelled from what the code around them relies on:   *)
(* kati writes the ninja file of its suffix and the list of what that will *)
(* install, ninja installs what is missing and may leave what is there.    *)
(***************************************************************************)
EXTENDS Integers, FiniteSets, Sequences

CONSTANTS
    Runs,        \* the processes, 1 .. n
    Configs,     \* the products with their build variants
    KatiSuffixes, \* the kati suffixes, one for a product
    SuffixOf,    \* SuffixOf[c]: what genKatiSuffix makes of configuration c
    Paths,       \* the files that can be installed, sorted
    Revisions,   \* the revisions of the source tree: <<[Configs -> files to install]>>
    Commands,    \* what users ask for
    MaxBackups,  \* maxCount of CreateFileWithRotation
    MaxAlive     \* bound on the processes at a time

Files == {Paths[i] : i \in DOMAIN Paths}

ASSUME RunsAssumption == Runs \subseteq Nat \ {0} /\ \A r \in Runs : 1 .. r \subseteq Runs
ASSUME SuffixAssumption == SuffixOf \in [Configs -> KatiSuffixes] /\ "none" \notin KatiSuffixes
ASSUME RevisionsAssumption == Revisions \in Seq([Configs -> SUBSET Files]) \ {<<>>}
ASSUME PathsAssumption == Paths \in Seq(Files) /\ "no_list" \notin Files
ASSUME BackupsAssumption == MaxBackups \in Nat \ {0}
ASSUME CommandsAssumption ==
    Commands \subseteq {"build", "skip_ninja", "skip_kati", "installclean", "clean"}

VARIABLES
    revision,    \* of the source tree
    run,         \* run[r]: [pc, command, config, rename, file, suffix, old, new]
    lockFile,    \* which file .lock is, 0 if there is none
    lockFiles,   \* how many times it has been created
    holder,      \* holder[f]: the process that has lock file f locked, or 0
    kati,        \* kati[s]: [of, list, packaged], the ninja files of suffix s
    combined,    \* combined[s]: "none", "cut" or "whole"
    lastSuffix,  \* last_kati_suffix, "none" if there is none
    newList,     \* .installable_files
    oldList,     \* .installable_files.previous
    prevConfig,  \* previous_build_config.mk
    staged,      \* staged[f]: the configuration that installed f, or "none"
    mixed,       \* --skip-kati has installed for another than prevConfig, or what
                 \* oldList does not name
    logs,        \* logs[i]: which log soong.i.log is, 0 if there is none
    created,     \* how many logs there have been
    logLock      \* the process that has .lock_soong.log locked, or 0

lockVars == <<lockFile, lockFiles, holder>>
ninjaVars == <<kati, combined, lastSuffix>>
installVars == <<newList, oldList, prevConfig, staged, mixed>>
logVars == <<logs, created, logLock>>
vars == <<revision, run, lockVars, ninjaVars, installVars, logVars>>

NoList == {"no_list"}
NoKati == [of |-> "none", list |-> {}, packaged |-> FALSE]

Idle == [pc |-> "new", command |-> "none", config |-> "none", rename |-> 0,
         file |-> 0, suffix |-> "none", old |-> {}, new |-> {}]

\* An output directory in which only help has been asked for: Build returns
\* before it takes the lock, but the logs are there.
Init ==
    /\ revision = 1
    /\ run = [r \in Runs |-> Idle]
    /\ lockFile = 0 /\ lockFiles = 0
    /\ holder = [f \in Runs |-> 0]
    /\ kati = [s \in KatiSuffixes |-> NoKati]
    /\ combined = [s \in KatiSuffixes \cup {"none"} |-> "none"]
    /\ lastSuffix = "none"
    /\ newList = NoList /\ oldList = NoList
    /\ prevConfig = "none"
    /\ staged = [f \in Files |-> "none"]
    /\ mixed = FALSE
    /\ created = MaxBackups + 1
    /\ logs = [i \in 0 .. MaxBackups |-> created - i]
    /\ logLock = 0

At(r, pc) == run[r].pc = pc
Go(r, pc) == run' = [run EXCEPT ![r].pc = pc]

Alive(r) == run[r].pc \notin {"new", "done"}

\* After BecomeSingletonOrFail has returned.
Building(r) == Alive(r) /\ run[r].pc \notin {"log", "rotate", "open_lock", "lock"}
-----------------------------------------------------------------------------
\* The source tree changes, while nothing runs: kati reads it in one step.
EditSources ==
    /\ \A r \in Runs : ~ Alive(r)
    /\ revision < Len(Revisions)
    /\ revision' = revision + 1
    /\ UNCHANGED <<run, lockVars, ninjaVars, installVars, logVars>>

\* The configuration matters to those who run kati.
Start(r, command, config) ==
    /\ At(r, "new")
    /\ config = "none" <=> command \notin {"build", "skip_ninja"}
    /\ \A q \in 1 .. r - 1 : ~ At(q, "new")
    /\ Cardinality({q \in Runs : Alive(q)}) < MaxAlive
    /\ run' = [run EXCEPT ![r] = [Idle EXCEPT !.pc = "log", !.command = command, !.config = config]]
    /\ UNCHANGED <<revision, lockVars, ninjaVars, installVars, logVars>>

\* The process is killed, or gives up in Fatal; the system unlocks its files.
Die(r) ==
    /\ Alive(r)
    /\ run' = [run EXCEPT ![r] = [Idle EXCEPT !.pc = "done"]]
    /\ holder' = [f \in Runs |-> IF holder[f] = r THEN 0 ELSE holder[f]]
    /\ logLock' = IF logLock = r THEN 0 ELSE logLock
    /\ UNCHANGED <<revision, lockFile, lockFiles, ninjaVars, installVars, logs, created>>
-----------------------------------------------------------------------------
(* log.SetOutput: CreateFileWithRotation, under a lock of its own *)

\* The first name that is free, or the last.
FirstFree(max) ==
    CHOOSE i \in 0 .. max :
        /\ i = max \/ logs[i] = 0
        /\ \A k \in 0 .. i - 1 : logs[k] # 0

\* Defect: off by one.
LastToRotateShort == FirstFree(MaxBackups - 1) - 1

\* The renames that fileRotation will do: its recursion goes down to the
\* first name that is free, or to the last.
LastToRotate == FirstFree(MaxBackups) - 1

LockLogs(r) ==
    /\ At(r, "log") /\ logLock = 0
    /\ logLock' = r
    /\ run' = [run EXCEPT ![r].pc = "rotate", ![r].rename = LastToRotate]
    /\ UNCHANGED <<revision, lockVars, ninjaVars, installVars, logs, created>>

\* One rename, the oldest log first.
Rotate(r) ==
    LET i == run[r].rename IN
    /\ At(r, "rotate") /\ i >= 0 /\ logs[i] # 0
    /\ logs' = [logs EXCEPT ![i + 1] = logs[i], ![i] = 0]
    /\ run' = [run EXCEPT ![r].rename = i - 1]
    /\ UNCHANGED <<revision, lockVars, ninjaVars, installVars, created, logLock>>

\* Clean has removed the log: only the error of the outermost rename counts,
\* and is Fatal.
RotateFails(r) ==
    LET i == run[r].rename IN
    /\ At(r, "rotate") /\ i >= 0 /\ logs[i] = 0
    /\ run' = [run EXCEPT ![r] = IF i = 0 THEN [Idle EXCEPT !.pc = "done"]
                                 ELSE [run[r] EXCEPT !.rename = i - 1]]
    /\ logLock' = IF i = 0 /\ logLock = r THEN 0 ELSE logLock
    /\ UNCHANGED <<revision, lockVars, ninjaVars, installVars, logs, created>>

\* os.Create, and the lock file is closed.
CreateLog(r) ==
    /\ At(r, "rotate") /\ run[r].rename < 0
    /\ created' = created + 1
    /\ logs' = [logs EXCEPT ![0] = created + 1]
    /\ logLock' = IF logLock = r THEN 0 ELSE logLock
    /\ run' = [run EXCEPT ![r].pc = "open_lock", ![r].rename = 0]
    /\ UNCHANGED <<revision, lockVars, ninjaVars, installVars>>
-----------------------------------------------------------------------------
(* BecomeSingletonOrFail *)

\* newLock
NewLock(r) ==
    LET file == IF lockFile = 0 THEN lockFiles + 1 ELSE lockFile IN
    /\ At(r, "open_lock")
    /\ lockFile' = file
    /\ lockFiles' = IF lockFile = 0 THEN file ELSE lockFiles
    /\ run' = [run EXCEPT ![r].pc = "lock", ![r].file = file]
    /\ UNCHANGED <<revision, holder, ninjaVars, installVars, logVars>>

AfterLock(command) ==
    CASE command \in {"build", "skip_ninja"} -> "kati"
      [] command = "skip_kati" -> "load_suffix"
      [] OTHER -> command

\* Defect: the lock is not looked at.
TryLockIgnored(r) ==
    /\ At(r, "lock")
    /\ holder' = [holder EXCEPT ![run[r].file] = r]
    /\ Go(r, AfterLock(run[r].command))
    /\ UNCHANGED <<revision, lockFile, lockFiles, ninjaVars, installVars, logVars>>

\* lockSynchronous
TryLock(r) ==
    /\ At(r, "lock") /\ holder[run[r].file] = 0
    /\ holder' = [holder EXCEPT ![run[r].file] = r]
    /\ Go(r, AfterLock(run[r].command))
    /\ UNCHANGED <<revision, lockFile, lockFiles, ninjaVars, installVars, logVars>>

\* The deadline has passed: Fatal.
LockTimeout(r) ==
    /\ At(r, "lock") /\ holder[run[r].file] # 0
    /\ run' = [run EXCEPT ![r] = [Idle EXCEPT !.pc = "done"]]
    /\ UNCHANGED <<revision, lockVars, ninjaVars, installVars, logVars>>

\* The deferred Unlock at the end of Build.
Unlock(r) ==
    /\ At(r, "unlock")
    /\ holder' = [holder EXCEPT ![run[r].file] = 0]
    /\ run' = [run EXCEPT ![r] = [Idle EXCEPT !.pc = "done"]]
    /\ UNCHANGED <<revision, lockFile, lockFiles, ninjaVars, installVars, logVars>>
-----------------------------------------------------------------------------
(* clean: everything under the output directory, in the order of the names *)

RemoveLock(r) ==
    /\ At(r, "clean")
    /\ lockFile' = 0
    /\ Go(r, "clean_rest")
    /\ UNCHANGED <<revision, lockFiles, holder, ninjaVars, installVars, logVars>>

RemoveRest(r) ==
    /\ At(r, "clean_rest")
    /\ kati' = [s \in KatiSuffixes |-> NoKati]
    /\ combined' = [s \in DOMAIN combined |-> "none"]
    /\ lastSuffix' = "none"
    /\ newList' = NoList /\ oldList' = NoList
    /\ prevConfig' = "none"
    /\ staged' = [f \in Files |-> "none"]
    /\ logs' = [i \in DOMAIN logs |-> 0]
    /\ logLock' = 0
    /\ Go(r, "unlock")
    /\ UNCHANGED <<revision, lockVars, mixed, created>>
-----------------------------------------------------------------------------
(* Kati *)

\* Defect: the suffix is saved when it is made.
RunKatiSavingSuffix(r) ==
    LET s == SuffixOf[run[r].config]
        list == Revisions[revision][run[r].config]
    IN  /\ At(r, "kati")
        /\ kati' = [kati EXCEPT ![s].of = run[r].config, ![s].list = list]
        /\ newList' = list
        /\ lastSuffix' = s
        /\ run' = [run EXCEPT ![r].pc = "old_files", ![r].suffix = s]
        /\ UNCHANGED <<revision, lockVars, combined, oldList, prevConfig, staged, mixed, logVars>>

\* genKatiSuffix and the kati of runKatiBuild.
RunKati(r) ==
    LET s == SuffixOf[run[r].config]
        list == Revisions[revision][run[r].config]
    IN  /\ At(r, "kati")
        /\ kati' = [kati EXCEPT ![s].of = run[r].config, ![s].list = list]
        /\ newList' = list
        /\ run' = [run EXCEPT ![r].pc = "old_files", ![r].suffix = s]
        /\ UNCHANGED <<revision, lockVars, combined, lastSuffix, oldList, prevConfig, staged, mixed,
                       logVars>>

\* cleanOldFiles: the first list becomes the old one; lists that are equal
\* are left; otherwise they are compared.
CleanOldFiles(r) ==
    /\ At(r, "old_files")
    /\ IF newList # NoList /\ oldList = NoList
       THEN oldList' = newList /\ newList' = NoList /\ Go(r, "package")
       ELSE /\ UNCHANGED <<newList, oldList>>
            /\ IF newList \in {NoList, oldList} THEN Go(r, "package")
               ELSE run' = [run EXCEPT ![r].pc = "compare", ![r].old = oldList,
                                       ![r].new = newList]
    /\ UNCHANGED <<revision, lockVars, ninjaVars, prevConfig, staged, mixed, logVars>>

\* The head of a list of paths, which are sorted before they are compared.
First(list) ==
    LET head == CHOOSE i \in DOMAIN Paths :
                    Paths[i] \in list /\ \A k \in 1 .. i - 1 : Paths[k] \notin list
    IN  Paths[head]

Before(f, g) == \E i, k \in DOMAIN Paths : i < k /\ Paths[i] = f /\ Paths[k] = g

\* One turn of the loop: the same path leaves both lists, one that is only in
\* the new list leaves that, and one that is only in the old list is removed.
ComparePaths(r) ==
    LET old == run[r].old
        new == run[r].new
    IN  /\ At(r, "compare") /\ old # {}
        /\ IF new # {} /\ ~ Before(First(old), First(new))
           THEN /\ run' = [run EXCEPT ![r].new = new \ {First(new)}, ![r].old = old \ {First(new)}]
                /\ UNCHANGED staged
           ELSE /\ run' = [run EXCEPT ![r].old = old \ {First(old)}]
                /\ staged' = [staged EXCEPT ![First(old)] = "none"]
        /\ UNCHANGED <<revision, lockVars, ninjaVars, newList, oldList, prevConfig, mixed, logVars>>

\* "Use the new list as the base for the next build".
RenameList(r) ==
    /\ At(r, "compare") /\ run[r].old = {}
    /\ oldList' = IF newList = NoList THEN oldList ELSE newList
    /\ newList' = NoList
    /\ run' = [run EXCEPT ![r].pc = "package", ![r].new = {}]
    /\ UNCHANGED <<revision, lockVars, ninjaVars, prevConfig, staged, mixed, logVars>>

RunKatiPackage(r) ==
    /\ At(r, "package")
    /\ kati' = [kati EXCEPT ![run[r].suffix].packaged = TRUE]
    /\ Go(r, "suffix")
    /\ UNCHANGED <<revision, lockVars, combined, lastSuffix, installVars, logVars>>

SaveSuffix(r) ==
    /\ At(r, "suffix")
    /\ lastSuffix' = run[r].suffix
    /\ Go(r, "combined")
    /\ UNCHANGED <<revision, lockVars, kati, combined, installVars, logVars>>

\* --skip-kati
LoadSuffix(r) ==
    /\ At(r, "load_suffix")
    /\ run' = [run EXCEPT ![r].pc = "combined", ![r].suffix = lastSuffix]
    /\ UNCHANGED <<revision, lockVars, ninjaVars, installVars, logVars>>
-----------------------------------------------------------------------------
(* createCombinedBuildNinjaFile *)

\* --skip-kati keeps a file that is there; os.Create empties it.
CreateCombined(r) ==
    LET s == run[r].suffix IN
    /\ At(r, "combined")
    /\ IF run[r].command = "skip_kati" /\ combined[s] # "none"
       THEN Go(r, "ninja") /\ UNCHANGED combined
       ELSE Go(r, "write_combined") /\ combined' = [combined EXCEPT ![s] = "cut"]
    /\ UNCHANGED <<revision, lockVars, kati, lastSuffix, installVars, logVars>>

WriteCombined(r) ==
    /\ At(r, "write_combined")
    /\ combined' = [combined EXCEPT ![run[r].suffix] = "whole"]
    /\ Go(r, CASE run[r].command = "build" -> "config"
               [] run[r].command = "skip_kati" -> "ninja"
               [] OTHER -> "unlock")
    /\ UNCHANGED <<revision, lockVars, kati, lastSuffix, installVars, logVars>>
-----------------------------------------------------------------------------
(* installCleanIfNecessary, installClean and ninja *)

CheckConfig(r) ==
    /\ At(r, "config")
    /\ prevConfig' = IF prevConfig = "none" THEN run[r].config ELSE prevConfig
    /\ Go(r, IF prevConfig \in {"none", run[r].config} THEN "ninja" ELSE "installclean")
    /\ UNCHANGED <<revision, lockVars, ninjaVars, newList, oldList, staged, mixed, logVars>>

\* removeGlobs, one path at a time.
InstallClean(r) ==
    /\ At(r, "installclean")
    /\ \E f \in Files :
          /\ staged[f] # "none"
          /\ staged' = [staged EXCEPT ![f] = "none"]
    /\ UNCHANGED <<revision, run, lockVars, ninjaVars, newList, oldList, prevConfig, mixed, logVars>>

\* All are removed: writeConfig, unless the user asked for installclean.
InstallCleaned(r) ==
    /\ At(r, "installclean")
    /\ \A f \in Files : staged[f] = "none"
    /\ IF run[r].command = "installclean"
       THEN Go(r, "unlock") /\ UNCHANGED prevConfig
       ELSE Go(r, "ninja") /\ prevConfig' = run[r].config
    /\ UNCHANGED <<revision, lockVars, ninjaVars, newList, oldList, staged, mixed, logVars>>

\* What the kati ninja file of the run's suffix says.
Graph(r) == IF run[r].suffix = "none" THEN NoKati ELSE kati[run[r].suffix]

\* Ninja installs a file; one that another configuration left may stay.
NinjaInstall(r, f) ==
    /\ At(r, "ninja")
    /\ f \in Graph(r).list /\ staged[f] # Graph(r).of
    /\ staged' = [staged EXCEPT ![f] = Graph(r).of]
    /\ mixed' = \/ mixed
                \/ run[r].command = "skip_kati" /\ (prevConfig # Graph(r).of \/ f \notin oldList)
    /\ UNCHANGED <<revision, run, lockVars, ninjaVars, newList, oldList, prevConfig, logVars>>

NinjaDone(r) ==
    /\ At(r, "ninja")
    /\ \A f \in Graph(r).list : staged[f] # "none"
    /\ Go(r, "unlock")
    /\ UNCHANGED <<revision, lockVars, ninjaVars, installVars, logVars>>
-----------------------------------------------------------------------------
Step(r) ==
    \/ LockLogs(r) \/ Rotate(r) \/ RotateFails(r) \/ CreateLog(r)
    \/ NewLock(r) \/ TryLock(r) \/ LockTimeout(r) \/ Unlock(r)
    \/ RemoveLock(r) \/ RemoveRest(r)
    \/ RunKati(r) \/ CleanOldFiles(r) \/ ComparePaths(r) \/ RenameList(r)
    \/ RunKatiPackage(r) \/ SaveSuffix(r) \/ LoadSuffix(r)
    \/ CreateCombined(r) \/ WriteCombined(r)
    \/ CheckConfig(r) \/ InstallClean(r) \/ InstallCleaned(r)
    \/ NinjaDone(r)
    \/ \E f \in Files : NinjaInstall(r, f)

Next ==
    \/ EditSources
    \/ \E r \in Runs, command \in Commands, config \in Configs \cup {"none"} :
          Start(r, command, config)
    \/ \E r \in Runs : Step(r) \/ Die(r)

Spec == Init /\ [][Next]_vars
-----------------------------------------------------------------------------
(***************************************************************************)
(* "Remove the files necessary to keep things consistent" when products    *)
(* share their staging directory (cleanbuild.go:197): when a build ends,   *)
(* what is installed is what its configuration installs, and none of it is *)
(* left from another configuration or from rules that are gone, whatever   *)
(* was built, killed or cleaned before.  Not after --skip-kati, which      *)
(* checks neither (build.go:319), installed for another configuration than *)
(* the last one checked, or a file that the last list compared leaves out, *)
(* and not once clean has removed the lock under those who use it.         *)
(***************************************************************************)
StagingIsConsistent ==
    \A r \in Runs :
        At(r, "unlock") /\ run[r].command = "build" /\ ~ mixed /\ lockFiles < 2 =>
            staged = [f \in Files |-> IF f \in Graph(r).list THEN run[r].config ELSE "none"]

(***************************************************************************)
(* Ninja is run on files that are there: last_kati_suffix names a product  *)
(* for which both kati runs have ended, wherever later runs were killed.   *)
(* Only --skip-kati may be left with a combined ninja file that was cut    *)
(* short, which it does not write again.                                   *)
(***************************************************************************)
NinjaInputsExist ==
    \A r \in Runs :
        At(r, "ninja") /\ lockFiles < 2 =>
            /\ run[r].suffix # "none" => Graph(r).packaged /\ Graph(r).of # "none"
            /\ \/ combined[run[r].suffix] = "whole"
               \/ run[r].command = "skip_kati" /\ combined[run[r].suffix] = "cut"

(***************************************************************************)
(* "<filename>.1.<ext> is the most recent backup, <filename>.2.<ext> is    *)
(* the second most recent" (logger.go:97): the logs are in order and the   *)
(* newest ones are kept, although processes that rotate them are killed    *)
(* half way and others start.                                              *)
(***************************************************************************)
LogsInOrder ==
    /\ \A i, k \in DOMAIN logs : i < k /\ logs[k] # 0 => logs[i] = 0 \/ logs[i] > logs[k]
    /\ lockFiles < 2 /\ lockFile # 0 =>
        \A n \in 1 .. created : n > created - MaxBackups => \E i \in DOMAIN logs : logs[i] = n

(***************************************************************************)
(* "Making sure only one Soong process is running for a given output       *)
(* directory" (proc_sync.go:30).                                           *)
(***************************************************************************)
OneProcess == \A q, r \in Runs : Building(q) /\ Building(r) => q = r

(***************************************************************************)
(* The same, as long as .lock is the file it was at first: processes that  *)
(* time out, are killed with the lock or come while it is held all agree   *)
(* on who has it.  Clean ends this, since it removes .lock.                *)
(***************************************************************************)
OneProcessPerLockFile == lockFiles < 2 => OneProcess
=============================================================================
