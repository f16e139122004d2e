----------------------------- MODULE OutDirProofs -----------------------------
(***************************************************************************)
(* For any number of processes, configurations, files and backups, and     *)
(* whoever is killed when: the lock on the output directory keeps builds   *)
(* apart as long as .lock is not removed and created again, and then what  *)
(* one build leaves in the directory is what the next one relies on; and   *)
(* the logs stay in order.                                                 *)
(***************************************************************************)
EXTENDS OutDir, WellFoundedInduction, TLAPS

Fields == {"pc", "command", "config", "rename", "file", "suffix", "old", "new"}

Waiting(r) == At(r, "lock")

\* The inductive invariant.  Those who wait and those who build have opened
\* the same file, and the one who builds has it locked.
LockInv ==
    /\ run = [r \in Runs |-> run[r]]
    /\ \A r \in Runs : DOMAIN run[r] = Fields
    /\ holder \in [Runs -> Runs \cup {0}]
    /\ lockFiles \in Nat
    /\ lockFiles < 2 =>
        /\ lockFile \in {0, 1}
        /\ lockFile = 1 => lockFiles = 1
        /\ \A r \in Runs : Waiting(r) \/ Building(r) => lockFiles = 1 /\ run[r].file = 1
        /\ \A r \in Runs : Building(r) => holder[1] = r

\* A step of process r that does not touch the lock: it neither opens .lock
\* nor takes it or gives it back.  It may remove the name.
Moves(r) ==
    /\ run' = [run EXCEPT ![r] = run'[r]]
    /\ DOMAIN run'[r] = Fields
    /\ Building(r)' => Building(r) /\ run'[r].file = run[r].file
    /\ Waiting(r)' => Waiting(r) /\ run'[r].file = run[r].file
    /\ lockFile' \in {lockFile, 0}
    /\ UNCHANGED <<lockFiles, holder>>

\* Lock file 1 is one that holder knows of.
LEMMA FirstLockFile == \A r \in Runs : r # 0 /\ 1 \in Runs
  BY RunsAssumption, SMTT(30)

\* The invariant holds in an output directory without a lock.
LEMMA LockInvInit == Init => LockInv
<1> SUFFICES ASSUME Init
             PROVE  LockInv
  BY Zenon
<1>1. DOMAIN Idle = Fields /\ Idle.pc = "new"
  BY Zenon DEF Idle, Fields
<1>2. run = [r \in Runs |-> run[r]] /\ \A r \in Runs : run[r] = Idle
  BY Zenon DEF Init
<1>3. \A r \in Runs : ~ Building(r) /\ ~ Waiting(r)
  BY <1>1, <1>2, Zenon DEF Waiting, Building, Alive, At
<1>4. holder \in [Runs -> Runs \cup {0}] /\ lockFiles = 0 /\ lockFile = 0
  BY Zenon DEF Init
<1> QED
  BY <1>1, <1>2, <1>3, <1>4, Zenon DEF LockInv

\* The steps that leave the lock alone keep it.
LEMMA MovesKeepLock ==
    ASSUME LockInv, NEW r \in Runs, Moves(r)
    PROVE  LockInv'
<1>1. \A q \in Runs : q # r => run'[q] = run[q]
  BY Zenon DEF Moves, LockInv
<1>2. \A q \in Runs : q # r => (Building(q)' <=> Building(q)) /\ (Waiting(q)' <=> Waiting(q))
  BY <1>1, Zenon DEF Building, Waiting, Alive, At
<1>3. run' = [q \in Runs |-> run'[q]]
  BY Zenon DEF Moves, LockInv
<1>4. \A q \in Runs : DOMAIN run'[q] = Fields
  BY <1>1, Zenon DEF Moves, LockInv
<1> QED
  BY <1>1, <1>2, <1>3, <1>4, Zenon DEF Moves, LockInv

\* So do the steps that leave the processes alone as well.
LEMMA StutterKeepsLock ==
    ASSUME LockInv, UNCHANGED <<run, lockVars>>
    PROVE  LockInv'
  BY Zenon DEF LockInv, lockVars, Building, Waiting, Alive, At

\* newLock: whoever opens .lock while it is the first one gets file 1.
LEMMA NewLockKeepsLock ==
    ASSUME LockInv, NEW r \in Runs, NewLock(r)
    PROVE  LockInv'
<1>1. \A q \in Runs : q # r => run'[q] = run[q]
  BY Zenon DEF NewLock, LockInv
<1>2. run'[r].pc = "lock" /\ run'[r].file = lockFile'
  BY Zenon DEF NewLock, LockInv, Fields
<1>3. \A q \in Runs : q # r => (Building(q)' <=> Building(q)) /\ (Waiting(q)' <=> Waiting(q))
  BY <1>1, Zenon DEF Building, Waiting, Alive, At
<1>4. ~ Building(r)'
  BY <1>2, Zenon DEF Building
<1>5. run' = [q \in Runs |-> run'[q]] /\ \A q \in Runs : DOMAIN run'[q] = Fields
  BY Zenon DEF NewLock, LockInv
<1>6. /\ holder' = holder
      /\ lockFiles' = IF lockFile = 0 THEN lockFiles + 1 ELSE lockFiles
      /\ lockFile' = IF lockFile = 0 THEN lockFiles + 1 ELSE lockFile
  BY Zenon DEF NewLock
<1>7. /\ lockFiles \in Nat
      /\ lockFiles < 2 => lockFile \in {0, 1} /\ (lockFile = 1 => lockFiles = 1)
  BY Zenon DEF LockInv
<1>8. lockFiles' \in Nat
  BY <1>6, <1>7, SMTT(30)
<1>9. ASSUME lockFiles' < 2
      PROVE  lockFiles < 2 /\ lockFile' = 1 /\ lockFiles' = 1
  BY <1>6, <1>7, <1>9, SMTT(30)
<1> QED
  BY <1>1, <1>2, <1>3, <1>4, <1>5, <1>6, <1>8, <1>9, Zenon DEF LockInv

\* lockSynchronous: with the lock free nobody builds.
LEMMA TryLockKeepsLock ==
    ASSUME LockInv, NEW r \in Runs, TryLock(r)
    PROVE  LockInv'
<1>1. \A q \in Runs : q # r => run'[q] = run[q]
  BY Zenon DEF TryLock, Go, LockInv
<1>2. run'[r].file = run[r].file /\ Waiting(r)
  BY Zenon DEF TryLock, Go, LockInv, Fields, Waiting
<1>3. \A q \in Runs : q # r => (Building(q)' <=> Building(q)) /\ (Waiting(q)' <=> Waiting(q))
  BY <1>1, Zenon DEF Building, Waiting, Alive, At
<1>4. run' = [q \in Runs |-> run'[q]] /\ \A q \in Runs : DOMAIN run'[q] = Fields
  BY Zenon DEF TryLock, Go, LockInv
<1>5. holder' \in [Runs -> Runs \cup {0}]
  BY Zenon DEF TryLock, LockInv
<1>6. UNCHANGED <<lockFile, lockFiles>>
  BY Zenon DEF TryLock
<1>7. ASSUME lockFiles < 2
      PROVE  holder'[1] = r /\ \A q \in Runs : ~ Building(q)
  <2>1. run[r].file = 1
    BY <1>2, <1>7, Zenon DEF LockInv
  <2>2. holder[1] = 0
    BY <2>1, Zenon DEF TryLock
  <2>3. holder'[1] = r
    BY <2>1, FirstLockFile, Zenon DEF TryLock, LockInv
  <2> QED
    BY <1>7, <2>2, <2>3, FirstLockFile, Zenon DEF LockInv
<1> QED
  BY <1>1, <1>2, <1>3, <1>4, <1>5, <1>6, <1>7, Zenon DEF LockInv

\* The end of a process, which gives back what it has locked.
LEMMA EndKeepsLock ==
    ASSUME LockInv, NEW r \in Runs, Die(r) \/ Unlock(r)
    PROVE  LockInv'
<1>1. \A q \in Runs : q # r => run'[q] = run[q]
  BY Zenon DEF Die, Unlock, LockInv
<1>2. run'[r].pc = "done"
  BY Zenon DEF Die, Unlock, LockInv, Idle
<1>3. \A q \in Runs : q # r => (Building(q)' <=> Building(q)) /\ (Waiting(q)' <=> Waiting(q))
  BY <1>1, Zenon DEF Building, Waiting, Alive, At
<1>4. ~ Building(r)' /\ ~ Waiting(r)'
  BY <1>2, Zenon DEF Building, Waiting, Alive, At
<1>5. run' = [q \in Runs |-> run'[q]] /\ \A q \in Runs : DOMAIN run'[q] = Fields
  BY Zenon DEF Die, Unlock, LockInv, Idle, Fields
<1>6. holder' \in [Runs -> Runs \cup {0}]
  BY Zenon DEF Die, Unlock, LockInv
<1>7. UNCHANGED <<lockFile, lockFiles>>
  BY Zenon DEF Die, Unlock
<1>8. ASSUME lockFiles < 2, NEW q \in Runs, q # r, Building(q)
      PROVE  holder'[1] = q
  <2>1. holder[1] = q
    BY <1>8, Zenon DEF LockInv
  <2>2. CASE Die(r)
    BY <1>8, <2>1, <2>2, FirstLockFile, Zenon DEF Die
  <2>3. CASE Unlock(r)
    <3>1. Building(r)
      BY <2>3, Zenon DEF Unlock, Building, Alive, At
    <3> QED
      BY <1>8, <2>1, <3>1, Zenon DEF LockInv
  <2> QED
    BY <2>2, <2>3, Zenon
<1> QED
  BY <1>1, <1>3, <1>4, <1>5, <1>6, <1>7, <1>8, Zenon DEF LockInv

\* The steps of Build and of the log that are Moves.
LEMMA BuildStepsMove ==
    ASSUME LockInv, NEW r \in Runs,
           \/ LockLogs(r) \/ Rotate(r) \/ RotateFails(r) \/ CreateLog(r) \/ LockTimeout(r)
           \/ RemoveLock(r) \/ RemoveRest(r)
           \/ RunKati(r) \/ CleanOldFiles(r) \/ ComparePaths(r) \/ RenameList(r)
           \/ RunKatiPackage(r) \/ SaveSuffix(r) \/ LoadSuffix(r)
           \/ CreateCombined(r) \/ WriteCombined(r)
           \/ CheckConfig(r) \/ InstallCleaned(r) \/ NinjaDone(r)
    PROVE  Moves(r)
<1> USE DEF Moves, LockInv, Building, Waiting, Alive, At, Fields, lockVars
<1>0. DOMAIN Idle = Fields
  BY Zenon DEF Idle
<1>1. CASE LockLogs(r)
  BY <1>1, Zenon DEF LockLogs
<1>2. CASE Rotate(r)
  BY <1>2, Zenon DEF Rotate
<1>3. CASE RotateFails(r)
  BY <1>0, <1>3, Zenon DEF RotateFails, Idle
<1>4. CASE CreateLog(r)
  BY <1>4, Zenon DEF CreateLog
<1>5. CASE LockTimeout(r)
  BY <1>0, <1>5, Zenon DEF LockTimeout, Idle
<1>6. CASE RemoveLock(r)
  BY <1>6, Zenon DEF RemoveLock, Go
<1>7. CASE RemoveRest(r)
  BY <1>7, Zenon DEF RemoveRest, Go
<1>8. CASE RunKati(r)
  BY <1>8, Zenon DEF RunKati
<1>9. CASE CleanOldFiles(r)
  <2>1. \/ run' = [run EXCEPT ![r].pc = "package"]
        \/ run' = [run EXCEPT ![r].pc = "compare", ![r].old = oldList,
                              ![r].new = newList]
    BY <1>9, Zenon DEF CleanOldFiles, Go
  <2>2. CASE run' = [run EXCEPT ![r].pc = "package"]
    BY <1>9, <2>2, Zenon DEF CleanOldFiles
  <2>3. CASE run' = [run EXCEPT ![r].pc = "compare", ![r].old = oldList,
                                ![r].new = newList]
    BY <1>9, <2>3, Zenon DEF CleanOldFiles
  <2> QED
    BY <2>1, <2>2, <2>3, Zenon
<1>10. CASE ComparePaths(r)
  <2>1. UNCHANGED lockVars
    BY <1>10, Zenon DEF ComparePaths
  <2>2. ASSUME NEW old, NEW new, run' = [run EXCEPT ![r].new = new, ![r].old = old]
        PROVE  Moves(r)
    BY <2>1, <2>2, Zenon
  <2>3. ASSUME NEW old, run' = [run EXCEPT ![r].old = old]
        PROVE  Moves(r)
    BY <2>1, <2>3, Zenon
  <2>4. \/ \E old, new : run' = [run EXCEPT ![r].new = new, ![r].old = old]
        \/ \E old : run' = [run EXCEPT ![r].old = old]
    BY <1>10, Zenon DEF ComparePaths
  <2> QED
    BY <2>2, <2>3, <2>4, Zenon
<1>11. CASE RenameList(r)
  BY <1>11, Zenon DEF RenameList
<1>12. CASE RunKatiPackage(r)
  BY <1>12, Zenon DEF RunKatiPackage, Go
<1>13. CASE SaveSuffix(r)
  BY <1>13, Zenon DEF SaveSuffix, Go
<1>14. CASE LoadSuffix(r)
  BY <1>14, Zenon DEF LoadSuffix
<1>15. CASE CreateCombined(r)
  <2>1. \E pc \in {"ninja", "write_combined"} : run' = [run EXCEPT ![r].pc = pc]
    BY <1>15, Zenon DEF CreateCombined, Go
  <2> QED
    BY <1>15, <2>1, Zenon DEF CreateCombined
<1>16. CASE WriteCombined(r)
  BY <1>16, Zenon DEF WriteCombined, Go
<1>17. CASE CheckConfig(r)
  BY <1>17, Zenon DEF CheckConfig, Go
<1>18. CASE InstallCleaned(r)
  <2>1. \E pc \in {"unlock", "ninja"} : run' = [run EXCEPT ![r].pc = pc]
    BY <1>18, Zenon DEF InstallCleaned, Go
  <2> QED
    BY <1>18, <2>1, ZenonT(40) DEF InstallCleaned
<1>19. CASE NinjaDone(r)
  BY <1>19, Zenon DEF NinjaDone, Go
<1> QED
  BY <1>1, <1>2, <1>3, <1>4, <1>5, <1>6, <1>7, <1>8, <1>9, <1>10, <1>11, <1>12, <1>13, <1>14,
     <1>15, <1>16, <1>17, <1>18, <1>19, Zenon

\* The start of a process is one too.
LEMMA StartMoves ==
    ASSUME LockInv, NEW r \in Runs, NEW command, NEW config, Start(r, command, config)
    PROVE  Moves(r)
<1>1. DOMAIN Idle = Fields
  BY Zenon DEF Idle, Fields
<1> QED
  BY <1>1, Zenon DEF Start, Moves, LockInv, Building, Waiting, Alive, At, Idle, lockVars

\* Every step keeps the invariant.
LEMMA LockInvNext == LockInv /\ [Next]_vars => LockInv'
<1> SUFFICES ASSUME LockInv, [Next]_vars
             PROVE  LockInv'
  BY Zenon
<1>1. CASE UNCHANGED vars
  BY <1>1, StutterKeepsLock, Zenon DEF vars
<1>2. CASE EditSources
  BY <1>2, StutterKeepsLock, Zenon DEF EditSources
<1>3. ASSUME NEW r \in Runs, NEW command, NEW config, Start(r, command, config)
      PROVE  LockInv'
  BY <1>3, StartMoves, MovesKeepLock, Zenon
<1>4. ASSUME NEW r \in Runs, Die(r) \/ Unlock(r)
      PROVE  LockInv'
  BY <1>4, EndKeepsLock, Zenon
<1>5. ASSUME NEW r \in Runs, Step(r)
      PROVE  LockInv'
  <2>1. CASE InstallClean(r) \/ \E f \in Files : NinjaInstall(r, f)
    BY <2>1, StutterKeepsLock, Zenon DEF InstallClean, NinjaInstall
  <2>2. CASE NewLock(r)
    BY <1>5, <2>2, NewLockKeepsLock, Zenon
  <2>3. CASE TryLock(r)
    BY <1>5, <2>3, TryLockKeepsLock, Zenon
  <2>4. CASE Unlock(r)
    BY <1>4, <1>5, <2>4, Zenon
  <2> QED
    BY <1>5, <2>1, <2>2, <2>3, <2>4, BuildStepsMove, MovesKeepLock, Zenon DEF Step
<1> QED
  BY <1>1, <1>2, <1>3, <1>4, <1>5, Zenon DEF Next

(***************************************************************************)
(* BecomeSingletonOrFail does what it is for as long as .lock is the same  *)
(* file: no two processes are both between it and the end of Build.        *)
(***************************************************************************)
THEOREM OutDirOneProcess == Spec => []OneProcessPerLockFile
<1>1. LockInv => OneProcessPerLockFile
  BY Zenon DEF LockInv, OneProcessPerLockFile, OneProcess
<1> QED
  BY LockInvInit, LockInvNext, <1>1, PTL DEF Spec
-----------------------------------------------------------------------------
AllCommands == {"build", "skip_ninja", "skip_kati", "installclean", "clean"}

KatiCommands == {"build", "skip_ninja"}

Lists == {NoList} \cup (SUBSET Files)

PCs ==
    {"new", "log", "rotate", "open_lock", "lock", "kati", "load_suffix", "installclean", "clean",
     "clean_rest", "old_files", "compare", "package", "suffix", "combined", "write_combined",
     "config", "ninja", "unlock", "done"}

RunType ==
    [pc : PCs, command : AllCommands \cup {"none"}, config : Configs \cup {"none"},
     rename : -1 .. MaxBackups - 1, file : Nat, suffix : KatiSuffixes \cup {"none"},
     old : SUBSET Files, new : SUBSET Files]

\* A command takes its process only to some of the steps.
Fits(pc, command) ==
    /\ pc \in {"kati", "old_files", "compare", "package", "suffix"} => command \in KatiCommands
    /\ pc = "load_suffix" => command = "skip_kati"
    /\ pc = "config" => command = "build"
    /\ pc = "ninja" => command \in {"build", "skip_kati"}
    /\ pc = "installclean" => command \in {"build", "installclean"}
    /\ pc \in {"clean", "clean_rest"} => command = "clean"

\* What the user has asked for: kati needs a configuration.
Asked(x) ==
    /\ x.command \in KatiCommands => x.config \in Configs \ {"none"}
    /\ x.command = "none" => x.pc \in {"new", "done"}
    /\ Fits(x.pc, x.command)

KatiType == [of : Configs \cup {"none"}, list : SUBSET Files, packaged : BOOLEAN]

TypeInv ==
    /\ revision \in 1 .. Len(Revisions)
    /\ run \in [Runs -> RunType]
    /\ \A r \in Runs : Asked(run[r])
    /\ lockFile \in Nat /\ lockFiles \in Nat
    /\ kati \in [KatiSuffixes -> KatiType]
    /\ combined \in [KatiSuffixes \cup {"none"} -> {"none", "cut", "whole"}]
    /\ lastSuffix \in KatiSuffixes \cup {"none"}
    /\ newList \in Lists /\ oldList \in Lists
    /\ prevConfig \in Configs \cup {"none"}
    /\ staged \in [Files -> Configs \cup {"none"}]
    /\ mixed \in BOOLEAN
    /\ logs \in [0 .. MaxBackups -> Nat]
    /\ created \in Nat

NotCleaned == lockFiles = 0 \/ (lockFiles = 1 /\ lockFile # 0)

\* The names below the one to rename are taken, the one above is free unless
\* it is the last.
Rotating(r) ==
    LET i == run[r].rename IN
    /\ logLock = r
    /\ i \in -1 .. MaxBackups - 1
    /\ \A k \in 0 .. i : logs[k] # 0
    /\ i < MaxBackups - 1 => logs[i + 1] = 0

LogsOrdered ==
    /\ \A i \in 0 .. MaxBackups : logs[i] <= created
    /\ \A i, k \in 0 .. MaxBackups : i < k /\ logs[k] # 0 => logs[i] = 0 \/ logs[i] > logs[k]

NewestKept ==
    \A n \in 1 .. created : n > created - MaxBackups => \E i \in 0 .. MaxBackups : logs[i] = n

LogInv ==
    /\ LogsOrdered
    /\ NotCleaned =>
        /\ NewestKept
        /\ \A r \in Runs : At(r, "rotate") => Rotating(r)
        /\ \A r \in Runs : ~ At(r, "clean_rest")

AfterPackage == {"suffix", "combined", "write_combined", "config", "installclean", "ninja", "unlock"}
AfterLists == AfterPackage \cup {"package"}
AfterKati == AfterLists \cup {"old_files", "compare"}

\* What was installed is of prevConfig and on the list of the last comparison.
StagedAsListed ==
    \A f \in Files : staged[f] # "none" => staged[f] = prevConfig /\ f \in oldList

\* What last_kati_suffix names is complete.
SuffixComplete ==
    /\ \A s \in KatiSuffixes : kati[s].packaged => kati[s].of # "none"
    /\ lastSuffix # "none" => kati[lastSuffix].packaged

\* What who has run kati may rely on.
KatiRan(r) ==
    LET s == run[r].suffix IN
    run[r].command \in KatiCommands =>
        /\ run[r].pc \in AfterKati => s = SuffixOf[run[r].config] /\ kati[s].of = run[r].config
        /\ run[r].pc \in {"old_files", "compare"} => newList = kati[s].list
        /\ run[r].pc \in AfterLists => oldList = kati[s].list
        /\ run[r].pc \in AfterPackage => kati[s].packaged

\* The files ninja is given.
InputsExist(r) ==
    LET s == run[r].suffix IN
    /\ run[r].pc \in {"combined", "write_combined", "ninja"} /\ s # "none" => kati[s].packaged
    /\ run[r].pc \in {"config", "installclean", "ninja"} /\ run[r].command = "build" => combined[s] = "whole"
    /\ run[r].pc = "ninja" => combined[s] # "none"

\* While the lists are compared, and when a build is over.
Staging(r) ==
    /\ run[r].pc = "compare" =>
        /\ run[r].new \subseteq newList
        /\ ~ mixed => \A f \in Files : staged[f] # "none" => f \in newList \cup run[r].old
    /\ run[r].pc = "ninja" /\ run[r].command = "build" => prevConfig = run[r].config
    /\ run[r].pc = "unlock" /\ run[r].command = "build" /\ ~ mixed =>
        staged = [f \in Files |-> IF f \in kati[run[r].suffix].list THEN run[r].config ELSE "none"]

Progress(r) == KatiRan(r) /\ InputsExist(r) /\ Staging(r)

BuildInv ==
    lockFiles < 2 =>
        /\ SuffixComplete
        /\ ~ mixed => StagedAsListed
        /\ \A r \in Runs : Building(r) => Progress(r)

\* Every set of numbers that is not empty has a least one.
LEMMA LeastNumber ==
    ASSUME NEW T \in SUBSET Nat, T # {}
    PROVE  \E m \in T : \A n \in T : m <= n
<1> DEFINE R == OpToRel(<, Nat)
<1>1. IsWellFoundedOn(R, Nat)
  BY NatLessThanWellFounded, Zenon
<1>2. \A x, y \in Nat : x < y => <<x, y>> \in R
  BY Zenon DEF OpToRel
<1> HIDE DEF R
<1>3. PICK x \in T : \A y \in T : ~ (<<y, x>> \in R)
  <2>1. \E x \in T : \A y \in T : ~ (<<y, x>> \in R)
    BY <1>1, WFMin, Zenon
  <2> QED
    BY <2>1, Zenon
<1>4. \A y \in T : ~ (y < x)
  BY <1>2, <1>3, Zenon
<1> QED
  BY <1>4, SMTT(30)

\* What fileRotation's recursion finds: the names up to the last one it
\* renames are taken, and the next is free or the last.
LEMMA LastToRotateIs ==
    ASSUME logs \in [0 .. MaxBackups -> Nat]
    PROVE  /\ LastToRotate \in -1 .. MaxBackups - 1
           /\ \A k \in 0 .. LastToRotate : logs[k] # 0
           /\ LastToRotate < MaxBackups - 1 => logs[LastToRotate + 1] = 0
<1> DEFINE Free == {i \in 0 .. MaxBackups : i = MaxBackups \/ logs[i] = 0}
           P(i) == /\ i = MaxBackups \/ logs[i] = 0
                   /\ \A k \in 0 .. i - 1 : logs[k] # 0
<1>1. MaxBackups \in Nat /\ MaxBackups > 0
  BY BackupsAssumption, SMTT(30)
<1>2. Free \in SUBSET Nat /\ MaxBackups \in Free
  BY <1>1, SMTT(30)
<1>3. PICK m \in Free : \A n \in Free : m <= n
  <2> HIDE DEF Free
  <2> QED
    BY <1>2, LeastNumber, Zenon
<1>4. m \in 0 .. MaxBackups /\ P(m)
  BY <1>1, <1>3, SMTT(30)
<1>5. FirstFree(MaxBackups) \in 0 .. MaxBackups /\ P(FirstFree(MaxBackups))
  <2>1. FirstFree(MaxBackups) = CHOOSE i \in 0 .. MaxBackups : P(i)
    BY Zenon DEF FirstFree
  <2> HIDE DEF P
  <2> QED
    BY <1>4, <2>1, Zenon
<1> DEFINE F == FirstFree(MaxBackups)
<1>6. LastToRotate = F - 1
  BY Zenon DEF LastToRotate
<1>7. F \in 0 .. MaxBackups /\ P(F)
  BY <1>5, Zenon
<1> HIDE DEF F
<1> QED
  BY <1>1, <1>6, <1>7, SMTT(30)

\* The head of a sorted list is in the list.
LEMMA FirstIsListed ==
    ASSUME NEW list \in SUBSET Files, list # {}
    PROVE  First(list) \in list
<1> DEFINE I == {i \in DOMAIN Paths : Paths[i] \in list}
           P(i) == Paths[i] \in list /\ \A k \in 1 .. i - 1 : Paths[k] \notin list
<1>1. DOMAIN Paths = 1 .. Len(Paths) /\ Len(Paths) \in Nat
  <2>1. Paths \in Seq(Files)
    BY PathsAssumption, Zenon
  <2> HIDE DEF Files
  <2> QED
    BY <2>1, SMTT(30)
<1>2. I \in SUBSET Nat /\ I # {}
  BY <1>1, SMTT(30) DEF Files
<1>3. PICK m \in I : \A n \in I : m <= n
  <2> HIDE DEF I
  <2> QED
    BY <1>2, LeastNumber, Zenon
<1>4. m \in DOMAIN Paths /\ P(m)
  BY <1>1, <1>3, SMTT(30)
<1>5. P(CHOOSE i \in DOMAIN Paths : P(i))
  <2> HIDE DEF P
  <2> QED
    BY <1>4, Zenon
<1> QED
  BY <1>5, Zenon DEF First

\* A process that has not started or is over has the type of one.
LEMMA IdleType == Idle \in RunType /\ \A pc \in PCs : [Idle EXCEPT !.pc = pc] \in RunType
<1>1. 0 \in -1 .. MaxBackups - 1 /\ 0 \in Nat /\ {} \in SUBSET Files
  BY BackupsAssumption, SMTT(30)
<1>2. /\ "none" \in AllCommands \cup {"none"}
      /\ "none" \in Configs \cup {"none"}
      /\ "none" \in KatiSuffixes \cup {"none"}
  BY Zenon
<1>3. \A pc \in PCs :
          [pc |-> pc, command |-> "none", config |-> "none", rename |-> 0, file |-> 0,
           suffix |-> "none", old |-> {}, new |-> {}] \in RunType
  BY <1>1, <1>2, Zenon DEF RunType
<1>4. \A pc : [Idle EXCEPT !.pc = pc] =
          [pc |-> pc, command |-> "none", config |-> "none", rename |-> 0, file |-> 0,
           suffix |-> "none", old |-> {}, new |-> {}]
  BY SMTT(30) DEF Idle
<1>5. Idle \in RunType
  <2>1. "new" \in PCs
    BY Zenon DEF PCs
  <2> QED
    BY <2>1, <1>3, Zenon DEF Idle
<1> QED
  BY <1>3, <1>4, <1>5, ZenonT(40)

\* The invariant of types holds at first.
LEMMA TypeInit == Init => TypeInv
<1> SUFFICES ASSUME Init
             PROVE  TypeInv
  BY Zenon
<1>1. Idle \in RunType /\ Idle.command = "none" /\ Idle.pc = "new"
  <2>1. Idle.command = "none" /\ Idle.pc = "new"
    BY Zenon DEF Idle
  <2> QED
    BY <2>1, IdleType, Zenon
<1>2. run \in [Runs -> RunType] /\ \A r \in Runs : run[r] = Idle
  BY <1>1, Zenon DEF Init
<1>3. revision \in 1 .. Len(Revisions)
  <2>1. Revisions \in Seq([Configs -> SUBSET Files]) /\ Revisions # <<>>
    BY RevisionsAssumption, Zenon
  <2> HIDE DEF Files
  <2>2. Len(Revisions) \in Nat /\ Len(Revisions) # 0
    BY <2>1, SMTT(30)
  <2>3. revision = 1
    BY Zenon DEF Init
  <2> QED
    BY <2>2, <2>3, SMTT(30)
<1>4. NoKati \in KatiType
  BY Zenon DEF NoKati, KatiType
<1>5. kati \in [KatiSuffixes -> KatiType]
  BY <1>4, Zenon DEF Init
<1>6. newList \in Lists /\ oldList \in Lists
  BY Zenon DEF Init, Lists, NoList
<1>7. created \in Nat /\ logs \in [0 .. MaxBackups -> Nat]
  <2>1. created = MaxBackups + 1 /\ logs = [i \in 0 .. MaxBackups |-> created - i]
    BY Zenon DEF Init
  <2> QED
    BY <2>1, BackupsAssumption, SMTT(30)
<1> QED
  BY <1>1, <1>2, <1>3, <1>5, <1>6, <1>7, Zenon DEF TypeInv, Init, KatiCommands, Asked, Fits

\* A step of one process keeps the types if it keeps those of that process.
LEMMA ProcessTypes ==
    ASSUME TypeInv, NEW r \in Runs, NEW x \in RunType, run' = [run EXCEPT ![r] = x],
           Asked(x)
    PROVE  /\ run' \in [Runs -> RunType]
           /\ \A q \in Runs : Asked(run'[q])
           /\ run'[r] = x
           /\ \A q \in Runs : q # r => run'[q] = run[q]
  BY Zenon DEF TypeInv

\* The steps that change no more than what the process is at.
LEMMA GoTypes ==
    ASSUME TypeInv, NEW r \in Runs, NEW pc \in PCs, Alive(r), Go(r, pc),
           Fits(pc, run[r].command)
    PROVE  /\ run' \in [Runs -> RunType]
           /\ \A q \in Runs : Asked(run'[q])
           /\ run'[r] = [run[r] EXCEPT !.pc = pc]
           /\ \A q \in Runs : q # r => run'[q] = run[q]
<1> DEFINE x == [run[r] EXCEPT !.pc = pc]
<1>1. x \in RunType /\ x.command = run[r].command /\ x.config = run[r].config /\ x.pc = pc
  BY ZenonT(40) DEF TypeInv, RunType
<1>2. run' = [run EXCEPT ![r] = x]
  BY Zenon DEF Go
<1>3. Asked(x)
  BY <1>1, Zenon DEF TypeInv, Asked, Alive
<1> HIDE DEF x
<1>4. run'[r] = x
  BY <1>1, <1>2, <1>3, ProcessTypes, Zenon
<1> QED
  BY <1>1, <1>2, <1>3, <1>4, ProcessTypes, Zenon DEF x

\* The end of a process.
LEMMA DoneTypes ==
    ASSUME TypeInv, NEW r \in Runs, run' = [run EXCEPT ![r] = [Idle EXCEPT !.pc = "done"]]
    PROVE  /\ run' \in [Runs -> RunType]
           /\ \A q \in Runs : Asked(run'[q])
           /\ run'[r] = [Idle EXCEPT !.pc = "done"]
           /\ \A q \in Runs : q # r => run'[q] = run[q]
<1>1. /\ [Idle EXCEPT !.pc = "done"] \in RunType
      /\ [Idle EXCEPT !.pc = "done"].command = "none"
      /\ [Idle EXCEPT !.pc = "done"].pc = "done"
  <2>1. [Idle EXCEPT !.pc = "done"] \in RunType
    BY IdleType, Zenon DEF PCs
  <2>2. [Idle EXCEPT !.pc = "done"].command = "none" /\ [Idle EXCEPT !.pc = "done"].pc = "done"
    BY Zenon DEF Idle
  <2> QED
    BY <2>1, <2>2, Zenon
<1> QED
  BY <1>1, ProcessTypes, Zenon DEF KatiCommands, Asked, Fits

\* The lists of a revision are lists of files.
LEMMA RevisionLists ==
    ASSUME TypeInv, NEW c \in Configs
    PROVE  Revisions[revision][c] \in SUBSET Files
<1>1. Revisions \in Seq([Configs -> SUBSET Files])
  BY RevisionsAssumption, Zenon
<1>2. revision \in 1 .. Len(Revisions)
  BY Zenon DEF TypeInv
<1> HIDE DEF Files
<1>3. Revisions[revision] \in [Configs -> SUBSET Files]
  BY <1>1, <1>2, SMTT(30)
<1> QED
  BY <1>3, Zenon

\* A step that replaces the state of one process by x and leaves the types of
\* the rest.
TypedStep(r, x) ==
    /\ run' = [run EXCEPT ![r] = x]
    /\ x \in RunType
    /\ x.command = run[r].command /\ x.config = run[r].config
    /\ Alive(r) /\ Fits(x.pc, run[r].command)

\* Such a step keeps the types of the processes.
LEMMA TypedRun ==
    ASSUME TypeInv, NEW r \in Runs, NEW x, TypedStep(r, x)
    PROVE  /\ run' \in [Runs -> RunType]
           /\ \A q \in Runs : Asked(run'[q])
           /\ run'[r] = x
           /\ \A q \in Runs : q # r => run'[q] = run[q]
<1>1. Asked(x)
  BY Zenon DEF TypedStep, TypeInv, Asked, Alive
<1> QED
  BY <1>1, ProcessTypes, Zenon DEF TypedStep

\* The logs' steps.
LEMMA LogTypes ==
    ASSUME TypeInv, NEW r \in Runs,
           LockLogs(r) \/ Rotate(r) \/ RotateFails(r) \/ CreateLog(r)
    PROVE  TypeInv'
<1> DEFINE Goal == run' \in [Runs -> RunType] /\ \A q \in Runs : Asked(run'[q])
<1>0. Alive(r) /\ Fits("rotate", run[r].command) /\ Fits("open_lock", run[r].command)
  BY Zenon DEF LockLogs, Rotate, RotateFails, CreateLog, At, Alive, Fits
<1>1. run[r] \in RunType /\ run \in [Runs -> RunType]
  BY Zenon DEF TypeInv
<1>2. CASE LockLogs(r)
  <2> DEFINE x == [run[r] EXCEPT !.pc = "rotate", !.rename = LastToRotate]
  <2>1. LastToRotate \in -1 .. MaxBackups - 1
    BY LastToRotateIs, Zenon DEF TypeInv
  <2>2. run' = [run EXCEPT ![r].pc = "rotate", ![r].rename = LastToRotate]
    BY <1>2, Zenon DEF LockLogs
  <2>3. TypedStep(r, x)
    BY <1>0, <1>1, <2>1, <2>2, ZenonT(40) DEF TypedStep, RunType, PCs
  <2>4. Goal
    BY <2>3, TypedRun, Zenon
  <2> QED
    BY <1>2, <2>4, Zenon DEF TypeInv, LockLogs, lockVars, ninjaVars, installVars
<1>3. CASE Rotate(r)
  <2> DEFINE i == run[r].rename
             x == [run[r] EXCEPT !.rename = i - 1]
  <2>1. /\ i \in 0 .. MaxBackups - 1 /\ run[r].pc = "rotate"
        /\ run' = [run EXCEPT ![r].rename = i - 1]
    BY <1>1, <1>3, BackupsAssumption, SMTT(30) DEF Rotate, RunType, At
  <2>2. i - 1 \in -1 .. MaxBackups - 1
    BY <2>1, BackupsAssumption, SMTT(30)
  <2>3. TypedStep(r, x)
    BY <1>0, <1>1, <2>1, <2>2, Zenon DEF TypedStep, RunType
  <2>4. Goal
    BY <2>3, TypedRun, Zenon
  <2>5. logs' = [logs EXCEPT ![i + 1] = logs[i], ![i] = 0] /\ logs \in [0 .. MaxBackups -> Nat]
    BY <1>3, Zenon DEF Rotate, TypeInv
  <2>6. logs' \in [0 .. MaxBackups -> Nat]
    <3> HIDE DEF i
    <3> QED
      BY <2>1, <2>5, BackupsAssumption, SMTT(30)
  <2> QED
    BY <1>3, <2>4, <2>6, Zenon DEF TypeInv, Rotate, lockVars, ninjaVars, installVars
<1>4. CASE RotateFails(r)
  <2>1. Goal
    <3>1. CASE run[r].rename = 0
      <4>1. run' = [run EXCEPT ![r] = [Idle EXCEPT !.pc = "done"]]
        BY <1>4, <3>1, Zenon DEF RotateFails
      <4> QED
        BY <4>1, DoneTypes, Zenon
    <3>2. CASE run[r].rename # 0
      <4> DEFINE i == run[r].rename
                 x == [run[r] EXCEPT !.rename = i - 1]
      <4>1. i \in 0 .. MaxBackups - 1 /\ run[r].pc = "rotate" /\ run' = [run EXCEPT ![r] = x]
        BY <1>1, <1>4, <3>2, BackupsAssumption, SMTT(30) DEF RotateFails, RunType, At
      <4>2. i - 1 \in -1 .. MaxBackups - 1
        BY <4>1, BackupsAssumption, SMTT(30)
      <4>3. TypedStep(r, x)
        BY <1>0, <1>1, <4>1, <4>2, Zenon DEF TypedStep, RunType
      <4> QED
        BY <4>3, TypedRun, Zenon
    <3> QED
      BY <3>1, <3>2, Zenon
  <2> QED
    BY <1>4, <2>1, Zenon DEF TypeInv, RotateFails, lockVars, ninjaVars, installVars
<1>5. CASE CreateLog(r)
  <2> DEFINE x == [run[r] EXCEPT !.pc = "open_lock", !.rename = 0]
  <2>1. /\ run' = [run EXCEPT ![r].pc = "open_lock", ![r].rename = 0]
        /\ created' = created + 1
        /\ logs' = [logs EXCEPT ![0] = created + 1]
    BY <1>5, Zenon DEF CreateLog
  <2>2. 0 \in -1 .. MaxBackups - 1
    BY BackupsAssumption, SMTT(30)
  <2>3. TypedStep(r, x)
    BY <1>0, <1>1, <2>1, <2>2, Zenon DEF TypedStep, RunType, PCs
  <2>4. Goal
    BY <2>3, TypedRun, Zenon
  <2>5. created \in Nat /\ logs \in [0 .. MaxBackups -> Nat]
    BY Zenon DEF TypeInv
  <2>6. created' \in Nat /\ logs' \in [0 .. MaxBackups -> Nat]
    <3>1. created + 1 \in Nat
      BY <2>5, SMTT(30)
    <3>2. [logs EXCEPT ![0] = created + 1] \in [0 .. MaxBackups -> Nat]
      BY <2>5, <3>1, Zenon
    <3> QED
      BY <2>1, <3>1, <3>2, Zenon
  <2> QED
    BY <1>5, <2>4, <2>6, Zenon DEF TypeInv, CreateLog, lockVars, ninjaVars, installVars
<1> QED
  BY <1>2, <1>3, <1>4, <1>5, Zenon

\* The steps of the lock, and the beginning and the end of a process.
LEMMA LockTypes ==
    ASSUME TypeInv, NEW r \in Runs,
           NewLock(r) \/ TryLock(r) \/ LockTimeout(r) \/ Unlock(r) \/ Die(r)
    PROVE  TypeInv'
<1>1. run[r] \in RunType /\ run \in [Runs -> RunType]
  BY Zenon DEF TypeInv
<1>0. Alive(r)
  BY Zenon DEF NewLock, TryLock, LockTimeout, Unlock, Die, At, Alive
<1>5. Fits("lock", run[r].command)
  BY Zenon DEF Fits
<1>2. CASE NewLock(r)
  <2> DEFINE file == IF lockFile = 0 THEN lockFiles + 1 ELSE lockFile
             x == [run[r] EXCEPT !.pc = "lock", !.file = file]
  <2>1. /\ run' = [run EXCEPT ![r].pc = "lock", ![r].file = file]
        /\ lockFile' = file
        /\ lockFiles' = IF lockFile = 0 THEN file ELSE lockFiles
    BY <1>2, Zenon DEF NewLock
  <2>2. file \in Nat
    BY SMTT(30) DEF TypeInv
  <2>3. lockFile' \in Nat /\ lockFiles' \in Nat
    BY <2>1, <2>2, Zenon DEF TypeInv
  <2> HIDE DEF file
  <2>4. TypedStep(r, x)
    BY <1>0, <1>1, <1>5, <2>1, <2>2, Zenon DEF TypedStep, RunType, PCs
  <2> HIDE DEF x
  <2> QED
    BY <1>2, <2>3, <2>4, TypedRun, Zenon
    DEF TypeInv, NewLock, ninjaVars, installVars, logVars
<1>3. CASE TryLock(r)
  <2>1. run[r].command \in AllCommands
    BY <1>0, <1>1, Zenon DEF TypeInv, RunType, Asked, Alive
  <2>2. AfterLock(run[r].command) \in PCs /\ Fits(AfterLock(run[r].command), run[r].command)
    BY <2>1, Zenon DEF AfterLock, AllCommands, PCs, Fits, KatiCommands
  <2>3. Go(r, AfterLock(run[r].command))
    BY <1>3, Zenon DEF TryLock
  <2> QED
    BY <1>0, <1>3, <2>2, <2>3, GoTypes, Zenon DEF TypeInv, TryLock, ninjaVars, installVars, logVars
<1>4. CASE LockTimeout(r) \/ Unlock(r) \/ Die(r)
  <2>1. run' = [run EXCEPT ![r] = [Idle EXCEPT !.pc = "done"]]
    BY <1>4, Zenon DEF LockTimeout, Unlock, Die
  <2> QED
    BY <1>4, <2>1, DoneTypes, Zenon
    DEF TypeInv, LockTimeout, Unlock, Die, lockVars, ninjaVars, installVars, logVars
<1> QED
  BY <1>2, <1>3, <1>4, Zenon

\* The steps of a build that only go on to another step.
LEMMA PlainTypes ==
    ASSUME TypeInv, NEW r \in Runs,
           \/ RemoveLock(r) \/ RemoveRest(r) \/ RunKatiPackage(r) \/ SaveSuffix(r)
           \/ CreateCombined(r) \/ WriteCombined(r) \/ CheckConfig(r) \/ InstallCleaned(r)
           \/ NinjaDone(r)
    PROVE  TypeInv'
<1> DEFINE Goal == run' \in [Runs -> RunType] /\ \A q \in Runs : Asked(run'[q])
<1>0. run[r] \in RunType /\ Asked(run[r])
  BY Zenon DEF TypeInv
<1>a. ASSUME NEW pc \in PCs, Go(r, pc), Alive(r), Fits(pc, run[r].command)
      PROVE  Goal
  BY <1>a, GoTypes, Zenon
<1>1. CASE RemoveLock(r)
  <2>1. Alive(r) /\ Go(r, "clean_rest") /\ Fits("clean_rest", run[r].command)
    BY <1>0, <1>1, Zenon DEF RemoveLock, At, Alive, Fits, Asked
  <2>2. Goal
    BY <1>a, <2>1, Zenon DEF PCs
  <2>3. lockFile' \in Nat
    BY <1>1, Zenon DEF RemoveLock
  <2> QED
    BY <1>1, <2>2, <2>3, Zenon DEF TypeInv, RemoveLock, ninjaVars, installVars, logVars
<1>2. CASE RemoveRest(r)
  <2>1. Alive(r) /\ Go(r, "unlock") /\ Fits("unlock", run[r].command)
    BY <1>2, Zenon DEF RemoveRest, At, Alive, Fits
  <2>2. Goal
    BY <1>a, <2>1, Zenon DEF PCs
  <2>3. NoKati \in KatiType
    BY Zenon DEF NoKati, KatiType
  <2>4. kati' \in [KatiSuffixes -> KatiType]
    BY <1>2, <2>3, Zenon DEF RemoveRest
  <2>5. combined' \in [KatiSuffixes \cup {"none"} -> {"none", "cut", "whole"}] /\ lastSuffix' = "none"
    BY <1>2, Zenon DEF RemoveRest, TypeInv
  <2>6. newList' \in Lists /\ oldList' \in Lists /\ prevConfig' = "none"
    BY <1>2, Zenon DEF RemoveRest, Lists
  <2>7. staged' \in [Files -> Configs \cup {"none"}]
    BY <1>2, Zenon DEF RemoveRest
  <2>8. logs' \in [0 .. MaxBackups -> Nat]
    BY <1>2, Zenon DEF RemoveRest, TypeInv
  <2> QED
    BY <1>2, <2>2, <2>4, <2>5, <2>6, <2>7, <2>8, Zenon DEF TypeInv, RemoveRest, lockVars
<1>3. CASE RunKatiPackage(r)
  <2>1. Alive(r) /\ Go(r, "suffix") /\ Fits("suffix", run[r].command)
    BY <1>0, <1>3, Zenon DEF RunKatiPackage, At, Alive, Fits, Asked
  <2>2. Goal
    BY <1>a, <2>1, Zenon DEF PCs
  <2>3. kati' \in [KatiSuffixes -> KatiType]
    BY <1>3, ZenonT(40) DEF RunKatiPackage, TypeInv, KatiType
  <2> QED
    BY <1>3, <2>2, <2>3, Zenon DEF TypeInv, RunKatiPackage, lockVars, installVars, logVars
<1>4. CASE SaveSuffix(r)
  <2>1. Alive(r) /\ Go(r, "combined") /\ Fits("combined", run[r].command)
    BY <1>4, Zenon DEF SaveSuffix, At, Alive, Fits
  <2>2. Goal
    BY <1>a, <2>1, Zenon DEF PCs
  <2>3. lastSuffix' \in KatiSuffixes \cup {"none"}
    BY <1>0, <1>4, Zenon DEF SaveSuffix, RunType
  <2> QED
    BY <1>4, <2>2, <2>3, Zenon DEF TypeInv, SaveSuffix, lockVars, installVars, logVars
<1>5. CASE CreateCombined(r)
  <2>1. Alive(r) /\ \E pc \in {"ninja", "write_combined"} : Go(r, pc) /\ Fits(pc, run[r].command)
    BY <1>5, Zenon DEF CreateCombined, At, Alive, Fits
  <2>2. Goal
    BY <1>a, <2>1, Zenon DEF PCs
  <2>3. combined' = combined \/ combined' = [combined EXCEPT ![run[r].suffix] = "cut"]
    BY <1>5, Zenon DEF CreateCombined
  <2>4. combined' \in [KatiSuffixes \cup {"none"} -> {"none", "cut", "whole"}]
    BY <2>3, Zenon DEF TypeInv
  <2> QED
    BY <1>5, <2>2, <2>4, Zenon DEF TypeInv, CreateCombined, lockVars, installVars, logVars
<1>6. CASE WriteCombined(r)
  <2>1. Alive(r) /\ \E pc \in {"config", "ninja", "unlock"} : Go(r, pc) /\ Fits(pc, run[r].command)
    BY <1>6, Zenon DEF WriteCombined, At, Alive, Fits
  <2>2. Goal
    BY <1>a, <2>1, Zenon DEF PCs
  <2>3. combined' \in [KatiSuffixes \cup {"none"} -> {"none", "cut", "whole"}]
    BY <1>6, Zenon DEF WriteCombined, TypeInv
  <2> QED
    BY <1>6, <2>2, <2>3, Zenon DEF TypeInv, WriteCombined, lockVars, installVars, logVars
<1>7. CASE CheckConfig(r)
  <2>1. Alive(r) /\ \E pc \in {"ninja", "installclean"} : Go(r, pc) /\ Fits(pc, run[r].command)
    BY <1>0, <1>7, Zenon DEF CheckConfig, At, Alive, Fits, Asked
  <2>2. Goal
    BY <1>a, <2>1, Zenon DEF PCs
  <2>3. prevConfig' \in Configs \cup {"none"}
    BY <1>0, <1>7, Zenon DEF CheckConfig, TypeInv, RunType
  <2> QED
    BY <1>7, <2>2, <2>3, Zenon DEF TypeInv, CheckConfig, lockVars, ninjaVars, logVars
<1>8. CASE InstallCleaned(r)
  <2>1. Alive(r) /\ \E pc \in {"unlock", "ninja"} : Go(r, pc) /\ Fits(pc, run[r].command)
    BY <1>0, <1>8, Zenon DEF InstallCleaned, At, Alive, Fits, Asked
  <2>2. Goal
    BY <1>a, <2>1, Zenon DEF PCs
  <2>3. prevConfig' \in Configs \cup {"none"}
    BY <1>0, <1>8, Zenon DEF InstallCleaned, TypeInv, RunType
  <2> QED
    BY <1>8, <2>2, <2>3, Zenon DEF TypeInv, InstallCleaned, lockVars, ninjaVars, logVars
<1>9. CASE NinjaDone(r)
  <2>1. Alive(r) /\ Go(r, "unlock") /\ Fits("unlock", run[r].command)
    BY <1>9, Zenon DEF NinjaDone, At, Alive, Fits
  <2>2. Goal
    BY <1>a, <2>1, Zenon DEF PCs
  <2> QED
    BY <1>9, <2>2, Zenon DEF TypeInv, NinjaDone, lockVars, ninjaVars, installVars, logVars
<1> QED
  BY <1>1, <1>2, <1>3, <1>4, <1>5, <1>6, <1>7, <1>8, <1>9, Zenon

\* The steps around kati.
LEMMA KatiTypes ==
    ASSUME TypeInv, NEW r \in Runs,
           RunKati(r) \/ CleanOldFiles(r) \/ ComparePaths(r) \/ RenameList(r) \/ LoadSuffix(r)
    PROVE  TypeInv'
<1> DEFINE Goal == run' \in [Runs -> RunType] /\ \A q \in Runs : Asked(run'[q])
<1>0. /\ run[r] \in RunType /\ run \in [Runs -> RunType] /\ Asked(run[r])
      /\ newList \in Lists /\ oldList \in Lists
  BY Zenon DEF TypeInv
<1>1. Alive(r)
  BY Zenon DEF RunKati, CleanOldFiles, ComparePaths, RenameList, LoadSuffix, At, Alive
<1>2. CASE RunKati(r)
  <2> DEFINE c == run[r].config
             list == Revisions[revision][c]
             x == [run[r] EXCEPT !.pc = "old_files", !.suffix = SuffixOf[c]]
  <2>1. run[r].command \in KatiCommands /\ c \in Configs
    BY <1>0, <1>2, Zenon DEF RunKati, At, Asked, Fits
  <2>2. list \in SUBSET Files /\ SuffixOf[c] \in KatiSuffixes
    BY <2>1, RevisionLists, SuffixAssumption, Zenon
  <2>3. /\ run' = [run EXCEPT ![r].pc = "old_files", ![r].suffix = SuffixOf[c]]
        /\ kati' = [kati EXCEPT ![SuffixOf[c]].of = c, ![SuffixOf[c]].list = list]
        /\ newList' = list
    BY <1>2, Zenon DEF RunKati
  <2>4. Fits("old_files", run[r].command)
    BY <2>1, Zenon DEF Fits
  <2> HIDE DEF list, c
  <2>5. TypedStep(r, x)
    BY <1>0, <1>1, <2>2, <2>3, <2>4, Zenon DEF TypedStep, RunType, PCs, c
  <2>6. Goal
    BY <2>5, TypedRun, Zenon
  <2>7. kati' \in [KatiSuffixes -> KatiType]
    BY <2>1, <2>2, <2>3, SMTT(30) DEF TypeInv, KatiType
  <2>8. newList' \in Lists
    BY <2>2, <2>3, Zenon DEF Lists
  <2> QED
    BY <1>2, <2>6, <2>7, <2>8, Zenon DEF TypeInv, RunKati, lockVars, logVars
<1>3. CASE CleanOldFiles(r)
  <2>1. run[r].command \in KatiCommands
    BY <1>0, <1>3, Zenon DEF CleanOldFiles, At, Asked, Fits
  <2>2. Fits("package", run[r].command) /\ Fits("compare", run[r].command)
    BY <2>1, Zenon DEF Fits
  <2>3. CASE Go(r, "package")
    <3>1. Goal
      BY <1>1, <2>2, <2>3, GoTypes, Zenon DEF PCs
    <3>2. newList' \in Lists /\ oldList' \in Lists
      BY <1>0, <1>3, Zenon DEF CleanOldFiles, Lists
    <3> QED
      BY <1>3, <3>1, <3>2, Zenon DEF TypeInv, CleanOldFiles, lockVars, ninjaVars, logVars
  <2>4. CASE ~ Go(r, "package")
    <3> DEFINE x == [run[r] EXCEPT !.pc = "compare", !.old = oldList, !.new = newList]
    <3>1. /\ newList # NoList /\ oldList # NoList
          /\ UNCHANGED <<newList, oldList>>
          /\ run' = [run EXCEPT ![r].pc = "compare", ![r].old = oldList, ![r].new = newList]
      BY <1>3, <2>4, Zenon DEF CleanOldFiles
    <3>2. newList \in SUBSET Files /\ oldList \in SUBSET Files
      BY <1>0, <3>1, Zenon DEF Lists
    <3>3. TypedStep(r, x)
      BY <1>0, <1>1, <2>2, <3>1, <3>2, ZenonT(40) DEF TypedStep, RunType, PCs
    <3>4. Goal
      BY <3>3, TypedRun, Zenon
    <3> QED
      BY <1>3, <3>1, <3>4, Zenon DEF TypeInv, CleanOldFiles, lockVars, ninjaVars, logVars
  <2> QED
    BY <2>3, <2>4, Zenon
<1>4. CASE ComparePaths(r)
  <2> DEFINE old == run[r].old
             new == run[r].new
  <2>1. old \in SUBSET Files /\ new \in SUBSET Files /\ run[r].pc = "compare"
    BY <1>0, <1>4, Zenon DEF RunType, ComparePaths, At
  <2>2. Fits("compare", run[r].command)
    BY <1>0, <2>1, Zenon DEF Asked
  <2>3. /\ \/ run' = [run EXCEPT ![r].new = new \ {First(new)}, ![r].old = old \ {First(new)}]
           \/ run' = [run EXCEPT ![r].old = old \ {First(old)}]
        /\ staged' = staged \/ staged' = [staged EXCEPT ![First(old)] = "none"]
    BY <1>4, Zenon DEF ComparePaths
  <2>4. ASSUME NEW o \in SUBSET Files, NEW n \in SUBSET Files,
               run' = [run EXCEPT ![r].new = n, ![r].old = o]
        PROVE  Goal
    <3> DEFINE x == [run[r] EXCEPT !.new = n, !.old = o]
    <3>1. TypedStep(r, x)
      BY <1>0, <1>1, <2>1, <2>2, <2>4, Zenon DEF TypedStep, RunType
    <3> QED
      BY <3>1, TypedRun, Zenon
  <2>5. ASSUME NEW o \in SUBSET Files, run' = [run EXCEPT ![r].old = o]
        PROVE  Goal
    <3> DEFINE x == [run[r] EXCEPT !.old = o]
    <3>1. TypedStep(r, x)
      BY <1>0, <1>1, <2>1, <2>2, <2>5, Zenon DEF TypedStep, RunType
    <3> QED
      BY <3>1, TypedRun, Zenon
  <2>6. Goal
    <3> HIDE DEF Goal
    <3>1. /\ new \ {First(new)} \in SUBSET Files /\ old \ {First(new)} \in SUBSET Files
          /\ old \ {First(old)} \in SUBSET Files
      BY <2>1, Zenon
    <3> QED
      BY <2>3, <2>4, <2>5, <3>1, Zenon
  <2>7. staged' \in [Files -> Configs \cup {"none"}]
    <3>1. staged \in [Files -> Configs \cup {"none"}]
      BY Zenon DEF TypeInv
    <3>2. [staged EXCEPT ![First(old)] = "none"] \in [Files -> Configs \cup {"none"}]
      BY <3>1, Zenon
    <3> QED
      BY <2>3, <3>1, <3>2, Zenon
  <2> QED
    BY <1>4, <2>6, <2>7, Zenon DEF TypeInv, ComparePaths, lockVars, ninjaVars, logVars
<1>5. CASE RenameList(r)
  <2> DEFINE x == [run[r] EXCEPT !.pc = "package", !.new = {}]
  <2>1. Fits("package", run[r].command)
    BY <1>0, <1>5, Zenon DEF RenameList, At, Asked, Fits
  <2>2. run' = [run EXCEPT ![r].pc = "package", ![r].new = {}]
    BY <1>5, Zenon DEF RenameList
  <2>3. TypedStep(r, x)
    BY <1>0, <1>1, <2>1, <2>2, Zenon DEF TypedStep, RunType, PCs
  <2>4. Goal
    BY <2>3, TypedRun, Zenon
  <2>5. newList' \in Lists /\ oldList' \in Lists
    BY <1>0, <1>5, Zenon DEF RenameList, Lists
  <2> QED
    BY <1>5, <2>4, <2>5, Zenon DEF TypeInv, RenameList, lockVars, ninjaVars, logVars
<1>6. CASE LoadSuffix(r)
  <2> DEFINE x == [run[r] EXCEPT !.pc = "combined", !.suffix = lastSuffix]
  <2>1. Fits("combined", run[r].command)
    BY Zenon DEF Fits
  <2>2. run' = [run EXCEPT ![r].pc = "combined", ![r].suffix = lastSuffix]
    BY <1>6, Zenon DEF LoadSuffix
  <2>3. lastSuffix \in KatiSuffixes \cup {"none"}
    BY Zenon DEF TypeInv
  <2>4. TypedStep(r, x)
    BY <1>0, <1>1, <2>1, <2>2, <2>3, Zenon DEF TypedStep, RunType, PCs
  <2>5. Goal
    BY <2>4, TypedRun, Zenon
  <2> QED
    BY <1>6, <2>5, Zenon DEF TypeInv, LoadSuffix, lockVars, ninjaVars, installVars, logVars
<1> QED
  BY <1>2, <1>3, <1>4, <1>5, <1>6, Zenon

\* What ninja reads is typed.
LEMMA GraphType ==
    ASSUME TypeInv, NEW r \in Runs
    PROVE  Graph(r) \in KatiType
<1>1. NoKati \in KatiType
  BY Zenon DEF NoKati, KatiType
<1>2. run[r].suffix \in KatiSuffixes \cup {"none"}
  BY Zenon DEF TypeInv, RunType
<1> QED
  BY <1>1, <1>2, Zenon DEF Graph, TypeInv

\* The steps that leave the processes alone.
LEMMA StagedTypes ==
    ASSUME TypeInv, NEW r \in Runs, InstallClean(r) \/ \E f \in Files : NinjaInstall(r, f)
    PROVE  TypeInv'
<1>1. CASE InstallClean(r)
  <2>1. staged' \in [Files -> Configs \cup {"none"}]
    BY <1>1, Zenon DEF InstallClean, TypeInv
  <2> QED
    BY <1>1, <2>1, Zenon DEF InstallClean, TypeInv, lockVars, ninjaVars, logVars
<1>2. ASSUME NEW f \in Files, NinjaInstall(r, f)
      PROVE  TypeInv'
  <2>1. Graph(r).of \in Configs \cup {"none"}
    BY GraphType, Zenon DEF KatiType
  <2>2. staged' \in [Files -> Configs \cup {"none"}]
    BY <1>2, <2>1, Zenon DEF NinjaInstall, TypeInv
  <2>3. mixed' \in BOOLEAN
    BY <1>2, Zenon DEF NinjaInstall, TypeInv
  <2> QED
    BY <1>2, <2>2, <2>3, Zenon DEF NinjaInstall, TypeInv, lockVars, ninjaVars, logVars
<1> QED
  BY <1>1, <1>2, Zenon

\* Every step keeps the types.
LEMMA TypeNext == TypeInv /\ [Next]_vars => TypeInv'
<1> SUFFICES ASSUME TypeInv, [Next]_vars
             PROVE  TypeInv'
  BY Zenon
<1>1. CASE UNCHANGED vars
  BY <1>1, Zenon DEF vars, TypeInv, lockVars, ninjaVars, installVars, logVars
<1>2. CASE EditSources
  <2>1. revision' \in 1 .. Len(Revisions)
    <3>1. revision \in 1 .. Len(Revisions) /\ revision < Len(Revisions) /\ revision' = revision + 1
      BY <1>2, Zenon DEF EditSources, TypeInv
    <3>2. Len(Revisions) \in Nat
      <4>1. Revisions \in Seq([Configs -> SUBSET Files])
        BY RevisionsAssumption, Zenon
      <4> HIDE DEF Files
      <4> QED
        BY <4>1, SMTT(30)
    <3> QED
      BY <3>1, <3>2, SMTT(30)
  <2> QED
    BY <1>2, <2>1, Zenon DEF EditSources, TypeInv, lockVars, ninjaVars, installVars, logVars
<1>3. ASSUME NEW r \in Runs, NEW command \in Commands, NEW config \in Configs \cup {"none"},
             Start(r, command, config)
      PROVE  TypeInv'
  <2> DEFINE x == [Idle EXCEPT !.pc = "log", !.command = command, !.config = config]
  <2>1. Idle \in RunType
    BY IdleType, Zenon
  <2>2. command \in AllCommands
    BY CommandsAssumption, Zenon DEF AllCommands
  <2>3. x \in RunType /\ x.pc = "log" /\ x.command = command /\ x.config = config
    BY <2>1, <2>2, Zenon DEF RunType, PCs
  <2>4. command \in KatiCommands => config \in Configs \ {"none"}
    BY <1>3, Zenon DEF Start, KatiCommands
  <2>5. Asked(x)
    BY <2>2, <2>3, <2>4, Zenon DEF Asked, Fits, AllCommands
  <2>6. run' = [run EXCEPT ![r] = x]
    BY <1>3, Zenon DEF Start
  <2> HIDE DEF x
  <2>7. run' \in [Runs -> RunType] /\ \A q \in Runs : Asked(run'[q])
    BY <2>3, <2>5, <2>6, ProcessTypes, Zenon
  <2> QED
    BY <1>3, <2>7, Zenon DEF Start, TypeInv, lockVars, ninjaVars, installVars, logVars
<1>4. ASSUME NEW r \in Runs, Step(r) \/ Die(r)
      PROVE  TypeInv'
  BY <1>4, LogTypes, LockTypes, PlainTypes, KatiTypes, StagedTypes, Zenon DEF Step
<1> QED
  BY <1>1, <1>2, <1>3, <1>4, Zenon DEF Next

-----------------------------------------------------------------------------
\* The age of a log below which all names are taken: the k-th is at least k
\* older than the newest.
LEMMA TakenAges ==
    ASSUME logs \in [0 .. MaxBackups -> Nat], created \in Nat, LogsOrdered,
           NEW m \in 0 .. MaxBackups, \A j \in 0 .. m : logs[j] # 0
    PROVE  logs[m] <= created - m
<1> DEFINE Bad == {k \in 0 .. m : ~ (logs[k] <= created - k)}
<1>0. MaxBackups \in Nat /\ m \in Nat /\ 0 .. m \subseteq 0 .. MaxBackups
  BY BackupsAssumption, SMTT(30)
<1> SUFFICES ASSUME Bad # {}
             PROVE  FALSE
  BY <1>0, SMTT(30)
<1>1. Bad \in SUBSET Nat
  BY <1>0, SMTT(30)
<1>2. PICK k \in Bad : \A n \in Bad : k <= n
  <2> HIDE DEF Bad
  <2> QED
    BY <1>1, LeastNumber, Zenon
<1>3. k \in 0 .. m /\ ~ (logs[k] <= created - k)
  BY <1>2, Zenon
<1>4. \A i \in 0 .. m : logs[i] \in Nat /\ logs[i] <= created
  BY <1>0, Zenon DEF LogsOrdered
<1>5. k # 0
  BY <1>3, <1>4, SMTT(30)
<1>6. k - 1 \in 0 .. m /\ k - 1 < k
  BY <1>0, <1>3, <1>5, SMTT(30)
<1>7. k - 1 \notin Bad
  BY <1>2, <1>6, SMTT(30)
<1>8. logs[k - 1] <= created - (k - 1)
  BY <1>6, <1>7, Zenon
<1>9. logs[k - 1] > logs[k]
  <2>1. k - 1 \in 0 .. MaxBackups /\ k \in 0 .. MaxBackups /\ logs[k] # 0 /\ logs[k - 1] # 0
    BY <1>0, <1>3, <1>6, Zenon
  <2> QED
    BY <1>6, <2>1, Zenon DEF LogsOrdered
<1>10. logs[k] \in Nat /\ logs[k - 1] \in Nat
  BY <1>3, <1>4, <1>6, Zenon
<1> QED
  BY <1>0, <1>3, <1>8, <1>9, <1>10, SMTT(30)

\* The steps that leave the logs alone: who is at "rotate" was, with the same
\* names to rename, and only that process gives up its lock on them.
LEMMA LogsLeft ==
    ASSUME LogInv, UNCHANGED <<logs, created>>, NotCleaned' => NotCleaned,
           NotCleaned => \A r \in Runs : ~ At(r, "clean_rest")',
           NotCleaned => \A r \in Runs : At(r, "rotate")' =>
               At(r, "rotate") /\ run'[r].rename = run[r].rename /\ logLock' = logLock
    PROVE  LogInv'
<1>1. LogsOrdered' /\ (NewestKept' <=> NewestKept)
  BY Zenon DEF LogInv, LogsOrdered, NewestKept
<1>2. ASSUME NotCleaned, NEW r \in Runs, At(r, "rotate")'
      PROVE  Rotating(r)'
  <2>1. At(r, "rotate") /\ run'[r].rename = run[r].rename /\ logLock' = logLock /\ logs' = logs
    BY <1>2, Zenon
  <2>2. Rotating(r)
    BY <1>2, <2>1, Zenon DEF LogInv
  <2> QED
    BY <2>1, <2>2, Zenon DEF Rotating
<1> QED
  BY <1>1, <1>2, Zenon DEF LogInv

\* LockLogs starts from the names as they are.
LEMMA LockLogsKeeps ==
    ASSUME TypeInv, LogInv, NEW r \in Runs, LockLogs(r)
    PROVE  LogInv'
<1>1. /\ logLock = 0 /\ logLock' = r /\ UNCHANGED <<logs, created, lockFile, lockFiles>>
      /\ run' = [run EXCEPT ![r].pc = "rotate", ![r].rename = LastToRotate]
  BY Zenon DEF LockLogs, lockVars
<1>2. /\ run'[r].pc = "rotate" /\ run'[r].rename = LastToRotate
      /\ \A q \in Runs : q # r => run'[q] = run[q]
  BY <1>1, Zenon DEF TypeInv, RunType
<1>3. LogsOrdered' /\ (NewestKept' <=> NewestKept) /\ (NotCleaned' <=> NotCleaned)
  BY <1>1, Zenon DEF LogInv, LogsOrdered, NewestKept, NotCleaned
<1>4. Rotating(r)'
  BY <1>1, <1>2, LastToRotateIs, Zenon DEF Rotating, TypeInv
<1>5. ASSUME NotCleaned, NEW q \in Runs
      PROVE  (At(q, "rotate")' => Rotating(q)') /\ ~ At(q, "clean_rest")'
  <2>1. CASE q = r
    BY <1>2, <1>4, <2>1, Zenon DEF At
  <2>2. CASE q # r
    <3>1. ~ At(q, "rotate")
      BY <1>1, <1>5, FirstLockFile, Zenon DEF LogInv, Rotating
    <3> QED
      BY <1>2, <1>5, <2>2, <3>1, Zenon DEF At, LogInv
  <2> QED
    BY <2>1, <2>2, Zenon
<1> QED
  BY <1>3, <1>5, Zenon DEF LogInv

\* One rename.  The log that is overwritten is the oldest, and not among the
\* newest MaxBackups.
LEMMA RotateKeeps ==
    ASSUME TypeInv, LogInv, NEW r \in Runs, Rotate(r)
    PROVE  LogInv'
<1> DEFINE i == run[r].rename
<1>0. MaxBackups \in Nat /\ MaxBackups > 0
  BY BackupsAssumption, SMTT(30)
<1>1. /\ At(r, "rotate") /\ i >= 0 /\ logs[i] # 0
      /\ logs' = [logs EXCEPT ![i + 1] = logs[i], ![i] = 0]
      /\ run' = [run EXCEPT ![r].rename = i - 1]
      /\ UNCHANGED <<lockFile, lockFiles, created, logLock>>
  BY Zenon DEF Rotate, lockVars
<1>2. i \in -1 .. MaxBackups - 1 /\ logs \in [0 .. MaxBackups -> Nat] /\ created \in Nat
  BY Zenon DEF TypeInv, RunType
<1>3. /\ run'[r].rename = i - 1 /\ run'[r].pc = run[r].pc
      /\ \A q \in Runs : q # r => run'[q] = run[q]
  BY <1>1, SMTT(30) DEF TypeInv, RunType
<1> HIDE DEF i
<1>4. i \in 0 .. MaxBackups - 1 /\ i \in 0 .. MaxBackups /\ i + 1 \in 0 .. MaxBackups
  BY <1>0, <1>1, <1>2, SMTT(30)
<1>5. /\ logs'[i + 1] = logs[i] /\ logs'[i] = 0
      /\ \A k \in 0 .. MaxBackups : k # i /\ k # i + 1 => logs'[k] = logs[k]
  BY <1>1, <1>2, <1>4, SMTT(30)
<1>6. LogsOrdered'
  <2>1. \A k \in 0 .. MaxBackups : logs[k] \in Nat /\ logs[k] <= created
    BY <1>2, Zenon DEF LogInv, LogsOrdered
  <2>2. \A k \in 0 .. MaxBackups : logs'[k] <= created'
    <3>1. created' = created /\ 0 <= created
      BY <1>1, <1>2, SMTT(30)
    <3> QED
      BY <1>4, <1>5, <2>1, <3>1, Zenon
  <2>3. ASSUME NEW j \in 0 .. MaxBackups, NEW k \in 0 .. MaxBackups, j < k, logs'[k] # 0, logs'[j] # 0
        PROVE  logs'[j] > logs'[k]
    <3>1. j # i /\ k # i
      BY <1>5, <2>3, Zenon
    <3>2. \A a, b \in 0 .. MaxBackups : a < b /\ logs[b] # 0 => logs[a] = 0 \/ logs[a] > logs[b]
      BY Zenon DEF LogInv, LogsOrdered
    <3>3. CASE k = i + 1
      <4>1. j < i /\ logs'[j] = logs[j] /\ logs'[k] = logs[i]
        BY <1>4, <1>5, <2>3, <3>1, <3>3, SMTT(30)
      <4> QED
        BY <1>4, <2>3, <3>2, <4>1, Zenon
    <3>4. CASE j = i + 1
      <4>1. i < k /\ logs'[j] = logs[i] /\ logs'[k] = logs[k]
        BY <1>4, <1>5, <2>3, <3>1, <3>4, SMTT(30)
      <4> QED
        BY <1>4, <2>3, <3>2, <4>1, Zenon
    <3>5. CASE j # i + 1 /\ k # i + 1
      BY <1>5, <2>3, <3>1, <3>2, <3>5, Zenon
    <3> QED
      BY <3>3, <3>4, <3>5, Zenon
  <2> QED
    BY <2>2, <2>3, Zenon DEF LogsOrdered
<1>7. ASSUME NotCleaned
      PROVE  /\ NewestKept'
             /\ \A q \in Runs : At(q, "rotate")' => Rotating(q)'
             /\ \A q \in Runs : ~ At(q, "clean_rest")'
  <2>1. Rotating(r) /\ NewestKept
    BY <1>1, <1>7, Zenon DEF LogInv
  <2>2. /\ logLock = r /\ \A k \in 0 .. i : logs[k] # 0
        /\ i < MaxBackups - 1 => logs[i + 1] = 0
    BY <2>1, Zenon DEF Rotating, i
  <2>3. logs[i + 1] # 0 => logs[i + 1] <= created - MaxBackups
    <3> SUFFICES ASSUME logs[i + 1] # 0
                 PROVE  logs[i + 1] <= created - MaxBackups
      BY Zenon
    <3>1. i + 1 = MaxBackups
      BY <1>0, <1>4, <2>2, SMTT(30)
    <3>2. \A k \in 0 .. i + 1 : logs[k] # 0
      BY <1>4, <2>2, SMTT(30)
    <3>3. logs[i + 1] <= created - (i + 1)
      BY <1>2, <1>4, <3>2, TakenAges, Zenon DEF LogInv
    <3> QED
      BY <3>1, <3>3, Zenon
  <2>4. NewestKept'
    <3> SUFFICES ASSUME NEW n \in 1 .. created, n > created - MaxBackups
                 PROVE  \E k \in 0 .. MaxBackups : logs'[k] = n
      BY <1>1, Zenon DEF NewestKept
    <3>1. PICK k \in 0 .. MaxBackups : logs[k] = n
      BY <2>1, Zenon DEF NewestKept
    <3>2. CASE k = i
      BY <1>4, <1>5, <3>1, <3>2, Zenon
    <3>3. CASE k = i + 1
      BY <1>0, <1>2, <2>3, <3>1, <3>3, SMTT(30)
    <3>4. CASE k # i /\ k # i + 1
      BY <1>5, <3>1, <3>4, Zenon
    <3> QED
      BY <3>2, <3>3, <3>4, Zenon
  <2>5. Rotating(r)'
    <3>1. i - 1 \in -1 .. MaxBackups - 1
      BY <1>0, <1>4, SMTT(30)
    <3>2. \A k \in 0 .. i - 1 : logs'[k] # 0
      <4>1. \A k \in 0 .. i - 1 : k \in 0 .. MaxBackups /\ k \in 0 .. i /\ k # i /\ k # i + 1
        BY <1>0, <1>4, SMTT(30)
      <4> QED
        BY <1>5, <2>2, <4>1, Zenon
    <3>3. logs'[(i - 1) + 1] = 0
      BY <1>4, <1>5, SMTT(30)
    <3>4. logLock' = r
      BY <1>1, <2>2, Zenon
    <3> QED
      BY <1>3, <3>1, <3>2, <3>3, <3>4, Zenon DEF Rotating
  <2>6. ASSUME NEW q \in Runs, q # r
        PROVE  ~ At(q, "rotate")' /\ ~ At(q, "clean_rest")'
    <3>1. ~ At(q, "rotate")
      BY <1>7, <2>2, <2>6, Zenon DEF LogInv, Rotating
    <3> QED
      BY <1>3, <1>7, <2>6, <3>1, Zenon DEF LogInv, At
  <2>7. ~ At(r, "clean_rest")'
    BY <1>1, <1>3, Zenon DEF At
  <2> QED
    BY <2>4, <2>5, <2>6, <2>7, Zenon
<1>8. NotCleaned' <=> NotCleaned
  BY <1>1, Zenon DEF NotCleaned
<1> QED
  BY <1>6, <1>7, <1>8, Zenon DEF LogInv

\* The new log gets a name that is free.
LEMMA CreateLogKeeps ==
    ASSUME TypeInv, LogInv, NEW r \in Runs, CreateLog(r)
    PROVE  LogInv'
<1>0. MaxBackups \in Nat /\ MaxBackups > 0 /\ 0 \in 0 .. MaxBackups
  BY BackupsAssumption, SMTT(30)
<1>1. /\ At(r, "rotate") /\ run[r].rename < 0
      /\ created' = created + 1 /\ logs' = [logs EXCEPT ![0] = created + 1]
      /\ logLock' = IF logLock = r THEN 0 ELSE logLock
      /\ run' = [run EXCEPT ![r].pc = "open_lock", ![r].rename = 0]
      /\ UNCHANGED <<lockFile, lockFiles>>
  BY Zenon DEF CreateLog, lockVars
<1>2. run[r].rename \in -1 .. MaxBackups - 1 /\ logs \in [0 .. MaxBackups -> Nat] /\ created \in Nat
  BY Zenon DEF TypeInv, RunType
<1>3. run'[r].pc = "open_lock" /\ \A q \in Runs : q # r => run'[q] = run[q]
  BY <1>1, Zenon DEF TypeInv, RunType
<1>4. logs'[0] = created + 1 /\ \A k \in 0 .. MaxBackups : k # 0 => logs'[k] = logs[k]
  BY <1>0, <1>1, <1>2, Zenon
<1>5. \A k \in 0 .. MaxBackups : logs[k] \in Nat /\ logs[k] <= created
  BY <1>2, Zenon DEF LogInv, LogsOrdered
<1>6. LogsOrdered'
  <2>1. \A k \in 0 .. MaxBackups : logs'[k] <= created'
    BY <1>1, <1>2, <1>4, <1>5, SMTT(30)
  <2>2. ASSUME NEW j \in 0 .. MaxBackups, NEW k \in 0 .. MaxBackups, j < k, logs'[k] # 0, logs'[j] # 0
        PROVE  logs'[j] > logs'[k]
    <3>1. k # 0 /\ logs'[k] = logs[k]
      BY <1>0, <1>4, <2>2, SMTT(30)
    <3>2. CASE j = 0
      BY <1>2, <1>4, <1>5, <3>1, <3>2, SMTT(30)
    <3>3. CASE j # 0
      BY <1>4, <2>2, <3>1, <3>3, Zenon DEF LogInv, LogsOrdered
    <3> QED
      BY <3>2, <3>3, Zenon
  <2> QED
    BY <2>1, <2>2, Zenon DEF LogsOrdered
<1>7. ASSUME NotCleaned
      PROVE  /\ NewestKept'
             /\ \A q \in Runs : At(q, "rotate")' => Rotating(q)'
             /\ \A q \in Runs : ~ At(q, "clean_rest")'
  <2>1. Rotating(r) /\ NewestKept
    BY <1>1, <1>7, Zenon DEF LogInv
  <2>2. run[r].rename = -1
    BY <1>0, <1>1, <1>2, SMTT(30)
  <2>3. logs[0] = 0 /\ logLock = r
    <3>1. logs[-1 + 1] = 0 /\ logLock = r
      BY <1>0, <2>1, <2>2, SMTT(30) DEF Rotating
    <3> QED
      BY <3>1, SMTT(30)
  <2>4. NewestKept'
    <3> SUFFICES ASSUME NEW n \in 1 .. created', n > created' - MaxBackups
                 PROVE  \E k \in 0 .. MaxBackups : logs'[k] = n
      BY Zenon DEF NewestKept
    <3>1. CASE n = created + 1
      BY <1>0, <1>4, <3>1, Zenon
    <3>2. CASE n # created + 1
      <4>1. n \in 1 .. created /\ n > created - MaxBackups
        BY <1>0, <1>1, <1>2, <3>2, SMTT(30)
      <4>2. PICK k \in 0 .. MaxBackups : logs[k] = n
        BY <2>1, <4>1, Zenon DEF NewestKept
      <4>3. k # 0
        BY <2>3, <4>1, <4>2, SMTT(30)
      <4> QED
        BY <1>4, <4>2, <4>3, Zenon
    <3> QED
      BY <3>1, <3>2, Zenon
  <2>5. ASSUME NEW q \in Runs
        PROVE  ~ At(q, "rotate")' /\ ~ At(q, "clean_rest")'
    <3>1. CASE q = r
      BY <1>3, <3>1, Zenon DEF At
    <3>2. CASE q # r
      <4>1. ~ At(q, "rotate") /\ ~ At(q, "clean_rest")
        BY <1>7, <2>3, <3>2, Zenon DEF LogInv, Rotating
      <4> QED
        BY <1>3, <3>2, <4>1, Zenon DEF At
    <3> QED
      BY <3>1, <3>2, Zenon
  <2> QED
    BY <2>4, <2>5, Zenon
<1>8. NotCleaned' <=> NotCleaned
  BY <1>1, Zenon DEF NotCleaned
<1> QED
  BY <1>6, <1>7, <1>8, Zenon DEF LogInv

\* Nobody's rename fails before a clean.
LEMMA RotateFailsKeeps ==
    ASSUME TypeInv, LogInv, NEW r \in Runs, RotateFails(r)
    PROVE  LogInv'
<1>1. /\ At(r, "rotate") /\ run[r].rename >= 0 /\ logs[run[r].rename] = 0
      /\ UNCHANGED <<lockFile, lockFiles, logs, created>>
  BY Zenon DEF RotateFails, lockVars
<1>2. ~ NotCleaned
  <2> SUFFICES ASSUME NotCleaned
               PROVE  FALSE
    BY Zenon
  <2>1. Rotating(r)
    BY <1>1, Zenon DEF LogInv
  <2>2. run[r].rename \in 0 .. run[r].rename
    BY <1>1, BackupsAssumption, SMTT(30) DEF TypeInv, RunType
  <2> QED
    BY <1>1, <2>1, <2>2, Zenon DEF Rotating
<1>3. LogsOrdered' /\ ~ NotCleaned'
  BY <1>1, <1>2, Zenon DEF LogInv, LogsOrdered, NotCleaned
<1> QED
  BY <1>3, Zenon DEF LogInv

\* The end of a process that may hold the lock on the logs.
LEMMA DieKeepsLogs ==
    ASSUME TypeInv, LogInv, NEW r \in Runs, Die(r)
    PROVE  LogInv'
<1>1. /\ UNCHANGED <<lockFile, lockFiles, logs, created>>
      /\ run' = [run EXCEPT ![r] = [Idle EXCEPT !.pc = "done"]]
      /\ logLock' = IF logLock = r THEN 0 ELSE logLock
  BY Zenon DEF Die
<1>2. run'[r].pc = "done" /\ \A q \in Runs : q # r => run'[q] = run[q]
  BY <1>1, Zenon DEF TypeInv, Idle
<1>3. NotCleaned' <=> NotCleaned
  BY <1>1, Zenon DEF NotCleaned
<1>4. ASSUME NotCleaned, NEW q \in Runs
      PROVE  /\ ~ At(q, "clean_rest")'
             /\ At(q, "rotate")' =>
                    At(q, "rotate") /\ run'[q].rename = run[q].rename /\ logLock' = logLock
  <2>1. CASE q = r
    BY <1>2, <2>1, Zenon DEF At
  <2>2. CASE q # r
    <3>1. At(q, "rotate") => logLock = q
      BY <1>4, Zenon DEF LogInv, Rotating
    <3>2. run'[q] = run[q] /\ ~ At(q, "clean_rest")
      BY <1>2, <1>4, <2>2, Zenon DEF LogInv
    <3> QED
      BY <1>1, <2>2, <3>1, <3>2, Zenon DEF At
  <2> QED
    BY <2>1, <2>2, Zenon
<1> QED
  BY <1>1, <1>3, <1>4, LogsLeft, Zenon

\* The steps of one process after its log is created, up to those of clean.
LEMMA OthersKeepLogs ==
    ASSUME TypeInv, LogInv, NEW r \in Runs, UNCHANGED logVars,
           \A q \in Runs : q # r => run'[q] = run[q],
           ~ At(r, "rotate")', ~ At(r, "clean_rest")', NotCleaned' => NotCleaned
    PROVE  LogInv'
<1>1. ASSUME NotCleaned, NEW q \in Runs
      PROVE  /\ ~ At(q, "clean_rest")'
             /\ At(q, "rotate")' =>
                    At(q, "rotate") /\ run'[q].rename = run[q].rename /\ logLock' = logLock
  <2>1. q # r => run'[q] = run[q] /\ ~ At(q, "clean_rest")
    BY <1>1, Zenon DEF LogInv
  <2> QED
    BY <2>1, Zenon DEF At, logVars
<1> QED
  BY <1>1, LogsLeft, Zenon DEF logVars

\* Where the steps of a build lead.
LEMMA BuildStepsTo ==
    ASSUME TypeInv, NEW r \in Runs,
           \/ LockTimeout(r) \/ Unlock(r) \/ NewLock(r)
           \/ RunKati(r) \/ CleanOldFiles(r) \/ ComparePaths(r) \/ RenameList(r)
           \/ RunKatiPackage(r) \/ SaveSuffix(r) \/ LoadSuffix(r)
           \/ CreateCombined(r) \/ WriteCombined(r)
           \/ CheckConfig(r) \/ InstallCleaned(r) \/ NinjaDone(r)
    PROVE  /\ run'[r].pc \notin {"rotate", "clean_rest"}
           /\ \A q \in Runs : q # r => run'[q] = run[q]
           /\ UNCHANGED logVars
<1>1. run \in [Runs -> RunType]
  BY Zenon DEF TypeInv
<1>2. CASE LockTimeout(r) \/ Unlock(r) \/ NewLock(r)
  BY <1>1, <1>2, SMTT(30) DEF LockTimeout, Unlock, NewLock, Idle, RunType
<1>3. CASE RunKati(r) \/ LoadSuffix(r) \/ RenameList(r)
  BY <1>1, <1>3, SMTT(30) DEF RunKati, LoadSuffix, RenameList, RunType
<1>4. CASE CleanOldFiles(r)
  <2>1. \/ run' = [run EXCEPT ![r].pc = "package"]
        \/ run' = [run EXCEPT ![r].pc = "compare", ![r].old = oldList, ![r].new = newList]
    BY <1>4, Zenon DEF CleanOldFiles, Go
  <2> QED
    BY <1>1, <1>4, <2>1, SMTT(30) DEF CleanOldFiles, RunType
<1>5. CASE ComparePaths(r)
  <2>1. \/ \E old, new : run' = [run EXCEPT ![r].new = new, ![r].old = old]
        \/ \E old : run' = [run EXCEPT ![r].old = old]
    BY <1>5, Zenon DEF ComparePaths
  <2> QED
    BY <1>1, <1>5, <2>1, SMTT(30) DEF ComparePaths, RunType, At
<1>6. CASE RunKatiPackage(r) \/ SaveSuffix(r) \/ NinjaDone(r) \/ CheckConfig(r)
  BY <1>1, <1>6, SMTT(30) DEF RunKatiPackage, SaveSuffix, NinjaDone, CheckConfig, Go, RunType
<1>7. CASE CreateCombined(r) \/ WriteCombined(r) \/ InstallCleaned(r)
  <2>1. \E pc \in {"ninja", "write_combined", "config", "unlock"} : run' = [run EXCEPT ![r].pc = pc]
    BY <1>7, Zenon DEF CreateCombined, WriteCombined, InstallCleaned, Go
  <2> QED
    BY <1>1, <1>7, <2>1, Zenon DEF CreateCombined, WriteCombined, InstallCleaned, RunType
<1> QED
  BY <1>2, <1>3, <1>4, <1>5, <1>6, <1>7, Zenon

\* Every step keeps what is known of the logs.
LEMMA LogNext == TypeInv /\ LockInv /\ LogInv /\ [Next]_vars => LogInv'
<1> SUFFICES ASSUME TypeInv, LockInv, LogInv, [Next]_vars
             PROVE  LogInv'
  BY Zenon
<1>0. ASSUME UNCHANGED <<run, lockVars, logVars>>
      PROVE  LogInv'
  <2>1. NotCleaned' <=> NotCleaned
    BY <1>0, Zenon DEF NotCleaned, lockVars
  <2> QED
    BY <1>0, <2>1, LogsLeft, Zenon DEF logVars, LogInv, At
<1>1. CASE UNCHANGED vars
  BY <1>0, <1>1, Zenon DEF vars
<1>2. CASE EditSources
  BY <1>0, <1>2, Zenon DEF EditSources
<1>3. ASSUME NEW r \in Runs, NEW command \in Commands, NEW config \in Configs \cup {"none"},
             Start(r, command, config)
      PROVE  LogInv'
  <2>1. run'[r].pc = "log" /\ (\A q \in Runs : q # r => run'[q] = run[q]) /\ UNCHANGED <<lockVars, logVars>>
    BY <1>3, Zenon DEF Start, TypeInv, RunType, Idle
  <2>2. NotCleaned' <=> NotCleaned
    BY <2>1, Zenon DEF NotCleaned, lockVars
  <2> QED
    BY <2>1, <2>2, OthersKeepLogs, Zenon DEF At
<1>4. ASSUME NEW r \in Runs, Step(r)
      PROVE  LogInv'
  <2>1. CASE LockLogs(r) \/ Rotate(r) \/ RotateFails(r) \/ CreateLog(r)
    BY <2>1, LockLogsKeeps, RotateKeeps, RotateFailsKeeps, CreateLogKeeps, Zenon
  <2>2. CASE NewLock(r)
    <3>1. NotCleaned' => NotCleaned
      <4>1. /\ lockFile' = IF lockFile = 0 THEN lockFiles + 1 ELSE lockFile
            /\ lockFiles' = IF lockFile = 0 THEN lockFiles + 1 ELSE lockFiles
        BY <2>2, Zenon DEF NewLock
      <4>2. lockFile \in Nat /\ lockFiles \in Nat
        BY Zenon DEF TypeInv
      <4> QED
        BY <4>1, <4>2, SMTT(30) DEF NotCleaned
    <3> QED
      BY <2>2, <3>1, BuildStepsTo, OthersKeepLogs, Zenon DEF At
  <2>3. CASE TryLock(r)
    <3>1. run[r].command \in AllCommands
      BY <2>3, Zenon DEF TypeInv, RunType, Asked, TryLock, At
    <3>2. /\ run'[r].pc = AfterLock(run[r].command)
          /\ \A q \in Runs : q # r => run'[q] = run[q]
          /\ UNCHANGED <<lockFile, lockFiles, logVars>>
      BY <2>3, SMTT(30) DEF TryLock, Go, TypeInv, RunType
    <3>3. AfterLock(run[r].command) \notin {"rotate", "clean_rest"}
      BY <3>1, Zenon DEF AfterLock, AllCommands
    <3>4. NotCleaned' <=> NotCleaned
      BY <3>2, Zenon DEF NotCleaned
    <3> QED
      BY <3>2, <3>3, <3>4, OthersKeepLogs, Zenon DEF At
  <2>4. CASE RemoveLock(r)
    <3>1. /\ lockFile' = 0 /\ UNCHANGED <<lockFiles, logVars>> /\ run[r].pc = "clean"
          /\ lockFiles \in Nat
      BY <2>4, Zenon DEF RemoveLock, At, TypeInv
    <3>2. Building(r)
      BY <3>1, Zenon DEF Building, Alive
    <3>3. lockFiles < 2 => lockFiles = 1
      BY <3>2, Zenon DEF LockInv
    <3>4. ~ NotCleaned'
      BY <3>1, <3>3, SMTT(30) DEF NotCleaned
    <3>5. LogsOrdered'
      BY <3>1, Zenon DEF LogInv, LogsOrdered, logVars
    <3> QED
      BY <3>4, <3>5, Zenon DEF LogInv
  <2>5. CASE RemoveRest(r)
    <3>1. /\ At(r, "clean_rest") /\ UNCHANGED <<lockVars, created>>
          /\ logs' = [i \in 0 .. MaxBackups |-> 0]
      BY <2>5, Zenon DEF RemoveRest, TypeInv
    <3>2. ~ NotCleaned'
      BY <3>1, Zenon DEF LogInv, NotCleaned, lockVars
    <3>3. LogsOrdered'
      <4>1. created' \in Nat /\ \A i \in 0 .. MaxBackups : logs'[i] = 0
        BY <3>1, Zenon DEF TypeInv
      <4> QED
        BY <4>1, SMTT(30) DEF LogsOrdered
    <3> QED
      BY <3>2, <3>3, Zenon DEF LogInv
  <2>6. CASE InstallClean(r) \/ \E f \in Files : NinjaInstall(r, f)
    BY <1>0, <2>6, Zenon DEF InstallClean, NinjaInstall
  <2>7. CASE \/ LockTimeout(r) \/ Unlock(r)
             \/ RunKati(r) \/ CleanOldFiles(r) \/ ComparePaths(r) \/ RenameList(r)
             \/ RunKatiPackage(r) \/ SaveSuffix(r) \/ LoadSuffix(r)
             \/ CreateCombined(r) \/ WriteCombined(r)
             \/ CheckConfig(r) \/ InstallCleaned(r) \/ NinjaDone(r)
    <3>1. UNCHANGED <<lockFile, lockFiles>>
      BY <2>7, Zenon DEF LockTimeout, Unlock, RunKati, CleanOldFiles, ComparePaths, RenameList,
                  RunKatiPackage, SaveSuffix, LoadSuffix, CreateCombined, WriteCombined,
                  CheckConfig, InstallCleaned, NinjaDone, lockVars
    <3>2. NotCleaned' <=> NotCleaned
      BY <3>1, Zenon DEF NotCleaned
    <3> QED
      BY <2>7, <3>2, BuildStepsTo, OthersKeepLogs, Zenon DEF At
  <2> QED
    BY <1>4, <2>1, <2>2, <2>3, <2>4, <2>5, <2>6, <2>7, Zenon DEF Step
<1>5. ASSUME NEW r \in Runs, Die(r)
      PROVE  LogInv'
  BY <1>5, DieKeepsLogs, Zenon
<1> QED
  BY <1>1, <1>2, <1>3, <1>4, <1>5, Zenon DEF Next

\* The logs at first.
LEMMA LogInit == Init => LogInv
<1> SUFFICES ASSUME Init
             PROVE  LogInv
  BY Zenon
<1>1. MaxBackups \in Nat /\ MaxBackups > 0
  BY BackupsAssumption, SMTT(30)
<1>2. created = MaxBackups + 1 /\ logs = [i \in 0 .. MaxBackups |-> created - i]
  BY Zenon DEF Init
<1>3. LogsOrdered
  BY <1>1, <1>2, SMTT(30) DEF LogsOrdered
<1>4. NewestKept
  <2> SUFFICES ASSUME NEW n \in 1 .. created
               PROVE  \E i \in 0 .. MaxBackups : logs[i] = n
    BY Zenon DEF NewestKept
  <2>1. created - n \in 0 .. MaxBackups /\ logs[created - n] = created - (created - n)
    BY <1>1, <1>2, SMTT(30)
  <2> QED
    BY <1>1, <1>2, <2>1, SMTT(30)
<1>5. \A r \in Runs : run[r].pc = "new"
  BY Zenon DEF Init, Idle
<1> QED
  BY <1>3, <1>4, <1>5, Zenon DEF LogInv, At

(***************************************************************************)
(* The logs of CreateFileWithRotation stay in order, and the newest ones   *)
(* are kept as long as nobody cleans, for any number of backups, processes *)
(* and interrupted rotations.                                              *)
(***************************************************************************)
THEOREM OutDirLogsInOrder == Spec => []LogsInOrder
<1>1. TypeInv /\ LogInv => LogsInOrder
  <2> SUFFICES ASSUME TypeInv, LogInv
               PROVE  LogsInOrder
    BY Zenon
  <2>1. DOMAIN logs = 0 .. MaxBackups /\ lockFiles \in Nat
    BY Zenon DEF TypeInv
  <2>2. lockFiles < 2 /\ lockFile # 0 => NotCleaned
    BY <2>1, SMTT(30) DEF NotCleaned
  <2> QED
    BY <2>1, <2>2, Zenon DEF LogsInOrder, LogInv, LogsOrdered, NewestKept
<1> QED
  BY TypeInit, LockInvInit, LogInit, TypeNext, LockInvNext, LogNext, <1>1, PTL DEF Spec

-----------------------------------------------------------------------------
\* A step of r that leaves the files of the builds alone.
LEMMA FilesLeft ==
    ASSUME BuildInv, NEW r \in Runs, UNCHANGED <<ninjaVars, installVars>>,
           \A q \in Runs : q # r => run'[q] = run[q],
           lockFiles' < 2 => lockFiles < 2,
           lockFiles < 2 /\ Building(r)' => Progress(r)'
    PROVE  BuildInv'
<1>1. UNCHANGED <<kati, combined, lastSuffix, newList, oldList, prevConfig, staged, mixed>>
  BY Zenon DEF ninjaVars, installVars
<1>2. ASSUME NEW q \in Runs, q # r
      PROVE  (Building(q)' <=> Building(q)) /\ (Progress(q) => Progress(q)')
  <2>1. run'[q] = run[q]
    BY <1>2, Zenon
  <2>2. Building(q)' <=> Building(q)
    BY <2>1, Zenon DEF Building, Alive
  <2>3. KatiRan(q) => KatiRan(q)'
    BY <1>1, <2>1, Zenon DEF KatiRan
  <2>4. InputsExist(q) => InputsExist(q)'
    BY <1>1, <2>1, Zenon DEF InputsExist
  <2>5. Staging(q) => Staging(q)'
    BY <1>1, <2>1, Zenon DEF Staging
  <2> QED
    BY <2>2, <2>3, <2>4, <2>5, Zenon DEF Progress
<1>3. (SuffixComplete => SuffixComplete') /\ (StagedAsListed => StagedAsListed') /\ mixed' = mixed
  BY <1>1, Zenon DEF SuffixComplete, StagedAsListed
<1> QED
  BY <1>2, <1>3, Zenon DEF BuildInv

\* A step of the only process that builds.
LEMMA BuilderSteps ==
    ASSUME LockInv, NEW r \in Runs, Building(r), UNCHANGED lockFiles,
           \A q \in Runs : q # r => run'[q] = run[q],
           lockFiles < 2 => /\ SuffixComplete'
                            /\ ~ mixed' => StagedAsListed'
                            /\ Building(r)' => Progress(r)'
    PROVE  BuildInv'
<1>1. ASSUME lockFiles < 2, NEW q \in Runs, q # r
      PROVE  ~ Building(q)'
  <2>1. ~ Building(q)
    BY <1>1, Zenon DEF LockInv
  <2> QED
    BY <1>1, <2>1, Zenon DEF Building, Alive
<1> QED
  BY <1>1, Zenon DEF BuildInv

\* The invariant holds at first.
LEMMA BuildInit == Init => BuildInv
<1> SUFFICES ASSUME Init
             PROVE  BuildInv
  BY Zenon
<1>1. \A s \in KatiSuffixes : kati[s].packaged = FALSE
  BY Zenon DEF Init, NoKati
<1>2. SuffixComplete
  BY <1>1, Zenon DEF SuffixComplete, Init
<1>3. StagedAsListed
  BY Zenon DEF StagedAsListed, Init
<1>4. \A r \in Runs : run[r].pc = "new"
  BY Zenon DEF Init, Idle
<1> QED
  BY <1>2, <1>3, <1>4, Zenon DEF BuildInv, Building, Alive

\* The steps before and after a build.
LEMMA OutsideKeepsBuild ==
    ASSUME TypeInv, BuildInv, NEW r \in Runs,
           \/ LockLogs(r) \/ Rotate(r) \/ RotateFails(r) \/ CreateLog(r)
           \/ NewLock(r) \/ LockTimeout(r) \/ Unlock(r) \/ Die(r)
    PROVE  BuildInv'
<1>0. run \in [Runs -> RunType] /\ lockFile \in Nat /\ lockFiles \in Nat
  BY Zenon DEF TypeInv
<1>1. UNCHANGED <<ninjaVars, installVars>>
  BY Zenon DEF LockLogs, Rotate, RotateFails, CreateLog, NewLock, LockTimeout, Unlock, Die
<1>2. run'[r].pc \in {"rotate", "open_lock", "lock", "done"} /\ \A q \in Runs : q # r => run'[q] = run[q]
  <2>1. CASE LockLogs(r) \/ CreateLog(r) \/ NewLock(r)
    BY <1>0, <2>1, ZenonT(40) DEF LockLogs, CreateLog, NewLock, RunType
  <2>2. CASE Rotate(r)
    BY <1>0, <2>2, ZenonT(40) DEF Rotate, RunType, At
  <2>3. CASE RotateFails(r)
    BY <1>0, <2>3, ZenonT(40) DEF RotateFails, RunType, At, Idle
  <2>4. CASE LockTimeout(r) \/ Unlock(r) \/ Die(r)
    BY <1>0, <2>4, Zenon DEF LockTimeout, Unlock, Die, Idle
  <2> QED
    BY <2>1, <2>2, <2>3, <2>4, Zenon
<1>3. lockFiles' < 2 => lockFiles < 2
  <2>1. CASE NewLock(r)
    <3>1. lockFiles' \in {lockFiles, lockFiles + 1}
      BY <2>1, Zenon DEF NewLock
    <3> QED
      BY <1>0, <3>1, SMTT(30)
  <2>2. CASE ~ NewLock(r)
    BY <2>2, Zenon DEF LockLogs, Rotate, RotateFails, CreateLog, LockTimeout, Unlock, Die, lockVars
  <2> QED
    BY <2>1, <2>2, Zenon
<1>4. ~ Building(r)'
  BY <1>2, Zenon DEF Building, Alive
<1> QED
  BY <1>1, <1>2, <1>3, <1>4, FilesLeft, Zenon

\* The first step of those who have the lock.
LEMMA TryLockKeepsBuild ==
    ASSUME TypeInv, BuildInv, NEW r \in Runs, TryLock(r)
    PROVE  BuildInv'
<1>1. run[r].command \in AllCommands
  BY Zenon DEF TypeInv, RunType, Asked, TryLock, At
<1>2. /\ run'[r].pc = AfterLock(run[r].command) /\ run'[r].command = run[r].command
      /\ \A q \in Runs : q # r => run'[q] = run[q]
      /\ UNCHANGED <<lockFiles, ninjaVars, installVars>>
  BY SMTT(30) DEF TryLock, Go, TypeInv, RunType
<1>3. /\ run'[r].pc \in {"kati", "load_suffix", "installclean", "clean"}
      /\ run'[r].pc = "installclean" => run'[r].command = "installclean"
  BY <1>1, <1>2, Zenon DEF AfterLock, AllCommands
<1>4. Progress(r)'
  BY <1>3, Zenon DEF Progress, KatiRan, InputsExist, Staging, KatiCommands, AfterKati, AfterLists, AfterPackage
<1> QED
  BY <1>2, <1>4, FilesLeft, Zenon

\* Clean.
LEMMA CleanKeepsBuild ==
    ASSUME TypeInv, LockInv, BuildInv, NEW r \in Runs, RemoveLock(r) \/ RemoveRest(r)
    PROVE  BuildInv'
<1>0. run \in [Runs -> RunType]
  BY Zenon DEF TypeInv
<1>1. CASE RemoveLock(r)
  <2>1. /\ run'[r].pc = "clean_rest" /\ \A q \in Runs : q # r => run'[q] = run[q]
        /\ UNCHANGED <<lockFiles, ninjaVars, installVars>>
    BY <1>0, <1>1, Zenon DEF RemoveLock, Go, RunType
  <2>2. Progress(r)'
    BY <2>1, Zenon DEF Progress, KatiRan, InputsExist, Staging, AfterKati, AfterLists, AfterPackage
  <2> QED
    BY <2>1, <2>2, FilesLeft, Zenon
<1>2. CASE RemoveRest(r)
  <2>1. /\ run[r].pc = "clean_rest"
        /\ run'[r].pc = "unlock" /\ run'[r].command = run[r].command
        /\ \A q \in Runs : q # r => run'[q] = run[q]
        /\ lastSuffix' = "none" /\ UNCHANGED lockFiles
        /\ kati' = [s \in KatiSuffixes |-> NoKati]
        /\ staged' = [f \in Files |-> "none"]
    BY <1>0, <1>2, SMTT(30) DEF RemoveRest, Go, RunType, At, lockVars
  <2>2. run[r].command = "clean" /\ Building(r)
    BY <2>1, Zenon DEF TypeInv, Asked, Fits, Building, Alive
  <2>3. SuffixComplete'
    BY <2>1, Zenon DEF SuffixComplete, NoKati
  <2>4. StagedAsListed'
    BY <2>1, Zenon DEF StagedAsListed
  <2>5. Progress(r)'
    BY <2>1, <2>2, Zenon DEF Progress, KatiRan, InputsExist, Staging, KatiCommands
  <2> QED
    BY <2>1, <2>2, <2>3, <2>4, <2>5, BuilderSteps, Zenon
<1> QED
  BY <1>1, <1>2, Zenon

\* What the process that builds may rely on.
LEMMA BuilderKnows ==
    ASSUME TypeInv, BuildInv, lockFiles < 2, NEW r \in Runs, Building(r)
    PROVE  /\ SuffixComplete /\ (~ mixed => StagedAsListed)
           /\ KatiRan(r) /\ InputsExist(r) /\ Staging(r)
           /\ Asked(run[r])
  BY Zenon DEF BuildInv, Progress, TypeInv

\* Kati writes the ninja file of its product and the list.
LEMMA RunKatiKeepsBuild ==
    ASSUME TypeInv, LockInv, BuildInv, NEW r \in Runs, RunKati(r)
    PROVE  BuildInv'
<1> DEFINE c == run[r].config
           s == SuffixOf[c]
           list == Revisions[revision][c]
<1>1. /\ run[r].pc = "kati"
      /\ kati' = [kati EXCEPT ![s].of = c, ![s].list = list]
      /\ newList' = list
      /\ run' = [run EXCEPT ![r].pc = "old_files", ![r].suffix = s]
      /\ UNCHANGED <<lockFiles, combined, lastSuffix, oldList, prevConfig, staged, mixed>>
  BY Zenon DEF RunKati, At, lockVars
<1>2. run[r].command \in KatiCommands /\ c \in Configs /\ c # "none" /\ s \in KatiSuffixes
  BY <1>1, SuffixAssumption, Zenon DEF TypeInv, Asked, Fits
<1>3. /\ run'[r].pc = "old_files" /\ run'[r].suffix = s
      /\ run'[r].command = run[r].command /\ run'[r].config = c
      /\ \A q \in Runs : q # r => run'[q] = run[q]
  BY <1>1, SMTT(30) DEF TypeInv, RunType
<1>4. Building(r)
  BY <1>1, Zenon DEF Building, Alive
<1> HIDE DEF list, c
<1>5. /\ kati'[s].of = c /\ kati'[s].list = list /\ kati'[s].packaged = kati[s].packaged
      /\ \A t \in KatiSuffixes : t # s => kati'[t] = kati[t]
  BY <1>1, <1>2, ZenonT(40) DEF TypeInv, KatiType
<1> HIDE DEF s
<1>6. ASSUME lockFiles < 2
      PROVE  SuffixComplete' /\ (~ mixed' => StagedAsListed') /\ Progress(r)'
  <2>1. SuffixComplete /\ (~ mixed => StagedAsListed)
    BY <1>4, <1>6, BuilderKnows, Zenon
  <2>2. SuffixComplete'
    <3>1. \A t \in KatiSuffixes : kati'[t].packaged = kati[t].packaged
      BY <1>5, Zenon
    <3>2. \A t \in KatiSuffixes : kati[t].of # "none" => kati'[t].of # "none"
      BY <1>2, <1>5, Zenon
    <3>3. lastSuffix \in KatiSuffixes \cup {"none"}
      BY Zenon DEF TypeInv
    <3> QED
      BY <1>1, <2>1, <3>1, <3>2, <3>3, Zenon DEF SuffixComplete
  <2>3. ~ mixed' => StagedAsListed'
    BY <1>1, <2>1, Zenon DEF StagedAsListed
  <2>4. KatiRan(r)'
    BY <1>1, <1>3, <1>5, Zenon DEF KatiRan, AfterLists, AfterPackage, s, c
  <2>5. InputsExist(r)' /\ Staging(r)'
    BY <1>3, Zenon DEF InputsExist, Staging
  <2> QED
    BY <2>2, <2>3, <2>4, <2>5, Zenon DEF Progress
<1> QED
  BY <1>1, <1>3, <1>4, <1>6, BuilderSteps, Zenon

\* A list is not the lack of one, and what is lacking lists no file.
LEMMA NoListFacts == (\A list \in SUBSET Files : list # NoList) /\ \A f \in Files : f \notin NoList
  BY PathsAssumption, Zenon DEF NoList

\* The lists before they are compared.
LEMMA CleanOldFilesKeepsBuild ==
    ASSUME TypeInv, LockInv, BuildInv, NEW r \in Runs, CleanOldFiles(r)
    PROVE  BuildInv'
<1> DEFINE s == run[r].suffix
<1>1. /\ run[r].pc = "old_files"
      /\ UNCHANGED <<lockFiles, kati, combined, lastSuffix, prevConfig, staged, mixed>>
  BY Zenon DEF CleanOldFiles, At, lockVars, ninjaVars
<1>2. Building(r) /\ run[r].command \in KatiCommands /\ run \in [Runs -> RunType]
  BY <1>1, Zenon DEF Building, Alive, TypeInv, Asked, Fits
<1>3. \/ run' = [run EXCEPT ![r].pc = "package"]
      \/ run' = [run EXCEPT ![r].pc = "compare", ![r].old = oldList, ![r].new = newList]
  BY Zenon DEF CleanOldFiles, Go
<1>4. /\ run'[r].pc \in {"package", "compare"} /\ run'[r].suffix = s
      /\ run'[r].command = run[r].command /\ run'[r].config = run[r].config
      /\ \A q \in Runs : q # r => run'[q] = run[q]
  BY <1>2, <1>3, SMTT(30) DEF RunType
<1>5. ASSUME lockFiles < 2
      PROVE  SuffixComplete' /\ (~ mixed' => StagedAsListed') /\ Progress(r)'
  <2>1. /\ SuffixComplete /\ (~ mixed => StagedAsListed)
        /\ KatiRan(r)
    BY <1>2, <1>5, BuilderKnows, Zenon
  <2>2. s = SuffixOf[run[r].config] /\ kati[s].of = run[r].config /\ newList = kati[s].list
    BY <1>1, <1>2, <2>1, Zenon DEF KatiRan, AfterKati
  <2>3. s \in KatiSuffixes /\ newList \in SUBSET Files
    <3>1. s \in KatiSuffixes
      BY <1>2, <2>2, SuffixAssumption, Zenon DEF TypeInv, Asked
    <3> QED
      BY <2>2, <3>1, Zenon DEF TypeInv, KatiType
  <2>4. newList # NoList
    BY <2>3, NoListFacts, Zenon
  <2>5. SuffixComplete'
    BY <1>1, <2>1, Zenon DEF SuffixComplete
  <2>6. InputsExist(r)'
    BY <1>4, Zenon DEF InputsExist
  <2>7. CASE oldList = NoList \/ newList = oldList
    <3>1. run'[r].pc = "package" /\ oldList' = newList
      BY <1>2, <2>4, <2>7, ZenonT(40) DEF CleanOldFiles, Go, RunType
    <3>2. ~ mixed' => StagedAsListed'
      <4>1. ~ mixed => \A f \in Files : staged[f] # "none" => staged[f] = prevConfig /\ f \in newList
        BY <2>1, <2>7, NoListFacts, Zenon DEF StagedAsListed
      <4> QED
        BY <1>1, <3>1, <4>1, Zenon DEF StagedAsListed
    <3>3. KatiRan(r)'
      BY <1>1, <1>4, <2>2, <3>1, Zenon DEF KatiRan, AfterPackage
    <3>4. Staging(r)'
      BY <3>1, Zenon DEF Staging
    <3> QED
      BY <2>5, <2>6, <3>2, <3>3, <3>4, Zenon DEF Progress
  <2>8. CASE oldList # NoList /\ newList # oldList
    <3>1. /\ run' = [run EXCEPT ![r].pc = "compare", ![r].old = oldList, ![r].new = newList]
          /\ UNCHANGED <<newList, oldList>>
      BY <2>4, <2>8, Zenon DEF CleanOldFiles
    <3>2. run'[r].pc = "compare" /\ run'[r].old = oldList /\ run'[r].new = newList
      BY <1>2, <3>1, Zenon DEF RunType
    <3>3. ~ mixed' => StagedAsListed'
      BY <1>1, <2>1, <3>1, Zenon DEF StagedAsListed
    <3>4. KatiRan(r)'
      BY <1>1, <1>4, <2>2, <3>1, <3>2, Zenon DEF KatiRan, AfterLists, AfterPackage
    <3>5. Staging(r)'
      BY <1>1, <2>1, <3>1, <3>2, Zenon DEF Staging, StagedAsListed
    <3> QED
      BY <2>5, <2>6, <3>3, <3>4, <3>5, Zenon DEF Progress
  <2> QED
    BY <2>7, <2>8, Zenon
<1> QED
  BY <1>1, <1>2, <1>4, <1>5, BuilderSteps, Zenon

\* A path that leaves the old list is in the new one, or no longer installed.
LEMMA ComparePathsKeepsBuild ==
    ASSUME TypeInv, LockInv, BuildInv, NEW r \in Runs, ComparePaths(r)
    PROVE  BuildInv'
<1> DEFINE s == run[r].suffix
           old == run[r].old
           new == run[r].new
<1>1. /\ run[r].pc = "compare" /\ old # {}
      /\ UNCHANGED <<lockFiles, kati, combined, lastSuffix, newList, oldList, prevConfig, mixed>>
  BY Zenon DEF ComparePaths, At, lockVars, ninjaVars
<1>2. Building(r) /\ run[r].command \in KatiCommands /\ run \in [Runs -> RunType]
  BY <1>1, Zenon DEF Building, Alive, TypeInv, Asked, Fits
<1>3. old \in SUBSET Files /\ new \in SUBSET Files
  BY <1>2, Zenon DEF RunType
<1>4. \/ /\ new # {}
         /\ run' = [run EXCEPT ![r].new = new \ {First(new)}, ![r].old = old \ {First(new)}]
         /\ staged' = staged
      \/ /\ run' = [run EXCEPT ![r].old = old \ {First(old)}]
         /\ staged' = [staged EXCEPT ![First(old)] = "none"]
  BY Zenon DEF ComparePaths
<1>5. /\ run'[r].pc = "compare" /\ run'[r].suffix = s
      /\ run'[r].command = run[r].command /\ run'[r].config = run[r].config
      /\ \A q \in Runs : q # r => run'[q] = run[q]
  BY <1>1, <1>2, <1>4, SMTT(30) DEF RunType
<1>6. \/ /\ new # {} /\ staged' = staged
         /\ run'[r].new = new \ {First(new)} /\ run'[r].old = old \ {First(new)}
      \/ /\ staged' = [staged EXCEPT ![First(old)] = "none"]
         /\ run'[r].new = new /\ run'[r].old = old \ {First(old)}
  BY <1>2, <1>4, SMTT(30) DEF RunType
<1>7. \A f \in Files : staged'[f] # "none" => staged[f] # "none" /\ staged'[f] = staged[f]
  BY <1>4, Zenon DEF TypeInv
<1>8. ASSUME lockFiles < 2
      PROVE  SuffixComplete' /\ (~ mixed' => StagedAsListed') /\ Progress(r)'
  <2>1. /\ SuffixComplete /\ (~ mixed => StagedAsListed)
        /\ KatiRan(r) /\ Staging(r)
    BY <1>2, <1>8, BuilderKnows, Zenon
  <2>2. SuffixComplete'
    BY <1>1, <2>1, Zenon DEF SuffixComplete
  <2>3. ~ mixed' => StagedAsListed'
    BY <1>1, <1>7, <2>1, Zenon DEF StagedAsListed
  <2>4. KatiRan(r)' /\ InputsExist(r)'
    BY <1>1, <1>5, <2>1, Zenon DEF KatiRan, InputsExist, AfterKati, AfterLists, AfterPackage
  <2>5. /\ new \subseteq newList
        /\ ~ mixed => \A f \in Files : staged[f] # "none" => f \in newList \cup old
    BY <1>1, <2>1, Zenon DEF Staging
  <2>6. run'[r].new \subseteq newList'
    BY <1>1, <1>6, <2>5, Zenon
  <2>7. ASSUME ~ mixed, NEW f \in Files, staged'[f] # "none"
        PROVE  f \in newList \cup run'[r].old
    <3>1. f \in newList \cup old
      BY <1>7, <2>5, <2>7, Zenon
    <3>2. CASE new # {} /\ run'[r].old = old \ {First(new)}
      <4>1. First(new) \in newList
        BY <1>3, <2>5, <3>2, FirstIsListed, Zenon
      <4> QED
        BY <3>1, <3>2, <4>1, Zenon
    <3>3. CASE staged' = [staged EXCEPT ![First(old)] = "none"] /\ run'[r].old = old \ {First(old)}
      <4>1. f # First(old)
        BY <2>7, <3>3, Zenon DEF TypeInv
      <4> QED
        BY <3>1, <3>3, <4>1, Zenon
    <3> QED
      BY <1>6, <3>2, <3>3, Zenon
  <2>8. Staging(r)'
    BY <1>1, <1>5, <2>6, <2>7, Zenon DEF Staging
  <2> QED
    BY <2>2, <2>3, <2>4, <2>8, Zenon DEF Progress
<1> QED
  BY <1>1, <1>2, <1>5, <1>8, BuilderSteps, Zenon

\* The lists after they are compared.
LEMMA RenameListKeepsBuild ==
    ASSUME TypeInv, LockInv, BuildInv, NEW r \in Runs, RenameList(r)
    PROVE  BuildInv'
<1> DEFINE s == run[r].suffix
<1>1. /\ run[r].pc = "compare" /\ run[r].old = {}
      /\ oldList' = IF newList = NoList THEN oldList ELSE newList
      /\ run' = [run EXCEPT ![r].pc = "package", ![r].new = {}]
      /\ UNCHANGED <<lockFiles, kati, combined, lastSuffix, prevConfig, staged, mixed>>
  BY Zenon DEF RenameList, At, lockVars, ninjaVars
<1>2. Building(r) /\ run[r].command \in KatiCommands
  BY <1>1, Zenon DEF Building, Alive, TypeInv, Asked, Fits
<1>3. /\ run'[r].pc = "package" /\ run'[r].suffix = s
      /\ run'[r].command = run[r].command /\ run'[r].config = run[r].config
      /\ \A q \in Runs : q # r => run'[q] = run[q]
  BY <1>1, SMTT(30) DEF TypeInv, RunType
<1>4. ASSUME lockFiles < 2
      PROVE  SuffixComplete' /\ (~ mixed' => StagedAsListed') /\ Progress(r)'
  <2>1. /\ SuffixComplete /\ (~ mixed => StagedAsListed)
        /\ KatiRan(r) /\ Staging(r)
    BY <1>2, <1>4, BuilderKnows, Zenon
  <2>2. s = SuffixOf[run[r].config] /\ kati[s].of = run[r].config /\ newList = kati[s].list
    BY <1>1, <1>2, <2>1, Zenon DEF KatiRan, AfterKati
  <2>3. newList \in SUBSET Files
    <3>1. s \in KatiSuffixes
      BY <1>2, <2>2, SuffixAssumption, Zenon DEF TypeInv, Asked
    <3> QED
      BY <2>2, <3>1, Zenon DEF TypeInv, KatiType
  <2>4. oldList' = newList
    BY <1>1, <2>3, NoListFacts, Zenon
  <2>5. SuffixComplete'
    BY <1>1, <2>1, Zenon DEF SuffixComplete
  <2>6. ~ mixed => \A f \in Files : staged[f] # "none" => f \in newList
    BY <1>1, <2>1, Zenon DEF Staging
  <2>7. ~ mixed' => StagedAsListed'
    BY <1>1, <2>1, <2>4, <2>6, Zenon DEF StagedAsListed
  <2>8. KatiRan(r)'
    BY <1>1, <1>3, <2>2, <2>4, Zenon DEF KatiRan, AfterPackage
  <2>9. InputsExist(r)' /\ Staging(r)'
    BY <1>3, Zenon DEF InputsExist, Staging
  <2> QED
    BY <2>5, <2>7, <2>8, <2>9, Zenon DEF Progress
<1> QED
  BY <1>1, <1>2, <1>3, <1>4, BuilderSteps, Zenon

\* The second kati run completes what the first has begun.
LEMMA PackageKeepsBuild ==
    ASSUME TypeInv, LockInv, BuildInv, NEW r \in Runs, RunKatiPackage(r) \/ SaveSuffix(r)
    PROVE  BuildInv'
<1> DEFINE s == run[r].suffix
<1>0. run \in [Runs -> RunType]
  BY Zenon DEF TypeInv
<1>1. CASE RunKatiPackage(r)
  <2>1. /\ run[r].pc = "package"
        /\ kati' = [kati EXCEPT ![s].packaged = TRUE]
        /\ run' = [run EXCEPT ![r].pc = "suffix"]
        /\ UNCHANGED <<lockFiles, combined, lastSuffix, newList, oldList, prevConfig, staged, mixed>>
    BY <1>1, Zenon DEF RunKatiPackage, At, Go, lockVars, installVars
  <2>2. Building(r) /\ run[r].command \in KatiCommands /\ run[r].config \in Configs \ {"none"}
    BY <2>1, Zenon DEF Building, Alive, TypeInv, Asked, Fits
  <2>3. /\ run'[r].pc = "suffix" /\ run'[r].suffix = s
        /\ run'[r].command = run[r].command /\ run'[r].config = run[r].config
        /\ \A q \in Runs : q # r => run'[q] = run[q]
    BY <1>0, <2>1, Zenon DEF RunType
  <2>4. ASSUME lockFiles < 2
        PROVE  SuffixComplete' /\ (~ mixed' => StagedAsListed') /\ Progress(r)'
    <3>1. SuffixComplete /\ (~ mixed => StagedAsListed) /\ KatiRan(r)
      BY <2>2, <2>4, BuilderKnows, Zenon
    <3>2. s = SuffixOf[run[r].config] /\ kati[s].of = run[r].config /\ oldList = kati[s].list
      BY <2>1, <2>2, <3>1, Zenon DEF KatiRan, AfterKati, AfterLists
    <3>3. s \in KatiSuffixes
      BY <2>2, <3>2, SuffixAssumption, Zenon
    <3>4. /\ kati'[s].packaged = TRUE /\ kati'[s].of = kati[s].of /\ kati'[s].list = kati[s].list
          /\ \A t \in KatiSuffixes : t # s => kati'[t] = kati[t]
      BY <2>1, <3>3, ZenonT(40) DEF TypeInv, KatiType
    <3>5. SuffixComplete'
      <4>1. lastSuffix \in KatiSuffixes \cup {"none"}
        BY Zenon DEF TypeInv
      <4> HIDE DEF s
      <4> QED
        BY <2>1, <2>2, <3>1, <3>2, <3>4, <4>1, ZenonT(40) DEF SuffixComplete
    <3>6. ~ mixed' => StagedAsListed'
      BY <2>1, <3>1, ZenonT(40) DEF StagedAsListed
    <3>7. KatiRan(r)'
      BY <2>1, <2>3, <3>2, <3>4, SMTT(30) DEF KatiRan
    <3>8. InputsExist(r)' /\ Staging(r)'
      BY <2>3, Zenon DEF InputsExist, Staging
    <3> QED
      BY <3>5, <3>6, <3>7, <3>8, Zenon DEF Progress
  <2> QED
    BY <2>1, <2>2, <2>3, <2>4, BuilderSteps, Zenon
<1>2. CASE SaveSuffix(r)
  <2>1. /\ run[r].pc = "suffix" /\ lastSuffix' = s
        /\ run' = [run EXCEPT ![r].pc = "combined"]
        /\ UNCHANGED <<lockFiles, kati, combined, newList, oldList, prevConfig, staged, mixed>>
    BY <1>2, Zenon DEF SaveSuffix, At, Go, lockVars, installVars
  <2>2. Building(r) /\ run[r].command \in KatiCommands
    BY <2>1, Zenon DEF Building, Alive, TypeInv, Asked, Fits
  <2>3. /\ run'[r].pc = "combined" /\ run'[r].suffix = s
        /\ run'[r].command = run[r].command /\ run'[r].config = run[r].config
        /\ \A q \in Runs : q # r => run'[q] = run[q]
    BY <1>0, <2>1, ZenonT(40) DEF RunType
  <2>4. ASSUME lockFiles < 2
        PROVE  SuffixComplete' /\ (~ mixed' => StagedAsListed') /\ Progress(r)'
    <3>1. SuffixComplete /\ (~ mixed => StagedAsListed) /\ KatiRan(r)
      BY <2>2, <2>4, BuilderKnows, Zenon
    <3>2. kati[s].packaged
      BY <2>1, <2>2, <3>1, Zenon DEF KatiRan, AfterPackage
    <3>3. SuffixComplete'
      BY <2>1, <3>1, <3>2, Zenon DEF SuffixComplete
    <3>4. ~ mixed' => StagedAsListed'
      BY <2>1, <3>1, Zenon DEF StagedAsListed
    <3>5. KatiRan(r)'
      BY <2>1, <2>3, <3>1, Zenon DEF KatiRan, AfterKati, AfterLists, AfterPackage
    <3>6. InputsExist(r)' /\ Staging(r)'
      BY <2>1, <2>3, <3>2, Zenon DEF InputsExist, Staging
    <3> QED
      BY <3>3, <3>4, <3>5, <3>6, Zenon DEF Progress
  <2> QED
    BY <2>1, <2>2, <2>3, <2>4, BuilderSteps, ZenonT(40)
<1> QED
  BY <1>1, <1>2, Zenon

\* --skip-kati takes the product for which both kati runs have ended.
LEMMA LoadSuffixKeepsBuild ==
    ASSUME TypeInv, BuildInv, NEW r \in Runs, LoadSuffix(r)
    PROVE  BuildInv'
<1>1. /\ run[r].pc = "load_suffix"
      /\ run' = [run EXCEPT ![r].pc = "combined", ![r].suffix = lastSuffix]
      /\ UNCHANGED <<lockFiles, ninjaVars, installVars>>
  BY Zenon DEF LoadSuffix, At, lockVars
<1>2. /\ run'[r].pc = "combined" /\ run'[r].suffix = lastSuffix
      /\ run'[r].command = run[r].command
      /\ \A q \in Runs : q # r => run'[q] = run[q]
  BY <1>1, SMTT(30) DEF TypeInv, RunType
<1>3. run[r].command = "skip_kati" /\ Building(r)
  BY <1>1, Zenon DEF TypeInv, Asked, Fits, Building, Alive
<1>4. ASSUME lockFiles < 2
      PROVE  Progress(r)'
  <2>1. SuffixComplete
    BY <1>3, <1>4, BuilderKnows, Zenon
  <2>2. kati' = kati
    BY <1>1, Zenon DEF ninjaVars
  <2>3. KatiRan(r)' /\ Staging(r)'
    BY <1>2, <1>3, Zenon DEF KatiRan, Staging, KatiCommands
  <2>4. InputsExist(r)'
    BY <1>2, <2>1, <2>2, Zenon DEF InputsExist, SuffixComplete
  <2> QED
    BY <2>3, <2>4, Zenon DEF Progress
<1> QED
  BY <1>1, <1>2, <1>4, FilesLeft, Zenon

\* The combined ninja file.
LEMMA CombinedKeepsBuild ==
    ASSUME TypeInv, LockInv, BuildInv, NEW r \in Runs, CreateCombined(r) \/ WriteCombined(r)
    PROVE  BuildInv'
<1> DEFINE s == run[r].suffix
<1>0. /\ run \in [Runs -> RunType] /\ s \in KatiSuffixes \cup {"none"}
      /\ combined \in [KatiSuffixes \cup {"none"} -> {"none", "cut", "whole"}]
  BY Zenon DEF TypeInv, RunType
<1>1. /\ run[r].pc \in {"combined", "write_combined"}
      /\ UNCHANGED <<lockFiles, kati, lastSuffix, newList, oldList, prevConfig, staged, mixed>>
  BY Zenon DEF CreateCombined, WriteCombined, At, lockVars, installVars
<1>2. Building(r)
  BY <1>1, Zenon DEF Building, Alive
<1>3. \E pc \in {"ninja", "write_combined", "config", "unlock"} :
          /\ run' = [run EXCEPT ![r].pc = pc]
          /\ pc = "write_combined" \/ combined'[s] # "none"
          /\ pc = "config" => run[r].command = "build" /\ combined'[s] = "whole"
          /\ pc = "ninja" => run[r].command = "skip_kati"
          /\ pc = "unlock" => run[r].command # "build"
  <2>1. CASE CreateCombined(r)
    BY <1>0, <2>1, Zenon DEF CreateCombined, Go
  <2>2. CASE WriteCombined(r)
    <3>1. combined'[s] = "whole"
      BY <1>0, <2>2, Zenon DEF WriteCombined
    <3> QED
      BY <2>2, <3>1, Zenon DEF WriteCombined, Go
  <2> QED
    BY <2>1, <2>2, Zenon
<1>4. PICK pc \in {"ninja", "write_combined", "config", "unlock"} :
          /\ run' = [run EXCEPT ![r].pc = pc]
          /\ pc = "write_combined" \/ combined'[s] # "none"
          /\ pc = "config" => run[r].command = "build" /\ combined'[s] = "whole"
          /\ pc = "ninja" => run[r].command = "skip_kati"
          /\ pc = "unlock" => run[r].command # "build"
  BY <1>3, Zenon
<1>5. /\ run'[r].pc = pc /\ run'[r].suffix = s
      /\ run'[r].command = run[r].command /\ run'[r].config = run[r].config
      /\ \A q \in Runs : q # r => run'[q] = run[q]
  BY <1>0, <1>4, ZenonT(40) DEF RunType
<1>6. ASSUME lockFiles < 2
      PROVE  SuffixComplete' /\ (~ mixed' => StagedAsListed') /\ Progress(r)'
  <2>1. SuffixComplete /\ (~ mixed => StagedAsListed) /\ KatiRan(r) /\ InputsExist(r)
    BY <1>2, <1>6, BuilderKnows, Zenon
  <2>2. SuffixComplete'
    BY <1>1, <2>1, Zenon DEF SuffixComplete
  <2>3. ~ mixed' => StagedAsListed'
    BY <1>1, <2>1, Zenon DEF StagedAsListed
  <2>4. KatiRan(r)'
    <3>1. run[r].command \in KatiCommands =>
              /\ s = SuffixOf[run[r].config] /\ kati[s].of = run[r].config
              /\ oldList = kati[s].list /\ kati[s].packaged
      BY <1>1, <2>1, Zenon DEF KatiRan, AfterKati, AfterLists, AfterPackage
    <3> QED
      BY <1>1, <1>5, <3>1, Zenon DEF KatiRan
  <2>5. InputsExist(r)'
    <3>1. s # "none" => kati[s].packaged
      BY <1>1, <2>1, Zenon DEF InputsExist
    <3> QED
      BY <1>1, <1>4, <1>5, <3>1, Zenon DEF InputsExist
  <2>6. Staging(r)'
    BY <1>4, <1>5, Zenon DEF Staging
  <2> QED
    BY <2>2, <2>3, <2>4, <2>5, <2>6, Zenon DEF Progress
<1> QED
  BY <1>1, <1>2, <1>5, <1>6, BuilderSteps, Zenon

\* What a build knows on its way from the configuration to ninja, none of
\* which concerns what is installed.
LEMMA BuildRelies ==
    ASSUME TypeInv, BuildInv, lockFiles < 2, NEW r \in Runs,
           run[r].pc \in {"config", "installclean", "ninja"}, run[r].command = "build"
    PROVE  /\ run[r].suffix = SuffixOf[run[r].config] /\ run[r].suffix \in KatiSuffixes
           /\ run[r].config \in Configs \ {"none"}
           /\ kati[run[r].suffix].of = run[r].config
           /\ kati[run[r].suffix].packaged
           /\ oldList = kati[run[r].suffix].list
           /\ combined[run[r].suffix] = "whole"
<1>1. Building(r)
  BY Zenon DEF Building, Alive
<1>2. KatiRan(r) /\ InputsExist(r) /\ Asked(run[r])
  BY <1>1, BuilderKnows, Zenon
<1>3. run[r].config \in Configs \ {"none"}
  BY <1>2, Zenon DEF Asked, KatiCommands
<1>4. /\ run[r].suffix = SuffixOf[run[r].config] /\ kati[run[r].suffix].of = run[r].config
      /\ kati[run[r].suffix].packaged /\ oldList = kati[run[r].suffix].list
  BY <1>2, Zenon DEF KatiRan, KatiCommands, AfterKati, AfterLists, AfterPackage
<1>5. combined[run[r].suffix] = "whole"
  BY <1>2, Zenon DEF InputsExist
<1> QED
  BY <1>3, <1>4, <1>5, SuffixAssumption, Zenon

\* The last configuration, once what it has installed is gone.
LEMMA ConfigKeepsBuild ==
    ASSUME TypeInv, LockInv, BuildInv, NEW r \in Runs, CheckConfig(r) \/ InstallCleaned(r)
    PROVE  BuildInv'
<1>0. run \in [Runs -> RunType]
  BY Zenon DEF TypeInv
<1>1. /\ run[r].pc \in {"config", "installclean"}
      /\ UNCHANGED <<lockFiles, kati, combined, lastSuffix, newList, oldList, staged, mixed>>
  BY Zenon DEF CheckConfig, InstallCleaned, At, lockVars, ninjaVars
<1>2. Building(r)
  BY <1>1, Zenon DEF Building, Alive
<1>3. run[r].command \in {"build", "installclean"}
  BY <1>1, Zenon DEF TypeInv, Asked, Fits
<1>4. /\ \/ prevConfig' = prevConfig
         \/ prevConfig' = run[r].config /\ prevConfig = "none"
         \/ prevConfig' = run[r].config /\ \A f \in Files : staged[f] = "none"
      /\ \E pc \in {"ninja", "installclean", "unlock"} :
            /\ run' = [run EXCEPT ![r].pc = pc]
            /\ pc = "ninja" => prevConfig' = run[r].config /\ run[r].command = "build"
            /\ pc = "installclean" => run[r].command = "build"
            /\ pc = "unlock" => run[r].command = "installclean"
  <2>1. CASE CheckConfig(r)
    <3>1. run[r].command = "build"
      BY <2>1, Zenon DEF CheckConfig, TypeInv, Asked, Fits, At
    <3> QED
      BY <2>1, <3>1, Zenon DEF CheckConfig, Go
  <2>2. CASE InstallCleaned(r)
    BY <1>3, <2>2, Zenon DEF InstallCleaned, Go
  <2> QED
    BY <2>1, <2>2, Zenon
<1>5. PICK pc \in {"ninja", "installclean", "unlock"} :
          /\ run' = [run EXCEPT ![r].pc = pc]
          /\ pc = "ninja" => prevConfig' = run[r].config /\ run[r].command = "build"
          /\ pc = "installclean" => run[r].command = "build"
          /\ pc = "unlock" => run[r].command = "installclean"
  BY <1>4, Zenon
<1>6. /\ run'[r].pc = pc /\ run'[r].suffix = run[r].suffix
      /\ run'[r].command = run[r].command /\ run'[r].config = run[r].config
      /\ \A q \in Runs : q # r => run'[q] = run[q]
  BY <1>0, <1>5, Zenon DEF RunType
<1>7. ASSUME lockFiles < 2
      PROVE  SuffixComplete' /\ (~ mixed' => StagedAsListed') /\ Progress(r)'
  <2>1. SuffixComplete /\ (~ mixed => StagedAsListed)
    BY <1>2, <1>7, BuilderKnows, Zenon
  <2>2. SuffixComplete'
    BY <1>1, <2>1, Zenon DEF SuffixComplete
  <2>3. ~ mixed' => StagedAsListed'
    BY <1>1, <1>4, <2>1, Zenon DEF StagedAsListed
  <2>4. Progress(r)'
    <3>1. CASE run[r].command = "build"
      <4>1. /\ run[r].suffix = SuffixOf[run[r].config]
            /\ kati[run[r].suffix].of = run[r].config /\ kati[run[r].suffix].packaged
            /\ oldList = kati[run[r].suffix].list /\ combined[run[r].suffix] = "whole"
        BY <1>1, <1>7, <3>1, BuildRelies, Zenon
      <4>2. KatiRan(r)'
        BY <1>1, <1>5, <1>6, <4>1, Zenon DEF KatiRan
      <4>3. InputsExist(r)'
        BY <1>1, <1>5, <1>6, <4>1, Zenon DEF InputsExist
      <4>4. Staging(r)'
        BY <1>5, <1>6, <3>1, Zenon DEF Staging
      <4> QED
        BY <4>2, <4>3, <4>4, Zenon DEF Progress
    <3>2. CASE run[r].command = "installclean"
      <4>1. pc = "unlock"
        BY <1>5, <3>2, Zenon
      <4> QED
        BY <1>6, <3>2, <4>1, Zenon DEF Progress, KatiRan, InputsExist, Staging, KatiCommands
    <3> QED
      BY <1>3, <3>1, <3>2, Zenon
  <2> QED
    BY <2>2, <2>3, <2>4, Zenon
<1> QED
  BY <1>1, <1>2, <1>6, <1>7, BuilderSteps, Zenon

\* What is removed, and what ninja installs.
LEMMA StagedKeepsBuild ==
    ASSUME TypeInv, LockInv, BuildInv, NEW r \in Runs,
           InstallClean(r) \/ \E f \in Files : NinjaInstall(r, f)
    PROVE  BuildInv'
<1>1. /\ run[r].pc \in {"installclean", "ninja"}
      /\ UNCHANGED <<run, lockFiles, kati, combined, lastSuffix, newList, oldList, prevConfig>>
  BY Zenon DEF InstallClean, NinjaInstall, At, lockVars, ninjaVars
<1>2. Building(r)
  BY <1>1, Zenon DEF Building, Alive
<1>3. ASSUME lockFiles < 2
      PROVE  SuffixComplete' /\ (~ mixed' => StagedAsListed') /\ Progress(r)'
  <2>1. /\ SuffixComplete /\ (~ mixed => StagedAsListed)
        /\ KatiRan(r) /\ InputsExist(r) /\ Staging(r)
    BY <1>2, <1>3, BuilderKnows, Zenon
  <2>2. SuffixComplete'
    BY <1>1, <2>1, Zenon DEF SuffixComplete
  <2>3. KatiRan(r)' /\ InputsExist(r)' /\ Staging(r)'
    BY <1>1, <2>1, Zenon DEF KatiRan, InputsExist, Staging
  <2>4. CASE InstallClean(r)
    <3>1. mixed' = mixed /\ \A f \in Files : staged'[f] # "none" => staged'[f] = staged[f]
      BY <2>4, Zenon DEF InstallClean, TypeInv
    <3>2. ~ mixed' => StagedAsListed'
      BY <1>1, <2>1, <3>1, Zenon DEF StagedAsListed
    <3> QED
      BY <2>2, <2>3, <3>2, Zenon DEF Progress
  <2>5. ASSUME NEW f \in Files, NinjaInstall(r, f)
        PROVE  ~ mixed' => StagedAsListed'
    <3> SUFFICES ASSUME ~ mixed'
                 PROVE  StagedAsListed'
      BY Zenon
    <3>1. /\ run[r].pc = "ninja" /\ f \in Graph(r).list
          /\ staged' = [staged EXCEPT ![f] = Graph(r).of]
          /\ ~ mixed
          /\ run[r].command = "skip_kati" => prevConfig = Graph(r).of /\ f \in oldList
      BY <2>5, Zenon DEF NinjaInstall, At
    <3>2. run[r].command \in {"build", "skip_kati"}
      BY <3>1, Zenon DEF TypeInv, Asked, Fits
    <3>3. prevConfig = Graph(r).of /\ f \in oldList
      <4>1. CASE run[r].command = "build"
        <5>1. /\ run[r].suffix \in KatiSuffixes /\ kati[run[r].suffix].of = run[r].config
              /\ oldList = kati[run[r].suffix].list
          BY <1>3, <3>1, <4>1, BuildRelies, Zenon
        <5>2. Graph(r) = kati[run[r].suffix]
          BY <5>1, SuffixAssumption, Zenon DEF Graph
        <5>3. prevConfig = run[r].config
          BY <2>1, <3>1, <4>1, Zenon DEF Staging
        <5> QED
          BY <3>1, <5>1, <5>2, <5>3, Zenon
      <4>2. CASE run[r].command = "skip_kati"
        BY <3>1, <4>2, Zenon
      <4> QED
        BY <3>2, <4>1, <4>2, Zenon
    <3>4. \A g \in Files : g # f => staged'[g] = staged[g]
      BY <3>1, Zenon DEF TypeInv
    <3>5. staged'[f] = Graph(r).of
      BY <3>1, Zenon DEF TypeInv
    <3> QED
      BY <1>1, <2>1, <3>1, <3>3, <3>4, <3>5, Zenon DEF StagedAsListed
  <2> QED
    BY <2>2, <2>3, <2>4, <2>5, Zenon DEF Progress
<1> QED
  BY <1>1, <1>2, <1>3, BuilderSteps, Zenon

\* A build ends with what its configuration installs.
LEMMA NinjaDoneKeepsBuild ==
    ASSUME TypeInv, BuildInv, NEW r \in Runs, NinjaDone(r)
    PROVE  BuildInv'
<1> DEFINE s == run[r].suffix
<1>1. /\ run[r].pc = "ninja"
      /\ \A f \in Graph(r).list : staged[f] # "none"
      /\ run' = [run EXCEPT ![r].pc = "unlock"]
      /\ UNCHANGED <<lockFiles, ninjaVars, installVars>>
  BY Zenon DEF NinjaDone, At, Go, lockVars
<1>2. Building(r) /\ run[r].command \in {"build", "skip_kati"}
  BY <1>1, Zenon DEF Building, Alive, TypeInv, Asked, Fits
<1>3. /\ run'[r].pc = "unlock" /\ run'[r].suffix = s
      /\ run'[r].command = run[r].command /\ run'[r].config = run[r].config
      /\ \A q \in Runs : q # r => run'[q] = run[q]
  BY <1>1, ZenonT(40) DEF TypeInv, RunType
<1>4. ASSUME lockFiles < 2
      PROVE  Progress(r)'
  <2>1. CASE run[r].command = "build"
    <3>1. /\ s = SuffixOf[run[r].config] /\ s \in KatiSuffixes
          /\ kati[s].of = run[r].config /\ kati[s].packaged
          /\ oldList = kati[s].list
      BY <1>1, <1>4, <2>1, BuildRelies, Zenon
    <3>2. UNCHANGED <<kati, oldList, newList, staged, mixed>>
      BY <1>1, Zenon DEF ninjaVars, installVars
    <3>3. KatiRan(r)'
      BY <1>3, <3>1, <3>2, Zenon DEF KatiRan
    <3>4. InputsExist(r)'
      BY <1>3, Zenon DEF InputsExist
    <3>5. ASSUME ~ mixed
          PROVE  staged = [f \in Files |-> IF f \in kati[s].list THEN run[r].config ELSE "none"]
      <4>1. StagedAsListed /\ prevConfig = run[r].config
        BY <1>1, <1>2, <1>4, <2>1, <3>5, BuilderKnows, Zenon DEF Staging
      <4>2. Graph(r) = kati[s]
        BY <3>1, SuffixAssumption, Zenon DEF Graph
      <4>3. \A f \in Files : staged[f] = IF f \in kati[s].list THEN run[r].config ELSE "none"
        BY <1>1, <3>1, <4>1, <4>2, Zenon DEF StagedAsListed
      <4>4. staged = [f \in Files |-> staged[f]]
        BY Zenon DEF TypeInv
      <4> QED
        BY <4>3, <4>4, Zenon
    <3>6. Staging(r)'
      BY <1>3, <3>2, <3>5, Zenon DEF Staging
    <3> QED
      BY <3>3, <3>4, <3>6, Zenon DEF Progress
  <2>2. CASE run[r].command = "skip_kati"
    BY <1>3, <2>2, Zenon DEF Progress, KatiRan, InputsExist, Staging, KatiCommands
  <2> QED
    BY <1>2, <2>1, <2>2, Zenon
<1> QED
  BY <1>1, <1>3, <1>4, FilesLeft, Zenon

\* Every step keeps what the builds rely on.
LEMMA BuildNext == TypeInv /\ LockInv /\ BuildInv /\ [Next]_vars => BuildInv'
<1> SUFFICES ASSUME TypeInv, LockInv, BuildInv, [Next]_vars
             PROVE  BuildInv'
  BY Zenon
<1>1. CASE UNCHANGED vars \/ EditSources
  <2>1. UNCHANGED <<run, lockFiles, kati, combined, lastSuffix, newList, oldList, prevConfig, staged, mixed>>
    BY <1>1, Zenon DEF vars, EditSources, lockVars, ninjaVars, installVars
  <2>2. \A r \in Runs : (Building(r)' <=> Building(r)) /\ (Progress(r) => Progress(r)')
    <3> TAKE r \in Runs
    <3>1. Building(r)' <=> Building(r)
      BY <2>1, Zenon DEF Building, Alive
    <3>2. KatiRan(r) => KatiRan(r)'
      BY <2>1, Zenon DEF KatiRan
    <3>3. InputsExist(r) => InputsExist(r)'
      BY <2>1, Zenon DEF InputsExist
    <3>4. Staging(r) => Staging(r)'
      BY <2>1, Zenon DEF Staging
    <3> QED
      BY <3>1, <3>2, <3>3, <3>4, Zenon DEF Progress
  <2> QED
    BY <2>1, <2>2, Zenon DEF BuildInv, SuffixComplete, StagedAsListed
<1>2. ASSUME NEW r \in Runs, NEW command \in Commands, NEW config \in Configs \cup {"none"},
             Start(r, command, config)
      PROVE  BuildInv'
  <2>1. /\ run'[r].pc = "log" /\ \A q \in Runs : q # r => run'[q] = run[q]
        /\ UNCHANGED <<lockFiles, ninjaVars, installVars>>
    BY <1>2, Zenon DEF Start, TypeInv, RunType, Idle, lockVars
  <2>2. ~ Building(r)'
    BY <2>1, Zenon DEF Building
  <2> QED
    BY <2>1, <2>2, FilesLeft, Zenon
<1>3. ASSUME NEW r \in Runs, Step(r) \/ Die(r)
      PROVE  BuildInv'
  BY <1>3, OutsideKeepsBuild, TryLockKeepsBuild, CleanKeepsBuild, RunKatiKeepsBuild,
     CleanOldFilesKeepsBuild, ComparePathsKeepsBuild, RenameListKeepsBuild, PackageKeepsBuild,
     LoadSuffixKeepsBuild, CombinedKeepsBuild, ConfigKeepsBuild, StagedKeepsBuild,
     NinjaDoneKeepsBuild, ZenonT(40) DEF Step
<1> QED
  BY <1>1, <1>2, <1>3, Zenon DEF Next

\* The invariant always holds.
LEMMA BuildAlways == Spec => [](TypeInv /\ BuildInv)
  BY TypeInit, LockInvInit, BuildInit, TypeNext, LockInvNext, BuildNext, PTL DEF Spec

(***************************************************************************)
(* Ninja is never run on files that are missing: last_kati_suffix names a  *)
(* product for which both kati runs have ended, whatever was built and     *)
(* killed before, for any products, lists and number of processes.         *)
(***************************************************************************)
THEOREM OutDirNinjaInputsExist == Spec => []NinjaInputsExist
<1>1. TypeInv /\ BuildInv => NinjaInputsExist
  <2> SUFFICES ASSUME TypeInv, BuildInv, lockFiles < 2, NEW r \in Runs, At(r, "ninja")
               PROVE  /\ run[r].suffix # "none" => Graph(r).packaged /\ Graph(r).of # "none"
                      /\ \/ combined[run[r].suffix] = "whole"
                         \/ run[r].command = "skip_kati" /\ combined[run[r].suffix] = "cut"
    BY Zenon DEF NinjaInputsExist
  <2>1. run[r].pc = "ninja" /\ Building(r) /\ run[r].suffix \in KatiSuffixes \cup {"none"}
    BY Zenon DEF At, Building, Alive, TypeInv, RunType
  <2>2. SuffixComplete /\ InputsExist(r) /\ run[r].command \in {"build", "skip_kati"}
    BY <2>1, BuilderKnows, Zenon DEF Asked, Fits
  <2>3. run[r].suffix # "none" => Graph(r).packaged /\ Graph(r).of # "none"
    BY <2>1, <2>2, Zenon DEF Graph, InputsExist, SuffixComplete
  <2>4. combined[run[r].suffix] \in {"cut", "whole"}
    BY <2>1, <2>2, Zenon DEF InputsExist, TypeInv
  <2> QED
    BY <2>1, <2>2, <2>3, <2>4, Zenon DEF InputsExist
<1> QED
  BY BuildAlways, <1>1, PTL

(***************************************************************************)
(* What a build leaves in the staging directory is what its configuration  *)
(* installs: cleanOldFiles and installCleanIfNecessary together remove     *)
(* what other configurations and earlier rules have left, whatever was     *)
(* killed in between, for any products, lists and number of processes.     *)
(***************************************************************************)
THEOREM OutDirStagingIsConsistent == Spec => []StagingIsConsistent
<1>1. TypeInv /\ BuildInv => StagingIsConsistent
  <2> SUFFICES ASSUME TypeInv, BuildInv, NEW r \in Runs, At(r, "unlock"), run[r].command = "build",
                      ~ mixed, lockFiles < 2
               PROVE  staged = [f \in Files |-> IF f \in Graph(r).list THEN run[r].config ELSE "none"]
    BY Zenon DEF StagingIsConsistent
  <2>1. run[r].pc = "unlock" /\ Building(r)
    BY Zenon DEF At, Building, Alive
  <2>2. Staging(r) /\ KatiRan(r) /\ Asked(run[r])
    BY <2>1, BuilderKnows, Zenon
  <2>3. run[r].suffix \in KatiSuffixes
    BY <2>1, <2>2, SuffixAssumption, Zenon DEF KatiRan, AfterKati, AfterLists, AfterPackage, KatiCommands, Asked
  <2>4. Graph(r) = kati[run[r].suffix]
    BY <2>3, SuffixAssumption, Zenon DEF Graph
  <2> QED
    BY <2>1, <2>2, <2>4, Zenon DEF Staging
<1> QED
  BY BuildAlways, <1>1, PTL

=============================================================================
