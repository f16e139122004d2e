------------------------------- MODULE Session --------------------------------
(***************************************************************************)
(* How a soong_ui or multiproduct_kati process ends.  Main defers          *)
(* stat.Finish, trace.Close and log.Cleanup; a signal makes the goroutine  *)
(* of ui/signal/signal.go run the same three from a third goroutine if     *)
(* main does not end by itself, and panic if that does not help.  All of   *)
(* them, and the workers of multiproduct_kati, log, and logging to a log   *)
(* that has been closed is a panic (panicWriter in ui/logger/logger.go).   *)
(*                                                                         *)
(* The build that soong_ui runs and the commands of multiproduct_kati may  *)
(* end at any time or never, also after cancel has killed their processes, *)
(* so the cancellation itself is not a part of the state.                  *)
(***************************************************************************)
EXTENDS Integers, FiniteSets

CONSTANTS
    Workers,    \* the jobs of multiproduct_kati
    Products,   \* the products it is to build
    MaxSignals  \* bound on the signals; the channel holds five

ASSUME SignalsAssumption == MaxSignals \in 0 .. 5
ASSUME SetsAssumption == IsFiniteSet(Products) /\ Workers # {}

VARIABLES
    program,    \* "soong_ui" or "multiproduct_kati"
    terminal,   \* the terminal output: "table", "smart" or "simple"
    main,       \* [pc, fate]: the main goroutine and how it is unwinding
    queue,      \* the products no worker has received
    worker,     \* worker[w]: [pc, product]
    report,     \* report[p]: what failureCount was told of p
    console,    \* console[p]: the log of p, "none", "open" or "whole"
    zipped,     \* the console logs that are whole in logs.zip
    signals,    \* the number of signals in the channel
    sent,       \* the number of signals so far
    handler,    \* [timeouts, ticking]: handleSignals
    cleanup,    \* the goroutine that handleTimeout starts
    traceFile,  \* "none", "open", "late" (opened behind the cleanup's back), "closed"
    logFile,    \* the same
    flushed,    \* the terminal output has been flushed
    statusLock, \* who holds Status.lock in Finish, or "free"
    exit        \* "no", or why the process ended

settings == <<program, terminal>>
poolVars == <<queue, worker, report, console, zipped>>
signalVars == <<signals, sent, handler>>
outputVars == <<traceFile, logFile, flushed, statusLock>>
sessionVars == <<settings, main, poolVars, signalVars, cleanup, outputVars, exit>>

SessionInit ==
    /\ program \in {"soong_ui", "multiproduct_kati"}
    /\ terminal \in {"table", "smart", "simple"}
    /\ main = [pc |-> "setup", fate |-> "ok"]
    /\ queue = Products
    /\ worker = [w \in Workers |-> [pc |-> "receive", product |-> "none"]]
    /\ report = [p \in Products |-> "none"]
    /\ console = [p \in Products |-> "none"]
    /\ zipped = {}
    /\ signals = 0
    /\ sent = 0
    /\ handler = [timeouts |-> 0, ticking |-> FALSE]
    /\ cleanup = "none"
    /\ traceFile = "none"
    /\ logFile = "none"
    /\ flushed = FALSE
    /\ statusLock = "free"
    /\ exit = "no"

\* Fatal and Panic log before they panic: on a closed log that is a panic.
FateOf(fate) == IF logFile = "closed" /\ fate # "ok" THEN "panic" ELSE fate

\* Close does nothing to a file that is not open.
Closed(file) == IF file = "none" THEN "none" ELSE "closed"
-----------------------------------------------------------------------------
(* The workers of multiproduct_kati: runSoongUiForProduct *)

\* A worker receives a product, or the zero value of the closed channel.
Receive(w) ==
    /\ program = "multiproduct_kati" /\ main.pc = "work" /\ worker[w].pc = "receive"
    /\ \/ \E p \in queue :
            /\ queue' = queue \ {p}
            /\ worker' = [worker EXCEPT ![w] = [pc |-> "start", product |-> p]]
       \/ /\ queue = {}
          /\ worker' = [worker EXCEPT ![w].pc = "done"]
          /\ UNCHANGED queue
    /\ UNCHANGED <<settings, main, report, console, zipped, signalVars, cleanup, outputVars, exit>>

\* The directories and the console log are made, and StartAction called.
StartProduct(w) ==
    /\ worker[w].pc = "start" /\ statusLock = "free"
    /\ console' = [console EXCEPT ![worker[w].product] = "open"]
    /\ worker' = [worker EXCEPT ![w].pc = "run"]
    /\ UNCHANGED <<settings, main, queue, report, zipped, signalVars, cleanup, outputVars, exit>>

\* A directory, the console log, its copy or the zip of the artifacts fails:
\* Fatalf in a goroutine that nothing recovers ends the process.
WorkerFails(w) ==
    /\ worker[w].pc \in {"start", "run", "return"}
    /\ exit' = "worker"
    /\ UNCHANGED <<settings, main, poolVars, signalVars, cleanup, outputVars>>

\* The command has ended: FinishAction counts the failure.
FinishProduct(w) ==
    /\ worker[w].pc = "run" /\ statusLock = "free"
    /\ \E result \in {"ok", "failed"} :
          report' = [report EXCEPT ![worker[w].product] = result]
    /\ worker' = [worker EXCEPT ![w].pc = "return"]
    /\ UNCHANGED <<settings, main, queue, console, zipped, signalVars, cleanup, outputVars, exit>>

\* The deferred calls: cleanupAfterProduct, Flush, Close.
ReturnProduct(w) ==
    /\ worker[w].pc = "return"
    /\ console' = [console EXCEPT ![worker[w].product] = "whole"]
    /\ worker' = [worker EXCEPT ![w] = [pc |-> "receive", product |-> "none"]]
    /\ UNCHANGED <<settings, main, queue, report, zipped, signalVars, cleanup, outputVars, exit>>

WorkerStep(w) ==
    Receive(w) \/ StartProduct(w) \/ WorkerFails(w) \/ FinishProduct(w) \/ ReturnProduct(w)
-----------------------------------------------------------------------------
(* Main *)

MainGoes(pc, fate) == main' = [pc |-> pc, fate |-> fate]

\* Main up to log.SetOutput, which is Fatal if it cannot create the file, as
\* are other things before it.
SetLogOutput ==
    /\ main.pc = "setup"
    /\ \/ /\ MainGoes("trace output", "ok")
          /\ logFile' = IF cleanup \in {"none", "trace", "log"} THEN "open" ELSE "late"
       \/ MainGoes("finish", FateOf("fatal")) /\ UNCHANGED logFile
    /\ UNCHANGED <<settings, poolVars, signalVars, cleanup, traceFile, flushed, statusLock, exit>>

\* trace.SetOutput, which logs that it cannot create the file.
SetTraceOutput ==
    LET next == IF program = "soong_ui" THEN "work" ELSE "products" IN
    /\ main.pc = "trace output"
    /\ \/ /\ MainGoes(next, "ok")
          /\ traceFile' = IF cleanup \in {"none", "trace"} THEN "open" ELSE "late"
       \/ logFile # "closed" /\ MainGoes(next, "ok") /\ UNCHANGED traceFile
       \/ logFile = "closed" /\ MainGoes("finish", "panic") /\ UNCHANGED traceFile
    /\ UNCHANGED <<settings, poolVars, signalVars, cleanup, logFile, flushed, statusLock, exit>>

\* Defect: log.Cleanup is deferred last and so runs first.
BuildEndsLogClosed ==
    /\ program = "soong_ui" /\ main.pc = "work"
    /\ \E fate \in {"ok", "fatal"} : MainGoes("finish", FateOf(fate))
    /\ logFile' = "closed"
    /\ UNCHANGED <<settings, poolVars, signalVars, cleanup, traceFile, flushed, statusLock, exit>>

\* soong_ui: the build ends, with or without Fatal, or logs to a closed log.
BuildEnds ==
    /\ program = "soong_ui" /\ main.pc = "work"
    /\ \/ \E fate \in {"ok", "fatal"} : MainGoes("finish", FateOf(fate))
       \/ logFile = "closed" /\ MainGoes("finish", "panic")
    /\ UNCHANGED <<settings, poolVars, signalVars, cleanup, outputVars, exit>>

\* multiproduct_kati: the products and the shard are settled and the workers
\* started, or something is Fatal.
ListProducts ==
    /\ main.pc = "products"
    /\ \/ MainGoes("work", "ok")
       \/ MainGoes("finish", FateOf("fatal"))
       \/ logFile = "closed" /\ MainGoes("finish", "panic")
    /\ UNCHANGED <<settings, poolVars, signalVars, cleanup, outputVars, exit>>

\* Defect: the products are handed out, and nobody waits for the workers.
ZipLogsAtOnce ==
    /\ program = "multiproduct_kati" /\ main.pc = "work"
    /\ queue = {}
    /\ zipped' = {p \in Products : console[p] = "whole"}
    /\ MainGoes("report", "ok")
    /\ UNCHANGED <<settings, queue, worker, report, console, signalVars, cleanup, outputVars, exit>>

\* multiproduct_kati with -alternate-result-dir: wg.Wait returns, and the logs
\* are zipped ...
ZipLogs ==
    /\ program = "multiproduct_kati" /\ main.pc = "work" /\ logFile # "closed"
    /\ \A w \in Workers : worker[w].pc = "done"
    /\ zipped' = {p \in Products : console[p] = "whole"}
    /\ MainGoes("report", "ok")
    /\ UNCHANGED <<settings, queue, worker, report, console, signalVars, cleanup, outputVars, exit>>

\* ... which is Fatal if it fails, and logs first.
ZipLogsFails ==
    /\ program = "multiproduct_kati" /\ main.pc = "work"
    /\ \A w \in Workers : worker[w].pc = "done"
    /\ MainGoes("finish", FateOf("fatal"))
    /\ UNCHANGED <<settings, poolVars, signalVars, cleanup, outputVars, exit>>

\* Then s.Finish, and the failures make it Fatal.
ReportFailures ==
    /\ main.pc = "report" /\ statusLock = "free"
    /\ MainGoes("finish", IF \E p \in Products : report[p] = "failed" THEN FateOf("fatal") ELSE "ok")
    /\ UNCHANGED <<settings, poolVars, signalVars, cleanup, outputVars, exit>>

\* The deferred stat.Finish takes the lock of the Status ...
MainFinish ==
    /\ main.pc = "finish" /\ statusLock = "free"
    /\ statusLock' = "main"
    /\ MainGoes("flush", main.fate)
    /\ UNCHANGED <<settings, poolVars, signalVars, cleanup, traceFile, logFile, flushed, exit>>

\* ... flushes the terminal, where a second time waits for ever (the table's
\* ticker is gone) or closes a closed channel ...
MainFlush ==
    /\ main.pc = "flush"
    /\ ~ flushed \/ terminal # "table"
    /\ flushed' = TRUE
    /\ IF flushed /\ terminal = "smart"
       THEN MainGoes("trace", "panic") /\ statusLock' = "free"
       ELSE MainGoes("critical path", main.fate) /\ UNCHANGED statusLock
    /\ UNCHANGED <<settings, poolVars, signalVars, cleanup, traceFile, logFile, exit>>

\* ... and logs the critical path, if there is one.
MainCriticalPath ==
    /\ main.pc = "critical path"
    /\ statusLock' = "free"
    /\ \/ MainGoes("trace", main.fate)
       \/ program = "soong_ui" /\ logFile = "closed" /\ MainGoes("trace", "panic")
    /\ UNCHANGED <<settings, poolVars, signalVars, cleanup, traceFile, logFile, flushed, exit>>

\* The deferred trace.Close, and cancel.
MainTraceClose ==
    /\ main.pc = "trace"
    /\ traceFile' = Closed(traceFile)
    /\ MainGoes("log", main.fate)
    /\ UNCHANGED <<settings, poolVars, signalVars, cleanup, logFile, flushed, statusLock, exit>>

\* The deferred log.Cleanup: Fatal becomes os.Exit(1), other panics go on.
MainLogCleanup ==
    /\ main.pc = "log"
    /\ logFile' = Closed(logFile)
    /\ MainGoes("return", main.fate)
    /\ exit' = IF main.fate = "ok" THEN exit ELSE main.fate
    /\ UNCHANGED <<settings, poolVars, signalVars, cleanup, traceFile, flushed, statusLock>>

\* Main returns; until then the other goroutines run.
MainReturn ==
    /\ main.pc = "return"
    /\ exit' = "ok"
    /\ UNCHANGED <<settings, main, poolVars, signalVars, cleanup, outputVars>>

Deferred ==
    \/ MainFinish
    \/ MainFlush
    \/ MainCriticalPath
    \/ MainTraceClose
    \/ MainLogCleanup
    \/ MainReturn
-----------------------------------------------------------------------------
(* handleSignals *)

SendSignal ==
    /\ sent < MaxSignals
    /\ sent' = sent + 1
    /\ signals' = signals + 1
    /\ UNCHANGED <<settings, main, poolVars, handler, cleanup, outputVars, exit>>

\* Defect: the cleanup leaves the trace to main.
HandleTimeoutKeepingTrace ==
    /\ handler' = [handler EXCEPT !.timeouts = @ + 1, !.ticking = TRUE]
    /\ cleanup' = IF handler.timeouts = 1 /\ logFile # "closed" THEN "log" ELSE cleanup
    /\ exit' = IF handler.timeouts >= 2 THEN "timeout"
               ELSE IF logFile = "closed" THEN "late log" ELSE exit

\* handleTimeout: cancel, then the cleanup in a goroutine, then panic.  It
\* logs first.
HandleTimeout ==
    /\ handler' = [handler EXCEPT !.timeouts = @ + 1, !.ticking = TRUE]
    /\ cleanup' = IF handler.timeouts = 1 /\ logFile # "closed" THEN "trace" ELSE cleanup
    /\ exit' = IF handler.timeouts >= 2 THEN "timeout"
               ELSE IF logFile = "closed" THEN "late log" ELSE exit

\* A signal, which is logged; one that is not the first is a timeout too.
HandleSignal ==
    /\ signals > 0
    /\ signals' = signals - 1
    /\ IF logFile = "closed" THEN exit' = "late log" /\ UNCHANGED <<handler, cleanup>>
       ELSE IF handler.ticking THEN HandleTimeout
       ELSE handler' = [handler EXCEPT !.ticking = TRUE] /\ UNCHANGED <<cleanup, exit>>
    /\ UNCHANGED <<settings, main, poolVars, sent, outputVars>>

\* Defect: a timer that fires once.
TickOnce ==
    /\ handler.ticking
    /\ handler' = [timeouts |-> handler.timeouts + 1, ticking |-> FALSE]
    /\ cleanup' = IF handler.timeouts = 1 /\ logFile # "closed" THEN "trace" ELSE cleanup
    /\ exit' = IF handler.timeouts >= 2 THEN "timeout"
               ELSE IF logFile = "closed" THEN "late log" ELSE exit
    /\ UNCHANGED <<settings, main, poolVars, signals, sent, outputVars>>

\* case <-timeout
Tick ==
    /\ handler.ticking
    /\ HandleTimeout
    /\ UNCHANGED <<settings, main, poolVars, signals, sent, outputVars>>
-----------------------------------------------------------------------------
(* The cleanup given to SetupSignals, and the deferred Panicln *)

CleanupTraceClose ==
    /\ cleanup = "trace"
    /\ cleanup' = "log"
    /\ traceFile' = Closed(traceFile)
    /\ UNCHANGED <<settings, main, poolVars, signalVars, logFile, flushed, statusLock, exit>>

CleanupLogCleanup ==
    /\ cleanup = "log"
    /\ cleanup' = "finish"
    /\ logFile' = Closed(logFile)
    /\ UNCHANGED <<settings, main, poolVars, signalVars, traceFile, flushed, statusLock, exit>>

CleanupFinish ==
    /\ cleanup = "finish" /\ statusLock = "free"
    /\ cleanup' = "flush"
    /\ statusLock' = "cleanup"
    /\ UNCHANGED <<settings, main, poolVars, signalVars, traceFile, logFile, flushed, exit>>

CleanupFlush ==
    /\ cleanup = "flush"
    /\ ~ flushed \/ terminal # "table"
    /\ cleanup' = "panic"
    /\ flushed' = TRUE
    /\ statusLock' = "free"
    /\ UNCHANGED <<settings, main, poolVars, signalVars, traceFile, logFile, exit>>

CleanupPanic ==
    /\ cleanup = "panic"
    /\ exit' = "cleanup"
    /\ UNCHANGED <<settings, main, poolVars, signalVars, cleanup, outputVars>>

CleanupStep ==
    CleanupTraceClose \/ CleanupLogCleanup \/ CleanupFinish \/ CleanupFlush \/ CleanupPanic
-----------------------------------------------------------------------------
Handle == HandleSignal \/ Tick

Running ==
    \/ \E w \in Workers : WorkerStep(w)
    \/ SetLogOutput
    \/ SetTraceOutput
    \/ BuildEnds
    \/ ListProducts
    \/ ZipLogs
    \/ ZipLogsFails
    \/ ReportFailures
    \/ Deferred
    \/ SendSignal
    \/ Handle
    \/ CleanupStep

SessionNext ==
    \/ exit = "no" /\ Running
    \/ exit # "no" /\ UNCHANGED sessionVars

SessionSpec == SessionInit /\ [][SessionNext]_sessionVars

\* The handler, time and the cleanup go on; nothing is assumed of the build.
FairSessionSpec ==
    /\ SessionSpec
    /\ WF_sessionVars(exit = "no" /\ Handle)
    /\ WF_sessionVars(exit = "no" /\ CleanupStep)
    /\ WF_sessionVars(exit = "no" /\ Deferred)
-----------------------------------------------------------------------------
(***************************************************************************)
(* "Ensure [...] that our log/trace buffers are flushed to disk"           *)
(* (signal.go:27): whichever goroutine ends the process, and however main, *)
(* the cleanup and late log calls interleave, no trace or log is open,     *)
(* except when the cleanup took too long (step 5 of the comment) and when  *)
(* a worker of multiproduct_kati gave up.  The cleanup can also come too   *)
(* early, before main calls SetOutput; only main closes such a file.  When *)
(* main ended the process, the terminal has been restored too.             *)
(***************************************************************************)
FlushedToDisk ==
    /\ exit \notin {"no", "timeout", "worker"} => traceFile # "open" /\ logFile # "open"
    /\ exit \in {"ok", "fatal", "panic"} => traceFile # "late" /\ logFile # "late"
    /\ exit \in {"ok", "fatal"} => flushed

(***************************************************************************)
(* Nothing but a signal makes the process panic: main's deferred calls do  *)
(* not log to a log they have closed (panicWriter) and do not flush the    *)
(* terminal twice.                                                         *)
(***************************************************************************)
PanicsNeedSignal ==
    exit \in {"panic", "late log", "cleanup", "timeout"} => sent > 0

(***************************************************************************)
(* multiproduct_kati succeeds only when every product was built, and its   *)
(* logs.zip then has the whole console log of every product, since the     *)
(* workers are done with their deferred calls when wg.Wait returns; with   *)
(* all of them zipped it is Fatal only because a product failed.           *)
(***************************************************************************)
ReportComplete ==
    program = "multiproduct_kati" =>
        /\ exit = "ok" => zipped = Products /\ \A p \in Products : report[p] = "ok"
        /\ exit = "fatal" /\ zipped = Products /\ Products # {} =>
              \E p \in Products : report[p] = "failed"

(***************************************************************************)
(* A signal ends the process, also when the build never ends and when both *)
(* main and the cleanup call Finish, whose second Flush of a table blocks  *)
(* with Status.lock held.                                                  *)
(***************************************************************************)
SignalEndsProcess == signals > 0 ~> exit # "no"
=============================================================================
