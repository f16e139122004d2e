------------------------------ MODULE ZipWriter ------------------------------
(***************************************************************************)
(* zip/zip.go, ZipWriter.write and what it starts: the pipeline that       *)
(* compresses files in parallel and writes them in order.                  *)
(*                                                                         *)
(*   producer  -- the goroutine that walks pathMappings (addFile, ...)     *)
(*   worker    -- crcFile, compressPartialFile and compressWholeFile       *)
(*   main      -- the select loop of write, then its deferred calls        *)
(*   Cpu, Mem  -- the monitors of the two limiters, module RateLimit       *)
(*                                                                         *)
(* An entry is a position of pathMappings.  Job <<e, 0>> is the CPU slot   *)
(* of crcFile or compressWholeFile of entry e, <<e, b>> that of its block  *)
(* b.  A local step that only leads up to a blocking channel operation is  *)
(* folded into the step before it.                                         *)
(***************************************************************************)
EXTENDS Integers, FiniteSets, Sequences, Functions

CONSTANTS
    Entries,          \* sequence of [kind, blocks, size]
    NumParallelJobs,  \* capacity of the CPU limiter
    MemoryCapacity,   \* capacity of the memory limiter
    WriteOpsCap,      \* buffer of z.writeOps (1000)
    Fallible,         \* entries whose source may fail to be read
    OutputMayFail     \* whether writing the archive may fail

\* blocks = 0: compressed as a whole; kinds "dir" and "symlink" have no size.
ASSUME EntriesAssumption ==
    Entries \in Seq([kind : {"dir", "symlink", "file"}, blocks : Nat, size : Nat])
ASSUME LimitsAssumption ==
    /\ NumParallelJobs \in Nat \ {0}
    /\ MemoryCapacity \in Nat \ {0}
    /\ WriteOpsCap \in Nat \ {0}

Ids == DOMAIN Entries
Files == {e \in Ids : Entries[e].kind = "file"}
Whole(e) == Entries[e].blocks = 0
CpuJobs == UNION {{e} \X (0 .. Entries[e].blocks) : e \in Files}

VARIABLES
    producer,   \* [pc, e, b]: the mapping and the block it is working on
    worker,     \* worker[j]: the goroutine that runs CPU job j
    main,       \* [pc, e, b]: the entry and the reader main is copying
    writeOps,   \* buffered channel of entries, in archive order
    opsClosed,  \* writeOps is closed
    opReady,    \* entries whose zipEntry is in its compressChan
    readers,    \* readers[e]: the futureReaders channel of e
    readersEnd, \* entries whose futureReaders is closed
    ready,      \* <<e, b>>: the block is in its result channel
    archive,    \* what main has written, <<e, 0>> for a header
    result,     \* what write returns: "none", "ok" or "error"
    errors,     \* z.errors: "open" or "closed"
    outFile,    \* OutputFilePath: "partial", "complete" or "removed"
    panicked,   \* a goroutine sent on the closed z.errors
    cpuJob, cpuUsed, cpuQueue, cpuMonitor,
    memJob, memUsed, memQueue, memMonitor,
    stop        \* both limiters were told to stop

Cpu == INSTANCE RateLimit
    WITH Jobs <- CpuJobs, Size <- [j \in CpuJobs |-> 1],
         Capacity <- NumParallelJobs, job <- cpuJob, usedCapacity <- cpuUsed,
         currentRequest <- cpuQueue, monitor <- cpuMonitor

Mem == INSTANCE RateLimit
    WITH Jobs <- Files, Size <- [e \in Files |-> Entries[e].size],
         Capacity <- MemoryCapacity, job <- memJob, usedCapacity <- memUsed,
         currentRequest <- memQueue, monitor <- memMonitor

cpuVars == <<cpuJob, cpuUsed, cpuQueue, cpuMonitor>>
memVars == <<memJob, memUsed, memQueue, memMonitor>>
channelVars == <<writeOps, opsClosed, opReady, readers, readersEnd, ready>>
outcomeVars == <<archive, result, errors, outFile, panicked>>
vars == <<producer, worker, main, channelVars, outcomeVars, cpuVars, memVars, stop>>

Init ==
    /\ producer = [pc |-> "add", e |-> 1, b |-> 0]
    /\ worker = [j \in CpuJobs |-> "none"]
    /\ main = [pc |-> "op", e |-> 0, b |-> 0]
    /\ writeOps = <<>>
    /\ opsClosed = FALSE
    /\ opReady = {}
    /\ readers = [e \in Ids |-> <<>>]
    /\ readersEnd = {}
    /\ ready = {}
    /\ archive = <<>>
    /\ result = "none"
    /\ errors = "open"
    /\ outFile = "partial"
    /\ panicked = FALSE
    /\ Cpu!Init
    /\ Mem!Init

\* The process is still there: it has neither exited nor panicked.
Alive == main.pc # "exit" /\ ~ panicked
-----------------------------------------------------------------------------
(* The producer goroutine *)

Here == producer.e

NextEntry == [pc |-> "add", e |-> producer.e + 1, b |-> 0]

AtEntry(kinds) ==
    /\ producer.pc = "add"
    /\ Here \in Ids
    /\ Entries[Here].kind \in kinds

\* addFile or addManifest returns an error: stat, open, a name conflict...
AddFails ==
    /\ AtEntry({"dir", "symlink", "file"})
    /\ Here \in Fallible
    /\ producer' = [producer EXCEPT !.pc = "report"]
    /\ UNCHANGED <<worker, main, channelVars, outcomeVars, cpuVars, memVars, stop>>

\* writeDirectory and writeSymlink queue an entry that is complete already.
QueueReadyEntry ==
    /\ AtEntry({"dir", "symlink"})
    /\ Len(writeOps) < WriteOpsCap
    /\ writeOps' = Append(writeOps, Here)
    /\ opReady' = opReady \cup {Here}
    /\ readersEnd' = readersEnd \cup {Here}
    /\ IF Entries[Here].kind = "symlink"
       THEN /\ readers' = [readers EXCEPT ![Here] = <<1>>]
            /\ ready' = ready \cup {<<Here, 1>>}
       ELSE UNCHANGED <<readers, ready>>
    /\ producer' = NextEntry
    /\ UNCHANGED <<worker, main, opsClosed, outcomeVars, cpuVars, memVars, stop>>

\* writeFileContents reserves the place in the archive, then asks for a CPU.
QueueFile ==
    /\ AtEntry({"file"})
    /\ Len(writeOps) < WriteOpsCap
    /\ writeOps' = Append(writeOps, Here)
    /\ producer' = [producer EXCEPT !.pc = "cpu"]
    /\ Cpu!Request(<<Here, 0>>)
    /\ UNCHANGED <<worker, main, opsClosed, opReady, readers, readersEnd, ready,
                   outcomeVars, memVars>>

\* The CPU is granted; ask for the memory while holding it.
RequestMemory ==
    /\ producer.pc = "cpu"
    /\ Cpu!Serviced(<<Here, 0>>)
    /\ Mem!Request(Here)
    /\ producer' = [producer EXCEPT !.pc = "memory"]
    /\ UNCHANGED <<worker, main, channelVars, outcomeVars>>

\* Start compressWholeFile, or crcFile and the loop over the blocks.
StartFile ==
    /\ producer.pc = "memory"
    /\ Mem!Serviced(Here)
    /\ worker' = [worker EXCEPT ![<<Here, 0>>] = "running"]
    /\ producer' = IF Whole(Here)
                   THEN NextEntry
                   ELSE [producer EXCEPT !.pc = "block", !.b = 1]
    /\ UNCHANGED <<main, channelVars, outcomeVars, cpuVars>>

\* Queue the place of the next block and ask for a CPU for it.
QueueBlock ==
    /\ producer.pc = "block"
    /\ readers' = [readers EXCEPT ![Here] = Append(@, producer.b)]
    /\ producer' = [producer EXCEPT !.pc = "blockCpu"]
    /\ Cpu!Request(<<Here, producer.b>>)
    /\ UNCHANGED <<worker, main, writeOps, opsClosed, opReady, readersEnd, ready,
                   outcomeVars, memVars>>

\* Start compressPartialFile; after the last block close futureReaders.
StartBlock ==
    /\ producer.pc = "blockCpu"
    /\ Cpu!Serviced(<<Here, producer.b>>)
    /\ worker' = [worker EXCEPT ![<<Here, producer.b>>] = "running"]
    /\ IF producer.b < Entries[Here].blocks
       THEN /\ producer' = [producer EXCEPT !.pc = "block", !.b = @ + 1]
            /\ UNCHANGED readersEnd
       ELSE /\ producer' = NextEntry
            /\ readersEnd' = readersEnd \cup {Here}
    /\ UNCHANGED <<main, writeOps, opsClosed, opReady, readers, ready,
                   outcomeVars, memVars>>

\* Reading the dictionary of a later block fails.
DictionaryFails ==
    /\ producer.pc = "blockCpu"
    /\ producer.b > 1
    /\ Here \in Fallible
    /\ Cpu!Serviced(<<Here, producer.b>>)
    /\ producer' = [producer EXCEPT !.pc = "report"]
    /\ UNCHANGED <<worker, main, channelVars, outcomeVars, memVars>>

\* All mappings are queued: the deferred close(z.writeOps).
ProducerReturns ==
    /\ producer.pc = "add"
    /\ Here \notin Ids
    /\ producer' = [producer EXCEPT !.pc = "returned"]
    /\ opsClosed' = TRUE
    /\ UNCHANGED <<worker, main, writeOps, opReady, readers, readersEnd, ready,
                   outcomeVars, cpuVars, memVars, stop>>

Producer ==
    /\ Alive
    /\ \/ AddFails \/ QueueReadyEntry \/ QueueFile \/ RequestMemory \/ StartFile
       \/ QueueBlock \/ StartBlock \/ DictionaryFails \/ ProducerReturns
-----------------------------------------------------------------------------
(* The goroutines that compress *)

\* compressWholeFile: crc and compressed bytes are there; give the CPU back.
CompressWhole(e) ==
    /\ Whole(e)
    /\ worker[<<e, 0>>] = "running"
    /\ worker' = [worker EXCEPT ![<<e, 0>>] = "finishing"]
    /\ readers' = [readers EXCEPT ![e] = <<1>>]
    /\ readersEnd' = readersEnd \cup {e}
    /\ ready' = ready \cup {<<e, 1>>}
    /\ Cpu!Finish(<<e, 0>>)
    /\ UNCHANGED <<producer, main, writeOps, opsClosed, opReady, outcomeVars, memVars>>

\* ... and hand the zipEntry over once Finish has returned.
DeliverWhole(e) ==
    /\ Whole(e)
    /\ worker[<<e, 0>>] = "finishing"
    /\ cpuJob[<<e, 0>>] = "done"
    /\ worker' = [worker EXCEPT ![<<e, 0>>] = "returned"]
    /\ opReady' = opReady \cup {e}
    /\ UNCHANGED <<producer, main, writeOps, opsClosed, readers, readersEnd, ready,
                   outcomeVars, cpuVars, memVars, stop>>

\* Defect: crcFile keeps its CPU.
DeliverCrcKeepingCpu(e) ==
    /\ ~ Whole(e)
    /\ worker[<<e, 0>>] = "running"
    /\ worker' = [worker EXCEPT ![<<e, 0>>] = "returned"]
    /\ opReady' = opReady \cup {e}
    /\ UNCHANGED <<producer, main, writeOps, opsClosed, readers, readersEnd, ready,
                   outcomeVars, cpuVars, memVars, stop>>

\* crcFile hands the zipEntry over, then its deferred Finish.
DeliverCrc(e) ==
    /\ ~ Whole(e)
    /\ worker[<<e, 0>>] = "running"
    /\ worker' = [worker EXCEPT ![<<e, 0>>] = "returned"]
    /\ opReady' = opReady \cup {e}
    /\ Cpu!Finish(<<e, 0>>)
    /\ UNCHANGED <<producer, main, writeOps, opsClosed, readers, readersEnd, ready,
                   outcomeVars, memVars>>

\* compressPartialFile gives the CPU back as soon as the block is compressed.
CompressBlock(j) ==
    /\ j[2] > 0
    /\ worker[j] = "running"
    /\ worker' = [worker EXCEPT ![j] = "finishing"]
    /\ Cpu!Finish(j)
    /\ UNCHANGED <<producer, main, channelVars, outcomeVars, memVars>>

\* ... and then puts the block into its result channel.
DeliverBlock(j) ==
    /\ j[2] > 0
    /\ worker[j] = "finishing"
    /\ cpuJob[j] = "done"
    /\ worker' = [worker EXCEPT ![j] = "returned"]
    /\ ready' = ready \cup {j}
    /\ UNCHANGED <<producer, main, writeOps, opsClosed, opReady, readers, readersEnd,
                   outcomeVars, cpuVars, memVars, stop>>

\* Reading or compressing fails; the slot is kept until the error is sent.
WorkerFails(j) ==
    /\ worker[j] = "running"
    /\ j[1] \in Fallible
    /\ worker' = [worker EXCEPT ![j] = "report"]
    /\ UNCHANGED <<producer, main, channelVars, outcomeVars, cpuVars, memVars, stop>>

Worker(j) ==
    /\ Alive
    /\ \/ CompressWhole(j[1]) /\ j[2] = 0
       \/ DeliverWhole(j[1]) /\ j[2] = 0
       \/ DeliverCrc(j[1]) /\ j[2] = 0
       \/ CompressBlock(j)
       \/ DeliverBlock(j)
       \/ WorkerFails(j)
-----------------------------------------------------------------------------
(* The limiters' monitors *)

CpuMonitor ==
    /\ Alive
    /\ \/ \E j \in CpuJobs : Cpu!ReceiveRequest(j) \/ Cpu!ReceiveCompletion(j)
       \/ Cpu!MonitorReturn
    /\ UNCHANGED <<producer, worker, main, channelVars, outcomeVars, memVars>>

MemMonitor ==
    /\ Alive
    /\ \/ \E e \in Files : Mem!ReceiveRequest(e) \/ Mem!ReceiveCompletion(e)
       \/ Mem!MonitorReturn
    /\ UNCHANGED <<producer, worker, main, channelVars, outcomeVars, cpuVars>>
-----------------------------------------------------------------------------
(* main: the select loop of write *)

\* The next entry of the archive.
TakeOp ==
    /\ main.pc = "op"
    /\ writeOps # <<>>
    /\ main' = [main EXCEPT !.pc = "entry", !.e = Head(writeOps)]
    /\ writeOps' = Tail(writeOps)
    /\ UNCHANGED <<producer, worker, opsClosed, opReady, readers, readersEnd, ready,
                   outcomeVars, cpuVars, memVars, stop>>

\* Defect: an empty channel is taken for a closed one.
OpsDrained ==
    /\ main.pc = "op"
    /\ writeOps = <<>>
    /\ main' = [main EXCEPT !.pc = "last"]
    /\ UNCHANGED <<producer, worker, channelVars, outcomeVars, cpuVars, memVars, stop>>

\* writeOps is closed and drained: leave the loop.
OpsClosed ==
    /\ main.pc = "op"
    /\ writeOps = <<>>
    /\ opsClosed
    /\ main' = [main EXCEPT !.pc = "last"]
    /\ UNCHANGED <<producer, worker, channelVars, outcomeVars, cpuVars, memVars, stop>>

\* The zipEntry arrives: write its header and call memory Finish.  Finish(0)
\* of a directory or a symlink changes nothing in the limiter.
TakeEntry ==
    /\ main.pc = "entry"
    /\ main.e \in opReady
    /\ archive' = Append(archive, <<main.e, 0>>)
    /\ opReady' = opReady \ {main.e}
    /\ IF main.e \in Files
       THEN /\ Mem!Finish(main.e)
            /\ main' = [main EXCEPT !.pc = "finish"]
       ELSE /\ main' = [main EXCEPT !.pc = "readers"]
            /\ UNCHANGED <<memVars, stop>>
    /\ UNCHANGED <<producer, worker, writeOps, opsClosed, readers, readersEnd, ready,
                   result, errors, outFile, panicked, cpuVars>>

\* memoryRateLimiter.Finish returns.
MemoryFinished ==
    /\ main.pc = "finish"
    /\ memJob[main.e] = "done"
    /\ main' = [main EXCEPT !.pc = "readers"]
    /\ UNCHANGED <<producer, worker, channelVars, outcomeVars, cpuVars, memVars, stop>>

\* The next block of the entry, whether or not it is compressed yet.
TakeReader ==
    /\ main.pc = "readers"
    /\ readers[main.e] # <<>>
    /\ main' = [main EXCEPT !.pc = "reader", !.b = Head(readers[main.e])]
    /\ readers' = [readers EXCEPT ![main.e] = Tail(@)]
    /\ UNCHANGED <<producer, worker, writeOps, opsClosed, opReady, readersEnd, ready,
                   outcomeVars, cpuVars, memVars, stop>>

\* Defect: main does not wait for the blocks that are still to be queued.
ReadersDrained ==
    /\ main.pc = "readers"
    /\ readers[main.e] = <<>>
    /\ main' = [main EXCEPT !.pc = "op", !.b = 0]
    /\ UNCHANGED <<producer, worker, channelVars, outcomeVars, cpuVars, memVars, stop>>

\* futureReaders is closed and drained (nil for a directory): next entry.
ReadersClosed ==
    /\ main.pc = "readers"
    /\ readers[main.e] = <<>>
    /\ main.e \in readersEnd
    /\ main' = [main EXCEPT !.pc = "op", !.b = 0]
    /\ UNCHANGED <<producer, worker, channelVars, outcomeVars, cpuVars, memVars, stop>>

\* Copy the block into the archive.
CopyReader ==
    /\ main.pc = "reader"
    /\ <<main.e, main.b>> \in ready
    /\ archive' = Append(archive, <<main.e, main.b>>)
    /\ ready' = ready \ {<<main.e, main.b>>}
    /\ main' = [main EXCEPT !.pc = "readers"]
    /\ UNCHANGED <<producer, worker, writeOps, opsClosed, opReady, readers, readersEnd,
                   result, errors, outFile, panicked, cpuVars, memVars, stop>>

\* Creating the header or copying the block fails: return the error.
WriteFails ==
    /\ \/ main.pc = "entry" /\ main.e \in opReady
       \/ main.pc = "reader" /\ <<main.e, main.b>> \in ready
    /\ OutputMayFail
    /\ result' = "error"
    /\ main' = [main EXCEPT !.pc = "stop"]
    /\ UNCHANGED <<producer, worker, channelVars, archive, errors, outFile, panicked,
                   cpuVars, memVars, stop>>

\* Every select of main also receives from z.errors.
Listening == main.pc \in {"op", "entry", "readers", "reader", "last"}

\* A rendezvous on z.errors with the producer, which then closes writeOps.
ReceiveProducerError ==
    /\ Listening
    /\ producer.pc = "report"
    /\ producer' = [producer EXCEPT !.pc = "returned"]
    /\ opsClosed' = TRUE
    /\ result' = "error"
    /\ main' = [main EXCEPT !.pc = "stop"]
    /\ UNCHANGED <<worker, writeOps, opReady, readers, readersEnd, ready,
                   archive, errors, outFile, panicked, cpuVars, memVars, stop>>

\* A rendezvous with a worker; only crcFile gives its CPU back after it.
ReceiveWorkerError(j) ==
    /\ Listening
    /\ worker[j] = "report"
    /\ worker' = [worker EXCEPT ![j] = "returned"]
    /\ IF j[2] = 0 /\ ~ Whole(j[1])
       THEN Cpu!Finish(j)
       ELSE UNCHANGED <<cpuVars, stop>>
    /\ result' = "error"
    /\ main' = [main EXCEPT !.pc = "stop"]
    /\ UNCHANGED <<producer, channelVars, archive, errors, outFile, panicked, memVars>>

\* "One last chance to catch an error": nobody is sending at this moment.
ReturnOk ==
    /\ main.pc = "last"
    /\ result' = "ok"
    /\ main' = [main EXCEPT !.pc = "stop"]
    /\ UNCHANGED <<producer, worker, channelVars, archive, errors, outFile, panicked,
                   cpuVars, memVars, stop>>

\* The deferred calls of write, last one first: stop both limiters ...
StopLimiters ==
    /\ main.pc = "stop"
    /\ Cpu!Stop
    /\ Mem!Stop
    /\ main' = [main EXCEPT !.pc = "close"]
    /\ UNCHANGED <<producer, worker, channelVars, outcomeVars>>

\* ... then close z.errors.
CloseErrors ==
    /\ main.pc = "close"
    /\ errors' = "closed"
    /\ main' = [main EXCEPT !.pc = "zip"]
    /\ UNCHANGED <<producer, worker, channelVars, archive, result, outFile, panicked,
                   cpuVars, memVars, stop>>

\* Zip: keep the archive, or remove the output of a failed run; the command
\* exits, whatever other goroutines still do.
Exit ==
    /\ main.pc = "zip"
    /\ outFile' = IF result = "ok" THEN "complete" ELSE "removed"
    /\ main' = [main EXCEPT !.pc = "exit"]
    /\ UNCHANGED <<producer, worker, channelVars, archive, result, errors, panicked,
                   cpuVars, memVars, stop>>

Main ==
    /\ Alive
    /\ \/ TakeOp \/ OpsClosed \/ TakeEntry \/ MemoryFinished
       \/ TakeReader \/ ReadersClosed \/ CopyReader \/ WriteFails
       \/ ReceiveProducerError \/ (\E j \in CpuJobs : ReceiveWorkerError(j))
       \/ ReturnOk \/ StopLimiters \/ CloseErrors \/ Exit

Reporting ==
    producer.pc = "report" \/ \E j \in CpuJobs : worker[j] = "report"

\* Go panics when a goroutine sends on a closed channel.
SendOnClosed ==
    /\ Alive
    /\ errors = "closed"
    /\ Reporting
    /\ panicked' = TRUE
    /\ UNCHANGED <<producer, worker, main, channelVars, archive, result, errors, outFile,
                   cpuVars, memVars, stop>>

Next ==
    \/ Producer
    \/ \E j \in CpuJobs : Worker(j)
    \/ CpuMonitor
    \/ MemMonitor
    \/ Main
    \/ SendOnClosed

Spec == Init /\ [][Next]_vars

\* The Go scheduler runs every goroutine that stays runnable.
FairSpec ==
    /\ Spec
    /\ WF_vars(Producer)
    /\ \A j \in CpuJobs : WF_vars(Worker(j))
    /\ WF_vars(CpuMonitor)
    /\ WF_vars(MemMonitor)
    /\ WF_vars(Main)
-----------------------------------------------------------------------------
\* The blocks of an entry in the archive; a symlink's is its target.
BlocksOf(e) ==
    IF Entries[e].kind = "dir" THEN 0
    ELSE IF Entries[e].kind = "symlink" \/ Whole(e) THEN 1
    ELSE Entries[e].blocks

\* What the archive consists of, and the order in which one that writes the
\* mappings one after the other would write it.
Pieces == UNION {{e} \X (0 .. BlocksOf(e)) : e \in Ids}
Before(p, q) == p[1] < q[1] \/ (p[1] = q[1] /\ p[2] < q[2])

(***************************************************************************)
(* However the compressors interleave, the archive is the one a sequential *)
(* writer would produce: entries in the order of pathMappings, each header *)
(* before its blocks, and the blocks in order, none missing, none twice.   *)
(***************************************************************************)
ArchiveInOrder ==
    /\ \A i, k \in DOMAIN archive : i < k => Before(archive[i], archive[k])
    /\ \A q \in Range(archive) :
          q \in Pieces /\ \A p \in Pieces : Before(p, q) => p \in Range(archive)

(***************************************************************************)
(* write returns nil only for a complete archive, and only if no goroutine *)
(* has an error left to report: the last select cannot miss one.           *)
(***************************************************************************)
SuccessIsComplete ==
    result = "ok" => Pieces \subseteq Range(archive) /\ ~ Reporting

\* The files that are, or will be, buffered and wait for main to reach them.
Buffered == {e \in Files : worker[<<e, 0>>] # "none" /\ <<e, 0>> \notin Range(archive)}

(***************************************************************************)
(* No more goroutines read and compress at one time than the CPU limiter   *)
(* allows (zip.go:452), although the slot is requested by the producer and *)
(* given back by the worker; and the files compressed ahead of main fit    *)
(* into the memory capacity, or a single oversize one is alone.  The entry *)
(* main is copying is not counted: write calls Finish when it has written  *)
(* the header.                                                             *)
(***************************************************************************)
LimitsHold ==
    /\ Cardinality({j \in CpuJobs : worker[j] \in {"running", "report"}}) <= NumParallelJobs
    /\ Mem!WithinCapacity(Buffered)

(***************************************************************************)
(* A goroutine can meet the closed errors channel only after write has     *)
(* failed for another reason: a run that succeeds never panics.            *)
(***************************************************************************)
PanicOnlyAfterError == panicked => result = "error"

(***************************************************************************)
(* soong_zip ends: producer, compressors, limiters and writer never wait   *)
(* for each other in a circle, with the queue full, all CPUs taken, a file *)
(* larger than the memory capacity, and with any of them failing.          *)
(***************************************************************************)
Terminates == <>(main.pc = "exit" \/ panicked)
=============================================================================
