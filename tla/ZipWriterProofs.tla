--------------------------- MODULE ZipWriterProofs ---------------------------
(***************************************************************************)
(* The pipeline of soong_zip, for any entries, blocks and sizes, any       *)
(* limits, and wherever reading or writing fails.                          *)
(***************************************************************************)
EXTENDS ZipWriter, TLAPS

Asking == {"cpu", "memory"}
Blocking == {"block", "blockCpu"}
Loop == {"op", "entry", "finish", "readers", "reader", "last"}
AtEntryOf == {"entry", "finish", "readers", "reader"}
Left == {"stop", "close", "zip", "exit"}

ProducerType ==
    /\ producer \in [pc : {"add", "report", "returned"} \cup Asking \cup Blocking, e : Nat, b : Nat]
    /\ producer.e \in 1 .. Len(Entries) + 1
    /\ producer.pc \in Asking \cup Blocking => producer.e \in Files
WorkerType == worker \in [CpuJobs -> {"none", "running", "finishing", "report", "returned"}]
MainType ==
    /\ main \in [pc : Loop \cup Left, e : Nat, b : Nat]
    /\ main.pc \in AtEntryOf => main.e \in Ids
ChannelTypes ==
    /\ writeOps \in Seq(Ids)
    /\ readers \in [Ids -> Seq(Nat)]
    /\ archive \in Seq(Nat \X Nat)

TypeInv == ProducerType /\ WorkerType /\ MainType /\ ChannelTypes

\* The goroutine of job j has not been started.
NotStarted(j) ==
    \/ j[1] > producer.e
    \/ /\ j[1] = producer.e
       /\ \/ producer.pc \in {"add"} \cup Asking
          \/ producer.pc \in Blocking /\ j[2] >= producer.b

StartedInv ==
    /\ \A j \in CpuJobs : NotStarted(j) => worker[j] = "none"
    /\ producer.pc \in Blocking => producer.b \in 1 .. Entries[Here].blocks

\* Whoever reads or compresses has its slot, and a file that main has not
\* reached has its memory.
SlotInv ==
    /\ \A j \in CpuJobs : worker[j] \in {"running", "report"} => cpuJob[j] = "executing"
    /\ producer.pc = "memory" => cpuJob[<<Here, 0>>] = "executing"
    /\ \A e \in Buffered : memJob[e] = "executing"
-----------------------------------------------------------------------------
\* The entries between main and the producer are in writeOps.
QueueInv ==
    /\ \A i \in 1 .. Len(writeOps) : writeOps[i] = main.e + i
    /\ producer.pc \in {"add", "returned"} => main.e + Len(writeOps) = producer.e - 1
    /\ producer.pc \in Asking \cup Blocking => main.e + Len(writeOps) = producer.e
    /\ producer.pc = "returned" => producer.e = Len(Entries) + 1
    /\ opsClosed => producer.pc = "returned"
    /\ main.pc = "last" => opsClosed /\ writeOps = <<>>

\* Main has all of entry e, and how many blocks it has taken of it.
Done(e) == e < main.e \/ (e = main.e /\ main.pc \in {"op", "last"})
Taken(e) == IF Done(e) THEN BlocksOf(e) ELSE IF e = main.e THEN main.b ELSE 0

\* How many have been put into the futureReaders of e.
Given(e) == Taken(e) + Len(readers[e])

\* Nothing has been put there, nor will be before the next step of e.
Untouched(e) ==
    \/ e > producer.e
    \/ e = producer.e /\ producer.pc \in {"add"} \cup Asking
    \/ e \in Files /\ Whole(e) /\ worker[<<e, 0>>] \in {"running", "report"}

\* futureReaders has the blocks main has yet to take, in order ...
TakenInv ==
    /\ main.pc \notin {"readers", "reader"} => main.b = 0
    /\ main.pc = "reader" => main.b # 0
    /\ \A e \in Ids : \A i \in 1 .. Len(readers[e]) : readers[e][i] = Taken(e) + i

\* ... and it is closed once all of them have been there.
GivenInv ==
    /\ \A e \in Ids : Given(e) <= BlocksOf(e)
    /\ \A e \in Ids : e \in readersEnd => Given(e) = BlocksOf(e)
    /\ \A e \in Ids : Done(e) => e \in readersEnd
    /\ \A e \in Ids : Untouched(e) => Given(e) = 0 /\ e \notin readersEnd
    /\ producer.pc = "block" => Given(producer.e) = producer.b - 1 /\ producer.e \notin readersEnd
    /\ producer.pc = "blockCpu" => Given(producer.e) = producer.b /\ producer.e \notin readersEnd

\* The first piece that main has not written.
Position ==
    IF main.pc \in {"op", "last"} THEN <<main.e + 1, 0>>
    ELSE IF main.pc = "entry" THEN <<main.e, 0>>
    ELSE IF main.pc = "reader" THEN <<main.e, main.b>>
    ELSE <<main.e, main.b + 1>>

WrittenInv == Range(archive) = {p \in Pieces : Before(p, Position)}

\* What main has, or can have, of a goroutine is the last thing it does.
DeliveredInv ==
    /\ \A e \in Files : e \in opReady \/ <<e, 0>> \in Range(archive) => worker[<<e, 0>>] = "returned"
    /\ \A j \in CpuJobs : j[2] > 0 /\ (j \in ready \/ j \in Range(archive)) => worker[j] = "returned"

AllReturned ==
    /\ producer.pc = "returned"
    /\ \A j \in CpuJobs : worker[j] = "returned"
    /\ Pieces \subseteq Range(archive)

\* While main is in its loop, and after it.
LoopInv == QueueInv /\ TakenInv /\ GivenInv /\ WrittenInv /\ result = "none"
EndInv ==
    /\ result \in {"ok", "error"}
    /\ result = "ok" => AllReturned

PipeInv ==
    /\ ArchiveInOrder
    /\ DeliveredInv
    /\ main.pc \in Loop => LoopInv
    /\ main.pc \in Left => EndInv
    /\ errors = "closed" => main.pc \in Left
    /\ panicked => result = "error"
-----------------------------------------------------------------------------
(* Types *)

\* The CPU jobs are those of the files.
LEMMA JobsOfFiles ==
    /\ \A e \in Files : <<e, 0>> \in CpuJobs
    /\ \A e \in Files : \A b \in 1 .. Entries[e].blocks : <<e, b>> \in CpuJobs
    /\ \A j \in CpuJobs : /\ j = <<j[1], j[2]>> /\ j[1] \in Files
                          /\ j[2] \in Nat /\ j[2] \in 0 .. Entries[j[1]].blocks
    /\ Ids = 1 .. Len(Entries) /\ Len(Entries) \in Nat
    /\ \A e \in Ids : Entries[e].kind \in {"dir", "symlink", "file"} /\ Entries[e].blocks \in Nat
<1>1. Ids = 1 .. Len(Entries) /\ Len(Entries) \in Nat
  BY EntriesAssumption, SMTT(30) DEF Ids
<1>2. \A e \in Ids : Entries[e].kind \in {"dir", "symlink", "file"} /\ Entries[e].blocks \in Nat
  <2> DEFINE S == [kind : {"dir", "symlink", "file"}, blocks : Nat, size : Nat]
  <2>1. Entries \in Seq(S)
    BY EntriesAssumption, Zenon
  <2>2. \A x \in S : x.kind \in {"dir", "symlink", "file"} /\ x.blocks \in Nat
    BY Zenon
  <2> HIDE DEF S
  <2>3. \A e \in Ids : Entries[e] \in S
    BY <2>1, SMTT(30) DEF Ids
  <2> QED
    BY <2>2, <2>3, Zenon
<1>3. \A e \in Files : e \in Ids
  BY Zenon DEF Files
<1>4. \A j \in CpuJobs : \E e \in Files : \E b \in 0 .. Entries[e].blocks : j = <<e, b>>
  BY SMTT(30) DEF CpuJobs
<1>5. \A e \in Files : \A b \in 0 .. Entries[e].blocks : <<e, b>> \in CpuJobs
  BY SMTT(30) DEF CpuJobs
<1>6. \A e \in Files : 0 \in 0 .. Entries[e].blocks /\ \A b \in 1 .. Entries[e].blocks : b \in 0 .. Entries[e].blocks
  BY <1>2, <1>3, SMTT(30)
<1> QED
  BY <1>1, <1>2, <1>3, <1>4, <1>5, <1>6, SMTT(30)

\* A step of the producer keeps the types.
LEMMA ProducerTypes ==
    ASSUME TypeInv, StartedInv, Producer
    PROVE  TypeInv'
<1>1. ASSUME ProducerType', WorkerType', ChannelTypes', UNCHANGED main PROVE TypeInv'
  BY <1>1, Zenon DEF TypeInv, MainType
<1>2. ProducerType /\ WorkerType /\ ChannelTypes
  BY Zenon DEF TypeInv
<1>3. Ids = 1 .. Len(Entries) /\ Len(Entries) \in Nat
  BY JobsOfFiles, Zenon
<1>4. CASE AddFails \/ RequestMemory \/ DictionaryFails \/ ProducerReturns
  <2>1. /\ producer' \in {[producer EXCEPT !.pc = "report"], [producer EXCEPT !.pc = "memory"], [producer EXCEPT !.pc = "returned"]}
        /\ producer'.pc = "memory" => producer.pc = "cpu"
        /\ UNCHANGED <<worker, main, writeOps, readers, archive>>
    BY <1>2, <1>4, Zenon DEF AddFails, RequestMemory, DictionaryFails, ProducerReturns, channelVars, outcomeVars, ProducerType
  <2>2. ProducerType'
    BY <1>2, <2>1, Zenon DEF ProducerType, Asking, Blocking
  <2> QED
    BY <1>1, <1>2, <2>1, <2>2, Zenon DEF WorkerType, ChannelTypes
<1>5. ASSUME Here \in Ids, producer' = NextEntry PROVE ProducerType'
  BY <1>2, <1>3, <1>5, SMTT(30) DEF ProducerType, NextEntry, Here, Asking, Blocking
<1>6. CASE QueueReadyEntry
  <2>1. Here \in Ids /\ producer' = NextEntry /\ UNCHANGED <<worker, main, archive>>
    BY <1>6, Zenon DEF QueueReadyEntry, AtEntry, outcomeVars
  <2>2. writeOps' \in Seq(Ids)
    BY <1>2, <1>6, <2>1, SMTT(30) DEF QueueReadyEntry, ChannelTypes
  <2>3. readers' \in [Ids -> Seq(Nat)]
    <3>1. <<1>> \in Seq(Nat)
      BY SMTT(30)
    <3> QED
      BY <1>2, <1>6, <2>1, <3>1, Zenon DEF QueueReadyEntry, ChannelTypes
  <2> QED
    BY <1>1, <1>2, <1>5, <2>1, <2>2, <2>3, Zenon DEF WorkerType, ChannelTypes
<1>7. CASE QueueFile
  <2>1. Here \in Files /\ Here \in Ids /\ UNCHANGED <<worker, main, readers, archive>>
    BY <1>7, Zenon DEF QueueFile, AtEntry, Files, outcomeVars
  <2>2. writeOps' \in Seq(Ids)
    BY <1>2, <1>7, <2>1, SMTT(30) DEF QueueFile, ChannelTypes
  <2>3. producer' = [producer EXCEPT !.pc = "cpu"]
    BY <1>7, Zenon DEF QueueFile
  <2>4. ProducerType'
    BY <1>2, <2>1, <2>3, Zenon DEF ProducerType, Here, Asking, Blocking
  <2> QED
    BY <1>1, <1>2, <2>1, <2>2, <2>4, Zenon DEF WorkerType, ChannelTypes
<1>8. ASSUME NEW b \in Nat, NEW pc \in Blocking, producer' = [producer EXCEPT !.pc = pc, !.b = b],
             producer.pc \in Asking \cup Blocking
      PROVE  ProducerType'
  BY <1>2, <1>8, Zenon DEF ProducerType, Asking, Blocking
<1>9. CASE StartFile
  <2>1. Here \in Files /\ <<Here, 0>> \in CpuJobs /\ Here \in Ids /\ producer.pc \in Asking
    BY <1>2, <1>9, JobsOfFiles, Zenon DEF StartFile, Files, ProducerType, Here, Asking
  <2>2. WorkerType' /\ UNCHANGED <<main, writeOps, readers, archive>>
    BY <1>2, <1>9, <2>1, Zenon DEF StartFile, WorkerType, channelVars, outcomeVars
  <2>3. ProducerType'
    <3>1. 1 \in Nat /\ "block" \in Blocking
      BY Zenon DEF Blocking
    <3> QED
      BY <1>5, <1>8, <1>9, <2>1, <3>1, Zenon DEF StartFile
  <2> QED
    BY <1>1, <1>2, <2>2, <2>3, Zenon DEF ChannelTypes
<1>10. CASE QueueBlock
  <2>1. Here \in Ids /\ producer.b \in Nat /\ UNCHANGED <<worker, main, writeOps, archive>>
    BY <1>2, <1>10, Zenon DEF QueueBlock, Files, outcomeVars, ProducerType, Here, Blocking
  <2>2. readers' \in [Ids -> Seq(Nat)]
    BY <1>2, <1>10, <2>1, SMTT(30) DEF QueueBlock, ChannelTypes
  <2>3. producer' = [producer EXCEPT !.pc = "blockCpu"] /\ producer.pc = "block"
    BY <1>10, Zenon DEF QueueBlock
  <2>4. ProducerType'
    BY <1>2, <2>3, Zenon DEF ProducerType, Asking, Blocking
  <2> QED
    BY <1>1, <1>2, <2>1, <2>2, <2>4, Zenon DEF WorkerType, ChannelTypes
<1>11. CASE StartBlock
  <2>1. Here \in Files /\ <<Here, producer.b>> \in CpuJobs /\ Here \in Ids /\ producer.pc \in Blocking
    BY <1>2, <1>11, JobsOfFiles, Zenon DEF StartBlock, Files, StartedInv, ProducerType, Here, Blocking
  <2>2. WorkerType' /\ UNCHANGED <<main, writeOps, readers, archive>>
    BY <1>2, <1>11, <2>1, Zenon DEF StartBlock, WorkerType, outcomeVars
  <2>3. ProducerType'
    <3>1. producer.b + 1 \in Nat /\ "block" \in Blocking
      BY <1>2, SMTT(30) DEF Blocking, ProducerType
    <3>2. producer' = NextEntry \/ producer' = [producer EXCEPT !.pc = "block", !.b = producer.b + 1]
      BY <1>11, Zenon DEF StartBlock
    <3> QED
      BY <1>5, <1>8, <2>1, <3>1, <3>2, Zenon
  <2> QED
    BY <1>1, <1>2, <2>2, <2>3, Zenon DEF ChannelTypes
<1> QED
  BY <1>4, <1>6, <1>7, <1>9, <1>10, <1>11, Zenon DEF Producer

\* The goroutines that compress change their own state and channels.
LEMMA WorkerTypes ==
    ASSUME TypeInv, NEW j \in CpuJobs, Worker(j)
    PROVE  /\ TypeInv'
           /\ UNCHANGED <<producer, main, writeOps, opsClosed, archive, result, errors, panicked>>
           /\ worker[j] \in {"running", "finishing"}
           /\ \E w \in {"finishing", "report", "returned"} : worker' = [worker EXCEPT ![j] = w]
<1>1. j[1] \in Ids /\ (j[2] = 0 => j = <<j[1], 0>>)
  BY JobsOfFiles, Zenon DEF Files
<1>2. UNCHANGED <<producer, main, writeOps, opsClosed, archive, result, errors, panicked>>
  BY Zenon DEF Worker, CompressWhole, DeliverWhole, DeliverCrc, CompressBlock, DeliverBlock, WorkerFails,
         channelVars, outcomeVars
<1>3. /\ worker[j] \in {"running", "finishing"}
      /\ \E w \in {"finishing", "report", "returned"} : worker' = [worker EXCEPT ![j] = w]
  BY <1>1, Zenon DEF Worker, CompressWhole, DeliverWhole, DeliverCrc, CompressBlock, DeliverBlock, WorkerFails
<1>4. readers' = readers \/ readers' = [readers EXCEPT ![j[1]] = <<1>>]
  BY Zenon DEF Worker, CompressWhole, DeliverWhole, DeliverCrc, CompressBlock, DeliverBlock, WorkerFails, channelVars
<1>5. readers' \in [Ids -> Seq(Nat)]
  <2>1. <<1>> \in Seq(Nat)
    BY SMTT(30)
  <2> QED
    BY <1>1, <1>4, <2>1, Zenon DEF TypeInv, ChannelTypes
<1>6. WorkerType'
  BY <1>3, Zenon DEF TypeInv, WorkerType
<1> QED
  BY <1>2, <1>3, <1>5, <1>6, Zenon DEF TypeInv, ProducerType, MainType, ChannelTypes

\* Main moves on.
LEMMA MainTypes ==
    ASSUME TypeInv, Main
    PROVE  TypeInv'
<1>1. ProducerType /\ WorkerType /\ MainType /\ ChannelTypes
  BY Zenon DEF TypeInv
<1>2. ASSUME NEW pc \in Loop \cup Left, main' = [main EXCEPT !.pc = pc],
             pc \in AtEntryOf => main.pc \in AtEntryOf
      PROVE  MainType'
  BY <1>1, <1>2, Zenon DEF MainType
<1>3. CASE TakeOp
  <2>1. /\ UNCHANGED <<producer, worker, readers, archive>> /\ writeOps # <<>>
        /\ main' = [main EXCEPT !.pc = "entry", !.e = Head(writeOps)] /\ writeOps' = Tail(writeOps)
    BY <1>3, Zenon DEF TakeOp, outcomeVars
  <2>2. Head(writeOps) \in Ids /\ writeOps' \in Seq(Ids)
    BY <1>1, <2>1, SMTT(30) DEF ChannelTypes
  <2>3. Head(writeOps) \in Nat
    BY <2>2, JobsOfFiles, SMTT(30)
  <2>4. MainType'
    BY <1>1, <2>1, <2>2, <2>3, Zenon DEF MainType, Loop
  <2> QED
    BY <1>1, <2>1, <2>2, <2>4, Zenon DEF TypeInv, ProducerType, WorkerType, ChannelTypes
<1>4. CASE TakeReader
  <2>1. /\ UNCHANGED <<producer, worker, writeOps, archive>> /\ readers[main.e] # <<>>
        /\ main' = [main EXCEPT !.pc = "reader", !.b = Head(readers[main.e])]
        /\ readers' = [readers EXCEPT ![main.e] = Tail(readers[main.e])]
        /\ main.e \in Ids
    BY <1>1, <1>4, Zenon DEF TakeReader, outcomeVars, MainType, AtEntryOf
  <2>2. Head(readers[main.e]) \in Nat /\ Tail(readers[main.e]) \in Seq(Nat)
    BY <1>1, <2>1, SMTT(30) DEF ChannelTypes
  <2>3. MainType'
    BY <1>1, <2>1, <2>2, Zenon DEF MainType, Loop
  <2>4. readers' \in [Ids -> Seq(Nat)]
    BY <1>1, <2>1, <2>2, Zenon DEF ChannelTypes
  <2> QED
    BY <1>1, <2>1, <2>3, <2>4, Zenon DEF TypeInv, ProducerType, WorkerType, ChannelTypes
<1>5. CASE TakeEntry \/ CopyReader
  <2>1. /\ UNCHANGED <<producer, worker, writeOps, readers>>
        /\ main.pc \in AtEntryOf
        /\ \E pc \in {"finish", "readers"} : main' = [main EXCEPT !.pc = pc]
        /\ \E b \in {0, main.b} : archive' = Append(archive, <<main.e, b>>)
    BY <1>5, Zenon DEF TakeEntry, CopyReader, AtEntryOf
  <2>2. main.e \in Nat /\ main.b \in Nat
    BY <1>1, Zenon DEF MainType
  <2>3. archive' \in Seq(Nat \X Nat)
    <3>1. PICK b \in {0, main.b} : archive' = Append(archive, <<main.e, b>>)
      BY <2>1, Zenon
    <3>2. <<main.e, b>> \in Nat \X Nat
      BY <2>2, <3>1, SMTT(30)
    <3> QED
      BY <1>1, <3>1, <3>2, SMTT(30) DEF ChannelTypes
  <2>4. MainType'
    BY <1>2, <2>1, Zenon DEF Loop
  <2> QED
    BY <1>1, <2>1, <2>3, <2>4, Zenon DEF TypeInv, ProducerType, WorkerType, ChannelTypes
<1>6. CASE ReadersClosed
  <2>1. UNCHANGED <<producer, worker, writeOps, readers, archive>> /\ main' = [main EXCEPT !.pc = "op", !.b = 0]
    BY <1>6, Zenon DEF ReadersClosed, channelVars, outcomeVars
  <2>2. MainType'
    BY <1>1, <2>1, Zenon DEF MainType, Loop, AtEntryOf
  <2> QED
    BY <1>1, <2>1, <2>2, Zenon DEF TypeInv, ProducerType, WorkerType, ChannelTypes
<1>7. CASE OpsClosed \/ MemoryFinished \/ WriteFails \/ ReturnOk \/ StopLimiters \/ CloseErrors \/ Exit
  <2>1. /\ UNCHANGED <<producer, worker, writeOps, readers, archive>>
        /\ \E pc \in Loop \cup Left : main' = [main EXCEPT !.pc = pc] /\ (pc \in AtEntryOf => main.pc \in AtEntryOf)
    BY <1>7, Zenon DEF OpsClosed, MemoryFinished, WriteFails, ReturnOk, StopLimiters, CloseErrors, Exit,
                channelVars, outcomeVars, Loop, Left, AtEntryOf
  <2> QED
    BY <1>1, <1>2, <2>1, Zenon DEF TypeInv, ProducerType, WorkerType, ChannelTypes
<1>8. CASE ReceiveProducerError
  <2>1. /\ UNCHANGED <<worker, writeOps, readers, archive>> /\ main' = [main EXCEPT !.pc = "stop"]
        /\ producer' = [producer EXCEPT !.pc = "returned"]
    BY <1>8, Zenon DEF ReceiveProducerError
  <2>2. ProducerType'
    BY <1>1, <2>1, Zenon DEF ProducerType, Asking, Blocking
  <2>3. MainType'
    BY <1>2, <2>1, Zenon DEF Left, AtEntryOf
  <2> QED
    BY <1>1, <2>1, <2>2, <2>3, Zenon DEF TypeInv, WorkerType, ChannelTypes
<1>9. ASSUME NEW j \in CpuJobs, ReceiveWorkerError(j) PROVE TypeInv'
  <2>1. /\ UNCHANGED <<producer, writeOps, readers, archive>> /\ main' = [main EXCEPT !.pc = "stop"]
        /\ worker' = [worker EXCEPT ![j] = "returned"]
    BY <1>9, Zenon DEF ReceiveWorkerError, channelVars
  <2>2. WorkerType'
    BY <1>1, <2>1, Zenon DEF WorkerType
  <2>3. MainType'
    BY <1>2, <2>1, Zenon DEF Left, AtEntryOf
  <2> QED
    BY <1>1, <2>1, <2>2, <2>3, Zenon DEF TypeInv, ProducerType, ChannelTypes
<1> QED
  BY <1>3, <1>4, <1>5, <1>6, <1>7, <1>8, <1>9, Zenon DEF Main

\* The limiters' monitors and a panic leave the pipeline alone.
LEMMA OthersKeep ==
    ASSUME CpuMonitor \/ MemMonitor \/ SendOnClosed \/ UNCHANGED vars
    PROVE  /\ UNCHANGED <<producer, worker, main, channelVars, archive, result, errors>>
           /\ panicked' = panicked \/ SendOnClosed
  BY Zenon DEF CpuMonitor, MemMonitor, SendOnClosed, vars, channelVars, outcomeVars

\* A step of the producer starts the goroutines in order, and each once.
LEMMA ProducerStarted ==
    ASSUME TypeInv, StartedInv, Producer
    PROVE  StartedInv'
<1>1. /\ producer.e \in Nat /\ producer.b \in Nat /\ worker \in [CpuJobs -> {"none", "running", "finishing", "report", "returned"}]
      /\ producer = [pc |-> producer.pc, e |-> producer.e, b |-> producer.b]
  BY Zenon DEF TypeInv, ProducerType, WorkerType
<1>2. \A j \in CpuJobs : j = <<j[1], j[2]>> /\ j[1] \in Nat /\ j[2] \in Nat
  BY JobsOfFiles, SMTT(30) DEF Files
<1>3. \A j \in CpuJobs : NotStarted(j) => worker[j] = "none"
  BY Zenon DEF StartedInv
<1>4. CASE AddFails \/ DictionaryFails \/ ProducerReturns
  <2>1. UNCHANGED worker /\ producer'.e = producer.e /\ producer'.pc \in {"report", "returned"}
    BY <1>1, <1>4, Zenon DEF AddFails, DictionaryFails, ProducerReturns
  <2> QED
    BY <1>3, <2>1, Zenon DEF StartedInv, NotStarted, Asking, Blocking
<1>5. CASE QueueReadyEntry
  <2>1. UNCHANGED worker /\ producer'.e = producer.e + 1 /\ producer'.pc = "add"
    BY <1>1, <1>5, Zenon DEF QueueReadyEntry, NextEntry
  <2> QED
    BY <1>1, <1>2, <1>3, <2>1, SMTT(30) DEF StartedInv, NotStarted, Asking, Blocking
<1>6. CASE QueueFile \/ RequestMemory
  <2>1. /\ UNCHANGED worker /\ producer'.e = producer.e
        /\ producer'.pc \in Asking /\ producer.pc \in {"add"} \cup Asking
    BY <1>1, <1>6, Zenon DEF QueueFile, RequestMemory, AtEntry, Asking
  <2> QED
    BY <1>3, <2>1, Zenon DEF StartedInv, NotStarted, Asking, Blocking
<1>7. CASE StartFile
  <2>1. /\ worker' = [worker EXCEPT ![<<producer.e, 0>>] = "running"] /\ producer.pc = "memory"
        /\ producer' = IF Whole(producer.e) THEN NextEntry ELSE [producer EXCEPT !.pc = "block", !.b = 1]
    BY <1>7, Zenon DEF StartFile, Here
  <2>2. \/ producer'.pc = "add" /\ producer'.e = producer.e + 1
        \/ producer'.pc = "block" /\ producer'.e = producer.e /\ producer'.b = 1
    BY <1>1, <2>1, Zenon DEF NextEntry
  <2>3. producer'.pc \in Blocking => producer'.b \in 1 .. Entries[producer'.e].blocks
    <3>1. producer.e \in Files /\ producer.e \in Ids
      BY <2>1, Zenon DEF TypeInv, ProducerType, Asking, Files
    <3>2. CASE ~ Whole(producer.e)
      <4>1. Entries[producer.e].blocks \in Nat /\ Entries[producer.e].blocks # 0
        BY <3>1, <3>2, JobsOfFiles, Zenon DEF Whole
      <4>2. producer'.b = 1 /\ producer'.e = producer.e
        BY <1>1, <2>1, <3>2, Zenon
      <4> QED
        BY <4>1, <4>2, SMTT(30)
    <3>3. CASE Whole(producer.e)
      BY <2>1, <3>3, Zenon DEF NextEntry, Blocking
    <3> QED
      BY <3>2, <3>3, Zenon
  <2>4. ASSUME NEW j \in CpuJobs, NotStarted(j)' PROVE worker'[j] = "none"
    <3>1. j # <<producer.e, 0>>
      BY <1>1, <1>2, <2>2, <2>4, SMTT(30) DEF NotStarted, Asking, Blocking
    <3>2. NotStarted(j)
      BY <1>1, <1>2, <2>1, <2>2, <2>4, SMTT(30) DEF NotStarted, Asking, Blocking
    <3> QED
      BY <1>1, <1>3, <2>1, <3>1, <3>2, Zenon
  <2> QED
    BY <2>3, <2>4, Zenon DEF StartedInv, Here
<1>8. CASE QueueBlock
  <2>1. /\ UNCHANGED worker /\ producer'.e = producer.e /\ producer'.b = producer.b
        /\ producer'.pc = "blockCpu" /\ producer.pc = "block"
    BY <1>1, <1>8, Zenon DEF QueueBlock
  <2> QED
    BY <1>3, <2>1, Zenon DEF StartedInv, NotStarted, Asking, Blocking, Here
<1>9. CASE StartBlock
  <2>1. /\ worker' = [worker EXCEPT ![<<producer.e, producer.b>>] = "running"] /\ producer.pc = "blockCpu"
        /\ \/ /\ producer.b < Entries[producer.e].blocks
              /\ producer'.pc = "block" /\ producer'.e = producer.e /\ producer'.b = producer.b + 1
           \/ producer'.pc = "add" /\ producer'.e = producer.e + 1
    <3>1. /\ worker' = [worker EXCEPT ![<<producer.e, producer.b>>] = "running"] /\ producer.pc = "blockCpu"
          /\ \/ /\ producer.b < Entries[producer.e].blocks
                /\ producer' = [producer EXCEPT !.pc = "block", !.b = producer.b + 1]
             \/ producer' = NextEntry
      BY <1>9, Zenon DEF StartBlock, Here
    <3>2. producer' = NextEntry => producer'.pc = "add" /\ producer'.e = producer.e + 1
      BY SMTT(30) DEF NextEntry
    <3>3. producer' = [producer EXCEPT !.pc = "block", !.b = producer.b + 1]
            => producer'.pc = "block" /\ producer'.e = producer.e /\ producer'.b = producer.b + 1
      BY Zenon DEF TypeInv, ProducerType
    <3> QED
      BY <3>1, <3>2, <3>3, Zenon
  <2>2. producer'.pc \in Blocking => producer'.b \in 1 .. Entries[producer'.e].blocks
    <3>1. producer.e \in Ids
      BY <2>1, Zenon DEF TypeInv, ProducerType, Blocking, Files
    <3>2. Entries[producer.e].blocks \in Nat
      BY <3>1, JobsOfFiles, Zenon
    <3> QED
      BY <1>1, <2>1, <3>2, SMTT(30) DEF Blocking
  <2>3. ASSUME NEW j \in CpuJobs, NotStarted(j)' PROVE worker'[j] = "none"
    <3>1. j # <<producer.e, producer.b>>
      BY <1>1, <1>2, <2>1, <2>3, SMTT(30) DEF NotStarted, Asking, Blocking
    <3>2. NotStarted(j)
      BY <1>1, <1>2, <2>1, <2>3, SMTT(30) DEF NotStarted, Asking, Blocking
    <3> QED
      BY <1>1, <1>3, <2>1, <3>1, <3>2, Zenon
  <2> QED
    BY <2>2, <2>3, Zenon DEF StartedInv, Here
<1> QED
  BY <1>4, <1>5, <1>6, <1>7, <1>8, <1>9, Zenon DEF Producer

\* Types and the order of starting hold throughout.
BaseInv == TypeInv /\ StartedInv

\* They hold in the first state.
LEMMA BaseInit == Init => BaseInv
<1> SUFFICES ASSUME Init PROVE BaseInv
  BY Zenon
<1>1. /\ producer = [pc |-> "add", e |-> 1, b |-> 0] /\ main = [pc |-> "op", e |-> 0, b |-> 0]
      /\ worker = [j \in CpuJobs |-> "none"] /\ writeOps = <<>> /\ archive = <<>>
      /\ readers = [e \in Ids |-> <<>>]
  BY Zenon DEF Init
<1>2. ProducerType
  BY <1>1, JobsOfFiles, SMTT(30) DEF ProducerType, Asking, Blocking
<1>3. MainType
  BY <1>1, Zenon DEF MainType, AtEntryOf, Loop
<1>4. WorkerType /\ ChannelTypes
  BY <1>1, SMTT(30) DEF WorkerType, ChannelTypes
<1>5. StartedInv
  BY <1>1, Zenon DEF StartedInv, Blocking
<1> QED
  BY <1>2, <1>3, <1>4, <1>5, Zenon DEF BaseInv, TypeInv

\* Every step keeps them.
LEMMA BaseNext == BaseInv /\ [Next]_vars => BaseInv'
<1> SUFFICES ASSUME TypeInv, StartedInv, [Next]_vars PROVE TypeInv' /\ StartedInv'
  BY Zenon DEF BaseInv
<1>1. CASE Producer
  BY <1>1, ProducerTypes, ProducerStarted, Zenon
<1>2. ASSUME UNCHANGED producer, NEW j \in CpuJobs, worker[j] # "none", NEW w, worker' = [worker EXCEPT ![j] = w]
      PROVE  StartedInv'
  BY <1>2, SMTT(30) DEF StartedInv, NotStarted, Here
<1>3. ASSUME NEW j \in CpuJobs, Worker(j) PROVE TypeInv' /\ StartedInv'
  <2>1. /\ TypeInv' /\ UNCHANGED producer
        /\ worker[j] \in {"running", "finishing"}
        /\ \E w \in {"finishing", "report", "returned"} : worker' = [worker EXCEPT ![j] = w]
    BY <1>3, WorkerTypes, Zenon
  <2> QED
    BY <1>2, <2>1, Zenon
<1>4. CASE Main
  <2>1. TypeInv'
    BY <1>4, MainTypes, Zenon
  <2>2. ASSUME NEW j \in CpuJobs, ReceiveWorkerError(j) PROVE StartedInv'
    BY <1>2, <2>2, Zenon DEF ReceiveWorkerError
  <2>3. CASE ReceiveProducerError
    <3>1. UNCHANGED worker /\ producer' = [producer EXCEPT !.pc = "returned"]
      BY <2>3, Zenon DEF ReceiveProducerError
    <3>2. producer'.e = producer.e /\ producer'.pc = "returned"
      BY <3>1, Zenon DEF TypeInv, ProducerType
    <3>3. \A j \in CpuJobs : NotStarted(j)' => NotStarted(j)
      BY <3>2, Zenon DEF NotStarted, Asking, Blocking
    <3> QED
      BY <2>1, <3>1, <3>2, <3>3, Zenon DEF StartedInv, Blocking
  <2>4. CASE UNCHANGED <<producer, worker>>
    BY <2>1, <2>4, Zenon DEF StartedInv, NotStarted, Here
  <2> QED
    BY <1>4, <2>1, <2>2, <2>3, <2>4, Zenon
    DEF Main, TakeOp, OpsClosed, TakeEntry, MemoryFinished, TakeReader, ReadersClosed, CopyReader,
        WriteFails, ReturnOk, StopLimiters, CloseErrors, Exit
<1>5. CASE CpuMonitor \/ MemMonitor \/ SendOnClosed \/ UNCHANGED vars
  <2>1. UNCHANGED <<producer, worker, main, writeOps, readers, archive>>
    BY <1>5, OthersKeep, Zenon DEF channelVars
  <2> QED
    BY <2>1, Zenon DEF TypeInv, ProducerType, WorkerType, MainType, ChannelTypes, StartedInv, NotStarted, Here
<1> QED
  BY <1>1, <1>3, <1>4, <1>5, Zenon DEF Next
-----------------------------------------------------------------------------
(* What the producer does while main is in its loop *)

\* The pieces of the archive and the jobs that make them.
LEMMA PieceFacts ==
    /\ \A e \in Ids : e \in Nat /\ BlocksOf(e) \in Nat
    /\ \A p \in Pieces : /\ p = <<p[1], p[2]>> /\ p[1] \in Ids /\ p[1] \in Nat /\ p[2] \in Nat
                        /\ p[2] <= BlocksOf(p[1])
    /\ \A e \in Ids : \A b \in Nat : b <= BlocksOf(e) => <<e, b>> \in Pieces
    /\ CpuJobs \subseteq Pieces
<1>1. \A e \in Ids : e \in Nat /\ BlocksOf(e) \in Nat
  BY JobsOfFiles, SMTT(30) DEF BlocksOf, Whole
<1>2. \A p \in Pieces : \E e \in Ids : \E b \in 0 .. BlocksOf(e) : p = <<e, b>>
  BY SMTT(30) DEF Pieces
<1>3. \A e \in Ids : \A b \in 0 .. BlocksOf(e) : <<e, b>> \in Pieces
  BY SMTT(30) DEF Pieces
<1>4. \A e \in Ids : \A b \in Nat : b <= BlocksOf(e) => <<e, b>> \in Pieces
  BY <1>1, <1>3, SMTT(30)
<1>5. ASSUME NEW j \in CpuJobs PROVE j \in Pieces
  <2>1. j = <<j[1], j[2]>> /\ j[1] \in Ids /\ Entries[j[1]].kind = "file" /\ j[2] \in Nat /\ j[2] <= Entries[j[1]].blocks
    BY JobsOfFiles, SMTT(30) DEF Files
  <2>2. j[2] <= BlocksOf(j[1])
    BY <1>1, <2>1, JobsOfFiles, SMTT(30) DEF BlocksOf, Whole
  <2> QED
    BY <1>4, <2>1, <2>2, Zenon
<1> QED
  BY <1>1, <1>2, <1>4, <1>5, SMTT(30)

\* How the producer moves, whatever else the step does.
LEMMA ProducerMoves ==
    ASSUME TypeInv
    PROVE  /\ producer.e \in Nat /\ producer.b \in Nat
           /\ AddFails \/ DictionaryFails => producer'.pc = "report" /\ producer'.e = producer.e
           /\ ProducerReturns => producer'.pc = "returned" /\ producer'.e = producer.e
           /\ QueueReadyEntry => producer'.pc = "add" /\ producer'.e = producer.e + 1
           /\ QueueFile => producer'.pc = "cpu" /\ producer'.e = producer.e
           /\ RequestMemory => producer'.pc = "memory" /\ producer'.e = producer.e
           /\ StartFile =>
                 IF Whole(producer.e)
                 THEN producer'.pc = "add" /\ producer'.e = producer.e + 1
                 ELSE producer'.pc = "block" /\ producer'.e = producer.e /\ producer'.b = 1
           /\ QueueBlock => producer'.pc = "blockCpu" /\ producer'.e = producer.e /\ producer'.b = producer.b
           /\ StartBlock =>
                 IF producer.b < Entries[producer.e].blocks
                 THEN producer'.pc = "block" /\ producer'.e = producer.e /\ producer'.b = producer.b + 1
                 ELSE producer'.pc = "add" /\ producer'.e = producer.e + 1
<1>1. producer \in [pc : {"add", "report", "returned"} \cup Asking \cup Blocking, e : Nat, b : Nat]
  BY Zenon DEF TypeInv, ProducerType
<1>2. \A pc : producer' = [producer EXCEPT !.pc = pc]
               => producer'.pc = pc /\ producer'.e = producer.e /\ producer'.b = producer.b
  BY <1>1, Zenon
<1>3. \A b : producer' = [producer EXCEPT !.pc = "block", !.b = b]
               => producer'.pc = "block" /\ producer'.e = producer.e /\ producer'.b = b
  BY <1>1, Zenon
<1>4. producer' = NextEntry => producer'.pc = "add" /\ producer'.e = producer.e + 1
  BY SMTT(30) DEF NextEntry
<1>5. StartFile => producer' = IF Whole(producer.e) THEN NextEntry ELSE [producer EXCEPT !.pc = "block", !.b = 1]
  BY Zenon DEF StartFile, Here
<1>6. StartBlock => producer' = IF producer.b < Entries[producer.e].blocks
                               THEN [producer EXCEPT !.pc = "block", !.b = producer.b + 1] ELSE NextEntry
  BY Zenon DEF StartBlock, Here
<1>7. /\ AddFails \/ DictionaryFails => producer' = [producer EXCEPT !.pc = "report"]
      /\ ProducerReturns => producer' = [producer EXCEPT !.pc = "returned"]
      /\ QueueReadyEntry => producer' = NextEntry
      /\ QueueFile => producer' = [producer EXCEPT !.pc = "cpu"]
      /\ RequestMemory => producer' = [producer EXCEPT !.pc = "memory"]
      /\ QueueBlock => producer' = [producer EXCEPT !.pc = "blockCpu"]
  BY Zenon DEF AddFails, DictionaryFails, ProducerReturns, QueueReadyEntry, QueueFile, RequestMemory, QueueBlock
<1>8. producer.e \in Nat /\ producer.b \in Nat
  BY <1>1, Zenon
<1>9. StartFile => IF Whole(producer.e)
                   THEN producer'.pc = "add" /\ producer'.e = producer.e + 1
                   ELSE producer'.pc = "block" /\ producer'.e = producer.e /\ producer'.b = 1
  BY <1>3, <1>4, <1>5, Zenon
<1>10. StartBlock =>
         IF producer.b < Entries[producer.e].blocks
         THEN producer'.pc = "block" /\ producer'.e = producer.e /\ producer'.b = producer.b + 1
         ELSE producer'.pc = "add" /\ producer'.e = producer.e + 1
  BY <1>3, <1>4, <1>6, Zenon
<1> QED
  BY <1>2, <1>4, <1>7, <1>8, <1>9, <1>10, Zenon

\* The producer queues the entries in the order of the mappings.
LEMMA ProducerQueues ==
    ASSUME TypeInv, QueueInv, Producer
    PROVE  QueueInv' /\ UNCHANGED <<main, archive, result, errors, panicked>>
<1>1. UNCHANGED <<main, archive, result, errors, panicked>>
  BY Zenon DEF Producer, AddFails, QueueReadyEntry, QueueFile, RequestMemory, StartFile, QueueBlock, StartBlock,
         DictionaryFails, ProducerReturns, channelVars, outcomeVars
<1>2. main.e \in Nat /\ producer.e \in Nat /\ writeOps \in Seq(Ids) /\ Len(writeOps) \in Nat
  BY SMTT(30) DEF TypeInv, MainType, ProducerType, ChannelTypes
<1>3. ~ opsClosed /\ main.pc # "last"
  BY Zenon DEF QueueInv, Producer, AddFails, QueueReadyEntry, QueueFile, RequestMemory, StartFile, QueueBlock,
         StartBlock, DictionaryFails, ProducerReturns, AtEntry
<1>4. CASE AddFails \/ DictionaryFails
  <2>1. UNCHANGED <<writeOps, opsClosed>> /\ producer'.pc = "report" /\ producer'.e = producer.e
    BY <1>4, ProducerMoves, Zenon DEF AddFails, DictionaryFails, channelVars
  <2> QED
    BY <1>1, <1>3, <2>1, Zenon DEF QueueInv, Asking, Blocking
<1>5. CASE ProducerReturns
  <2>1. /\ UNCHANGED writeOps /\ producer'.pc = "returned" /\ producer'.e = producer.e
        /\ producer.pc = "add" /\ producer.e \notin Ids
    BY <1>5, ProducerMoves, Zenon DEF ProducerReturns, Here
  <2>2. producer.e = Len(Entries) + 1
    BY <2>1, JobsOfFiles, SMTT(30) DEF TypeInv, ProducerType
  <2> QED
    BY <1>1, <1>3, <2>1, <2>2, Zenon DEF QueueInv, Asking, Blocking
<1>6. CASE QueueReadyEntry \/ QueueFile
  <2>1. /\ UNCHANGED opsClosed /\ producer.pc = "add" /\ producer.e \in Ids /\ writeOps' = Append(writeOps, producer.e)
        /\ \/ producer'.pc = "add" /\ producer'.e = producer.e + 1
           \/ producer'.pc = "cpu" /\ producer'.e = producer.e
    BY <1>6, ProducerMoves, Zenon DEF QueueReadyEntry, QueueFile, AtEntry, Here
  <2>2. main.e + Len(writeOps) = producer.e - 1
    BY <2>1, Zenon DEF QueueInv
  <2>3. Len(writeOps') = Len(writeOps) + 1 /\ \A i \in 1 .. Len(writeOps') : writeOps'[i] = IF i = Len(writeOps) + 1 THEN producer.e ELSE writeOps[i]
    BY <1>2, <2>1, SMTT(30)
  <2> DEFINE N == Len(writeOps)
             M == Len(writeOps')
  <2>4. N \in Nat /\ M = N + 1 /\ main.e + N = producer.e - 1
    BY <1>2, <2>2, <2>3, Zenon
  <2>5. /\ \A i \in 1 .. M : writeOps'[i] = IF i = N + 1 THEN producer.e ELSE writeOps[i]
        /\ \A i \in 1 .. N : writeOps[i] = main.e + i
    BY <2>3, Zenon DEF QueueInv
  <2> HIDE DEF N, M
  <2>6. \A i \in 1 .. M : writeOps'[i] = main.e + i
    <3> TAKE i \in 1 .. M
    <3>1. CASE i = N + 1
      <4>1. writeOps'[i] = producer.e
        BY <2>5, <3>1, Zenon
      <4>2. main.e + i = producer.e
        BY <1>2, <2>4, <3>1, SMTT(30)
      <4> QED
        BY <4>1, <4>2, Zenon
    <3>2. CASE i # N + 1
      <4>1. i \in 1 .. N
        BY <2>4, <3>2, SMTT(30)
      <4> QED
        BY <2>5, <3>2, <4>1, Zenon
    <3> QED
      BY <3>1, <3>2, Zenon
  <2>7. /\ producer'.pc \in {"add", "returned"} => main.e + M = producer'.e - 1
        /\ producer'.pc \in Asking \cup Blocking => main.e + M = producer'.e
    <3>1. main.e + M = producer.e /\ producer.e = (producer.e + 1) - 1
      BY <1>2, <2>4, SMTT(30)
    <3>2. CASE producer'.pc = "add" /\ producer'.e = producer.e + 1
      BY <3>1, <3>2, Zenon DEF Asking, Blocking
    <3>3. CASE producer'.pc = "cpu" /\ producer'.e = producer.e
      BY <3>1, <3>3, Zenon
    <3> QED
      BY <2>1, <3>2, <3>3, Zenon
  <2>8. producer'.pc # "returned" /\ ~ opsClosed' /\ main'.pc # "last" /\ main'.e = main.e
    BY <1>1, <1>3, <2>1, Zenon
  <2>9. QueueInv'
    BY <2>6, <2>7, <2>8, Zenon DEF QueueInv, M
  <2> QED
    BY <1>1, <2>9, Zenon
<1>7. CASE RequestMemory \/ QueueBlock
  <2>1. /\ UNCHANGED <<writeOps, opsClosed>> /\ producer'.pc \in Asking \cup Blocking /\ producer'.e = producer.e
        /\ producer.pc \in Asking \cup Blocking
    BY <1>7, ProducerMoves, Zenon DEF RequestMemory, QueueBlock, channelVars, Asking, Blocking
  <2> QED
    BY <1>1, <1>3, <2>1, Zenon DEF QueueInv, Asking, Blocking
<1>8. CASE StartFile \/ StartBlock
  <2>1. /\ UNCHANGED <<writeOps, opsClosed>> /\ producer.pc \in Asking \cup Blocking
        /\ \/ producer'.pc = "add" /\ producer'.e = producer.e + 1
           \/ producer'.pc = "block" /\ producer'.e = producer.e
    BY <1>8, ProducerMoves, Zenon DEF StartFile, StartBlock, channelVars, Asking, Blocking
  <2>2. main.e + Len(writeOps) = producer.e
    BY <2>1, Zenon DEF QueueInv
  <2> QED
    BY <1>1, <1>2, <1>3, <2>1, <2>2, SMTT(30) DEF QueueInv, Asking, Blocking
<1> QED
  BY <1>1, <1>4, <1>5, <1>6, <1>7, <1>8, Zenon DEF Producer

\* Counting the blocks given and taken.
LEMMA CountTypes ==
    ASSUME TypeInv
    PROVE  \A e \in Ids : /\ Taken(e) \in Nat /\ readers[e] \in Seq(Nat) /\ Len(readers[e]) \in Nat
                          /\ Given(e) = Taken(e) + Len(readers[e]) /\ Given(e) \in Nat
                          /\ Taken(e) <= Given(e)
<1>1. \A e \in Ids : Taken(e) \in Nat
  BY PieceFacts, Zenon DEF TypeInv, MainType, Taken
<1>2. \A e \in Ids : readers[e] \in Seq(Nat) /\ Len(readers[e]) \in Nat
  BY SMTT(30) DEF TypeInv, ChannelTypes
<1> QED
  BY <1>1, <1>2, SMTT(30) DEF Given

\* Nothing is put into a futureReaders ...
LEMMA GiveNone ==
    ASSUME UNCHANGED <<main, readers>>
    PROVE  /\ \A e \in Ids : (Done(e)' <=> Done(e)) /\ Taken(e)' = Taken(e) /\ Given(e)' = Given(e)
           /\ TakenInv => TakenInv'
<1>1. \A e \in Ids : (Done(e)' <=> Done(e)) /\ Taken(e)' = Taken(e)
  BY Zenon DEF Done, Taken
<1> QED
  BY <1>1, Zenon DEF Given, TakenInv

\* ... or the next block is.
LEMMA GiveOne ==
    ASSUME TypeInv, TakenInv, UNCHANGED main, NEW h \in Ids,
           readers' = [readers EXCEPT ![h] = Append(readers[h], Given(h) + 1)]
    PROVE  /\ \A e \in Ids : Done(e)' <=> Done(e)
           /\ \A e \in Ids : Given(e)' = IF e = h THEN Given(h) + 1 ELSE Given(e)
           /\ TakenInv'
<1>1. \A e \in Ids : (Done(e)' <=> Done(e)) /\ Taken(e)' = Taken(e)
  BY Zenon DEF Done, Taken
<1> DEFINE s == readers[h]
           t == Append(readers[h], Given(h) + 1)
           N == Len(s)
           g == Given(h)
<1>2. s \in Seq(Nat) /\ N \in Nat /\ g = Taken(h) + N /\ Taken(h) \in Nat /\ g \in Nat
  BY CountTypes, Zenon
<1>3. t = Append(s, g + 1) /\ readers'[h] = t /\ \A e \in Ids \ {h} : readers'[e] = readers[e]
  BY Zenon DEF TypeInv, ChannelTypes
<1>4. N = Len(s) /\ g = Given(h) /\ s = readers[h]
  BY Zenon
<1>5. Len(t) = N + 1 /\ \A i \in 1 .. N + 1 : t[i] = IF i = N + 1 THEN g + 1 ELSE s[i]
  BY <1>2, SMTT(30)
<1>6. \A i \in 1 .. N : s[i] = Taken(h) + i
  BY Zenon DEF TakenInv
<1> HIDE DEF s, t, N, g
<1>7. \A i \in 1 .. N + 1 : t[i] = Taken(h) + i
  <2> TAKE i \in 1 .. N + 1
  <2>1. CASE i = N + 1
    BY <1>2, <1>5, <2>1, SMTT(30)
  <2>2. CASE i # N + 1
    <3>1. i \in 1 .. N
      BY <1>2, <2>2, SMTT(30)
    <3> QED
      BY <1>5, <1>6, <2>2, <3>1, Zenon
  <2> QED
    BY <2>1, <2>2, Zenon
<1>8. ASSUME NEW e \in Ids PROVE \A i \in 1 .. Len(readers'[e]) : readers'[e][i] = Taken(e) + i
  <2>1. CASE e = h
    BY <1>3, <1>5, <1>7, <2>1, Zenon
  <2>2. CASE e # h
    BY <1>3, <2>2, ZenonT(40) DEF TakenInv
  <2> QED
    BY <2>1, <2>2, Zenon
<1>9. TakenInv'
  BY <1>1, <1>8, Zenon DEF TakenInv
<1>10. ASSUME NEW e \in Ids PROVE Given(e)' = IF e = h THEN Given(h) + 1 ELSE Given(e)
  <2>1. Given(e)' = Taken(e) + Len(readers'[e])
    BY <1>1, Zenon DEF Given
  <2>2. CASE e = h
    <3>1. Taken(h) + (N + 1) = g + 1
      BY <1>2, SMTT(30)
    <3> QED
      BY <1>3, <1>4, <1>5, <2>1, <2>2, <3>1, ZenonT(40)
  <2>3. CASE e # h
    BY <1>3, <2>1, <2>3, SMTT(30) DEF Given
  <2> QED
    BY <2>2, <2>3, Zenon
<1> QED
  BY <1>1, <1>9, <1>10, Zenon

\* A channel that has had nothing is empty.
LEMMA FirstGiven ==
    ASSUME TypeInv, NEW h \in Ids, Given(h) = 0
    PROVE  <<1>> = Append(readers[h], Given(h) + 1)
<1>1. readers[h] \in Seq(Nat) /\ Len(readers[h]) = 0
  BY CountTypes, SMTT(30)
<1>2. readers[h] = <<>>
  BY <1>1, SMTT(30)
<1> QED
  BY <1>2, SMTT(30)

\* The producer puts the blocks of an entry into its channel in order, and
\* closes it after the last one.
LEMMA ProducerGives ==
    ASSUME TypeInv, StartedInv, TakenInv, GivenInv, Producer
    PROVE  TakenInv' /\ GivenInv'
<1>1. /\ producer.e \in Nat /\ producer.b \in Nat /\ \A e \in Ids : e \in Nat
      /\ producer.pc \in Asking \cup Blocking => producer.e \in Files
      /\ Files \subseteq Ids
  BY PieceFacts, Zenon DEF TypeInv, ProducerType, Files
<1>2. UNCHANGED main
  BY ProducerQueues, Zenon DEF Producer, AddFails, QueueReadyEntry, QueueFile, RequestMemory, StartFile, QueueBlock,
     StartBlock, DictionaryFails, ProducerReturns
<1>3. CASE AddFails \/ DictionaryFails \/ ProducerReturns \/ QueueFile \/ RequestMemory
  <2>1. /\ UNCHANGED <<readers, readersEnd, worker>> /\ producer'.e = producer.e
        /\ producer'.pc \in {"report", "returned"} \cup Asking
        /\ producer'.pc \in Asking => producer.pc \in {"add"} \cup Asking
    <3>1. UNCHANGED <<readers, readersEnd, worker>>
      BY <1>3, Zenon DEF AddFails, DictionaryFails, ProducerReturns, QueueFile, RequestMemory, channelVars
    <3>2. QueueFile \/ RequestMemory => producer.pc \in {"add"} \cup Asking
      BY Zenon DEF QueueFile, RequestMemory, AtEntry, Asking
    <3> QED
      BY <1>3, <3>1, <3>2, ProducerMoves, Zenon DEF Asking
  <2>2. \A e \in Ids : Untouched(e)' => Untouched(e)
    BY <2>1, Zenon DEF Untouched, Asking
  <2>3. producer'.pc # "block" /\ producer'.pc # "blockCpu"
    BY <2>1, Zenon DEF Asking
  <2> QED
    BY <1>2, <2>1, <2>2, <2>3, GiveNone, Zenon DEF GivenInv
<1>4. CASE QueueReadyEntry
  <2> DEFINE h == producer.e
  <2>1. /\ UNCHANGED worker /\ producer'.pc = "add" /\ producer'.e = h + 1 /\ readersEnd' = readersEnd \cup {h}
        /\ producer.pc = "add" /\ h \in Ids /\ Entries[h].kind \in {"dir", "symlink"}
        /\ readers' = IF Entries[h].kind = "symlink" THEN [readers EXCEPT ![h] = <<1>>] ELSE readers
    BY <1>4, ProducerMoves, Zenon DEF QueueReadyEntry, AtEntry, Here
  <2>2. Untouched(h) /\ Given(h) = 0 /\ h \notin readersEnd /\ h \notin Files
    BY <2>1, Zenon DEF GivenInv, Untouched, Files
  <2>3. \A e \in Ids : Untouched(e)' => Untouched(e) /\ e # h
    BY <1>1, <2>1, <2>2, SMTT(30) DEF Untouched, Asking
  <2>4. /\ TakenInv' /\ \A e \in Ids : Done(e)' <=> Done(e)
        /\ \A e \in Ids : Given(e)' = IF e = h THEN BlocksOf(h) ELSE Given(e)
    <3>1. CASE Entries[h].kind = "symlink"
      <4>1. readers' = [readers EXCEPT ![h] = Append(readers[h], Given(h) + 1)]
        BY <2>1, <2>2, <3>1, FirstGiven, Zenon
      <4>2. BlocksOf(h) = Given(h) + 1
        BY <2>2, <3>1, SMTT(30) DEF BlocksOf
      <4> QED
        BY <1>2, <2>1, <4>1, <4>2, GiveOne, Zenon
    <3>2. CASE Entries[h].kind = "dir"
      <4>1. UNCHANGED <<main, readers>> /\ BlocksOf(h) = Given(h)
        BY <1>2, <2>1, <2>2, <3>2, Zenon DEF BlocksOf
      <4> QED
        BY <4>1, GiveNone, Zenon
    <3> QED
      BY <2>1, <3>1, <3>2, Zenon
  <2>5. BlocksOf(h) <= BlocksOf(h)
    BY <2>1, PieceFacts, SMTT(30)
  <2> HIDE DEF h
  <2> QED
    BY <2>1, <2>3, <2>4, <2>5, Zenon DEF GivenInv
<1>5. CASE StartFile
  <2> DEFINE h == producer.e
  <2>1. /\ UNCHANGED <<readers, readersEnd>> /\ producer.pc = "memory"
        /\ worker' = [worker EXCEPT ![<<h, 0>>] = "running"] /\ h \in Files /\ h \in Ids
    BY <1>1, <1>5, Zenon DEF StartFile, channelVars, Here, Asking
  <2>2. Untouched(h) /\ Given(h) = 0 /\ h \notin readersEnd
    BY <2>1, Zenon DEF GivenInv, Untouched, Asking
  <2>3. \A e \in Files : e # h => worker'[<<e, 0>>] = worker[<<e, 0>>]
    BY <2>1, SMTT(30)
  <2>4. \/ producer'.pc = "add" /\ producer'.e = h + 1
        \/ producer'.pc = "block" /\ producer'.e = h /\ producer'.b = 1
    BY <1>5, ProducerMoves, Zenon
  <2>5. \A e \in Ids : Untouched(e)' => Untouched(e)
    <3> SUFFICES ASSUME NEW e \in Ids, e # h, Untouched(e)' PROVE Untouched(e)
      BY <2>2, Zenon
    <3> QED
      BY <1>1, <2>3, <2>4, SMTT(30) DEF Untouched, Asking
  <2>6. /\ producer'.pc # "blockCpu"
        /\ producer'.pc = "block" => Given(producer'.e) = producer'.b - 1 /\ producer'.e \notin readersEnd
                                  /\ producer'.e \in Ids
    BY <2>1, <2>2, <2>4, SMTT(30)
  <2> QED
    BY <1>2, <2>1, <2>5, <2>6, GiveNone, Zenon DEF GivenInv
<1>6. CASE QueueBlock
  <2> DEFINE h == producer.e
             b == producer.b
  <2>1. /\ UNCHANGED <<worker, readersEnd>> /\ producer.pc = "block" /\ h \in Files /\ h \in Ids
        /\ producer'.pc = "blockCpu" /\ producer'.e = h /\ producer'.b = b
        /\ readers' = [readers EXCEPT ![h] = Append(readers[h], b)]
    BY <1>1, <1>6, ProducerMoves, Zenon DEF QueueBlock, Here, Blocking
  <2>2. /\ Given(h) = b - 1 /\ h \notin readersEnd /\ Given(h) + 1 = b /\ b <= Entries[h].blocks
        /\ ~ Whole(h) /\ b <= BlocksOf(h)
    <3>1. Given(h) = b - 1 /\ h \notin readersEnd /\ b \in 1 .. Entries[h].blocks
      BY <2>1, Zenon DEF GivenInv, StartedInv, Blocking, Here
    <3>2. ~ Whole(h) /\ Entries[h].blocks \in Nat
      BY <2>1, <3>1, JobsOfFiles, SMTT(30) DEF Whole
    <3>3. BlocksOf(h) = Entries[h].blocks
      BY <2>1, <3>2, Zenon DEF BlocksOf, Files
    <3> QED
      BY <1>1, <3>1, <3>2, <3>3, SMTT(30)
  <2>3. /\ TakenInv' /\ \A e \in Ids : Done(e)' <=> Done(e)
        /\ \A e \in Ids : Given(e)' = IF e = h THEN b ELSE Given(e)
    BY <1>2, <2>1, <2>2, GiveOne, Zenon
  <2>4. \A e \in Ids : Untouched(e)' => Untouched(e) /\ e # h
    BY <1>1, <2>1, <2>2, SMTT(30) DEF Untouched, Asking
  <2> HIDE DEF h, b
  <2> QED
    BY <2>1, <2>2, <2>3, <2>4, ZenonT(40) DEF GivenInv
<1>7. CASE StartBlock
  <2> DEFINE h == producer.e
             b == producer.b
  <2>1. /\ UNCHANGED readers /\ producer.pc = "blockCpu" /\ h \in Files /\ h \in Ids
        /\ worker' = [worker EXCEPT ![<<h, b>>] = "running"]
        /\ readersEnd' = IF b < Entries[h].blocks THEN readersEnd ELSE readersEnd \cup {h}
        /\ IF b < Entries[h].blocks
           THEN producer'.pc = "block" /\ producer'.e = h /\ producer'.b = b + 1
           ELSE producer'.pc = "add" /\ producer'.e = h + 1
    BY <1>1, <1>7, ProducerMoves, Zenon DEF StartBlock, Here, Blocking
  <2>2. /\ Given(h) = b /\ h \notin readersEnd /\ ~ Whole(h) /\ b \in Nat \ {0}
        /\ ~ (b < Entries[h].blocks) => b = BlocksOf(h)
    <3>1. Given(h) = b /\ h \notin readersEnd /\ b \in 1 .. Entries[h].blocks
      BY <2>1, Zenon DEF GivenInv, StartedInv, Blocking, Here
    <3>2. ~ Whole(h) /\ Entries[h].blocks \in Nat
      BY <2>1, <3>1, JobsOfFiles, SMTT(30) DEF Whole
    <3>3. BlocksOf(h) = Entries[h].blocks
      BY <2>1, <3>2, Zenon DEF BlocksOf, Files
    <3> QED
      BY <1>1, <3>1, <3>2, <3>3, SMTT(30)
  <2>3. \A e \in Files : worker'[<<e, 0>>] = worker[<<e, 0>>]
    BY <2>1, <2>2, SMTT(30)
  <2>4. \A e \in Ids : Untouched(e)' => Untouched(e) /\ e # h
    BY <1>1, <2>1, <2>2, <2>3, SMTT(30) DEF Untouched, Asking
  <2>5. b = (b + 1) - 1
    BY <2>2, SMTT(30)
  <2>6. TakenInv' /\ \A e \in Ids : (Done(e)' <=> Done(e)) /\ Given(e)' = Given(e)
    BY <1>2, <2>1, GiveNone, Zenon
  <2> HIDE DEF h, b
  <2> QED
    BY <2>1, <2>2, <2>4, <2>5, <2>6, Zenon DEF GivenInv
<1> QED
  BY <1>3, <1>4, <1>5, <1>6, <1>7, Zenon DEF Producer

\* What main may have of a goroutine is not touched by starting another one.
LEMMA ProducerDelivers ==
    ASSUME TypeInv, StartedInv, DeliveredInv, Producer
    PROVE  DeliveredInv'
<1>1. UNCHANGED archive
  BY Zenon DEF Producer, AddFails, QueueReadyEntry, QueueFile, RequestMemory, StartFile, QueueBlock, StartBlock,
         DictionaryFails, ProducerReturns, outcomeVars
<1>2. CASE StartFile \/ StartBlock
  <2>1. PICK k \in CpuJobs : worker[k] = "none" /\ worker' = [worker EXCEPT ![k] = "running"]
    <3>1. CASE StartFile
      <4>1. producer.e \in Files /\ <<producer.e, 0>> \in CpuJobs /\ producer.pc \in Asking
        BY <3>1, JobsOfFiles, Zenon DEF StartFile, TypeInv, ProducerType, Asking
      <4>2. NotStarted(<<producer.e, 0>>)
        BY <4>1, Zenon DEF NotStarted
      <4> QED
        BY <3>1, <4>1, <4>2, Zenon DEF StartFile, StartedInv, Here
    <3>2. CASE StartBlock
      <4>1. producer.e \in Files /\ <<producer.e, producer.b>> \in CpuJobs /\ producer.pc \in Blocking
        BY <3>2, JobsOfFiles, Zenon DEF StartBlock, TypeInv, ProducerType, StartedInv, Blocking, Here
      <4>2. NotStarted(<<producer.e, producer.b>>)
        BY <4>1, SMTT(30) DEF NotStarted, TypeInv, ProducerType
      <4> QED
        BY <3>2, <4>1, <4>2, Zenon DEF StartBlock, StartedInv, Here
    <3> QED
      BY <1>2, <3>1, <3>2, Zenon
  <2>2. UNCHANGED <<opReady, ready>>
    BY <1>2, Zenon DEF StartFile, StartBlock, channelVars
  <2>3. \A j \in CpuJobs : worker[j] = "returned" => worker'[j] = "returned"
    BY <2>1, SMTT(30)
  <2>4. \A e \in Files : <<e, 0>> \in CpuJobs
    BY JobsOfFiles, Zenon
  <2> QED
    BY <1>1, <2>2, <2>3, <2>4, Zenon DEF DeliveredInv
<1>3. CASE QueueReadyEntry
  <2>1. /\ UNCHANGED worker /\ producer.e \notin Files /\ opReady' = opReady \cup {producer.e}
        /\ ready' \subseteq ready \cup {<<producer.e, 1>>}
    BY <1>3, Zenon DEF QueueReadyEntry, AtEntry, Here, Files
  <2>2. \A j \in CpuJobs : j # <<producer.e, 1>>
    BY <2>1, JobsOfFiles, Zenon
  <2> QED
    BY <1>1, <2>1, <2>2, Zenon DEF DeliveredInv
<1>4. CASE AddFails \/ QueueFile \/ RequestMemory \/ QueueBlock \/ DictionaryFails \/ ProducerReturns
  <2>1. UNCHANGED <<worker, opReady, ready>>
    BY <1>4, Zenon DEF AddFails, QueueFile, RequestMemory, QueueBlock, DictionaryFails, ProducerReturns, channelVars
  <2> QED
    BY <1>1, <2>1, Zenon DEF DeliveredInv
<1> QED
  BY <1>2, <1>3, <1>4, Zenon DEF Producer
-----------------------------------------------------------------------------
(* What the compressors do *)

\* A compressor hands over what it made with its last step.
LEMMA WorkerDelivers ==
    ASSUME TypeInv, DeliveredInv, NEW j \in CpuJobs, Worker(j)
    PROVE  DeliveredInv'
<1>1. j = <<j[1], j[2]>> /\ j[1] \in Files /\ j[2] \in 0 .. Entries[j[1]].blocks
  BY JobsOfFiles, Zenon
<1>2. worker[j] # "returned" /\ UNCHANGED archive /\ \E w : worker' = [worker EXCEPT ![j] = w]
  BY WorkerTypes, Zenon
<1>3. \A k \in CpuJobs : k # j => worker'[k] = worker[k]
  BY <1>2, SMTT(30)
<1>4. \A k \in CpuJobs : worker[k] = "returned" => worker'[k] = "returned"
  BY <1>2, <1>3, Zenon
<1>5. \A e \in Files : <<e, 0>> \in CpuJobs
  BY JobsOfFiles, Zenon
<1>6. CASE CompressWhole(j[1]) /\ j[2] = 0
  <2>1. UNCHANGED opReady /\ ready' = ready \cup {<<j[1], 1>>} /\ Entries[j[1]].blocks = 0
    BY <1>6, Zenon DEF CompressWhole, Whole
  <2>2. \A k \in CpuJobs : k # <<j[1], 1>>
    <3> SUFFICES ASSUME <<j[1], 1>> \in CpuJobs PROVE FALSE
      BY Zenon
    <3>1. <<j[1], 1>>[2] \in 0 .. Entries[<<j[1], 1>>[1]].blocks
      BY JobsOfFiles, Zenon
    <3> QED
      BY <2>1, <3>1, SMTT(30)
  <2> QED
    BY <1>2, <1>4, <1>5, <2>1, <2>2, Zenon DEF DeliveredInv
<1>7. CASE (DeliverWhole(j[1]) \/ DeliverCrc(j[1])) /\ j[2] = 0
  <2>1. UNCHANGED ready /\ opReady' = opReady \cup {j[1]} /\ worker' = [worker EXCEPT ![<<j[1], 0>>] = "returned"]
    BY <1>7, Zenon DEF DeliverWhole, DeliverCrc
  <2>2. worker'[<<j[1], 0>>] = "returned"
    BY <1>1, <1>5, <2>1, Zenon DEF TypeInv, WorkerType
  <2> QED
    BY <1>2, <1>4, <1>5, <2>1, <2>2, ZenonT(40) DEF DeliveredInv
<1>8. CASE DeliverBlock(j)
  <2>1. UNCHANGED opReady /\ ready' = ready \cup {j} /\ worker' = [worker EXCEPT ![j] = "returned"]
    BY <1>8, Zenon DEF DeliverBlock
  <2>2. worker'[j] = "returned"
    BY <2>1, Zenon DEF TypeInv, WorkerType
  <2> QED
    BY <1>2, <1>4, <1>5, <2>1, <2>2, Zenon DEF DeliveredInv
<1>9. CASE CompressBlock(j) \/ WorkerFails(j)
  <2>1. UNCHANGED <<opReady, ready>>
    BY <1>9, Zenon DEF CompressBlock, WorkerFails, channelVars
  <2> QED
    BY <1>2, <1>4, <1>5, <2>1, Zenon DEF DeliveredInv
<1> QED
  BY <1>6, <1>7, <1>8, <1>9, Zenon DEF Worker

\* A file compressed as a whole puts one block into its channel and closes it.
LEMMA WorkerGives ==
    ASSUME TypeInv, StartedInv, TakenInv, GivenInv, NEW j \in CpuJobs, Worker(j)
    PROVE  TakenInv' /\ GivenInv'
<1>1. j = <<j[1], j[2]>> /\ j[1] \in Files /\ j[1] \in Ids /\ j[1] \in Nat
  BY JobsOfFiles, SMTT(30) DEF Files
<1>2. /\ UNCHANGED <<main, producer>> /\ worker[j] \in {"running", "finishing"}
      /\ \E w : worker' = [worker EXCEPT ![j] = w]
  BY WorkerTypes, Zenon
<1>3. \A e \in Files : <<e, 0>> # j => worker'[<<e, 0>>] = worker[<<e, 0>>]
  BY <1>2, JobsOfFiles, Zenon DEF TypeInv, WorkerType
<1>4. CASE CompressWhole(j[1]) /\ j[2] = 0
  <2>1. PICK h \in Ids : h = j[1]
    BY <1>1, Zenon
  <2>2. /\ Whole(h) /\ worker[<<h, 0>>] = "running" /\ worker' = [worker EXCEPT ![<<h, 0>>] = "finishing"]
        /\ readers' = [readers EXCEPT ![h] = <<1>>] /\ readersEnd' = readersEnd \cup {h}
        /\ h \in Files /\ j = <<h, 0>>
    BY <1>1, <1>4, <2>1, Zenon DEF CompressWhole
  <2>3. Untouched(h)
    BY <2>2, Zenon DEF Untouched
  <2>4. Given(h) = 0 /\ h \notin readersEnd
    BY <2>3, Zenon DEF GivenInv
  <2>5. readers' = [readers EXCEPT ![h] = Append(readers[h], Given(h) + 1)]
    BY <2>2, <2>4, FirstGiven, Zenon
  <2>6. BlocksOf(h) = 1
    BY <2>2, Zenon DEF BlocksOf, Files
  <2>7. /\ TakenInv' /\ \A e \in Ids : Done(e)' <=> Done(e)
        /\ \A e \in Ids : Given(e)' = IF e = h THEN BlocksOf(h) ELSE Given(e)
    <3>1. UNCHANGED main /\ Given(h) + 1 = BlocksOf(h)
      BY <1>2, <2>4, <2>6, SMTT(30)
    <3> QED
      BY <2>5, <3>1, GiveOne, Zenon
  <2>8. producer.pc \in Blocking => producer.e # h /\ producer.e \in Ids
    BY <2>2, JobsOfFiles, SMTT(30) DEF StartedInv, Whole, Here, TypeInv, ProducerType, Files
  <2>9. ~ (h > producer.e) /\ ~ (h = producer.e /\ producer.pc \in {"add"} \cup Asking)
    <3>1. worker[j] # "none"
      BY <2>2, Zenon
    <3>2. ~ NotStarted(<<h, 0>>)
      BY <2>2, <3>1, Zenon DEF StartedInv
    <3> QED
      BY <3>2, Zenon DEF NotStarted
  <2>10. worker'[<<h, 0>>] = "finishing"
    BY <2>2, Zenon DEF TypeInv, WorkerType
  <2>11. \A e \in Ids : Untouched(e)' => Untouched(e) /\ e # h
    BY <1>2, <1>3, <2>2, <2>9, <2>10, Zenon DEF Untouched
  <2>12. BlocksOf(h) <= BlocksOf(h)
    BY <2>6, SMTT(30)
  <2> QED
    BY <1>2, <2>2, <2>7, <2>8, <2>11, <2>12, Zenon DEF GivenInv, Blocking
<1>5. CASE ~ (CompressWhole(j[1]) /\ j[2] = 0)
  <2>1. UNCHANGED <<readers, readersEnd>>
    BY <1>5, Zenon DEF Worker, DeliverWhole, DeliverCrc, CompressBlock, DeliverBlock, WorkerFails, channelVars
  <2>2. j[2] = 0 => worker[j] = "running" \/ worker'[j] \notin {"running", "report"}
    BY <1>1, <1>5, Zenon DEF Worker, DeliverWhole, DeliverCrc, CompressBlock, DeliverBlock, WorkerFails, TypeInv, WorkerType
  <2>3. \A e \in Ids : Untouched(e)' => Untouched(e)
    BY <1>1, <1>2, <1>3, <2>2, SMTT(30) DEF Untouched
  <2>4. TakenInv' /\ \A e \in Ids : (Done(e)' <=> Done(e)) /\ Given(e)' = Given(e)
    BY <1>2, <2>1, GiveNone, Zenon
  <2>5. producer.pc \in Blocking => producer.e \in Ids
    BY Zenon DEF TypeInv, ProducerType, Files
  <2> QED
    BY <1>2, <2>1, <2>3, <2>4, <2>5, Zenon DEF GivenInv, Blocking
<1> QED
  BY <1>4, <1>5, Zenon
-----------------------------------------------------------------------------
(* What main does in its loop *)

\* Writing the first piece that is missing keeps the archive in order.
LEMMA AppendPiece ==
    ASSUME TypeInv, ArchiveInOrder, NEW q \in Pieces, archive' = Append(archive, q),
           Range(archive) = {p \in Pieces : Before(p, q)}
    PROVE  ArchiveInOrder' /\ Range(archive)' = Range(archive) \cup {q}
<1> DEFINE N == Len(archive)
<1>1. /\ N \in Nat /\ DOMAIN archive = 1 .. N /\ DOMAIN archive' = 1 .. N + 1
      /\ archive'[N + 1] = q /\ \A i \in 1 .. N : archive'[i] = archive[i]
  BY SMTT(30) DEF TypeInv, ChannelTypes
<1> HIDE DEF N
<1>2. Range(archive)' = Range(archive) \cup {q}
  <2>1. \A i \in 1 .. N + 1 : i \in 1 .. N \/ i = N + 1
    BY <1>1, SMTT(30)
  <2>2. N + 1 \in 1 .. N + 1 /\ \A i \in 1 .. N : i \in 1 .. N + 1
    BY <1>1, SMTT(30)
  <2> QED
    BY <1>1, <2>1, <2>2, Zenon DEF Range
<1>3. \A i \in 1 .. N : Before(archive[i], q)
  BY <1>1, Zenon DEF Range
<1>4. ASSUME NEW i \in 1 .. N + 1, NEW k \in 1 .. N + 1, i < k PROVE Before(archive'[i], archive'[k])
  <2>1. CASE k = N + 1
    <3>1. i \in 1 .. N
      BY <1>1, <1>4, <2>1, SMTT(30)
    <3> QED
      BY <1>1, <1>3, <2>1, <3>1, Zenon
  <2>2. CASE k # N + 1
    <3>1. i \in 1 .. N /\ k \in 1 .. N
      BY <1>1, <1>4, <2>2, SMTT(30)
    <3> QED
      BY <1>1, <1>4, <3>1, Zenon DEF ArchiveInOrder
  <2> QED
    BY <2>1, <2>2, Zenon
<1>5. \A p \in Pieces : Before(p, q) => p \in Range(archive)
  BY Zenon
<1>6. \A r \in Range(archive)' : r \in Pieces /\ \A p \in Pieces : Before(p, r) => p \in Range(archive)'
  BY <1>2, <1>5, Zenon DEF ArchiveInOrder
<1> QED
  BY <1>1, <1>2, <1>4, <1>6, Zenon DEF ArchiveInOrder

\* The invariants that do not change unless main's position does.
LEMMA MainKeeps ==
    ASSUME TypeInv, UNCHANGED <<producer, worker, readersEnd>>
    PROVE  /\ GivenInv /\ (\A e \in Ids : Given(e)' = Given(e) /\ (Done(e)' => Done(e) \/ e \in readersEnd))
              => GivenInv'
           /\ (/\ TakenInv /\ UNCHANGED readers /\ \A e \in Ids : Taken(e)' = Taken(e)
               /\ main'.pc # "reader" /\ (main'.pc # "readers" => main'.b = 0))
              => TakenInv'
           /\ UNCHANGED readers /\ (\A e \in Ids : Taken(e)' = Taken(e))
              => \A e \in Ids : Given(e)' = Given(e)
<1>1. ASSUME GivenInv, \A e \in Ids : Given(e)' = Given(e) /\ (Done(e)' => Done(e) \/ e \in readersEnd)
      PROVE  GivenInv'
  <2>1. \A e \in Ids : Untouched(e)' <=> Untouched(e)
    BY Zenon DEF Untouched
  <2>2. producer.pc \in {"block", "blockCpu"} => producer.e \in Ids
    BY Zenon DEF TypeInv, ProducerType, Blocking, Files
  <2> QED
    BY <1>1, <2>1, <2>2, Zenon DEF GivenInv
<1>2. ASSUME TakenInv, UNCHANGED readers, \A e \in Ids : Taken(e)' = Taken(e),
             main'.pc # "reader", main'.pc # "readers" => main'.b = 0
      PROVE  TakenInv'
  BY <1>2, Zenon DEF TakenInv
<1>3. ASSUME UNCHANGED readers, \A e \in Ids : Taken(e)' = Taken(e) PROVE \A e \in Ids : Given(e)' = Given(e)
  BY <1>3, Zenon DEF Given
<1> QED
  BY <1>1, <1>2, <1>3, Zenon

\* How main moves.
LEMMA MainMoves ==
    ASSUME TypeInv
    PROVE  /\ main.e \in Nat /\ main.b \in Nat
           /\ \A pc : main' = [main EXCEPT !.pc = pc] => main'.pc = pc /\ main'.e = main.e /\ main'.b = main.b
           /\ \A e : main' = [main EXCEPT !.pc = "entry", !.e = e]
                       => main'.pc = "entry" /\ main'.e = e /\ main'.b = main.b
           /\ \A pc, b : main' = [main EXCEPT !.pc = pc, !.b = b]
                       => main'.pc = pc /\ main'.e = main.e /\ main'.b = b
  BY Zenon DEF TypeInv, MainType

\* Main takes the next entry, and stays at the same place of the archive.
LEMMA TakeOpKeeps ==
    ASSUME TypeInv, LoopInv, TakeOp \/ OpsClosed
    PROVE  LoopInv'
<1>1. /\ UNCHANGED <<producer, worker, readersEnd, readers, archive, result, opsClosed>>
      /\ main.pc = "op" /\ main.b = 0
  BY Zenon DEF TakeOp, OpsClosed, channelVars, outcomeVars, LoopInv, TakenInv
<1>2. QueueInv /\ TakenInv /\ GivenInv /\ WrittenInv /\ result = "none"
  BY Zenon DEF LoopInv
<1>3. main.e \in Nat /\ writeOps \in Seq(Ids) /\ \A e \in Ids : e \in Nat
  BY MainMoves, PieceFacts, Zenon DEF TypeInv, ChannelTypes
<1>4. CASE TakeOp
  <2>1. /\ writeOps # <<>> /\ writeOps' = Tail(writeOps)
        /\ main'.pc = "entry" /\ main'.e = Head(writeOps) /\ main'.b = 0
    BY <1>1, <1>4, MainMoves, Zenon DEF TakeOp
  <2> DEFINE N == Len(writeOps)
             M == Len(writeOps')
  <2>2. /\ N \in Nat /\ N # 0 /\ M = N - 1 /\ Head(writeOps) = writeOps[1]
        /\ \A i \in 1 .. M : writeOps'[i] = writeOps[i + 1]
    BY <1>3, <2>1, SMTT(30)
  <2>3. \A i \in 1 .. N : writeOps[i] = main.e + i
    BY <1>2, Zenon DEF QueueInv
  <2> HIDE DEF N, M
  <2>4. main'.e = main.e + 1
    BY <2>1, <2>2, <2>3, SMTT(30)
  <2>5. \A i \in 1 .. M : writeOps'[i] = main'.e + i
    <3>1. N \in Nat /\ M = N - 1 /\ main.e \in Nat
      BY <1>3, <2>2, Zenon
    <3>2. \A i \in 1 .. M : i + 1 \in 1 .. N /\ main.e + (i + 1) = (main.e + 1) + i
      BY <3>1, SMTT(30)
    <3> QED
      BY <2>2, <2>3, <2>4, <3>2, ZenonT(40)
  <2>6. main'.e + M = main.e + N
    BY <1>3, <2>2, <2>4, SMTT(30)
  <2>7. QueueInv'
    BY <1>1, <1>2, <2>1, <2>5, <2>6, Zenon DEF QueueInv, N, M
  <2>8. \A e \in Ids : (Done(e)' <=> Done(e)) /\ Taken(e)' = Taken(e)
    <3>1. \A e \in Ids : Done(e)' <=> Done(e)
      BY <1>1, <1>3, <2>1, <2>4, SMTT(30) DEF Done
    <3> QED
      BY <1>1, <1>3, <2>1, <3>1, Zenon DEF Taken
  <2>9. Position' = Position
    BY <1>1, <2>1, <2>4, Zenon DEF Position
  <2>10. TakenInv' /\ GivenInv'
    BY <1>1, <1>2, <2>1, <2>8, MainKeeps, Zenon
  <2> QED
    BY <1>1, <1>2, <2>7, <2>9, <2>10, Zenon DEF LoopInv, WrittenInv
<1>5. CASE OpsClosed
  <2>1. /\ writeOps = <<>> /\ opsClosed /\ UNCHANGED writeOps
        /\ main'.pc = "last" /\ main'.e = main.e /\ main'.b = 0
    BY <1>1, <1>5, MainMoves, Zenon DEF OpsClosed, channelVars
  <2>2. \A e \in Ids : (Done(e)' <=> Done(e)) /\ Taken(e)' = Taken(e)
    BY <1>1, <2>1, Zenon DEF Done, Taken
  <2>3. Position' = Position
    BY <1>1, <2>1, Zenon DEF Position
  <2>4. TakenInv' /\ GivenInv'
    BY <1>1, <1>2, <2>1, <2>2, MainKeeps, Zenon
  <2>5. QueueInv'
    BY <1>1, <1>2, <2>1, Zenon DEF QueueInv
  <2> QED
    BY <1>1, <1>2, <2>3, <2>4, <2>5, Zenon DEF LoopInv, WrittenInv
<1> QED
  BY <1>4, <1>5, Zenon

\* Main writes the header, which its goroutine has handed over ...
LEMMA TakeEntryKeeps ==
    ASSUME TypeInv, LoopInv, ArchiveInOrder, DeliveredInv, TakeEntry
    PROVE  LoopInv' /\ ArchiveInOrder' /\ DeliveredInv' /\ main'.pc \in Loop /\ UNCHANGED <<result, errors, panicked>>
<1>1. QueueInv /\ TakenInv /\ GivenInv /\ WrittenInv /\ result = "none"
  BY Zenon DEF LoopInv
<1>2. /\ UNCHANGED <<producer, worker, readersEnd, readers, writeOps, opsClosed, ready, result, errors, panicked>>
      /\ main.pc = "entry" /\ main.e \in opReady /\ opReady' \subseteq opReady
      /\ archive' = Append(archive, <<main.e, 0>>)
      /\ main'.pc \in {"finish", "readers"} /\ main'.e = main.e /\ main'.b = main.b
  BY MainMoves, Zenon DEF TakeEntry
<1>3. main.e \in Ids /\ main.e \in Nat /\ main.b = 0 /\ \A e \in Ids : e \in Nat
  BY <1>1, <1>2, PieceFacts, Zenon DEF TypeInv, MainType, AtEntryOf, TakenInv
<1>4. \A e \in Ids : (Done(e)' <=> Done(e)) /\ Taken(e)' = Taken(e)
  BY <1>2, Zenon DEF Done, Taken
<1>5. QueueInv'
  BY <1>1, <1>2, Zenon DEF QueueInv
<1>6. TakenInv' /\ GivenInv'
  BY <1>1, <1>2, <1>3, <1>4, MainKeeps, Zenon
<1>7. Position = <<main.e, 0>> /\ Position' = <<main.e, 1>>
  BY <1>2, <1>3, SMTT(30) DEF Position
<1>8. <<main.e, 0>> \in Pieces
  BY <1>3, PieceFacts, SMTT(30)
<1>9. Range(archive) = {p \in Pieces : Before(p, <<main.e, 0>>)}
  BY <1>1, <1>7, Zenon DEF WrittenInv
<1>10. ArchiveInOrder' /\ Range(archive)' = Range(archive) \cup {<<main.e, 0>>}
  BY <1>2, <1>8, <1>9, AppendPiece, Zenon
<1>11. \A p \in Pieces : Before(p, <<main.e, 1>>) <=> Before(p, <<main.e, 0>>) \/ p = <<main.e, 0>>
  <2> TAKE p \in Pieces
  <2>1. p = <<p[1], p[2]>> /\ p[1] \in Nat /\ p[2] \in Nat
    BY PieceFacts, Zenon
  <2> QED
    BY <1>3, <2>1, SMTT(30) DEF Before
<1>12. WrittenInv'
  BY <1>7, <1>8, <1>9, <1>10, <1>11, Zenon DEF WrittenInv
<1>13. DeliveredInv'
  <2>1. \A e \in Files : <<e, 0>> \in Range(archive)' => <<e, 0>> \in Range(archive) \/ e \in opReady
    BY <1>2, <1>10, Zenon
  <2>2. \A j \in CpuJobs : j[2] > 0 /\ j \in Range(archive)' => j \in Range(archive)
    BY <1>10, SMTT(30)
  <2> QED
    BY <1>2, <2>1, <2>2, Zenon DEF DeliveredInv
<1> QED
  BY <1>1, <1>2, <1>5, <1>6, <1>10, <1>12, <1>13, Zenon DEF LoopInv, Loop

\* ... waits for the memory limiter, takes the place of the next block ...
LEMMA TakeReaderKeeps ==
    ASSUME TypeInv, LoopInv, MemoryFinished \/ TakeReader
    PROVE  LoopInv' /\ main'.pc \in Loop
<1>1. QueueInv /\ TakenInv /\ GivenInv /\ WrittenInv /\ result = "none"
  BY Zenon DEF LoopInv
<1>2. /\ UNCHANGED <<producer, worker, readersEnd, writeOps, opsClosed, archive, result>>
      /\ main.pc \in {"finish", "readers"} /\ main'.pc \in {"readers", "reader"} /\ main'.e = main.e
  BY MainMoves, Zenon DEF MemoryFinished, TakeReader, channelVars, outcomeVars
<1>3. main.e \in Ids /\ main.e \in Nat /\ main.b \in Nat
  BY <1>2, Zenon DEF TypeInv, MainType, AtEntryOf
<1>4. QueueInv' /\ main'.pc \in Loop
  BY <1>1, <1>2, Zenon DEF QueueInv, Loop
<1>5. CASE MemoryFinished
  <2>1. UNCHANGED readers /\ main.pc = "finish" /\ main'.pc = "readers" /\ main'.b = main.b
    BY <1>5, MainMoves, Zenon DEF MemoryFinished, channelVars
  <2>2. \A e \in Ids : (Done(e)' <=> Done(e)) /\ Taken(e)' = Taken(e)
    BY <1>2, <2>1, Zenon DEF Done, Taken
  <2>3. TakenInv' /\ GivenInv'
    BY <1>1, <1>2, <2>1, <2>2, MainKeeps, Zenon
  <2>4. Position' = Position
    BY <1>2, <2>1, Zenon DEF Position
  <2> QED
    BY <1>1, <1>2, <1>4, <2>3, <2>4, Zenon DEF LoopInv, WrittenInv
<1>6. CASE TakeReader
  <2>1. PICK h \in Ids : h = main.e
    BY <1>3, Zenon
  <2> DEFINE s == readers[h]
             t == Tail(s)
             N == Len(s)
             M == Len(t)
  <2>2. /\ main.pc = "readers" /\ s # <<>> /\ main'.pc = "reader" /\ main'.b = Head(s)
        /\ readers' = [readers EXCEPT ![h] = t]
    BY <1>6, <2>1, MainMoves, Zenon DEF TakeReader
  <2>3. readers'[h] = t /\ \A e \in Ids \ {h} : readers'[e] = readers[e]
    BY <2>2, Zenon DEF TypeInv, ChannelTypes
  <2>4. /\ ~ Done(h) /\ Taken(h) = main.b /\ Taken(h) \in Nat
        /\ \A e \in Ids : Done(e)' <=> Done(e)
        /\ \A e \in Ids \ {h} : Taken(e)' = Taken(e)
    BY <1>2, <1>3, <2>1, <2>2, SMTT(30) DEF Done, Taken
  <2>5. \A i \in 1 .. N : s[i] = Taken(h) + i
    BY <1>1, Zenon DEF TakenInv
  <2>6. s \in Seq(Nat)
    BY CountTypes, Zenon
  <2>7. N \in Nat /\ N # 0 /\ M = N - 1 /\ Head(s) = s[1] /\ \A i \in 1 .. M : t[i] = s[i + 1]
    BY <2>2, <2>6, SMTT(30)
  <2>8. Given(h) = Taken(h) + N
    BY Zenon DEF Given
  <2>9. N = Len(readers[h]) /\ M = Len(t)
    BY Zenon
  <2> HIDE DEF s, t, N, M
  <2>10. main'.b = main.b + 1
    BY <2>2, <2>4, <2>5, <2>7, SMTT(30)
  <2>11. Taken(h)' = Taken(h) + 1
    BY <1>2, <2>1, <2>4, <2>10, Zenon DEF Taken
  <2>12. \A i \in 1 .. M : t[i] = (Taken(h) + 1) + i
    <3>1. N \in Nat /\ M = N - 1 /\ Taken(h) \in Nat
      BY <2>4, <2>7, Zenon
    <3>2. \A i \in 1 .. M : i + 1 \in 1 .. N /\ Taken(h) + (i + 1) = (Taken(h) + 1) + i
      BY <3>1, SMTT(30)
    <3> QED
      BY <2>5, <2>7, <3>2, Zenon
  <2>13. TakenInv'
    <3>1. ASSUME NEW e \in Ids PROVE \A i \in 1 .. Len(readers'[e]) : readers'[e][i] = Taken(e)' + i
      <4>1. CASE e = h
        BY <2>3, <2>9, <2>11, <2>12, <4>1, Zenon
      <4>2. CASE e # h
        BY <1>1, <2>3, <2>4, <4>2, ZenonT(40) DEF TakenInv
      <4> QED
        BY <4>1, <4>2, Zenon
    <3>2. main'.b # 0
      BY <1>3, <2>10, SMTT(30)
    <3> QED
      BY <2>2, <3>1, <3>2, Zenon DEF TakenInv
  <2>14. \A e \in Ids : Given(e)' = Given(e)
    <3> TAKE e \in Ids
    <3>1. Given(e)' = Taken(e)' + Len(readers'[e])
      BY Zenon DEF Given
    <3>2. CASE e = h
      <4>1. (Taken(h) + 1) + M = Taken(h) + N
        BY <2>4, <2>7, SMTT(30)
      <4> QED
        BY <2>3, <2>8, <2>9, <2>11, <3>1, <3>2, <4>1, Zenon
    <3>3. CASE e # h
      BY <2>3, <2>4, <3>1, <3>3, Zenon DEF Given
    <3> QED
      BY <3>2, <3>3, Zenon
  <2>15. GivenInv'
    BY <1>1, <1>2, <2>4, <2>14, MainKeeps, Zenon
  <2>16. Position' = Position
    BY <1>2, <2>2, <2>10, Zenon DEF Position
  <2> QED
    BY <1>1, <1>2, <1>4, <2>13, <2>15, <2>16, Zenon DEF LoopInv, WrittenInv
<1> QED
  BY <1>5, <1>6, Zenon

\* ... copies the block, which its goroutine has handed over ...
LEMMA CopyReaderKeeps ==
    ASSUME TypeInv, LoopInv, ArchiveInOrder, DeliveredInv, CopyReader
    PROVE  LoopInv' /\ ArchiveInOrder' /\ DeliveredInv' /\ main'.pc \in Loop /\ UNCHANGED <<result, errors, panicked>>
<1>1. QueueInv /\ TakenInv /\ GivenInv /\ WrittenInv /\ result = "none"
  BY Zenon DEF LoopInv
<1>2. /\ UNCHANGED <<producer, worker, readersEnd, readers, writeOps, opsClosed, opReady, result, errors, panicked>>
      /\ main.pc = "reader" /\ <<main.e, main.b>> \in ready /\ ready' \subseteq ready
      /\ archive' = Append(archive, <<main.e, main.b>>)
      /\ main'.pc = "readers" /\ main'.e = main.e /\ main'.b = main.b
  BY MainMoves, Zenon DEF CopyReader
<1>3. main.e \in Ids /\ main.e \in Nat /\ main.b \in Nat
  BY <1>2, Zenon DEF TypeInv, MainType, AtEntryOf
<1>4. \A e \in Ids : (Done(e)' <=> Done(e)) /\ Taken(e)' = Taken(e)
  BY <1>2, Zenon DEF Done, Taken
<1>5. QueueInv'
  BY <1>1, <1>2, Zenon DEF QueueInv
<1>6. TakenInv' /\ GivenInv'
  BY <1>1, <1>2, <1>4, MainKeeps, Zenon
<1>7. Position = <<main.e, main.b>> /\ Position' = <<main.e, main.b + 1>>
  BY <1>2, Zenon DEF Position
<1>8. <<main.e, main.b>> \in Pieces
  <2>1. Taken(main.e) = main.b
    BY <1>2, <1>3, SMTT(30) DEF Taken, Done
  <2>2. Taken(main.e) <= Given(main.e) /\ Given(main.e) <= BlocksOf(main.e) /\ Given(main.e) \in Nat
    BY <1>1, <1>3, CountTypes, Zenon DEF GivenInv
  <2>3. main.b <= BlocksOf(main.e)
    BY <1>3, <2>1, <2>2, PieceFacts, SMTT(30)
  <2> QED
    BY <1>3, <2>3, PieceFacts, Zenon
<1>9. Range(archive) = {p \in Pieces : Before(p, <<main.e, main.b>>)}
  BY <1>1, <1>7, Zenon DEF WrittenInv
<1>10. ArchiveInOrder' /\ Range(archive)' = Range(archive) \cup {<<main.e, main.b>>}
  BY <1>2, <1>8, <1>9, AppendPiece, Zenon
<1>11. \A p \in Pieces : Before(p, <<main.e, main.b + 1>>) <=> Before(p, <<main.e, main.b>>) \/ p = <<main.e, main.b>>
  <2> TAKE p \in Pieces
  <2>1. p = <<p[1], p[2]>> /\ p[1] \in Nat /\ p[2] \in Nat
    BY PieceFacts, Zenon
  <2> QED
    BY <1>3, <2>1, SMTT(30) DEF Before
<1>12. WrittenInv'
  BY <1>7, <1>8, <1>9, <1>10, <1>11, Zenon DEF WrittenInv
<1>13. DeliveredInv'
  <2>1. main.b # 0
    BY <1>1, <1>2, Zenon DEF TakenInv
  <2>2. \A e \in Files : <<e, 0>> \in Range(archive)' => <<e, 0>> \in Range(archive)
    BY <1>10, <2>1, Zenon
  <2>3. \A j \in CpuJobs : j[2] > 0 /\ j \in Range(archive)' => j \in Range(archive) \/ j \in ready
    BY <1>2, <1>10, Zenon
  <2> QED
    BY <1>2, <2>2, <2>3, Zenon DEF DeliveredInv
<1> QED
  BY <1>1, <1>2, <1>5, <1>6, <1>10, <1>12, <1>13, Zenon DEF LoopInv, Loop

\* ... and goes on after the last block.
LEMMA ReadersClosedKeeps ==
    ASSUME TypeInv, LoopInv, ReadersClosed
    PROVE  LoopInv' /\ main'.pc \in Loop
<1>1. QueueInv /\ TakenInv /\ GivenInv /\ WrittenInv /\ result = "none"
  BY Zenon DEF LoopInv
<1>2. /\ UNCHANGED <<producer, worker, readersEnd, readers, writeOps, opsClosed, archive, result>>
      /\ main.pc = "readers" /\ main.e \in readersEnd /\ readers[main.e] = <<>>
      /\ main'.pc = "op" /\ main'.e = main.e /\ main'.b = 0
  BY MainMoves, Zenon DEF ReadersClosed, channelVars, outcomeVars
<1>3. main.e \in Ids /\ main.e \in Nat /\ main.b \in Nat /\ \A e \in Ids : e \in Nat
  BY <1>2, PieceFacts, Zenon DEF TypeInv, MainType, AtEntryOf
<1>4. main.b = BlocksOf(main.e)
  <2>1. Taken(main.e) = main.b
    BY <1>2, <1>3, SMTT(30) DEF Taken, Done
  <2>2. Given(main.e) = BlocksOf(main.e) /\ Given(main.e) = Taken(main.e) + Len(readers[main.e]) /\ Taken(main.e) \in Nat
    BY <1>1, <1>2, <1>3, CountTypes, Zenon DEF GivenInv
  <2>3. Len(readers[main.e]) = 0
    BY <1>2, Zenon
  <2> QED
    BY <2>1, <2>2, <2>3, SMTT(30)
<1>5. \A e \in Ids : Taken(e)' = Taken(e) /\ (Done(e)' => Done(e) \/ e \in readersEnd)
  BY <1>2, <1>3, <1>4, Zenon DEF Done, Taken
<1>6. TakenInv' /\ GivenInv'
  BY <1>1, <1>2, <1>5, MainKeeps, Zenon
<1>7. QueueInv'
  BY <1>1, <1>2, Zenon DEF QueueInv
<1>8. Position = <<main.e, main.b + 1>> /\ Position' = <<main.e + 1, 0>>
  BY <1>2, Zenon DEF Position
<1>9. \A p \in Pieces : Before(p, <<main.e + 1, 0>>) <=> Before(p, <<main.e, main.b + 1>>)
  <2> TAKE p \in Pieces
  <2>1. p[1] \in Nat /\ p[2] \in Nat /\ (p[1] = main.e => p[2] <= main.b)
    BY <1>4, PieceFacts, Zenon
  <2> QED
    BY <1>3, <2>1, SMTT(30) DEF Before
<1>10. WrittenInv'
  BY <1>1, <1>2, <1>8, <1>9, Zenon DEF WrittenInv
<1> QED
  BY <1>1, <1>2, <1>6, <1>7, <1>10, Zenon DEF LoopInv, Loop

\* Main leaves the loop by the normal way only when all goroutines are done.
LEMMA ReturnOkComplete ==
    ASSUME TypeInv, LoopInv, DeliveredInv, ReturnOk
    PROVE  AllReturned'
<1>1. UNCHANGED <<producer, worker, archive>> /\ main.pc = "last"
  BY Zenon DEF ReturnOk
<1>2. producer.pc = "returned" /\ writeOps = <<>>
  BY <1>1, Zenon DEF LoopInv, QueueInv
<1>3. main.e = Len(Entries) /\ main.e \in Nat
  <2>1. main.e + Len(writeOps) = producer.e - 1 /\ producer.e = Len(Entries) + 1 /\ Len(writeOps) = 0
    BY <1>2, Zenon DEF LoopInv, QueueInv
  <2>2. main.e \in Nat /\ Len(Entries) \in Nat
    BY MainMoves, JobsOfFiles, Zenon
  <2> QED
    BY <2>1, <2>2, SMTT(30)
<1>4. \A p \in Pieces : Before(p, <<main.e + 1, 0>>)
  <2> TAKE p \in Pieces
  <2>1. p[1] \in 1 .. Len(Entries)
    BY PieceFacts, JobsOfFiles, Zenon
  <2> QED
    BY <1>3, <2>1, SMTT(30) DEF Before
<1>5. Pieces \subseteq Range(archive)
  BY <1>1, <1>4, Zenon DEF LoopInv, WrittenInv, Position
<1>6. ASSUME NEW j \in CpuJobs PROVE worker[j] = "returned"
  <2>1. j \in Range(archive)
    BY <1>5, PieceFacts, Zenon
  <2>2. j = <<j[1], j[2]>> /\ j[1] \in Files /\ j[2] \in Nat
    BY JobsOfFiles, Zenon
  <2>3. CASE j[2] = 0
    BY <2>1, <2>2, <2>3, Zenon DEF DeliveredInv
  <2>4. CASE j[2] > 0
    BY <2>1, <2>4, Zenon DEF DeliveredInv
  <2> QED
    BY <2>2, <2>3, <2>4, SMTT(30)
<1> QED
  BY <1>1, <1>2, <1>5, <1>6, Zenon DEF AllReturned
-----------------------------------------------------------------------------
(* The pipeline *)

\* Main's steps keep the invariant, in the loop and after it.
LEMMA MainPipe ==
    ASSUME TypeInv, PipeInv, Main
    PROVE  PipeInv'
<1>1. /\ ArchiveInOrder /\ DeliveredInv
      /\ main.pc \in Loop => LoopInv
      /\ main.pc \in Left => EndInv
      /\ errors = "closed" => main.pc \in Left
      /\ ~ panicked
  BY Zenon DEF PipeInv, Main, Alive
<1>2. \A pc : pc \in Loop => pc \notin Left
  BY Zenon DEF Loop, Left
<1>3. ASSUME main.pc \in Loop, LoopInv', ArchiveInOrder', DeliveredInv', main'.pc \in Loop,
             UNCHANGED <<result, errors, panicked>>
      PROVE  PipeInv'
  BY <1>1, <1>2, <1>3, Zenon DEF PipeInv
<1>4. CASE TakeEntry \/ CopyReader
  <2>1. main.pc \in Loop
    BY <1>4, Zenon DEF TakeEntry, CopyReader, Loop
  <2> QED
    BY <1>1, <1>3, <1>4, <2>1, TakeEntryKeeps, CopyReaderKeeps, Zenon
<1>5. CASE TakeOp \/ OpsClosed \/ MemoryFinished \/ TakeReader \/ ReadersClosed
  <2>1. main.pc \in Loop /\ UNCHANGED <<archive, worker, opReady, ready, result, errors, panicked>>
    BY <1>5, Zenon DEF TakeOp, OpsClosed, MemoryFinished, TakeReader, ReadersClosed, channelVars, outcomeVars, Loop
  <2>2. ArchiveInOrder' /\ DeliveredInv'
    BY <1>1, <2>1, Zenon DEF ArchiveInOrder, DeliveredInv, Range
  <2>3. TakeOp \/ OpsClosed => main'.pc \in Loop
    BY MainMoves, Zenon DEF TakeOp, OpsClosed, Loop
  <2>4. LoopInv' /\ main'.pc \in Loop
    BY <1>1, <1>5, <2>1, <2>3, TakeOpKeeps, TakeReaderKeeps, ReadersClosedKeeps, ZenonT(40)
  <2> QED
    BY <1>3, <2>1, <2>2, <2>4, Zenon
<1>6. ASSUME UNCHANGED <<archive, errors, panicked>>, DeliveredInv', main'.pc = "stop", EndInv'
      PROVE  PipeInv'
  <2>1. ArchiveInOrder'
    BY <1>1, <1>6, Zenon DEF ArchiveInOrder, Range
  <2> QED
    BY <1>1, <1>6, <2>1, Zenon DEF PipeInv, Loop, Left
<1>7. CASE WriteFails \/ ReceiveProducerError
  <2>1. /\ UNCHANGED <<archive, errors, panicked, worker, opReady, ready>>
        /\ main'.pc = "stop" /\ result' = "error"
    BY <1>7, MainMoves, Zenon DEF WriteFails, ReceiveProducerError, channelVars
  <2>2. DeliveredInv'
    BY <1>1, <2>1, Zenon DEF DeliveredInv, Range
  <2>3. EndInv'
    BY <2>1, Zenon DEF EndInv
  <2> QED
    BY <1>6, <2>1, <2>2, <2>3, Zenon
<1>8. ASSUME NEW j \in CpuJobs, ReceiveWorkerError(j) PROVE PipeInv'
  <2>1. /\ UNCHANGED <<archive, errors, panicked, opReady, ready>>
        /\ main'.pc = "stop" /\ result' = "error" /\ worker' = [worker EXCEPT ![j] = "returned"]
    BY <1>8, MainMoves, Zenon DEF ReceiveWorkerError, channelVars
  <2>2. \A k \in CpuJobs : worker[k] = "returned" => worker'[k] = "returned"
    BY <2>1, SMTT(30)
  <2>3. \A e \in Files : <<e, 0>> \in CpuJobs
    BY JobsOfFiles, Zenon
  <2>4. DeliveredInv'
    BY <1>1, <2>1, <2>2, <2>3, Zenon DEF DeliveredInv, Range
  <2>5. EndInv'
    BY <2>1, Zenon DEF EndInv
  <2> QED
    BY <1>6, <2>1, <2>4, <2>5, Zenon
<1>9. CASE ReturnOk
  <2>1. /\ UNCHANGED <<archive, errors, panicked, worker, opReady, ready>>
        /\ main'.pc = "stop" /\ result' = "ok" /\ main.pc \in Loop
    BY <1>9, MainMoves, Zenon DEF ReturnOk, channelVars, Loop
  <2>2. DeliveredInv'
    BY <1>1, <2>1, Zenon DEF DeliveredInv, Range
  <2>3. EndInv'
    BY <1>1, <1>9, <2>1, ReturnOkComplete, Zenon DEF EndInv
  <2> QED
    BY <1>6, <2>1, <2>2, <2>3, Zenon
<1>10. CASE StopLimiters \/ CloseErrors \/ Exit
  <2>1. /\ UNCHANGED <<archive, panicked, result, producer, worker, opReady, ready>>
        /\ main.pc \in Left /\ main'.pc \in Left
    BY <1>10, MainMoves, Zenon DEF StopLimiters, CloseErrors, Exit, channelVars, outcomeVars, Left
  <2>2. ArchiveInOrder' /\ DeliveredInv'
    BY <1>1, <2>1, Zenon DEF ArchiveInOrder, DeliveredInv, Range
  <2>3. EndInv'
    BY <1>1, <2>1, Zenon DEF EndInv, AllReturned, Range
  <2> QED
    BY <1>1, <1>2, <2>1, <2>2, <2>3, Zenon DEF PipeInv
<1> QED
  BY <1>4, <1>5, <1>7, <1>8, <1>9, <1>10, Zenon DEF Main

\* It holds in the first state.
LEMMA PipeInit == Init => PipeInv
<1> SUFFICES ASSUME Init PROVE PipeInv
  BY Zenon
<1>1. /\ producer = [pc |-> "add", e |-> 1, b |-> 0] /\ main = [pc |-> "op", e |-> 0, b |-> 0]
      /\ writeOps = <<>> /\ opsClosed = FALSE /\ opReady = {} /\ readers = [e \in Ids |-> <<>>]
      /\ readersEnd = {} /\ ready = {} /\ archive = <<>> /\ result = "none" /\ errors = "open"
      /\ panicked = FALSE
  BY Zenon DEF Init
<1>2. Range(archive) = {} /\ DOMAIN archive = {}
  BY <1>1, SMTT(30) DEF Range
<1>3. ArchiveInOrder /\ DeliveredInv
  BY <1>1, <1>2, Zenon DEF ArchiveInOrder, DeliveredInv
<1>4. \A e \in Ids : e \in Nat /\ e >= 1
  BY JobsOfFiles, SMTT(30)
<1>5. \A e \in Ids : ~ Done(e) /\ Taken(e) = 0 /\ Given(e) = 0
  <2>1. \A e \in Ids : ~ Done(e) /\ e # main.e
    BY <1>1, <1>4, SMTT(30) DEF Done
  <2> QED
    BY <1>1, <2>1, SMTT(30) DEF Taken, Given
<1>6. TakenInv
  BY <1>1, SMTT(30) DEF TakenInv
<1>7. GivenInv
  BY <1>1, <1>5, PieceFacts, SMTT(30) DEF GivenInv
<1>8. QueueInv
  BY <1>1, SMTT(30) DEF QueueInv, Asking, Blocking
<1>9. \A p \in Pieces : ~ Before(p, <<1, 0>>)
  <2> TAKE p \in Pieces
  <2>1. p[1] \in Nat /\ p[1] >= 1 /\ p[2] \in Nat
    BY <1>4, PieceFacts, Zenon
  <2> QED
    BY <2>1, SMTT(30) DEF Before
<1>10. WrittenInv
  BY <1>1, <1>2, <1>9, SMTT(30) DEF WrittenInv, Position
<1> QED
  BY <1>1, <1>3, <1>6, <1>7, <1>8, <1>10, ZenonT(40) DEF PipeInv, LoopInv, Left

\* Every step keeps it.
LEMMA PipeNext == BaseInv /\ PipeInv /\ [Next]_vars => PipeInv'
<1> SUFFICES ASSUME TypeInv, StartedInv, PipeInv, [Next]_vars PROVE PipeInv'
  BY Zenon DEF BaseInv
<1>1. /\ ArchiveInOrder /\ DeliveredInv
      /\ main.pc \in Loop => LoopInv
      /\ main.pc \in Left => EndInv
      /\ errors = "closed" => main.pc \in Left
      /\ panicked => result = "error"
  BY Zenon DEF PipeInv
<1>2. ASSUME UNCHANGED <<main, archive, result, errors, panicked>>, DeliveredInv',
             main.pc \in Loop => LoopInv', main.pc \in Left /\ result = "ok" => AllReturned'
      PROVE  PipeInv'
  <2>1. ArchiveInOrder'
    BY <1>1, <1>2, Zenon DEF ArchiveInOrder, Range
  <2> QED
    BY <1>1, <1>2, <2>1, Zenon DEF PipeInv, EndInv
<1>3. ASSUME UNCHANGED <<main, archive>>, WrittenInv PROVE WrittenInv'
  BY <1>3, Zenon DEF WrittenInv, Position, Range
<1>4. CASE Producer
  <2>1. producer.pc # "returned"
    BY <1>4, Zenon DEF Producer, AddFails, QueueReadyEntry, QueueFile, RequestMemory, StartFile, QueueBlock, StartBlock,
                DictionaryFails, ProducerReturns, AtEntry
  <2>2. UNCHANGED <<main, archive, result, errors, panicked>>
    BY <1>4, Zenon DEF Producer, AddFails, QueueReadyEntry, QueueFile, RequestMemory, StartFile, QueueBlock, StartBlock,
                DictionaryFails, ProducerReturns, outcomeVars
  <2>3. DeliveredInv'
    BY <1>1, <1>4, ProducerDelivers, Zenon
  <2>4. ASSUME main.pc \in Loop PROVE LoopInv'
    BY <1>1, <1>3, <1>4, <2>2, <2>4, ProducerQueues, ProducerGives, Zenon DEF LoopInv
  <2> QED
    BY <1>1, <1>2, <2>1, <2>2, <2>3, <2>4, Zenon DEF EndInv, AllReturned
<1>5. ASSUME NEW j \in CpuJobs, Worker(j) PROVE PipeInv'
  <2>1. /\ UNCHANGED <<producer, main, writeOps, opsClosed, archive, result, errors, panicked>>
        /\ worker[j] # "returned"
    BY <1>5, WorkerTypes, Zenon
  <2>2. DeliveredInv'
    BY <1>1, <1>5, WorkerDelivers, Zenon
  <2>3. ASSUME main.pc \in Loop PROVE LoopInv'
    <3>1. QueueInv'
      BY <1>1, <2>1, <2>3, Zenon DEF LoopInv, QueueInv
    <3> QED
      BY <1>1, <1>3, <1>5, <2>1, <2>3, <3>1, WorkerGives, Zenon DEF LoopInv
  <2> QED
    BY <1>1, <1>2, <2>1, <2>2, <2>3, Zenon DEF EndInv, AllReturned
<1>6. CASE Main
  BY <1>6, MainPipe, Zenon
<1>7. CASE CpuMonitor \/ MemMonitor \/ SendOnClosed \/ UNCHANGED vars
  <2>1. /\ UNCHANGED <<producer, worker, main, channelVars, archive, result, errors>>
        /\ panicked' = panicked \/ SendOnClosed
    BY <1>7, OthersKeep, Zenon
  <2>2. UNCHANGED <<writeOps, opsClosed, opReady, readers, readersEnd, ready>>
    BY <2>1, Zenon DEF channelVars
  <2>3. DeliveredInv' /\ ArchiveInOrder'
    BY <1>1, <2>1, <2>2, Zenon DEF DeliveredInv, ArchiveInOrder, Range
  <2>4. ASSUME main.pc \in Loop PROVE LoopInv'
    <3>1. QueueInv'
      BY <1>1, <2>1, <2>2, <2>4, Zenon DEF LoopInv, QueueInv
    <3>2. TakenInv'
      BY <1>1, <2>1, <2>2, <2>4, GiveNone, Zenon DEF LoopInv
    <3>3. GivenInv'
      BY <1>1, <2>1, <2>2, <2>4, GiveNone, MainKeeps, Zenon DEF LoopInv
    <3> QED
      BY <1>1, <1>3, <2>1, <2>4, <3>1, <3>2, <3>3, Zenon DEF LoopInv
  <2>5. ASSUME main.pc \in Left PROVE EndInv'
    BY <1>1, <2>1, <2>5, Zenon DEF EndInv, AllReturned, Range
  <2>6. SendOnClosed => result = "error"
    BY <1>1, Zenon DEF SendOnClosed, Reporting, EndInv, AllReturned
  <2> QED
    BY <1>1, <2>1, <2>3, <2>4, <2>5, <2>6, SMTT(30) DEF PipeInv
<1> QED
  BY <1>4, <1>5, <1>6, <1>7, Zenon DEF Next

\* The pipeline's invariant, in every reachable state.
LEMMA PipeAlways == Spec => [](BaseInv /\ PipeInv)
<1>1. Init => BaseInv /\ PipeInv
  BY BaseInit, PipeInit, Zenon
<1>2. BaseInv /\ PipeInv /\ [Next]_vars => (BaseInv /\ PipeInv)'
  BY BaseNext, PipeNext, Zenon
<1> QED
  BY <1>1, <1>2, PTL DEF Spec

(***************************************************************************)
(* The archive of any run, complete or not, is a prefix of the one that a  *)
(* writer without goroutines would produce (write and its compressors).    *)
(***************************************************************************)
THEOREM ZipWriterArchiveInOrder == Spec => []ArchiveInOrder
<1>1. BaseInv /\ PipeInv => ArchiveInOrder
  BY Zenon DEF PipeInv
<1> QED
  BY <1>1, PipeAlways, PTL

(***************************************************************************)
(* write returns nil only when every piece is in the archive and nobody    *)
(* has an error to report.                                                 *)
(***************************************************************************)
THEOREM ZipWriterSuccessIsComplete == Spec => []SuccessIsComplete
<1>1. BaseInv /\ PipeInv => SuccessIsComplete
  <2> SUFFICES ASSUME TypeInv, PipeInv, result = "ok" PROVE Pieces \subseteq Range(archive) /\ ~ Reporting
    BY Zenon DEF BaseInv, SuccessIsComplete
  <2>1. main.pc \in Loop \cup Left
    BY Zenon DEF TypeInv, MainType
  <2>2. AllReturned
    BY <2>1, Zenon DEF PipeInv, LoopInv, EndInv
  <2> QED
    BY <2>2, Zenon DEF AllReturned, Reporting
<1> QED
  BY <1>1, PipeAlways, PTL

(***************************************************************************)
(* No goroutine sends on the closed z.errors unless write has failed.      *)
(***************************************************************************)
THEOREM ZipWriterPanicOnlyAfterError == Spec => []PanicOnlyAfterError
<1>1. BaseInv /\ PipeInv => PanicOnlyAfterError
  BY Zenon DEF PipeInv, PanicOnlyAfterError
<1> QED
  BY <1>1, PipeAlways, PTL
-----------------------------------------------------------------------------
(* The slots of the limiters *)

\* What producer, compressors and main do to the CPU limiter is what its
\* callers may do.
LEMMA CpuSteps ==
    ASSUME TypeInv, StartedInv, [Next]_vars
    PROVE  [Cpu!Next]_(Cpu!vars)
<1>1. /\ producer.pc \in Asking \cup Blocking => producer.e \in Files
      /\ producer.pc \in Blocking => producer.b \in 1 .. Entries[producer.e].blocks
  BY Zenon DEF TypeInv, ProducerType, StartedInv, Here
<1>2. /\ \A e \in Files : <<e, 0>> \in CpuJobs
      /\ \A e \in Files : \A b \in 1 .. Entries[e].blocks : <<e, b>> \in CpuJobs
  BY JobsOfFiles, Zenon
<1>3. ASSUME NEW j \in CpuJobs, Cpu!Request(j) \/ Cpu!Serviced(j) \/ Cpu!Finish(j)
      PROVE  Cpu!Next
  BY <1>3, Zenon DEF Cpu!Next, Cpu!JobStep
<1>4. ASSUME UNCHANGED <<cpuVars, stop>> PROVE UNCHANGED Cpu!vars
  BY <1>4, Zenon DEF Cpu!vars, cpuVars
<1>5. CASE Producer
  <2>1. CASE AddFails \/ QueueReadyEntry \/ ProducerReturns \/ StartFile
    <3>1. UNCHANGED <<cpuVars, stop>>
      BY <2>1, Zenon DEF AddFails, QueueReadyEntry, ProducerReturns, StartFile, Mem!Serviced
    <3> QED
      BY <1>4, <3>1, Zenon
  <2>2. CASE QueueFile
    <3>1. producer.e \in Files /\ Cpu!Request(<<producer.e, 0>>)
      BY <2>2, Zenon DEF QueueFile, AtEntry, Files, Here
    <3> QED
      BY <1>2, <1>3, <3>1, Zenon
  <2>3. CASE RequestMemory
    <3>1. producer.e \in Files /\ Cpu!Serviced(<<producer.e, 0>>)
      BY <1>1, <2>3, Zenon DEF RequestMemory, Here, Asking
    <3> QED
      BY <1>2, <1>3, <3>1, Zenon
  <2>4. CASE QueueBlock \/ StartBlock \/ DictionaryFails
    <3>1. /\ producer.pc \in Blocking
          /\ Cpu!Request(<<producer.e, producer.b>>) \/ Cpu!Serviced(<<producer.e, producer.b>>)
      BY <2>4, Zenon DEF QueueBlock, StartBlock, DictionaryFails, Here, Blocking
    <3> QED
      BY <1>1, <1>2, <1>3, <3>1, Zenon
  <2> QED
    BY <1>5, <2>1, <2>2, <2>3, <2>4, Zenon DEF Producer
<1>6. ASSUME NEW j \in CpuJobs, Worker(j) PROVE [Cpu!Next]_(Cpu!vars)
  <2>1. j[2] = 0 => j = <<j[1], 0>>
    BY JobsOfFiles, Zenon
  <2>2. Cpu!Finish(j) \/ UNCHANGED <<cpuVars, stop>>
    BY <1>6, <2>1, Zenon DEF Worker, CompressWhole, DeliverWhole, DeliverCrc, CompressBlock, DeliverBlock, WorkerFails
  <2> QED
    BY <1>3, <1>4, <2>2, Zenon
<1>7. CASE CpuMonitor
  BY <1>7, Zenon DEF CpuMonitor, Cpu!Next, Cpu!JobStep
<1>8. CASE MemMonitor
  <2>1. UNCHANGED <<cpuVars, stop>>
    BY <1>8, Zenon DEF MemMonitor, Mem!ReceiveRequest, Mem!ReceiveCompletion, Mem!MonitorReturn
  <2> QED
    BY <1>4, <2>1, Zenon
<1>9. CASE Main
  <2>1. CASE StopLimiters
    BY <2>1, ZenonT(40) DEF StopLimiters, Cpu!Next
  <2>2. ASSUME NEW j \in CpuJobs, ReceiveWorkerError(j) PROVE [Cpu!Next]_(Cpu!vars)
    <3>1. Cpu!Finish(j) \/ UNCHANGED <<cpuVars, stop>>
      BY <2>2, Zenon DEF ReceiveWorkerError
    <3> QED
      BY <1>3, <1>4, <3>1, Zenon
  <2>3. CASE TakeEntry
    <3>1. UNCHANGED <<cpuVars, stop>>
      BY <2>3, Zenon DEF TakeEntry, Mem!Finish
    <3> QED
      BY <1>4, <3>1, Zenon
  <2>4. CASE \/ TakeOp \/ OpsClosed \/ MemoryFinished \/ TakeReader \/ ReadersClosed \/ CopyReader
             \/ WriteFails \/ ReceiveProducerError \/ ReturnOk \/ CloseErrors \/ Exit
    <3>1. UNCHANGED <<cpuVars, stop>>
      BY <2>4, Zenon DEF TakeOp, OpsClosed, MemoryFinished, TakeReader, ReadersClosed, CopyReader,
                  WriteFails, ReceiveProducerError, ReturnOk, CloseErrors, Exit
    <3> QED
      BY <1>4, <3>1, Zenon
  <2> QED
    BY <1>9, <2>1, <2>2, <2>3, <2>4, ZenonT(40) DEF Main
<1>10. CASE SendOnClosed \/ UNCHANGED vars
  <2>1. UNCHANGED <<cpuVars, stop>>
    BY <1>10, Zenon DEF SendOnClosed, vars
  <2> QED
    BY <1>4, <2>1, Zenon
<1> QED
  BY <1>5, <1>6, <1>7, <1>8, <1>9, <1>10, Zenon DEF Next

\* The same for the memory limiter, whose Finish is called by main.
LEMMA MemSteps ==
    ASSUME TypeInv, StartedInv, [Next]_vars
    PROVE  [Mem!Next]_(Mem!vars)
<1>1. producer.pc \in Asking \cup Blocking => producer.e \in Files
  BY Zenon DEF TypeInv, ProducerType
<1>2. ASSUME NEW e \in Files, Mem!Request(e) \/ Mem!Serviced(e) \/ Mem!Finish(e)
      PROVE  Mem!Next
  BY <1>2, Zenon DEF Mem!Next, Mem!JobStep
<1>3. ASSUME UNCHANGED <<memVars, stop>> PROVE UNCHANGED Mem!vars
  BY <1>3, Zenon DEF Mem!vars, memVars
<1>4. CASE Producer
  <2>1. CASE RequestMemory \/ StartFile
    <3>1. producer.e \in Files /\ (Mem!Request(producer.e) \/ Mem!Serviced(producer.e))
      BY <1>1, <2>1, Zenon DEF RequestMemory, StartFile, Here, Asking
    <3> QED
      BY <1>2, <3>1, Zenon
  <2>2. CASE \/ AddFails \/ QueueReadyEntry \/ QueueFile \/ QueueBlock \/ StartBlock \/ DictionaryFails
             \/ ProducerReturns
    <3>1. UNCHANGED <<memVars, stop>>
      BY <2>2, Zenon DEF AddFails, QueueReadyEntry, QueueFile, QueueBlock, StartBlock, DictionaryFails,
                  ProducerReturns, Cpu!Request, Cpu!Serviced
    <3> QED
      BY <1>3, <3>1, Zenon
  <2> QED
    BY <1>4, <2>1, <2>2, Zenon DEF Producer
<1>5. ASSUME NEW j \in CpuJobs, Worker(j) PROVE UNCHANGED Mem!vars
  <2>1. UNCHANGED <<memVars, stop>>
    BY <1>5, Zenon DEF Worker, CompressWhole, DeliverWhole, DeliverCrc, CompressBlock, DeliverBlock, WorkerFails,
                Cpu!Finish
  <2> QED
    BY <1>3, <2>1, Zenon
<1>6. CASE CpuMonitor
  <2>1. UNCHANGED <<memVars, stop>>
    BY <1>6, Zenon DEF CpuMonitor, Cpu!ReceiveRequest, Cpu!ReceiveCompletion, Cpu!MonitorReturn
  <2> QED
    BY <1>3, <2>1, Zenon
<1>7. CASE MemMonitor
  BY <1>7, Zenon DEF MemMonitor, Mem!Next, Mem!JobStep
<1>8. CASE Main
  <2>1. CASE StopLimiters
    BY <2>1, Zenon DEF StopLimiters, Mem!Next
  <2>2. ASSUME NEW j \in CpuJobs, ReceiveWorkerError(j) PROVE UNCHANGED Mem!vars
    <3>1. UNCHANGED <<memVars, stop>>
      BY <2>2, Zenon DEF ReceiveWorkerError, Cpu!Finish
    <3> QED
      BY <1>3, <3>1, Zenon
  <2>3. CASE TakeEntry
    <3>1. (main.e \in Files /\ Mem!Finish(main.e)) \/ UNCHANGED <<memVars, stop>>
      BY <2>3, Zenon DEF TakeEntry
    <3> QED
      BY <1>2, <1>3, <3>1, Zenon
  <2>4. CASE \/ TakeOp \/ OpsClosed \/ MemoryFinished \/ TakeReader \/ ReadersClosed \/ CopyReader
             \/ WriteFails \/ ReceiveProducerError \/ ReturnOk \/ CloseErrors \/ Exit
    <3>1. UNCHANGED <<memVars, stop>>
      BY <2>4, Zenon DEF TakeOp, OpsClosed, MemoryFinished, TakeReader, ReadersClosed, CopyReader,
                  WriteFails, ReceiveProducerError, ReturnOk, CloseErrors, Exit
    <3> QED
      BY <1>3, <3>1, Zenon
  <2> QED
    BY <1>8, <2>1, <2>2, <2>3, <2>4, Zenon DEF Main
<1>9. CASE SendOnClosed \/ UNCHANGED vars
  <2>1. UNCHANGED <<memVars, stop>>
    BY <1>9, Zenon DEF SendOnClosed, vars
  <2> QED
    BY <1>3, <2>1, Zenon
<1> QED
  BY <1>4, <1>5, <1>6, <1>7, <1>8, <1>9, Zenon DEF Next

\* A call of one job leaves the slots of the others alone.
LEMMA SlotsKept ==
    ASSUME cpuJob \in [CpuJobs -> Cpu!Phases], memJob \in [Files -> Mem!Phases]
    PROVE  /\ \A k : Cpu!Request(k) \/ Cpu!Serviced(k)
                       => \A j \in CpuJobs : cpuJob[j] = "executing" => cpuJob'[j] = "executing"
           /\ \A k : Cpu!Finish(k)
                       => \A j \in CpuJobs : j # k /\ cpuJob[j] = "executing" => cpuJob'[j] = "executing"
           /\ \A k : Mem!Request(k) \/ Mem!Serviced(k)
                       => \A e \in Files : memJob[e] = "executing" => memJob'[e] = "executing"
           /\ \A k : Mem!Finish(k)
                       => \A e \in Files : e # k /\ memJob[e] = "executing" => memJob'[e] = "executing"
           /\ \A j \in CpuJobs : Cpu!Serviced(j) => cpuJob'[j] = "executing"
           /\ \A e \in Files : Mem!Serviced(e) => memJob'[e] = "executing"
  BY Zenon DEF Cpu!Request, Cpu!Serviced, Cpu!Finish, Mem!Request, Mem!Serviced, Mem!Finish

\* Whoever works has a slot: steps of the pipeline itself, and of the
\* monitors if these take no slot away from a job that executes.
LEMMA SlotStep ==
    ASSUME TypeInv, StartedInv, SlotInv, [Next]_vars,
           cpuJob \in [CpuJobs -> Cpu!Phases], memJob \in [Files -> Mem!Phases],
           CpuMonitor => \A j \in CpuJobs : cpuJob[j] = "executing" => cpuJob'[j] = "executing",
           MemMonitor => \A e \in Files : memJob[e] = "executing" => memJob'[e] = "executing"
    PROVE  SlotInv'
<1> DEFINE Working == {"running", "report"}
           CpuKept == \A j \in CpuJobs : cpuJob[j] = "executing" => cpuJob'[j] = "executing"
           MemKept == \A e \in Files : memJob[e] = "executing" => memJob'[e] = "executing"
<1>1. /\ \A j \in CpuJobs : worker[j] \in Working => cpuJob[j] = "executing"
      /\ producer.pc = "memory" => cpuJob[<<producer.e, 0>>] = "executing"
      /\ \A e \in Buffered : memJob[e] = "executing"
  BY Zenon DEF SlotInv, Here
<1>2. \A e \in Files : <<e, 0>> \in CpuJobs
  BY JobsOfFiles, Zenon
<1>3. producer.pc \in Asking \cup Blocking => producer.e \in Files
  BY Zenon DEF TypeInv, ProducerType
<1>4. ASSUME CpuKept, MemKept, UNCHANGED <<worker, archive>>,
             producer'.pc = "memory" => producer' = producer \/ cpuJob'[<<producer'.e, 0>>] = "executing"
      PROVE  SlotInv'
  <2>1. Buffered' = Buffered /\ Buffered \subseteq Files
    BY <1>4, Zenon DEF Buffered, Range
  <2> QED
    BY <1>1, <1>2, <1>3, <1>4, <2>1, Zenon DEF SlotInv, Here, Asking
<1>5. CASE Producer
  <2>1. UNCHANGED archive
    BY <1>5, Zenon DEF Producer, AddFails, QueueReadyEntry, QueueFile, RequestMemory, StartFile, QueueBlock, StartBlock,
                DictionaryFails, ProducerReturns, outcomeVars
  <2>2. CASE \/ AddFails \/ QueueReadyEntry \/ QueueFile \/ QueueBlock \/ DictionaryFails \/ ProducerReturns
    <3>1. UNCHANGED <<worker, memJob>>
      BY <2>2, Zenon DEF AddFails, QueueReadyEntry, QueueFile, QueueBlock, DictionaryFails, ProducerReturns, memVars
    <3>2. producer'.pc # "memory"
      BY <2>2, ProducerMoves, Zenon
    <3>3. UNCHANGED cpuJob \/ \E k : Cpu!Request(k) \/ Cpu!Serviced(k)
      BY <2>2, Zenon DEF AddFails, QueueReadyEntry, QueueFile, QueueBlock, DictionaryFails, ProducerReturns, cpuVars
    <3>4. CpuKept /\ MemKept
      BY <3>1, <3>3, SlotsKept, Zenon
    <3> QED
      BY <1>4, <2>1, <3>1, <3>2, <3>4, Zenon
  <2>3. CASE RequestMemory
    <3>1. /\ UNCHANGED worker /\ Cpu!Serviced(<<producer.e, 0>>) /\ Mem!Request(producer.e)
          /\ producer'.e = producer.e /\ producer.e \in Files
      BY <1>3, <2>3, ProducerMoves, Zenon DEF RequestMemory, Here, Asking
    <3>2. CpuKept /\ MemKept
      BY <3>1, SlotsKept, Zenon
    <3>3. cpuJob'[<<producer'.e, 0>>] = "executing"
      BY <1>2, <3>1, SlotsKept, Zenon
    <3> QED
      BY <1>4, <2>1, <3>1, <3>2, <3>3, Zenon
  <2>4. CASE StartFile
    <3>1. /\ UNCHANGED cpuJob /\ Mem!Serviced(producer.e) /\ producer.pc = "memory" /\ producer.e \in Files
          /\ worker' = [worker EXCEPT ![<<producer.e, 0>>] = "running"] /\ producer'.pc # "memory"
      BY <1>3, <2>4, ProducerMoves, Zenon DEF StartFile, Here, Asking, cpuVars
    <3>2. \A j \in CpuJobs : j # <<producer.e, 0>> => worker'[j] = worker[j]
      BY <3>1, Zenon DEF TypeInv, WorkerType
    <3>3. \A j \in CpuJobs : worker'[j] \in Working => cpuJob'[j] = "executing"
      BY <1>1, <3>1, <3>2, Zenon
    <3>4. MemKept /\ memJob'[producer.e] = "executing"
      BY <3>1, SlotsKept, Zenon
    <3>5. \A e \in Buffered' : e \in Files /\ (e = producer.e \/ e \in Buffered)
      BY <1>2, <2>1, <3>2, Zenon DEF Buffered, Range
    <3> QED
      BY <1>1, <3>1, <3>3, <3>4, <3>5, Zenon DEF SlotInv
  <2>5. CASE StartBlock
    <3>1. /\ UNCHANGED memJob /\ producer.pc = "blockCpu" /\ Cpu!Serviced(<<producer.e, producer.b>>)
          /\ worker' = [worker EXCEPT ![<<producer.e, producer.b>>] = "running"] /\ producer'.pc # "memory"
      BY <2>5, ProducerMoves, Zenon DEF StartBlock, Here, memVars
    <3>2. <<producer.e, producer.b>> \in CpuJobs /\ producer.b # 0
      BY <1>3, <3>1, JobsOfFiles, SMTT(30) DEF StartedInv, Here, Blocking
    <3>3. \A j \in CpuJobs : j # <<producer.e, producer.b>> => worker'[j] = worker[j]
      BY <3>1, Zenon DEF TypeInv, WorkerType
    <3>4. CpuKept /\ cpuJob'[<<producer.e, producer.b>>] = "executing"
      BY <3>1, <3>2, SlotsKept, Zenon
    <3>5. \A j \in CpuJobs : worker'[j] \in Working => cpuJob'[j] = "executing"
      BY <1>1, <3>3, <3>4, Zenon
    <3>6. \A e \in Buffered' : e \in Buffered
      BY <1>2, <2>1, <3>2, <3>3, Zenon DEF Buffered, Range
    <3> QED
      BY <1>1, <3>1, <3>5, <3>6, Zenon DEF SlotInv
  <2> QED
    BY <1>5, <2>2, <2>3, <2>4, <2>5, Zenon DEF Producer
<1>6. ASSUME NEW j \in CpuJobs, worker[j] # "none", UNCHANGED <<producer, archive, memJob>>,
             UNCHANGED cpuJob \/ Cpu!Finish(j), NEW w, worker' = [worker EXCEPT ![j] = w],
             w \in Working => UNCHANGED cpuJob /\ worker[j] \in Working
      PROVE  SlotInv'
  <2>1. \A k \in CpuJobs : k # j => worker'[k] = worker[k] /\ (cpuJob[k] = "executing" => cpuJob'[k] = "executing")
    BY <1>6, SlotsKept, Zenon DEF TypeInv, WorkerType
  <2>2. worker'[j] = w
    BY <1>6, Zenon DEF TypeInv, WorkerType
  <2>3. \A k \in CpuJobs : worker'[k] \in Working => cpuJob'[k] = "executing"
    BY <1>1, <1>6, <2>1, <2>2, Zenon
  <2>4. producer.pc = "memory" => <<producer.e, 0>> \in CpuJobs /\ <<producer.e, 0>> # j
    <3> SUFFICES ASSUME producer.pc = "memory", j = <<producer.e, 0>> PROVE FALSE
      BY <1>2, <1>3, Zenon DEF Asking
    <3>1. NotStarted(j)
      BY Zenon DEF NotStarted, Asking
    <3> QED
      BY <1>6, <3>1, Zenon DEF StartedInv
  <2>5. \A e \in Buffered' : e \in Buffered
    BY <1>2, <1>6, <2>1, Zenon DEF Buffered, Range
  <2> QED
    BY <1>1, <1>6, <2>1, <2>3, <2>4, <2>5, ZenonT(40) DEF SlotInv, Here
<1>7. ASSUME NEW j \in CpuJobs, Worker(j) PROVE SlotInv'
  <2>1. j[2] = 0 => j = <<j[1], 0>>
    BY JobsOfFiles, Zenon
  <2>2. UNCHANGED <<producer, archive>> /\ worker[j] # "none"
    BY <1>7, WorkerTypes, Zenon
  <2>3. UNCHANGED memJob
    BY <1>7, Zenon DEF Worker, CompressWhole, DeliverWhole, DeliverCrc, CompressBlock, DeliverBlock, WorkerFails, memVars
  <2>4. \/ /\ UNCHANGED cpuJob \/ Cpu!Finish(j)
           /\ worker' = [worker EXCEPT ![j] = "finishing"] \/ worker' = [worker EXCEPT ![j] = "returned"]
        \/ UNCHANGED cpuJob /\ worker[j] = "running" /\ worker' = [worker EXCEPT ![j] = "report"]
    BY <1>7, <2>1, Zenon DEF Worker, CompressWhole, DeliverWhole, DeliverCrc, CompressBlock, DeliverBlock, WorkerFails,
                      cpuVars
  <2> QED
    BY <1>6, <2>2, <2>3, <2>4, Zenon
<1>8. CASE Main
  <2>1. ASSUME NEW j \in CpuJobs, ReceiveWorkerError(j) PROVE SlotInv'
    <3>1. /\ worker[j] # "none" /\ UNCHANGED <<producer, archive, memJob>>
          /\ UNCHANGED cpuJob \/ Cpu!Finish(j)
      BY <2>1, Zenon DEF ReceiveWorkerError, cpuVars, memVars
    <3>2. worker' = [worker EXCEPT ![j] = "returned"]
      BY <2>1, Zenon DEF ReceiveWorkerError
    <3> QED
      BY <1>6, <3>1, <3>2, Zenon
  <2>2. CASE TakeEntry \/ CopyReader
    <3>1. PICK q \in Nat \X Nat : archive' = Append(archive, q)
                                  /\ (UNCHANGED memJob \/ (Mem!Finish(main.e) /\ q = <<main.e, 0>>))
      <4>1. <<main.e, 0>> \in Nat \X Nat /\ <<main.e, main.b>> \in Nat \X Nat
        BY MainMoves, Zenon
      <4> QED
        BY <2>2, <4>1, Zenon DEF TakeEntry, CopyReader, memVars
    <3>2. UNCHANGED <<producer, worker, cpuJob>>
      BY <2>2, Zenon DEF TakeEntry, CopyReader, cpuVars
    <3>3. \A x : x \in Range(archive)' <=> x \in Range(archive) \/ x = q
      <4>1. archive \in Seq(Nat \X Nat)
        BY Zenon DEF TypeInv, ChannelTypes
      <4> DEFINE N == Len(archive)
      <4>2. /\ N \in Nat /\ DOMAIN archive = 1 .. N /\ DOMAIN archive' = 1 .. N + 1
            /\ archive'[N + 1] = q /\ \A i \in 1 .. N : archive'[i] = archive[i]
        BY <3>1, <4>1, SMTT(30)
      <4> HIDE DEF N
      <4>3. \A i : i \in 1 .. N + 1 <=> i \in 1 .. N \/ i = N + 1
        BY <4>2, SMTT(30)
      <4> QED
        BY <4>2, <4>3, SMTT(30) DEF Range
    <3>4. \A e \in Buffered' : e \in Buffered /\ e \in Files /\ <<e, 0>> # q
      BY <3>2, <3>3, Zenon DEF Buffered
    <3>5. \A e \in Buffered' : memJob'[e] = "executing"
      <4>1. \A e \in Buffered' : memJob[e] = "executing"
        BY <1>1, <3>4, Zenon
      <4>2. CASE Mem!Finish(main.e) /\ q = <<main.e, 0>>
        <5>1. \A e \in Files : e # main.e /\ memJob[e] = "executing" => memJob'[e] = "executing"
          BY <4>2, SlotsKept, SMTT(30)
        <5>2. \A e \in Buffered' : e # main.e
          BY <3>4, <4>2, Zenon
        <5> QED
          BY <3>4, <4>1, <5>1, <5>2, Zenon
      <4>3. CASE UNCHANGED memJob
        BY <4>1, <4>3, Zenon
      <4> QED
        BY <3>1, <4>2, <4>3, Zenon
    <3> QED
      BY <1>1, <3>2, <3>5, Zenon DEF SlotInv, Here
  <2>3. CASE \/ TakeOp \/ OpsClosed \/ MemoryFinished \/ TakeReader \/ ReadersClosed
             \/ WriteFails \/ ReceiveProducerError \/ ReturnOk \/ StopLimiters \/ CloseErrors \/ Exit
    <3>1. UNCHANGED <<worker, archive, cpuJob, memJob>>
      BY <2>3, Zenon DEF TakeOp, OpsClosed, MemoryFinished, TakeReader, ReadersClosed, WriteFails, ReceiveProducerError,
                  ReturnOk, StopLimiters, CloseErrors, Exit, outcomeVars, cpuVars, memVars, Cpu!Stop, Mem!Stop
    <3>2. UNCHANGED producer \/ producer' = [producer EXCEPT !.pc = "returned"]
      BY <2>3, Zenon DEF TakeOp, OpsClosed, MemoryFinished, TakeReader, ReadersClosed, WriteFails, ReceiveProducerError,
                  ReturnOk, StopLimiters, CloseErrors, Exit
    <3>3. producer'.pc = "memory" => producer' = producer
      BY <3>2, Zenon DEF TypeInv, ProducerType
    <3> QED
      BY <1>4, <3>1, <3>3, Zenon
  <2> QED
    BY <1>8, <2>1, <2>2, <2>3, Zenon DEF Main
<1>9. CASE CpuMonitor \/ MemMonitor \/ SendOnClosed \/ UNCHANGED vars
  <2>1. UNCHANGED <<producer, worker, archive>>
    BY <1>9, OthersKeep, Zenon
  <2>2. CpuMonitor \/ UNCHANGED cpuJob
    BY <1>9, Zenon DEF MemMonitor, SendOnClosed, vars, cpuVars
  <2>3. MemMonitor \/ UNCHANGED memJob
    BY <1>9, Zenon DEF CpuMonitor, SendOnClosed, vars, memVars
  <2> QED
    BY <1>4, <2>1, <2>2, <2>3, Zenon
<1> QED
  BY <1>5, <1>7, <1>8, <1>9, Zenon DEF Next

\* At first nobody works.
LEMMA SlotInit == Init => SlotInv
<1> SUFFICES ASSUME Init PROVE SlotInv
  BY Zenon
<1>1. worker = [j \in CpuJobs |-> "none"] /\ producer.pc = "add"
  BY Zenon DEF Init
<1>2. Buffered = {}
  BY <1>1, JobsOfFiles, Zenon DEF Buffered
<1> QED
  BY <1>1, <1>2, Zenon DEF SlotInv
-----------------------------------------------------------------------------
(* The limiters, by what RateLimitProofs shows of each of them *)

\* The assumptions of RateLimit hold of both.
LEMMA LimiterAssumptions ==
    /\ NumParallelJobs \in Nat \ {0} /\ [j \in CpuJobs |-> 1] \in [CpuJobs -> Nat]
    /\ MemoryCapacity \in Nat \ {0} /\ [e \in Files |-> Entries[e].size] \in [Files -> Nat]
<1> DEFINE S == [kind : {"dir", "symlink", "file"}, blocks : Nat, size : Nat]
<1>1. Entries \in Seq(S)
  BY EntriesAssumption, Zenon
<1>2. \A x \in S : x.size \in Nat
  BY Zenon
<1> HIDE DEF S
<1>3. \A e \in Files : Entries[e] \in S
  BY <1>1, SMTT(30) DEF Files, Ids
<1> QED
  BY <1>2, <1>3, LimitsAssumption, Zenon

CpuP == INSTANCE RateLimitProofs
    WITH Jobs <- CpuJobs, Size <- [j \in CpuJobs |-> 1],
         Capacity <- NumParallelJobs, job <- cpuJob, usedCapacity <- cpuUsed,
         currentRequest <- cpuQueue, monitor <- cpuMonitor

\* The CPU limiter of the pipeline is one that RateLimitProofs is about.
LEMMA CpuSame ==
    /\ Cpu!Init <=> CpuP!Init
    /\ [Cpu!Next]_(Cpu!vars) <=> [CpuP!Next]_(CpuP!vars)
    /\ \A j : Cpu!ReceiveRequest(j) <=> CpuP!ReceiveRequest(j)
    /\ \A j : Cpu!ReceiveCompletion(j) <=> CpuP!ReceiveCompletion(j)
    /\ Cpu!Phases = CpuP!Phases
<1>1. \A j : Cpu!ReceiveRequest(j) <=> CpuP!ReceiveRequest(j)
  BY Zenon DEF Cpu!ReceiveRequest, CpuP!ReceiveRequest, Cpu!Settle, CpuP!Settle, Cpu!Accepts, CpuP!Accepts
<1>2. \A j : Cpu!ReceiveCompletion(j) <=> CpuP!ReceiveCompletion(j)
  BY Zenon DEF Cpu!ReceiveCompletion, CpuP!ReceiveCompletion, Cpu!Settle, CpuP!Settle, Cpu!Accepts, CpuP!Accepts
<1>3. \A j : (Cpu!Request(j) \/ Cpu!Serviced(j) \/ Cpu!Finish(j)) <=> (CpuP!Request(j) \/ CpuP!Serviced(j) \/ CpuP!Finish(j))
  BY Zenon DEF Cpu!Request, CpuP!Request, Cpu!Serviced, CpuP!Serviced, Cpu!Finish, CpuP!Finish
<1>4. (Cpu!Stop \/ Cpu!MonitorReturn \/ UNCHANGED Cpu!vars) <=> (CpuP!Stop \/ CpuP!MonitorReturn \/ UNCHANGED CpuP!vars)
  BY Zenon DEF Cpu!Stop, CpuP!Stop, Cpu!MonitorReturn, CpuP!MonitorReturn, Cpu!vars, CpuP!vars
<1>5. [Cpu!Next]_(Cpu!vars) <=> [CpuP!Next]_(CpuP!vars)
  BY <1>1, <1>2, <1>3, <1>4, ZenonT(40) DEF Cpu!Next, CpuP!Next, Cpu!JobStep, CpuP!JobStep
<1>6. (Cpu!Init <=> CpuP!Init) /\ Cpu!Phases = CpuP!Phases
  BY Zenon DEF Cpu!Init, CpuP!Init, Cpu!Phases, CpuP!Phases
<1> QED
  BY <1>1, <1>2, <1>5, <1>6, ZenonT(40)

\* Its invariant holds in the first state.
LEMMA CpuInit == Init => CpuP!IInv
<1> SUFFICES ASSUME Init PROVE CpuP!IInv
  BY Zenon
<1>1. CpuP!Init
  BY CpuSame, ZenonT(40) DEF Init
<1> QED
  BY <1>1, LimiterAssumptions, CpuP!InitIInv, ZenonT(40)

\* Every step of the pipeline keeps it.
LEMMA CpuNext ==
    ASSUME TypeInv, StartedInv, CpuP!IInv, [Next]_vars
    PROVE  /\ CpuP!IInv'
           /\ cpuJob \in [CpuJobs -> Cpu!Phases]
           /\ CpuMonitor => \A j \in CpuJobs : cpuJob[j] = "executing" => cpuJob'[j] = "executing"
<1>1. CpuP!IInv'
  <2>1. [CpuP!Next]_(CpuP!vars)
    BY CpuSteps, CpuSame, ZenonT(40)
  <2> QED
    BY <2>1, LimiterAssumptions, CpuP!NextIInv, ZenonT(40)
<1>2. cpuJob \in [CpuJobs -> Cpu!Phases]
  BY CpuSame, Zenon DEF CpuP!IInv, CpuP!TypeOK
<1>3. ASSUME CpuMonitor, NEW j \in CpuJobs, cpuJob[j] = "executing" PROVE cpuJob'[j] = "executing"
  <2>1. CASE Cpu!MonitorReturn
    BY <1>3, <2>1, ZenonT(40) DEF Cpu!MonitorReturn
  <2>2. ASSUME NEW k \in CpuJobs, CpuP!ReceiveRequest(k) \/ CpuP!ReceiveCompletion(k) PROVE cpuJob'[j] = "executing"
    BY <1>3, <2>2, LimiterAssumptions, CpuP!MonitorKeepsExecuting, ZenonT(40)
  <2> QED
    BY <1>3, <2>1, <2>2, CpuSame, ZenonT(40) DEF CpuMonitor
<1> QED
  BY <1>1, <1>2, <1>3, ZenonT(40)

\* No more work than it has given slots.
LEMMA CpuImplies ==
    ASSUME CpuP!IInv, SlotInv
    PROVE  Cardinality({j \in CpuJobs : worker[j] \in {"running", "report"}}) <= NumParallelJobs
<1> DEFINE Working == {j \in CpuJobs : worker[j] \in {"running", "report"}}
<1>1. Working \in SUBSET CpuP!Holders
  BY Zenon DEF SlotInv, CpuP!Holders, CpuP!HoldersIn
<1>2. \A j \in CpuJobs : [k \in CpuJobs |-> 1][j] = 1
  BY Zenon
<1> HIDE DEF Working
<1>3. CpuP!Cardinality(Working) <= NumParallelJobs
  BY <1>1, <1>2, LimiterAssumptions, CpuP!CapacityCountsJobs, ZenonT(40)
<1>4. \A H : Cardinality(H) = CpuP!Cardinality(H)
  BY Zenon DEF Cardinality, CpuP!Cardinality
<1>5. Cardinality(Working) <= NumParallelJobs
  BY <1>3, <1>4, ZenonT(40)
<1> QED
  BY <1>5, Zenon DEF Working

MemP == INSTANCE RateLimitProofs
    WITH Jobs <- Files, Size <- [e \in Files |-> Entries[e].size],
         Capacity <- MemoryCapacity, job <- memJob, usedCapacity <- memUsed,
         currentRequest <- memQueue, monitor <- memMonitor

\* And so is the memory limiter.
LEMMA MemSame ==
    /\ Mem!Init <=> MemP!Init
    /\ [Mem!Next]_(Mem!vars) <=> [MemP!Next]_(MemP!vars)
    /\ \A j : Mem!ReceiveRequest(j) <=> MemP!ReceiveRequest(j)
    /\ \A j : Mem!ReceiveCompletion(j) <=> MemP!ReceiveCompletion(j)
    /\ Mem!Phases = MemP!Phases
    /\ \A H : Mem!WithinCapacity(H) <=> MemP!WithinCapacity(H)
<1>1. \A j : Mem!ReceiveRequest(j) <=> MemP!ReceiveRequest(j)
  BY ZenonT(40) DEF Mem!ReceiveRequest, MemP!ReceiveRequest, Mem!Settle, MemP!Settle, Mem!Accepts, MemP!Accepts
<1>2. \A j : Mem!ReceiveCompletion(j) <=> MemP!ReceiveCompletion(j)
  BY ZenonT(40) DEF Mem!ReceiveCompletion, MemP!ReceiveCompletion, Mem!Settle, MemP!Settle, Mem!Accepts, MemP!Accepts
<1>3. \A j : (Mem!Request(j) \/ Mem!Serviced(j) \/ Mem!Finish(j)) <=> (MemP!Request(j) \/ MemP!Serviced(j) \/ MemP!Finish(j))
  BY Zenon DEF Mem!Request, MemP!Request, Mem!Serviced, MemP!Serviced, Mem!Finish, MemP!Finish
<1>4. (Mem!Stop \/ Mem!MonitorReturn \/ UNCHANGED Mem!vars) <=> (MemP!Stop \/ MemP!MonitorReturn \/ UNCHANGED MemP!vars)
  BY Zenon DEF Mem!Stop, MemP!Stop, Mem!MonitorReturn, MemP!MonitorReturn, Mem!vars, MemP!vars
<1>5. [Mem!Next]_(Mem!vars) <=> [MemP!Next]_(MemP!vars)
  BY <1>1, <1>2, <1>3, <1>4, Zenon DEF Mem!Next, MemP!Next, Mem!JobStep, MemP!JobStep
<1>6. (Mem!Init <=> MemP!Init) /\ Mem!Phases = MemP!Phases
  BY Zenon DEF Mem!Init, MemP!Init, Mem!Phases, MemP!Phases
<1>7. \A H : Mem!Units(H) = MemP!Units(H)
  BY ZenonT(40) DEF Mem!Units, MemP!Units
<1>8. \A H : Mem!WithinCapacity(H) <=> MemP!WithinCapacity(H)
  <2>1. \A H : Mem!Cardinality(H) = MemP!Cardinality(H)
    BY ZenonT(40) DEF Mem!Cardinality, MemP!Cardinality
  <2> QED
    BY <1>7, <2>1, ZenonT(40) DEF Mem!WithinCapacity, MemP!WithinCapacity
<1> QED
  BY <1>1, <1>2, <1>5, <1>6, <1>8, ZenonT(40)

\* The invariants of the limiters and of the slots they give.
LimiterInv == BaseInv /\ CpuP!IInv /\ MemP!IInv /\ SlotInv

\* They hold in the first state.
LEMMA LimiterInit == Init => LimiterInv
<1> SUFFICES ASSUME Init PROVE LimiterInv
  BY Zenon
<1>1. MemP!Init
  BY MemSame, ZenonT(40) DEF Init
<1>2. MemP!IInv
  BY <1>1, LimiterAssumptions, MemP!InitIInv, ZenonT(40)
<1> QED
  BY <1>2, CpuInit, BaseInit, SlotInit, ZenonT(40) DEF LimiterInv

\* Every step keeps them.
LEMMA LimiterNext == LimiterInv /\ [Next]_vars => LimiterInv'
<1> SUFFICES ASSUME BaseInv, CpuP!IInv, MemP!IInv, SlotInv, [Next]_vars PROVE LimiterInv'
  BY ZenonT(40) DEF LimiterInv
<1>1. TypeInv /\ StartedInv
  BY ZenonT(40) DEF BaseInv
<1>2. /\ CpuP!IInv'
      /\ cpuJob \in [CpuJobs -> Cpu!Phases]
      /\ CpuMonitor => \A j \in CpuJobs : cpuJob[j] = "executing" => cpuJob'[j] = "executing"
  BY <1>1, CpuNext, ZenonT(40)
<1>3. MemP!IInv'
  <2>1. [MemP!Next]_(MemP!vars)
    BY <1>1, MemSteps, MemSame, ZenonT(40)
  <2> QED
    BY <2>1, LimiterAssumptions, MemP!NextIInv, ZenonT(40)
<1>4. memJob \in [Files -> Mem!Phases]
  BY MemSame, ZenonT(40) DEF MemP!IInv, MemP!TypeOK
<1>5. ASSUME MemMonitor, NEW e \in Files, memJob[e] = "executing" PROVE memJob'[e] = "executing"
  <2>1. CASE Mem!MonitorReturn
    BY <1>5, <2>1, ZenonT(40) DEF Mem!MonitorReturn
  <2>2. ASSUME NEW k \in Files, MemP!ReceiveRequest(k) \/ MemP!ReceiveCompletion(k) PROVE memJob'[e] = "executing"
    BY <1>5, <2>2, LimiterAssumptions, MemP!MonitorKeepsExecuting, ZenonT(40)
  <2> QED
    BY <1>5, <2>1, <2>2, MemSame, ZenonT(40) DEF MemMonitor
<1>6. SlotInv'
  BY <1>1, <1>2, <1>4, <1>5, SlotStep, ZenonT(40)
<1>7. BaseInv'
  BY BaseNext, ZenonT(40)
<1> QED
  BY <1>2, <1>3, <1>6, <1>7, ZenonT(40) DEF LimiterInv

\* What the limiters hold for those who work bounds them.
LEMMA LimiterImplies == LimiterInv => LimitsHold
<1> SUFFICES ASSUME CpuP!IInv, MemP!IInv, SlotInv PROVE LimitsHold
  BY ZenonT(40) DEF LimiterInv
<1>1. Buffered \in SUBSET MemP!Holders
  BY ZenonT(40) DEF SlotInv, Buffered, MemP!Holders, MemP!HoldersIn
<1>2. MemP!WithinCapacity(Buffered)
  BY <1>1, LimiterAssumptions, MemP!SomeWithinCapacity, ZenonT(40)
<1> QED
  BY <1>2, CpuImplies, MemSame, ZenonT(40) DEF LimitsHold

(***************************************************************************)
(* Both limits hold of the goroutines at work, although the slots are      *)
(* requested, used and given back by different goroutines                  *)
(* (writeFileContents and what it starts), for any limits and sizes.       *)
(***************************************************************************)
THEOREM ZipWriterLimitsHold == Spec => []LimitsHold
  BY LimiterInit, LimiterNext, LimiterImplies, PTL DEF Spec
=============================================================================
