----------------------------- MODULE NinjaReader -----------------------------
(***************************************************************************)
(* ui/status/ninja.go: ninja writes protobuf messages about its edges to a *)
(* fifo and a goroutine turns them into calls on a ToolStatus.  Opening    *)
(* the fifo blocks until both ends are open, so it is left to a goroutine  *)
(* of its own; Close, which runNinjaForBuild and runSoong call when ninja  *)
(* has exited, ends the wait for it and then waits for the reader.         *)
(*                                                                         *)
(* Ninja and the fifo are modelled from what the reader expects of them.   *)
(***************************************************************************)
EXTENDS Naturals, Sequences, Functions

CONSTANTS
    Edges,      \* the edges of the ninja graph
    PipeSize,   \* messages the fifo holds before ninja blocks
    MaxGarbled  \* bound on the messages that do not unmarshal

ASSUME SizeAssumption == PipeSize \in Nat \ {0} /\ MaxGarbled \in Nat

VARIABLES
    ninja,     \* "starting", "writing" or "exited"
    wrote,     \* the messages ninja has written
    pipe,      \* those still in the fifo
    garbled,   \* how many of those it wrote are garbled
    opener,    \* the goroutine that opens the fifo
    run,       \* NinjaReader.run
    running,   \* the edges in run's map
    closing,   \* Close: "none", "waiting", "closed" or "timedout"
    calls      \* the calls on the ToolStatus, as the messages they stand for

ninjaVars == <<ninja, wrote, garbled>>
vars == <<ninjaVars, pipe, opener, run, running, closing, calls>>

Started(e) == [type |-> "started", edge |-> e]
Finished(e) == [type |-> "finished", edge |-> e]
Total == [type |-> "total"]
BuildFinished == [type |-> "buildFinished"]
Messages == [type : {"started", "finished"}, edge : Edges] \cup {Total, BuildFinished}

\* What does not unmarshal, and the beginning of a message.
Garbled == [type |-> "garbled"]
Cut == [type |-> "cut"]

Init ==
    /\ ninja = "starting"
    /\ wrote = <<>>
    /\ pipe = <<>>
    /\ garbled = 0
    /\ opener = "opening"
    /\ run = "select"
    /\ running = {}
    /\ closing = "none"
    /\ calls = <<>>
-----------------------------------------------------------------------------
(* Ninja and the fifo *)

\* Both ends are open: ninja goes on, and os.Open returns the file.
OpenFifo ==
    /\ ninja = "starting" /\ opener = "opening"
    /\ ninja' = "writing"
    /\ opener' = "sending"
    /\ UNCHANGED <<wrote, garbled, pipe, run, running, closing, calls>>

\* The messages ninja may write next: the number of edges first, the end of
\* the build last, and in between every edge starts and finishes once.
NinjaMessages ==
    LET told == {w.of : w \in Range(wrote)}
        open == {e \in Edges : Started(e) \in told /\ Finished(e) \notin told}
    IN  IF told = {} THEN {Total}
        ELSE IF BuildFinished \in told THEN {}
        ELSE {Started(e) : e \in {e \in Edges : Started(e) \notin told}}
             \cup {Finished(e) : e \in open}
             \cup (IF open = {} THEN {BuildFinished} ELSE {})

\* Ninja blocks while the fifo is full, and cannot write when the reader has
\* closed it.
NinjaWrite(m) ==
    /\ ninja = "writing" /\ run # "done"
    /\ Len(pipe) < PipeSize
    /\ m \in NinjaMessages
    /\ \E ok \in BOOLEAN :
          /\ ok \/ garbled < MaxGarbled
          /\ garbled' = IF ok THEN garbled ELSE garbled + 1
          /\ wrote' = Append(wrote, [of |-> m, ok |-> ok])
          /\ pipe' = Append(pipe, IF ok THEN m ELSE Garbled)
    /\ UNCHANGED <<ninja, opener, run, running, closing, calls>>

\* Ninja may end at any time, also before it opens the fifo and in the
\* middle of a message.
NinjaExit ==
    /\ ninja # "exited"
    /\ ninja' = "exited"
    /\ \/ pipe' = pipe
       \/ ninja = "writing" /\ pipe' = Append(pipe, Cut)
    /\ UNCHANGED <<wrote, garbled, opener, run, running, closing, calls>>
-----------------------------------------------------------------------------
(* The goroutines of NinjaReader *)

\* os.Open fails; fileCh is closed.
OpenFails ==
    /\ opener = "opening"
    /\ opener' = "failed"
    /\ UNCHANGED <<ninjaVars, pipe, run, running, closing, calls>>

\* case f = <-fileCh
RunReceive ==
    /\ run = "select" /\ opener = "sending"
    /\ opener' = "returned"
    /\ run' = "reading"
    /\ UNCHANGED <<ninjaVars, pipe, running, closing, calls>>

\* The same from the closed channel: reading from a nil file is an error.
RunReceiveNil ==
    /\ run = "select" /\ opener = "failed"
    /\ run' = "done"
    /\ UNCHANGED <<ninjaVars, pipe, opener, running, closing, calls>>

\* Defect: the select has no such case.
RunCancelMissing == FALSE /\ UNCHANGED vars

\* case <-n.cancel
RunCancel ==
    /\ run = "select" /\ closing # "none"
    /\ run' = "done"
    /\ UNCHANGED <<ninjaVars, pipe, opener, running, closing, calls>>

\* SetTotalActions, and Finish at the end of the build.
ReadBuild ==
    /\ run = "reading" /\ pipe # <<>> /\ Head(pipe) \in {Total, BuildFinished}
    /\ pipe' = Tail(pipe)
    /\ calls' = Append(calls, Head(pipe))
    /\ UNCHANGED <<ninjaVars, opener, run, running, closing>>

\* StartAction
ReadStarted(e) ==
    /\ run = "reading" /\ pipe # <<>> /\ Head(pipe) = Started(e)
    /\ pipe' = Tail(pipe)
    /\ calls' = Append(calls, Started(e))
    /\ running' = running \cup {e}
    /\ UNCHANGED <<ninjaVars, opener, run, closing>>

\* Defect: the edge is not looked up.
ReadFinishedUnchecked(e) ==
    /\ run = "reading" /\ pipe # <<>> /\ Head(pipe) = Finished(e)
    /\ pipe' = Tail(pipe)
    /\ calls' = Append(calls, Finished(e))
    /\ running' = running \ {e}
    /\ UNCHANGED <<ninjaVars, opener, run, closing>>

\* FinishAction, of an edge that was started.
ReadFinished(e) ==
    /\ run = "reading" /\ pipe # <<>> /\ Head(pipe) = Finished(e)
    /\ pipe' = Tail(pipe)
    /\ calls' = IF e \in running THEN Append(calls, Finished(e)) ELSE calls
    /\ running' = running \ {e}
    /\ UNCHANGED <<ninjaVars, opener, run, closing>>

\* A message that does not unmarshal is reported and skipped.
ReadGarbled ==
    /\ run = "reading" /\ pipe # <<>> /\ Head(pipe) = Garbled
    /\ pipe' = Tail(pipe)
    /\ UNCHANGED <<ninjaVars, opener, run, running, closing, calls>>

\* The end of the file, or of what there is of a message.
ReadEnd ==
    /\ run = "reading"
    /\ \/ pipe = <<>> /\ ninja = "exited"
       \/ pipe # <<>> /\ Head(pipe) = Cut
    /\ run' = "done"
    /\ UNCHANGED <<ninjaVars, pipe, opener, running, closing, calls>>
-----------------------------------------------------------------------------
(* Close *)

\* Ninja has been waited for, or was never started.
Close ==
    /\ closing = "none" /\ ninja = "exited"
    /\ closing' = "waiting"
    /\ UNCHANGED <<ninjaVars, pipe, opener, run, running, calls>>

\* Defect: Close does not wait.
CloseAtOnce ==
    /\ closing = "waiting"
    /\ closing' = "closed"
    /\ UNCHANGED <<ninjaVars, pipe, opener, run, running, calls>>

\* case <-n.done
CloseDone ==
    /\ closing = "waiting" /\ run = "done"
    /\ closing' = "closed"
    /\ UNCHANGED <<ninjaVars, pipe, opener, run, running, calls>>

\* case <-timeoutCh
CloseTimeout ==
    /\ closing = "waiting"
    /\ closing' = "timedout"
    /\ UNCHANGED <<ninjaVars, pipe, opener, run, running, calls>>

\* Close has returned, and run will not take another step.
Returned ==
    /\ closing \in {"closed", "timedout"} /\ run = "done"
    /\ UNCHANGED vars

Read == \/ \E e \in Edges : ReadStarted(e) \/ ReadFinished(e)
        \/ ReadBuild
        \/ ReadGarbled
        \/ ReadEnd

Next ==
    \/ OpenFifo
    \/ \E m \in Messages : NinjaWrite(m)
    \/ NinjaExit
    \/ OpenFails
    \/ RunReceive
    \/ RunReceiveNil
    \/ RunCancel
    \/ Read
    \/ Close
    \/ CloseDone
    \/ CloseTimeout
    \/ Returned

Spec == Init /\ [][Next]_vars

\* A goroutine that can take a step does; nothing is assumed of ninja.
FairSpec == Spec /\ WF_vars(RunReceive \/ RunReceiveNil \/ RunCancel) /\ WF_vars(Read)
-----------------------------------------------------------------------------
(***************************************************************************)
(* Status counts on it: FinishAction is called at most once for an action, *)
(* after its StartAction, even when the message that started the edge was  *)
(* unreadable (run's map of running edges), and Finish comes last.         *)
(***************************************************************************)
CallsWellFormed ==
    /\ IsInjective(calls)
    /\ \A i \in DOMAIN calls : calls[i].type = "finished" =>
          \E k \in 1 .. i - 1 : calls[k] = Started(calls[i].edge)
    /\ BuildFinished \in Range(calls) => calls[Len(calls)] = BuildFinished

\* A message that was readable has been passed on, or is the end of an edge
\* whose start was unreadable.
PassedOn(i) ==
    \/ ~ wrote[i].ok
    \/ wrote[i].of \in Range(calls)
    \/ /\ wrote[i].of.type = "finished"
       /\ \E k \in 1 .. i - 1 : wrote[k] = [of |-> Started(wrote[i].of.edge), ok |-> FALSE]

AllPassedOn == \A i \in DOMAIN wrote : PassedOn(i)

(***************************************************************************)
(* "Close waits for NinjaReader to finish reading from the fifo, or 5      *)
(* seconds" (ninja.go:64): when Close returns without having timed out,    *)
(* everything ninja wrote has reached the ToolStatus, however far the      *)
(* reader was behind when ninja exited, provided that it had got the file. *)
(* Without that condition it fails: when ninja exits before the reader's   *)
(* select has run, the select may take the cancellation.                   *)
(***************************************************************************)
CloseDelivers == closing = "closed" /\ opener = "returned" => AllPassedOn

(***************************************************************************)
(* Close does not depend on its timeout: after it is called the goroutine  *)
(* ends by itself, also when nothing ever opened the other end of the fifo *)
(* (the comment in run; TestNinjaReader_Close).                            *)
(***************************************************************************)
RunEnds == closing # "none" ~> run = "done"
=============================================================================
