-------------------------------- MODULE Status --------------------------------
(***************************************************************************)
(* ui/status/status.go: the counts of all tools and their accumulation.    *)
(*                                                                         *)
(* Every ToolStatus call changes the tool's own counts under the tool's    *)
(* lock, releases it, and then changes the build's counts under the        *)
(* Status lock, so each call is two or three steps that interleave with    *)
(* those of other goroutines.  toolStatus.Finish keeps the tool's lock     *)
(* while it takes the other one; nobody takes them the other way round,    *)
(* so it is one step.                                                      *)
(*                                                                         *)
(* The callers keep to what ToolStatus asks for and the code in ui/ and    *)
(* cmd/ does: an Action is started once, finished once and afterwards, and *)
(* SetTotalActions is not called while another goroutine is in StartAction *)
(* of the same tool (kati.go and ninja.go use one goroutine per tool,      *)
(* multiproduct_kati sets the total before it starts its workers).         *)
(***************************************************************************)
EXTENDS Integers, FiniteSets, FiniteSetsExt

CONSTANTS
    Actions,  \* the *Action values
    Tools,    \* the ToolStatus instances
    ToolOf,   \* ToolOf[a]: the tool that runs action a
    Totals    \* arguments of SetTotalActions

ASSUME ToolOfAssumption == ToolOf \in [Actions -> Tools]
ASSUME ToolsAssumption == IsFiniteSet(Tools)
ASSUME TotalsAssumption == Totals \subseteq Nat

VARIABLES
    counts,   \* Status.counts
    local,    \* local[t]: toolStatus.counts
    call,     \* call[a]: how far the calls about action a have come
    setting,  \* setting[t]: diff a SetTotalActions of t has yet to add
    closed    \* the tools whose Finish was called

vars == <<counts, local, call, setting, closed>>

(***************************************************************************)
(* new       -- StartAction not called                                     *)
(* total     -- in StartAction, before updateTotalActions(totalDiff)       *)
(* start     -- in StartAction, before Status.startAction                  *)
(* running   -- StartAction has returned                                   *)
(* finish    -- in FinishAction, before Status.finishAction                *)
(* finished  -- FinishAction has returned                                  *)
(***************************************************************************)
Calls == {"new", "total", "start", "running", "finish", "finished"}

Zero == [total |-> 0, running |-> 0, started |-> 0, finished |-> 0]

Init ==
    /\ counts = Zero
    /\ local = [t \in Tools |-> Zero]
    /\ call = [a \in Actions |-> "new"]
    /\ setting = [t \in Tools |-> 0]
    /\ closed = {}

ActionsOf(t) == {a \in Actions : ToolOf[a] = t}

InStartAction(t) == \E a \in ActionsOf(t) : call[a] \in {"total", "start"}
-----------------------------------------------------------------------------
\* Defect: a total below the number of started actions is accepted.
SetTotalUnchecked(t, total) ==
    /\ t \notin closed
    /\ setting[t] = 0 /\ ~ InStartAction(t)
    /\ total # local[t].total
    /\ local' = [local EXCEPT ![t].total = total]
    /\ setting' = [setting EXCEPT ![t] = total - local[t].total]
    /\ UNCHANGED <<counts, call, closed>>

\* SetTotalActions under the tool's lock; smaller than started is ignored.
SetTotalActions(t, total) ==
    /\ t \notin closed
    /\ setting[t] = 0 /\ ~ InStartAction(t)
    /\ total >= local[t].started
    /\ total # local[t].total
    /\ local' = [local EXCEPT ![t].total = total]
    /\ setting' = [setting EXCEPT ![t] = total - local[t].total]
    /\ UNCHANGED <<counts, call, closed>>

\* ... then updateTotalActions under the Status lock.
UpdateTotalActions(t) ==
    /\ setting[t] # 0
    /\ counts' = [counts EXCEPT !.total = @ + setting[t]]
    /\ setting' = [setting EXCEPT ![t] = 0]
    /\ UNCHANGED <<local, call, closed>>

\* Defect: the totals are not raised with the started actions.
StartActionKeepingTotal(a) ==
    LET t == ToolOf[a] IN
    /\ call[a] = "new" /\ t \notin closed /\ setting[t] = 0
    /\ local' = [local EXCEPT ![t].running = @ + 1, ![t].started = @ + 1]
    /\ call' = [call EXCEPT ![a] = "start"]
    /\ UNCHANGED <<counts, setting, closed>>

\* StartAction under the tool's lock: totalDiff is at most one.
StartAction(a) ==
    LET t == ToolOf[a]
        exceeds == local[t].started + 1 > local[t].total
    IN  /\ call[a] = "new" /\ t \notin closed /\ setting[t] = 0
        /\ local' = [local EXCEPT ![t].running = @ + 1,
                                  ![t].started = @ + 1,
                                  ![t].total = IF exceeds THEN local[t].started + 1 ELSE @]
        /\ call' = [call EXCEPT ![a] = IF exceeds THEN "total" ELSE "start"]
        /\ UNCHANGED <<counts, setting, closed>>

\* ... updateTotalActions(totalDiff) ...
RaiseTotal(a) ==
    /\ call[a] = "total"
    /\ counts' = [counts EXCEPT !.total = @ + 1]
    /\ call' = [call EXCEPT ![a] = "start"]
    /\ UNCHANGED <<local, setting, closed>>

\* ... and Status.startAction, which also tells the outputs.
StatusStartAction(a) ==
    /\ call[a] = "start"
    /\ counts' = [counts EXCEPT !.running = @ + 1, !.started = @ + 1]
    /\ call' = [call EXCEPT ![a] = "running"]
    /\ UNCHANGED <<local, setting, closed>>

\* FinishAction under the tool's lock.
FinishAction(a) ==
    LET t == ToolOf[a] IN
    /\ call[a] = "running" /\ t \notin closed
    /\ local' = [local EXCEPT ![t].running = @ - 1, ![t].finished = @ + 1]
    /\ call' = [call EXCEPT ![a] = "finish"]
    /\ UNCHANGED <<counts, setting, closed>>

\* Defect: the build's running count is not taken back.
StatusFinishKeepingRunning(a) ==
    /\ call[a] = "finish"
    /\ counts' = [counts EXCEPT !.finished = @ + 1]
    /\ call' = [call EXCEPT ![a] = "finished"]
    /\ UNCHANGED <<local, setting, closed>>

\* ... and Status.finishAction.
StatusFinishAction(a) ==
    /\ call[a] = "finish"
    /\ counts' = [counts EXCEPT !.running = @ - 1, !.finished = @ + 1]
    /\ call' = [call EXCEPT ![a] = "finished"]
    /\ UNCHANGED <<local, setting, closed>>

\* Defect: Finish forgets to tell the build about the smaller total.
ToolFinishLocalOnly(t) ==
    /\ t \notin closed
    /\ setting[t] = 0
    /\ \A a \in ActionsOf(t) : call[a] \notin {"total", "start", "finish"}
    /\ closed' = closed \cup {t}
    /\ local' = [local EXCEPT ![t].running = 0, ![t].total = local[t].started]
    /\ UNCHANGED <<counts, call, setting>>

\* toolStatus.Finish, after the last call of the tool has returned; actions
\* may still be running when a tool was interrupted.
ToolFinish(t) ==
    /\ t \notin closed
    /\ setting[t] = 0
    /\ \A a \in ActionsOf(t) : call[a] \notin {"total", "start", "finish"}
    /\ closed' = closed \cup {t}
    /\ local' = [local EXCEPT ![t].running = 0, ![t].total = local[t].started]
    /\ counts' = [counts EXCEPT !.total = @ + local[t].started - local[t].total]
    /\ UNCHANGED <<call, setting>>

ActionStep(a) ==
    \/ StartAction(a)
    \/ RaiseTotal(a)
    \/ StatusStartAction(a)
    \/ FinishAction(a)
    \/ StatusFinishAction(a)

ToolStep(t) ==
    \/ \E total \in Totals : SetTotalActions(t, total)
    \/ UpdateTotalActions(t)
    \/ ToolFinish(t)

Next == (\E a \in Actions : ActionStep(a)) \/ (\E t \in Tools : ToolStep(t))

Spec == Init /\ [][Next]_vars
-----------------------------------------------------------------------------
TypeOK ==
    /\ counts \in [total : Nat, running : Nat, started : Nat, finished : Nat]
    /\ local \in [Tools -> [total : Nat, running : Int, started : Nat, finished : Nat]]
    /\ call \in [Actions -> Calls]
    /\ setting \in [Tools -> Int]
    /\ closed \subseteq Tools

(***************************************************************************)
(* Counts.TotalActions "should never go below the number of                *)
(* StartedActions" (status.go:93): the outputs never show [3/2], although  *)
(* the total and the start of one action reach Status in two steps and     *)
(* other goroutines come in between.                                       *)
(***************************************************************************)
TotalCoversStarted == counts.total >= counts.started

(***************************************************************************)
(* What the outputs are told is exact: the running, started and finished   *)
(* counts are those of the calls that have reached Status, across all      *)
(* tools, finished ones included (status.go:194).                          *)
(***************************************************************************)
CountsAreExact ==
    /\ counts.started = Cardinality({a \in Actions : call[a] \in {"running", "finish", "finished"}})
    /\ counts.finished = Cardinality({a \in Actions : call[a] = "finished"})
    /\ counts.running = counts.started - counts.finished

\* No call is between its two locks.
Quiescent ==
    /\ \A a \in Actions : call[a] \notin {"total", "start", "finish"}
    /\ \A t \in Tools : setting[t] = 0

SumOverTools(Field(_)) == MapThenSumSet(Field, Tools)

(***************************************************************************)
(* Between calls the build's counts are the sums of the tools' counts: no  *)
(* interleaving loses an update or adds one twice.  Once every tool has    *)
(* called Finish, the total is the number of actions that were started.    *)
(***************************************************************************)
AccumulatesTools ==
    Quiescent =>
        /\ counts.total = SumOverTools(LAMBDA t : local[t].total)
        /\ counts.started = SumOverTools(LAMBDA t : local[t].started)
        /\ counts.finished = SumOverTools(LAMBDA t : local[t].finished)
        /\ closed = Tools => counts.total = counts.started
=============================================================================
