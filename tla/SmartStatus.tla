----------------------------- MODULE SmartStatus -----------------------------
(***************************************************************************)
(* ui/terminal/smart_status.go: the status line and the table of running   *)
(* actions below it.  Three goroutines write to the terminal: the one that *)
(* calls the StatusOutput methods (Status lets in one at a time), the one  *)
(* behind the ticker, and the one that handles SIGWINCH.  What is done     *)
(* under s.lock is one step, except in Flush.                              *)
(***************************************************************************)
EXTENDS Integers, Sequences

CONSTANTS
    Actions,     \* the actions of the build
    Heights,     \* heights the terminal may have
    Requests,    \* values of SOONG_UI_TABLE_HEIGHT
    MaxResizes   \* bound on the changes of the height

ASSUME HeightsAssumption == Heights \subseteq Nat /\ Requests \subseteq Int /\ MaxResizes \in Nat

VARIABLES
    phase,        \* phase[a]: "new", "running" or "finished"
    runningActions, \* s.runningActions
    blank,        \* s.haveBlankLine
    tableMode, requested,      \* s.tableMode, s.requestedTableHeight
    termHeight, tableHeight,   \* the fields of that name
    lock,         \* who holds s.lock between two steps
    timer,        \* "armed", "fired" or "stopped": s.ticker
    tick,         \* the ticker's goroutine
    winch,        \* the SIGWINCH goroutine
    winchClosed,  \* s.sigwinch is closed
    flush,        \* how far Flush has come
    height,       \* the height of the terminal
    resizes,      \* how often it has changed
    screen        \* [region, cursor, rows]: the last line of the scrolling region,
                  \* 0 for the whole terminal; the cursor; the table below

sizeVars == <<tableMode, requested, termHeight, tableHeight>>
actionVars == <<phase, runningActions, blank>>
tickVars == <<timer, tick>>
windowVars == <<height, resizes>>
smartVars == <<actionVars, sizeVars, lock, tickVars, winch, winchClosed, flush, windowVars, screen>>

\* The height of the table on a terminal of h lines.
ComputeTableHeight(h) ==
    LET wanted == IF requested # 0 THEN requested
                  ELSE IF h \div 4 < 1 THEN 1 ELSE IF h \div 4 > 10 THEN 10 ELSE h \div 4
    IN  IF wanted > h - 1 THEN h - 1 ELSE wanted

\* actionTable: the scrolling region, and the first actions below it.
ActionTable(terminal, table, actions) ==
    [screen EXCEPT !.region = terminal - table,
                   !.rows = SubSeq(actions, 1, IF Len(actions) < table THEN Len(actions) ELSE table)]

\* The terminal without a table.
Released == [region |-> 0, cursor |-> "shown", rows |-> <<>>]

\* NewSmartStatusOutput, on a terminal.
SmartInit ==
    /\ phase = [a \in Actions |-> "new"]
    /\ runningActions = <<>>
    /\ blank = TRUE
    /\ height \in Heights
    /\ \/ tableMode = TRUE /\ requested = 0
       \/ requested \in Requests /\ tableMode = (requested > 0)
    /\ termHeight = height
    /\ tableHeight = ComputeTableHeight(height)
    /\ lock = "free"
    /\ timer = IF tableMode THEN "armed" ELSE "stopped"
    /\ tick = IF tableMode THEN "select" ELSE "returned"
    /\ winch = "range"
    /\ winchClosed = FALSE
    /\ flush = "none"
    /\ resizes = 0
    /\ screen = IF tableMode
                THEN [region |-> termHeight - tableHeight, cursor |-> "hidden", rows |-> <<>>]
                ELSE Released
-----------------------------------------------------------------------------
(* The StatusOutput methods *)

StartAction(a) ==
    /\ flush = "none" /\ lock = "free"
    /\ phase[a] = "new"
    /\ phase' = [phase EXCEPT ![a] = "running"]
    /\ runningActions' = Append(runningActions, a)
    /\ blank' = FALSE
    /\ UNCHANGED <<sizeVars, lock, tickVars, winch, winchClosed, flush, windowVars, screen>>

\* FinishAction; the action's output, if any, ends in a blank line.
FinishAction(a) ==
    /\ flush = "none" /\ lock = "free"
    /\ phase[a] = "running"
    /\ phase' = [phase EXCEPT ![a] = "finished"]
    /\ runningActions' = SelectSeq(runningActions, LAMBDA b : b # a)
    /\ blank' \in BOOLEAN
    /\ UNCHANGED <<sizeVars, lock, tickVars, winch, winchClosed, flush, windowVars, screen>>

\* Message: a status line, or text on lines of its own.
Message ==
    /\ flush = "none" /\ lock = "free"
    /\ blank' \in BOOLEAN
    /\ UNCHANGED <<phase, runningActions, sizeVars, lock, tickVars, winch, winchClosed, flush,
                   windowVars, screen>>

\* Write does not come through Status: the logger may call it at any time.
Write ==
    /\ lock = "free"
    /\ blank' = TRUE
    /\ UNCHANGED <<phase, runningActions, sizeVars, lock, tickVars, winch, winchClosed, flush,
                   windowVars, screen>>

\* Flush, first half of stopActionTableTick: ticker.Stop, which keeps a tick
\* that is in the channel.
FlushStart ==
    /\ flush = "none"
    /\ flush' = IF tableMode THEN "stopping" ELSE "locking"
    /\ timer' = IF timer = "armed" THEN "stopped" ELSE timer
    /\ UNCHANGED <<actionVars, sizeVars, lock, tick, winch, winchClosed, windowVars, screen>>

\* Defect: Flush does not wait for the goroutine.
StopTickNoWait ==
    /\ flush = "stopping"
    /\ flush' = "locking"
    /\ UNCHANGED <<actionVars, sizeVars, lock, tickVars, winch, winchClosed, windowVars, screen>>

\* Second half: s.done <- true meets the goroutine's select.
StopTick ==
    /\ flush = "stopping"
    /\ tick = "select"
    /\ tick' = "returned"
    /\ flush' = "locking"
    /\ UNCHANGED <<actionVars, sizeVars, lock, timer, winch, winchClosed, windowVars, screen>>

\* Take the lock; stopSigwinch.
FlushLock ==
    /\ flush = "locking" /\ lock = "free"
    /\ lock' = "flush"
    /\ flush' = "locked"
    /\ winchClosed' = TRUE
    /\ UNCHANGED <<actionVars, sizeVars, tickVars, winch, windowVars, screen>>

\* Clear the table, give the terminal back, release the lock.
FlushRest ==
    /\ flush = "locked"
    /\ flush' = "flushed"
    /\ lock' = "free"
    /\ blank' = TRUE
    /\ runningActions' = <<>>
    /\ screen' = IF tableMode THEN Released ELSE screen
    /\ UNCHANGED <<phase, sizeVars, tickVars, winch, winchClosed, windowVars>>
-----------------------------------------------------------------------------
(* startActionTableTick *)

\* The timer drops a tick when the channel, of size one, is full.
TimerFires ==
    /\ timer = "armed"
    /\ timer' = "fired"
    /\ UNCHANGED <<actionVars, sizeVars, lock, tick, winch, winchClosed, flush, windowVars, screen>>

TickReceive ==
    /\ tick = "select" /\ timer = "fired"
    /\ tick' = "locking"
    /\ timer' = IF flush = "none" THEN "armed" ELSE "stopped"
    /\ UNCHANGED <<actionVars, sizeVars, lock, winch, winchClosed, flush, windowVars, screen>>

\* Defect: the goroutine ends after one update.
TickRedrawOnce ==
    /\ tick = "locking" /\ lock = "free"
    /\ tick' = "returned"
    /\ screen' = ActionTable(termHeight, tableHeight, runningActions)
    /\ UNCHANGED <<actionVars, sizeVars, lock, timer, winch, winchClosed, flush, windowVars>>

TickRedraw ==
    /\ tick = "locking" /\ lock = "free"
    /\ tick' = "select"
    /\ screen' = ActionTable(termHeight, tableHeight, runningActions)
    /\ UNCHANGED <<actionVars, sizeVars, lock, timer, winch, winchClosed, flush, windowVars>>
-----------------------------------------------------------------------------
(* startSigwinch *)

\* The window changes; the signal package sends to s.sigwinch without
\* waiting, so the signal is lost unless the goroutine is receiving.
Resize(h) ==
    /\ resizes < MaxResizes
    /\ h # height
    /\ height' = h
    /\ resizes' = resizes + 1
    /\ winch' = IF winch = "range" /\ ~ winchClosed THEN "locking" ELSE winch
    /\ UNCHANGED <<actionVars, sizeVars, lock, tickVars, winchClosed, flush, screen>>

\* Defect: the height of the table is not computed again.
WinchRedrawKeepingTable ==
    /\ winch = "locking" /\ lock = "free"
    /\ winch' = "unlocked"
    /\ termHeight' = height
    /\ screen' = IF tableMode THEN ActionTable(height, tableHeight, runningActions) ELSE screen
    /\ UNCHANGED <<actionVars, tableMode, requested, tableHeight, lock, tickVars, winchClosed,
                   flush, windowVars>>

\* updateTermSize and, in table mode, actionTable.
WinchRedraw ==
    /\ winch = "locking" /\ lock = "free"
    /\ winch' = "unlocked"
    /\ termHeight' = height
    /\ IF tableMode
       THEN /\ tableHeight' = ComputeTableHeight(height)
            /\ screen' = ActionTable(height, ComputeTableHeight(height), runningActions)
       ELSE UNCHANGED <<tableHeight, screen>>
    /\ UNCHANGED <<actionVars, tableMode, requested, lock, tickVars, winchClosed, flush, windowVars>>

\* Back to receiving, or out of the loop when the channel is closed.
WinchRange ==
    /\ winch = "unlocked" \/ (winch = "range" /\ winchClosed)
    /\ winch' = IF winchClosed THEN "returned" ELSE "range"
    /\ UNCHANGED <<actionVars, sizeVars, lock, tickVars, winchClosed, flush, windowVars, screen>>

Flush == FlushStart \/ StopTick \/ FlushLock \/ FlushRest
Ticker == TimerFires \/ TickReceive \/ TickRedraw
Winch == WinchRedraw \/ WinchRange

SmartNext ==
    \/ \E a \in Actions : StartAction(a) \/ FinishAction(a)
    \/ Message
    \/ Write
    \/ Flush
    \/ Ticker
    \/ \E h \in Heights : Resize(h)
    \/ Winch

SmartSpec == SmartInit /\ [][SmartNext]_smartVars

\* Time passes and goroutines that can run do; nobody has to call Flush.
FairSmartSpec ==
    /\ SmartSpec
    /\ WF_smartVars(TimerFires) /\ WF_smartVars(TickReceive) /\ WF_smartVars(TickRedraw)
    /\ WF_smartVars(StopTick) /\ WF_smartVars(FlushLock) /\ WF_smartVars(FlushRest)
    /\ WF_smartVars(WinchRedraw) /\ WF_smartVars(WinchRange)
-----------------------------------------------------------------------------
(***************************************************************************)
(* The table never takes the whole terminal: whatever the heights of the   *)
(* terminal and of the table asked for, and after any resize, one line at  *)
(* least is left to scroll, and the region on the screen is the one that   *)
(* belongs to the heights at hand (computeTableHeight, updateTermSize).    *)
(***************************************************************************)
RegionFits ==
    tableMode /\ flush # "flushed" =>
        screen.region >= 1 /\ screen.region = termHeight - tableHeight

(***************************************************************************)
(* "No output is expected after this call" (status.go:208): on a terminal  *)
(* that was not resized, once Flush has returned the cursor stays visible, *)
(* the scrolling region undone and the table cleared, whatever the ticker  *)
(* was about to draw.  A resize whose handler waits for the lock while     *)
(* Flush holds it does draw again: nobody waits for that goroutine.        *)
(***************************************************************************)
RestoredAfterFlush == flush = "flushed" /\ resizes = 0 => screen = Released

(***************************************************************************)
(* Flush comes to an end, whatever the ticker's goroutine is doing when it *)
(* is called: the comment in Flush about s.done and s.lock.                *)
(***************************************************************************)
FlushReturns == flush = "stopping" ~> flush = "flushed"

(***************************************************************************)
(* Until Flush, the table is brought up to date again and again: it shows  *)
(* the running actions that fit (startActionTableTick).                    *)
(***************************************************************************)
TableCatchesUp ==
    []<>(\/ ~ tableMode \/ flush # "none"
         \/ screen = ActionTable(termHeight, tableHeight, runningActions))
=============================================================================
