------------------------------- MODULE OncePer -------------------------------
(***************************************************************************)
(* android/onceper.go: a value per key, computed by the first of many      *)
(* concurrent calls while the others wait.  Modules and singletons run in  *)
(* parallel and share their caches of the build through it.                *)
(*                                                                         *)
(* A call is one execution of Once, of a typed wrapper of it, or of Get.   *)
(* The constructor that a call passes may itself call Once, on any key,    *)
(* and may panic.                                                          *)
(***************************************************************************)
EXTENDS Naturals

CONSTANTS
    Calls,     \* the executions of Once, OnceX and Get
    Keys,      \* the OnceKeys
    KeyOf,     \* KeyOf[c]: the key c is called with
    OpOf,      \* OpOf[c]: "Once", "Typed" (OnceStringSlice, ...) or "Get"
    Nested,    \* Nested[c]: the calls that c's constructor makes
    MayPanic   \* the calls whose constructor may panic by itself

ASSUME CallsAssumption ==
    /\ KeyOf \in [Calls -> Keys]
    /\ OpOf \in [Calls -> {"Once", "Typed", "Get"}]
    /\ Nested \in [Calls -> SUBSET Calls]
    /\ MayPanic \subseteq Calls

VARIABLES
    values,  \* once.values: [is, by] for every key
    closed,  \* the calls whose waiter channel is closed
    pc,      \* pc[c]: where call c is
    wait,    \* wait[c]: the call whose waiter c blocks on, as a set
    dying,   \* the calls whose constructor has panicked
    result   \* result[c]: what c returned

vars == <<values, closed, pc, wait, dying, result>>

Absent == [is |-> "absent", by |-> {}]
Nil == [is |-> "nil", by |-> {}]
WaiterOf(c) == [is |-> "waiter", by |-> {c}]
ValueOf(c) == [is |-> "value", by |-> {c}]

(***************************************************************************)
(* idle       -- not called                                                *)
(* load       -- before values.Load                                        *)
(* insert     -- Once, before values.LoadOrStore                           *)
(* wait       -- in maybeWaitFor, blocked on <-wait                        *)
(* construct  -- in value()                                                *)
(* store      -- in the deferred function, before values.Store             *)
(* close      -- in the deferred function, before close(waiter)            *)
(* returned, panicked                                                      *)
(* invalid    -- "waiter completed but key is still not valid"             *)
(***************************************************************************)
Places == {"idle", "load", "insert", "wait", "construct", "store", "close",
           "returned", "panicked", "invalid"}

Ended == {"returned", "panicked", "invalid"}

Init ==
    /\ values = [k \in Keys |-> Absent]
    /\ closed = {}
    /\ pc = [c \in Calls |-> "idle"]
    /\ wait = [c \in Calls |-> {}]
    /\ dying = {}
    /\ result = [c \in Calls |-> Absent]

Goto(c, place) == pc' = [pc EXCEPT ![c] = place]

\* Whoever made call c is ready to make it: a goroutine, or a constructor that
\* is not in another call.
MayStart(c) ==
    \A p \in Calls :
        c \in Nested[p] =>
            /\ pc[p] = "construct"
            /\ \A d \in Nested[p] : pc[d] \in {"idle", "returned"}
-----------------------------------------------------------------------------
Start(c) ==
    /\ pc[c] = "idle"
    /\ MayStart(c)
    /\ Goto(c, "load")
    /\ UNCHANGED <<values, closed, wait, dying, result>>

\* The call returns v; a typed wrapper panics when it casts nil.
Return(c, v) ==
    /\ result' = [result EXCEPT ![c] = v]
    /\ Goto(c, IF OpOf[c] = "Typed" /\ v = Nil THEN "panicked" ELSE "returned")

\* maybeWaitFor, as far as the receive from the waiter.
MaybeWaitFor(c, v) ==
    \/ /\ v.is = "waiter"
       /\ wait' = [wait EXCEPT ![c] = v.by]
       /\ Goto(c, "wait")
       /\ UNCHANGED result
    \/ /\ v.is # "waiter"
       /\ Return(c, v)
       /\ UNCHANGED wait

\* The first Load of Once and of Get; Get panics when there is nothing.
Load(c) ==
    LET v == values[KeyOf[c]] IN
    /\ pc[c] = "load"
    /\ \/ v # Absent /\ MaybeWaitFor(c, v)
       \/ /\ v = Absent
          /\ Goto(c, IF OpOf[c] = "Get" THEN "panicked" ELSE "insert")
          /\ UNCHANGED <<wait, result>>
    /\ UNCHANGED <<values, closed, dying>>

\* Defect: Store instead of LoadOrStore.
InsertAlways(c) ==
    /\ pc[c] = "insert"
    /\ values' = [values EXCEPT ![KeyOf[c]] = WaiterOf(c)]
    /\ Goto(c, "construct")
    /\ UNCHANGED <<closed, wait, dying, result>>

\* LoadOrStore of a new waiter.
Insert(c) ==
    LET v == values[KeyOf[c]] IN
    /\ pc[c] = "insert"
    /\ \/ v # Absent /\ MaybeWaitFor(c, v) /\ UNCHANGED values
       \/ /\ v = Absent
          /\ values' = [values EXCEPT ![KeyOf[c]] = WaiterOf(c)]
          /\ Goto(c, "construct")
          /\ UNCHANGED <<wait, result>>
    /\ UNCHANGED <<closed, dying>>

\* The waiter is closed: load the key again.
Waited(c) ==
    LET v == values[KeyOf[c]] IN
    /\ pc[c] = "wait"
    /\ wait[c] \subseteq closed
    /\ \/ v.is = "waiter" /\ Goto(c, "invalid") /\ UNCHANGED result
       \/ v.is # "waiter" /\ Return(c, v)
    /\ UNCHANGED <<values, closed, wait, dying>>

\* value() returns, after the calls it makes.
Constructed(c) ==
    /\ pc[c] = "construct"
    /\ \A d \in Nested[c] : pc[d] = "returned"
    /\ Goto(c, "store")
    /\ UNCHANGED <<values, closed, wait, dying, result>>

\* Defect: without defer, a panic leaves the waiter in the map.
ConstructorPanicsThrough(c) ==
    /\ pc[c] = "construct"
    /\ \/ c \in MayPanic /\ \A d \in Nested[c] : pc[d] \in {"idle", "returned"}
       \/ \E d \in Nested[c] : pc[d] \in {"panicked", "invalid"}
    /\ dying' = dying \cup {c}
    /\ Goto(c, "panicked")
    /\ UNCHANGED <<values, closed, wait, result>>

\* value() panics by itself, or because a call it made did.
ConstructorPanics(c) ==
    /\ pc[c] = "construct"
    /\ \/ c \in MayPanic /\ \A d \in Nested[c] : pc[d] \in {"idle", "returned"}
       \/ \E d \in Nested[c] : pc[d] \in {"panicked", "invalid"}
    /\ dying' = dying \cup {c}
    /\ Goto(c, "store")
    /\ UNCHANGED <<values, closed, wait, result>>

\* Defect: nothing is stored when the constructor has panicked.
StoreUnlessDying(c) ==
    /\ pc[c] = "store"
    /\ values' = IF c \in dying THEN values ELSE [values EXCEPT ![KeyOf[c]] = ValueOf(c)]
    /\ Goto(c, "close")
    /\ UNCHANGED <<closed, wait, dying, result>>

\* The deferred Store: v is nil after a panic ...
Store(c) ==
    /\ pc[c] = "store"
    /\ values' = [values EXCEPT ![KeyOf[c]] = IF c \in dying THEN Nil ELSE ValueOf(c)]
    /\ Goto(c, "close")
    /\ UNCHANGED <<closed, wait, dying, result>>

\* ... then close(waiter), and the call ends.
Close(c) ==
    /\ pc[c] = "close"
    /\ closed' = closed \cup {c}
    /\ \/ c \in dying /\ Goto(c, "panicked") /\ UNCHANGED result
       \/ c \notin dying /\ Return(c, ValueOf(c))
    /\ UNCHANGED <<values, wait, dying>>

Step(c) ==
    \/ Load(c) \/ Insert(c) \/ Waited(c) \/ Constructed(c) \/ ConstructorPanics(c)
    \/ Store(c) \/ Close(c)

Next == \E c \in Calls : Start(c) \/ Step(c)

Spec == Init /\ [][Next]_vars

\* Goroutines run; a constructor makes its calls and ends.  Nothing obliges a
\* goroutine to call Once.
FairSpec ==
    /\ Spec
    /\ \A c \in Calls : WF_vars(Step(c))
    /\ \A p \in Calls : \A c \in Nested[p] : WF_vars(Start(c))
-----------------------------------------------------------------------------
Entries == [is : {"absent", "nil", "waiter", "value"}, by : SUBSET Calls]

TypeOK ==
    /\ values \in [Keys -> Entries]
    /\ closed \subseteq Calls
    /\ pc \in [Calls -> Places]
    /\ wait \in [Calls -> SUBSET Calls]
    /\ dying \subseteq Calls
    /\ result \in [Calls -> [is : {"absent", "nil", "value"}, by : SUBSET Calls]]

(***************************************************************************)
(* All calls with the same key that return, return the same: the value of  *)
(* the one constructor that ran to its end, or nil after it panicked       *)
(* (onceper.go:42-44), whoever inserted the waiter and whoever waited.     *)
(***************************************************************************)
AgreedResults ==
    \A c, d \in Calls :
        KeyOf[c] = KeyOf[d] /\ pc[c] = "returned" /\ pc[d] = "returned"
            => result[c] = result[d] /\ result[c] # Absent

(***************************************************************************)
(* A waiter is closed only after the value has replaced it, so the panic   *)
(* of maybeWaitFor (onceper.go:35) is never reached, with constructors     *)
(* that panic and calls from inside constructors.                          *)
(***************************************************************************)
NoInvalidWaiter == \A c \in Calls : pc[c] # "invalid"

\* A waiter is not visible to those who use a key: for them it is empty.
Cells == [k \in Keys |-> IF values[k].is = "waiter" THEN Absent ELSE values[k]]

Cell == INSTANCE OnceCell WITH cell <- Cells, answer <- result

(***************************************************************************)
(* Once, Get, their waiters and the second load implement a cell that is   *)
(* settled once (onceper.go:42-44): a call returns what is in the cell at  *)
(* that moment, a value or the nil of a panic is never replaced, and it is *)
(* the constructor of a call with that key that settles it.                *)
(***************************************************************************)
ImplementsCell == Cell!Spec

(***************************************************************************)
(* When no constructor needs, directly or through others, its own key,     *)
(* every call comes to an end: nobody waits for a constructor that has     *)
(* panicked.                                                               *)
(***************************************************************************)
EveryCallEnds == \A c \in Calls : pc[c] = "load" ~> pc[c] \in Ended
=============================================================================
