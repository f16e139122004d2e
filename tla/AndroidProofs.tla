---------------------------- MODULE AndroidProofs ---------------------------
(***************************************************************************)
(* Theorems about android/ and apex/: the values that OncePer computes, and *)
(* the variants of modules for APEXes (ApexVariants).                      *)
(***************************************************************************)
EXTENDS OncePer, ApexVariants, TLAPS
-----------------------------------------------------------------------------
(***************************************************************************)
(* OncePer: Once gives every caller of a key the same result, for any      *)
(* number of calls, any nesting of constructors and any panics.            *)
(***************************************************************************)

Final(k) == values[k].is \in {"value", "nil"}

(***************************************************************************)
(* The inductive invariant: what the map holds for the key of a call,      *)
(* depending on where the call is.                                         *)
(***************************************************************************)
MapEntries ==
    \A k \in Keys :
        \/ values[k] = Absent
        \/ values[k] = Nil
        \/ \E c \in Calls : KeyOf[c] = k /\ values[k] = WaiterOf(c)
        \/ \E c \in Calls : KeyOf[c] = k /\ values[k] = ValueOf(c)

CallInv(c) ==
    /\ pc[c] \in {"construct", "store"} => values[KeyOf[c]] = WaiterOf(c)
    /\ pc[c] = "close" => values[KeyOf[c]] = IF c \in dying THEN Nil ELSE ValueOf(c)
    /\ pc[c] = "wait" => \E d \in Calls : wait[c] = {d} /\ KeyOf[d] = KeyOf[c]
    /\ pc[c] = "returned" => Final(KeyOf[c]) /\ result[c] = values[KeyOf[c]]
    /\ c \in closed => Final(KeyOf[c])
    /\ pc[c] # "invalid"

IInv == TypeOK /\ MapEntries /\ \A c \in Calls : CallInv(c)
-----------------------------------------------------------------------------
\* The four kinds of entries are different, and a waiter names its call.
LEMMA EntryKinds ==
    /\ Absent.is = "absent" /\ Absent \in Entries
    /\ Nil.is = "nil" /\ Nil \in Entries /\ Nil # Absent
    /\ \A c \in Calls : WaiterOf(c).is = "waiter" /\ WaiterOf(c) \in Entries
                        /\ WaiterOf(c).by = {c} /\ WaiterOf(c) # Absent
    /\ \A c \in Calls : ValueOf(c).is = "value" /\ ValueOf(c) \in Entries
                        /\ ValueOf(c) # Absent
    /\ \A c, d \in Calls : WaiterOf(c) = WaiterOf(d) => c = d
<1>1. \A c, d \in Calls : WaiterOf(c) = WaiterOf(d) => c = d
  <2> TAKE c, d \in Calls
  <2> HAVE WaiterOf(c) = WaiterOf(d)
  <2>1. WaiterOf(c).by = {c} /\ WaiterOf(d).by = {d}
    BY Zenon DEF WaiterOf
  <2> QED
    BY <2>1, Zenon
<1> QED
  BY <1>1, Zenon DEF Absent, Nil, WaiterOf, ValueOf, Entries

\* Steps that leave the map alone: what is to be shown about the call itself.
LEMMA MapUnchanged ==
    ASSUME IInv, TypeOK', NEW c \in Calls,
           values' = values, closed' = closed,
           \A d \in Calls \ {c} : pc'[d] = pc[d] /\ wait'[d] = wait[d] /\ result'[d] = result[d],
           \A d \in Calls \ {c} : d \in dying' <=> d \in dying,
           pc'[c] \in {"construct", "store"} => values[KeyOf[c]] = WaiterOf(c),
           pc'[c] # "close", pc'[c] # "invalid",
           pc'[c] = "wait" => \E d \in Calls : wait'[c] = {d} /\ KeyOf[d] = KeyOf[c],
           pc'[c] = "returned" => Final(KeyOf[c]) /\ result'[c] = values[KeyOf[c]]
    PROVE  IInv'
<1>1. MapEntries'
  BY Zenon DEF IInv, MapEntries
<1>2. ASSUME NEW d \in Calls PROVE CallInv(d)'
  <2>1. CASE d = c
    BY <2>1, Zenon DEF IInv, CallInv, Final
  <2>2. CASE d # c
    BY <2>2, SMTT(30) DEF IInv, CallInv, Final
  <2> QED
    BY <2>1, <2>2, Zenon
<1> QED
  BY <1>1, <1>2, Zenon DEF IInv

\* What Return does to the call.
LEMMA ReturnEffect ==
    ASSUME IInv, NEW c \in Calls, Final(KeyOf[c]), Return(c, values[KeyOf[c]])
    PROVE  /\ pc' \in [Calls -> Places] /\ pc'[c] \in {"returned", "panicked"}
           /\ \A d \in Calls \ {c} : pc'[d] = pc[d] /\ result'[d] = result[d]
           /\ result' \in [Calls -> [is : {"absent", "nil", "value"}, by : SUBSET Calls]]
           /\ result'[c] = values[KeyOf[c]]
<1>1. values[KeyOf[c]] \in [is : {"absent", "nil", "value"}, by : SUBSET Calls]
  <2>1. values[KeyOf[c]] \in Entries
    BY CallsAssumption, Zenon DEF IInv, TypeOK
  <2> QED
    BY <2>1, Zenon DEF Final, Entries
<1> QED
  BY <1>1, Zenon DEF IInv, TypeOK, Return, Goto, Places

\* maybeWaitFor on an entry of the map.
LEMMA MaybeWaitForIInv ==
    ASSUME IInv, NEW c \in Calls, values[KeyOf[c]] # Absent,
           MaybeWaitFor(c, values[KeyOf[c]]), UNCHANGED <<values, closed, dying>>
    PROVE  IInv'
<1> DEFINE v == values[KeyOf[c]]
<1>1. KeyOf[c] \in Keys
  BY CallsAssumption, Zenon
<1>2. CASE v.is = "waiter"
  <2>1. PICK d \in Calls : KeyOf[d] = KeyOf[c] /\ v = WaiterOf(d)
    BY <1>1, <1>2, EntryKinds, Zenon DEF IInv, MapEntries
  <2>2. wait' = [wait EXCEPT ![c] = {d}] /\ pc' = [pc EXCEPT ![c] = "wait"] /\ result' = result
    BY <1>2, <2>1, EntryKinds, Zenon DEF MaybeWaitFor, Goto
  <2>3. TypeOK'
    BY <2>2, Zenon DEF IInv, TypeOK, Places
  <2>4. pc'[c] = "wait" /\ wait'[c] = {d}
    BY <2>2, Zenon DEF IInv, TypeOK
  <2>5. \A e \in Calls \ {c} : pc'[e] = pc[e] /\ wait'[e] = wait[e] /\ result'[e] = result[e]
    BY <2>2, Zenon DEF IInv, TypeOK
  <2> QED
    BY <2>1, <2>3, <2>4, <2>5, MapUnchanged, Zenon
<1>3. CASE v.is # "waiter"
  <2>1. Final(KeyOf[c])
    BY <1>1, <1>3, EntryKinds, SMTT(30) DEF IInv, MapEntries, Final
  <2>2. Return(c, v) /\ wait' = wait
    BY <1>3, Zenon DEF MaybeWaitFor
  <2>3. TypeOK'
    BY <2>1, <2>2, ReturnEffect, Zenon DEF IInv, TypeOK
  <2> QED
    BY <2>1, <2>2, <2>3, ReturnEffect, MapUnchanged, Zenon
<1> QED
  BY <1>2, <1>3, Zenon

\* IInv holds before the first call.
LEMMA InitIInv == Init => IInv
<1> SUFFICES ASSUME Init PROVE IInv
  BY Zenon
<1>1. TypeOK
  BY EntryKinds, Zenon DEF Init, TypeOK, Places, Absent
<1>2. MapEntries /\ \A c \in Calls : CallInv(c)
  BY Zenon DEF Init, MapEntries, CallInv
<1> QED
  BY <1>1, <1>2, Zenon DEF IInv

\* The steps that change neither the map nor a waiter.
LEMMA QuietStepIInv ==
    ASSUME IInv, NEW c \in Calls,
           Start(c) \/ Load(c) \/ Waited(c) \/ Constructed(c) \/ ConstructorPanics(c)
    PROVE  IInv'
<1>1. KeyOf[c] \in Keys
  BY CallsAssumption, Zenon
<1>2. ASSUME NEW place \in {"load", "insert", "panicked", "store"}, Goto(c, place),
             values' = values, closed' = closed, wait' = wait, result' = result,
             dying' \subseteq Calls, \A d \in Calls \ {c} : d \in dying' <=> d \in dying,
             place = "store" => values[KeyOf[c]] = WaiterOf(c)
      PROVE  IInv'
  <2>1. TypeOK'
    BY <1>2, Zenon DEF IInv, TypeOK, Goto, Places
  <2>2. pc'[c] = place /\ \A d \in Calls \ {c} : pc'[d] = pc[d]
    BY <1>2, Zenon DEF IInv, TypeOK, Goto
  <2> QED
    BY <1>2, <2>1, <2>2, MapUnchanged, Zenon
<1>3. dying \subseteq Calls /\ dying \cup {c} \subseteq Calls
  BY Zenon DEF IInv, TypeOK
<1>4. CASE Start(c)
  BY <1>2, <1>3, <1>4, Zenon DEF Start
<1>5. CASE Load(c)
  <2>1. CASE values[KeyOf[c]] = Absent
    BY <1>2, <1>3, <1>5, <2>1, Zenon DEF Load
  <2>2. CASE values[KeyOf[c]] # Absent
    BY <1>5, <2>2, MaybeWaitForIInv, Zenon DEF Load
  <2> QED
    BY <2>1, <2>2, Zenon
<1>6. CASE Waited(c)
  <2>1. PICK d \in Calls : wait[c] = {d} /\ KeyOf[d] = KeyOf[c]
    BY <1>6, Zenon DEF Waited, IInv, CallInv
  <2>2. d \in closed
    BY <1>6, <2>1, Zenon DEF Waited
  <2>3. Final(KeyOf[c])
    BY <2>1, <2>2, Zenon DEF IInv, CallInv
  <2>4. /\ Return(c, values[KeyOf[c]])
        /\ UNCHANGED <<values, closed, wait, dying>>
    BY <1>6, <2>3, Zenon DEF Waited, Final
  <2>5. TypeOK'
    BY <2>3, <2>4, ReturnEffect, Zenon DEF IInv, TypeOK
  <2> QED
    BY <2>3, <2>4, <2>5, ReturnEffect, MapUnchanged, SMTT(30)
<1>7. CASE Constructed(c)
  <2>1. values[KeyOf[c]] = WaiterOf(c)
    BY <1>7, Zenon DEF Constructed, IInv, CallInv
  <2> QED
    BY <1>2, <1>3, <1>7, <2>1, Zenon DEF Constructed
<1>8. CASE ConstructorPanics(c)
  <2>1. values[KeyOf[c]] = WaiterOf(c)
    BY <1>8, Zenon DEF ConstructorPanics, IInv, CallInv
  <2>2. Goto(c, "store") /\ dying' = dying \cup {c} /\ UNCHANGED <<values, closed, wait, result>>
    BY <1>8, Zenon DEF ConstructorPanics
  <2> QED
    BY <1>2, <1>3, <2>1, <2>2, Zenon
<1> QED
  BY <1>4, <1>5, <1>6, <1>7, <1>8, Zenon

\* LoadOrStore: nobody else can have been using an absent key.
LEMMA InsertIInv ==
    ASSUME IInv, NEW c \in Calls, Insert(c)
    PROVE  IInv'
<1>1. KeyOf[c] \in Keys
  BY CallsAssumption, Zenon
<1>2. CASE values[KeyOf[c]] # Absent
  BY <1>2, MaybeWaitForIInv, Zenon DEF Insert
<1>3. CASE values[KeyOf[c]] = Absent
  <2>1. /\ values' = [values EXCEPT ![KeyOf[c]] = WaiterOf(c)]
        /\ pc' = [pc EXCEPT ![c] = "construct"]
        /\ UNCHANGED <<closed, wait, dying, result>>
    BY <1>3, Zenon DEF Insert, Goto
  <2>2. TypeOK'
    BY <1>1, <2>1, EntryKinds, Zenon DEF IInv, TypeOK, Places
  <2>3. MapEntries'
    BY <1>1, <2>1, Zenon DEF IInv, TypeOK, MapEntries
  <2>4. ~ Final(KeyOf[c])
    BY <1>3, EntryKinds, Zenon DEF Final
  <2>5. ASSUME NEW d \in Calls PROVE CallInv(d)'
    <3>1. KeyOf[d] \in Keys
      BY CallsAssumption, Zenon
    <3>2. CASE d = c
      <4>1. pc'[c] = "construct" /\ values'[KeyOf[c]] = WaiterOf(c) /\ c \notin closed'
        BY <1>1, <2>1, <2>4, Zenon DEF IInv, TypeOK, CallInv
      <4> QED
        BY <3>2, <4>1, Zenon DEF CallInv
    <3>3. CASE d # c /\ KeyOf[d] # KeyOf[c]
      <4>1. pc'[d] = pc[d] /\ values'[KeyOf[d]] = values[KeyOf[d]]
        BY <2>1, <3>1, <3>3, Zenon DEF IInv, TypeOK
      <4> QED
        BY <2>1, <4>1, Zenon DEF IInv, CallInv, Final
    <3>4. CASE d # c /\ KeyOf[d] = KeyOf[c]
      <4>1. pc'[d] = pc[d]
        BY <2>1, <3>4, Zenon DEF IInv, TypeOK
      <4>2. pc[d] \notin {"construct", "store", "close", "returned", "invalid"} /\ d \notin closed
        BY <1>3, <2>4, <3>4, EntryKinds, SMTT(30) DEF IInv, CallInv
      <4> QED
        BY <2>1, <4>1, <4>2, Zenon DEF IInv, CallInv
    <3> QED
      BY <3>2, <3>3, <3>4, Zenon
  <2> QED
    BY <2>2, <2>3, <2>5, Zenon DEF IInv
<1> QED
  BY <1>2, <1>3, Zenon

\* The deferred Store: the waiter in the map is the call's own.
LEMMA StoreIInv ==
    ASSUME IInv, NEW c \in Calls, Store(c)
    PROVE  IInv'
<1> DEFINE v == IF c \in dying THEN Nil ELSE ValueOf(c)
<1>1. KeyOf[c] \in Keys
  BY CallsAssumption, Zenon
<1>2. /\ pc[c] = "store"
      /\ values' = [values EXCEPT ![KeyOf[c]] = v]
      /\ pc' = [pc EXCEPT ![c] = "close"]
      /\ UNCHANGED <<closed, wait, dying, result>>
  BY Zenon DEF Store, Goto
<1>3. values[KeyOf[c]] = WaiterOf(c) /\ ~ Final(KeyOf[c])
  BY <1>2, EntryKinds, Zenon DEF IInv, CallInv, Final
<1>4. v \in Entries /\ v.is \in {"value", "nil"} /\ (v = Nil \/ v = ValueOf(c))
  BY EntryKinds, Zenon
<1> HIDE DEF v
<1>5. TypeOK'
  BY <1>1, <1>2, <1>4, Zenon DEF IInv, TypeOK, Places
<1>6. MapEntries'
  BY <1>1, <1>2, <1>4, Zenon DEF IInv, TypeOK, MapEntries
<1>7. values'[KeyOf[c]] = v
  BY <1>1, <1>2, Zenon DEF IInv, TypeOK
<1>8. ASSUME NEW d \in Calls PROVE CallInv(d)'
  <2>1. KeyOf[d] \in Keys
    BY CallsAssumption, Zenon
  <2>2. CASE d = c
    <3>1. pc'[c] = "close" /\ c \notin closed'
      BY <1>2, <1>3, Zenon DEF IInv, TypeOK, CallInv
    <3> QED
      BY <1>2, <1>7, <2>2, <3>1, Zenon DEF CallInv, v
  <2>3. CASE d # c /\ KeyOf[d] # KeyOf[c]
    <3>1. pc'[d] = pc[d] /\ values'[KeyOf[d]] = values[KeyOf[d]]
      BY <1>2, <2>1, <2>3, Zenon DEF IInv, TypeOK
    <3> QED
      BY <1>2, <3>1, Zenon DEF IInv, CallInv, Final
  <2>4. CASE d # c /\ KeyOf[d] = KeyOf[c]
    <3>1. pc'[d] = pc[d]
      BY <1>2, <2>4, Zenon DEF IInv, TypeOK
    <3>2. pc[d] \notin {"construct", "store", "close", "returned", "invalid"} /\ d \notin closed
      BY <1>3, <2>4, EntryKinds, SMTT(30) DEF IInv, CallInv
    <3> QED
      BY <1>2, <3>1, <3>2, Zenon DEF IInv, CallInv
  <2> QED
    BY <2>2, <2>3, <2>4, Zenon
<1> QED
  BY <1>5, <1>6, <1>8, Zenon DEF IInv

\* close(waiter): the value is in the map already.
LEMMA CloseIInv ==
    ASSUME IInv, NEW c \in Calls, Close(c)
    PROVE  IInv'
<1>1. /\ pc[c] = "close" /\ closed' = closed \cup {c} /\ UNCHANGED <<values, wait, dying>>
      /\ values[KeyOf[c]] = IF c \in dying THEN Nil ELSE ValueOf(c)
  BY Zenon DEF Close, IInv, CallInv
<1>2. Final(KeyOf[c])
  BY <1>1, EntryKinds, Zenon DEF Final
<1>3. /\ pc' \in [Calls -> Places] /\ pc'[c] \in {"returned", "panicked"}
      /\ \A d \in Calls \ {c} : pc'[d] = pc[d] /\ result'[d] = result[d]
      /\ result' \in [Calls -> [is : {"absent", "nil", "value"}, by : SUBSET Calls]]
      /\ pc'[c] = "returned" => result'[c] = values[KeyOf[c]]
  <2>1. CASE c \in dying
    <3>1. pc' = [pc EXCEPT ![c] = "panicked"] /\ result' = result
      BY <2>1, Zenon DEF Close, Goto
    <3> QED
      BY <3>1, Zenon DEF IInv, TypeOK, Places
  <2>2. CASE c \notin dying
    <3>1. Return(c, values[KeyOf[c]])
      BY <1>1, <2>2, Zenon DEF Close
    <3> QED
      BY <1>2, <3>1, ReturnEffect, Zenon
  <2> QED
    BY <2>1, <2>2, Zenon
<1>4. TypeOK'
  BY <1>1, <1>3, Zenon DEF IInv, TypeOK
<1>5. MapEntries'
  BY <1>1, Zenon DEF IInv, MapEntries
<1>6. ASSUME NEW d \in Calls PROVE CallInv(d)'
  <2>1. CASE d = c
    BY <1>1, <1>2, <1>3, <2>1, Zenon DEF CallInv, Final
  <2>2. CASE d # c
    BY <1>1, <1>3, <2>2, SMTT(30) DEF IInv, CallInv, Final
  <2> QED
    BY <2>1, <2>2, Zenon
<1> QED
  BY <1>4, <1>5, <1>6, Zenon DEF IInv

\* Every step of every call preserves IInv.
LEMMA NextIInv == IInv /\ [Next]_vars => IInv'
<1> SUFFICES ASSUME IInv, [Next]_vars PROVE IInv'
  BY Zenon
<1>1. ASSUME NEW c \in Calls, Start(c) \/ Step(c) PROVE IInv'
  BY <1>1, QuietStepIInv, InsertIInv, StoreIInv, CloseIInv, Zenon DEF Step
<1>2. CASE UNCHANGED vars
  BY <1>2, SMTT(30) DEF vars, IInv, TypeOK, MapEntries, CallInv, Final
<1> QED
  BY <1>1, <1>2, Zenon DEF Next

(***************************************************************************)
(* The entry of a key agrees at all times with where its callers are.      *)
(***************************************************************************)
THEOREM OncePerIInv == Spec => []IInv
  BY InitIInv, NextIInv, PTL DEF Spec

\* The map, the waiters and the results of Once keep their types: no call
\* returns a waiter.
THEOREM OncePerTypeCorrect == Spec => []TypeOK
<1>1. IInv => TypeOK
  BY Zenon DEF IInv
<1> QED
  BY <1>1, OncePerIInv, PTL

\* All calls of Once and Get that return for a key return the same.
THEOREM OncePerAgreedResults == Spec => []AgreedResults
<1>1. IInv => AgreedResults
  <2> SUFFICES ASSUME IInv, NEW c \in Calls, NEW d \in Calls,
                      KeyOf[c] = KeyOf[d], pc[c] = "returned", pc[d] = "returned"
               PROVE  result[c] = result[d] /\ result[c] # Absent
    BY Zenon DEF AgreedResults
  <2>1. Final(KeyOf[c]) /\ result[c] = values[KeyOf[c]] /\ result[d] = values[KeyOf[d]]
    BY Zenon DEF IInv, CallInv
  <2> QED
    BY <2>1, EntryKinds, Zenon DEF Final
<1> QED
  BY <1>1, OncePerIInv, PTL

\* maybeWaitFor never panics: a closed waiter has been replaced.
THEOREM OncePerNoInvalidWaiter == Spec => []NoInvalidWaiter
<1>1. IInv => NoInvalidWaiter
  BY Zenon DEF IInv, CallInv, NoInvalidWaiter
<1> QED
  BY <1>1, OncePerIInv, PTL

\* For those who use a key, a step of call c settles it, answers c, or does
\* nothing.
LEMMA StepImplementsCell ==
    ASSUME IInv, NEW c \in Calls, Start(c) \/ Step(c)
    PROVE  Cell!Settle(c) \/ Cell!Answer(c) \/ UNCHANGED <<Cells, result>>
<1> DEFINE k == KeyOf[c]
<1>0. k \in Keys /\ values \in [Keys -> Entries] /\ result = [d \in Calls |-> result[d]]
  BY CallsAssumption, Zenon DEF IInv, TypeOK
<1>1. ASSUME NEW v, v = values[k], v # Absent, v.is # "waiter", Return(c, v), values' = values
      PROVE  Cell!Answer(c)
  <2>1. Cells[k] = v /\ Cells' = Cells
    BY <1>0, <1>1, Zenon DEF Cells
  <2> QED
    BY <1>1, <2>1, Zenon DEF Cell!Answer, Cell!Empty, Absent, Return
<1>2. CASE Start(c) \/ Constructed(c) \/ ConstructorPanics(c)
  BY <1>2, Zenon DEF Start, Constructed, ConstructorPanics, Cells
<1>3. ASSUME values[k] # Absent, MaybeWaitFor(c, values[k]), values' = values
      PROVE  Cell!Answer(c) \/ UNCHANGED <<Cells, result>>
  BY <1>1, <1>3, Zenon DEF MaybeWaitFor, Cells
<1>4. CASE Load(c)
  BY <1>3, <1>4, Zenon DEF Load, Cells
<1>5. CASE Insert(c)
  <2>1. CASE values[k] # Absent
    BY <1>3, <1>5, <2>1, Zenon DEF Insert
  <2>2. CASE values[k] = Absent
    <3>1. values' = [values EXCEPT ![k] = WaiterOf(c)] /\ result' = result
      BY <1>5, <2>2, Zenon DEF Insert
    <3>2. ASSUME NEW l \in Keys PROVE Cells'[l] = Cells[l]
      <4>1. CASE l = k
        BY <1>0, <2>2, <3>1, <4>1, EntryKinds, Zenon DEF Cells
      <4>2. CASE l # k
        BY <1>0, <3>1, <4>2, Zenon DEF Cells
      <4> QED
        BY <4>1, <4>2, Zenon
    <3>3. Cells' = Cells
      BY <3>2, Zenon DEF Cells
    <3> QED
      BY <3>1, <3>3, Zenon
  <2> QED
    BY <2>1, <2>2, Zenon
<1>6. CASE Waited(c)
  <2>1. CASE values[k].is = "waiter"
    BY <1>6, <2>1, Zenon DEF Waited, Return, Cells
  <2>2. CASE values[k].is # "waiter"
    <3>1. PICK d \in Calls : wait[c] = {d} /\ KeyOf[d] = k
      BY <1>6, Zenon DEF Waited, IInv, CallInv
    <3>2. Final(k)
      BY <1>6, <3>1, Zenon DEF Waited, IInv, CallInv
    <3> QED
      BY <1>1, <1>6, <2>2, <3>2, EntryKinds, Zenon DEF Waited, Final
  <2> QED
    BY <2>1, <2>2, Zenon
<1>7. CASE Store(c)
  <2>1. values[k] = WaiterOf(c)
    BY <1>7, Zenon DEF Store, IInv, CallInv
  <2> DEFINE v == IF c \in dying THEN Nil ELSE ValueOf(c)
  <2>2. values' = [values EXCEPT ![k] = v] /\ result' = result
    BY <1>7, Zenon DEF Store
  <2>3. v \in Cell!Outcomes(c) /\ v.is # "waiter"
    BY Zenon DEF Cell!Outcomes, Nil, ValueOf
  <2>4. Cells[k] = Cell!Empty
    BY <1>0, <2>1, EntryKinds, Zenon DEF Cells, Cell!Empty, Absent
  <2> HIDE DEF v
  <2>5. Cells' = [Cells EXCEPT ![k] = v]
    BY <1>0, <2>2, <2>3, Zenon DEF Cells
  <2> QED
    BY <2>2, <2>3, <2>4, <2>5, Zenon DEF Cell!Settle
<1>8. CASE Close(c)
  <2>1. CASE c \in dying
    BY <1>8, <2>1, Zenon DEF Close, Cells
  <2>2. CASE c \notin dying
    <3>1. values[k] = ValueOf(c)
      BY <1>8, <2>2, Zenon DEF Close, IInv, CallInv
    <3> QED
      BY <1>1, <1>8, <2>2, <3>1, EntryKinds, Zenon DEF Close
  <2> QED
    BY <2>1, <2>2, Zenon
<1> QED
  BY <1>2, <1>4, <1>5, <1>6, <1>7, <1>8, Zenon DEF Step

\* Once and Get implement a cell for every key that is settled once.
THEOREM OncePerImplementsCell == Spec => ImplementsCell
<1>1. Init => Cell!Init
  BY EntryKinds, Zenon DEF Init, Cell!Init, Cells, Cell!Empty, Absent
<1>2. IInv /\ [Next]_vars => [Cell!Next]_<<Cells, result>>
  <2>1. ASSUME IInv, NEW c \in Calls, Start(c) \/ Step(c) PROVE [Cell!Next]_<<Cells, result>>
    BY <2>1, StepImplementsCell, Zenon DEF Cell!Next
  <2>2. ASSUME UNCHANGED vars PROVE UNCHANGED <<Cells, result>>
    BY <2>2, Zenon DEF vars, Cells
  <2> QED
    BY <2>1, <2>2, Zenon DEF Next
<1> QED
  BY <1>1, <1>2, OncePerIInv, PTL DEF Spec, ImplementsCell, Cell!Spec
-----------------------------------------------------------------------------
(***************************************************************************)
(* ApexVariants: which variants modules have, and what they link with, for *)
(* all trees and in all orders of the walks and the visits.                *)
(***************************************************************************)

\* The variation name and the ApexInfo of bundle b of tree W.
NameIn(W, b) == <<W.bundles[b].name>>

InfoIn(W, b) ==
    LET bundle == W.bundles[b] IN
    IF bundle.type = "prebuilt_apex"
    THEN Info(<<bundle.name>>, 0, "public", bundle.type, {<<bundle.name>>}, {b}, {b})
    ELSE Info(<<bundle.name>>, bundle.minSdkVersion, bundle.apis, bundle.type,
              {<<bundle.name>>}, {b}, {b})

\* Info i is built for the API and the kind of bundle b.
BuiltFor(W, i, b) ==
    /\ i.minSdkVersion = InfoIn(W, b).minSdkVersion
    /\ i.apis = InfoIn(W, b).apis
    /\ i.type = InfoIn(W, b).type

\* infos tells the bundles B apart by their names.
InfosOK(W, infos, B) ==
    /\ \A i \in infos : /\ i.contents # {} /\ i.contents \subseteq i.inApexModules
                        /\ i.inApexModules = {b \in B : NameIn(W, b) = i.name}
                        /\ i.inApexVariants = {i.name}
                        /\ \A b \in i.inApexModules : BuiltFor(W, i, b)
    /\ \A b \in B : \E i \in infos : i.name = NameIn(W, b)
    /\ \A i, j \in infos : i.name = j.name => i = j

\* The name of module m's variant for bundle b, when the modules in U are to
\* have unique variations.
VariationFor(W, U, m, b) ==
    IF m \in U \/ W.bundles[b].type = "prebuilt_apex"
    THEN NameIn(W, b) ELSE MergedName(InfoIn(W, b))

\* vs and al are the variants and the aliases that module m has for bundles B.
VariantsOK(W, U, m, vs, al, B) ==
    /\ Platform \in vs
    /\ \A i \in vs : /\ i.inApexModules = {b \in B : VariationFor(W, U, m, b) = i.name}
                     /\ \A b \in i.inApexModules : /\ i.minSdkVersion = InfoIn(W, b).minSdkVersion
                                                   /\ i.apis = InfoIn(W, b).apis
                     /\ m \in U /\ i.inApexModules # {} => i.inApexVariants = {i.name}
                     /\ i.name # <<>> => i.inApexModules # {}
    /\ \A b \in B : \E i \in vs : i.name = VariationFor(W, U, m, b)
    /\ \A i, j \in vs : i.name = j.name => i = j
    /\ \A b \in B : VariationFor(W, U, m, b) # NameIn(W, b) =>
          NameIn(W, b) \in DOMAIN al /\ al[NameIn(W, b)] = VariationFor(W, U, m, b)

-----------------------------------------------------------------------------
(* Names *)

\* Names of APEXes, merged names and the platform's are apart.
LEMMA NamesApart ==
    ASSUME NEW a, NEW b, NEW c, NEW d
    PROVE  /\ <<a>> # <<>> /\ <<b, c, d>> # <<>> /\ <<a>> # <<b, c, d>>
<1>1. Len(<<a>>) = 1 /\ Len(<<b, c, d>>) = 3 /\ Len(<<>>) = 0
  BY Zenon
<1> QED
  BY <1>1, Zenon

\* The fields of an ApexInfo.
LEMMA InfoIs ==
    ASSUME NEW name, NEW min, NEW apis, NEW type, NEW vs, NEW ms, NEW cs
    PROVE  LET i == Info(name, min, apis, type, vs, ms, cs)
           IN  /\ i.name = name /\ i.minSdkVersion = min /\ i.apis = apis /\ i.type = type
               /\ i.inApexVariants = vs /\ i.inApexModules = ms /\ i.contents = cs
  BY Zenon DEF Info

\* The fields of a bundle's ApexInfo.
LEMMA InfoInIs ==
    ASSUME NEW W, NEW b
    PROVE  /\ InfoIn(W, b).name = NameIn(W, b)
           /\ InfoIn(W, b).type = W.bundles[b].type
           /\ InfoIn(W, b).inApexVariants = {NameIn(W, b)}
           /\ InfoIn(W, b).inApexModules = {b} /\ InfoIn(W, b).contents = {b}
  BY Zenon DEF InfoIn, Info, NameIn

\* Bundles of one name are built alike.
LEMMA SameName ==
    ASSUME NEW W, WellFormed(W), NEW b \in DOMAIN W.bundles, NEW c \in DOMAIN W.bundles,
           NameIn(W, b) = NameIn(W, c)
    PROVE  /\ InfoIn(W, b).minSdkVersion = InfoIn(W, c).minSdkVersion
           /\ InfoIn(W, b).apis = InfoIn(W, c).apis
           /\ InfoIn(W, b).type = InfoIn(W, c).type
<1>1. W.bundles[b].name = W.bundles[c].name
  BY Zenon DEF NameIn
<1>2. /\ W.bundles[b].minSdkVersion = W.bundles[c].minSdkVersion
      /\ W.bundles[b].apis = W.bundles[c].apis /\ W.bundles[b].type = W.bundles[c].type
  BY <1>1, SMTT(30) DEF WellFormed
<1> QED
  BY <1>2, Zenon DEF InfoIn, Info

\* ApexInfo k is i, with bundle b added when its name is n.
Joined(k, i, b, n) ==
    /\ k.name = i.name /\ k.minSdkVersion = i.minSdkVersion /\ k.apis = i.apis /\ k.type = i.type
    /\ k.inApexVariants = i.inApexVariants /\ k.contents = i.contents
    /\ k.inApexModules = IF i.name = n THEN i.inApexModules \cup {b} ELSE i.inApexModules

\* BuildForApex adds a bundle.
LEMMA BuildForApexAdds ==
    ASSUME NEW W, WellFormed(W), NEW infos, NEW B \in SUBSET DOMAIN W.bundles,
           InfosOK(W, infos, B), NEW b \in DOMAIN W.bundles
    PROVE  InfosOK(W, BuildForApex(infos, InfoIn(W, b)), B \cup {b})
<1> DEFINE new == InfoIn(W, b)
           C == B \cup {b}
           all == BuildForApex(infos, InfoIn(W, b))
<1>1. new.name = NameIn(W, b) /\ new.inApexVariants = {new.name} /\ new.inApexModules = {b}
      /\ new.contents = {b}
  BY InfoInIs, SMTT(30)
<1>2. /\ \A i \in infos : /\ i.contents # {} /\ i.contents \subseteq i.inApexModules
                          /\ i.inApexModules = {c \in B : NameIn(W, c) = i.name}
                          /\ i.inApexVariants = {i.name}
                          /\ \A c \in i.inApexModules : BuiltFor(W, i, c)
      /\ \A c \in B : \E i \in infos : i.name = NameIn(W, c)
      /\ \A i, j \in infos : i.name = j.name => i = j
  BY Zenon DEF InfosOK
<1>3. CASE ~ \E i \in infos : i.name = new.name
  <2>1. all = infos \cup {new}
    BY <1>3, Zenon DEF BuildForApex
  <2>2. \A i \in infos : NameIn(W, b) # i.name
    BY <1>1, <1>3, Zenon
  <2>3. ~ \E c \in B : NameIn(W, c) = NameIn(W, b)
    BY <1>2, <2>2, Zenon
  <2>4. ASSUME NEW i \in infos
        PROVE  i.inApexModules = {c \in C : NameIn(W, c) = i.name}
    BY <1>2, <2>2, SMTT(30)
  <2>5. new.inApexModules = {c \in C : NameIn(W, c) = new.name}
    BY <1>1, <2>3, Zenon
  <2>6. BuiltFor(W, new, b)
    BY Zenon DEF BuiltFor
  <2> HIDE DEF new, all
  <2>7. \A i \in all : /\ i.contents # {} /\ i.contents \subseteq i.inApexModules
                       /\ i.inApexModules = {c \in C : NameIn(W, c) = i.name}
                       /\ i.inApexVariants = {i.name}
                       /\ \A c \in i.inApexModules : BuiltFor(W, i, c)
    BY <1>1, <1>2, <2>1, <2>4, <2>5, <2>6, SMTT(30)
  <2>8. \A c \in C : \E i \in all : i.name = NameIn(W, c)
    BY <1>1, <1>2, <2>1, Zenon
  <2>9. \A i, j \in all : i.name = j.name => i = j
    BY <1>1, <1>2, <2>1, <2>2, Zenon
  <2>10. InfosOK(W, all, C)
    BY <2>7, <2>8, <2>9, Zenon DEF InfosOK
  <2> QED
    BY <2>10, Zenon DEF all
<1>4. CASE \E i \in infos : i.name = new.name
  <2> DEFINE With(i) == Info(i.name, i.minSdkVersion, i.apis, i.type, i.inApexVariants,
                             i.inApexModules \cup new.inApexModules, i.contents)
             nx == [i \in infos |-> IF i.name = new.name THEN With(i) ELSE i]
  <2>1. all = {nx[i] : i \in infos}
    <3>1. all = {IF i.name = new.name THEN With(i) ELSE i : i \in infos}
      BY <1>4, Zenon DEF BuildForApex
    <3> HIDE DEF With
    <3> QED
      BY <3>1, Zenon
  <2>2. \A i \in infos : Joined(nx[i], i, b, new.name)
    <3> TAKE i \in infos
    <3>1. CASE i.name = new.name
      <4>1. nx[i] = With(i)
        BY <3>1, Zenon
      <4> HIDE DEF nx
      <4>2. Joined(With(i), i, b, i.name)
        <5>1. new.inApexModules = {b}
          BY <1>1, Zenon
        <5> HIDE DEF new
        <5> QED
          BY <5>1, Zenon DEF Joined, Info
      <4> QED
        BY <3>1, <4>1, <4>2, Zenon
    <3>2. CASE i.name # new.name
      <4>1. nx[i] = i
        BY <3>2, Zenon
      <4> HIDE DEF nx, new
      <4>2. Joined(i, i, b, new.name)
        BY <3>2, Zenon DEF Joined
      <4> QED
        BY <4>1, <4>2, Zenon
    <3> QED
      BY <3>1, <3>2, Zenon
  <2> HIDE DEF nx, new, all
  <2>3. ASSUME NEW k, NEW i \in infos, Joined(k, i, b, new.name)
        PROVE  /\ k.contents # {} /\ k.contents \subseteq k.inApexModules
               /\ k.inApexModules = {c \in C : NameIn(W, c) = k.name}
               /\ k.inApexVariants = {k.name}
               /\ \A c \in k.inApexModules : BuiltFor(W, k, c)
    <3>0. /\ i.contents # {} /\ i.contents \subseteq i.inApexModules
          /\ i.inApexModules = {c \in B : NameIn(W, c) = i.name}
          /\ i.inApexVariants = {i.name}
          /\ \A c \in i.inApexModules : BuiltFor(W, i, c)
      BY <1>2, Zenon
    <3>1. NameIn(W, b) = new.name
      BY <1>1, Zenon
    <3>2. k.inApexModules = {c \in C : NameIn(W, c) = k.name}
      BY <2>3, <3>0, <3>1, Zenon DEF Joined
    <3>3. ASSUME NEW c \in k.inApexModules
          PROVE  BuiltFor(W, k, c)
      <4>1. PICK d \in i.inApexModules : TRUE
        BY <3>0, Zenon
      <4>2. d \in B /\ NameIn(W, d) = i.name /\ BuiltFor(W, i, d)
        BY <3>0, Zenon
      <4>3. c \in DOMAIN W.bundles /\ NameIn(W, c) = i.name
        BY <2>3, <3>2, Zenon DEF Joined
      <4>4. /\ InfoIn(W, c).minSdkVersion = InfoIn(W, d).minSdkVersion
            /\ InfoIn(W, c).apis = InfoIn(W, d).apis
            /\ InfoIn(W, c).type = InfoIn(W, d).type
        BY <4>2, <4>3, SameName, ZenonT(40)
      <4> QED
        BY <2>3, <4>2, <4>4, Zenon DEF BuiltFor, Joined
    <3>4. k.contents # {} /\ k.contents \subseteq k.inApexModules /\ k.inApexVariants = {k.name}
      BY <2>3, <3>0, Zenon DEF Joined
    <3> QED
      BY <3>2, <3>3, <3>4, Zenon
  <2>4. \A k \in all : \E i \in infos : k = nx[i] /\ Joined(k, i, b, new.name)
    BY <2>1, <2>2, Zenon
  <2>5. \A k \in all : /\ k.contents # {} /\ k.contents \subseteq k.inApexModules
                       /\ k.inApexModules = {c \in C : NameIn(W, c) = k.name}
                       /\ k.inApexVariants = {k.name}
                       /\ \A c \in k.inApexModules : BuiltFor(W, k, c)
    BY <2>3, <2>4, Zenon
  <2>6. ASSUME NEW c \in C
        PROVE  \E k \in all : k.name = NameIn(W, c)
    <3>1. PICK i \in infos : i.name = NameIn(W, c)
      BY <1>1, <1>2, <1>4, Zenon
    <3>2. nx[i] \in all /\ Joined(nx[i], i, b, new.name)
      BY <2>1, <2>2, Zenon
    <3> QED
      BY <3>1, <3>2, Zenon DEF Joined
  <2>7. ASSUME NEW k \in all, NEW l \in all, k.name = l.name
        PROVE  k = l
    <3>1. PICK i \in infos : k = nx[i] /\ Joined(k, i, b, new.name)
      BY <2>4, Zenon
    <3>2. PICK j \in infos : l = nx[j] /\ Joined(l, j, b, new.name)
      BY <2>4, Zenon
    <3>3. k.name = i.name /\ l.name = j.name
      BY <3>1, <3>2, Zenon DEF Joined
    <3>4. i = j
      BY <1>2, <2>7, <3>3, ZenonT(40)
    <3> QED
      BY <3>1, <3>2, <3>4, Zenon
  <2>8. InfosOK(W, all, C)
    BY <2>5, <2>6, <2>7, Zenon DEF InfosOK
  <2> QED
    BY <2>8, Zenon DEF all
<1> QED
  BY <1>3, <1>4, Zenon

\* The platform's ApexInfo.
LEMMA PlatformIs ==
    /\ Platform.name = <<>> /\ Platform.inApexModules = {} /\ Platform.inApexVariants = {}
    /\ Platform.contents = {}
  BY Zenon DEF Platform, Info

\* A variation is named after an APEX or has a merged name.
LEMMA VariationForIs ==
    ASSUME NEW W, NEW U, NEW m, NEW b
    PROVE  /\ VariationFor(W, U, m, b) # <<>>
           /\ \/ VariationFor(W, U, m, b) = NameIn(W, b)
                   /\ (m \in U \/ InfoIn(W, b).type = "prebuilt_apex")
              \/ /\ VariationFor(W, U, m, b) = MergedName(InfoIn(W, b))
                 /\ m \notin U /\ InfoIn(W, b).type # "prebuilt_apex"
                 /\ \A c : VariationFor(W, U, m, b) # NameIn(W, c)
<1>1. InfoIn(W, b).type = W.bundles[b].type
  BY InfoInIs, ZenonT(40)
<1>2. CASE m \in U \/ InfoIn(W, b).type = "prebuilt_apex"
  <2>1. VariationFor(W, U, m, b) = NameIn(W, b)
    BY <1>1, <1>2, Zenon DEF VariationFor
  <2>2. NameIn(W, b) # <<>>
    BY NamesApart, Zenon DEF NameIn
  <2> QED
    BY <1>2, <2>1, <2>2, Zenon
<1>3. CASE ~ (m \in U \/ InfoIn(W, b).type = "prebuilt_apex")
  <2>1. VariationFor(W, U, m, b) = MergedName(InfoIn(W, b))
    BY <1>1, <1>3, Zenon DEF VariationFor
  <2>2. MergedName(InfoIn(W, b)) # <<>>
    BY NamesApart, Zenon DEF MergedName
  <2>3. \A c : MergedName(InfoIn(W, b)) # NameIn(W, c)
    BY NamesApart, Zenon DEF MergedName, NameIn
  <2> QED
    BY <1>3, <2>1, <2>2, <2>3, Zenon
<1> QED
  BY <1>2, <1>3, Zenon

\* What InfosOK says of one ApexInfo.
InfoOK(W, i, B) ==
    /\ i.contents # {} /\ i.contents \subseteq i.inApexModules
    /\ i.inApexModules = {b \in B : NameIn(W, b) = i.name}
    /\ i.inApexVariants = {i.name}
    /\ \A b \in i.inApexModules : BuiltFor(W, i, b)

\* What VariantsOK says of one variant.
VariantOK(W, U, m, i, B) ==
    /\ i.inApexModules = {b \in B : VariationFor(W, U, m, b) = i.name}
    /\ \A b \in i.inApexModules : /\ i.minSdkVersion = InfoIn(W, b).minSdkVersion
                                  /\ i.apis = InfoIn(W, b).apis
    /\ m \in U /\ i.inApexModules # {} => i.inApexVariants = {i.name}
    /\ i.name # <<>> => i.inApexModules # {}

\* The platform's variant is for no bundle.
LEMMA PlatformOK ==
    ASSUME NEW W, NEW U, NEW m, NEW B
    PROVE  VariantOK(W, U, m, Platform, B)
<1>1. Platform.name = <<>> /\ Platform.inApexModules = {}
  BY PlatformIs, Zenon
<1>2. \A b \in B : VariationFor(W, U, m, b) # <<>>
  BY VariationForIs, SMTT(30)
<1> QED
  BY <1>1, <1>2, Zenon DEF VariantOK

\* An ApexInfo that is not merged becomes a variant of its own.
LEMMA KeptOK ==
    ASSUME NEW W, NEW U, NEW m, NEW B, NEW i, InfoOK(W, i, B),
           m \in U \/ i.type = "prebuilt_apex"
    PROVE  VariantOK(W, U, m, i, B)
<1>1. /\ i.contents # {} /\ i.contents \subseteq i.inApexModules
      /\ i.inApexModules = {b \in B : NameIn(W, b) = i.name}
      /\ i.inApexVariants = {i.name}
      /\ \A b \in i.inApexModules : BuiltFor(W, i, b)
  BY Zenon DEF InfoOK
<1>2. PICK c \in i.inApexModules : TRUE
  BY <1>1, Zenon
<1>3. NameIn(W, c) = i.name
  BY <1>1, Zenon
<1>4. ASSUME NEW b \in B
      PROVE  VariationFor(W, U, m, b) = i.name <=> NameIn(W, b) = i.name
  <2>1. ASSUME NameIn(W, b) = i.name
        PROVE  VariationFor(W, U, m, b) = i.name
    <3>1. i.type = InfoIn(W, b).type
      BY <1>1, <2>1, Zenon DEF BuiltFor
    <3> QED
      BY <2>1, <3>1, VariationForIs, SMTT(30)
  <2>2. ASSUME VariationFor(W, U, m, b) = i.name
        PROVE  NameIn(W, b) = i.name
    BY <1>3, <2>2, VariationForIs, SMTT(30)
  <2> QED
    BY <2>1, <2>2, Zenon
<1>5. i.inApexModules = {b \in B : VariationFor(W, U, m, b) = i.name}
  BY <1>1, <1>4, Zenon
<1>6. \A b \in i.inApexModules : /\ i.minSdkVersion = InfoIn(W, b).minSdkVersion
                                 /\ i.apis = InfoIn(W, b).apis
  BY <1>1, Zenon DEF BuiltFor
<1> QED
  BY <1>1, <1>5, <1>6, Zenon DEF VariantOK

\* Merged names tell APIs apart.
LEMMA MergedNameIs ==
    ASSUME NEW i, NEW j, MergedName(i) = MergedName(j)
    PROVE  i.minSdkVersion = j.minSdkVersion /\ i.apis = j.apis
  BY Zenon DEF MergedName

\* infos covers the bundles B.
Covers(W, infos, B) ==
    /\ \A i \in infos : InfoOK(W, i, B)
    /\ \A b \in B : \E i \in infos : i.name = NameIn(W, b)

\* o is merged with the others of its merged name into a proper variant.
MergedOK(W, U, m, B, infos, o) ==
    /\ Merge(infos, MergedName(o)).name = MergedName(o)
    /\ VariantOK(W, U, m, Merge(infos, MergedName(o)), B)
    /\ o.contents \subseteq Merge(infos, MergedName(o)).contents
    /\ Merge(infos, MergedName(o)).contents \subseteq B

\* Merge collects the bundles that are built for one API.
LEMMA MergeOK ==
    ASSUME NEW W, NEW U, NEW m, m \notin U, NEW B, NEW infos, Covers(W, infos, B), NEW o \in Merging(infos)
    PROVE  MergedOK(W, U, m, B, infos, o)
<1> DEFINE n == MergedName(o)
           same == {i \in Merging(infos) : MergedName(i) = n}
           first == CHOOSE i \in same : TRUE
           new == Merge(infos, n)
<1>0. /\ \A i \in infos : InfoOK(W, i, B)
      /\ \A b \in B : \E i \in infos : i.name = NameIn(W, b)
  BY Zenon DEF Covers
<1>1. o \in same /\ first \in same
  <2>1. o \in same
    BY Zenon
  <2> QED
    BY <2>1, Zenon
<1>2. new = Info(n, first.minSdkVersion, first.apis, first.type, InApexVariants(same),
                 UNION {i.inApexModules : i \in same}, UNION {i.contents : i \in same})
  BY Zenon DEF Merge
<1>3. /\ new.name = n
      /\ new.minSdkVersion = first.minSdkVersion /\ new.apis = first.apis
      /\ new.inApexModules = UNION {i.inApexModules : i \in same}
      /\ new.contents = UNION {i.contents : i \in same}
  <2> HIDE DEF n, same, first, new
  <2> QED
    BY <1>2, Zenon DEF Info
<1>4. \A i \in same : /\ i \in infos /\ i.type # "prebuilt_apex" /\ MergedName(i) = n
                      /\ i.contents \subseteq i.inApexModules /\ i.contents # {}
                      /\ i.inApexModules = {b \in B : NameIn(W, b) = i.name}
                      /\ \A b \in i.inApexModules : BuiltFor(W, i, b)
  BY <1>0, Zenon DEF Merging, InfoOK
<1>5. \A i \in infos : i.type # "prebuilt_apex" /\ MergedName(i) = n => i \in same
  BY Zenon DEF Merging
<1>6. \A c : NameIn(W, c) # n
  BY NamesApart, Zenon DEF NameIn, MergedName
<1> HIDE DEF n, same, first, new
<1>7. ASSUME NEW i \in infos, NEW b \in i.inApexModules
      PROVE  /\ i.type = InfoIn(W, b).type
             /\ MergedName(i) = MergedName(InfoIn(W, b))
             /\ b \in B /\ NameIn(W, b) = i.name
  BY <1>0, ZenonT(40) DEF InfoOK, BuiltFor, MergedName
<1>8. ASSUME NEW b \in B
      PROVE  b \in new.inApexModules <=> VariationFor(W, U, m, b) = n
  <2>1. ASSUME b \in new.inApexModules
        PROVE  VariationFor(W, U, m, b) = n
    <3>1. PICK i \in same : b \in i.inApexModules
      BY <1>3, <2>1, SMTT(30)
    <3>2. InfoIn(W, b).type # "prebuilt_apex" /\ MergedName(InfoIn(W, b)) = n
      BY <1>4, <1>7, <3>1, Zenon
    <3> QED
      BY <3>2, VariationForIs, SMTT(30)
  <2>2. ASSUME VariationFor(W, U, m, b) = n
        PROVE  b \in new.inApexModules
    <3>1. InfoIn(W, b).type # "prebuilt_apex" /\ MergedName(InfoIn(W, b)) = n
      BY <1>6, <2>2, VariationForIs, SMTT(30)
    <3>2. PICK i \in infos : i.name = NameIn(W, b)
      BY <1>0, Zenon
    <3>3. b \in i.inApexModules
      BY <1>0, <3>2, Zenon DEF InfoOK
    <3>4. i \in same
      BY <1>5, <1>7, <3>1, <3>3, Zenon
    <3> QED
      BY <1>3, <3>3, <3>4, Zenon
  <2> QED
    BY <2>1, <2>2, Zenon
<1>9. new.inApexModules \subseteq B
  BY <1>3, <1>4, SMTT(30)
<1>10. new.inApexModules = {b \in B : VariationFor(W, U, m, b) = n}
  BY <1>8, <1>9, Zenon
<1>11. ASSUME NEW b \in new.inApexModules
       PROVE  new.minSdkVersion = InfoIn(W, b).minSdkVersion /\ new.apis = InfoIn(W, b).apis
  <2>1. PICK i \in same : b \in i.inApexModules
    BY <1>3, Zenon
  <2>2. MergedName(first) = MergedName(InfoIn(W, b))
    BY <1>1, <1>4, <1>7, <2>1, Zenon
  <2> QED
    BY <1>3, <2>2, MergedNameIs, Zenon
<1>12. new.inApexModules # {}
  BY <1>1, <1>3, <1>4, SMTT(30)
<1>13. VariantOK(W, U, m, new, B)
  BY <1>3, <1>10, <1>11, <1>12, Zenon DEF VariantOK
<1>14. new.contents \subseteq B /\ \A i \in same : i.contents \subseteq new.contents
  BY <1>3, <1>4, Zenon
<1> QED
  BY <1>1, <1>3, <1>13, <1>14, Zenon DEF MergedOK, new, n

\* The variants and aliases that CreateApexVariations makes.
NewVariants(U, m, infos) ==
    (IF m \in U THEN infos ELSE MergeApexVariations(infos)) \cup {Platform}

NewAliases(U, m, infos) == IF m \in U THEN <<>> ELSE MergedAliases(infos)

\* CreateApexVariations makes a variant for each bundle.
LEMMA CreateOK ==
    ASSUME NEW W, NEW U, NEW m, NEW B, NEW infos, InfosOK(W, infos, B)
    PROVE  VariantsOK(W, U, m, NewVariants(U, m, infos), NewAliases(U, m, infos), B)
<1> DEFINE vs == NewVariants(U, m, infos)
           al == NewAliases(U, m, infos)
<1>1. /\ \A i \in infos : InfoOK(W, i, B)
      /\ \A b \in B : \E i \in infos : i.name = NameIn(W, b)
      /\ \A i, j \in infos : i.name = j.name => i = j
  BY Zenon DEF InfosOK, InfoOK
<1>2. ASSUME NEW i \in infos
      PROVE  \E b \in i.inApexModules : NameIn(W, b) = i.name
  BY <1>1, ZenonT(40) DEF InfoOK
<1>3. ASSUME NEW i \in infos, NEW b \in B, i.name = NameIn(W, b)
      PROVE  i.type = InfoIn(W, b).type /\ MergedName(i) = MergedName(InfoIn(W, b))
  <2>1. b \in i.inApexModules
    BY <1>1, <1>3, Zenon DEF InfoOK
  <2> QED
    BY <1>1, <2>1, Zenon DEF InfoOK, BuiltFor, MergedName
<1>4. Platform \in vs
  BY Zenon DEF NewVariants
<1>5. Platform.name = <<>>
  BY PlatformIs, Zenon
<1>6. \A i \in infos : i.name # <<>>
  <2> TAKE i \in infos
  <2>1. PICK b : NameIn(W, b) = i.name
    BY <1>2, Zenon
  <2> QED
    BY <2>1, NamesApart, Zenon DEF NameIn
<1>7. CASE m \in U
  <2>1. vs = infos \cup {Platform}
    BY <1>7, Zenon DEF NewVariants
  <2> HIDE DEF vs, al
  <2>2. \A i \in vs : VariantOK(W, U, m, i, B)
    <3>1. \A i \in infos : VariantOK(W, U, m, i, B)
      BY <1>1, <1>7, KeptOK, Zenon
    <3> QED
      BY <2>1, <3>1, PlatformOK, Zenon
  <2>3. \A b \in B : VariationFor(W, U, m, b) = NameIn(W, b)
    BY <1>7, Zenon DEF VariationFor
  <2>4. \A b \in B : \E i \in vs : i.name = VariationFor(W, U, m, b)
    BY <1>1, <2>1, <2>3, Zenon
  <2>5. \A i, j \in vs : i.name = j.name => i = j
    BY <1>1, <1>5, <1>6, <2>1, Zenon
  <2>6. VariantsOK(W, U, m, vs, al, B)
    BY <1>4, <2>2, <2>3, <2>4, <2>5, Zenon DEF VariantsOK, VariantOK
  <2> QED
    BY <2>6, Zenon DEF vs, al
<1>8. CASE m \notin U
  <2> DEFINE M == Merging(infos)
             kept == infos \ M
             mg == [o \in M |-> Merge(infos, MergedName(o))]
  <2>1. vs = kept \cup {mg[o] : o \in M} \cup {Platform}
    <3>1. vs = kept \cup {Merge(infos, MergedName(o)) : o \in M} \cup {Platform}
      BY <1>8, Zenon DEF NewVariants, MergeApexVariations
    <3> HIDE DEF M, kept
    <3> QED
      BY <3>1, Zenon
  <2>2. \A o \in M : /\ mg[o].name = MergedName(o)
                     /\ VariantOK(W, U, m, mg[o], B)
    <3> TAKE o \in M
    <3>1. mg[o] = Merge(infos, MergedName(o))
      BY Zenon
    <3> HIDE DEF mg
    <3>2. Covers(W, infos, B)
      BY <1>1, Zenon DEF Covers
    <3>3. /\ Merge(infos, MergedName(o)).name = MergedName(o)
          /\ VariantOK(W, U, m, Merge(infos, MergedName(o)), B)
          /\ o.contents \subseteq Merge(infos, MergedName(o)).contents
          /\ Merge(infos, MergedName(o)).contents \subseteq B
      <4>1. MergedOK(W, U, m, B, infos, o)
        BY <1>8, <3>2, MergeOK, Zenon
      <4> QED
        BY <4>1, Zenon DEF MergedOK
    <3> QED
      BY <3>1, <3>3, Zenon
  <2>3. \A o, q \in M : MergedName(o) = MergedName(q) => mg[o] = mg[q]
    BY Zenon
  <2>4. /\ \A i \in kept : i \in infos /\ i.type = "prebuilt_apex"
        /\ \A i \in infos : i.type # "prebuilt_apex" => i \in M
        /\ \A i \in infos : i.type = "prebuilt_apex" => i \in kept
        /\ \A i \in M : i \in infos /\ i.type # "prebuilt_apex"
    BY Zenon DEF Merging
  <2>5. al = [name \in {i.name : i \in M} |-> MergedName(CHOOSE i \in M : i.name = name)]
    BY <1>8, Zenon DEF NewAliases, MergedAliases
  <2> HIDE DEF vs, al, M, kept, mg
  <2>6. \A i \in vs : VariantOK(W, U, m, i, B)
    <3>1. \A i \in kept : VariantOK(W, U, m, i, B)
      BY <1>1, <2>4, KeptOK, Zenon
    <3> QED
      BY <2>1, <2>2, <3>1, PlatformOK, Zenon
  <2>7. ASSUME NEW b \in B
        PROVE  \E i \in vs : i.name = VariationFor(W, U, m, b)
    <3>1. PICK i \in infos : i.name = NameIn(W, b)
      BY <1>1, Zenon
    <3>2. i.type = InfoIn(W, b).type /\ MergedName(i) = MergedName(InfoIn(W, b))
      BY <1>3, <3>1, Zenon
    <3>3. CASE i.type = "prebuilt_apex"
      <4>1. i \in kept
        BY <2>4, <3>3, Zenon
      <4>2. VariationFor(W, U, m, b) = NameIn(W, b)
        <5>1. InfoIn(W, b).type = "prebuilt_apex"
          BY <3>2, <3>3, Zenon
        <5> QED
          BY <5>1, InfoInIs, ZenonT(40) DEF VariationFor
      <4> QED
        BY <2>1, <3>1, <4>1, <4>2, Zenon
    <3>4. CASE i.type # "prebuilt_apex"
      <4>1. i \in M
        BY <2>4, <3>4, Zenon
      <4>2. VariationFor(W, U, m, b) = MergedName(i)
        BY <1>8, <3>2, <3>4, VariationForIs, SMTT(30)
      <4>3. mg[i] \in vs /\ mg[i].name = MergedName(i)
        BY <2>1, <2>2, <4>1, Zenon
      <4> QED
        BY <4>2, <4>3, Zenon
    <3> QED
      BY <3>3, <3>4, Zenon
  <2>8. ASSUME NEW i \in vs, NEW j \in vs, i.name = j.name
        PROVE  i = j
    <3>1. \A k \in kept, o \in M : k.name # mg[o].name
      <4> TAKE k \in kept, o \in M
      <4>1. PICK b : NameIn(W, b) = k.name
        BY <1>2, <2>4, Zenon
      <4>2. NameIn(W, b) # MergedName(o)
        BY NamesApart, Zenon DEF NameIn, MergedName
      <4>3. mg[o].name = MergedName(o)
        BY <2>2, Zenon
      <4> QED
        BY <4>1, <4>2, <4>3, Zenon
    <3>2. \A o \in M : mg[o].name # <<>>
      <4> TAKE o \in M
      <4>1. MergedName(o) # <<>>
        BY NamesApart, Zenon DEF MergedName
      <4> QED
        BY <2>2, <4>1, Zenon
    <3>3. \A o, q \in M : mg[o].name = mg[q].name => mg[o] = mg[q]
      BY <2>2, <2>3, ZenonT(40)
    <3>4. \A k \in kept : k \in infos
      BY <2>4, Zenon
    <3>5. /\ i \in kept \/ i = Platform \/ \E o \in M : i = mg[o]
          /\ j \in kept \/ j = Platform \/ \E o \in M : j = mg[o]
      BY <2>1, Zenon
    <3>6. CASE i \in kept
      <4>1. i.name # <<>> /\ \A o \in M : i.name # mg[o].name
        BY <1>6, <3>1, <3>4, <3>6, Zenon
      <4>2. j \in kept
        BY <1>5, <2>8, <3>5, <4>1, Zenon
      <4> QED
        BY <1>1, <2>8, <3>4, <3>6, <4>2, Zenon
    <3>7. CASE i = Platform
      BY <1>5, <1>6, <2>8, <3>2, <3>4, <3>5, <3>7, Zenon
    <3>8. ASSUME NEW o \in M, i = mg[o]
          PROVE  i = j
      <4>1. i.name # <<>> /\ \A k \in kept : k.name # i.name
        BY <3>1, <3>2, <3>8, Zenon
      <4>2. PICK q \in M : j = mg[q]
        BY <1>5, <2>8, <3>5, <4>1, Zenon
      <4> QED
        BY <2>8, <3>3, <3>8, <4>2, Zenon
    <3> QED
      BY <3>5, <3>6, <3>7, <3>8, Zenon
  <2>9. ASSUME NEW b \in B, VariationFor(W, U, m, b) # NameIn(W, b)
        PROVE  NameIn(W, b) \in DOMAIN al /\ al[NameIn(W, b)] = VariationFor(W, U, m, b)
    <3>1. /\ VariationFor(W, U, m, b) = MergedName(InfoIn(W, b))
          /\ InfoIn(W, b).type # "prebuilt_apex"
      BY <2>9, VariationForIs, SMTT(30)
    <3>2. PICK i \in infos : i.name = NameIn(W, b)
      BY <1>1, Zenon
    <3>3. i \in M
      BY <1>3, <2>4, <3>1, <3>2, Zenon
    <3> DEFINE n == NameIn(W, b)
               j == CHOOSE k \in M : k.name = n
    <3>4. j \in M /\ j.name = n
      BY <3>2, <3>3, Zenon
    <3>5. n \in {k.name : k \in M}
      BY <3>2, <3>3, Zenon
    <3>6. n \in DOMAIN al /\ al[n] = MergedName(j)
      BY <2>5, <3>5, Zenon
    <3> HIDE DEF j
    <3>7. MergedName(j) = MergedName(InfoIn(W, b))
      BY <1>3, <2>4, <3>4, Zenon
    <3> QED
      BY <3>1, <3>6, <3>7, Zenon
  <2>10. VariantsOK(W, U, m, vs, al, B)
    BY <1>4, <2>6, <2>7, <2>8, <2>9, Zenon DEF VariantsOK, VariantOK
  <2> QED
    BY <2>10, Zenon DEF vs, al
<1> QED
  BY <1>7, <1>8, Zenon

\* Bundles have names of their own.
DistinctNames(W) ==
    \A b, c \in DOMAIN W.bundles : W.bundles[b].name = W.bundles[c].name => b = c

\* The contents of all infos together are the bundles B.
ContentsOK(infos, B) ==
    /\ \A i \in infos : i.contents \subseteq B
    /\ \A b \in B : \E i \in infos : b \in i.contents

\* When names are distinct, the contents are those of all bundles.
LEMMA ContentsAre ==
    ASSUME NEW W, NEW U, NEW m, NEW B \in SUBSET DOMAIN W.bundles, NEW infos, InfosOK(W, infos, B),
           DistinctNames(W)
    PROVE  ContentsOK(IF m \in U THEN infos ELSE MergeApexVariations(infos), B)
<1> DEFINE all == IF m \in U THEN infos ELSE MergeApexVariations(infos)
<1>1. /\ \A i \in infos : InfoOK(W, i, B)
      /\ \A b \in B : \E i \in infos : i.name = NameIn(W, b)
  BY Zenon DEF InfosOK, InfoOK
<1>2. \A i \in infos : i.contents \subseteq B
  BY <1>1, Zenon DEF InfoOK
<1>3. ASSUME NEW b \in B
      PROVE  \E i \in infos : b \in i.contents
  <2>1. PICK i \in infos : i.name = NameIn(W, b)
    BY <1>1, Zenon
  <2>2. PICK c \in i.contents : c \in B /\ NameIn(W, c) = i.name
    BY <1>1, Zenon DEF InfoOK
  <2>3. W.bundles[b].name = W.bundles[c].name
    BY <2>1, <2>2, SMTT(30) DEF NameIn
  <2>4. c = b
    BY <2>2, <2>3, Zenon DEF DistinctNames
  <2> QED
    BY <2>2, <2>4, Zenon
<1>4. CASE m \in U
  BY <1>2, <1>3, <1>4, Zenon DEF ContentsOK
<1>5. CASE m \notin U
  <2> DEFINE M == Merging(infos)
             mg == [o \in M |-> Merge(infos, MergedName(o))]
  <2>1. all = (infos \ M) \cup {mg[o] : o \in M}
    <3>1. all = (infos \ M) \cup {Merge(infos, MergedName(o)) : o \in M}
      BY <1>5, Zenon DEF MergeApexVariations
    <3> HIDE DEF M
    <3> QED
      BY <3>1, Zenon
  <2>2. \A o \in M : o.contents \subseteq mg[o].contents /\ mg[o].contents \subseteq B
    <3> TAKE o \in M
    <3>1. mg[o] = Merge(infos, MergedName(o))
      BY Zenon
    <3> HIDE DEF mg
    <3>2. Covers(W, infos, B)
      BY <1>1, Zenon DEF Covers
    <3>3. /\ Merge(infos, MergedName(o)).name = MergedName(o)
          /\ VariantOK(W, U, m, Merge(infos, MergedName(o)), B)
          /\ o.contents \subseteq Merge(infos, MergedName(o)).contents
          /\ Merge(infos, MergedName(o)).contents \subseteq B
      <4>1. MergedOK(W, U, m, B, infos, o)
        BY <1>5, <3>2, MergeOK, Zenon
      <4> QED
        BY <4>1, Zenon DEF MergedOK
    <3> QED
      BY <3>1, <3>3, Zenon
  <2> HIDE DEF all, M, mg
  <2>3. \A i \in all : i.contents \subseteq B
    BY <1>2, <2>1, <2>2, Zenon
  <2>4. ASSUME NEW b \in B
        PROVE  \E i \in all : b \in i.contents
    <3>1. PICK i \in infos : b \in i.contents
      BY <1>3, Zenon
    <3>2. CASE i \in M
      <4>1. mg[i] \in all /\ b \in mg[i].contents
        BY <2>1, <2>2, <3>1, <3>2, Zenon
      <4> QED
        BY <4>1, Zenon
    <3>3. CASE i \notin M
      BY <2>1, <3>1, <3>3, Zenon
    <3> QED
      BY <3>2, <3>3, Zenon
  <2> QED
    BY <2>3, <2>4, Zenon DEF all, ContentsOK
<1> QED
  BY <1>4, <1>5, Zenon
-----------------------------------------------------------------------------
(* The invariant *)

\* The modules with unique variations, and the bundles whose walk has marked m.
Uniques == world.unique \cup uniqueForDeps
MarkedBy(m) == {b \in Bundles : m \in marked[b]}

\* The k-th mutator has visited m.
Past(k, m) == mutator > k \/ (mutator = k /\ m \in visited)

VariantsType ==
    /\ world \in Worlds
    /\ mutator \in 1 .. 5
    /\ visited \subseteq Modules
    /\ marked \in [Bundles -> SUBSET Modules]
    /\ DOMAIN apexInfos = Modules
    /\ DOMAIN variants = Modules
    /\ DOMAIN aliases = Modules
    /\ DOMAIN direct = Modules

\* Above a dependency with unique variations in a common APEX they are unique.
Raised(m) ==
    \A d \in Deps(m) : \A b \in Bundles :
        m \in marked[b] /\ d \in marked[b] /\ d \in Uniques => m \in uniqueForDeps

\* Some bundle contains m directly.
Directly(m) == \E b \in Bundles : m \in world.bundles[b].deps

\* Whether DirectMembershipIsExact is about m.
Tracked(m) ==
    /\ \A b, c \in Bundles : world.bundles[b].name = world.bundles[c].name => b = c
    /\ \A p \in Modules : Tag(p, m) # "content"

VariantsIInv ==
    /\ VariantsType
    /\ mutator > 1 => \A b \in Bundles : ToMark(b) = {}
    /\ mutator = 2 => \A m \in visited : Deps(m) \subseteq visited
    /\ \A m \in Modules : ~ Past(3, m) => InfosOK(world, apexInfos[m], MarkedBy(m))
    /\ \A m \in Modules : Past(2, m) => Raised(m)
    /\ \A m \in Modules : Past(3, m) =>
          VariantsOK(world, Uniques, m, variants[m], aliases[m], MarkedBy(m))
    /\ \A m \in Modules : Past(3, m) /\ Tracked(m) =>
          direct[m] = IF Directly(m) THEN Variations(m) ELSE {}
    /\ \A m \in anyDirect : Past(4, m)
    /\ \A m \in Modules : Past(4, m) /\ Tracked(m) => (m \in anyDirect <=> Directly(m))

\* The mutators by number.
LEMMA AtIs ==
    ASSUME mutator \in 1 .. 5
    PROVE  /\ At("apex_info") <=> mutator = 1
           /\ At("apex_unique") <=> mutator = 2
           /\ At("apex") <=> mutator = 3
           /\ At("apex_directly_in_any") <=> mutator = 4
           /\ At("done") <=> mutator = 5
           /\ Len(Mutators) = 5
  BY SMTT(30) DEF At, Mutators

\* ApexInfo is InfoIn of the tree.
LEMMA ApexInfoIs ==
    ASSUME NEW b
    PROVE  ApexInfo(b) = InfoIn(world, b)
  BY Zenon DEF ApexInfo, InfoIn

\* A dependency on the variant for an APEX ends at the variant for it.
LEMMA ResolveIs ==
    ASSUME NEW W, WellFormed(W), NEW U, NEW d, NEW B \in SUBSET DOMAIN W.bundles,
           VariantsOK(W, U, d, variants[d], aliases[d], B), NEW b \in B
    PROVE  /\ Resolve(d, NameIn(W, b)) = VariationFor(W, U, d, b)
           /\ Resolve(d, VariationFor(W, U, d, b)) = VariationFor(W, U, d, b)
<1> DEFINE n == NameIn(W, b)
           v == VariationFor(W, U, d, b)
<1>1. /\ \A i \in variants[d] : VariantOK(W, U, d, i, B)
      /\ \E i \in variants[d] : i.name = v
      /\ v # n => n \in DOMAIN aliases[d] /\ aliases[d][n] = v
  BY Zenon DEF VariantsOK, VariantOK
<1>2. v \in Variations(d)
  BY <1>1, Zenon DEF Variations
<1>3. Resolve(d, v) = v
  BY <1>2, Zenon DEF Resolve
<1>4. CASE v # n
  <2>1. n \notin Variations(d)
    <3> SUFFICES ASSUME NEW i \in variants[d], i.name = n
                 PROVE  FALSE
      BY Zenon DEF Variations
    <3>1. n # <<>>
      BY NamesApart, Zenon DEF NameIn
    <3>2. PICK c \in B : VariationFor(W, U, d, c) = n
      BY <1>1, <3>1, SMTT(30) DEF VariantOK
    <3>3. /\ NameIn(W, c) = n
          /\ d \in U \/ InfoIn(W, c).type = "prebuilt_apex"
      BY <3>2, VariationForIs, SMTT(30)
    <3>4. InfoIn(W, b).type = InfoIn(W, c).type
      BY <3>3, SameName, Zenon
    <3>5. v = n
      BY <3>3, <3>4, InfoInIs, ZenonT(40) DEF VariationFor
    <3> QED
      BY <3>5, <1>4, Zenon
  <2>2. n \in DOMAIN aliases[d] /\ aliases[d][n] = v
    BY <1>1, <1>4, Zenon
  <2>3. Resolve(d, n) = v
    BY <2>1, <2>2, Zenon DEF Resolve
  <2> QED
    BY <1>3, <2>3, Zenon
<1> QED
  BY <1>3, <1>4, Zenon

\* Nothing is marked to begin with.
LEMMA VariantsInitially == VariantsInit => VariantsIInv
<1> SUFFICES ASSUME VariantsInit PROVE VariantsIInv
  BY Zenon
<1>1. mutator = 1 /\ anyDirect = {}
  BY Zenon DEF VariantsInit
<1>2. VariantsType
  BY SMTT(30) DEF VariantsInit, VariantsType, Bundles
<1>3. \A m \in Modules, k \in 2 .. 4 : ~ Past(k, m)
  BY <1>1, SMTT(30) DEF Past
<1>4. ASSUME NEW m \in Modules
      PROVE  InfosOK(world, apexInfos[m], MarkedBy(m))
  <2>1. apexInfos[m] = {} /\ MarkedBy(m) = {}
    BY Zenon DEF VariantsInit, MarkedBy, Bundles
  <2> QED
    BY <2>1, Zenon DEF InfosOK
<1> QED
  BY <1>1, <1>2, <1>3, <1>4, SMTT(30) DEF VariantsIInv

\* What depends on the tree and the marks alone.
LEMMA TreeStays ==
    ASSUME world' = world, marked' = marked
    PROVE  /\ Bundles' = Bundles
           /\ \A m : Deps(m)' = Deps(m) /\ MarkedBy(m)' = MarkedBy(m)
           /\ \A b : ToMark(b)' = ToMark(b)
           /\ \A m : (Directly(m)' <=> Directly(m)) /\ (Tracked(m)' <=> Tracked(m))
  BY ZenonT(40) DEF Bundles, Deps, Tag, MarkedBy, ToMark, Follows, InSameApex, Directly, Tracked

\* One call of BuildForApex.
LEMMA MarkStep ==
    ASSUME VariantsIInv, NEW b \in Bundles, NEW m \in Modules, Mark(b, m)
    PROVE  VariantsIInv'
<1>0. VariantsType /\ mutator = 1 /\ anyDirect = {}
  <2>1. VariantsType /\ mutator = 1
    BY AtIs, Zenon DEF VariantsIInv, VariantsType, Mark
  <2>2. \A x \in anyDirect : FALSE
    BY <2>1, SMTT(30) DEF VariantsIInv, Past
  <2> QED
    BY <2>1, <2>2, Zenon
<1>1. /\ world' = world /\ mutator' = mutator /\ visited' = visited
      /\ variants' = variants /\ aliases' = aliases /\ direct' = direct /\ anyDirect' = anyDirect
  BY Zenon DEF Mark
<1>2. /\ marked' = [marked EXCEPT ![b] = @ \cup {m}]
      /\ apexInfos' = [apexInfos EXCEPT ![m] = BuildForApex(@, ApexInfo(b))]
  BY Zenon DEF Mark
<1>3. Bundles' = Bundles
  BY <1>1, Zenon DEF Bundles
<1>4. VariantsType'
  BY <1>0, <1>1, <1>2, <1>3, Zenon DEF VariantsType
<1>5. \A x \in Modules, k \in 2 .. 4 : ~ Past(k, x)'
  BY <1>0, <1>1, SMTT(30) DEF Past
<1>6. ASSUME NEW x \in Modules
      PROVE  InfosOK(world, apexInfos[x], MarkedBy(x))'
  <2>0. InfosOK(world, apexInfos[x], MarkedBy(x))
    BY <1>0, SMTT(30) DEF VariantsIInv, Past
  <2>1. CASE x = m
    <3>1. MarkedBy(m)' = MarkedBy(m) \cup {b}
      BY <1>0, <1>2, <1>3, Zenon DEF MarkedBy, VariantsType
    <3>2. apexInfos'[m] = BuildForApex(apexInfos[m], InfoIn(world, b))
      BY <1>0, <1>2, ApexInfoIs, Zenon DEF VariantsType
    <3>3. WellFormed(world) /\ b \in DOMAIN world.bundles
          /\ MarkedBy(m) \in SUBSET DOMAIN world.bundles
      BY <1>0, WorldsAssumption, Zenon DEF VariantsType, Bundles, MarkedBy
    <3>4. InfosOK(world, apexInfos[m], MarkedBy(m))
      BY <2>0, <2>1, Zenon
    <3>5. InfosOK(world, BuildForApex(apexInfos[m], InfoIn(world, b)), MarkedBy(m) \cup {b})
      BY <3>3, <3>4, BuildForApexAdds, Zenon
    <3> QED
      BY <1>1, <2>1, <3>1, <3>2, <3>5, Zenon
  <2>2. CASE x # m
    <3>1. MarkedBy(x)' = MarkedBy(x)
      BY <1>0, <1>2, <1>3, <2>2, Zenon DEF MarkedBy, VariantsType
    <3>2. apexInfos'[x] = apexInfos[x]
      BY <1>0, <1>2, <2>2, Zenon DEF VariantsType
    <3> QED
      BY <1>1, <2>0, <3>1, <3>2, Zenon
  <2> QED
    BY <2>1, <2>2, Zenon
<1>7. mutator' = 1 /\ anyDirect' = {}
  BY <1>0, <1>1, Zenon
<1> QED
  BY <1>4, <1>5, <1>6, <1>7, SMTT(30) DEF VariantsIInv

\* The parts of the invariant, to be cited by name.
LEMMA InvParts ==
    ASSUME VariantsIInv
    PROVE  /\ VariantsType /\ WellFormed(world)
           /\ mutator > 1 => \A b \in Bundles : ToMark(b) = {}
           /\ mutator = 2 => \A m \in visited : Deps(m) \subseteq visited
           /\ \A m \in Modules : ~ Past(3, m) => InfosOK(world, apexInfos[m], MarkedBy(m))
           /\ \A m \in Modules : Past(2, m) => Raised(m)
           /\ \A m \in Modules : Past(3, m) =>
                VariantsOK(world, Uniques, m, variants[m], aliases[m], MarkedBy(m))
           /\ \A m \in Modules : Past(3, m) /\ Tracked(m) =>
                direct[m] = IF Directly(m) THEN Variations(m) ELSE {}
           /\ \A m \in anyDirect : Past(4, m)
           /\ \A m \in Modules : Past(4, m) /\ Tracked(m) => (m \in anyDirect <=> Directly(m))
<1>1. WellFormed(world)
  BY WorldsAssumption, Zenon DEF VariantsIInv, VariantsType
<1> QED
  BY <1>1, Zenon DEF VariantsIInv

\* After apex_info the walks are over.
LEMMA InvMarked ==
    ASSUME VariantsIInv, mutator > 1
    PROVE  \A b \in Bundles : ToMark(b) = {}
  BY InvParts, Zenon

\* The next mutator starts.
LEMMA NextMutatorStep ==
    ASSUME VariantsIInv, NextMutator
    PROVE  VariantsIInv'
<1>1. /\ world' = world /\ marked' = marked /\ apexInfos' = apexInfos
      /\ uniqueForDeps' = uniqueForDeps /\ variants' = variants /\ aliases' = aliases
      /\ direct' = direct /\ anyDirect' = anyDirect
      /\ mutator' = mutator + 1 /\ visited' = {} /\ mutator < Len(Mutators)
  BY Zenon DEF NextMutator
<1>2. VariantsType
  BY InvParts, Zenon
<1>3. mutator \in 1 .. 4 /\ (mutator > 1 => visited = Modules)
      /\ (mutator = 1 => \A b \in Bundles : ToMark(b) = {})
  BY <1>1, <1>2, AtIs, SMTT(30) DEF VariantsType, NextMutator
<1>4. VariantsType'
  BY <1>1, <1>2, <1>3, SMTT(30) DEF VariantsType, Bundles
<1>5. \A k \in 2 .. 4, m \in Modules : Past(k, m)' <=> Past(k, m)
  BY <1>1, <1>3, SMTT(30) DEF Past
<1>6. /\ Bundles' = Bundles
      /\ \A m : Deps(m)' = Deps(m) /\ MarkedBy(m)' = MarkedBy(m)
      /\ \A b : ToMark(b)' = ToMark(b)
      /\ \A m : (Directly(m)' <=> Directly(m)) /\ (Tracked(m)' <=> Tracked(m))
  BY <1>1, TreeStays, Zenon
<1>7. Uniques' = Uniques /\ \A m : Variations(m)' = Variations(m)
  BY <1>1, Zenon DEF Uniques, Variations
<1>8. \A m : Raised(m)' <=> Raised(m)
  BY <1>1, <1>6, <1>7, Zenon DEF Raised
<1>9. \A b \in Bundles' : ToMark(b)' = {}
  BY <1>3, <1>6, InvMarked, SMTT(30)
<1>10. \A m \in visited' : (Deps(m) \subseteq visited)'
  BY <1>1, Zenon
<1>11. anyDirect \subseteq Modules
  <2>1. CASE mutator \in 1 .. 3
    BY <1>2, <2>1, InvParts, SMTT(30) DEF Past, VariantsType
  <2>2. CASE mutator = 4
    BY <1>2, <2>2, InvParts, SMTT(30) DEF Past, VariantsType
  <2> QED
    BY <1>3, <2>1, <2>2, SMTT(30)
<1>12. \A m \in anyDirect' : Past(4, m)'
  BY <1>1, <1>5, <1>11, InvParts, SMTT(30)
<1>13. 2 \in 2 .. 4 /\ 3 \in 2 .. 4 /\ 4 \in 2 .. 4
  BY SMTT(30)
<1>14. \A m \in Modules : ~ Past(3, m)' => InfosOK(world, apexInfos[m], MarkedBy(m))'
  BY <1>1, <1>5, <1>6, <1>13, InvParts, Zenon
<1>15. \A m \in Modules : Past(2, m)' => Raised(m)'
  BY <1>5, <1>8, <1>13, InvParts, Zenon
<1>16. \A m \in Modules : Past(3, m)' =>
          VariantsOK(world, Uniques, m, variants[m], aliases[m], MarkedBy(m))'
  BY <1>1, <1>5, <1>6, <1>7, <1>13, InvParts, Zenon
<1>17. \A m \in Modules : Past(3, m)' /\ Tracked(m)' =>
          direct'[m] = IF Directly(m)' THEN Variations(m)' ELSE {}
  BY <1>1, <1>5, <1>6, <1>7, <1>13, InvParts, Zenon
<1>18. \A m \in Modules : Past(4, m)' /\ Tracked(m)' => (m \in anyDirect' <=> Directly(m)')
  BY <1>1, <1>5, <1>6, <1>13, InvParts, Zenon
<1> QED
  BY <1>4, <1>9, <1>10, <1>12, <1>14, <1>15, <1>16, <1>17, <1>18, Zenon DEF VariantsIInv

\* One visit of apex_unique.
LEMMA UniqueStep ==
    ASSUME VariantsIInv, NEW m \in Modules, UpdateUniqueApexVariationsForDeps(m)
    PROVE  VariantsIInv'
<1>1. /\ world' = world /\ marked' = marked /\ apexInfos' = apexInfos
      /\ variants' = variants /\ aliases' = aliases
      /\ direct' = direct /\ anyDirect' = anyDirect
      /\ mutator' = mutator /\ visited' = visited \cup {m}
      /\ m \notin visited /\ Deps(m) \subseteq visited
      /\ uniqueForDeps' = IF NeedsUnique(m) THEN uniqueForDeps \cup {m} ELSE uniqueForDeps
  BY Zenon DEF UpdateUniqueApexVariationsForDeps, Visit
<1>2. VariantsType
  BY InvParts, Zenon
<1>3. mutator = 2
  BY <1>2, AtIs, Zenon DEF VariantsType, UpdateUniqueApexVariationsForDeps, Visit
<1>4. VariantsType'
  BY <1>1, <1>2, <1>3, Zenon DEF VariantsType, Bundles
<1>5. \A x \in Modules : ~ Past(3, x) /\ ~ Past(4, x) /\ ~ Past(3, x)' /\ ~ Past(4, x)'
  BY <1>1, <1>3, SMTT(30) DEF Past
<1>6. /\ Bundles' = Bundles
      /\ \A x : Deps(x)' = Deps(x) /\ MarkedBy(x)' = MarkedBy(x)
      /\ \A b : ToMark(b)' = ToMark(b)
  BY <1>1, TreeStays, Zenon
<1>7. \A b \in Bundles' : ToMark(b)' = {}
  BY <1>3, <1>6, InvMarked, SMTT(30)
<1>8. \A x \in visited' : (Deps(x) \subseteq visited)'
  BY <1>1, <1>3, <1>6, InvParts, Zenon
<1>9. anyDirect' = {}
  <2>1. \A x \in anyDirect : FALSE
    BY <1>3, InvParts, SMTT(30) DEF Past
  <2> QED
    BY <1>1, <2>1, Zenon
<1>10. \A x \in Modules : InfosOK(world, apexInfos[x], MarkedBy(x))
  BY <1>5, InvParts, Zenon
<1>11. \A x \in Modules : InfosOK(world, apexInfos[x], MarkedBy(x))'
  BY <1>1, <1>6, <1>10, Zenon
<1>12. \A x \in Modules : \A b \in MarkedBy(x) : NameIn(world, b) \in InApexVariants(apexInfos[x])
  <2> TAKE x \in Modules
  <2> TAKE b \in MarkedBy(x)
  <2>1. PICK i \in apexInfos[x] : i.name = NameIn(world, b) /\ i.inApexVariants = {i.name}
    BY <1>10, SMTT(30) DEF InfosOK
  <2> QED
    BY <2>1, Zenon DEF InApexVariants
<1>13. ASSUME NEW x \in Modules, Past(2, x)'
       PROVE  Raised(x)'
  <2> SUFFICES ASSUME NEW d \in Deps(x), NEW b \in Bundles,
                      x \in marked[b], d \in marked[b], d \in Uniques'
               PROVE  x \in uniqueForDeps'
    BY <1>1, <1>6, Zenon DEF Raised
  <2>1. x \in visited \/ x = m
    BY <1>1, <1>3, <1>13, SMTT(30) DEF Past
  <2>2. d \in visited /\ d \in Modules
    BY <1>1, <1>3, <2>1, InvParts, Zenon DEF Deps
  <2>3. d # m /\ d \in Uniques
    BY <1>1, <2>2, Zenon DEF Uniques
  <2>4. CASE x \in visited
    <3>1. Raised(x)
      BY <1>3, <2>4, InvParts, Zenon DEF Past
    <3> QED
      BY <1>1, <2>3, <3>1, Zenon DEF Raised
  <2>5. CASE x = m
    <3>1. AnyInSameApex(apexInfos[d], apexInfos[m])
      <4>1. b \in MarkedBy(d) /\ b \in MarkedBy(m)
        BY <2>5, Zenon DEF MarkedBy
      <4> QED
        BY <1>12, <2>2, <4>1, Zenon DEF AnyInSameApex
    <3>2. NeedsUnique(m)
      BY <2>3, <2>5, <3>1, Zenon DEF NeedsUnique, Unique, Uniques
    <3> QED
      BY <1>1, <2>5, <3>2, Zenon
  <2> QED
    BY <2>1, <2>4, <2>5, Zenon
<1> QED
  BY <1>1, <1>3, <1>4, <1>5, <1>7, <1>8, <1>9, <1>11, <1>13, Zenon DEF VariantsIInv

\* One visit of apex.
LEMMA CreateStep ==
    ASSUME VariantsIInv, NEW m \in Modules, CreateApexVariations(m)
    PROVE  VariantsIInv'
<1> DEFINE infos == IF Unique(m) THEN apexInfos[m] ELSE MergeApexVariations(apexInfos[m])
           names == {i.name : i \in infos} \cup {<<>>}
<1>1. /\ world' = world /\ marked' = marked
      /\ uniqueForDeps' = uniqueForDeps /\ anyDirect' = anyDirect
      /\ mutator' = mutator /\ visited' = visited \cup {m} /\ m \notin visited
  BY Zenon DEF CreateApexVariations, Visit
<1>2. /\ variants' = [variants EXCEPT ![m] = infos \cup {Platform}]
      /\ aliases' = [aliases EXCEPT ![m] = IF Unique(m) THEN <<>> ELSE MergedAliases(apexInfos[m])]
      /\ apexInfos' = [apexInfos EXCEPT ![m] = {}]
      /\ direct' = [direct EXCEPT ![m] = IF DirectlyIn(m, infos) THEN names ELSE {}]
  BY Zenon DEF CreateApexVariations
<1> HIDE DEF infos, names
<1>3. VariantsType
  BY InvParts, Zenon
<1>4. mutator = 3
  BY <1>3, AtIs, Zenon DEF VariantsType, CreateApexVariations, Visit
<1>5. /\ \A x \in Modules : x # m => apexInfos'[x] = apexInfos[x] /\ variants'[x] = variants[x]
                                     /\ aliases'[x] = aliases[x] /\ direct'[x] = direct[x]
      /\ variants'[m] = infos \cup {Platform}
      /\ aliases'[m] = IF Unique(m) THEN <<>> ELSE MergedAliases(apexInfos[m])
      /\ direct'[m] = IF DirectlyIn(m, infos) THEN names ELSE {}
  BY <1>2, <1>3, Zenon DEF VariantsType
<1>6. VariantsType'
  BY <1>1, <1>2, <1>3, <1>4, Zenon DEF VariantsType, Bundles
<1>7. /\ \A x \in Modules : Past(3, x)' <=> Past(3, x) \/ x = m
      /\ \A x \in Modules : Past(2, x)' /\ Past(2, x)
      /\ \A x \in Modules : ~ Past(4, x) /\ ~ Past(4, x)'
      /\ ~ Past(3, m)
  BY <1>1, <1>4, SMTT(30) DEF Past
<1>8. /\ Bundles' = Bundles
      /\ \A x : Deps(x)' = Deps(x) /\ MarkedBy(x)' = MarkedBy(x)
      /\ \A b : ToMark(b)' = ToMark(b)
      /\ \A x : (Directly(x)' <=> Directly(x)) /\ (Tracked(x)' <=> Tracked(x))
  BY <1>1, TreeStays, Zenon
<1>9. \A b \in Bundles' : ToMark(b)' = {}
  BY <1>4, <1>8, InvMarked, SMTT(30)
<1>10. Uniques' = Uniques /\ (Unique(m) <=> m \in Uniques)
  BY <1>1, Zenon DEF Uniques, Unique
<1>11. anyDirect' = {}
  <2>1. \A x \in anyDirect : FALSE
    BY <1>4, InvParts, SMTT(30) DEF Past
  <2> QED
    BY <1>1, <2>1, Zenon
<1>12. \A x \in Modules : ~ Past(3, x)' => InfosOK(world, apexInfos[x], MarkedBy(x))'
  <2>1. \A x \in Modules : ~ Past(3, x)' => InfosOK(world, apexInfos[x], MarkedBy(x))
                                            /\ apexInfos'[x] = apexInfos[x]
    BY <1>5, <1>7, InvParts, Zenon
  <2> QED
    BY <1>1, <1>8, <2>1, Zenon
<1>13. \A x \in Modules : Raised(x)'
  <2>1. \A x : Raised(x)' <=> Raised(x)
    BY <1>1, <1>8, <1>10, Zenon DEF Raised
  <2> QED
    BY <1>7, <2>1, InvParts, Zenon
<1>14. InfosOK(world, apexInfos[m], MarkedBy(m))
  BY <1>7, InvParts, Zenon
<1>15. infos = IF m \in Uniques THEN apexInfos[m] ELSE MergeApexVariations(apexInfos[m])
  BY <1>10, Zenon DEF infos
<1>16. VariantsOK(world, Uniques, m, variants[m], aliases[m], MarkedBy(m))'
  <2>1. variants'[m] = NewVariants(Uniques, m, apexInfos[m])
    BY <1>5, <1>15, Zenon DEF NewVariants
  <2>2. aliases'[m] = NewAliases(Uniques, m, apexInfos[m])
    BY <1>5, <1>10, Zenon DEF NewAliases
  <2>3. VariantsOK(world, Uniques, m, NewVariants(Uniques, m, apexInfos[m]),
                   NewAliases(Uniques, m, apexInfos[m]), MarkedBy(m))
    BY <1>14, CreateOK, Zenon
  <2> QED
    BY <1>1, <1>8, <1>10, <2>1, <2>2, <2>3, Zenon
<1>17. ASSUME NEW x \in Modules, Past(3, x)'
       PROVE  VariantsOK(world, Uniques, x, variants[x], aliases[x], MarkedBy(x))'
  <2>1. CASE x = m
    BY <1>16, <2>1, Zenon
  <2>2. CASE x # m
    <3>1. VariantsOK(world, Uniques, x, variants[x], aliases[x], MarkedBy(x))
          /\ variants'[x] = variants[x] /\ aliases'[x] = aliases[x]
      BY <1>5, <1>7, <1>17, <2>2, InvParts, Zenon
    <3> QED
      BY <1>1, <1>8, <1>10, <3>1, Zenon
  <2> QED
    BY <2>1, <2>2, Zenon
<1>18. ASSUME Tracked(m)
       PROVE  direct'[m] = IF Directly(m) THEN Variations(m)' ELSE {}
  <2>1. Variations(m)' = names
    <3>1. Platform.name = <<>>
      BY PlatformIs, Zenon
    <3> QED
      BY <1>5, <3>1, Zenon DEF Variations, names
  <2>2. DistinctNames(world)
    BY <1>18, Zenon DEF Tracked, Bundles, DistinctNames
  <2>3. MarkedBy(m) \in SUBSET DOMAIN world.bundles
    BY Zenon DEF MarkedBy, Bundles
  <2>4. /\ \A i \in infos : i.contents \subseteq MarkedBy(m)
        /\ \A b \in MarkedBy(m) : \E i \in infos : b \in i.contents
    <3>1. ContentsOK(infos, MarkedBy(m))
      BY <1>14, <1>15, <2>2, <2>3, ContentsAre, Zenon
    <3> QED
      BY <3>1, Zenon DEF ContentsOK
  <2>5. DirectlyIn(m, infos) <=> Directly(m)
    <3>1. ASSUME Directly(m)
          PROVE  DirectlyIn(m, infos)
      <4>1. PICK b \in Bundles : m \in world.bundles[b].deps
        BY <3>1, Zenon DEF Directly
      <4>2. m \in marked[b]
        BY <1>4, <4>1, InvMarked, SMTT(30) DEF ToMark
      <4>3. PICK i \in infos : b \in i.contents
        BY <2>4, <4>2, Zenon DEF MarkedBy
      <4> QED
        BY <4>1, <4>3, Zenon DEF DirectlyIn
    <3>2. ASSUME DirectlyIn(m, infos)
          PROVE  Directly(m)
      BY <3>2, Zenon DEF DirectlyIn, Directly
    <3> QED
      BY <3>1, <3>2, Zenon
  <2> QED
    BY <1>5, <2>1, <2>5, Zenon
<1>19. ASSUME NEW x \in Modules, Past(3, x)', Tracked(x)'
       PROVE  direct'[x] = IF Directly(x)' THEN Variations(x)' ELSE {}
  <2>1. CASE x = m
    BY <1>8, <1>18, <1>19, <2>1, Zenon
  <2>2. CASE x # m
    <3>1. direct'[x] = direct[x] /\ variants'[x] = variants[x] /\ Past(3, x)
      BY <1>5, <1>7, <1>19, <2>2, Zenon
    <3>2. Variations(x)' = Variations(x)
      BY <3>1, Zenon DEF Variations
    <3>3. direct[x] = IF Directly(x) THEN Variations(x) ELSE {}
      BY <1>8, <1>19, <3>1, InvParts, Zenon
    <3> QED
      BY <1>8, <3>1, <3>2, <3>3, Zenon
  <2> QED
    BY <2>1, <2>2, Zenon
<1>20. mutator' = 3
  BY <1>1, <1>4, Zenon
<1> QED
  BY <1>6, <1>7, <1>9, <1>11, <1>12, <1>13, <1>17, <1>19, <1>20, Zenon DEF VariantsIInv

\* One visit of apex_directly_in_any.
LEMMA DirectStep ==
    ASSUME VariantsIInv, NEW m \in Modules, UpdateDirectlyInAnyApex(m)
    PROVE  VariantsIInv'
<1>1. /\ world' = world /\ marked' = marked /\ apexInfos' = apexInfos
      /\ variants' = variants /\ aliases' = aliases /\ uniqueForDeps' = uniqueForDeps
      /\ mutator' = mutator /\ visited' = visited \cup {m} /\ m \notin visited
      /\ anyDirect' = IF direct[m] # {} THEN anyDirect \cup {m} ELSE anyDirect
      /\ DOMAIN direct' = Modules
      /\ \A x \in Modules : Tag(m, x) # "content" => direct'[x] = direct[x]
  BY Zenon DEF UpdateDirectlyInAnyApex, Visit
<1>2. VariantsType
  BY InvParts, Zenon
<1>3. mutator = 4
  BY <1>2, AtIs, Zenon DEF VariantsType, UpdateDirectlyInAnyApex, Visit
<1>4. VariantsType'
  BY <1>1, <1>2, <1>3, Zenon DEF VariantsType, Bundles
<1>5. /\ \A x : Past(4, x)' <=> Past(4, x) \/ x = m
      /\ \A x : Past(2, x)' /\ Past(2, x) /\ Past(3, x)' /\ Past(3, x)
      /\ ~ Past(4, m) /\ mutator' = 4
  BY <1>1, <1>3, SMTT(30) DEF Past
<1>6. /\ Bundles' = Bundles
      /\ \A x : Deps(x)' = Deps(x) /\ MarkedBy(x)' = MarkedBy(x)
      /\ \A b : ToMark(b)' = ToMark(b)
      /\ \A x : (Directly(x)' <=> Directly(x)) /\ (Tracked(x)' <=> Tracked(x))
  BY <1>1, TreeStays, Zenon
<1>7. \A b \in Bundles' : ToMark(b)' = {}
  BY <1>3, <1>6, InvMarked, SMTT(30)
<1>8. Uniques' = Uniques
  BY <1>1, Zenon DEF Uniques
<1>9. \A x \in Modules : Raised(x)'
  <2>1. \A x : Raised(x)' <=> Raised(x)
    BY <1>1, <1>6, <1>8, Zenon DEF Raised
  <2> QED
    BY <1>5, <2>1, InvParts, Zenon
<1>10. \A x \in Modules : VariantsOK(world, Uniques, x, variants[x], aliases[x], MarkedBy(x))'
  <2>1. \A x \in Modules : VariantsOK(world, Uniques, x, variants[x], aliases[x], MarkedBy(x))
    BY <1>5, InvParts, Zenon
  <2> QED
    BY <1>1, <1>6, <1>8, <2>1, Zenon
<1>11. \A x : Variations(x)' = Variations(x)
  BY <1>1, Zenon DEF Variations
<1>12. \A x \in Modules : Tracked(x) => direct[x] = IF Directly(x) THEN Variations(x) ELSE {}
  BY <1>5, InvParts, Zenon
<1>13. \A x \in Modules : Tracked(x)' => direct'[x] = IF Directly(x)' THEN Variations(x)' ELSE {}
  <2>1. \A x \in Modules : Tracked(x) => direct'[x] = direct[x]
    BY <1>1, Zenon DEF Tracked
  <2> QED
    BY <1>6, <1>11, <1>12, <2>1, Zenon
<1>14. \A x \in anyDirect' : Past(4, x)'
  <2>1. \A x \in anyDirect : Past(4, x)
    BY InvParts, Zenon
  <2>2. \A x \in anyDirect' : x \in anyDirect \/ x = m
    BY <1>1, Zenon
  <2> QED
    BY <1>5, <2>1, <2>2, Zenon
<1>15. ASSUME NEW x \in Modules, Past(4, x)', Tracked(x)'
       PROVE  x \in anyDirect' <=> Directly(x)'
  <2>1. CASE x = m
    <3>1. Variations(m) # {}
      <4>1. VariantsOK(world, Uniques, m, variants[m], aliases[m], MarkedBy(m))
        BY <1>5, InvParts, Zenon
      <4>2. Platform \in variants[m]
        BY <4>1, Zenon DEF VariantsOK
      <4> QED
        BY <4>2, Zenon DEF Variations
    <3>2. m \notin anyDirect
      BY <1>5, InvParts, Zenon
    <3>3. m \in anyDirect' <=> direct[m] # {}
      BY <1>1, <3>2, Zenon
    <3>4. direct[m] = IF Directly(m) THEN Variations(m) ELSE {}
      BY <1>6, <1>12, <1>15, <2>1, Zenon
    <3> QED
      BY <1>6, <2>1, <3>1, <3>3, <3>4, Zenon
  <2>2. CASE x # m
    <3>1. x \in anyDirect' <=> x \in anyDirect
      BY <1>1, <2>2, Zenon
    <3>2. x \in anyDirect <=> Directly(x)
      BY <1>5, <1>6, <1>15, <2>2, InvParts, Zenon
    <3> QED
      BY <1>6, <3>1, <3>2, Zenon
  <2> QED
    BY <2>1, <2>2, Zenon
<1> QED
  BY <1>4, <1>5, <1>7, <1>9, <1>10, <1>13, <1>14, <1>15, Zenon DEF VariantsIInv

\* Nothing but the state that it is about matters to the invariant.
LEMMA VariantsStutter ==
    ASSUME VariantsIInv, UNCHANGED variantsVars
    PROVE  VariantsIInv'
<1>1. /\ world' = world /\ marked' = marked /\ apexInfos' = apexInfos
      /\ variants' = variants /\ aliases' = aliases /\ uniqueForDeps' = uniqueForDeps
      /\ mutator' = mutator /\ visited' = visited /\ anyDirect' = anyDirect
      /\ direct' = direct
  BY Zenon DEF variantsVars
<1>2. /\ Bundles' = Bundles
      /\ \A x : Deps(x)' = Deps(x) /\ MarkedBy(x)' = MarkedBy(x)
      /\ \A b : ToMark(b)' = ToMark(b)
      /\ \A x : (Directly(x)' <=> Directly(x)) /\ (Tracked(x)' <=> Tracked(x))
  BY <1>1, TreeStays, Zenon
<1>3. /\ \A k, x : Past(k, x)' <=> Past(k, x)
      /\ \A x : Variations(x)' = Variations(x)
      /\ Uniques' = Uniques
  BY <1>1, Zenon DEF Past, Variations, Uniques
<1>4. \A x : Raised(x)' <=> Raised(x)
  BY <1>1, <1>2, <1>3, Zenon DEF Raised
<1>5. VariantsType'
  BY <1>1, <1>2, Zenon DEF VariantsType, VariantsIInv
<1>6. /\ \A m \in Modules : ~ Past(3, m)' => InfosOK(world, apexInfos[m], MarkedBy(m))'
      /\ \A m \in Modules : Past(3, m)' =>
            VariantsOK(world, Uniques, m, variants[m], aliases[m], MarkedBy(m))'
  BY <1>1, <1>2, <1>3, InvParts, Zenon
<1>7. \A m \in Modules : Past(3, m)' /\ Tracked(m)' =>
          direct'[m] = IF Directly(m)' THEN Variations(m)' ELSE {}
  BY <1>1, <1>2, <1>3, InvParts, Zenon
<1>8. /\ \A m \in anyDirect' : Past(4, m)'
      /\ \A m \in Modules : Past(4, m)' /\ Tracked(m)' => (m \in anyDirect' <=> Directly(m)')
  BY <1>1, <1>2, <1>3, InvParts, Zenon
<1>9. /\ mutator' > 1 => \A b \in Bundles' : ToMark(b)' = {}
      /\ mutator' = 2 => \A m \in visited' : (Deps(m) \subseteq visited)'
      /\ \A m \in Modules : Past(2, m)' => Raised(m)'
  BY <1>1, <1>2, <1>3, <1>4, InvParts, Zenon
<1> QED
  BY <1>5, <1>6, <1>7, <1>8, <1>9, Zenon DEF VariantsIInv

\* The invariant is preserved by every step.
LEMMA VariantsStep ==
    ASSUME VariantsIInv, [VariantsNext]_variantsVars
    PROVE  VariantsIInv'
<1>1. CASE \E b \in Bundles, m \in Modules : Mark(b, m)
  BY <1>1, MarkStep, Zenon
<1>2. CASE NextMutator
  BY <1>2, NextMutatorStep, Zenon
<1>3. CASE \E m \in Modules : UpdateUniqueApexVariationsForDeps(m)
  BY <1>3, UniqueStep, Zenon
<1>4. CASE \E m \in Modules : CreateApexVariations(m)
  BY <1>4, CreateStep, Zenon
<1>5. CASE \E m \in Modules : UpdateDirectlyInAnyApex(m)
  BY <1>5, DirectStep, Zenon
<1>6. CASE UNCHANGED variantsVars
  BY <1>6, VariantsStutter, Zenon
<1> QED
  BY <1>1, <1>2, <1>3, <1>4, <1>5, <1>6, Zenon DEF VariantsNext

\* The invariant holds always.
LEMMA VariantsInvariant == VariantsSpec => []VariantsIInv
<1>1. VariantsInit => VariantsIInv
  BY VariantsInitially, Zenon
<1>2. VariantsIInv /\ [VariantsNext]_variantsVars => VariantsIInv'
  BY VariantsStep, Zenon
<1> QED
  BY <1>1, <1>2, PTL DEF VariantsSpec
-----------------------------------------------------------------------------
(* What it is for *)

\* What is known of the variants of m when all mutators are done.
LEMMA WhenDone ==
    ASSUME VariantsIInv, At("done")
    PROVE  /\ WellFormed(world) /\ mutator = 5
           /\ \A b \in Bundles : ToMark(b) = {}
           /\ \A m \in Modules : Raised(m)
           /\ \A m \in Modules : VariantsOK(world, Uniques, m, variants[m], aliases[m], MarkedBy(m))
<1>1. mutator \in 1 .. 5
  BY InvParts, Zenon DEF VariantsType
<1>2. mutator = 5
  BY <1>1, AtIs, Zenon
<1>3. \A m : Past(2, m) /\ Past(3, m)
  BY <1>2, SMTT(30) DEF Past
<1> QED
  BY <1>2, <1>3, InvParts, SMTT(30)

\* The variant that a dependency in a common APEX is resolved to.
LEMMA VariantFor ==
    ASSUME VariantsIInv, At("done"), NEW d \in Modules, NEW b \in MarkedBy(d), NEW v,
           Resolve(d, v) = VariationFor(world, Uniques, d, b)
    PROVE  LET to == Variant(d, Resolve(d, v))
           IN  /\ b \in to.inApexModules
               /\ to.minSdkVersion = InfoIn(world, b).minSdkVersion
               /\ to.apis = InfoIn(world, b).apis
               /\ d \in Uniques => to.inApexVariants = {to.name}
<1> DEFINE w == VariationFor(world, Uniques, d, b)
           to == Variant(d, w)
<1>1. VariantsOK(world, Uniques, d, variants[d], aliases[d], MarkedBy(d))
  BY WhenDone, Zenon
<1>2. \E i \in variants[d] : i.name = w
  BY <1>1, Zenon DEF VariantsOK
<1> HIDE DEF w
<1>3. to \in variants[d] /\ to.name = w
  BY <1>2, Zenon DEF Variant
<1> HIDE DEF to
<1>4. /\ to.inApexModules = {c \in MarkedBy(d) : VariationFor(world, Uniques, d, c) = to.name}
      /\ \A c \in to.inApexModules : /\ to.minSdkVersion = InfoIn(world, c).minSdkVersion
                                     /\ to.apis = InfoIn(world, c).apis
      /\ d \in Uniques /\ to.inApexModules # {} => to.inApexVariants = {to.name}
  BY <1>1, <1>3, Zenon DEF VariantsOK
<1>5. b \in to.inApexModules
  BY <1>3, <1>4, Zenon DEF w
<1>6. d \in Uniques => to.inApexVariants = {to.name}
  BY <1>4, <1>5, Zenon
<1> QED
  BY <1>4, <1>5, <1>6, Zenon DEF to, w

(***************************************************************************)
(* The variants that createApexVariations leaves link within their APEXes, *)
(* for all trees and in all orders of the walks and visits.                *)
(***************************************************************************)
THEOREM VariantsLinkWithinApex == VariantsSpec => []LinksWithinApex
<1>1. ASSUME VariantsIInv
      PROVE  LinksWithinApex
  <2> SUFFICES ASSUME At("done"), NEW m \in Modules, NEW d \in Deps(m), NEW i \in variants[m],
                      NEW b \in i.inApexModules, Follows(b, m, d)
               PROVE  LET to == Variant(d, Resolve(d, i.name))
                      IN  /\ b \in to.inApexModules
                          /\ to.minSdkVersion = i.minSdkVersion /\ to.apis = i.apis
                          /\ d \in world.unique => to.inApexVariants = {to.name}
    BY Zenon DEF LinksWithinApex
  <2>1. /\ WellFormed(world) /\ \A c \in Bundles : ToMark(c) = {}
        /\ Raised(m) /\ d \in Modules
        /\ VariantsOK(world, Uniques, m, variants[m], aliases[m], MarkedBy(m))
        /\ VariantsOK(world, Uniques, d, variants[d], aliases[d], MarkedBy(d))
    BY <1>1, WhenDone, ZenonT(40) DEF Deps
  <2>2. /\ b \in MarkedBy(m) /\ VariationFor(world, Uniques, m, b) = i.name
        /\ i.minSdkVersion = InfoIn(world, b).minSdkVersion
        /\ i.apis = InfoIn(world, b).apis
    BY <2>1, SMTT(30) DEF VariantsOK
  <2>3. b \in Bundles /\ m \in marked[b]
    BY <2>2, Zenon DEF MarkedBy
  <2>4. d \in marked[b] /\ b \in MarkedBy(d)
    BY <2>1, <2>3, Zenon DEF ToMark, MarkedBy
  <2>5. MarkedBy(d) \in SUBSET DOMAIN world.bundles
    BY Zenon DEF MarkedBy, Bundles
  <2>6. /\ Resolve(d, NameIn(world, b)) = VariationFor(world, Uniques, d, b)
        /\ Resolve(d, VariationFor(world, Uniques, d, b)) = VariationFor(world, Uniques, d, b)
    BY <2>1, <2>4, <2>5, ResolveIs, Zenon
  <2>7. Resolve(d, i.name) = VariationFor(world, Uniques, d, b)
    <3>1. CASE i.name = NameIn(world, b)
      BY <2>6, <3>1, Zenon
    <3>2. CASE i.name # NameIn(world, b)
      <4>1. m \notin Uniques
        BY <2>2, <3>2, Zenon DEF VariationFor
      <4>2. d \notin Uniques
        BY <2>1, <2>3, <2>4, <4>1, Zenon DEF Raised, Uniques
      <4>3. VariationFor(world, Uniques, d, b) = VariationFor(world, Uniques, m, b)
        BY <4>1, <4>2, ZenonT(40) DEF VariationFor
      <4> QED
        BY <2>2, <2>6, <4>3, Zenon
    <3> QED
      BY <3>1, <3>2, Zenon
  <2>8. /\ b \in Variant(d, Resolve(d, i.name)).inApexModules
        /\ Variant(d, Resolve(d, i.name)).minSdkVersion = InfoIn(world, b).minSdkVersion
        /\ Variant(d, Resolve(d, i.name)).apis = InfoIn(world, b).apis
        /\ d \in Uniques => Variant(d, Resolve(d, i.name)).inApexVariants
                            = {Variant(d, Resolve(d, i.name)).name}
    BY <1>1, <2>1, <2>4, <2>7, VariantFor, SMTT(30)
  <2> QED
    BY <2>2, <2>8, Zenon DEF Uniques
<1> QED
  BY <1>1, VariantsInvariant, PTL

(***************************************************************************)
(* BuildForApex and mergeApexVariations lose no APEX, for all trees and in *)
(* all orders of the walks and visits.                                     *)
(***************************************************************************)
THEOREM ApexesAreKept == VariantsSpec => []NoApexLost
<1>1. ASSUME VariantsIInv
      PROVE  NoApexLost
  <2> SUFFICES ASSUME At("done"), NEW b \in Bundles, NEW m \in Modules
               PROVE  {v \in Variations(m) : \E i \in variants[m] : i.name = v /\ b \in i.inApexModules} =
                          IF m \in marked[b] THEN {Resolve(m, <<world.bundles[b].name>>)} ELSE {}
    BY Zenon DEF NoApexLost
  <2>1. WellFormed(world) /\ VariantsOK(world, Uniques, m, variants[m], aliases[m], MarkedBy(m))
    BY <1>1, WhenDone, ZenonT(40)
  <2>2. \A i \in variants[m] : b \in i.inApexModules <=>
            m \in marked[b] /\ VariationFor(world, Uniques, m, b) = i.name
    BY <2>1, SMTT(30) DEF VariantsOK, MarkedBy
  <2>3. CASE m \in marked[b]
    <3>1. b \in MarkedBy(m) /\ MarkedBy(m) \in SUBSET DOMAIN world.bundles
      BY <2>3, Zenon DEF MarkedBy, Bundles
    <3>2. Resolve(m, NameIn(world, b)) = VariationFor(world, Uniques, m, b)
      BY <2>1, <3>1, ResolveIs, Zenon
    <3>3. PICK i \in variants[m] : i.name = VariationFor(world, Uniques, m, b)
      BY <2>1, <3>1, Zenon DEF VariantsOK
    <3>4. i.name \in Variations(m) /\ b \in i.inApexModules
      BY <2>2, <2>3, <3>3, Zenon DEF Variations
    <3> QED
      BY <2>2, <2>3, <3>2, <3>3, <3>4, Zenon DEF NameIn
  <2>4. CASE m \notin marked[b]
    BY <2>2, <2>4, Zenon
  <2> QED
    BY <2>3, <2>4, Zenon
<1> QED
  BY <1>1, VariantsInvariant, PTL

(***************************************************************************)
(* UpdateDirectlyInAnyApex is exact, for all trees with distinct names.    *)
(***************************************************************************)
THEOREM DirectIsExact == VariantsSpec => []DirectMembershipIsExact
<1>1. ASSUME VariantsIInv
      PROVE  DirectMembershipIsExact
  <2> SUFFICES ASSUME At("done"), NEW m \in Modules,
                      \A b, c \in Bundles : world.bundles[b].name = world.bundles[c].name => b = c,
                      \A p \in Modules : Tag(p, m) # "content"
               PROVE  /\ direct[m] = IF Directly(m) THEN Variations(m) ELSE {}
                      /\ m \in anyDirect <=> Directly(m)
    BY Zenon DEF DirectMembershipIsExact, Directly
  <2>1. Past(3, m) /\ Past(4, m)
    BY <1>1, WhenDone, SMTT(30) DEF Past
  <2>2. Tracked(m)
    BY Zenon DEF Tracked
  <2> QED
    BY <1>1, <2>1, <2>2, InvParts, Zenon
<1> QED
  BY <1>1, VariantsInvariant, PTL
=============================================================================
