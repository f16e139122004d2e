--------------------------- MODULE RateLimitProofs ---------------------------
(***************************************************************************)
(* The limiter keeps its promise for every capacity, every set of jobs and *)
(* all sizes.                                                              *)
(***************************************************************************)
EXTENDS RateLimit, FiniteSetTheorems, TLAPS

\* currentRequest holds the job whose request the monitor has and has not
\* accepted, and there is at most one.
QueuedIn(pending, jobs) ==
    /\ pending = {j \in Jobs : jobs[j] = "received"}
    /\ \A j, k \in pending : j = k

\* What one pass of the monitor's loop must keep.
Balanced(used, pending, jobs) ==
    /\ jobs \in [Jobs -> Phases]
    /\ QueuedIn(pending, jobs)
    /\ IsFiniteSet(Units(HoldersIn(jobs)))
    /\ used = Cardinality(Units(HoldersIn(jobs)))
    /\ WithinCapacity(HoldersIn(jobs))

\* The inductive invariant.
IInv ==
    /\ TypeOK
    /\ monitor # "panicked"
    /\ Balanced(usedCapacity, currentRequest, job)

-----------------------------------------------------------------------------
\* Letting one more job in adds its size to the units in use.
LEMMA UnitsAdd ==
    ASSUME NEW H \in SUBSET Jobs, NEW j \in Jobs \ H, IsFiniteSet(Units(H))
    PROVE  /\ IsFiniteSet(Units(H \cup {j}))
           /\ Cardinality(Units(H \cup {j})) = Cardinality(Units(H)) + Size[j]
<1> DEFINE own == {j} \X (1 .. Size[j])
<1>1. Size[j] \in Nat
  BY SizeAssumption, Zenon
<1>2. IsFiniteSet({j}) /\ Cardinality({j}) = 1
  BY FS_Singleton, Zenon
<1>3. IsFiniteSet(1 .. Size[j]) /\ Cardinality(1 .. Size[j]) = Size[j]
  <2>1. 1 \in Int /\ Size[j] \in Int /\ (IF 1 > Size[j] THEN 0 ELSE Size[j] - 1 + 1) = Size[j]
    BY <1>1, SMTT(30)
  <2>2. /\ IsFiniteSet(1 .. Size[j])
        /\ Cardinality(1 .. Size[j]) = IF 1 > Size[j] THEN 0 ELSE Size[j] - 1 + 1
    BY ONLY <2>1, FS_Interval, Zenon
  <2> QED
    BY <2>1, <2>2, SMTT(30)
<1>4. IsFiniteSet(own) /\ Cardinality(own) = Size[j]
  <2>1. IsFiniteSet(own) /\ Cardinality(own) = Cardinality({j}) * Cardinality(1 .. Size[j])
    BY <1>2, <1>3, FS_Product, Zenon
  <2> QED
    BY <1>1, <1>2, <1>3, <2>1, SMTT(30)
<1>5. Units(H \cup {j}) = Units(H) \cup own
  BY Zenon DEF Units
<1>6. Units(H) \cap own = {}
  BY SMTT(30) DEF Units
<1>7. Cardinality(Units(H)) \in Nat
  BY FS_CardinalityType, Zenon
<1>8. /\ IsFiniteSet(Units(H) \cup own)
      /\ Cardinality(Units(H) \cup own)
            = Cardinality(Units(H)) + Cardinality(own) - Cardinality(Units(H) \cap own)
  BY <1>4, FS_Union, Zenon
<1>9. Cardinality(Units(H) \cap own) = 0
  BY <1>6, FS_EmptySet, Zenon
<1>10. Cardinality(Units(H) \cup own) = Cardinality(Units(H)) + Size[j]
  BY <1>1, <1>4, <1>7, <1>8, <1>9, SMTT(30)
<1> QED
  BY <1>5, <1>8, <1>10, Zenon

\* A job that finishes takes exactly its size out of the units in use.
LEMMA UnitsRemove ==
    ASSUME NEW H \in SUBSET Jobs, NEW j \in H, IsFiniteSet(Units(H))
    PROVE  /\ IsFiniteSet(Units(H \ {j}))
           /\ Cardinality(Units(H \ {j})) \in Nat
           /\ Cardinality(Units(H)) = Cardinality(Units(H \ {j})) + Size[j]
<1>1. Units(H \ {j}) \in SUBSET Units(H)
  BY Zenon DEF Units
<1>2. IsFiniteSet(Units(H \ {j}))
  BY <1>1, FS_Subset, Zenon
<1>3. H = (H \ {j}) \cup {j}
  BY Zenon
<1>4. H \ {j} \in SUBSET Jobs /\ j \in Jobs \ (H \ {j})
  BY Zenon
<1>5. Cardinality(Units((H \ {j}) \cup {j})) = Cardinality(Units(H \ {j})) + Size[j]
  BY <1>2, <1>4, UnitsAdd, Zenon
<1>6. Cardinality(Units(H \ {j})) \in Nat
  BY <1>2, FS_CardinalityType, Zenon
<1> QED
  BY <1>2, <1>3, <1>5, <1>6, Zenon

\* Nothing is in use exactly when every holder has size zero.
LEMMA UnitsZero ==
    ASSUME NEW H \in SUBSET Jobs, IsFiniteSet(Units(H))
    PROVE  Cardinality(Units(H)) = 0 <=> \A k \in H : Size[k] = 0
<1>1. Cardinality(Units(H)) = 0 <=> Units(H) = {}
  BY FS_EmptySet, Zenon
<1>2. ASSUME Units(H) = {}, NEW k \in H
      PROVE  Size[k] = 0
  <2>1. Size[k] \in Nat
    BY SizeAssumption, Zenon
  <2>2. ASSUME Size[k] # 0 PROVE FALSE
    <3>1. 1 \in 1 .. Size[k]
      BY <2>1, <2>2, SMTT(30)
    <3>2. <<k, 1>> \in Units(H)
      BY <3>1, SMTT(30) DEF Units
    <3> QED
      BY <1>2, <3>2, Zenon
  <2> QED
    BY <2>2, Zenon
<1>3. ASSUME \A k \in H : Size[k] = 0
      PROVE  Units(H) = {}
  <2>1. \A k \in H : 1 .. Size[k] = {}
    BY <1>3, SMTT(30)
  <2> QED
    BY <2>1, Zenon DEF Units
<1> QED
  BY <1>1, <1>2, <1>3, Zenon

\* The tail of the loop keeps the balance, whichever way it decides.
LEMMA SettleKeepsBalance ==
    ASSUME NEW used, NEW pending, NEW jobs,
           Balanced(used, pending, jobs), Settle(used, pending, jobs)
    PROVE  Balanced(usedCapacity', currentRequest', job')
<1> DEFINE H == HoldersIn(jobs)
<1>1. H \in SUBSET Jobs /\ pending \in SUBSET Jobs
  BY Zenon DEF HoldersIn, Balanced, QueuedIn
<1>2. CASE \E j \in pending :
              /\ Accepts(used, Size[j])
              /\ usedCapacity' = used + Size[j]
              /\ job' = [jobs EXCEPT ![j] = "serviced"]
              /\ currentRequest' = {}
  <2>1. PICK j \in pending :
              /\ Accepts(used, Size[j])
              /\ usedCapacity' = used + Size[j]
              /\ job' = [jobs EXCEPT ![j] = "serviced"]
              /\ currentRequest' = {}
    BY <1>2, Zenon
  <2>2. j \in Jobs /\ jobs[j] = "received" /\ j \notin H
    BY Zenon DEF Balanced, QueuedIn, HoldersIn
  <2>3. HoldersIn(job') = H \cup {j}
    BY <2>1, <2>2, Zenon DEF HoldersIn, Balanced
  <2>4. /\ IsFiniteSet(Units(H \cup {j}))
        /\ Cardinality(Units(H \cup {j})) = used + Size[j]
    BY <1>1, <2>2, UnitsAdd, Zenon DEF Balanced
  <2>5. job' \in [Jobs -> Phases]
    BY <2>1, <2>2, Zenon DEF Balanced, Phases
  <2>6. QueuedIn(currentRequest', job')
    BY <2>1, <2>2, Zenon DEF Balanced, QueuedIn
  <2>7. WithinCapacity(H \cup {j})
    <3>1. CASE used = 0
      <4>1. \A k \in H : Size[k] = 0
        BY <1>1, <3>1, UnitsZero, Zenon DEF Balanced
      <4> QED
        BY <4>1, Zenon DEF WithinCapacity
    <3>2. CASE Capacity >= used + Size[j]
      BY <2>4, <3>2, CapacityAssumption, Zenon DEF WithinCapacity
    <3> QED
      BY <2>1, <3>1, <3>2, Zenon DEF Accepts
  <2> QED
    BY <2>1, <2>3, <2>4, <2>5, <2>6, <2>7, Zenon DEF Balanced
<1>3. CASE /\ usedCapacity' = used
           /\ job' = jobs
           /\ currentRequest' = pending
  BY <1>3, Zenon DEF Balanced
<1> QED
  BY <1>2, <1>3, Zenon DEF Settle

\* A completion leaves the balance of the remaining holders, and can never
\* drive usedCapacity below zero.
LEMMA CompletionKeepsBalance ==
    ASSUME IInv, NEW j \in Jobs, job[j] = "finishing"
    PROVE  /\ usedCapacity - Size[j] \in Nat
           /\ Balanced(usedCapacity - Size[j], currentRequest,
                       [job EXCEPT ![j] = "done"])
<1> DEFINE jobs == [job EXCEPT ![j] = "done"]
           H == Holders
<1>1. H \in SUBSET Jobs /\ j \in H
  BY Zenon DEF Holders, HoldersIn
<1>2. jobs \in [Jobs -> Phases]
  BY Zenon DEF IInv, TypeOK, Phases
<1>3. HoldersIn(jobs) = H \ {j}
  BY Zenon DEF Holders, HoldersIn, IInv, TypeOK
<1>4. /\ IsFiniteSet(Units(H \ {j}))
      /\ Cardinality(Units(H \ {j})) \in Nat
      /\ usedCapacity = Cardinality(Units(H \ {j})) + Size[j]
  BY <1>1, UnitsRemove, Zenon DEF IInv, Balanced, Holders
<1>5. usedCapacity - Size[j] = Cardinality(Units(H \ {j}))
  <2>1. Size[j] \in Nat
    BY SizeAssumption, Zenon
  <2> QED
    BY <1>4, <2>1, SMTT(30)
<1>6. QueuedIn(currentRequest, jobs)
  BY Zenon DEF IInv, TypeOK, Balanced, QueuedIn
<1>7. WithinCapacity(H \ {j})
  <2>1. CASE Cardinality(Units(H)) <= Capacity
    <3>1. Cardinality(Units(H)) = Cardinality(Units(H \ {j})) + Size[j]
      BY <1>1, UnitsRemove, Zenon DEF IInv, Balanced, Holders
    <3>2. Cardinality(Units(H \ {j})) <= Capacity
      BY <1>4, <2>1, <3>1, SizeAssumption, CapacityAssumption, SMTT(30)
    <3> QED
      BY <3>2, Zenon DEF WithinCapacity
  <2>2. ASSUME NEW h \in H, \A k \in H \ {h} : Size[k] = 0
        PROVE  WithinCapacity(H \ {j})
    <3>1. CASE h = j
      <4>1. H \ {j} \in SUBSET Jobs
        BY <1>1, Zenon
      <4>2. Cardinality(Units(H \ {j})) = 0
        BY <1>4, <2>2, <3>1, <4>1, UnitsZero, Zenon
      <4> QED
        BY <4>2, CapacityAssumption, SMTT(30) DEF WithinCapacity
    <3>2. CASE h # j
      BY <2>2, <3>2, Zenon DEF WithinCapacity
    <3> QED
      BY <3>1, <3>2, Zenon
  <2> QED
    BY <2>1, <2>2, Zenon DEF IInv, Balanced, Holders, WithinCapacity
<1> QED
  BY <1>2, <1>3, <1>4, <1>5, <1>6, <1>7, Zenon DEF Balanced
-----------------------------------------------------------------------------
\* A step that only moves one job between phases with the same holders and
\* the same queue keeps the balance.
LEMMA ClientStepKeepsBalance ==
    ASSUME IInv, NEW j \in Jobs, NEW from \in Phases, NEW to \in Phases,
           job[j] = from,
           from # "received", to # "received",
           from \in {"serviced", "executing", "finishing"}
               <=> to \in {"serviced", "executing", "finishing"}
    PROVE  Balanced(usedCapacity, currentRequest, [job EXCEPT ![j] = to])
<1>1. HoldersIn([job EXCEPT ![j] = to]) = HoldersIn(job)
  BY Zenon DEF HoldersIn, IInv, TypeOK
<1>2. QueuedIn(currentRequest, [job EXCEPT ![j] = to])
  BY Zenon DEF IInv, TypeOK, Balanced, QueuedIn
<1>3. [job EXCEPT ![j] = to] \in [Jobs -> Phases]
  BY Zenon DEF IInv, TypeOK
<1> QED
  BY <1>1, <1>2, <1>3, Zenon DEF IInv, Balanced

\* The balance fixes the types: the monitor's count is never negative.
LEMMA BalancedTypes ==
    ASSUME Balanced(usedCapacity, currentRequest, job)
    PROVE  /\ job \in [Jobs -> Phases]
           /\ usedCapacity \in Nat
           /\ currentRequest \subseteq Jobs
<1>1. Cardinality(Units(HoldersIn(job))) \in Nat
  BY FS_CardinalityType, Zenon DEF Balanced
<1> QED
  BY <1>1, Zenon DEF Balanced, QueuedIn

\* IInv holds when NewRateLimit has started the monitor.
LEMMA InitIInv == Init => IInv
<1> SUFFICES ASSUME Init PROVE IInv
  BY Zenon
<1>1. HoldersIn(job) = {}
  BY Zenon DEF Init, HoldersIn
<1>2. Units({}) = {}
  BY Zenon DEF Units
<1>3. IsFiniteSet({}) /\ Cardinality({}) = 0
  BY FS_EmptySet, Zenon
<1>4. WithinCapacity({})
  BY <1>2, <1>3, CapacityAssumption, SMTT(30) DEF WithinCapacity
<1>5. job \in [Jobs -> Phases]
  BY Zenon DEF Init, Phases
<1>6. QueuedIn(currentRequest, job)
  BY Zenon DEF Init, QueuedIn
<1>7. Balanced(usedCapacity, currentRequest, job)
  BY <1>1, <1>2, <1>3, <1>4, <1>5, <1>6, Zenon DEF Init, Balanced
<1>8. TypeOK
  <2>1. stop \in BOOLEAN
    BY Zenon DEF Init
  <2> QED
    BY <1>5, <2>1, Zenon DEF Init, TypeOK
<1> QED
  BY <1>7, <1>8, Zenon DEF IInv, Init

\* Every step of the clients, the monitor and the owner preserves IInv.
LEMMA NextIInv == IInv /\ [Next]_vars => IInv'
<1> SUFFICES ASSUME IInv, [Next]_vars PROVE IInv'
  BY Zenon
<1>1. ASSUME Balanced(usedCapacity', currentRequest', job'),
             stop' \in BOOLEAN, monitor' \in {"running", "returned"}
      PROVE  IInv'
  <2>1. Balanced(usedCapacity, currentRequest, job)'
    BY <1>1, Zenon DEF Balanced, QueuedIn, HoldersIn, Units, WithinCapacity
  <2>2. (job \in [Jobs -> Phases] /\ usedCapacity \in Nat /\ currentRequest \subseteq Jobs)'
    <3>1. (Balanced(usedCapacity, currentRequest, job) =>
             job \in [Jobs -> Phases] /\ usedCapacity \in Nat /\ currentRequest \subseteq Jobs)'
      BY BalancedTypes, PTL
    <3> QED
      BY <2>1, <3>1, Zenon
  <2> QED
    BY <1>1, <2>1, <2>2, Zenon DEF IInv, TypeOK
<1>2. stop \in BOOLEAN /\ monitor \in {"running", "returned"}
  BY Zenon DEF IInv, TypeOK
<1>3. ASSUME NEW j \in Jobs, Request(j) PROVE IInv'
  <2>1. Balanced(usedCapacity, currentRequest, [job EXCEPT ![j] = "sending"])
    BY <1>3, ClientStepKeepsBalance, Zenon DEF Request, Phases
  <2> QED
    BY <1>1, <1>2, <1>3, <2>1, Zenon DEF Request
<1>4. ASSUME NEW j \in Jobs, ReceiveRequest(j) PROVE IInv'
  <2> DEFINE jobs == [job EXCEPT ![j] = "received"]
  <2>1. HoldersIn(jobs) = HoldersIn(job)
    BY <1>4, Zenon DEF ReceiveRequest, HoldersIn, IInv, TypeOK
  <2>2. QueuedIn({j}, jobs)
    BY <1>4, Zenon DEF ReceiveRequest, IInv, TypeOK, Balanced, QueuedIn
  <2>3. jobs \in [Jobs -> Phases]
    BY Zenon DEF IInv, TypeOK, Phases
  <2>4. Balanced(usedCapacity, {j}, jobs)
    BY <2>1, <2>2, <2>3, Zenon DEF IInv, Balanced
  <2>5. Balanced(usedCapacity', currentRequest', job')
    BY <1>4, <2>4, SettleKeepsBalance, Zenon DEF ReceiveRequest
  <2> QED
    BY <1>1, <1>2, <1>4, <2>5, Zenon DEF ReceiveRequest
<1>5. ASSUME NEW j \in Jobs, Serviced(j) PROVE IInv'
  <2>1. Balanced(usedCapacity, currentRequest, [job EXCEPT ![j] = "executing"])
    BY <1>5, ClientStepKeepsBalance, Zenon DEF Serviced, Phases
  <2> QED
    BY <1>1, <1>2, <1>5, <2>1, Zenon DEF Serviced
<1>6. ASSUME NEW j \in Jobs, Finish(j) PROVE IInv'
  <2>1. Balanced(usedCapacity, currentRequest, [job EXCEPT ![j] = "finishing"])
    BY <1>6, ClientStepKeepsBalance, Zenon DEF Finish, Phases
  <2> QED
    BY <1>1, <1>2, <1>6, <2>1, Zenon DEF Finish
<1>7. ASSUME NEW j \in Jobs, ReceiveCompletion(j) PROVE IInv'
  <2>1. /\ usedCapacity - Size[j] \in Nat
        /\ Balanced(usedCapacity - Size[j], currentRequest, [job EXCEPT ![j] = "done"])
    BY <1>7, CompletionKeepsBalance, Zenon DEF ReceiveCompletion
  <2>2. ~ (usedCapacity - Size[j] < 0)
    BY <2>1, SMTT(30)
  <2>3. /\ Settle(usedCapacity - Size[j], currentRequest, [job EXCEPT ![j] = "done"])
        /\ UNCHANGED <<monitor, stop>>
    BY <1>7, <2>2, Zenon DEF ReceiveCompletion
  <2>4. Balanced(usedCapacity', currentRequest', job')
    BY <2>1, <2>3, SettleKeepsBalance, Zenon
  <2> QED
    BY <1>1, <1>2, <2>3, <2>4, Zenon
<1>8. ASSUME UNCHANGED <<job, usedCapacity, currentRequest>>,
             stop' \in BOOLEAN, monitor' \in {"running", "returned"}
      PROVE  IInv'
  BY <1>1, <1>8, Zenon DEF IInv
<1>9. CASE Stop
  BY <1>2, <1>8, <1>9, Zenon DEF Stop
<1>10. CASE MonitorReturn
  BY <1>2, <1>8, <1>10, Zenon DEF MonitorReturn
<1>11. CASE UNCHANGED vars
  BY <1>2, <1>8, <1>11, Zenon DEF vars
<1> QED
  BY <1>3, <1>4, <1>5, <1>6, <1>7, <1>9, <1>10, <1>11, Zenon DEF Next, JobStep

-----------------------------------------------------------------------------
(* What a client of the limiter can rely on *)

\* The monitor never takes away what a client holds.
LEMMA MonitorKeepsExecuting ==
    ASSUME IInv, NEW k \in Jobs, ReceiveRequest(k) \/ ReceiveCompletion(k),
           NEW j \in Jobs, job[j] = "executing"
    PROVE  job'[j] = "executing"
<1>1. job \in [Jobs -> Phases] /\ j \notin currentRequest
  BY Zenon DEF IInv, Balanced, QueuedIn
<1>2. CASE ReceiveRequest(k)
  <2>1. k # j
    BY <1>2, Zenon DEF ReceiveRequest
  <2> QED
    BY <1>1, <1>2, <2>1, SMTT(30) DEF ReceiveRequest, Settle
<1>3. CASE ReceiveCompletion(k)
  <2>1. k # j
    BY <1>3, Zenon DEF ReceiveCompletion
  <2> QED
    BY <1>1, <1>3, <2>1, Zenon DEF ReceiveCompletion, Settle
<1> QED
  BY <1>2, <1>3, Zenon

\* Some of the holders are within the capacity too.
LEMMA SomeWithinCapacity ==
    ASSUME IInv, NEW H \in SUBSET Holders
    PROVE  WithinCapacity(H)
<1>1. Units(H) \in SUBSET Units(Holders)
  BY Zenon DEF Units
<1>2. IsFiniteSet(Units(Holders)) /\ WithinCapacity(Holders)
  BY Zenon DEF IInv, Balanced, Holders
<1>3. /\ IsFiniteSet(Units(H)) /\ Cardinality(Units(H)) <= Cardinality(Units(Holders))
      /\ Cardinality(Units(H)) \in Nat /\ Cardinality(Units(Holders)) \in Nat
  BY <1>1, <1>2, FS_Subset, FS_CardinalityType, Zenon
<1>4. CASE Cardinality(Units(Holders)) <= Capacity
  <2>1. Cardinality(Units(H)) <= Capacity
    BY <1>3, <1>4, CapacityAssumption, SMTT(30)
  <2> QED
    BY <2>1, Zenon DEF WithinCapacity
<1>5. ASSUME NEW h \in Holders, \A k \in Holders \ {h} : Size[k] = 0
      PROVE  WithinCapacity(H)
  <2>1. CASE h \in H
    BY <1>5, <2>1, Zenon DEF WithinCapacity
  <2>2. CASE h \notin H
    <3>1. H \in SUBSET Jobs /\ \A k \in H : Size[k] = 0
      BY <1>5, <2>2, Zenon DEF Holders, HoldersIn
    <3>2. Cardinality(Units(H)) = 0
      BY <1>3, <3>1, UnitsZero, Zenon
    <3> QED
      BY <3>2, CapacityAssumption, SMTT(30) DEF WithinCapacity
  <2> QED
    BY <2>1, <2>2, Zenon
<1> QED
  BY <1>2, <1>4, <1>5, Zenon DEF WithinCapacity

\* When all sizes are one, as for CPUs, the capacity is a number of jobs.
LEMMA CapacityCountsJobs ==
    ASSUME IInv, \A j \in Jobs : Size[j] = 1, NEW H \in SUBSET Holders
    PROVE  Cardinality(H) <= Capacity
<1>1. H \in SUBSET Jobs /\ Holders \in SUBSET Jobs
  BY Zenon DEF Holders, HoldersIn
<1>2. IsFiniteSet(Units(Holders)) /\ WithinCapacity(Holders)
  BY Zenon DEF IInv, Balanced, Holders
<1> DEFINE f == [j \in H |-> <<j, 1>>]
<1>3. \A j \in H : <<j, 1>> \in Units(Holders)
  <2>1. \A j \in H : 1 \in 1 .. Size[j]
    BY <1>1, SMTT(30)
  <2> QED
    BY <2>1, SMTT(30) DEF Units
<1>4. f \in Injection(H, Units(Holders))
  BY <1>3, Zenon DEF Injection, IsInjective
<1>5. IsFiniteSet(H) /\ Cardinality(H) <= Cardinality(Units(Holders))
  BY <1>2, <1>4, FS_Injection, Zenon
<1>6. Cardinality(H) \in Nat /\ Cardinality(Units(Holders)) \in Nat
  BY <1>2, <1>5, FS_CardinalityType, Zenon
<1>7. CASE Cardinality(Units(Holders)) <= Capacity
  BY <1>5, <1>6, <1>7, CapacityAssumption, SMTT(30)
<1>8. ASSUME NEW h \in Holders, \A k \in Holders \ {h} : Size[k] = 0
      PROVE  Cardinality(H) <= Capacity
  <2>1. H \in SUBSET {h}
    BY <1>1, <1>8, SMTT(30)
  <2>2. IsFiniteSet({h}) /\ Cardinality({h}) = 1
    BY FS_Singleton, Zenon
  <2>3. Cardinality(H) <= 1
    BY <2>1, <2>2, FS_Subset, Zenon
  <2> QED
    BY <1>6, <2>3, CapacityAssumption, SMTT(30)
<1> QED
  BY <1>2, <1>7, <1>8, Zenon DEF WithinCapacity
-----------------------------------------------------------------------------
\* The inductive invariant gives each property the runs check.
LEMMA IInvImplies == IInv => TypeOK /\ ExactAccounting /\ CapacityRespected
  BY Zenon DEF IInv, Balanced, ExactAccounting, CapacityRespected, Holders

\* The inductive invariant holds throughout.
THEOREM RateLimitIInv == Spec => []IInv
  BY InitIInv, NextIInv, PTL DEF Spec

\* The limiter's variables keep their types.
THEOREM RateLimitTypeCorrect == Spec => []TypeOK
  BY RateLimitIInv, IInvImplies, PTL

\* usedCapacity is what the accepted, unfinished jobs hold, so the panic of
\* monitorChannels is unreachable, for all sizes and capacities.
THEOREM RateLimitExactAccounting == Spec => []ExactAccounting
  BY RateLimitIInv, IInvImplies, PTL

\* The promise of NewRateLimit: at most the capacity at once, or a single
\* job that was let in when nothing was in use.
THEOREM RateLimitCapacityRespected == Spec => []CapacityRespected
  BY RateLimitIInv, IInvImplies, PTL
=============================================================================
