------------------------------ MODULE RateLimit ------------------------------
(***************************************************************************)
(* zip/rate_limit.go: the limiter that soong_zip uses for CPU slots and    *)
(* for memory.  One monitor goroutine owns usedCapacity and currentRequest *)
(* and talks to its callers over unbuffered channels, so a send and the    *)
(* receive that matches it are one step.                                   *)
(*                                                                         *)
(* A job is one Request(size) ... Finish(size) pair; the two calls may be  *)
(* made by different goroutines.  Nothing but the monitor reads its local  *)
(* variables, so one pass of its loop is one step.                         *)
(***************************************************************************)
EXTENDS Integers, FiniteSets

CONSTANTS
    Jobs,      \* the executions that ask for capacity
    Size,      \* Size[j]: the argument of j's Request and Finish
    Capacity   \* the argument of NewRateLimit

\* NewCPURateLimiter and NewMemoryRateLimiter replace a capacity <= 0.
ASSUME CapacityAssumption == Capacity \in Nat \ {0}

\* Sizes are file sizes, or 1 for a CPU slot.
ASSUME SizeAssumption == Size \in [Jobs -> Nat]

VARIABLES
    job,             \* job[j]: how far j has come
    usedCapacity,    \* monitorChannels' local of that name
    currentRequest,  \* {} for nil, {j} while j's request is queued
    stop,            \* the stop channel is closed
    monitor          \* "running", "returned" or "panicked"

vars == <<job, usedCapacity, currentRequest, stop, monitor>>

(***************************************************************************)
(* idle      -- has not called Request                                     *)
(* sending   -- in Request, blocked on r.requests <- request               *)
(* received  -- the monitor has the request; blocked on <-serviced         *)
(* serviced  -- accepted, the token is in the buffered serviced channel    *)
(* executing -- Request has returned                                       *)
(* finishing -- in Finish, blocked on r.completions <- size                *)
(* done      -- Finish has returned                                        *)
(***************************************************************************)
Phases == {"idle", "sending", "received", "serviced", "executing",
           "finishing", "done"}

Init ==
    /\ job = [j \in Jobs |-> "idle"]
    /\ usedCapacity = 0
    /\ currentRequest = {}
    /\ stop = FALSE
    /\ monitor = "running"

Accepts(used, size) == used = 0 \/ Capacity >= used + size

-----------------------------------------------------------------------------
\* Plausible defects of the code below, used to show the properties can fail.
SettleWithoutFirstCaller(used, pending, jobs) ==
    \/ \E j \in pending :
        /\ Capacity >= used + Size[j]
        /\ usedCapacity' = used + Size[j]
        /\ job' = [jobs EXCEPT ![j] = "serviced"]
        /\ currentRequest' = {}
    \/ /\ \A j \in pending : ~ (Capacity >= used + Size[j])
       /\ usedCapacity' = used
       /\ job' = jobs
       /\ currentRequest' = pending

SettleIgnoringSize(used, pending, jobs) ==
    \/ \E j \in pending :
        /\ Accepts(used, 0)
        /\ usedCapacity' = used + Size[j]
        /\ job' = [jobs EXCEPT ![j] = "serviced"]
        /\ currentRequest' = {}
    \/ /\ \A j \in pending : ~ Accepts(used, 0)
       /\ usedCapacity' = used
       /\ job' = jobs
       /\ currentRequest' = pending

SettleNotCounting(used, pending, jobs) ==
    \/ \E j \in pending :
        /\ Accepts(used, Size[j])
        /\ usedCapacity' = IF used = 0 THEN used ELSE used + Size[j]
        /\ job' = [jobs EXCEPT ![j] = "serviced"]
        /\ currentRequest' = {}
    \/ /\ \A j \in pending : ~ Accepts(used, Size[j])
       /\ usedCapacity' = used
       /\ job' = jobs
       /\ currentRequest' = pending
-----------------------------------------------------------------------------

\* The tail of the monitor's loop: accept the queued request if it fits.
Settle(used, pending, jobs) ==
    \/ \E j \in pending :
        /\ Accepts(used, Size[j])
        /\ usedCapacity' = used + Size[j]
        /\ job' = [jobs EXCEPT ![j] = "serviced"]
        /\ currentRequest' = {}
    \/ /\ \A j \in pending : ~ Accepts(used, Size[j])
       /\ usedCapacity' = used
       /\ job' = jobs
       /\ currentRequest' = pending

\* Request: make the request and block on sending it.
Request(j) ==
    /\ job[j] = "idle"
    /\ job' = [job EXCEPT ![j] = "sending"]
    /\ UNCHANGED <<usedCapacity, currentRequest, stop, monitor>>

\* The monitor receives j's request; it listens only when none is queued.
ReceiveRequest(j) ==
    /\ monitor = "running"
    /\ currentRequest = {}
    /\ job[j] = "sending"
    /\ Settle(usedCapacity, {j}, [job EXCEPT ![j] = "received"])
    /\ UNCHANGED <<stop, monitor>>

\* Request returns once the token is in the serviced channel.
Serviced(j) ==
    /\ job[j] = "serviced"
    /\ job' = [job EXCEPT ![j] = "executing"]
    /\ UNCHANGED <<usedCapacity, currentRequest, stop, monitor>>

\* Finish: block on sending the completion.
Finish(j) ==
    /\ job[j] = "executing"
    /\ job' = [job EXCEPT ![j] = "finishing"]
    /\ UNCHANGED <<usedCapacity, currentRequest, stop, monitor>>

\* The monitor receives j's completion and panics below zero.
ReceiveCompletion(j) ==
    /\ monitor = "running"
    /\ job[j] = "finishing"
    /\ IF usedCapacity - Size[j] < 0
       THEN /\ monitor' = "panicked"
            /\ usedCapacity' = usedCapacity - Size[j]
            /\ job' = [job EXCEPT ![j] = "done"]
            /\ UNCHANGED currentRequest
       ELSE /\ Settle(usedCapacity - Size[j], currentRequest,
                      [job EXCEPT ![j] = "done"])
            /\ UNCHANGED monitor
    /\ UNCHANGED stop

\* Stop closes the stop channel; the owner calls it once.
Stop ==
    /\ ~ stop
    /\ stop' = TRUE
    /\ UNCHANGED <<job, usedCapacity, currentRequest, monitor>>

\* The select may pick the closed stop channel at any later pass.
MonitorReturn ==
    /\ monitor = "running"
    /\ stop
    /\ monitor' = "returned"
    /\ UNCHANGED <<job, usedCapacity, currentRequest, stop>>

JobStep(j) ==
    \/ Request(j)
    \/ ReceiveRequest(j)
    \/ Serviced(j)
    \/ Finish(j)
    \/ ReceiveCompletion(j)

Next == (\E j \in Jobs : JobStep(j)) \/ Stop \/ MonitorReturn

Spec == Init /\ [][Next]_vars

(***************************************************************************)
(* Go runs every runnable goroutine eventually, and select picks a ready   *)
(* case at random, so a rendezvous that stays possible happens.  A client  *)
(* that was let through finishes its work.  Nothing obliges a client to    *)
(* call Request, or the owner to call Stop.                                *)
(***************************************************************************)
Fairness ==
    /\ \A j \in Jobs : /\ WF_vars(ReceiveRequest(j))
                       /\ WF_vars(Serviced(j))
                       /\ WF_vars(Finish(j))
                       /\ WF_vars(ReceiveCompletion(j))
    /\ WF_vars(MonitorReturn)

FairSpec == Spec /\ Fairness
-----------------------------------------------------------------------------
TypeOK ==
    /\ job \in [Jobs -> Phases]
    /\ usedCapacity \in Nat
    /\ currentRequest \subseteq Jobs
    /\ stop \in BOOLEAN
    /\ monitor \in {"running", "returned", "panicked"}

\* The jobs the monitor has let through and has not seen finish.
HoldersIn(jobs) ==
    {j \in Jobs : jobs[j] \in {"serviced", "executing", "finishing"}}

Holders == HoldersIn(job)

\* One element per unit of capacity that the jobs in H hold.
Units(H) == UNION {{j} \X (1 .. Size[j]) : j \in H}

(***************************************************************************)
(* usedCapacity is exactly what the accepted, unfinished jobs hold, and so *)
(* the monitor's "usedCapacity < 0" panic (rate_limit.go:92) is dead code  *)
(* as long as every Finish follows its own Request.                        *)
(***************************************************************************)
ExactAccounting ==
    /\ monitor # "panicked"
    /\ usedCapacity = Cardinality(Units(Holders))

WithinCapacity(H) ==
    \/ Cardinality(Units(H)) <= Capacity
    \/ \E j \in H : \A k \in H \ {j} : Size[k] = 0

(***************************************************************************)
(* The promise of NewRateLimit's comment: no more than Capacity is in use  *)
(* at once, except by one job that was let in when nothing was in use; and *)
(* while such a job runs nobody else holds anything.                       *)
(***************************************************************************)
CapacityRespected == WithinCapacity(Holders)

(***************************************************************************)
(* Nobody is starved: while the limiter is not stopped, a goroutine that   *)
(* blocks in Request gets through, a job larger than Capacity included and *)
(* whatever sizes arrive around it.                                        *)
(***************************************************************************)
EveryRequestServed ==
    \A j \in Jobs : job[j] = "sending" ~> (job[j] = "executing" \/ stop)
=============================================================================
