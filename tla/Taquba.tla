-------------------------------- MODULE Taquba --------------------------------
(***************************************************************************)
(* The durable queue the store runs on: a library, modelled from how the   *)
(* store uses it.  A job waits until its time, is claimed with a lease and *)
(* ends when the claim is acknowledged.  The reaper returns a claimed job  *)
(* whose lease ended to the queue, and a reopened queue does the same with *)
(* every claimed job.  The queue has no bound on attempts, no backoff and  *)
(* keeps no done jobs (StoreOptions::queue_options).                       *)
(***************************************************************************)
EXTENDS Records

CONSTANTS
    MaxDispatch,    \* bound on the dispatches of one task
    Ticket          \* tells the claims of one job apart

ASSUME QueueAssumption == MaxDispatch \in Nat /\ Ticket # {}

ExecuteJob(task, n) == <<"execute", task, n>>
UnblockJob(promise, address) == <<"unblock", promise, address>>
TimerJob(promise) == <<"timer", promise, 0>>

\* Every job id, and the ids of the instance.
JobId == ({"execute"} \X Id \X (Nat \ {0}))
            \cup ({"unblock"} \X Id \X Address)
            \cup ({"timer"} \X Id \X {0})

Job == ({"execute"} \X Id \X (1 .. MaxDispatch))
            \cup ({"unblock"} \X Id \X Address)
            \cup ({"timer"} \X Id \X {0})

\* `at' is the time a waiting job runs at, and the end of a claim's lease.
JobRecord ==
    [state : {"none", "waiting", "claimed"}, at : Nat,
     ticket : Ticket \cup {None}]

NoJob == [state |-> "none", at |-> 0, ticket |-> None]

Waiting(at) == [state |-> "waiting", at |-> at, ticket |-> None]

Claimed(expiry, ticket) ==
    [state |-> "claimed", at |-> expiry, ticket |-> ticket]

Claim == [job : Job, ticket : Ticket]

EnqueueRequest == [job : JobId, runAt : Nat]

-----------------------------------------------------------------------------
\* Whether a job exists in any state.
JobExists(jobs, job) == jobs[job].state # "none"

\* A claim call on a queue takes a waiting job whose time has come.
IsDue(jobs, job, now) == jobs[job].state = "waiting" /\ jobs[job].at <= now

\* The lease registry is read by job, whichever claim the lease belongs to.
LeaseLive(jobs, job, now) == jobs[job].state = "claimed" /\ jobs[job].at > now

LeaseEnded(jobs, job, now) == jobs[job].state = "claimed" /\ jobs[job].at <= now

\* Whether the claim is the one that has the job.  Settling or renewing with
\* any other claim reports ClaimLost.
IsCurrent(jobs, claim) ==
    /\ jobs[claim.job].state = "claimed"
    /\ jobs[claim.job].ticket = claim.ticket

Enqueue(jobs, requests) ==
    [j \in Job |->
        IF \E r \in requests : r.job = j
        THEN Waiting((CHOOSE r \in requests : r.job = j).runAt)
        ELSE jobs[j]]

\* Acknowledge the claim: the job ends.  A lost claim changes nothing.
Ack(jobs, claim) ==
    IF IsCurrent(jobs, claim) THEN [jobs EXCEPT ![claim.job] = NoJob] ELSE jobs

\* Fail the claim: the job is due again.
Nack(jobs, claim) ==
    IF IsCurrent(jobs, claim)
    THEN [jobs EXCEPT ![claim.job] = Waiting(0)] ELSE jobs

Requeue(jobs, job) == [jobs EXCEPT ![job] = Waiting(0)]

\* Opening the queue requeues every job that was claimed when it went down.
Reopen(jobs) ==
    [j \in Job |->
        IF jobs[j].state = "claimed" THEN Waiting(0) ELSE jobs[j]]
=============================================================================
