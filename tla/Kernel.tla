-------------------------------- MODULE Kernel --------------------------------
(***************************************************************************)
(* What the kernel's handlers compute (src/kernel.rs), as operators on the *)
(* view of a transaction: the records as the transaction reads them        *)
(* through its write buffer, the jobs it will enqueue, and the tasks whose *)
(* held claims it will release after its commit (src/txn.rs).              *)
(***************************************************************************)
EXTENDS Taquba

View ==
    [promise : [Id -> StoredPromise],
     task    : [Id -> StoredTask],
     enqueue : SUBSET EnqueueRequest,
     release : SUBSET Id]

\* The data of a promise.create.
CreateData == [timeoutAt : Nat, tags : Tags]

-----------------------------------------------------------------------------
\* The delay tag names a time before the deadline and needs a target.
ValidateCreate(data) ==
    data.tags.delay # None =>
        data.tags.delay < data.timeoutAt /\ data.tags.target # None

\* Dispatch of a task with this record: the job after its last one.
DispatchRequest(t, task, runAt) ==
    [job |-> ExecuteJob(t, task.job + 1), runAt |-> runAt]

\* Mutant: a halted task records nothing.
ResumedTaskHalted(task, awaited, wake) ==
    CASE task.state = "suspended" ->
            [Transition(task, "pending") EXCEPT !.resumes = awaited,
                                                !.job = task.job + 1]
      [] task.state \in {"pending", "acquired"} ->
            [task EXCEPT !.resumes = task.resumes \cup awaited]
      [] OTHER -> task

\* What a settled awaited promise does to its awaiter's task: a suspended task
\* is pending again with a new job, a task that runs or waits records the
\* promise, and a halted one records it when the callback was registered.
ResumedTask(task, awaited, wake) ==
    CASE task.state = "suspended" ->
            [Transition(task, "pending") EXCEPT !.resumes = awaited,
                                                !.job = task.job + 1]
      [] \/ task.state \in {"pending", "acquired"}
         \/ task.state = "halted" /\ wake = "fanout" ->
            [task EXCEPT !.resumes = task.resumes \cup awaited]
      [] OTHER -> task

\* Mutant: an awaiter past its own deadline is resumed.
WokenExpired(v, settled, now) ==
    {t \in Id : /\ \E p \in DOMAIN settled : t \in settled[p].callbacks
                /\ t \notin DOMAIN settled
                /\ IsPending(v.promise[t])}

\* The awaiters a settlement resumes.  An awaiter that is settled, or past its
\* own deadline, is not resumed.
Woken(v, settled, now) ==
    {t \in Id : /\ \E p \in DOMAIN settled : t \in settled[p].callbacks
                /\ t \notin DOMAIN settled
                /\ IsPending(v.promise[t])
                /\ now < v.promise[t].timeoutAt}

\* The consequences of settling the promises in the domain of `settled', which
\* maps them to their settled records: their own tasks are fulfilled and their
\* held claims released, the awaiters resumed and the listeners sent an unblock.
SettleChain(v, settled, now) ==
    LET Awaited(t) == {p \in DOMAIN settled : t \in settled[p].callbacks}
        woken      == Woken(v, settled, now)
        ended      == {t \in DOMAIN settled :
                            v.task[t].state \notin {"absent", "fulfilled"}}
    IN  [promise |-> [p \in Id |->
                        IF p \in DOMAIN settled
                        THEN [settled[p] EXCEPT !.callbacks = {},
                                                !.listeners = {}]
                        ELSE v.promise[p]],
         task    |-> [t \in Id |->
                        IF t \in ended
                        THEN [Transition(v.task[t], "fulfilled")
                                EXCEPT !.resumes = {}]
                        ELSE IF t \in woken
                             THEN ResumedTask(v.task[t], Awaited(t), "fanout")
                             ELSE v.task[t]],
         enqueue |-> v.enqueue
                     \cup {DispatchRequest(t, v.task[t], 0) :
                             t \in {t \in woken : v.task[t].state = "suspended"}}
                     \cup UNION {{[job |-> UnblockJob(p, a), runAt |-> 0] :
                                    a \in settled[p].listeners} :
                                 p \in DOMAIN settled},
         release |-> v.release \cup ended]

\* A promise settled by its deadline: the settlement is recorded at the deadline.
Expired(promise) ==
    [promise EXCEPT !.state = TimeoutState(promise.tags),
                    !.settledAt = promise.timeoutAt]

ExpirePromises(v, P, now) ==
    SettleChain(v, [p \in P |-> Expired(v.promise[p])], now)

\* Settle every named promise whose deadline has passed.  The code settles them
\* one after the other; the order makes no difference, as a promise past its
\* deadline is never resumed.
TryTimeout(v, ids, now) ==
    ExpirePromises(v, {p \in ids : /\ IsPending(v.promise[p])
                                   /\ now >= v.promise[p].timeoutAt}, now)

\* Settle a pending promise by a client.
Settle(v, p, state, now) ==
    SettleChain(v, [q \in {p} |-> [v.promise[p] EXCEPT !.state = state,
                                                       !.settledAt = now]], now)

-----------------------------------------------------------------------------
\* Mutant: the version is not raised.
AcquireUnversioned(v, t, pid, ttl) ==
    [v EXCEPT !.task[t] = [v.task[t] EXCEPT !.state = "acquired", !.pid = pid,
                                            !.ttl = ttl, !.resumes = {}]]

\* Acquire a delivered task whose held claim has been renewed.
Acquire(v, t, pid, ttl) ==
    [v EXCEPT !.task[t] = [v.task[t] EXCEPT !.state = "acquired",
                                            !.version = v.task[t].version + 1,
                                            !.pid = pid,
                                            !.ttl = ttl,
                                            !.resumes = {}]]

\* The record of a promise created now: one whose deadline has passed is created
\* in its timeout state.
CreatedPromise(data, now) ==
    LET already == now >= data.timeoutAt
    IN  [NoPromise EXCEPT
            !.state = IF already THEN TimeoutState(data.tags) ELSE "pending",
            !.timeoutAt = data.timeoutAt,
            !.settledAt = IF already THEN data.timeoutAt ELSE None,
            !.tags = data.tags]

\* Create a promise that does not exist, with its task and its jobs.  `task' is
\* the record the task starts with when the deadline has not passed, and runAt
\* the time of its first job.
CreateWith(v, p, data, task, runAt, now) ==
    LET promise == CreatedPromise(data, now)
        pending == IsPending(promise)
        started == pending /\ data.tags.target # None
    IN  [promise |-> [v.promise EXCEPT ![p] = promise],
         task    |-> [v.task EXCEPT ![p] =
                        IF data.tags.target = None THEN NoTask
                        ELSE IF started THEN [task EXCEPT !.job = 1]
                        ELSE NewTask("fulfilled")],
         enqueue |-> v.enqueue
                \cup {r \in {[job |-> ExecuteJob(p, 1), runAt |-> runAt]} :
                        started}
                \cup {r \in {[job |-> TimerJob(p), runAt |-> data.timeoutAt]} :
                        pending /\ IsExternal(data.tags)},
         release |-> v.release]

\* CreateMode::Dispatch: a pending task, dispatched after its delay.
CreateDispatched(v, p, data, now) ==
    LET delay == data.tags.delay
    IN  CreateWith(v, p, data, NewTask("pending"),
                   IF delay = None THEN 0 ELSE IF now < delay THEN delay ELSE 0,
                   now)

\* Mutant: the acquired task keeps the version of a task nobody acquired.
CreateAcquiredUnversioned(v, p, data, pid, ttl, now) ==
    CreateWith(v, p, data, [NewTask("acquired") EXCEPT !.pid = pid, !.ttl = ttl],
               now + ttl, now)

\* CreateMode::Acquire: a task acquired by its creator, whose job is scheduled
\* at the end of the lease.
CreateAcquired(v, p, data, pid, ttl, now) ==
    CreateWith(v, p, data,
               [NewTask("acquired") EXCEPT !.version = 1, !.pid = pid,
                                           !.ttl = ttl],
               now + ttl, now)

\* Register a callback, once.
RegisterCallback(v, awaited, awaiter) ==
    [v EXCEPT !.promise[awaited].callbacks = @ \cup {awaiter}]

\* Record an awaited promise that was settled before the callback came.
ResumeAwaiter(v, awaiter, awaited) ==
    [v EXCEPT
       !.task[awaiter] = ResumedTask(v.task[awaiter], {awaited}, "registration"),
       !.enqueue = v.enqueue
            \cup {r \in {DispatchRequest(awaiter, v.task[awaiter], 0)} :
                    v.task[awaiter].state = "suspended"}]

\* Mutant: the callbacks are not registered.
SuspendUnregistered(v, t, awaited) ==
    [v EXCEPT !.task[t] = [Transition(v.task[t], "suspended")
                                EXCEPT !.resumes = {}]]

\* Register the task with every awaited promise and suspend it.
Suspend(v, t, awaited) ==
    [v EXCEPT
       !.promise = [p \in Id |->
                      IF p \in awaited
                      THEN [v.promise[p] EXCEPT !.callbacks = @ \cup {t}]
                      ELSE v.promise[p]],
       !.task[t] = [Transition(v.task[t], "suspended") EXCEPT !.resumes = {}]]

\* A task that returns to pending without a holder, with its version unchanged.
Unassign(v, t) == [v EXCEPT !.task[t] = Transition(v.task[t], "pending")]

Halt(v, t) ==
    [v EXCEPT !.task[t] = Transition(v.task[t], "halted"),
              !.release = v.release \cup {t}]

\* Mutants: the task is dispatched whether or not its job waits, or never.
ContinueDispatched(v, t, jobWaits) ==
    [v EXCEPT !.task[t] = [Transition(v.task[t], "pending")
                                EXCEPT !.job = v.task[t].job + 1],
              !.enqueue = v.enqueue \cup {DispatchRequest(t, v.task[t], 0)}]

ContinueUndispatched(v, t, jobWaits) == Unassign(v, t)

\* A halted task is pending again.  A job still waiting for delivery dispatches
\* it, and it is dispatched when there is none.
Continue(v, t, jobWaits) ==
    IF jobWaits THEN Unassign(v, t)
    ELSE [v EXCEPT
            !.task[t] = [Transition(v.task[t], "pending")
                            EXCEPT !.job = v.task[t].job + 1],
            !.enqueue = v.enqueue \cup {DispatchRequest(t, v.task[t], 0)}]
=============================================================================
