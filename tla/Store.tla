-------------------------------- MODULE Store --------------------------------
(***************************************************************************)
(* The store: every request, delivery and timer runs as one transaction    *)
(* under the store's lock (src/store.rs, src/txn.rs).  A transaction       *)
(* evaluates its handler, which may claim a job or renew a lease at once,  *)
(* then commits its writes and enqueues in one step of the queue, then     *)
(* does the work that follows the commit, one step each.  The queue's      *)
(* reaper, the claims of the delivery loops, the clock, crashes and        *)
(* storage errors interleave with those steps.                             *)
(*                                                                         *)
(* When no transaction is open the view equals the committed records, so a *)
(* handler is always evaluated on the view.                                *)
(***************************************************************************)
EXTENDS Kernel

CONSTANTS
    Origin,         \* the origin of each promise id
    Creations,      \* the data of the promises clients create, by id
    Outcomes,       \* the states clients settle promises to
    Ttl,            \* the lease times workers ask for
    Requests,       \* the kinds of requests the clients send
    Loop,           \* delivery loops, and the timer worker
    Serves,         \* the queue each loop claims from: an address or Timers
    Timers,         \* the timer queue
    RetryTimeout,   \* lease of a delivery loop's claim
    WorkerLease,    \* lease of the timer worker's claim
    Faults,         \* the faults of the instance: crash, storage, cancel
    MaxTime,        \* bound on the clock
    MaxVersion      \* bound on a task's version

ASSUME StoreAssumption ==
    /\ Creations \in [Id -> SUBSET CreateData]
    /\ Outcomes \subseteq SettleState
    /\ Ttl \subseteq Int
    /\ Timers \notin Address
    /\ Serves \in [Loop -> Address \cup {Timers}]
    /\ None \notin Loop
    /\ RetryTimeout \in Nat /\ WorkerLease \in Nat
    /\ MaxTime \in Nat /\ MaxVersion \in Nat

VARIABLES
    now,        \* the queue's clock
    promise,    \* committed promise records
    task,       \* committed task records
    jobs,       \* the queue's jobs
    held,       \* claims of delivered execute jobs, by task
    view,       \* the records as the open transaction reads them
    lock,       \* free, or the open transaction's phase: commit or finish
    owner,      \* the loop whose transaction it is, None for a request
    ack,        \* the task whose held claim the commit acknowledges, or None
    after,      \* the last work that follows the commit
    loops,      \* the delivery loops and the timer worker
    owed        \* history: registered listeners whose unblock is not delivered

txnVars == <<view, lock, owner, ack, after>>

vars == <<now, promise, task, jobs, held, view, lock, owner, ack, after, loops,
          owed>>

\* The work after the commit other than the releases, which come before it.
NoAfter == [op |-> "none", task |-> None, claim |-> None, lease |-> 0]

After == [op : {"none", "ack", "hold", "nack", "claim"}, task : Id \cup {None},
          claim : Claim \cup {None}, lease : Nat]

IdleLoop == [pc |-> "idle", claim |-> None]

LoopState ==
    {IdleLoop} \cup [pc : {"claimed", "busy", "emit", "failed"}, claim : Claim]

Committed == [promise |-> promise, task |-> task, enqueue |-> {},
              release |-> {}]

TypeOK ==
    /\ now \in Nat
    /\ promise \in [Id -> StoredPromise]
    /\ task \in [Id -> StoredTask]
    /\ jobs \in [Job -> JobRecord]
    /\ held \in [Id -> Claim \cup {None}]
    /\ view \in View
    /\ lock \in {"free", "commit", "finish"}
    /\ owner \in Loop \cup {None}
    /\ ack \in Id \cup {None}
    /\ after \in After
    /\ loops \in [Loop -> LoopState]
    /\ owed \subseteq Id \X Address

Init ==
    /\ now = 0
    /\ promise = [p \in Id |-> NoPromise]
    /\ task = [t \in Id |-> NoTask]
    /\ jobs = [j \in Job |-> NoJob]
    /\ held = [t \in Id |-> None]
    /\ view = Committed
    /\ lock = "free" /\ owner = None /\ ack = None /\ after = NoAfter
    /\ loops = [l \in Loop |-> IdleLoop]
    /\ owed = {}

-----------------------------------------------------------------------------
(* Held claims and leases (src/txn.rs)                                     *)

\* The claim of the task's job is held and the job's lease is live.
Holds(t) == held[t] # None /\ LeaseLive(jobs, held[t].job, now)

\* The held claims after the test: one without a live lease is dropped.
HeldAfterTest(t) == IF Holds(t) THEN held ELSE [held EXCEPT ![t] = None]

\* The held claim can be renewed: its job's lease is live and is this claim's.
Renewable(t) == Holds(t) /\ IsCurrent(jobs, held[t])

Drop(t) == [held EXCEPT ![t] = None]

RenewLease(claim, lease) ==
    [jobs EXCEPT ![claim.job] = Claimed(now + lease, claim.ticket)]

\* A new claim of the job differs from every claim of it that is still about.
FreshTicket(job) ==
    CHOOSE k \in Ticket :
        /\ \A t \in Id : held[t] # [job |-> job, ticket |-> k]
        /\ \A l \in Loop : loops[l].claim # [job |-> job, ticket |-> k]

\* The job named by the task's record, claimed by its id.
CurrentJob(t) == ExecuteJob(t, task[t].job)

Claimable(t) == task[t].job # 0 /\ jobs[CurrentJob(t)].state = "waiting"

-----------------------------------------------------------------------------
(* Transactions                                                            *)

\* The bounds of the instance: no task is dispatched or acquired more often.
InBounds(v) ==
    \A t \in Id : v.task[t].job <= MaxDispatch /\ v.task[t].version <= MaxVersion

\* The handler has run under the lock and leaves view v.  Without a write, an
\* enqueue or work to follow there is nothing to commit.
Open(v, who, acked, last) ==
    /\ lock = "free"
    /\ InBounds(v)
    /\ view' = v
    /\ lock' = IF v # view \/ acked # None THEN "commit"
               ELSE IF last # NoAfter THEN "finish"
               ELSE "free"
    /\ owner' = who /\ ack' = acked /\ after' = last
    /\ UNCHANGED <<now, promise, task, owed>>

\* A client's request that changes no claim and no lease.
Request(v) == Open(v, None, None, NoAfter) /\ UNCHANGED <<jobs, held, loops>>

\* A loop that leaves the lock: an unblock message is passed to the callback and
\* a fired timer is acknowledged outside the lock.
Unlocked(loop, ok) ==
    CASE loop.claim.job[1] = "timer" ->
            [loop EXCEPT !.pc = IF ok THEN "emit" ELSE "failed"]
      [] loop.claim.job[1] = "unblock" /\ ok -> [loop EXCEPT !.pc = "emit"]
      [] OTHER -> IdleLoop

Unlock(ok) ==
    /\ lock' = "free" /\ owner' = None /\ ack' = None /\ after' = NoAfter
    /\ loops' = IF owner = None THEN loops
                ELSE [loops EXCEPT ![owner] = Unlocked(loops[owner], ok)]

\* The writes and enqueues become durable together.
Apply ==
    /\ promise' = view.promise
    /\ task' = view.task
    /\ owed' = owed \cup {x \in Id \X Address :
                            x[2] \in view.promise[x[1]].listeners}

\* The transaction leaves no trace in the records.
Abort ==
    /\ view' = Committed
    /\ UNCHANGED <<promise, task, owed>>

Commit ==
    /\ lock = "commit" /\ ack = None
    /\ Apply
    /\ view' = [view EXCEPT !.enqueue = {}]
    /\ jobs' = Enqueue(jobs, view.enqueue)
    /\ IF view.release = {} /\ after = NoAfter
       THEN Unlock(TRUE)
       ELSE lock' = "finish" /\ UNCHANGED <<owner, ack, after, loops>>
    /\ UNCHANGED <<now, held>>

\* Mutant: the commit does not depend on the claim.
CommitAckUnchecked ==
    /\ lock = "commit" /\ ack # None
    /\ held[ack] # None
    /\ Apply
    /\ view' = [view EXCEPT !.enqueue = {}]
    /\ jobs' = Enqueue(Ack(jobs, held[ack]), view.enqueue)
    /\ held' = Drop(ack)
    /\ lock' = "finish" /\ ack' = None
    /\ UNCHANGED <<now, owner, after, loops>>

\* The commit that acknowledges the held claim, which still has the job.
CommitAck ==
    /\ lock = "commit" /\ ack # None
    /\ held[ack] # None /\ IsCurrent(jobs, held[ack])
    /\ Apply
    /\ view' = [view EXCEPT !.enqueue = {}]
    /\ jobs' = Enqueue(Ack(jobs, held[ack]), view.enqueue)
    /\ held' = Drop(ack)
    /\ lock' = "finish" /\ ack' = None
    /\ UNCHANGED <<now, owner, after, loops>>

\* The claim was lost to the reaper, or its lease ended and the queue refuses
\* it: the claim is dropped and the store is unchanged.
CommitLost ==
    /\ lock = "commit" /\ ack # None
    /\ held[ack] # None =>
          ~IsCurrent(jobs, held[ack]) \/ LeaseEnded(jobs, held[ack].job, now)
    /\ held' = Drop(ack)
    /\ Abort /\ Unlock(FALSE)
    /\ UNCHANGED <<now, jobs>>

\* The transaction may end here without a result: a call of the queue fails, or
\* the client drops its request's future at an await.  The futures of the loops
\* are dropped only between two claims.
MayFail == "storage" \in Faults \/ ("cancel" \in Faults /\ owner = None)

\* A commit that does not take place: held claims stay held.
CommitFails ==
    /\ MayFail
    /\ lock = "commit"
    /\ Abort /\ Unlock(FALSE)
    /\ UNCHANGED <<now, jobs, held>>

\* After::Release: the held claim, if any, is dropped and acknowledged.
FinishRelease(t) ==
    /\ lock = "finish" /\ t \in view.release
    /\ held' = Drop(t)
    /\ jobs' = IF held[t] = None THEN jobs ELSE Ack(jobs, held[t])
    /\ view' = [view EXCEPT !.release = @ \ {t}]
    /\ UNCHANGED <<now, promise, task, lock, owner, ack, after, loops, owed>>

\* The other work that follows the commit: Ack, Hold, Nack or Claim.
FinishLast ==
    /\ lock = "finish" /\ view.release = {}
    /\ \/ after.op = "none" /\ UNCHANGED <<jobs, held>>
       \/ /\ after.op = "ack"
          /\ jobs' = Ack(jobs, after.claim) /\ UNCHANGED held
       \/ /\ after.op = "hold"
          /\ held' = [held EXCEPT ![after.task] = after.claim] /\ UNCHANGED jobs
       \/ /\ after.op = "nack"
          /\ held' = Drop(after.task)
          /\ jobs' = IF held[after.task] = None THEN jobs
                     ELSE Nack(jobs, held[after.task])
       \/ /\ after.op = "claim" /\ Claimable(after.task)
          /\ LET c == [job |-> CurrentJob(after.task),
                       ticket |-> FreshTicket(CurrentJob(after.task))]
             IN  /\ c \in Claim
                 /\ held' = [held EXCEPT ![after.task] = c]
                 /\ jobs' = RenewLease(c, after.lease)
       \/ /\ after.op = "claim" /\ ~Claimable(after.task)
          /\ UNCHANGED <<jobs, held>>
    /\ Unlock(TRUE)
    /\ UNCHANGED <<now, promise, task, view, owed>>

\* Work after the commit that fails ends the transaction with the rest of its
\* work undone.  A claim to release or to fail is dropped before the queue is
\* asked.
FinishFails ==
    /\ MayFail
    /\ lock = "finish"
    /\ \/ \E t \in view.release : held[t] # None /\ held' = Drop(t)
       \/ /\ view.release = {} /\ after.op = "nack" /\ held[after.task] # None
          /\ held' = Drop(after.task)
       \/ /\ view.release = {} /\ after.op \in {"ack", "claim"}
          /\ UNCHANGED held
    /\ view' = Committed
    /\ Unlock(FALSE)
    /\ UNCHANGED <<now, promise, task, jobs, owed>>

\* A request dropped after its commit: at the work that follows it, which is
\* left undone, or in the call that commits and acknowledges, whose claim then
\* stays held although its job is gone.
RequestDropped ==
    /\ "cancel" \in Faults /\ owner = None
    /\ \/ /\ lock = "finish"
          /\ view' = Committed
          /\ UNCHANGED <<promise, task, jobs, owed>>
       \/ /\ lock = "commit" /\ ack # None
          /\ held[ack] # None /\ IsCurrent(jobs, held[ack])
          /\ Apply
          /\ view' = [view EXCEPT !.enqueue = {}, !.release = {}]
          /\ jobs' = Enqueue(Ack(jobs, held[ack]), view.enqueue)
    /\ Unlock(FALSE)
    /\ UNCHANGED <<now, held>>

\* The job is claimed by a call whose caller is gone: nobody has the claim.
ClaimDropped(job, lease) ==
    LET c == [job |-> job, ticket |-> FreshTicket(job)]
    IN  /\ "cancel" \in Faults
        /\ jobs[job].state = "waiting" /\ c \in Claim
        /\ jobs' = RenewLease(c, lease)
        /\ UNCHANGED <<now, promise, task, owed>>

\* The claim after the commit of a task.create is dropped with its request.
AfterClaimDropped ==
    /\ lock = "finish" /\ view.release = {} /\ after.op = "claim"
    /\ task[after.task].job # 0
    /\ ClaimDropped(CurrentJob(after.task), after.lease)
    /\ view' = Committed
    /\ Unlock(FALSE)
    /\ UNCHANGED held

-----------------------------------------------------------------------------
(* Requests on promises (src/kernel.rs)                                    *)

Timed(ids) == TryTimeout(view, ids, now)

PromiseCreate(p, data) ==
    /\ "promise.create" \in Requests
    /\ ValidateCreate(data)
    /\ Request(IF Timed({p}).promise[p].state = "absent"
               THEN CreateDispatched(Timed({p}), p, data, now)
               ELSE Timed({p}))

\* promise.get and task.get apply the deadline and change nothing else.
Get(p) ==
    /\ "get" \in Requests
    /\ Request(Timed({p}))

\* Mutant: the deadline is not applied before a settlement.
PromiseSettleLate(p, state) ==
    /\ "promise.settle" \in Requests
    /\ Request(IF IsPending(view.promise[p]) THEN Settle(view, p, state, now)
               ELSE view)

PromiseSettle(p, state) ==
    /\ "promise.settle" \in Requests
    /\ Request(IF IsPending(Timed({p}).promise[p])
               THEN Settle(Timed({p}), p, state, now)
               ELSE Timed({p}))

\* The ids differ and share an origin.
ValidateCallback(awaited, awaiter) ==
    awaited # awaiter /\ Origin[awaited] = Origin[awaiter]

\* Mutant: the awaited promise is taken to be settled.
RegisterCallbackSettled(awaited, awaiter) ==
    LET v == Timed({awaited, awaiter})
    IN  /\ "promise.register_callback" \in Requests
        /\ ValidateCallback(awaited, awaiter)
        /\ Request(IF /\ v.promise[awaited].state # "absent"
                      /\ IsPending(v.promise[awaiter])
                   THEN ResumeAwaiter(v, awaiter, awaited)
                   ELSE v)

PromiseRegisterCallback(awaited, awaiter) ==
    LET v == Timed({awaited, awaiter})
        accepted == /\ v.promise[awaited].state # "absent"
                    /\ v.promise[awaiter].tags.target # None
                    /\ IsExternal(v.promise[awaited].tags)
                    /\ IsPending(v.promise[awaiter])
    IN  /\ "promise.register_callback" \in Requests
        /\ ValidateCallback(awaited, awaiter)
        /\ Request(IF ~accepted THEN v
                   ELSE IF IsPending(v.promise[awaited])
                        THEN RegisterCallback(v, awaited, awaiter)
                        ELSE ResumeAwaiter(v, awaiter, awaited))

\* Mutant: a listener is registered with a settled promise.
RegisterListenerSettled(awaited, address) ==
    LET v == Timed({awaited})
    IN  /\ "promise.register_listener" \in Requests
        /\ Request(IF IsExternal(v.promise[awaited].tags)
                   THEN [v EXCEPT !.promise[awaited].listeners =
                                        @ \cup {address}]
                   ELSE v)

PromiseRegisterListener(awaited, address) ==
    LET v == Timed({awaited})
    IN  /\ "promise.register_listener" \in Requests
        /\ Request(IF /\ IsExternal(v.promise[awaited].tags)
                      /\ IsPending(v.promise[awaited])
                   THEN [v EXCEPT !.promise[awaited].listeners =
                                        @ \cup {address}]
                   ELSE v)

-----------------------------------------------------------------------------
(* Requests on tasks (src/kernel.rs)                                       *)

\* A request that acquires the task: its held claim is renewed to the lease, or
\* is dropped and the request refused.
AcquireOr409(v, t, pid, ttl) ==
    IF Renewable(t)
    THEN /\ Open(Acquire(v, t, pid, ttl), None, None, NoAfter)
         /\ jobs' = RenewLease(held[t], LeaseOf(ttl))
         /\ UNCHANGED <<held, loops>>
    ELSE /\ Open(v, None, None, NoAfter)
         /\ held' = Drop(t)
         /\ UNCHANGED <<jobs, loops>>

\* The pending task's job is claimed by id, then the task is acquired.
ClaimAndAcquire(v, t, pid, ttl) ==
    LET c == [job |-> CurrentJob(t), ticket |-> FreshTicket(CurrentJob(t))]
    IN  /\ Claimable(t) /\ c \in Claim
        /\ Open(Acquire(v, t, pid, ttl), None, None, NoAfter)
        /\ held' = [held EXCEPT ![t] = c]
        /\ jobs' = RenewLease(c, LeaseOf(ttl))
        /\ UNCHANGED loops

TaskCreate(t, data, pid, ttl) ==
    LET v == Timed({t})
    IN  /\ "task.create" \in Requests
        /\ ttl >= 1 /\ data.tags.target # None /\ data.tags.delay = None
        /\ \/ v.task[t].state = "pending" /\ Holds(t)
              /\ AcquireOr409(v, t, pid, ttl)
           \/ v.task[t].state = "pending" /\ ~Holds(t)
              /\ ClaimAndAcquire(v, t, pid, ttl)
           \/ /\ v.task[t].state = "pending" /\ ~Holds(t) /\ ~Claimable(t)
              /\ Open(v, None, None, NoAfter)
              /\ held' = Drop(t) /\ UNCHANGED <<jobs, loops>>
           \/ /\ v.promise[t].state = "absent"
              /\ Open(CreateAcquired(v, t, data, pid, ttl, now), None, None,
                      IF now >= data.timeoutAt THEN NoAfter
                      ELSE [NoAfter EXCEPT !.op = "claim", !.task = t,
                                           !.lease = LeaseOf(ttl)])
              /\ UNCHANGED <<jobs, held, loops>>
           \/ /\ v.promise[t].state # "absent" /\ v.task[t].state # "pending"
              /\ Request(v)

\* A task.create dropped while it claims the job of a pending task.
TaskCreateDropped(t, ttl) ==
    /\ "task.create" \in Requests
    /\ lock = "free" /\ ttl >= 1
    /\ Timed({t}).task[t].state = "pending" /\ ~Holds(t) /\ task[t].job # 0
    /\ ClaimDropped(CurrentJob(t), LeaseOf(ttl))
    /\ held' = Drop(t)
    /\ UNCHANGED <<txnVars, loops>>

TaskAcquire(t, version, pid, ttl) ==
    LET v == Timed({t})
    IN  /\ "task.acquire" \in Requests
        /\ IF v.task[t].state = "pending" /\ v.task[t].version = version
           THEN AcquireOr409(v, t, pid, ttl)
           ELSE Request(v)

TaskRelease(t, version) ==
    LET v == Timed({t})
    IN  /\ "task.release" \in Requests
        /\ IF IsAcquiredAt(v.task[t], version)
           THEN /\ Open(Unassign(v, t), None, None,
                        [NoAfter EXCEPT !.op = "nack", !.task = t])
                /\ UNCHANGED <<jobs, held, loops>>
           ELSE Request(v)

\* The settlement is committed in the transaction that acknowledges the claim.
TaskFulfill(t, version, state) ==
    LET v == Timed({t})
        settled == IF IsPending(v.promise[t]) THEN Settle(v, t, state, now)
                   ELSE v
    IN  /\ "task.fulfill" \in Requests
        /\ \/ ~IsAcquiredAt(v.task[t], version) /\ Request(v)
           \/ /\ IsAcquiredAt(v.task[t], version)
              /\ IF Holds(t) THEN Open(settled, None, t, NoAfter)
                             ELSE Open(v, None, None, NoAfter)
              /\ held' = HeldAfterTest(t)
              /\ UNCHANGED <<jobs, loops>>

\* Mutant: nothing is checked.
NoneSettled(v, awaited) == FALSE

\* An awaited promise is settled already, so the task has nothing to wait for.
AnySettled(v, awaited) == \E p \in awaited : ~IsPending(v.promise[p])

\* An awaited promise that is missing or not awaitable refuses the request, a
\* settled one answers it at once (300), and otherwise the task is suspended in
\* the transaction that acknowledges its claim.
TaskSuspend(t, version, awaited) ==
    LET v == Timed({t} \cup awaited)
        awaitable == \A p \in awaited : /\ v.promise[p].state # "absent"
                                        /\ IsExternal(v.promise[p].tags)
        unresumed == [v EXCEPT !.task[t].resumes = {}]
    IN  /\ "task.suspend" \in Requests
        /\ awaited # {} /\ \A p \in awaited : ValidateCallback(p, t)
        /\ \/ ~IsAcquiredAt(v.task[t], version) /\ Request(v)
           \/ /\ IsAcquiredAt(v.task[t], version)
              /\ IF ~Holds(t) \/ ~awaitable
                 THEN Open(v, None, None, NoAfter)
                 ELSE IF AnySettled(v, awaited)
                      THEN Open(unresumed, None, None, NoAfter)
                      ELSE Open(Suspend(v, t, awaited), None, t, NoAfter)
              /\ held' = HeldAfterTest(t)
              /\ UNCHANGED <<jobs, loops>>

\* The two fenced actions.  The lease is not checked: the version is the fence.
\* Data that is not valid is refused after the fence, and then without a commit.
TaskFenceCreate(t, version, p, data) ==
    LET v == Timed({t, p})
    IN  /\ "task.fence" \in Requests
        /\ ValidateCallback(p, t)
        /\ IsAcquiredAt(v.task[t], version) => ValidateCreate(data)
        /\ Request(IF /\ IsAcquiredAt(v.task[t], version)
                      /\ v.promise[p].state = "absent"
                   THEN CreateDispatched(v, p, data, now)
                   ELSE v)

\* Mutant: a settled promise is settled again.
FenceSettleAgain(t, version, p, state) ==
    LET v == Timed({t, p})
    IN  /\ "task.fence" \in Requests
        /\ ValidateCallback(p, t)
        /\ Request(IF /\ IsAcquiredAt(v.task[t], version)
                      /\ v.promise[p].state # "absent"
                   THEN Settle(v, p, state, now)
                   ELSE v)

TaskFenceSettle(t, version, p, state) ==
    LET v == Timed({t, p})
    IN  /\ "task.fence" \in Requests
        /\ ValidateCallback(p, t)
        /\ Request(IF /\ IsAcquiredAt(v.task[t], version)
                      /\ IsPending(v.promise[p])
                   THEN Settle(v, p, state, now)
                   ELSE v)

\* Renew the leases of the named tasks that pid holds at the version it names; a
\* task named with another version is as good as not named.  A claim whose lease
\* is not renewed is dropped.  No record changes, so nothing is committed.
TaskHeartbeat(pid, named) ==
    LET mine == {t \in named : /\ task[t].state = "acquired"
                               /\ task[t].pid = pid /\ task[t].ttl # None}
        kept == {t \in mine : Renewable(t)}
    IN  /\ "task.heartbeat" \in Requests
        /\ lock = "free"
        /\ held' = [t \in Id |-> IF t \in mine \ kept THEN None ELSE held[t]]
        /\ jobs' = [j \in Job |->
                      IF \E t \in kept : held[t].job = j
                      THEN LET t == CHOOSE t \in kept : held[t].job = j
                           IN  Claimed(now + LeaseOf(task[t].ttl), held[t].ticket)
                      ELSE jobs[j]]
        /\ UNCHANGED <<now, promise, task, txnVars, loops, owed>>

\* Mutant: a fulfilled task is halted too.
TaskHaltFulfilled(t) ==
    LET v == Timed({t})
    IN  /\ "task.halt" \in Requests
        /\ Request(IF v.task[t].state # "absent" THEN Halt(v, t) ELSE v)

TaskHalt(t) ==
    LET v == Timed({t})
    IN  /\ "task.halt" \in Requests
        /\ Request(IF v.task[t].state \in {"pending", "acquired", "suspended"}
                   THEN Halt(v, t) ELSE v)

TaskContinue(t) ==
    LET v == Timed({t})
    IN  /\ "task.continue" \in Requests
        /\ Request(IF v.task[t].state = "halted"
                   THEN Continue(v, t,
                            /\ v.task[t].job # 0
                            /\ JobExists(jobs, ExecuteJob(t, v.task[t].job)))
                   ELSE v)

-----------------------------------------------------------------------------
(* Deliveries (src/network.rs, kernel::deliver) and timers (src/timers.rs) *)

QueueOf(job) ==
    CASE job[1] = "execute" -> promise[job[2]].tags.target
      [] job[1] = "unblock" -> job[3]
      [] OTHER -> Timers

\* The lease of a loop's claims.
LoopLease(l) == IF Serves[l] = Timers THEN WorkerLease ELSE RetryTimeout

\* A loop claims a due job of its queue.  It does not have the lock yet.
LoopClaim(l, job) ==
    /\ loops[l].pc = "idle"
    /\ QueueOf(job) = Serves[l]
    /\ IsDue(jobs, job, now)
    /\ LET c == [job |-> job, ticket |-> FreshTicket(job)]
       IN  /\ c \in Claim
           /\ loops' = [loops EXCEPT ![l] = [pc |-> "claimed", claim |-> c]]
           /\ jobs' = RenewLease(c, LoopLease(l))
    /\ UNCHANGED <<now, promise, task, held, txnVars, owed>>

\* A loop that is stopped while it claims: the claim is dropped with the call.
LoopClaimDropped(l, job) ==
    /\ loops[l].pc = "idle"
    /\ QueueOf(job) = Serves[l]
    /\ IsDue(jobs, job, now)
    /\ ClaimDropped(job, LoopLease(l))
    /\ UNCHANGED <<held, txnVars, loops>>

Busy(l) == [loops EXCEPT ![l].pc = "busy"]

DeliverUnblock(l) ==
    /\ loops[l].pc = "claimed" /\ loops[l].claim.job[1] = "unblock"
    /\ Open(view, l, None, [NoAfter EXCEPT !.op = "ack",
                                           !.claim = loops[l].claim])
    /\ loops' = Busy(l)
    /\ UNCHANGED <<jobs, held>>

\* Mutant: only a pending task's claim is held, any other job is stale.
DeliverPending(l) ==
    LET claim == loops[l].claim
        t == claim.job[2]
        v == Timed({t})
    IN  /\ loops[l].pc = "claimed" /\ claim.job[1] = "execute"
        /\ Open(v, l, None, IF v.task[t].state = "pending"
                            THEN [NoAfter EXCEPT !.op = "hold", !.task = t,
                                                 !.claim = claim]
                            ELSE [NoAfter EXCEPT !.op = "ack", !.claim = claim])
        /\ loops' = Busy(l)
        /\ UNCHANGED <<jobs, held>>

\* A delivered execute job: a task that was acquired when its job came back
\* returns to pending, and the claim is held for the task.  The job of a task
\* that is neither pending nor acquired is acknowledged.
DeliverExecute(l) ==
    LET claim == loops[l].claim
        t == claim.job[2]
        v == Timed({t})
    IN  /\ loops[l].pc = "claimed" /\ claim.job[1] = "execute"
        /\ \/ /\ v.task[t].state \in {"pending", "acquired"}
              /\ Open(IF v.task[t].state = "acquired" THEN Unassign(v, t) ELSE v,
                      l, None, [NoAfter EXCEPT !.op = "hold", !.task = t,
                                               !.claim = claim])
           \/ /\ v.task[t].state \notin {"pending", "acquired"}
              /\ Open(v, l, None, [NoAfter EXCEPT !.op = "ack",
                                                  !.claim = claim])
        /\ loops' = Busy(l)
        /\ UNCHANGED <<jobs, held>>

\* The timer worker fires a promise's deadline.  The clock is not read: the job
\* is scheduled at the deadline.
FirePromiseTimeout(l) ==
    LET p == loops[l].claim.job[2]
    IN  /\ loops[l].pc = "claimed" /\ loops[l].claim.job[1] = "timer"
        /\ lock = "free"
        /\ \/ /\ IsPending(view.promise[p])
              /\ Open(ExpirePromises(view, {p}, now), l, None, NoAfter)
              /\ loops' = Busy(l)
              /\ UNCHANGED <<jobs, held>>
           \/ /\ ~IsPending(view.promise[p])
              /\ loops' = [loops EXCEPT ![l].pc = "emit"]
              /\ UNCHANGED <<now, promise, task, jobs, held, txnVars, owed>>

\* Outside the lock: the unblock message reaches the callback, or the worker
\* acknowledges the fired timer.
LoopEmit(l) ==
    LET job == loops[l].claim.job
    IN  /\ loops[l].pc = "emit"
        /\ loops' = [loops EXCEPT ![l] = IdleLoop]
        /\ IF job[1] = "timer"
           THEN jobs' = Ack(jobs, loops[l].claim) /\ UNCHANGED owed
           ELSE owed' = owed \ {<<job[2], job[3]>>} /\ UNCHANGED jobs
        /\ UNCHANGED <<now, promise, task, held, txnVars>>

\* Mutant: a timer that could not be applied is acknowledged.
WorkerAck(l) ==
    /\ loops[l].pc = "failed"
    /\ loops' = [loops EXCEPT ![l] = IdleLoop]
    /\ jobs' = Ack(jobs, loops[l].claim)
    /\ UNCHANGED <<now, promise, task, held, txnVars, owed>>

\* The worker fails a timer that could not be applied, to fire it again.
WorkerNack(l) ==
    /\ loops[l].pc = "failed"
    /\ loops' = [loops EXCEPT ![l] = IdleLoop]
    /\ jobs' = Nack(jobs, loops[l].claim)
    /\ UNCHANGED <<now, promise, task, held, txnVars, owed>>

-----------------------------------------------------------------------------
(* The environment                                                         *)

Tick ==
    /\ now < MaxTime
    /\ now' = now + 1
    /\ UNCHANGED <<promise, task, jobs, held, txnVars, loops, owed>>

\* The reaper returns a job whose lease ended to its queue.
Reap(job) ==
    /\ LeaseEnded(jobs, job, now)
    /\ jobs' = Requeue(jobs, job)
    /\ UNCHANGED <<now, promise, task, held, txnVars, loops, owed>>

\* The process ends and the store is opened again: what was committed is kept,
\* and held claims, loops and the open transaction are gone.
Crash ==
    /\ "crash" \in Faults
    /\ jobs' = Reopen(jobs)
    /\ held' = [t \in Id |-> None]
    /\ view' = Committed
    /\ lock' = "free" /\ owner' = None /\ ack' = None /\ after' = NoAfter
    /\ loops' = [l \in Loop |-> IdleLoop]
    /\ UNCHANGED <<now, promise, task, owed>>

PromiseRequest ==
    \E p \in Id :
       \/ \E data \in Creations[p] : PromiseCreate(p, data)
       \/ Get(p)
       \/ \E state \in Outcomes : PromiseSettle(p, state)
       \/ \E t \in Id : PromiseRegisterCallback(p, t)
       \/ \E address \in Address : PromiseRegisterListener(p, address)

TaskRequest ==
    \E t \in Id :
       \/ \E data \in Creations[t], pid \in Pid, ttl \in Ttl :
             TaskCreate(t, data, pid, ttl)
       \/ \E version \in 0 .. MaxVersion :
             \/ \E pid \in Pid, ttl \in Ttl : TaskAcquire(t, version, pid, ttl)
             \/ TaskRelease(t, version)
             \/ \E state \in Outcomes : TaskFulfill(t, version, state)
             \/ \E awaited \in SUBSET Id : TaskSuspend(t, version, awaited)
             \/ \E p \in Id :
                   \/ \E data \in Creations[p] :
                         TaskFenceCreate(t, version, p, data)
                   \/ \E state \in Outcomes :
                         TaskFenceSettle(t, version, p, state)
       \/ TaskHalt(t)
       \/ TaskContinue(t)

TxnStep ==
    \/ Commit \/ CommitAck \/ CommitLost
    \/ \E t \in Id : FinishRelease(t)
    \/ FinishLast

LoopStep(l) ==
    \/ \E job \in Job : LoopClaim(l, job)
    \/ DeliverUnblock(l) \/ DeliverExecute(l) \/ FirePromiseTimeout(l)
    \/ LoopEmit(l) \/ WorkerNack(l)

ClientRequest ==
    \/ PromiseRequest
    \/ TaskRequest
    \/ \E pid \in Pid, named \in SUBSET Id : TaskHeartbeat(pid, named)

EnvironmentStep == Tick \/ \E job \in Job : Reap(job)

DroppedStep ==
    \/ RequestDropped
    \/ AfterClaimDropped
    \/ \E t \in Id, ttl \in Ttl : TaskCreateDropped(t, ttl)
    \/ \E l \in Loop, job \in Job : LoopClaimDropped(l, job)

FaultStep == CommitFails \/ FinishFails \/ DroppedStep \/ Crash

StoreStep ==
    \/ ClientRequest
    \/ TxnStep
    \/ \E l \in Loop : LoopStep(l)
    \/ EnvironmentStep

Next == StoreStep \/ FaultStep

Spec == Init /\ [][Next]_vars
-----------------------------------------------------------------------------
(* Safety                                                                  *)

\* A task that is to be executed is never forgotten: the job of a pending or
\* acquired task exists, whatever lease ended, claim was lost, commit failed or
\* process died on the way.
DispatchNotLost ==
    \A t \in Id : task[t].state \in {"pending", "acquired"} =>
        /\ task[t].job \in 1 .. MaxDispatch
        /\ JobExists(jobs, CurrentJob(t))

\* A task is dispatched by one job at a time: no job of an earlier dispatch is
\* alive, however often the task was suspended, halted, continued and resumed.
OneJobPerTask ==
    \A t \in Id, n \in 1 .. MaxDispatch :
        JobExists(jobs, ExecuteJob(t, n)) => n = task[t].job

\* What is settled is what is resumed: every promise a task is to observe is
\* settled, and a task that is suspended or fulfilled has none left to observe.
ResumesAreSettled ==
    \A t \in Id :
        /\ \A p \in task[t].resumes : promise[p].state \notin {"absent", "pending"}
        /\ task[t].state \in {"suspended", "fulfilled"} => task[t].resumes = {}

\* A suspended task has no live job (StoredTask): it is not delivered before an
\* awaited promise settles.
SuspendedHasNoJob ==
    \A t \in Id, n \in 1 .. MaxDispatch :
        task[t].state = "suspended" => ~JobExists(jobs, ExecuteJob(t, n))

\* A settled promise's task is fulfilled and a fulfilled task's promise settled,
\* and a promise has a task exactly when it has a target.
FulfilledIffSettled ==
    \A t \in Id :
        /\ task[t].state = "absent" <=>
              promise[t].state = "absent" \/ promise[t].tags.target = None
        /\ task[t].state # "absent" =>
              (task[t].state = "fulfilled" <=> promise[t].state # "pending")

\* No wake-up is lost: a suspended task is registered with a promise that is
\* still pending, or its own deadline has passed and ends it.
SuspendedIsAwaited ==
    \A t \in Id : task[t].state = "suspended" =>
        \/ \E p \in Id : promise[p].state = "pending" /\ t \in promise[p].callbacks
        \/ now >= promise[t].timeoutAt

\* A pending promise that a task can await has its deadline's timer in the
\* queue, until a settlement.
TimerNotLost ==
    \A p \in Id : promise[p].state = "pending" /\ IsExternal(promise[p].tags) =>
        JobExists(jobs, TimerJob(p))

\* The deadline wins: a client settles a promise strictly before its deadline,
\* a settlement at the deadline has the timeout state, and no settlement is
\* recorded at a time that has not come, although the timer does not read the
\* clock.
DeadlineWins ==
    \A p \in Id : promise[p].state \notin {"absent", "pending"} =>
        /\ promise[p].settledAt <= now
        /\ \/ promise[p].settledAt < promise[p].timeoutAt
           \/ /\ promise[p].settledAt = promise[p].timeoutAt
              /\ promise[p].state = TimeoutState(promise[p].tags)

\* A loop is about to pass the job's message to the callback.
Emitting(job) ==
    \E l \in Loop : loops[l].pc = "emit" /\ loops[l].claim.job = job

\* Every registered listener is registered with a promise that is still pending,
\* or its unblock message is in the queue or on its way to the callback, until it
\* is delivered: a failed commit or a failed acknowledgement loses none.
ListenerNotForgotten ==
    \A p \in Id, a \in Address : <<p, a>> \in owed =>
        \/ IsPending(promise[p]) /\ a \in promise[p].listeners
        \/ JobExists(jobs, UnblockJob(p, a))
        \/ Emitting(UnblockJob(p, a))

\* The promises a request names may be expired in any order, or all at once.
ExpiryOrderIrrelevant ==
    lock = "free" => \A p, q \in Id :
        TryTimeout(Timed({p}), {q}, now) = Timed({p, q})

-----------------------------------------------------------------------------
(* What the comments of the code say, and the code does not do             *)

\* "a task that was acquired when its job came back has lost its lease" (deliver,
\* src/kernel.rs): a delivery never takes a task from the holder of a live lease.
DemotedAfterLease ==
    [][\A t \in Id : /\ owner # None
                     /\ task[t].state = "acquired" /\ task'[t].state = "pending"
                     => ~Renewable(t)]_vars

-----------------------------------------------------------------------------
(* The inductive invariant behind the safety of dispatches                 *)

Active == {"pending", "acquired"}

\* The numbers of the task's dispatches that have a job in the queue, or get one
\* by the commit of view v.
Dispatches(queue, v, t) ==
    {n \in 1 .. MaxDispatch : JobExists(queue, ExecuteJob(t, n))}
        \cup {r.job[3] : r \in {r \in v.enqueue : /\ r.job[1] = "execute"
                                                /\ r.job[2] = t}}

\* The task of view v, whose commit acknowledges the held claim of `acked', has
\* the jobs its state needs and no other.
DispatchOK(queue, v, acked, t) ==
    LET state == v.task[t].state
    IN  /\ \A n \in Dispatches(queue, v, t) : n = v.task[t].job
        /\ state \in Active => v.task[t].job \in Dispatches(queue, v, t) /\ acked # t
        /\ state = "suspended" => Dispatches(queue, v, t) = {} \/ acked = t
        /\ state = "absent" => Dispatches(queue, v, t) = {}
        /\ v.promise[t].state = "absent" => state = "absent"
        /\ state \notin {"absent", "fulfilled"} => IsPending(v.promise[t])
        /\ acked = t => \A r \in v.enqueue : r.job[1] = "execute" => r.job[2] # t
        /\ t \in v.release => state \in {"halted", "fulfilled"}

\* Outside a commit the view is the committed store, and no work is left when
\* the lock is free.
ViewIsCommitted ==
    /\ lock # "commit" => /\ view = [Committed EXCEPT !.release = view.release]
                          /\ ack = None
    /\ lock = "free" => view = Committed /\ after = NoAfter /\ owner = None

\* The claim held for a task is a claim of one of its jobs, and so is the claim
\* that is to be held.  A claim to acknowledge is not one an active task needs.
ClaimsOK ==
    /\ \A t \in Id : held[t] # None =>
          held[t].job[1] = "execute" /\ held[t].job[2] = t
    /\ after.op = "hold" =>
          after.claim \in Claim /\ after.claim.job[1] = "execute"
             /\ after.claim.job[2] = after.task
    /\ after.op = "ack" =>
          after.claim \in Claim /\
             (after.claim.job[1] = "execute" =>
                view.task[after.claim.job[2]].state \notin Active)

\* The inductive invariant: the committed tasks and the view's tasks have the
\* right jobs.
DispatchInv ==
    /\ \A t \in Id : /\ DispatchOK(jobs, Committed, None, t)
                    /\ DispatchOK(jobs, view, ack, t)
    /\ InBounds(Committed) /\ InBounds(view)
    /\ ViewIsCommitted
    /\ ClaimsOK

-----------------------------------------------------------------------------
(* The inductive invariant behind the deadlines and the listeners          *)

\* The timer of a promise is there with the promise only, and is not due before
\* the deadline: it waits for it, or the deadline has passed.
TimerOnTime(p) ==
    JobExists(jobs, TimerJob(p)) =>
        /\ promise[p].state # "absent"
        /\ \/ now >= promise[p].timeoutAt
           \/ /\ jobs[TimerJob(p)].state = "waiting"
              /\ jobs[TimerJob(p)].at = promise[p].timeoutAt

\* The job is in the queue, or gets there by the commit of view v.
Queued(v, job) == JobExists(jobs, job) \/ \E r \in v.enqueue : r.job = job

\* The promise of view v has the timer it needs, set at its deadline, and is not
\* settled before its time.
TimerOK(v, p) ==
    /\ IsPending(v.promise[p]) /\ IsExternal(v.promise[p].tags) =>
          Queued(v, TimerJob(p))
    /\ \A r \in v.enqueue : r.job = TimerJob(p) =>
          v.promise[p].state # "absent" /\ r.runAt = v.promise[p].timeoutAt
    /\ v.promise[p].state \notin {"absent", "pending"} =>
          v.promise[p].settledAt \in 0 .. now

\* A listener of view v is registered with a pending promise, and one that is
\* owed a message is still registered, or the message is on its way.
ListenerOK(v, p, a) ==
    /\ a \in v.promise[p].listeners => IsPending(v.promise[p])
    /\ <<p, a>> \in owed => \/ a \in v.promise[p].listeners
                            \/ Queued(v, UnblockJob(p, a))
                            \/ Emitting(UnblockJob(p, a))

\* The claim of a timer is one of a passed deadline, and the loop that has it
\* acknowledges it when the promise is settled.
TimerClaimOK(l, p) ==
    loops[l].pc # "idle" /\ loops[l].claim.job = TimerJob(p) =>
        /\ promise[p].state # "absent" /\ now >= promise[p].timeoutAt
        /\ loops[l].pc = "emit" => ~IsPending(promise[p])
        /\ owner = l => ~IsPending(view.promise[p])

\* A claim that is acknowledged after the commit is not one of a timer, and is the
\* one of the loop that delivers.  A claim that is failed is one of a task.
AfterOK ==
    /\ after.op = "ack" => /\ after.claim.job[1] # "timer"
                           /\ owner # None /\ loops[owner].claim = after.claim
    /\ after.op = "nack" => after.task \in Id

\* The inductive invariant of the timers.
TimerInv ==
    /\ \A p \in Id : TimerOnTime(p) /\ TimerOK(Committed, p) /\ TimerOK(view, p)
    /\ \A l \in Loop, p \in Id : TimerClaimOK(l, p)
    /\ AfterOK

\* The inductive invariant of the listeners.
ListenerInv ==
    \A p \in Id, a \in Address : ListenerOK(Committed, p, a) /\ ListenerOK(view, p, a)

-----------------------------------------------------------------------------
(* What a step may never do                                                *)

\* A settlement is final: the promise's record and its task's never change.
SettledIsFinal ==
    [][\A p \in Id : promise[p].state \notin {"absent", "pending"} =>
          promise'[p] = promise[p] /\ task'[p] = task[p]]_vars

\* The version fences: it never decreases, and whoever becomes the holder of a
\* task does so at a version nobody held before.
VersionFences ==
    [][\A t \in Id :
          /\ task'[t].version >= task[t].version
          /\ task'[t].state = "acquired" =>
                \/ task'[t].version > task[t].version
                \/ IsAcquiredAt(task[t], task'[t].version)
                   /\ task'[t].pid = task[t].pid]_vars
=============================================================================
