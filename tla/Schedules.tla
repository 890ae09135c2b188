------------------------------ MODULE Schedules ------------------------------
(***************************************************************************)
(* Schedules (src/kernel.rs, src/timers.rs, src/cron.rs): a schedule has   *)
(* one next firing, whose timer is a job of the timer queue.  A firing     *)
(* creates the schedule's promise, moves the schedule to its next firing   *)
(* and enqueues the timer of that, in one commit.  Deleting a schedule     *)
(* leaves its timers behind.  The timer worker claims a due timer, fires   *)
(* it under the lock, and acknowledges it afterwards or fails it.          *)
(*                                                                         *)
(* A request and a firing are one step each: nothing but the holder of the *)
(* lock reads or writes these records.  The promises a firing creates go   *)
(* on in Store.                                                            *)
(***************************************************************************)
EXTENDS Kernel

CONSTANTS
    ScheduleId,     \* schedule ids
    ScheduleData,   \* what clients ask for: cron, template, timeout, tags
    ClientId,       \* the promise ids clients take before a schedule does
    PromiseData,    \* what clients create promises with
    Slot,           \* tells the timers in the queue apart, and bounds them
    WorkerLease,    \* lease of the timer worker's claim
    MaxMillis,      \* the largest time (i64::MAX)
    MaxTime,        \* bound on the clock
    MaxCreates,     \* bound on the schedules created
    MaxFaults       \* bound on the crashes and storage errors

\* The times a cron expression fires at.
Cron == SUBSET Nat

\* Whether a promise id names the schedule, and whether it names the firing.
Template == [id : BOOLEAN, timestamp : BOOLEAN]

\* The promise id of a firing: the template with {{.id}} and {{.timestamp}}
\* replaced.
FiringId(s, template, at) ==
    <<IF template.id THEN s ELSE None, IF template.timestamp THEN at ELSE None>>

\* The promises of schedules have a target and those of clients have none, which
\* tells them apart.
ASSUME ScheduleAssumption ==
    /\ ScheduleData \subseteq [cron : Cron, template : Template, timeout : Nat,
                               tags : Tags]
    /\ \A data \in ScheduleData : data.tags.target # None
    /\ \A s \in ScheduleId, data \in ScheduleData : \A at \in data.cron :
          FiringId(s, data.template, at) \in Id
    /\ PromiseData \subseteq CreateData /\ ClientId \subseteq Id
    /\ \A data \in PromiseData : data.tags.target = None
    /\ MaxMillis \in Nat /\ MaxTime \in Nat /\ MaxTime <= MaxMillis
    /\ WorkerLease \in Nat /\ MaxCreates \in Nat /\ MaxFaults \in Nat

VARIABLES
    now,        \* the queue's clock
    schedule,   \* the schedule records
    promise,    \* the promise records
    task,       \* the task records
    enqueued,   \* the jobs enqueued for the promises: dispatches and deadlines
    timer,      \* the schedule timers in the timer queue
    worker,     \* the timer worker
    creates,    \* the schedules created so far
    faults      \* the faults so far

vars == <<now, schedule, promise, task, enqueued, timer, worker, creates, faults>>

ScheduleRecord ==
    [cron : Cron, template : Template, timeout : Nat, tags : Tags,
     createdAt : Nat, nextRunAt : Nat, lastRunAt : Nat \cup {None}]

\* A timer of the firing of schedule `id' at `at', its state in the queue and
\* the time its lease ends.
TimerRecord ==
    [id : ScheduleId \cup {None}, at : Nat,
     state : {"none", "waiting", "claimed"}, expiry : Nat]

NoTimer == [id |-> None, at |-> 0, state |-> "none", expiry |-> 0]

WaitingTimer(s, at) == [id |-> s, at |-> at, state |-> "waiting", expiry |-> 0]

IdleWorker == [pc |-> "idle", slot |-> None]

Init ==
    /\ now = 0
    /\ schedule = [s \in ScheduleId |-> None]
    /\ promise = [p \in Id |-> NoPromise]
    /\ task = [t \in Id |-> NoTask]
    /\ enqueued = {}
    /\ timer = [k \in Slot |-> NoTimer]
    /\ worker = IdleWorker
    /\ creates = 0 /\ faults = 0

-----------------------------------------------------------------------------
\* The first firing strictly after a time, None when there is none.
NextAfter(cron, after) ==
    LET later == {c \in cron : c > after}
    IN  IF later = {} THEN None
        ELSE CHOOSE c \in later : \A d \in later : c <= d

\* Mutant: the sum wraps.
WrappingAdd(a, b) == (a + b) % (MaxMillis + 1)

SaturatingAdd(a, b) == IF a + b > MaxMillis THEN MaxMillis ELSE a + b

\* The timer slots that are free.
FreeSlots == {k \in Slot : timer[k].state = "none"}

FreeSlot == CHOOSE k \in FreeSlots : TRUE

Schedule(s, at) == [timer EXCEPT ![FreeSlot] = WaitingTimer(s, at)]

-----------------------------------------------------------------------------
\* A schedule that exists is returned as it is, and an expression that does not
\* fire again is refused.
ScheduleCreate(s, data) ==
    LET next == NextAfter(data.cron, now)
    IN  /\ creates < MaxCreates /\ FreeSlots # {}
        /\ schedule[s] = None /\ next # None
        /\ schedule' = [schedule EXCEPT ![s] =
                [cron |-> data.cron, template |-> data.template,
                 timeout |-> data.timeout, tags |-> data.tags,
                 createdAt |-> now, nextRunAt |-> next, lastRunAt |-> None]]
        /\ timer' = Schedule(s, next)
        /\ creates' = creates + 1
        /\ UNCHANGED <<now, promise, task, enqueued, worker, faults>>

\* The schedule's timers stay in the queue.
ScheduleDelete(s) ==
    /\ schedule[s] # None
    /\ schedule' = [schedule EXCEPT ![s] = None]
    /\ UNCHANGED <<now, promise, task, enqueued, timer, worker, creates, faults>>

Records0 == [promise |-> promise, task |-> task, enqueue |-> {}, release |-> {}]

Write(v) ==
    /\ promise' = v.promise /\ task' = v.task
    /\ enqueued' = enqueued \cup v.enqueue

\* A client takes the id of a promise before a schedule does.
PromiseCreate(p, data) ==
    /\ ValidateCreate(data) /\ promise[p].state = "absent"
    /\ Write(CreateDispatched(Records0, p, data, now))
    /\ UNCHANGED <<now, schedule, timer, worker, creates, faults>>

-----------------------------------------------------------------------------
(* The timer worker                                                        *)

ClaimTimer(k) ==
    /\ worker.pc = "idle"
    /\ timer[k].state = "waiting" /\ timer[k].at <= now
    /\ timer' = [timer EXCEPT ![k].state = "claimed",
                              ![k].expiry = now + WorkerLease]
    /\ worker' = [pc |-> "claimed", slot |-> k]
    /\ UNCHANGED <<now, schedule, promise, task, enqueued, creates, faults>>

\* Mutant: the schedule goes on from the present time.
FollowingNow(s) == NextAfter(schedule[s].cron, now)

\* The firing after the next one.
Following(s) == NextAfter(schedule[s].cron, schedule[s].nextRunAt)

NextPromise(s) == FiringId(s, schedule[s].template, schedule[s].nextRunAt)

\* Create the promise of the next firing, unless it exists.
FirePromise(s) ==
    LET data == [timeoutAt |-> SaturatingAdd(schedule[s].nextRunAt,
                                             schedule[s].timeout),
                 tags      |-> schedule[s].tags]
    IN  Write(IF promise[NextPromise(s)].state = "absent"
              THEN CreateDispatched(Records0, NextPromise(s), data, now)
              ELSE Records0)

\* Mutants: a firing whose promise exists is not followed by a timer, and a
\* schedule that ends has no next firing.
MoveOnOnce(s) ==
    LET next == Following(s)
    IN  /\ schedule' = [schedule EXCEPT
                ![s].lastRunAt = schedule[s].nextRunAt,
                ![s].nextRunAt = IF next = None THEN @ ELSE next]
        /\ timer' = IF next = None \/ promise[NextPromise(s)].state # "absent"
                    THEN timer ELSE Schedule(s, next)

MoveOnUnset(s) ==
    LET next == Following(s)
    IN  /\ schedule' = [schedule EXCEPT
                ![s].lastRunAt = schedule[s].nextRunAt,
                ![s].nextRunAt = next]
        /\ timer' = IF next = None THEN timer ELSE Schedule(s, next)

\* Move on by one firing.  The next firing of a schedule that ends stays the last
\* one.
MoveOn(s) ==
    LET next == Following(s)
    IN  /\ schedule' = [schedule EXCEPT
                ![s].lastRunAt = schedule[s].nextRunAt,
                ![s].nextRunAt = IF next = None THEN @ ELSE next]
        /\ timer' = IF next = None THEN timer ELSE Schedule(s, next)

FireSchedule(s) == FirePromise(s) /\ MoveOn(s)

\* Mutant: any timer of a schedule fires it.
ActsAny(k) == schedule[timer[k].id] # None

\* A timer acts when it is the one of the schedule's next firing.
Acts(k) ==
    schedule[timer[k].id] # None /\ schedule[timer[k].id].nextRunAt = timer[k].at

Fire ==
    /\ worker.pc = "claimed"
    /\ \/ /\ Acts(worker.slot) /\ FreeSlots # {}
          /\ FireSchedule(timer[worker.slot].id)
       \/ ~Acts(worker.slot) /\ UNCHANGED <<schedule, promise, task, enqueued, timer>>
    /\ worker' = [worker EXCEPT !.pc = "fired"]
    /\ UNCHANGED <<now, creates, faults>>

\* The commit of the firing fails.
FireFails ==
    /\ worker.pc = "claimed" /\ Acts(worker.slot)
    /\ faults < MaxFaults /\ faults' = faults + 1
    /\ worker' = [worker EXCEPT !.pc = "failed"]
    /\ UNCHANGED <<now, schedule, promise, task, enqueued, timer, creates>>

\* Mutant: a timer that could not be fired is acknowledged too.
WorkerSettlesAll ==
    /\ worker.pc \in {"fired", "failed"}
    /\ timer' = [timer EXCEPT ![worker.slot] =
                    IF @.state # "claimed" THEN @ ELSE NoTimer]
    /\ worker' = IdleWorker
    /\ UNCHANGED <<now, schedule, promise, task, enqueued, creates, faults>>

\* The worker acknowledges the timer, or fails it to fire it again.  Neither has
\* an effect when the lease has ended and the timer is back in the queue.
WorkerSettles ==
    /\ worker.pc \in {"fired", "failed"}
    /\ timer' = [timer EXCEPT ![worker.slot] =
                    IF @.state # "claimed" THEN @
                    ELSE IF worker.pc = "fired" THEN NoTimer
                    ELSE WaitingTimer(@.id, @.at)]
    /\ worker' = IdleWorker
    /\ UNCHANGED <<now, schedule, promise, task, enqueued, creates, faults>>

-----------------------------------------------------------------------------
(* The environment                                                         *)

Reap(k) ==
    /\ timer[k].state = "claimed" /\ timer[k].expiry <= now
    /\ timer' = [timer EXCEPT ![k] = WaitingTimer(@.id, @.at)]
    /\ UNCHANGED <<now, schedule, promise, task, enqueued, worker, creates, faults>>

Tick ==
    /\ now < MaxTime
    /\ now' = now + 1
    /\ UNCHANGED <<schedule, promise, task, enqueued, timer, worker, creates, faults>>

Crash ==
    /\ faults < MaxFaults /\ faults' = faults + 1
    /\ worker' = IdleWorker
    /\ timer' = [k \in Slot |-> IF timer[k].state = "claimed"
                                THEN WaitingTimer(timer[k].id, timer[k].at)
                                ELSE timer[k]]
    /\ UNCHANGED <<now, schedule, promise, task, enqueued, creates>>

WorkerStep == Fire \/ WorkerSettles \/ \E k \in Slot : ClaimTimer(k)

Next ==
    \/ \E s \in ScheduleId :
          ScheduleDelete(s) \/ \E data \in ScheduleData : ScheduleCreate(s, data)
    \/ \E p \in ClientId, data \in PromiseData : PromiseCreate(p, data)
    \/ WorkerStep
    \/ FireFails
    \/ \E k \in Slot : Reap(k)
    \/ Tick
    \/ Crash

\* The worker and the clock go on.
Fairness ==
    /\ WF_vars(Fire \/ WorkerSettles)
    /\ \A k \in Slot : SF_vars(ClaimTimer(k))
    /\ WF_vars(Tick)

Spec == Init /\ [][Next]_vars /\ Fairness

-----------------------------------------------------------------------------
TypeOK ==
    /\ now \in Nat
    /\ schedule \in [ScheduleId -> ScheduleRecord \cup {None}]
    /\ promise \in [Id -> StoredPromise]
    /\ task \in [Id -> StoredTask]
    /\ enqueued \subseteq EnqueueRequest
    /\ timer \in [Slot -> TimerRecord]
    /\ worker \in [pc : {"idle", "claimed", "fired", "failed"},
                   slot : Slot \cup {None}]
    /\ creates \in 0 .. MaxCreates /\ faults \in 0 .. MaxFaults

\* The last firing of the schedule has taken place.
HasEnded(s) == schedule[s].lastRunAt = schedule[s].nextRunAt

\* A schedule never falls silent: as long as it has a firing to come, the timer of
\* its next firing is in the queue, whatever failed or was deleted and created
\* again.
NextFiringIsScheduled ==
    \A s \in ScheduleId : schedule[s] # None /\ ~HasEnded(s) =>
        \E k \in Slot : /\ timer[k].state # "none" /\ timer[k].id = s
                        /\ timer[k].at = schedule[s].nextRunAt

\* No firing is skipped, not even one whose time passed while the process was
\* down or the worker late: each time the expression names between the creation
\* of the schedule and its next firing has its promise.
NoFiringIsSkipped ==
    \A s \in ScheduleId : schedule[s] # None =>
        \A c \in schedule[s].cron :
            /\ schedule[s].createdAt < c
            /\ c < schedule[s].nextRunAt \/ HasEnded(s)
            => promise[FiringId(s, schedule[s].template, c)].state # "absent"

\* A schedule does not fire early: a promise with the tags of a schedule and the
\* id of a firing is not there before the time of the firing, although timers of
\* an earlier schedule with the same id may still come.
NoFiringIsEarly ==
    \A s \in ScheduleId, c \in (now + 1) .. MaxMillis :
        LET p == <<s, c>>
        IN  p \in Id /\ promise[p].state # "absent" => promise[p].tags.target = None

\* The deadline of a promise a schedule created is not before its firing, however
\* long the timeout is.
DeadlineAfterFiring ==
    \A p \in Id : promise[p].tags.target # None /\ p[2] # None =>
        promise[p].timeoutAt >= p[2]

\* A schedule fires: its next firing comes to pass, or it is deleted.
ScheduleFires ==
    \A s \in ScheduleId, n \in 0 .. MaxTime :
        /\ schedule[s] # None
        /\ schedule[s].nextRunAt = n /\ ~HasEnded(s)
        ~> \/ schedule[s] = None
           \/ schedule[s].nextRunAt # n \/ HasEnded(s)
=============================================================================
