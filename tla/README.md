# A TLA+ model of resonate-sdk-taquba

`resonate-sdk-taquba` runs the Resonate protocol (durable promises, and tasks
that execute them) inside the process of its application, on a Taquba queue. The
queue keeps both the records and the jobs: a task's dispatch, a listener's
unblock message and a promise's deadline are jobs. This directory models the
store, checks the model with TLC on small instances, and proves its safety with
TLAPS for every instance: of dispatches, holders, awaiting, settlement, timers,
messages, schedules, searches, names and the life of networks, and that the store
implements an abstract protocol.

## The system

| part | state | operations | meets |
|---|---|---|---|
| records (`records.rs`) | promises with their callbacks and listeners, tasks, schedules | tag rules, `transition` | kernel |
| kernel, promises (`kernel.rs`) | none of its own | create, get, settle, register_callback, register_listener, search | txn |
| kernel, tasks (`kernel.rs`) | none of its own | create, acquire, release, fulfill, suspend, fence, heartbeat, get, halt, continue, search | txn |
| transaction (`txn.rs`) | write buffer, enqueues, work after the commit; the held claims | commit, commit_ack, finish, holds, renew, claim_job | queue |
| delivery loop (`network.rs`) | the claim in its hands | claim, `kernel::deliver` under the lock, callback outside it | queue, lock, SDK |
| timers (`timers.rs`, `store.rs`) | the claim of the timer worker | `fire` for promise deadlines and schedules | queue, lock |
| schedules (`kernel.rs`, `cron.rs`) | schedule records | create, get, delete, search, `fire_schedule` | txn, timers |
| Taquba (a library) | jobs, claims, leases, key-value entries | claim, claim_by_id, renew, ack, ack_with, nack, commit_effects, the reaper, reopen | |
| search and preload (`kernel.rs`, `txn.rs`) | the branch index | three searches by page, the preload of a branch | txn, SDK |
| network (`network.rs`) | callbacks, the handles of its loops | build, recv, start, stop | loops, SDK |
| store (`store.rs`) | the queue and the lock, shared with networks and loops | open, close | queue, networks |
| keys (`keys.rs`) | none | key and queue names | queue |
| envelope (`envelope.rs`) | none | parsing, responses | |

One lock serialises every request, delivery and timer. It does not serialise the
queue: the reaper returns a job whose lease ended at any moment, and a delivery
loop claims its job before it asks for the lock. What is hard is there: a lease
that ends under its holder, a claim lost between its check and the commit that
acknowledges it, a process that ends (or a storage call that fails) between the
commit and the work that follows it, a stale delivery, deadlines against late
settlements, and sequences of halt, continue, suspend and resume that must
neither lose a task's job nor make a second one. A client may drop its request's
future at any await, a schedule's older timers outlive it, records change between
the pages of a search, and starts and stops of a network interleave.

What makes the parts correct:

- dispatch: a task that is to run has its job, one task has one job, and a
  suspended task has none;
- holders: a version is held once, and never goes down;
- awaiting: no wake-up is lost, none comes before a settlement;
- settlement: final, at the latest at the deadline, and the task's fate is the
  promise's;
- messages and timers: a registered listener is told, a deadline's timer is in
  the queue until the promise settles;
- schedules: the next firing has its timer, no firing is skipped or early;
- reading: a walk through pages misses nothing and repeats nothing, a preload is
  the beginning of its branch;
- names: two addresses have two queues, and a branch's scan finds that branch;
- networks: no loop is left behind, a started network is served, a message at a served
  address is delivered, a stop returns, and no loop outlives its network, so that the store closes when
  the networks are gone.

## The modules

| module | models |
|---|---|
| `Records` | the records and tag rules of `records.rs`, and `lease_of` |
| `Taquba` | the queue's jobs, claims and leases; external, from its use in `txn.rs`, `network.rs`, `store.rs` |
| `Kernel` | what the handlers compute, as operators on a transaction's view: `try_timeout`, `settle_chain`, `resume_awaiter`, `create_promise`, `acquire`, ... |
| `Store` | the state machine: requests, the phases of a transaction, delivery loops, the timer worker, reaper, clock and faults, and the properties |
| `StoreLive` | `Store` under fairness, with time that does not end, and what must eventually happen |
| `Protocol` | the abstract specification: how promises and tasks may move in one commit, as clients see it |
| `Refinement` | the mapping by which `Store` implements `Protocol` |
| `Schedules` | schedule requests, firings and the timer worker, on the operators of `Kernel` |
| `Search` | searches page by page, and the preload |
| `Keys` | queue names, lineage of ids, keys of the branch index |
| `Network` | build, recv, start, stop, delivery loops and the store's close |
| `MCStore`, `MCLive`, `MCSchedules`, `MCSearch`, `MCKeys`, `MCNetwork` | instances for TLC |
| `KernelProofs` | proofs: what the operators of `Kernel` do to a view |
| `StoreProofs` | proofs: the type invariant of `Store`, and the safety of dispatches |
| `RefinementProofs` | proofs: the kinds of steps there are, deadlines in any order, and that `Store` implements `Protocol`, with awaiting, settlement and holders |
| `DeliveryProofs` | proofs: timers, deadlines and listeners |
| `NetworkProofs` | proofs: starts, stops and the store's close |
| `SchedulesProofs` | proofs: no schedule falls silent, skips a firing or fires early |
| `SearchProofs` | proofs: walks through pages, and preloads |
| `KeysProofs` | proofs: queue names, lineage and scans of the branch index |

`Records`, `Taquba`, `Kernel` and `Store` extend each other in this order.
`StoreLive` and `Refinement` extend `Store`, and `Refinement` instantiates
`Protocol`. `Schedules` extends `Kernel`. `Search`, `Keys` and `Network` stand
alone: they meet the rest in the records they read and the jobs they pass on, and
what they need of those is small. The proofs about `Store` extend each other in the
order of the table; the others extend the module they are about, and `SchedulesProofs`
also `KernelProofs`.

State. `promise` and `task` are the committed records, `jobs` the queue, `held`
the map `Held`, `now` the queue's clock, `loops` the delivery loops and the timer
worker. `view`, `lock`, `owner`, `ack` and `after` are the open transaction: the
records as it reads them through its write buffer, with the jobs it will enqueue
and the claims it will release (`view`), its phase (`lock`), the loop it belongs
to, the task whose claim its commit acknowledges, and the last item of
`Txn::after`. `owed` is a history variable: the registered listeners that have
not been told.

Actions. A handler is one action: it runs under the lock, at one `now`, and
leaves a view. The effects it has at once (a lease renewed, a job claimed by id, a
dead claim dropped) are in the same action. Its commit is a second step
(`Commit`, or `CommitAck`, `CommitLost` when it acknowledges a claim) and each
item of work after the commit a further one (`FinishRelease`, `FinishLast`); the
reaper, the clock, loops outside the lock and crashes come between. `CommitFails`
and `FinishFails` are storage errors, or a request whose client dropped its future
at that await. `RequestDropped` is a request dropped after its commit with the work
that follows undone, or in the call that commits and acknowledges, whose claim stays
in `Held` although its job is gone; `TaskCreateDropped`, `AfterClaimDropped` and
`LoopClaimDropped` are calls that claim a job and are dropped before anyone has the
claim, which only the end of its lease undoes. `LoopClaim`, the delivery (`DeliverUnblock`,
`DeliverExecute`, `FirePromiseTimeout`) and `LoopEmit` or `WorkerNack` are the
three stages of a loop: before, under and after the lock. `Crash` drops the
process state and reopens the queue, which requeues every claimed job.

`Schedules`. A request and a firing are one step, as nothing but the holder of the
lock touches their records. The timer queue holds jobs for one firing of one schedule
each (`timer`); `ClaimTimer`, `Fire` and `WorkerSettles` are the worker's stages, and
`FireFails`, `Reap` and `Crash` come between them. A cron expression is the set of
times it fires at, a template says whether the promise's id names the schedule and
the firing. The firing's promise goes through `Kernel!CreateDispatched`.

`Search`. The records of one kind, which other requests change one at a time, and one
client's walk. `walk.steady` is a history variable: the ids that matched at every
moment since the walk began. Ids are numbers, as only their order matters, and a scan
gives each id its place by the number of ids before it (`InOrder`).

`Keys`. Strings are sequences of the few bytes that the rules tell apart. The SHA-256
digest of a long address is the address itself under another prefix: that the digest
has no collisions is assumed.

`Network`. A stop is four steps: it takes the handles, asks the next loop to end, waits
for it, and forgets the callbacks. A loop claims, waits for the store's lock, delivers
under it and calls the callbacks; what else takes the lock are requests (`SendLocks`,
`SendReturns`, of which nothing but the lock is in this module) and the timers
(`TimerLocks`, `TimerFires`). A task that waits for the lock to send a request is not in a
call yet. The close waits for the timers and then looks at who else has the store's state:
the queue stays open for a network or a loop (`"running"`), or because the application has
a handle of the queue of its own (`"shared"`). Messages are unblock messages. The
application drops a network only when it is stopped. `start` does not ask for a callback;
`RegistersFirst` says whether the application registers one before it starts a network.
It need not in `lifecycle`, and does in `stop_race`, which would otherwise show no more
than that a network without a callback calls nobody.

A claim carries a ticket, which tells it from the other claims of the same job
that are still about: the lease registry is read by job (`LeaseLive`), while
settling or renewing asks for the claim itself (`IsCurrent`). A task's jobs are
numbered by its dispatches, and `task.job` is the number of the last.

Abstractions:

- Payloads, headers, creation times, response text and status codes are left out;
  of the tags, the ones the kernel reads are kept. Validation that only concerns
  the text of a request refuses it without effect and is left out.
- A write that leaves the records as they were is no write. In the code it is a
  commit without a change.
- The promises of one request are expired together. The code's order, one after the
  other, gives the same, which is proved (`ExpiryInAnyOrder`).
- The releases after one commit happen in any order.
- The execute message is not modelled: a request of any worker, with any version,
  may come at any time, which includes the ones the message prompts, late and
  repeated ones.
- A heartbeat that names a task with another version is one that does not name it.
- `claim_by_id` takes a job that is scheduled for later, as `task.create` relies
  on. The backoff of the timer queue is an immediate retry.
- A read that fails with a storage error ends its request without a commit, with
  the lease renewed or the job claimed if that came first: what `CommitFails` does.

## The runs

Times are ticks; the retry timeout and the worker's lease are one tick, so every
lease can end in the instance.

| run | instance | checks |
|---|---|---|
| `lease` | one task, two workers, two loops on one address, leases of 0 and 1, crashes, storage errors, dropped requests | `TypeOK`, `DispatchNotLost`, `OneJobPerTask`, `VersionFences` |
| `await` | a task (deadline 2) and a promise it awaits (deadline 1), loop, timer worker, crashes; halt and continue | `SuspendedIsAwaited`, `SuspendedHasNoJob`, `FulfilledIffSettled`, `ResumesAreSettled`, `ProtocolInv`, `ExpiryOrderIrrelevant`, `ImplementsProtocol` |
| `chain` | a parent task and a child task it creates and settles through its fence, crashes | `DispatchInv`, `SuspendedIsAwaited`, `SettledIsFinal`, `ImplementsProtocol` |
| `listen` | promises of every kind without a task, listeners on two addresses, two loops, timer worker, storage errors and dropped calls that end some day, under fairness | `ListenerNotForgotten`, `TimerInv`, `TimerNotLost`, `DeadlineWins`, `ListenerIsTold` |
| `wake` | a task that is dispatched late and a promise it awaits, loop, timer worker, crashes, storage errors and dropped calls that end some day, under fairness | `NoTaskIsStranded`, `DeadlineComes` |
| `schedule` | one schedule id, created twice, with one template per firing or one for all; three firings, two crashes or failed commits; a client that takes the second firing's id | `TypeOK`, `NextFiringIsScheduled`, `NoFiringIsSkipped`, `NoFiringIsEarly`, `DeadlineAfterFiring`, `ScheduleFires` |
| `search` | five ids of each kind, pages of two, a branch with a preload limit of one, five changes | `WalkMissesNothing`, `WalkGoesForward`, `PreloadIsFirstOfBranch` |
| `keys` | every two addresses, and every two promises with ids, of up to three bytes | `DistinctQueues`, `BranchInOrigin`, `BranchScanIsExact` |
| `lifecycle` | one network, two tasks that start and stop it and send requests, timers, one fault, the store's close | `NoLoopIsLeftBehind`, `StartedIsServed`, `ClosesUnlessAlive`, `StopReturns`, `MessageArrives` |
| `stale_delivery` | one task, one loop, `task.create` | violates `DemotedAfterLease` |
| `lost_unblock` | one listener, crashes | violates `ListenerNotForgotten` |
| `stop_race` | one network, two tasks, no faults | violates `DeliveredIsSeen` |

Bounds. `MaxTime` 1 to 3 lets leases and deadlines pass before, between and after
the other steps. `MaxDispatch` 2 and `MaxVersion` 2 let a task be dispatched and
acquired again after each way of losing it; a step beyond a bound is not taken
(`InBounds`). `Ticket` has one more value than claims of one job can be about at
once. The runs of `MCStore` and `MCLive` check for deadlock: the lock is always
returned. The others end when their bounds are used up and do not.

In `schedule` the largest time (`MaxMillis`, for the end of the 64-bit range) is one
past the clock's bound, so that a firing's deadline saturates. Two creations are
enough for a timer of the earlier schedule to meet the later one before, at and after
its own firing. `Slot` bounds the timers in the queue: a schedule is not created and
does not fire while none is free, and the instance has more than it ever uses.

In `search` a branch has up to three siblings and one more that the request creates, at a
limit of one, so that the scan stops early and the request's own promise sorts before
what it found. In `keys` the length limit lies between the escaped lengths of addresses
of one size. In `wake` the task's deadline never comes, so that only its jobs keep it
going. In `lifecycle` `LoopId` bounds the starts, two loops each: two starts let every
stop meet loops of another start.

`TypeOK` is more than typing in one place: the end of a lease is a natural number
whatever ttl a worker sends. `DispatchInv`, `ProtocolInv` and `TimerInv` are inductive
invariants of the proofs; each is checked where what it speaks of meets: `DispatchInv`
with suspensions, fan-outs and fences, `ProtocolInv` with halted tasks, settlements and
late deadlines, `TimerInv` with failed firings.

### Fairness

The safety runs assume none. `StoreLive!LiveSpec` assumes what the runtime gives:

- the transaction that has the lock goes on (`WF` of `TxnStep`): it is a task of the
  runtime that waits only for the queue;
- who asks for the lock gets it (`SF` of `LoopLocked`): a tokio mutex is handed out in
  the order of the requests, while clients may take it again and again;
- loops claim and call back, the reaper and the clock go on (`WF`).

Clients owe nothing: no request is fair. Faults come any number of times but end some day
(`FaultsEnd`), as no delivery is certain if every commit may fail. That claims of the
loops succeed is part of the assumption, since a failed claim ends a loop by design. `Tick`
stops at `MaxTime`; from there on `LaterTick` lowers what remains of leases and of execute jobs'
start times. For promise deadlines, which have passed by then or lie at `Far`
and never come, this is exact. A delivery counts when its commit has been made
(`Delivering`): the clock may outrun any lease, so that no bound on the time from claim to
acquire can be promised. `listen` has no tasks: where the clock outruns every lease, an
address's loop may be busy with a job that comes back for ever, and whether another job
of the queue is claimed in between is for the queue's order to say, which is not modelled.

`Network!Fairness` is the same for the steps of a stop, a loop and the reaper: a loop that
waits for the store's lock gets it (`SF` of `LoopLocks`), and requests and timers give it
back (`WF` of `SendReturns` and `TimerFires`). No task has to begin a call. That callbacks
return is assumed: they are the application's.
`Schedules!Spec` makes the worker and the clock fair; claims of a timer are strongly fair,
as the worker takes each due timer in turn.

### The refinement

`Protocol` has promises and tasks as clients see them, without jobs, held claims, locks
and loops, and says how one commit may change them: a promise settles once, by its own
outcome before the deadline or by the deadline after it; a task gets a new version only
with a new holder; it sleeps only with an unsettled promise that will wake it, and what
wakes it is a settlement. `Refinement` maps the committed records of `Store` to it, and
`ImplementsProtocol` says that each step of `Store`, with crashes and lost claims, is a
step of `Protocol` or leaves the records alone.

### What the disagreements show

- `stale_delivery`: a loop claims the job and waits for the lock, its lease ends,
  the reaper requeues the job, and a `task.create` claims it by id and acquires the
  task. The loop gets the lock, finds the task acquired and returns it to pending,
  although its holder's lease is live, and holds its own claim, which is lost. The
  task is safe (`DispatchNotLost`); its holder has lost it early.
- `lost_unblock`: the unblock job is acknowledged in the work after the delivery's
  commit and the callback runs afterwards. A process that ends in between never
  delivers the message, where the documentation promises at least once. Without
  crashes `ListenerNotForgotten` holds (`listen`), storage errors included.
- `stop_race`: a stop that is in progress forgets the callback of a network that was
  started again in the meantime: it takes the handles, releases the mutex, waits for the
  loops and then clears the callbacks, whoever registered them.

Three more comments are narrower than they read; the models follow the code and none of the
runs in the table is about them:

- `StoredTask` says that no live job exists for a suspended, halted or fulfilled task.
  `task_halt` ends only a held claim, and its own comment says that a waiting job is dropped
  at its delivery; `task_continue` relies on that job. It is so for suspended tasks, which
  is proved (`SuspendedTaskHasNoJob`).
- The kernel's comment says that a request never observes an expired promise as pending.
  That is so for the promises a request names. A search returns the records as they are,
  and so does a preload, until the timer fires.
- The branch index rests on ids without a null byte. `promise.create` and fenced creations
  check it; `fire_schedule` creates a promise with the id its template spells out, unchecked,
  and an id with a null byte falls into the scan of another branch: the key of a promise
  whose id is a branch, a null byte and more has the prefix of that branch, and the preload
  takes the rest of the key for a sibling's id. There is mostly no such promise, but the
  entry takes a place under the preload limit. `keys` fires templates without a null byte;
  `NullByte.cfg`, an instance of `MCKeys` with one, violates `BranchScanIsExact` in two
  steps and is kept beside the runs.

## The proofs

For every set of ids, addresses, workers, loops and networks, every value of the bounds
and all faults, from the named assumptions on the constants: `NoneAssumption`,
`QueueAssumption` and `StoreAssumption` (that `None` is no value of the other types,
that there is a ticket, that the parameters have their types), `NetworkAssumption` (the
loops are numbered, a network's two addresses differ), `ScheduleAssumption` (what
clients may ask for is well typed, a firing's id is an id, and the promises of schedules
have a target while those of clients have none, which only serves to tell them apart in
the properties), `SearchAssumption` (ids are finitely many numbers, a search's default limit
is a valid one) and `KeysAssumption` (a byte that is not kept has two digits of its own,
which are kept bytes, and the underscore is not kept; what schedules spell out are strings).

| module | theorem | says |
|---|---|---|
| `StoreProofs` | `TypeCorrect` | `Spec => []TypeOK` |
| | `DispatchInvariant` | `Spec => []DispatchInv` |
| | `DispatchIsNotLost` | `Spec => []DispatchNotLost` |
| | `TaskHasOneJob` | `Spec => []OneJobPerTask` |
| | `SuspendedTaskHasNoJob` | `Spec => []SuspendedHasNoJob` |
| `RefinementProofs` | `ExpiryInAnyOrder` | `Spec => []ExpiryOrderIrrelevant` |
| | `ProtocolInvariant` | `Spec => []ProtocolInv` |
| | `StoreImplementsProtocol` | `Spec => ImplementsProtocol` |
| | `PromiseAndTaskAgree` | `Spec => []FulfilledIffSettled` |
| | `OnlySettledIsResumed` | `Spec => []ResumesAreSettled` |
| | `WakeUpIsNotLost` | `Spec => []SuspendedIsAwaited` |
| | `SettlementIsFinal` | `Spec => SettledIsFinal` |
| | `VersionIsAFence` | `Spec => VersionFences` |
| `DeliveryProofs` | `TimerInvariant` | `Spec => []TimerInv` |
| | `TimerIsNotLost` | `Spec => []TimerNotLost` |
| | `DeadlineIsKept` | `Spec => []DeadlineWins` |
| | `ListenerIsNotForgotten` | without crashes, `Spec => []ListenerNotForgotten` |
| `NetworkProofs` | `NoLoopLeftBehind` | `Spec => []NoLoopIsLeftBehind` |
| | `StartedNetworkIsServed` | `Spec => []StartedIsServed` |
| | `CloseDependsOnNetworks` | `Spec => ClosesUnlessAlive` |
| `SchedulesProofs` | `ScheduleTypeCorrect` | `Spec => []TypeOK` |
| | `ScheduleNeverSilent` | `Spec => []NextFiringIsScheduled` |
| | `FiringsAreNotSkipped` | `Spec => []NoFiringIsSkipped` |
| | `FiringsAreNotEarly` | `Spec => []NoFiringIsEarly` |
| | `DeadlineFollowsFiring` | `Spec => []DeadlineAfterFiring` |
| `SearchProofs` | `WalksMissNothing` | `Spec => []WalkMissesNothing` |
| | `WalksGoForward` | `Spec => []WalkGoesForward` |
| | `PreloadsAreFirstOfBranch` | `Spec => []PreloadIsFirstOfBranch` |
| `KeysProofs` | `QueuesAreDistinct` | `Spec => []DistinctQueues` |
| | `BranchesStayInOrigin` | `Spec => []BranchInOrigin` |
| | `BranchScansAreExact` | when no schedule spells out a null byte, `Spec => []BranchScanIsExact` |

Types. `TypeOK` of `Store` is not inductive: a step that returns the lock sets the state
of the loop that owns the transaction, so the owner has to be a loop that is busy
(`OwnerIsBusy`). `TypeInv` adds that. `KernelProofs` first shows what each operator of
`Kernel` does to a view's type, then `StoreProofs` has one lemma per action.

Dispatches. `DispatchNotLost` and `OneJobPerTask` are not inductive either, as they say
nothing of the transaction whose commit will make them true or false. `DispatchInv`
says of the committed records, and of the open view, that each task has the jobs
its state needs (`DispatchOK`): every dispatch in the queue, or in the view's
enqueues, is the task's last; an active task has it, and is not the one whose claim
the commit acknowledges; a suspended task has none, or is the one whose claim the
commit acknowledges, and then nothing is enqueued for it; a task in the release list
is halted or fulfilled. Together with this: outside a commit the view is the
committed store (`ViewIsCommitted`), a held claim is a claim of the task's own job,
and a claim that is to be acknowledged is not one of an active task's
(`ClaimsOK`). The steps: a handler leaves a view that is right against
the present queue; the environment can only move jobs between waiting and claimed;
a commit turns the view into the records; what follows the commit ends jobs only of
tasks that need none. The kernel's operators are handled by one lemma each
(settlement, creation, acquisition, suspension, halt, continue), and the actions by
one lemma each on top of them.

The refinement. `RefinementProofs` first takes stock of what the steps of `Store` are:
a step opens a transaction on a view that one of a few effects made out of the committed
one, or stores the view (or gives it up), or leaves the records alone (`StepKinds`).
`Protocol`'s step could be proved of a handler's view when the handler runs, but the
commit comes later: the clock has moved on, and other deadlines have passed. So
`ProtocolInv` says that an open view is a legal transaction on the committed records
(`Legal`) for as long as it is open: the clock only makes more deadlines pass, which
legality withstands (`LegalLater`). Legality needs facts of the committed records that no
property asks for by itself (`RecordsOK`: only an acquired task has a holder, who is
registered is a task). Each effect is shown to be legal, expiry of deadlines first; the
steps of `Store` that store no view are stutters of `Protocol`. `SettledIsFinal` and
`VersionFences` follow from the same invariant, and `FulfilledIffSettled`,
`ResumesAreSettled` and `SuspendedIsAwaited` are parts of it.

Timers. `TimerNotLost` can break where a timer's job is ended: a loop that acknowledges
it must have settled the promise. `TimerInv` carries this from the claim to the
acknowledgement: a timer waits for its promise's deadline (`TimerOnTime`), so that a
claimed one is due, so that the view of its delivery has settled the promise, so that
the loop that acknowledges has it settled on record (`TimerClaimOK`); and the claims
that are settled after a commit are of other jobs (`AfterOK`). The timer does not read
the clock, and that it is due at its claim is also why `DeadlineWins` holds of it.

Listeners. A listener that is owed a message is registered, or its job is in the queue
or in the enqueues of the view, or with a loop that is about to call back
(`ListenerInv`, of the committed records and of the view). The theorem has the
hypothesis that no process dies; with crashes the property is false, as `lost_unblock`
shows. Storage errors and dropped requests are among the faults that remain.

Networks. `NoLoopIsLeftBehind` is inductive together with the type of the handles and the
facts that only a task that stops a network keeps handles and that a loop that runs has a
network (`LifecycleInv`). `StartedIsServed` needs that no handle is in two places: a network's
handles are a pair of loops of its own, and what a stop has taken no network has (`ServedInv`),
so that a stop never asks a loop of a later start to end. `ClosesUnlessAlive` says that the
close finds the store's state in use exactly when a network is alive. Loops use it too, so
none may outlive its network (`AliveInv`): a network is dropped outside of every call of it
and without handles; a loop of it that still ran would be in the hands of a stop
(`NoLoopIsLeftBehind`), whose handles are of the network it stops, which would be a call.

Schedules. `NextFiringIsScheduled` can break where the worker ends a timer. `ScheduleInv`
adds to the type that the worker's timer is in the queue and due, and that once it was
fired no schedule waits for it (`WorkerOK`), not even one that is deleted and created
again meanwhile, which starts after the present; that a timer names a schedule id; that a
schedule has the data of some request and its next firing is one of the expression's
times; and that the clock keeps its bound. The next firing is the first of a set of times, whose existence is the
well-foundedness of the natural numbers (`FirstTime`); that nothing lies between two
firings is what `NoFiringIsSkipped` rests on.

`LifecycleInv`, `AliveInv` and `ScheduleInv` were checked with TLC on the instances of `lifecycle` and
`schedule` before they were proved.

Searches. `WalkMissesNothing` speaks of the ids up to the cursor and is not inductive: the
cursor has to be the last id that was seen, and what matched throughout has to match now, so
that the next page finds it (`WalkInv`, with `CanGoOn`). A page takes all ids after the
cursor or all up to the next cursor (`PageIs`), and a change between two pages only takes ids
out of `steady`. Both rest on what `InOrder` returns: an id's place is one more than the
number of ids before it, each place is taken because there are as many ids as places
(`RankTaken`), and the first places hold the smallest ids (`FirstIs`). For the preload, an
id among the first `PreloadLimit` of the branch has no more ids before it in the part that
was there before the request, so the scan that stops early has found it, or the request wrote
it; and what the scan left out has the whole limit before it (`PreloadIs`).

Names. That two addresses never share a queue needs induction over the strings. The
prover takes no induction rule with a parameter, but a set of numbers without a least
element is empty, and `Induction` restates that for one set at a time. With it `FlattenIs`
gives what the library's recursive `FlattenSeq` computes, and `OneSpelling` shows that a name
is spelled by one address: the last two bytes of a name are never underscores (`NameEnds`),
so that no name can end both in a kept byte and in an escape; the ends are then equal, hence
the bytes they are of, and what remains is a shorter name. For the index, the null byte after
the branch is the first one of the key, so the prefix of one branch begins no key of another
(`KeyOfBranch`); no string of the index has a null byte because `validate_create` refuses it,
and `BranchScansAreExact` has the hypothesis that no schedule spells one out, since
`fire_schedule` does not check. An ancestor is followed by the separator its own lineage calls
for, so its first colon is the id's first colon, or the separator is (`AncestorInOrigin`).

Every safety property that a run checks is proved, but for the three that the code violates
(`ListenerNotForgotten` is proved without crashes). Only model-checked is liveness
(`NoTaskIsStranded`, `DeadlineComes`, `ListenerIsTold`, `ScheduleFires`, `StopReturns`,
`MessageArrives`), which is out of the prover's reach.

## Not modelled

- The envelope (`envelope.rs`, `error.rs`) and the parsing of requests: status codes and
  text, without state. What a request carries is what its action is quantified over.
- The parsing of cron expressions: a library's; an expression is its firing times.
- Generated pids: networks have addresses of their own.
- A network that is dropped while it runs, and a `stop` whose future is dropped while it
  waits for its loops, with the handles it took: what becomes of the loops depends on how
  the library drops the handle of a worker. `ClosesUnlessAlive` and `NoLoopIsLeftBehind` are
  about networks that are stopped to the end.
- The backoff of the timer queue, and the execute message (see Abstractions).

## Plan

Done: records, queue, kernel and store with its three faults, liveness, the abstract
specification, schedules, search, keys and networks; the proofs of the refinement and of all
safety properties. Next, in this order:

1. What `ProtocolInv` says of tasks, as properties of `Protocol` alone, proved there and
   carried over by the refinement.
2. The backoff of the timer queue, and networks and stops that are dropped while they run,
   once the library's side of both is written down.
