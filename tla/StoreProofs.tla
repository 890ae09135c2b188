----------------------------- MODULE StoreProofs -----------------------------
(***************************************************************************)
(* Type correctness of the store, and the safety of dispatches.            *)
(*                                                                         *)
(* Every step of a transaction, a loop or the environment keeps the type   *)
(* invariant.  The typing of a loop that leaves the lock needs that a loop *)
(* with an open transaction is busy, which is the strengthening TypeInv.   *)
(*                                                                         *)
(* A task's dispatch is its job: a task to execute has exactly one live    *)
(* job, and a suspended task has none.                                     *)
(***************************************************************************)
EXTENDS Store, KernelProofs, TLAPS

-----------------------------------------------------------------------------
(* Type correctness of a step                                              *)

\* Claiming or renewing a job yields a job table.
LEMMA RenewLeaseType ==
    ASSUME TypeOK, NEW c \in Claim, NEW lease \in Nat
    PROVE  RenewLease(c, lease) \in [Job -> JobRecord]
<1>1. Claimed(now + lease, c.ticket) \in JobRecord
  BY DEF TypeOK, Claim, Claimed, JobRecord
<1> QED BY <1>1 DEF RenewLease, TypeOK

\* Opening a transaction keeps the types.
LEMMA OpenType ==
    ASSUME TypeOK, NEW v \in View, NEW who \in Loop \cup {None},
           NEW acked \in Id \cup {None}, NEW last \in After,
           Open(v, who, acked, last),
           jobs' \in [Job -> JobRecord], held' \in [Id -> Claim \cup {None}],
           loops' \in [Loop -> LoopState]
    PROVE  TypeOK'
BY DEF TypeOK, Open

\* No work after the commit is a value of After.
LEMMA NoAfterType == NoAfter \in After
BY DEF NoAfter, After

\* A request that changes no claim keeps the types.
LEMMA RequestType ==
    ASSUME TypeOK, NEW v \in View, Request(v) PROVE TypeOK'
<1>1. jobs' \in [Job -> JobRecord] /\ held' \in [Id -> Claim \cup {None}] /\ loops' \in [Loop -> LoopState]
  BY DEF Request, TypeOK
<1>2. Open(v, None, None, NoAfter)
  BY DEF Request
<1> QED BY <1>1, <1>2, NoAfterType, OpenType

\* The view with the deadlines applied is a view.
LEMMA TimedType ==
    ASSUME TypeOK, NEW P \in SUBSET Id PROVE Timed(P) \in View
BY TryTimeoutType DEF Timed, TypeOK

\* The committed records are a view.
LEMMA CommittedType ==
    ASSUME TypeOK PROVE Committed \in View
BY DEF TypeOK, Committed, View

\* A loop that has the lock is busy with a claim.
OwnerIsBusy == owner # None => loops[owner].pc = "busy"

\* Leaving the lock keeps the types and leaves no owner behind.
LEMMA UnlockType ==
    ASSUME TypeOK, OwnerIsBusy, NEW ok \in BOOLEAN, Unlock(ok)
    PROVE  /\ lock' \in {"free", "commit", "finish"}
           /\ owner' \in Loop \cup {None}
           /\ ack' \in Id \cup {None}
           /\ after' \in After
           /\ loops' \in [Loop -> LoopState]
           /\ OwnerIsBusy'
<1>1. after' \in After
  BY NoAfterType DEF Unlock
<1>2. loops' \in [Loop -> LoopState]
  <2>1. CASE owner = None
    BY <2>1 DEF Unlock, TypeOK
  <2>2. CASE owner # None
    <3>1. owner \in Loop /\ loops[owner] \in LoopState /\ loops[owner].pc = "busy"
      BY <2>2 DEF TypeOK, OwnerIsBusy
    <3>2. Unlocked(loops[owner], ok) \in LoopState
      BY <3>1 DEF Unlocked, LoopState, IdleLoop
    <3> QED BY <2>2, <3>1, <3>2 DEF Unlock, TypeOK
  <2> QED BY <2>1, <2>2
<1> QED BY <1>1, <1>2 DEF Unlock, OwnerIsBusy

-----------------------------------------------------------------------------
(* Type correctness of the requests                                        *)

\* The strengthened type invariant.
TypeInv == TypeOK /\ OwnerIsBusy

\* A request's transaction keeps the type invariant.
LEMMA OpenInv ==
    ASSUME TypeInv, NEW v \in View, NEW acked \in Id \cup {None}, NEW last \in After,
           Open(v, None, acked, last),
           jobs' \in [Job -> JobRecord], held' \in [Id -> Claim \cup {None}],
           loops' \in [Loop -> LoopState]
    PROVE  TypeInv'
<1>1. TypeOK'
  BY OpenType DEF TypeInv
<1>2. OwnerIsBusy'
  BY DEF Open, OwnerIsBusy
<1> QED BY <1>1, <1>2 DEF TypeInv

\* A request that changes no claim keeps the type invariant.
LEMMA RequestInv ==
    ASSUME TypeInv, NEW v \in View, Request(v) PROVE TypeInv'
<1>1. TypeOK'
  BY RequestType DEF TypeInv
<1>2. OwnerIsBusy'
  BY DEF Request, Open, OwnerIsBusy
<1> QED BY <1>1, <1>2 DEF TypeInv

\* The requests on promises keep the type invariant.
LEMMA PromiseRequestInv ==
    ASSUME TypeInv, PromiseRequest PROVE TypeInv'
<1> USE DEF TypeInv
<1>0. now \in Nat
  BY DEF TypeOK
<1> PICK p \in Id :
       \/ \E data \in Creations[p] : PromiseCreate(p, data)
       \/ Get(p)
       \/ \E state \in Outcomes : PromiseSettle(p, state)
       \/ \E t \in Id : PromiseRegisterCallback(p, t)
       \/ \E address \in Address : PromiseRegisterListener(p, address)
  BY DEF PromiseRequest
<1>t. Timed({p}) \in View
  BY TimedType
<1>1. ASSUME NEW data \in Creations[p], PromiseCreate(p, data) PROVE TypeInv'
  <2>1. data \in CreateData
    BY StoreAssumption
  <2>2. CreateDispatched(Timed({p}), p, data, now) \in View
    BY <1>0, <1>t, <2>1, CreateDispatchedType
  <2> QED BY <1>1, <1>t, <2>2, RequestInv DEF PromiseCreate
<1>2. CASE Get(p)
  BY <1>2, <1>t, RequestInv DEF Get
<1>3. ASSUME NEW state \in Outcomes, PromiseSettle(p, state) PROVE TypeInv'
  <2>1. state \in SettleState
    BY StoreAssumption
  <2>2. Settle(Timed({p}), p, state, now) \in View
    BY <1>0, <1>t, <2>1, SettleType
  <2> QED BY <1>3, <1>t, <2>2, RequestInv DEF PromiseSettle
<1>4. ASSUME NEW t \in Id, PromiseRegisterCallback(p, t) PROVE TypeInv'
  <2> DEFINE v == Timed({p, t})
  <2>1. v \in View
    BY TimedType
  <2>2. RegisterCallback(v, p, t) \in View /\ ResumeAwaiter(v, t, p) \in View
    BY <2>1, RegisterCallbackType, ResumeAwaiterType
  <2> QED BY <1>4, <2>1, <2>2, RequestInv DEF PromiseRegisterCallback
<1>5. ASSUME NEW a \in Address, PromiseRegisterListener(p, a) PROVE TypeInv'
  <2> DEFINE v == Timed({p})
             w == [v EXCEPT !.promise[p].listeners = @ \cup {a}]
  <2>1. v.promise[p] \in StoredPromise
    BY <1>t DEF View
  <2>2. [v.promise[p] EXCEPT !.listeners = @ \cup {a}] \in StoredPromise
    BY <2>1 DEF StoredPromise
  <2>3. w \in View
    BY <1>t, <2>2 DEF View
  <2> QED BY <1>5, <1>t, <2>3, RequestInv DEF PromiseRegisterListener
<1> QED BY <1>1, <1>2, <1>3, <1>4, <1>5

\* A held claim is a claim.
LEMMA ClaimedType ==
    ASSUME TypeOK, NEW t \in Id, held[t] # None PROVE held[t] \in Claim
BY DEF TypeOK

\* The held claims without one of them are held claims.
LEMMA DropType ==
    ASSUME TypeOK, NEW t PROVE Drop(t) \in [Id -> Claim \cup {None}]
BY DEF TypeOK, Drop

\* A request that acquires or is refused keeps the type invariant.
LEMMA AcquireOr409Inv ==
    ASSUME TypeInv, NEW v \in View, NEW t \in Id, NEW pid \in Pid, NEW ttl \in Ttl,
           AcquireOr409(v, t, pid, ttl)
    PROVE  TypeInv'
<1> USE DEF TypeInv
<1>1. ttl \in Int /\ LeaseOf(ttl) \in Nat
  BY StoreAssumption, LeaseOfType
<1>2. CASE Renewable(t)
  <2>1. held[t] \in Claim
    BY <1>2, ClaimedType DEF Renewable, Holds
  <2>2. Acquire(v, t, pid, ttl) \in View
    BY <1>1, AcquireType
  <2>3. RenewLease(held[t], LeaseOf(ttl)) \in [Job -> JobRecord]
    BY <1>1, <2>1, RenewLeaseType
  <2>4. /\ Open(Acquire(v, t, pid, ttl), None, None, NoAfter)
        /\ jobs' \in [Job -> JobRecord] /\ held' \in [Id -> Claim \cup {None}]
        /\ loops' \in [Loop -> LoopState]
    BY <1>2, <2>3 DEF AcquireOr409, TypeOK
  <2> QED BY <2>2, <2>4, OpenInv, NoAfterType
<1>3. CASE ~Renewable(t)
  <2>1. /\ Open(v, None, None, NoAfter)
        /\ jobs' \in [Job -> JobRecord] /\ held' \in [Id -> Claim \cup {None}]
        /\ loops' \in [Loop -> LoopState]
    BY <1>3, DropType DEF AcquireOr409, TypeOK
  <2> QED BY <2>1, OpenInv, NoAfterType
<1> QED BY <1>2, <1>3

\* So does one that claims the job by id first.
LEMMA ClaimAndAcquireInv ==
    ASSUME TypeInv, NEW v \in View, NEW t \in Id, NEW pid \in Pid, NEW ttl \in Ttl,
           ClaimAndAcquire(v, t, pid, ttl)
    PROVE  TypeInv'
<1> USE DEF TypeInv
<1> DEFINE c == [job |-> CurrentJob(t), ticket |-> FreshTicket(CurrentJob(t))]
<1>1. ttl \in Int /\ LeaseOf(ttl) \in Nat
  BY StoreAssumption, LeaseOfType
<1>2. /\ c \in Claim
      /\ Open(Acquire(v, t, pid, ttl), None, None, NoAfter)
      /\ held' = [held EXCEPT ![t] = c]
      /\ jobs' = RenewLease(c, LeaseOf(ttl))
      /\ UNCHANGED loops
  BY DEF ClaimAndAcquire
<1> HIDE DEF c
<1>3. Acquire(v, t, pid, ttl) \in View
  BY <1>1, AcquireType
<1>4. RenewLease(c, LeaseOf(ttl)) \in [Job -> JobRecord]
  BY <1>1, <1>2, RenewLeaseType
<1>5. /\ jobs' \in [Job -> JobRecord] /\ held' \in [Id -> Claim \cup {None}]
      /\ loops' \in [Loop -> LoopState]
  BY <1>2, <1>4 DEF TypeOK
<1> QED BY <1>2, <1>3, <1>5, OpenInv, NoAfterType

\* An action that opens a transaction and touches the held claims at most.
LEMMA OpenHeldInv ==
    ASSUME TypeInv, NEW v \in View, NEW acked \in Id \cup {None}, NEW last \in After,
           Open(v, None, acked, last), UNCHANGED <<jobs, loops>>,
           held' \in [Id -> Claim \cup {None}]
    PROVE  TypeInv'
<1>1. jobs' \in [Job -> JobRecord] /\ loops' \in [Loop -> LoopState]
  BY DEF TypeInv, TypeOK
<1> QED BY <1>1, OpenInv

\* task.create keeps the type invariant.
LEMMA TaskCreateInv ==
    ASSUME TypeInv, NEW t \in Id, NEW data \in Creations[t], NEW pid \in Pid,
           NEW ttl \in Ttl, TaskCreate(t, data, pid, ttl)
    PROVE  TypeInv'
<1> DEFINE v == Timed({t})
<1>1. v \in View /\ now \in Nat /\ held \in [Id -> Claim \cup {None}]
  BY TimedType DEF TypeInv, TypeOK
<1>2. data \in CreateData /\ ttl \in Int /\ ttl >= 1 /\ LeaseOf(ttl) \in Nat
  BY StoreAssumption, LeaseOfType DEF TaskCreate
<1>3. CreateAcquired(v, t, data, pid, ttl, now) \in View
  BY <1>1, <1>2, CreateAcquiredType
<1>4. [NoAfter EXCEPT !.op = "claim", !.task = t, !.lease = LeaseOf(ttl)] \in After
  BY <1>2 DEF NoAfter, After
<1>5. Drop(t) \in [Id -> Claim \cup {None}]
  BY DropType DEF TypeInv
<1>6. CASE AcquireOr409(v, t, pid, ttl)
  BY <1>1, <1>6, AcquireOr409Inv
<1>7. CASE ClaimAndAcquire(v, t, pid, ttl)
  BY <1>1, <1>7, ClaimAndAcquireInv
<1>8. CASE Open(v, None, None, NoAfter) /\ held' = Drop(t) /\ UNCHANGED <<jobs, loops>>
  BY <1>1, <1>5, <1>8, OpenHeldInv, NoAfterType
<1>9. CASE /\ Open(CreateAcquired(v, t, data, pid, ttl, now), None, None,
                   IF now >= data.timeoutAt THEN NoAfter
                   ELSE [NoAfter EXCEPT !.op = "claim", !.task = t, !.lease = LeaseOf(ttl)])
           /\ UNCHANGED <<jobs, held, loops>>
  BY <1>1, <1>3, <1>4, <1>9, OpenHeldInv, NoAfterType
<1>10. CASE Request(v)
  BY <1>1, <1>10, RequestInv
<1> QED BY <1>6, <1>7, <1>8, <1>9, <1>10 DEF TaskCreate

\* task.fulfill and task.suspend keep the type invariant.
LEMMA TaskSettlementInv ==
    ASSUME TypeInv, NEW t \in Id, NEW version,
           \/ \E state \in Outcomes : TaskFulfill(t, version, state)
           \/ \E P \in SUBSET Id : TaskSuspend(t, version, P)
    PROVE  TypeInv'
<1>1. now \in Nat /\ HeldAfterTest(t) \in [Id -> Claim \cup {None}]
  BY DEF TypeInv, TypeOK, HeldAfterTest
<1>2. ASSUME NEW state \in Outcomes, TaskFulfill(t, version, state) PROVE TypeInv'
  <2> DEFINE v == Timed({t})
             w == IF IsPending(v.promise[t]) THEN Settle(v, t, state, now) ELSE v
  <2>1. v \in View
    BY TimedType DEF TypeInv
  <2>2. w \in View
    BY <1>1, <2>1, SettleType, StoreAssumption
  <2>3. CASE Request(v)
    BY <2>1, <2>3, RequestInv
  <2>4. CASE /\ Open(w, None, t, NoAfter) \/ Open(v, None, None, NoAfter)
             /\ held' = HeldAfterTest(t) /\ UNCHANGED <<jobs, loops>>
    BY <1>1, <2>1, <2>2, <2>4, OpenHeldInv, NoAfterType
  <2> QED BY <1>2, <2>3, <2>4 DEF TaskFulfill
<1>3. ASSUME NEW P \in SUBSET Id, TaskSuspend(t, version, P) PROVE TypeInv'
  <2> DEFINE v == Timed({t} \cup P)
             w == [v EXCEPT !.task[t].resumes = {}]
  <2>1. v \in View
    BY TimedType DEF TypeInv
  <2>2. w \in View
    <3>1. v.task[t] \in StoredTask
      BY <2>1 DEF View
    <3>2. [v.task[t] EXCEPT !.resumes = {}] \in StoredTask
      BY <3>1 DEF StoredTask
    <3> QED BY <2>1, <3>2 DEF View
  <2>3. Suspend(v, t, P) \in View
    BY <2>1, SuspendType
  <2>4. CASE Request(v)
    BY <2>1, <2>4, RequestInv
  <2>5. CASE /\ \/ Open(v, None, None, NoAfter)
                \/ Open(w, None, None, NoAfter)
                \/ Open(Suspend(v, t, P), None, t, NoAfter)
             /\ held' = HeldAfterTest(t) /\ UNCHANGED <<jobs, loops>>
    BY <1>1, <2>1, <2>2, <2>3, <2>5, OpenHeldInv, NoAfterType
  <2> QED BY <1>3, <2>4, <2>5 DEF TaskSuspend
<1> QED BY <1>2, <1>3

\* task.fence keeps the type invariant.
LEMMA TaskFenceInv ==
    ASSUME TypeInv, NEW t \in Id, NEW version, NEW p \in Id,
           \/ \E data \in Creations[p] : TaskFenceCreate(t, version, p, data)
           \/ \E state \in Outcomes : TaskFenceSettle(t, version, p, state)
    PROVE  TypeInv'
<1> DEFINE v == Timed({t, p})
<1>1. v \in View /\ now \in Nat
  BY TimedType DEF TypeInv, TypeOK
<1>2. ASSUME NEW data \in Creations[p], TaskFenceCreate(t, version, p, data) PROVE TypeInv'
  <2>1. CreateDispatched(v, p, data, now) \in View
    BY <1>1, CreateDispatchedType, StoreAssumption
  <2> QED BY <1>1, <1>2, <2>1, RequestInv DEF TaskFenceCreate
<1>3. ASSUME NEW state \in Outcomes, TaskFenceSettle(t, version, p, state) PROVE TypeInv'
  <2>1. Settle(v, p, state, now) \in View
    BY <1>1, SettleType, StoreAssumption
  <2> QED BY <1>1, <1>3, <2>1, RequestInv DEF TaskFenceSettle
<1> QED BY <1>2, <1>3

\* Every request on a task keeps the type invariant.
LEMMA TaskRequestInv ==
    ASSUME TypeInv, TaskRequest PROVE TypeInv'
<1> PICK t \in Id :
       \/ \E data \in Creations[t], pid \in Pid, ttl \in Ttl : TaskCreate(t, data, pid, ttl)
       \/ \E version \in 0 .. MaxVersion :
             \/ \E pid \in Pid, ttl \in Ttl : TaskAcquire(t, version, pid, ttl)
             \/ TaskRelease(t, version)
             \/ \E state \in Outcomes : TaskFulfill(t, version, state)
             \/ \E awaited \in SUBSET Id : TaskSuspend(t, version, awaited)
             \/ \E p \in Id :
                   \/ \E data \in Creations[p] : TaskFenceCreate(t, version, p, data)
                   \/ \E state \in Outcomes : TaskFenceSettle(t, version, p, state)
       \/ TaskHalt(t)
       \/ TaskContinue(t)
  BY DEF TaskRequest
<1> DEFINE v == Timed({t})
<1>1. v \in View /\ held \in [Id -> Claim \cup {None}]
  BY TimedType DEF TypeInv, TypeOK
<1>2. CASE \E data \in Creations[t], pid \in Pid, ttl \in Ttl : TaskCreate(t, data, pid, ttl)
  BY <1>2, TaskCreateInv
<1>3. ASSUME NEW version, NEW pid \in Pid, NEW ttl \in Ttl, TaskAcquire(t, version, pid, ttl)
      PROVE  TypeInv'
  BY <1>1, <1>3, AcquireOr409Inv, RequestInv DEF TaskAcquire
<1>4. ASSUME NEW version, TaskRelease(t, version) PROVE TypeInv'
  <2>1. Unassign(v, t) \in View
    BY <1>1, UnassignType
  <2>2. [NoAfter EXCEPT !.op = "nack", !.task = t] \in After
    BY DEF NoAfter, After
  <2> QED BY <1>1, <1>4, <2>1, <2>2, OpenHeldInv, RequestInv DEF TaskRelease
<1>5. CASE TaskHalt(t)
  BY <1>1, <1>5, HaltType, RequestInv DEF TaskHalt
<1>6. CASE TaskContinue(t)
  <2> DEFINE b == v.task[t].job # 0 /\ JobExists(jobs, ExecuteJob(t, v.task[t].job))
  <2>1. Continue(v, t, b) \in View
    BY <1>1, ContinueType
  <2>2. Request(IF v.task[t].state = "halted" THEN Continue(v, t, b) ELSE v)
    BY <1>6 DEF TaskContinue
  <2> HIDE DEF b
  <2> QED BY <1>1, <2>1, <2>2, RequestInv
<1> QED BY <1>2, <1>3, <1>4, <1>5, <1>6, TaskSettlementInv, TaskFenceInv

\* task.heartbeat keeps the type invariant.
LEMMA TaskHeartbeatInv ==
    ASSUME TypeInv, NEW pid \in Pid, NEW named \in SUBSET Id, TaskHeartbeat(pid, named)
    PROVE  TypeInv'
<1> DEFINE mine == {t \in named : /\ task[t].state = "acquired"
                                  /\ task[t].pid = pid /\ task[t].ttl # None}
           kept == {t \in mine : Renewable(t)}
<1>1. held' \in [Id -> Claim \cup {None}]
  BY DEF TaskHeartbeat, TypeInv, TypeOK
<1>2. jobs' \in [Job -> JobRecord]
  <2>1. ASSUME NEW t \in kept
        PROVE  Claimed(now + LeaseOf(task[t].ttl), held[t].ticket) \in JobRecord
    <3>1. held[t] \in Claim /\ now \in Nat /\ task[t].ttl \in Int
      BY ClaimedType DEF Renewable, Holds, TypeInv, TypeOK, StoredTask
    <3>2. LeaseOf(task[t].ttl) \in Nat
      BY <3>1, LeaseOfType
    <3> QED BY <3>1, <3>2 DEF Claimed, Claim, JobRecord
  <2>2. jobs' = [j \in Job |->
                   IF \E t \in kept : held[t].job = j
                   THEN LET t == CHOOSE t \in kept : held[t].job = j
                        IN  Claimed(now + LeaseOf(task[t].ttl), held[t].ticket)
                   ELSE jobs[j]]
    BY DEF TaskHeartbeat
  <2> HIDE DEF kept
  <2> SUFFICES ASSUME NEW j \in Job PROVE jobs'[j] \in JobRecord
    BY <2>2
  <2>3. CASE \E t \in kept : held[t].job = j
    <3>1. (CHOOSE t \in kept : held[t].job = j) \in kept
      BY <2>3
    <3> QED BY <2>1, <2>2, <2>3, <3>1
  <2>4. CASE ~\E t \in kept : held[t].job = j
    BY <2>2, <2>4 DEF TypeInv, TypeOK
  <2> QED BY <2>3, <2>4
<1>3. UNCHANGED <<now, promise, task, view, lock, owner, ack, after, loops, owed>>
  BY DEF TaskHeartbeat, txnVars
<1> QED BY <1>1, <1>2, <1>3 DEF TypeInv, TypeOK, OwnerIsBusy

-----------------------------------------------------------------------------
(* Type correctness of the other steps                                     *)

\* The records a commit writes have their types.
LEMMA ApplyType ==
    ASSUME TypeOK, Apply
    PROVE  /\ promise' \in [Id -> StoredPromise]
           /\ task' \in [Id -> StoredTask]
           /\ owed' \subseteq Id \X Address
           /\ [view EXCEPT !.enqueue = {}] \in View
           /\ [view EXCEPT !.enqueue = {}, !.release = {}] \in View
BY DEF TypeOK, Apply, View

\* So do the records an aborted transaction leaves.
LEMMA AbortType ==
    ASSUME TypeOK, Abort
    PROVE  /\ promise' \in [Id -> StoredPromise]
           /\ task' \in [Id -> StoredTask]
           /\ view' \in View
           /\ owed' \subseteq Id \X Address
BY CommittedType DEF TypeOK, Abort

\* The steps of a transaction after its handler keep the type invariant.
LEMMA TxnStepInv ==
    ASSUME TypeInv, TxnStep PROVE TypeInv'
<1> USE DEF TypeInv
<1>0. /\ now \in Nat /\ jobs \in [Job -> JobRecord] /\ view.enqueue \in SUBSET EnqueueRequest
      /\ held \in [Id -> Claim \cup {None}]
      /\ \A t : Drop(t) \in [Id -> Claim \cup {None}]
  BY DropType DEF TypeOK, View
<1>1. CASE Commit
  <2>1. jobs' \in [Job -> JobRecord]
    BY <1>0, <1>1, EnqueueType DEF Commit
  <2>2. Apply /\ view' \in View /\ UNCHANGED <<now, held>>
    BY <1>1, ApplyType DEF Commit
  <2>3. CASE Unlock(TRUE)
    BY <1>0, <2>1, <2>2, <2>3, ApplyType, UnlockType DEF TypeOK
  <2>4. CASE lock' = "finish" /\ UNCHANGED <<owner, ack, after, loops>>
    BY <1>0, <2>1, <2>2, <2>4, ApplyType DEF TypeOK, OwnerIsBusy
  <2> QED BY <1>1, <2>3, <2>4 DEF Commit
<1>2. CASE CommitAck
  <2>1. Ack(jobs, held[ack]) \in [Job -> JobRecord]
    BY <1>0, QueueOpsType
  <2>2. jobs' \in [Job -> JobRecord]
    BY <1>0, <1>2, <2>1, EnqueueType DEF CommitAck
  <2> QED BY <1>0, <1>2, <2>2, ApplyType DEF CommitAck, TypeOK, OwnerIsBusy
<1>3. CASE CommitLost
  BY <1>0, <1>3, AbortType, UnlockType DEF CommitLost, TypeOK
<1>5. ASSUME NEW t \in Id, FinishRelease(t) PROVE TypeInv'
  <2>1. view' \in View
    BY <1>5 DEF FinishRelease, TypeOK, View
  <2>2. jobs' \in [Job -> JobRecord]
    BY <1>0, <1>5, QueueOpsType DEF FinishRelease
  <2> QED BY <1>0, <1>5, <2>1, <2>2 DEF FinishRelease, TypeOK, OwnerIsBusy
<1>6. CASE FinishLast
  <2>1. jobs' \in [Job -> JobRecord] /\ held' \in [Id -> Claim \cup {None}]
    <3>1. CASE UNCHANGED <<jobs, held>>
      BY <1>0, <3>1
    <3>2. CASE jobs' = Ack(jobs, after.claim) /\ UNCHANGED held
      BY <1>0, <3>2, QueueOpsType
    <3>3. CASE held' = [held EXCEPT ![after.task] = after.claim] /\ UNCHANGED jobs
      BY <1>0, <3>3 DEF TypeOK, After
    <3>4. CASE /\ held' = Drop(after.task)
               /\ jobs' = IF held[after.task] = None THEN jobs ELSE Nack(jobs, held[after.task])
      BY <1>0, <3>4, QueueOpsType
    <3>5. ASSUME NEW c \in Claim, held' = [held EXCEPT ![after.task] = c],
                 jobs' = RenewLease(c, after.lease)
          PROVE  jobs' \in [Job -> JobRecord] /\ held' \in [Id -> Claim \cup {None}]
      <4>1. after.lease \in Nat
        BY DEF TypeOK, After
      <4> QED BY <1>0, <3>5, <4>1, RenewLeaseType
    <3> QED BY <1>6, <3>1, <3>2, <3>3, <3>4, <3>5 DEF FinishLast
  <2>2. Unlock(TRUE) /\ UNCHANGED <<now, promise, task, view, owed>>
    BY <1>6 DEF FinishLast
  <2> QED BY <2>1, <2>2, UnlockType DEF TypeOK
<1> QED BY <1>1, <1>2, <1>3, <1>5, <1>6 DEF TxnStep

\* A transaction opened by a loop that becomes busy with it.
LEMMA LoopOpenInv ==
    ASSUME TypeInv, NEW l \in Loop, loops[l].pc = "claimed", NEW v \in View,
           NEW last \in After, Open(v, l, None, last), loops' = Busy(l),
           UNCHANGED <<jobs, held>>
    PROVE  TypeInv'
<1>1. loops[l] \in [pc : {"claimed", "busy", "emit", "failed"}, claim : Claim]
  BY DEF TypeInv, TypeOK, LoopState, IdleLoop
<1>2. [loops[l] EXCEPT !.pc = "busy"] \in LoopState
  BY <1>1 DEF LoopState
<1>3. loops' \in [Loop -> LoopState] /\ loops'[l].pc = "busy"
  BY <1>1, <1>2 DEF TypeInv, TypeOK, Busy
<1>4. jobs' \in [Job -> JobRecord] /\ held' \in [Id -> Claim \cup {None}]
  BY DEF TypeInv, TypeOK
<1>5. TypeOK'
  BY <1>3, <1>4, OpenType DEF TypeInv
<1> QED BY <1>3, <1>5 DEF TypeInv, OwnerIsBusy, Open

\* A loop that is not idle has a claim of a job of the instance.
LEMMA ClaimOfLoop ==
    ASSUME TypeOK, NEW l \in Loop, loops[l].pc # "idle"
    PROVE  /\ loops[l].claim \in Claim /\ loops[l].claim.job \in Job
           /\ loops[l].claim.job[2] \in Id
<1>1. loops[l].claim \in Claim
  BY DEF TypeOK, LoopState, IdleLoop
<1> QED BY <1>1, JobParts DEF Claim

\* The steps of the delivery loops and the timer worker keep the type invariant.
LEMMA LoopStepInv ==
    ASSUME TypeInv, NEW l \in Loop, LoopStep(l) PROVE TypeInv'
<1> USE DEF TypeInv
<1>0. now \in Nat /\ view \in View /\ jobs \in [Job -> JobRecord] /\ loops \in [Loop -> LoopState]
  BY DEF TypeOK
<1>1. ASSUME NEW job \in Job, LoopClaim(l, job) PROVE TypeInv'
  <2> DEFINE c == [job |-> job, ticket |-> FreshTicket(job)]
             lease == LoopLease(l)
  <2>1. /\ c \in Claim /\ loops[l].pc = "idle"
        /\ loops' = [loops EXCEPT ![l] = [pc |-> "claimed", claim |-> c]]
        /\ jobs' = RenewLease(c, lease)
        /\ UNCHANGED <<now, promise, task, held, view, lock, owner, ack, after, owed>>
    BY <1>1 DEF LoopClaim, txnVars
  <2>2. lease \in Nat
    BY StoreAssumption DEF LoopLease
  <2> HIDE DEF c, lease
  <2>3. jobs' \in [Job -> JobRecord]
    BY <2>1, <2>2, RenewLeaseType
  <2>4. loops' \in [Loop -> LoopState]
    BY <1>0, <2>1 DEF LoopState
  <2>5. OwnerIsBusy'
    BY <1>0, <2>1 DEF OwnerIsBusy, TypeOK
  <2> QED BY <2>1, <2>3, <2>4, <2>5 DEF TypeOK
<1>2. CASE DeliverUnblock(l)
  <2>1. loops[l].claim \in Claim
    BY <1>2, ClaimOfLoop DEF DeliverUnblock
  <2>2. [NoAfter EXCEPT !.op = "ack", !.claim = loops[l].claim] \in After
    BY <2>1 DEF NoAfter, After
  <2> QED BY <1>0, <1>2, <2>2, LoopOpenInv DEF DeliverUnblock
<1>3. CASE DeliverExecute(l)
  <2> DEFINE claim == loops[l].claim
             t == claim.job[2]
             v == Timed({t})
             w == IF v.task[t].state = "acquired" THEN Unassign(v, t) ELSE v
             hold == [NoAfter EXCEPT !.op = "hold", !.task = t, !.claim = claim]
             acks == [NoAfter EXCEPT !.op = "ack", !.claim = claim]
  <2>1. claim \in Claim /\ t \in Id
    BY ZenonT(60), <1>3, ClaimOfLoop DEF DeliverExecute
  <2>2. hold \in After /\ acks \in After
    BY <2>1 DEF NoAfter, After
  <2>3. v \in View
    BY <2>1, TimedType
  <2>4. w \in View
    BY <2>1, <2>3, UnassignType
  <2>5. /\ loops[l].pc = "claimed" /\ loops' = Busy(l) /\ UNCHANGED <<jobs, held>>
        /\ Open(w, l, None, hold) \/ Open(v, l, None, acks)
    BY <1>3 DEF DeliverExecute
  <2> QED BY <2>2, <2>3, <2>4, <2>5, LoopOpenInv
<1>4. CASE FirePromiseTimeout(l)
  <2> DEFINE p == loops[l].claim.job[2]
             w == ExpirePromises(view, {p}, now)
  <2>1. loops[l].pc = "claimed" /\ loops[l].claim \in Claim /\ p \in Id
    BY <1>4, ClaimOfLoop DEF FirePromiseTimeout
  <2>2. w \in View
    BY <1>0, <2>1, ExpirePromisesType
  <2>3. CASE Open(w, l, None, NoAfter) /\ loops' = Busy(l) /\ UNCHANGED <<jobs, held>>
    BY <2>1, <2>2, <2>3, LoopOpenInv, NoAfterType
  <2>4. CASE /\ loops' = [loops EXCEPT ![l].pc = "emit"]
             /\ lock = "free"
             /\ UNCHANGED <<now, promise, task, jobs, held, txnVars, owed>>
    <3>1. loops[l] \in [pc : {"claimed", "busy", "emit", "failed"}, claim : Claim]
      BY <1>0, <2>1 DEF LoopState, IdleLoop
    <3>2. loops' \in [Loop -> LoopState]
      BY <1>0, <2>4, <3>1 DEF LoopState
    <3>3. OwnerIsBusy'
      BY <1>0, <2>1, <2>4 DEF OwnerIsBusy, TypeOK, txnVars
    <3> QED BY <2>4, <3>2, <3>3 DEF TypeOK, txnVars
  <2> QED BY <1>4, <2>3, <2>4 DEF FirePromiseTimeout
<1>5. CASE LoopEmit(l)
  <2>1. jobs' \in [Job -> JobRecord] /\ owed' \subseteq Id \X Address
    BY <1>0, <1>5, QueueOpsType DEF LoopEmit, TypeOK
  <2>2. loops' \in [Loop -> LoopState]
    BY <1>0, <1>5 DEF LoopEmit, LoopState
  <2>3. OwnerIsBusy'
    BY <1>0, <1>5 DEF LoopEmit, OwnerIsBusy, TypeOK, txnVars
  <2> QED BY <1>5, <2>1, <2>2, <2>3 DEF LoopEmit, TypeOK, txnVars
<1>6. CASE WorkerNack(l)
  <2>1. jobs' \in [Job -> JobRecord]
    BY <1>0, <1>6, QueueOpsType DEF WorkerNack
  <2>2. loops' \in [Loop -> LoopState]
    BY <1>0, <1>6 DEF WorkerNack, LoopState
  <2>3. OwnerIsBusy'
    BY <1>0, <1>6 DEF WorkerNack, OwnerIsBusy, TypeOK, txnVars
  <2> QED BY <1>6, <2>1, <2>2, <2>3 DEF WorkerNack, TypeOK, txnVars
<1> QED BY <1>1, <1>2, <1>3, <1>4, <1>5, <1>6 DEF LoopStep

\* The clock and the reaper keep the type invariant.
LEMMA EnvironmentInv ==
    ASSUME TypeInv, EnvironmentStep PROVE TypeInv'
<1> USE DEF TypeInv
<1>1. CASE Tick
  BY <1>1 DEF Tick, TypeOK, OwnerIsBusy, txnVars
<1>2. ASSUME NEW job \in Job, Reap(job) PROVE TypeInv'
  <2>1. jobs' \in [Job -> JobRecord]
    BY <1>2, QueueOpsType DEF Reap, TypeOK
  <2> QED BY <1>2, <2>1 DEF Reap, TypeOK, OwnerIsBusy, txnVars
<1> QED BY <1>1, <1>2 DEF EnvironmentStep

\* A claim that is dropped leaves a job with its type.
LEMMA ClaimDroppedType ==
    ASSUME TypeInv, NEW job, NEW lease \in Nat, ClaimDropped(job, lease)
    PROVE  jobs' \in [Job -> JobRecord] /\ UNCHANGED <<now, promise, task, owed>>
<1> DEFINE c == [job |-> job, ticket |-> FreshTicket(job)]
<1>1. c \in Claim /\ jobs' = RenewLease(c, lease) /\ UNCHANGED <<now, promise, task, owed>>
  BY DEF ClaimDropped
<1> HIDE DEF c
<1> QED BY <1>1, RenewLeaseType DEF TypeInv

\* A request or a loop that is dropped keeps the type invariant.
LEMMA DroppedStepInv ==
    ASSUME TypeInv, DroppedStep PROVE TypeInv'
<1> USE DEF TypeInv
<1>0. /\ now \in Nat /\ jobs \in [Job -> JobRecord] /\ view.enqueue \in SUBSET EnqueueRequest
      /\ held \in [Id -> Claim \cup {None}]
      /\ \A t : Drop(t) \in [Id -> Claim \cup {None}]
  BY DropType DEF TypeOK, View
<1>1. CASE RequestDropped
  <2>1. Unlock(FALSE) /\ UNCHANGED <<now, held>>
    BY <1>1 DEF RequestDropped
  <2>2. CASE view' = Committed /\ UNCHANGED <<promise, task, jobs, owed>>
    BY <1>0, <2>1, <2>2, CommittedType, UnlockType DEF TypeOK
  <2>3. CASE /\ Apply /\ view' = [view EXCEPT !.enqueue = {}, !.release = {}]
             /\ jobs' = Enqueue(Ack(jobs, held[ack]), view.enqueue)
    <3>1. Ack(jobs, held[ack]) \in [Job -> JobRecord]
      BY <1>0, QueueOpsType
    <3>2. jobs' \in [Job -> JobRecord]
      BY <1>0, <2>3, <3>1, EnqueueType
    <3> QED BY <1>0, <2>1, <2>3, <3>2, ApplyType, UnlockType DEF TypeOK
  <2> QED BY <1>1, <2>2, <2>3 DEF RequestDropped
<1>2. CASE AfterClaimDropped
  <2>1. after.lease \in Nat
    BY DEF TypeOK, After
  <2>2. /\ ClaimDropped(CurrentJob(after.task), after.lease)
        /\ view' = Committed /\ Unlock(FALSE) /\ UNCHANGED held
    BY <1>2 DEF AfterClaimDropped
  <2>3. jobs' \in [Job -> JobRecord] /\ UNCHANGED <<now, promise, task, owed>>
    BY <2>1, <2>2, ClaimDroppedType
  <2> QED BY <1>0, <2>2, <2>3, CommittedType, UnlockType DEF TypeOK
<1>3. ASSUME NEW t \in Id, NEW ttl \in Ttl, TaskCreateDropped(t, ttl) PROVE TypeInv'
  <2>1. LeaseOf(ttl) \in Nat
    BY StoreAssumption, LeaseOfType
  <2>2. /\ ClaimDropped(CurrentJob(t), LeaseOf(ttl)) /\ held' = Drop(t)
        /\ UNCHANGED <<view, lock, owner, ack, after, loops>>
    BY <1>3 DEF TaskCreateDropped, txnVars
  <2>3. jobs' \in [Job -> JobRecord] /\ UNCHANGED <<now, promise, task, owed>>
    BY <2>1, <2>2, ClaimDroppedType
  <2> QED BY <1>0, <2>2, <2>3 DEF TypeOK, OwnerIsBusy
<1>4. ASSUME NEW l \in Loop, NEW job \in Job, LoopClaimDropped(l, job) PROVE TypeInv'
  <2>1. LoopLease(l) \in Nat
    BY StoreAssumption DEF LoopLease
  <2>2. /\ ClaimDropped(job, LoopLease(l))
        /\ UNCHANGED <<held, view, lock, owner, ack, after, loops>>
    BY <1>4 DEF LoopClaimDropped, txnVars
  <2>3. jobs' \in [Job -> JobRecord] /\ UNCHANGED <<now, promise, task, owed>>
    BY <2>1, <2>2, ClaimDroppedType
  <2> QED BY <1>0, <2>2, <2>3 DEF TypeOK, OwnerIsBusy
<1> QED BY <1>1, <1>2, <1>3, <1>4 DEF DroppedStep

\* Every fault keeps the type invariant.
LEMMA FaultStepInv ==
    ASSUME TypeInv, FaultStep PROVE TypeInv'
<1> USE DEF TypeInv
<1>0. /\ held \in [Id -> Claim \cup {None}] /\ jobs \in [Job -> JobRecord] /\ now \in Nat
      /\ \A t : Drop(t) \in [Id -> Claim \cup {None}]
  BY DropType DEF TypeOK
<1>1. CASE CommitFails
  BY <1>0, <1>1, AbortType, UnlockType DEF CommitFails, TypeOK
<1>2. CASE Crash
  <2>1. jobs' \in [Job -> JobRecord]
    BY <1>2, QueueOpsType DEF Crash, TypeOK
  <2>2. view' \in View /\ after' \in After
    BY <1>2, CommittedType, NoAfterType DEF Crash
  <2>3. loops' \in [Loop -> LoopState]
    BY <1>2 DEF Crash, LoopState
  <2> QED BY <1>2, <2>1, <2>2, <2>3 DEF Crash, TypeOK, OwnerIsBusy
<1>3. CASE FinishFails
  <2>1. held' \in [Id -> Claim \cup {None}] /\ view' \in View
    BY <1>0, <1>3, CommittedType DEF FinishFails
  <2>2. Unlock(FALSE) /\ UNCHANGED <<now, promise, task, jobs, owed>>
    BY <1>3 DEF FinishFails
  <2> QED BY <2>1, <2>2, UnlockType DEF TypeOK
<1> QED BY <1>1, <1>2, <1>3, DroppedStepInv DEF FaultStep

\* The empty store satisfies the type invariant.
LEMMA InitType == Init => TypeInv
<1> SUFFICES ASSUME Init PROVE TypeInv
  OBVIOUS
<1>1. NoPromise \in StoredPromise
  BY DEF NoPromise, StoredPromise, PromiseState, Tags
<1>2. NoTask \in StoredTask
  BY DEF NoTask, StoredTask
<1>3. NoJob \in JobRecord
  BY DEF NoJob, JobRecord
<1>4. view \in View
  BY <1>1, <1>2 DEF Init, Committed, View
<1>5. loops \in [Loop -> LoopState]
  BY DEF Init, LoopState
<1> QED BY <1>1, <1>2, <1>3, <1>4, <1>5, NoAfterType DEF Init, TypeInv, TypeOK, OwnerIsBusy

\* The type invariant is inductive.
LEMMA TypeInvStep == TypeInv /\ [Next]_vars => TypeInv'
<1> SUFFICES ASSUME TypeInv, [Next]_vars PROVE TypeInv'
  OBVIOUS
<1>1. CASE UNCHANGED vars
  BY <1>1 DEF vars, TypeInv, TypeOK, OwnerIsBusy
<1> QED BY <1>1, PromiseRequestInv, TaskRequestInv, TaskHeartbeatInv, TxnStepInv,
           LoopStepInv, EnvironmentInv, FaultStepInv DEF Next, StoreStep, ClientRequest

\* Type correctness: every record the handlers write, every job the queue keeps
\* and every claim that is held or to be settled has its type in every reachable
\* state, for all constants that satisfy the assumptions.
THEOREM TypeCorrect == Spec => []TypeOK
<1>1. TypeInv => TypeOK
  BY DEF TypeInv
<1> QED BY <1>1, InitType, TypeInvStep, PTL DEF Spec

-----------------------------------------------------------------------------
(* The jobs of a task                                                      *)

\* The view requests a job for dispatch n of the task.
Requested(v, t, n) == \E r \in v.enqueue : r.job = ExecuteJob(t, n)

\* A dispatch is a job in the queue or a request of the view.
LEMMA DispatchesMember ==
    ASSUME NEW q, NEW v \in View, NEW t \in Id, NEW n
    PROVE  n \in Dispatches(q, v, t) <=>
             \/ n \in 1 .. MaxDispatch /\ JobExists(q, ExecuteJob(t, n))
             \/ Requested(v, t, n)
<1>1. ASSUME NEW r \in v.enqueue, r.job[1] = "execute", r.job[2] = t
      PROVE  r.job = ExecuteJob(t, r.job[3])
  BY <1>1 DEF View, EnqueueRequest, JobId, ExecuteJob
<1>2. ASSUME NEW r \in v.enqueue, r.job = ExecuteJob(t, n)
      PROVE  r.job[1] = "execute" /\ r.job[2] = t /\ r.job[3] = n
  BY <1>2 DEF ExecuteJob
<1> QED BY <1>1, <1>2 DEF Dispatches, Requested

\* What a view must satisfy before it is opened as a transaction.
ViewOK(q, v, acked) == \A t \in Id : DispatchOK(q, v, acked, t)

\* The dispatches of a settlement are the ones before it and, for a suspended
\* task it wakes, the next one.
LEMMA SettleChainRequested ==
    ASSUME NEW v, NEW s, NEW now_, NEW t, NEW n
    PROVE  Requested(SettleChain(v, s, now_), t, n) <=>
             \/ Requested(v, t, n)
             \/ /\ t \in Woken(v, s, now_) /\ v.task[t].state = "suspended"
                /\ n = v.task[t].job + 1
<1> DEFINE w == SettleChain(v, s, now_)
           wk == {u \in Woken(v, s, now_) : v.task[u].state = "suspended"}
<1>1. w.enqueue = v.enqueue
                     \cup {DispatchRequest(u, v.task[u], 0) : u \in wk}
                     \cup UNION {{[job |-> UnblockJob(p, a), runAt |-> 0] : a \in s[p].listeners} : p \in DOMAIN s}
  BY DEF SettleChain
<1>2. \A p, a : UnblockJob(p, a) # ExecuteJob(t, n)
  BY DEF UnblockJob, ExecuteJob
<1>3. \A u \in wk : DispatchRequest(u, v.task[u], 0).job = ExecuteJob(t, n) <=>
                      u = t /\ n = v.task[t].job + 1
  BY DEF DispatchRequest, ExecuteJob
<1> HIDE DEF w, wk
<1>4. Requested(w, t, n) <=> Requested(v, t, n) \/ \E u \in wk : DispatchRequest(u, v.task[u], 0).job = ExecuteJob(t, n)
  BY <1>1, <1>2 DEF Requested
<1> QED BY <1>3, <1>4 DEF w, wk

\* A settlement leaves every task with the jobs its state needs: a suspended
\* awaiter gets its next job, and the ended task keeps at most its old one.
LEMMA SettleChainOK ==
    ASSUME NEW q, NEW v \in View, NEW P \in SUBSET Id, NEW s \in [P -> StoredPromise], NEW now_,
           \A p \in P : s[p].state # "absent",
           ViewOK(q, v, None)
    PROVE  ViewOK(q, SettleChain(v, s, now_), None)
<1> DEFINE w == SettleChain(v, s, now_)
           wk == Woken(v, s, now_)
<1> SUFFICES ASSUME NEW t \in Id PROVE DispatchOK(q, w, None, t)
  BY DEF ViewOK
<1>0. w \in View
  BY SettleChainType
<1>1. DispatchOK(q, v, None, t) /\ v.task[t] \in StoredTask /\ None # t
  BY NoneAssumption DEF ViewOK, View
<1>2. \A n : n \in Dispatches(q, w, t) <=>
               \/ n \in Dispatches(q, v, t)
               \/ t \in wk /\ v.task[t].state = "suspended" /\ n = v.task[t].job + 1
  <2> SUFFICES ASSUME NEW n
               PROVE  n \in Dispatches(q, w, t) <=>
                        \/ n \in Dispatches(q, v, t)
                        \/ t \in wk /\ v.task[t].state = "suspended" /\ n = v.task[t].job + 1
    OBVIOUS
  <2>1. Requested(w, t, n) <=>
             \/ Requested(v, t, n)
             \/ t \in wk /\ v.task[t].state = "suspended" /\ n = v.task[t].job + 1
    BY SettleChainRequested
  <2> HIDE DEF w, wk
  <2> QED BY <1>0, <2>1, DispatchesMember
<1>3. /\ w.promise[t].state = "absent" => v.promise[t].state = "absent" /\ t \notin P
      /\ t \notin P => w.promise[t] = v.promise[t]
  <2>1. t \notin P => w.promise[t] = v.promise[t]
    BY DEF SettleChain
  <2>2. ASSUME t \in P PROVE w.promise[t].state # "absent"
    <3>1. w.promise[t] = [s[t] EXCEPT !.callbacks = {}, !.listeners = {}]
      BY <2>2 DEF SettleChain
    <3>2. s[t] \in StoredPromise /\ s[t].state # "absent"
      BY <2>2
    <3> HIDE DEF w
    <3> QED BY <3>1, <3>2 DEF StoredPromise
  <2> HIDE DEF w
  <2> QED BY <2>1, <2>2
<1>4. CASE t \in P /\ v.task[t].state \notin {"absent", "fulfilled"}
  <2>1. w.task[t].state = "fulfilled" /\ w.task[t].job = v.task[t].job
    BY <1>1, <1>4 DEF SettleChain, Transition, StoredTask
  <2>2. t \notin wk
    BY <1>4 DEF Woken
  <2> QED BY <1>1, <1>2, <1>3, <1>4, <2>1, <2>2 DEF DispatchOK, Active
<1>5. CASE t \in wk /\ v.task[t].state = "suspended"
  <2>1. t \notin P
    BY <1>5 DEF Woken
  <2>2. w.task[t] = ResumedTask(v.task[t], {p \in DOMAIN s : t \in s[p].callbacks}, "fanout")
    BY <1>5, <2>1 DEF SettleChain
  <2>3. w.task[t].state = "pending" /\ w.task[t].job = v.task[t].job + 1
    BY <1>1, <1>5, <2>2 DEF ResumedTask, Transition, StoredTask
  <2>4. t \in w.release => t \in v.release
    BY <2>1 DEF SettleChain
  <2> QED BY <1>1, <1>2, <1>3, <1>5, <2>1, <2>3, <2>4 DEF DispatchOK, Active, IsPending
<1>6. CASE ~(t \in P /\ v.task[t].state \notin {"absent", "fulfilled"})
           /\ ~(t \in wk /\ v.task[t].state = "suspended")
  <2>1. w.task[t].state = v.task[t].state /\ w.task[t].job = v.task[t].job
    <3>1. CASE t \in wk
      <4>1. w.task[t] = ResumedTask(v.task[t], {p \in DOMAIN s : t \in s[p].callbacks}, "fanout")
        BY <1>6, <3>1 DEF SettleChain
      <4> QED BY <1>1, <1>6, <3>1, <4>1 DEF ResumedTask, StoredTask
    <3>2. CASE t \notin wk
      BY <1>6, <3>2 DEF SettleChain
    <3> QED BY <3>1, <3>2
  <2>2. t \in w.release => t \in v.release
    BY <1>6 DEF SettleChain
  <2> QED BY <1>1, <1>2, <1>3, <1>6, <2>1, <2>2 DEF DispatchOK, Active, IsPending
<1> QED BY <1>4, <1>5, <1>6

\* The same for deadlines.
LEMMA ExpirePromisesOK ==
    ASSUME NEW q, NEW v \in View, NEW P \in SUBSET Id, NEW now_, ViewOK(q, v, None)
    PROVE  ViewOK(q, ExpirePromises(v, P, now_), None)
<1> DEFINE s == [p \in P |-> Expired(v.promise[p])]
<1>1. ASSUME NEW p \in P
      PROVE  Expired(v.promise[p]) \in StoredPromise /\ Expired(v.promise[p]).state # "absent"
  <2>1. v.promise[p] \in StoredPromise
    BY DEF View
  <2>2. TimeoutState(v.promise[p].tags) \in PromiseState \ {"absent"}
    BY TimeoutStateType DEF PromiseState, SettleState
  <2> QED BY <2>1, <2>2 DEF Expired, StoredPromise
<1>2. s \in [P -> StoredPromise] /\ \A p \in P : s[p].state # "absent"
  BY <1>1
<1> QED BY <1>2, SettleChainOK DEF ExpirePromises

\* The same for a settlement by a client.
LEMMA SettleOK ==
    ASSUME NEW q, NEW v \in View, NEW p \in Id, NEW state \in SettleState, NEW now_ \in Nat,
           ViewOK(q, v, None)
    PROVE  ViewOK(q, Settle(v, p, state, now_), None)
<1> DEFINE x == [v.promise[p] EXCEPT !.state = state, !.settledAt = now_]
           s == [r \in {p} |-> x]
<1>1. x \in StoredPromise /\ x.state # "absent"
  <2>1. v.promise[p] \in StoredPromise
    BY DEF View
  <2> QED BY <2>1 DEF StoredPromise, PromiseState, SettleState
<1>2. s \in [{p} -> StoredPromise] /\ \A r \in {p} : s[r].state # "absent"
  BY <1>1
<1> QED BY <1>2, SettleChainOK DEF Settle

\* The view of a request that has applied the deadlines and nothing else: the
\* tasks it dispatches are pending and the tasks it releases fulfilled.
FreshView(v) ==
    \A t \in Id : /\ (\E n : Requested(v, t, n)) => v.task[t].state = "pending"
                  /\ t \in v.release => v.task[t].state = "fulfilled"

\* The view a handler starts from satisfies the invariant.
LEMMA TimedOK ==
    ASSUME TypeInv, DispatchInv, lock = "free", NEW P \in SUBSET Id
    PROVE  Timed(P) \in View /\ ViewOK(jobs, Timed(P), None) /\ FreshView(Timed(P))
<1> DEFINE Q == {p \in P : IsPending(view.promise[p]) /\ now >= view.promise[p].timeoutAt}
           s == [p \in Q |-> Expired(view.promise[p])]
           w == SettleChain(view, s, now)
<1>1. view \in View /\ view.enqueue = {} /\ view.release = {} /\ ViewOK(jobs, view, None)
  BY DEF TypeInv, TypeOK, DispatchInv, ViewIsCommitted, Committed, ViewOK
<1>2. Timed(P) = w
  BY DEF Timed, TryTimeout, ExpirePromises
<1>3. Timed(P) \in View
  BY TimedType DEF TypeInv
<1>4. ViewOK(jobs, Timed(P), None)
  BY <1>1, ExpirePromisesOK DEF Timed, TryTimeout
<1>5. s \in [Q -> StoredPromise] /\ Q \in SUBSET Id
  <2> SUFFICES ASSUME NEW p \in Q PROVE Expired(view.promise[p]) \in StoredPromise
    OBVIOUS
  <2>1. view.promise[p] \in StoredPromise
    BY <1>1 DEF View
  <2>2. TimeoutState(view.promise[p].tags) \in PromiseState
    BY TimeoutStateType DEF PromiseState, SettleState
  <2> QED BY <2>1, <2>2 DEF Expired, StoredPromise
<1> HIDE DEF Q, s
<1>6. ASSUME NEW t \in Id, NEW n, Requested(w, t, n) PROVE w.task[t].state = "pending"
  <2>1. ~Requested(view, t, n)
    BY <1>1 DEF Requested
  <2>2. t \in Woken(view, s, now) /\ view.task[t].state = "suspended"
    BY <1>1, <1>5, <1>6, <2>1, SettleChainRequested
  <2>3. t \notin DOMAIN s
    BY <2>2 DEF Woken
  <2>4. w.task[t] = ResumedTask(view.task[t], {p \in DOMAIN s : t \in s[p].callbacks}, "fanout")
    BY <2>2, <2>3 DEF SettleChain
  <2>5. view.task[t] \in StoredTask
    BY <1>1 DEF View
  <2> QED BY <2>2, <2>4, <2>5 DEF ResumedTask, Transition, StoredTask
<1>7. ASSUME NEW t \in Id, t \in w.release PROVE w.task[t].state = "fulfilled"
  <2>1. t \in DOMAIN s /\ view.task[t].state \notin {"absent", "fulfilled"}
    BY <1>1, <1>7 DEF SettleChain
  <2>2. view.task[t] \in StoredTask
    BY <1>1 DEF View
  <2> QED BY <2>1, <2>2 DEF SettleChain, Transition, StoredTask
<1> QED BY <1>2, <1>3, <1>4, <1>6, <1>7 DEF FreshView

-----------------------------------------------------------------------------
(* The handlers keep the view right                                        *)

\* Replacing a task by one with the same job, when neither is suspended, absent
\* or a change from inactive to active.
LEMMA PutTaskOK ==
    ASSUME NEW q, NEW v \in View, ViewOK(q, v, None), NEW t \in Id, NEW x \in StoredTask,
           x.job = v.task[t].job, t \notin v.release,
           v.task[t].state \notin {"absent", "fulfilled"}, x.state \notin {"absent", "suspended"},
           x.state \in Active => v.task[t].job \in Dispatches(q, v, t)
    PROVE  ViewOK(q, [v EXCEPT !.task[t] = x], None)
<1> DEFINE w == [v EXCEPT !.task[t] = x]
<1> SUFFICES ASSUME NEW u \in Id PROVE DispatchOK(q, w, None, u)
  BY DEF ViewOK
<1>1. w.promise = v.promise /\ w.enqueue = v.enqueue /\ w.release = v.release
      /\ w.task[u] = (IF u = t THEN x ELSE v.task[u])
  BY DEF View
<1>2. Dispatches(q, w, u) = Dispatches(q, v, u)
  BY <1>1 DEF Dispatches
<1>3. DispatchOK(q, v, None, u) /\ None # u
  BY NoneAssumption DEF ViewOK
<1> HIDE DEF w
<1> QED BY <1>1, <1>2, <1>3 DEF DispatchOK

\* Acquiring a pending task keeps its job.
LEMMA AcquireOK ==
    ASSUME NEW q, NEW v \in View, ViewOK(q, v, None), NEW t \in Id, v.task[t].state = "pending",
           NEW pid \in Pid, NEW ttl \in Int
    PROVE  ViewOK(q, Acquire(v, t, pid, ttl), None)
<1> DEFINE x == [v.task[t] EXCEPT !.state = "acquired", !.version = v.task[t].version + 1,
                                  !.pid = pid, !.ttl = ttl, !.resumes = {}]
<1>1. v.task[t] \in StoredTask /\ DispatchOK(q, v, None, t)
  BY DEF View, ViewOK
<1>2. v.task[t].version + 1 \in Nat /\ "acquired" \in TaskState
  BY <1>1 DEF StoredTask, TaskState
<1>3. x \in StoredTask /\ x.job = v.task[t].job /\ x.state = "acquired"
  BY <1>1, <1>2 DEF StoredTask
<1>4. t \notin v.release /\ v.task[t].job \in Dispatches(q, v, t)
  BY <1>1 DEF DispatchOK, Active
<1> HIDE DEF x
<1>5. ViewOK(q, [v EXCEPT !.task[t] = x], None)
  BY <1>3, <1>4, PutTaskOK
<1> QED BY <1>5 DEF Acquire, x

\* A task that is active, or halted with its job in the queue, becomes pending.
LEMMA UnassignOK ==
    ASSUME NEW q, NEW v \in View, ViewOK(q, v, None), NEW t \in Id,
           v.task[t].state \in {"acquired", "halted"}, t \notin v.release,
           v.task[t].job \in Dispatches(q, v, t)
    PROVE  ViewOK(q, Unassign(v, t), None)
<1>1. v.task[t] \in StoredTask
  BY DEF View
<1>2. /\ Transition(v.task[t], "pending") \in StoredTask
      /\ Transition(v.task[t], "pending").job = v.task[t].job
      /\ Transition(v.task[t], "pending").state = "pending"
  <2>1. Transition(v.task[t], "pending") \in StoredTask
    BY <1>1, TransitionType DEF TaskState
  <2>2. /\ Transition(v.task[t], "pending").job = v.task[t].job
        /\ Transition(v.task[t], "pending").state = "pending"
    BY <1>1 DEF Transition, StoredTask
  <2> QED BY <2>1, <2>2
<1> QED BY <1>2, PutTaskOK DEF Unassign

\* Registrations change neither tasks nor jobs.
LEMMA RegisterOK ==
    ASSUME NEW q, NEW v \in View, ViewOK(q, v, None), NEW w \in View,
           w.task = v.task, w.enqueue = v.enqueue, w.release = v.release,
           \A p \in Id : w.promise[p].state = v.promise[p].state
    PROVE  ViewOK(q, w, None)
<1> SUFFICES ASSUME NEW t \in Id PROVE DispatchOK(q, w, None, t)
  BY DEF ViewOK
<1>1. Dispatches(q, w, t) = Dispatches(q, v, t)
  BY DEF Dispatches
<1> QED BY <1>1 DEF DispatchOK, ViewOK, IsPending

\* A halted task may keep its job until its delivery.
LEMMA HaltOK ==
    ASSUME NEW q, NEW v \in View, ViewOK(q, v, None), NEW t \in Id,
           v.task[t].state \notin {"absent", "fulfilled"}
    PROVE  ViewOK(q, Halt(v, t), None)
<1> DEFINE x == Transition(v.task[t], "halted")
           w == Halt(v, t)
<1> SUFFICES ASSUME NEW u \in Id PROVE DispatchOK(q, w, None, u)
  BY DEF ViewOK
<1>1. v.task[t] \in StoredTask
  BY DEF View
<1>2. x.job = v.task[t].job /\ x.state = "halted"
  BY <1>1 DEF Transition, StoredTask
<1>3. w.promise = v.promise /\ w.enqueue = v.enqueue /\ w.release = v.release \cup {t}
      /\ w.task[u] = (IF u = t THEN x ELSE v.task[u])
  BY DEF Halt, View
<1>4. Dispatches(q, w, u) = Dispatches(q, v, u)
  BY <1>3 DEF Dispatches
<1>5. DispatchOK(q, v, None, u) /\ None # u
  BY NoneAssumption DEF ViewOK
<1> HIDE DEF w, x
<1> QED BY <1>2, <1>3, <1>4, <1>5 DEF DispatchOK, Active

\* A view with one more dispatch, of a task that had none.
LEMMA DispatchTaskOK ==
    ASSUME NEW q, NEW v \in View, ViewOK(q, v, None), NEW t \in Id,
           Dispatches(q, v, t) = {}, t \notin v.release, IsPending(v.promise[t]),
           NEW w \in View, w.promise = v.promise, w.release = v.release,
           w.enqueue = v.enqueue \cup {DispatchRequest(t, v.task[t], 0)},
           NEW x, x.job = v.task[t].job + 1, x.state = "pending",
           \A u \in Id : w.task[u] = IF u = t THEN x ELSE v.task[u]
    PROVE  ViewOK(q, w, None)
<1> SUFFICES ASSUME NEW u \in Id PROVE DispatchOK(q, w, None, u)
  BY DEF ViewOK
<1>1. DispatchOK(q, v, None, u) /\ None # u
  BY NoneAssumption DEF ViewOK
<1>2. ASSUME NEW n PROVE Requested(w, u, n) <=>
        Requested(v, u, n) \/ (u = t /\ n = v.task[t].job + 1)
  <2>1. DispatchRequest(t, v.task[t], 0).job = ExecuteJob(u, n) <=>
          u = t /\ n = v.task[t].job + 1
    BY DEF DispatchRequest, ExecuteJob
  <2> QED BY <2>1 DEF Requested
<1>3. ASSUME NEW n PROVE n \in Dispatches(q, w, u) <=>
        n \in Dispatches(q, v, u) \/ (u = t /\ n = v.task[t].job + 1)
  BY <1>2, DispatchesMember
<1>4. CASE u = t
  BY <1>1, <1>3, <1>4 DEF DispatchOK, Active, IsPending
<1>5. CASE u # t
  <2>1. Dispatches(q, w, u) = Dispatches(q, v, u)
    BY <1>3, <1>5
  <2> QED BY <1>1, <1>5, <2>1 DEF DispatchOK
<1> QED BY <1>4, <1>5

\* A resumed suspended task, which had no job, gets one.
LEMMA ResumeAwaiterOK ==
    ASSUME NEW q, NEW v \in View, ViewOK(q, v, None), NEW t \in Id, NEW p \in Id
    PROVE  ViewOK(q, ResumeAwaiter(v, t, p), None)
<1> DEFINE x == ResumedTask(v.task[t], {p}, "registration")
           w == ResumeAwaiter(v, t, p)
<1>1. v.task[t] \in StoredTask /\ DispatchOK(q, v, None, t) /\ None # t
  BY NoneAssumption DEF View, ViewOK
<1>2. w \in View
  BY ResumeAwaiterType
<1>3. /\ w.promise = v.promise /\ w.release = v.release
      /\ \A u \in Id : w.task[u] = IF u = t THEN x ELSE v.task[u]
      /\ w.enqueue = v.enqueue \cup {r \in {DispatchRequest(t, v.task[t], 0)} :
                                        v.task[t].state = "suspended"}
  BY DEF ResumeAwaiter, View
<1> HIDE DEF w
<1>4. CASE v.task[t].state = "suspended"
  <2>1. x.job = v.task[t].job + 1 /\ x.state = "pending"
    BY <1>1, <1>4 DEF ResumedTask, Transition, StoredTask
  <2>2. Dispatches(q, v, t) = {} /\ t \notin v.release /\ IsPending(v.promise[t])
    BY <1>1, <1>4 DEF DispatchOK
  <2>3. w.enqueue = v.enqueue \cup {DispatchRequest(t, v.task[t], 0)}
    BY <1>3, <1>4
  <2> HIDE DEF x
  <2>4. ViewOK(q, w, None)
    BY <1>2, <1>3, <2>1, <2>2, <2>3, DispatchTaskOK
  <2> QED BY <2>4 DEF w
<1>5. CASE v.task[t].state # "suspended"
  <2>1. x.job = v.task[t].job /\ x.state = v.task[t].state
    BY <1>1, <1>5 DEF ResumedTask, StoredTask
  <2>2. w.enqueue = v.enqueue
    BY <1>3, <1>5
  <2> HIDE DEF x
  <2>3. ASSUME NEW u \in Id PROVE DispatchOK(q, w, None, u)
    <3>1. Dispatches(q, w, u) = Dispatches(q, v, u)
      BY <2>2 DEF Dispatches
    <3>2. DispatchOK(q, v, None, u)
      BY DEF ViewOK
    <3>3. w.task[u].state = v.task[u].state /\ w.task[u].job = v.task[u].job
      BY <1>3, <2>1
    <3> QED BY <1>3, <2>2, <3>1, <3>2, <3>3 DEF DispatchOK
  <2> QED BY <2>3 DEF ViewOK, w
<1> QED BY <1>4, <1>5

\* A continued task keeps the job that waits, or gets one when there is none.
LEMMA ContinueOK ==
    ASSUME NEW q, NEW v \in View, ViewOK(q, v, None), FreshView(v), NEW t \in Id,
           v.task[t].state = "halted", v.task[t].job <= MaxDispatch
    PROVE  ViewOK(q, Continue(v, t, /\ v.task[t].job # 0
                                    /\ JobExists(q, ExecuteJob(t, v.task[t].job))), None)
<1> DEFINE b == v.task[t].job # 0 /\ JobExists(q, ExecuteJob(t, v.task[t].job))
           w == Continue(v, t, b)
           x == [Transition(v.task[t], "pending") EXCEPT !.job = v.task[t].job + 1]
<1>1. v.task[t] \in StoredTask /\ DispatchOK(q, v, None, t) /\ t \notin v.release
  BY DEF View, ViewOK, FreshView
<1>2. IsPending(v.promise[t])
  BY <1>1 DEF DispatchOK
<1>3. CASE b
  <2>1. v.task[t].job \in 1 .. MaxDispatch
    BY <1>1, <1>3, QueueAssumption DEF StoredTask
  <2>2. v.task[t].job \in Dispatches(q, v, t)
    BY <1>3, <2>1, DispatchesMember
  <2> QED BY <1>1, <1>3, <2>2, UnassignOK DEF Continue
<1>4. CASE ~b
  <2>1. Dispatches(q, v, t) = {}
    <3> SUFFICES ASSUME NEW n \in Dispatches(q, v, t) PROVE FALSE
      OBVIOUS
    <3>1. n = v.task[t].job
      BY <1>1 DEF DispatchOK
    <3>2. ~Requested(v, t, n)
      BY DEF FreshView
    <3>3. n \in 1 .. MaxDispatch /\ JobExists(q, ExecuteJob(t, n))
      BY <3>2, DispatchesMember
    <3> QED BY <1>4, <3>1, <3>3
  <2>2. w \in View
    BY ContinueType
  <2>3. x.job = v.task[t].job + 1 /\ x.state = "pending"
    BY <1>1 DEF Transition, StoredTask
  <2>4. /\ w.promise = v.promise /\ w.release = v.release
        /\ w.enqueue = v.enqueue \cup {DispatchRequest(t, v.task[t], 0)}
        /\ \A u \in Id : w.task[u] = IF u = t THEN x ELSE v.task[u]
    BY <1>4 DEF Continue, View
  <2> HIDE DEF w, x, b
  <2>5. ViewOK(q, w, None)
    BY <1>1, <1>2, <2>1, <2>2, <2>3, <2>4, DispatchTaskOK
  <2> QED BY <2>5 DEF w, b
<1> QED BY <1>3, <1>4

\* A created task starts with one job.
LEMMA CreateWithOK ==
    ASSUME NEW q, NEW v \in View, ViewOK(q, v, None), NEW p \in Id, NEW data \in CreateData,
           v.promise[p].state = "absent",
           NEW x \in StoredTask, x.state \in Active, NEW runAt \in Nat, NEW now_ \in Nat
    PROVE  ViewOK(q, CreateWith(v, p, data, x, runAt, now_), None)
<1> DEFINE w == CreateWith(v, p, data, x, runAt, now_)
           started == IsPending(CreatedPromise(data, now_)) /\ data.tags.target # None
           y == w.task[p]
<1>1. w \in View
  BY CreateWithType
<1>2. v.task[p].state = "absent" /\ Dispatches(q, v, p) = {} /\ p \notin v.release
  BY DEF ViewOK, DispatchOK
<1>3. /\ w.release = v.release
      /\ \A u \in Id \ {p} : w.task[u] = v.task[u] /\ w.promise[u] = v.promise[u]
      /\ w.promise[p] = CreatedPromise(data, now_)
      /\ w.task[p] = IF data.tags.target = None THEN NoTask
                     ELSE IF started THEN [x EXCEPT !.job = 1] ELSE NewTask("fulfilled")
  BY DEF CreateWith, View
<1>4. w.promise[p].state # "absent"
  <2>1. TimeoutState(data.tags) # "absent"
    BY TimeoutStateType
  <2> QED BY <1>3, <2>1 DEF CreatedPromise, NoPromise
<1>5. ASSUME NEW u \in Id, NEW n
      PROVE  Requested(w, u, n) <=> Requested(v, u, n) \/ (u = p /\ n = 1 /\ started)
  <2> DEFINE e == [job |-> ExecuteJob(p, 1), runAt |-> runAt]
             d == [job |-> TimerJob(p), runAt |-> data.timeoutAt]
  <2>1. e.job = ExecuteJob(u, n) <=> u = p /\ n = 1
    BY DEF ExecuteJob
  <2>2. d.job # ExecuteJob(u, n)
    BY DEF ExecuteJob, TimerJob
  <2>3. w.enqueue = v.enqueue \cup {r \in {e} : started}
                     \cup {r \in {d} : IsPending(CreatedPromise(data, now_)) /\ IsExternal(data.tags)}
    BY DEF CreateWith
  <2> HIDE DEF e, d, w, started
  <2> QED BY <2>1, <2>2, <2>3 DEF Requested
<1>6. ASSUME NEW u \in Id, NEW n
      PROVE  n \in Dispatches(q, w, u) <=>
               n \in Dispatches(q, v, u) \/ (u = p /\ n = 1 /\ started)
  BY <1>1, <1>5, DispatchesMember
<1> HIDE DEF w
<1> SUFFICES ASSUME NEW u \in Id PROVE DispatchOK(q, w, None, u)
  BY DEF ViewOK, w
<1>7. DispatchOK(q, v, None, u) /\ None # u
  BY NoneAssumption DEF ViewOK
<1>8. CASE u # p
  <2>1. Dispatches(q, w, u) = Dispatches(q, v, u)
    BY <1>6, <1>8
  <2> QED BY <1>3, <1>7, <1>8, <2>1 DEF DispatchOK
<1>9. CASE u = p /\ started
  <2>1. w.task[p].job = 1 /\ w.task[p].state \in Active
    BY <1>3, <1>9 DEF StoredTask
  <2>3. IsPending(w.promise[p])
    BY <1>3, <1>9
  <2>2. Dispatches(q, w, p) = {1}
    BY <1>2, <1>6, <1>9
  <2> QED BY <1>2, <1>3, <1>4, <1>7, <1>9, <2>1, <2>2, <2>3 DEF DispatchOK, Active
<1>10. CASE u = p /\ ~started
  <2>1. w.task[p].state \in {"absent", "fulfilled"}
    BY <1>3, <1>10 DEF NoTask, NewTask
  <2>2. Dispatches(q, w, p) = {}
    BY <1>2, <1>6, <1>10
  <2> QED BY <1>2, <1>3, <1>4, <1>7, <1>10, <2>1, <2>2 DEF DispatchOK, Active
<1> QED BY <1>8, <1>9, <1>10

\* The same for CreateMode::Dispatch.
LEMMA CreateDispatchedOK ==
    ASSUME NEW q, NEW v \in View, ViewOK(q, v, None), NEW p \in Id, NEW data \in CreateData,
           v.promise[p].state = "absent", NEW now_ \in Nat
    PROVE  ViewOK(q, CreateDispatched(v, p, data, now_), None)
<1>1. NewTask("pending") \in StoredTask /\ NewTask("pending").state \in Active
  BY NewTaskType DEF TaskState, NewTask, NoTask, Active
<1>2. data.tags.delay \in Nat \cup {None}
  BY DEF CreateData, Tags
<1> QED BY <1>1, <1>2, CreateWithOK DEF CreateDispatched

\* The same for CreateMode::Acquire.
LEMMA CreateAcquiredOK ==
    ASSUME NEW q, NEW v \in View, ViewOK(q, v, None), NEW p \in Id, NEW data \in CreateData,
           v.promise[p].state = "absent", NEW now_ \in Nat,
           NEW pid \in Pid, NEW ttl \in Int, ttl >= 1
    PROVE  ViewOK(q, CreateAcquired(v, p, data, pid, ttl, now_), None)
<1> DEFINE x == [NewTask("acquired") EXCEPT !.version = 1, !.pid = pid, !.ttl = ttl]
<1>1. NewTask("acquired") \in StoredTask /\ NewTask("acquired").state = "acquired"
  BY NewTaskType DEF TaskState, NewTask, NoTask
<1>2. x \in StoredTask /\ x.state \in Active
  BY <1>1 DEF StoredTask, Active
<1>3. now_ + ttl \in Nat
  OBVIOUS
<1> HIDE DEF x
<1>4. ViewOK(q, CreateWith(v, p, data, x, now_ + ttl, now_), None)
  BY <1>2, <1>3, CreateWithOK
<1> QED BY <1>4 DEF CreateAcquired, x

\* The two views committed with the acknowledgement of the task's claim: the
\* settled one and the suspended one.
LEMMA SettleAckedOK ==
    ASSUME NEW q, NEW v \in View, ViewOK(q, v, None), FreshView(v), NEW t \in Id,
           v.task[t].state = "acquired", NEW state \in SettleState, NEW now_ \in Nat
    PROVE  ViewOK(q, Settle(v, t, state, now_), t)
<1> DEFINE x == [v.promise[t] EXCEPT !.state = state, !.settledAt = now_]
           s == [r \in {t} |-> x]
           w == SettleChain(v, s, now_)
<1>1. x \in StoredPromise
  <2>1. v.promise[t] \in StoredPromise
    BY DEF View
  <2> QED BY <2>1 DEF StoredPromise, PromiseState
<1>2. s \in [{t} -> StoredPromise]
  BY <1>1
<1>3. w = Settle(v, t, state, now_) /\ ViewOK(q, w, None) /\ w \in View
  <2>1. w = Settle(v, t, state, now_)
    BY Zenon DEF Settle
  <2>2. ViewOK(q, Settle(v, t, state, now_), None) /\ Settle(v, t, state, now_) \in View
    BY SettleOK, SettleType
  <2> HIDE DEF w
  <2> QED BY <2>1, <2>2
<1>4. v.task[t] \in StoredTask
  BY DEF View
<1>5. w.task[t].state = "fulfilled"
  BY <1>4 DEF SettleChain, Transition, StoredTask
<1>6. \A n : ~Requested(w, t, n)
  <2>1. \A n : ~Requested(v, t, n)
    BY DEF FreshView
  <2>2. t \notin Woken(v, s, now_)
    BY DEF Woken
  <2>3. {t} \in SUBSET Id
    OBVIOUS
  <2> HIDE DEF s
  <2>4. ASSUME NEW n PROVE ~Requested(SettleChain(v, s, now_), t, n)
    BY <1>2, <2>1, <2>2, <2>3, SettleChainRequested
  <2> QED BY <2>4
<1>7. \A r \in w.enqueue : r.job[1] = "execute" => r.job[2] # t
  <2> SUFFICES ASSUME NEW r \in w.enqueue, r.job[1] = "execute", r.job[2] = t PROVE FALSE
    OBVIOUS
  <2>1. r.job = ExecuteJob(t, r.job[3])
    BY <1>3 DEF View, EnqueueRequest, JobId, ExecuteJob
  <2> QED BY <1>6, <2>1 DEF Requested
<1> HIDE DEF w
<1> SUFFICES ASSUME NEW u \in Id PROVE DispatchOK(q, w, t, u)
  BY <1>3 DEF ViewOK
<1>8. DispatchOK(q, w, None, u) /\ None # u
  BY <1>3, NoneAssumption DEF ViewOK
<1> QED BY <1>5, <1>7, <1>8 DEF DispatchOK, Active

\* Suspending is right once the commit has acknowledged the claim.
LEMMA SuspendOK ==
    ASSUME NEW q, NEW v \in View, ViewOK(q, v, None), FreshView(v), NEW t \in Id,
           v.task[t].state = "acquired", NEW P \in SUBSET Id
    PROVE  ViewOK(q, Suspend(v, t, P), t)
<1> DEFINE w == Suspend(v, t, P)
           x == [Transition(v.task[t], "suspended") EXCEPT !.resumes = {}]
<1>1. v.task[t] \in StoredTask /\ t \notin v.release /\ \A n : ~Requested(v, t, n)
  BY DEF View, FreshView
<1>2. x.state = "suspended" /\ x.job = v.task[t].job
  BY <1>1 DEF Transition, StoredTask
<1>3. /\ w.release = v.release /\ w.enqueue = v.enqueue
      /\ \A u \in Id : w.task[u] = IF u = t THEN x ELSE v.task[u]
      /\ \A u \in Id : w.promise[u].state = v.promise[u].state
  BY DEF Suspend, View, StoredPromise
<1>4. \A r \in v.enqueue : r.job[1] = "execute" => r.job[2] # t
  <2> SUFFICES ASSUME NEW r \in v.enqueue, r.job[1] = "execute", r.job[2] = t PROVE FALSE
    OBVIOUS
  <2>1. r.job = ExecuteJob(t, r.job[3])
    BY DEF View, EnqueueRequest, JobId, ExecuteJob
  <2> QED BY <1>1, <2>1 DEF Requested
<1> HIDE DEF w, x
<1> SUFFICES ASSUME NEW u \in Id PROVE DispatchOK(q, w, t, u)
  BY DEF ViewOK, w
<1>5. DispatchOK(q, v, None, u) /\ None # u /\ DispatchOK(q, v, None, t)
  BY NoneAssumption DEF ViewOK
<1>6. Dispatches(q, w, u) = Dispatches(q, v, u)
  BY <1>3 DEF Dispatches
<1> QED BY <1>1, <1>2, <1>3, <1>4, <1>5, <1>6 DEF DispatchOK, Active, IsPending

-----------------------------------------------------------------------------
(* The queue's operations and the jobs of tasks                            *)

SameExecuteJobs(q, r) ==
    \A t \in Id, n \in 1 .. MaxDispatch :
        JobExists(q, ExecuteJob(t, n)) <=> JobExists(r, ExecuteJob(t, n))

\* The invariant depends on which jobs exist, not on their state.
LEMMA SameJobsOK ==
    ASSUME NEW q, NEW r, SameExecuteJobs(q, r), NEW v, NEW acked, NEW t \in Id,
           DispatchOK(q, v, acked, t)
    PROVE  DispatchOK(r, v, acked, t)
<1>1. Dispatches(q, v, t) = Dispatches(r, v, t)
  BY DEF Dispatches, SameExecuteJobs
<1> QED BY <1>1 DEF DispatchOK

\* The jobs of a task are jobs of the instance.
LEMMA ExecuteJobInJob ==
    ASSUME NEW t \in Id, NEW n \in 1 .. MaxDispatch PROVE ExecuteJob(t, n) \in Job
BY DEF ExecuteJob, Job

\* Claiming, renewing, failing and requeueing a job that exists keep it.
LEMMA KeepJobs ==
    ASSUME NEW q \in [Job -> JobRecord], NEW r \in [Job -> JobRecord],
           \A j \in Job : JobExists(q, j) <=> JobExists(r, j)
    PROVE  SameExecuteJobs(q, r)
BY ExecuteJobInJob DEF SameExecuteJobs

\* Failing a claim keeps the job.
LEMMA NackKeeps ==
    ASSUME NEW q \in [Job -> JobRecord], NEW c PROVE SameExecuteJobs(q, Nack(q, c))
<1>1. \A j \in Job : JobExists(q, j) <=> JobExists(Nack(q, c), j)
  BY DEF Nack, JobExists, IsCurrent, Waiting
<1>2. Nack(q, c) \in [Job -> JobRecord]
  BY QueueOpsType
<1> QED BY <1>1, <1>2, KeepJobs

\* Claiming or renewing a job keeps it.
LEMMA RenewKeeps ==
    ASSUME TypeOK, NEW c \in Claim, NEW lease \in Nat, jobs[c.job].state # "none"
    PROVE  SameExecuteJobs(jobs, RenewLease(c, lease))
<1>1. RenewLease(c, lease) \in [Job -> JobRecord] /\ jobs \in [Job -> JobRecord]
  BY RenewLeaseType DEF TypeOK
<1>2. \A j \in Job : JobExists(jobs, j) <=> JobExists(RenewLease(c, lease), j)
  BY DEF TypeOK, RenewLease, JobExists, Claimed
<1> QED BY <1>1, <1>2, KeepJobs

\* Reopening the queue keeps every job.
LEMMA ReopenKeeps ==
    ASSUME NEW q \in [Job -> JobRecord] PROVE SameExecuteJobs(q, Reopen(q))
<1>1. \A j \in Job : JobExists(q, j) <=> JobExists(Reopen(q), j)
  BY DEF Reopen, JobExists, Waiting
<1>2. Reopen(q) \in [Job -> JobRecord]
  BY QueueOpsType
<1> QED BY <1>1, <1>2, KeepJobs

\* An acknowledgement ends the job of its claim and no other.
LEMMA AckEnds ==
    ASSUME NEW q \in [Job -> JobRecord], NEW c, NEW j \in Job
    PROVE  JobExists(Ack(q, c), j) <=> JobExists(q, j) /\ ~(IsCurrent(q, c) /\ c.job = j)
BY DEF Ack, JobExists, NoJob

\* Enqueuing adds the requested jobs and no other.
LEMMA EnqueueAdds ==
    ASSUME NEW q \in [Job -> JobRecord], NEW R, NEW j \in Job
    PROVE  JobExists(Enqueue(q, R), j) <=> JobExists(q, j) \/ \E r \in R : r.job = j
BY DEF Enqueue, JobExists, Waiting

-----------------------------------------------------------------------------
(* Steps that open a transaction                                           *)

OneOfItsJobs(claim, t) == claim.job[1] = "execute" /\ claim.job[2] = t

HeldOK(h) == \A t \in Id : h[t] # None => OneOfItsJobs(h[t], t)

LastOK(v, last) ==
    /\ last.op = "hold" => last.claim \in Claim /\ OneOfItsJobs(last.claim, last.task)
    /\ last.op = "ack" => last.claim \in Claim /\
          (last.claim.job[1] = "execute" => v.task[last.claim.job[2]].state \notin Active)

\* The parts of the invariant on claims.
LEMMA ClaimsOKParts == ClaimsOK <=> HeldOK(held) /\ LastOK(view, after)
BY DEF ClaimsOK, HeldOK, LastOK, OneOfItsJobs

\* Opening a transaction on a right view keeps the inductive invariant.
LEMMA OpenOK ==
    ASSUME TypeInv, DispatchInv, NEW v \in View, NEW who, NEW acked, NEW last,
           Open(v, who, acked, last), ViewOK(jobs, v, acked), LastOK(v, last),
           SameExecuteJobs(jobs, jobs'), HeldOK(held'),
           v = view /\ acked = None /\ last = NoAfter => who = None
    PROVE  DispatchInv'
<1>1. /\ lock = "free" /\ InBounds(v) /\ view' = v /\ ack' = acked /\ after' = last
      /\ owner' = who /\ UNCHANGED <<promise, task>>
      /\ lock' = IF v # view \/ acked # None THEN "commit"
                 ELSE IF last # NoAfter THEN "finish" ELSE "free"
  BY DEF Open
<1>2. Committed' = Committed
  BY <1>1 DEF Committed
<1>3. ASSUME NEW t \in Id PROVE DispatchOK(jobs, Committed, None, t)'
  <2>1. DispatchOK(jobs, Committed, None, t)
    BY DEF DispatchInv
  <2>2. DispatchOK(jobs', Committed, None, t)
    BY <2>1, SameJobsOK
  <2> QED BY <1>2, <2>2 DEF DispatchOK, Dispatches
<1>4. ASSUME NEW t \in Id PROVE DispatchOK(jobs, view, ack, t)'
  <2>1. DispatchOK(jobs', v, acked, t)
    BY SameJobsOK DEF ViewOK
  <2> QED BY <1>1, <2>1 DEF DispatchOK, Dispatches
<1>5. InBounds(Committed)' /\ InBounds(view)'
  BY <1>1, <1>2 DEF DispatchInv, InBounds
<1>6. ViewIsCommitted'
  <2>1. view = Committed
    BY <1>1 DEF DispatchInv, ViewIsCommitted
  <2>2. Committed = [Committed EXCEPT !.release = Committed.release]
    BY DEF Committed
  <2> QED BY <1>1, <1>2, <2>1, <2>2 DEF ViewIsCommitted
<1>7. ClaimsOK'
  BY <1>1 DEF ClaimsOK, HeldOK, LastOK, OneOfItsJobs
<1> QED BY <1>3, <1>4, <1>5, <1>6, <1>7 DEF DispatchInv

\* Transactions of requests: no work follows, or it is not about a claim that the
\* loop delivers.
LEMMA HeldOKNow ==
    ASSUME TypeInv, DispatchInv, NEW t \in Id
    PROVE  HeldOK(held) /\ HeldOK(Drop(t)) /\ HeldOK(HeldAfterTest(t))
<1>1. HeldOK(held)
  BY ClaimsOKParts DEF DispatchInv
<1>2. held \in [Id -> Claim \cup {None}]
  BY DEF TypeInv, TypeOK
<1>3. HeldOK(Drop(t))
  BY <1>1, <1>2 DEF HeldOK, Drop
<1>4. HeldAfterTest(t) \in {held, Drop(t)}
  BY DEF HeldAfterTest, Drop
<1> QED BY <1>1, <1>3, <1>4

\* A step that leaves the jobs alone keeps them.
LEMMA SameJobs == ASSUME NEW q PROVE SameExecuteJobs(q, q)
BY DEF SameExecuteJobs

\* A request's transaction that leaves the jobs alone.
LEMMA ClientOpenOK ==
    ASSUME TypeInv, DispatchInv, NEW v \in View, NEW acked, NEW last,
           Open(v, None, acked, last), ViewOK(jobs, v, acked),
           last.op \notin {"hold", "ack"}, UNCHANGED jobs, HeldOK(held')
    PROVE  DispatchInv'
<1>1. SameExecuteJobs(jobs, jobs')
  BY SameJobs
<1>2. LastOK(v, last)
  BY DEF LastOK
<1> QED BY <1>1, <1>2, OpenOK

\* A request on a right view that changes no claim keeps the invariant.
LEMMA RequestOK ==
    ASSUME TypeInv, DispatchInv, NEW v \in View, ViewOK(jobs, v, None), Request(v)
    PROVE  DispatchInv'
<1>1. NoAfter.op \notin {"hold", "ack"}
  BY DEF NoAfter
<1>2. HeldOK(held)
  BY ClaimsOKParts DEF DispatchInv
<1>3. HeldOK(held')
  BY <1>2 DEF Request
<1>4. Open(v, None, None, NoAfter) /\ UNCHANGED jobs
  BY DEF Request
<1> QED BY <1>1, <1>3, <1>4, ClientOpenOK

\* The requests on promises keep the invariant.
LEMMA PromiseRequestOK ==
    ASSUME TypeInv, DispatchInv, PromiseRequest PROVE DispatchInv'
<1>0. now \in Nat
  BY DEF TypeInv, TypeOK
<1> PICK p \in Id :
       \/ \E data \in Creations[p] : PromiseCreate(p, data)
       \/ Get(p)
       \/ \E state \in Outcomes : PromiseSettle(p, state)
       \/ \E t \in Id : PromiseRegisterCallback(p, t)
       \/ \E address \in Address : PromiseRegisterListener(p, address)
  BY SMTT(40) DEF PromiseRequest
<1>f. lock = "free"
  BY DEF PromiseCreate, Get, PromiseSettle, PromiseRegisterCallback,
         PromiseRegisterListener, Request, Open
<1>t. Timed({p}) \in View /\ ViewOK(jobs, Timed({p}), None)
  BY <1>f, TimedOK
<1>1. ASSUME NEW data \in Creations[p], PromiseCreate(p, data) PROVE DispatchInv'
  <2> DEFINE w == CreateDispatched(Timed({p}), p, data, now)
  <2>1. data \in CreateData
    BY StoreAssumption
  <2>2. w \in View
    BY <1>0, <1>t, <2>1, CreateDispatchedType
  <2>3. Timed({p}).promise[p].state = "absent" => ViewOK(jobs, w, None)
    BY <1>0, <1>t, <2>1, CreateDispatchedOK
  <2>4. Request(IF Timed({p}).promise[p].state = "absent" THEN w ELSE Timed({p}))
    BY <1>1 DEF PromiseCreate
  <2> HIDE DEF w
  <2> QED BY <1>t, <2>2, <2>3, <2>4, RequestOK
<1>2. CASE Get(p)
  BY <1>2, <1>t, RequestOK DEF Get
<1>3. ASSUME NEW state \in Outcomes, PromiseSettle(p, state) PROVE DispatchInv'
  <2> DEFINE w == Settle(Timed({p}), p, state, now)
  <2>1. state \in SettleState
    BY StoreAssumption
  <2>2. w \in View /\ ViewOK(jobs, w, None)
    BY <1>0, <1>t, <2>1, SettleType, SettleOK
  <2>3. Request(w) \/ Request(Timed({p}))
    BY <1>3 DEF PromiseSettle
  <2> HIDE DEF w
  <2> QED BY <1>t, <2>2, <2>3, RequestOK
<1>4. ASSUME NEW t \in Id, PromiseRegisterCallback(p, t) PROVE DispatchInv'
  <2> DEFINE v == Timed({p, t})
             w == RegisterCallback(v, p, t)
             x == ResumeAwaiter(v, t, p)
  <2>1. v \in View /\ ViewOK(jobs, v, None)
    BY <1>f, TimedOK
  <2>2. Request(v) \/ Request(w) \/ Request(x)
    BY <1>4 DEF PromiseRegisterCallback
  <2> HIDE DEF v
  <2>3. w \in View /\ x \in View /\ ViewOK(jobs, x, None)
    BY <2>1, RegisterCallbackType, ResumeAwaiterType, ResumeAwaiterOK
  <2>4. w.task = v.task /\ w.enqueue = v.enqueue /\ w.release = v.release
        /\ \A q \in Id : w.promise[q].state = v.promise[q].state
    BY <2>1 DEF RegisterCallback, View, StoredPromise
  <2> HIDE DEF w, x
  <2>5. ViewOK(jobs, w, None)
    BY <2>1, <2>3, <2>4, RegisterOK
  <2> QED BY <2>1, <2>2, <2>3, <2>5, RequestOK
<1>5. ASSUME NEW a \in Address, PromiseRegisterListener(p, a) PROVE DispatchInv'
  <2> DEFINE v == Timed({p})
             w == [v EXCEPT !.promise[p].listeners = @ \cup {a}]
  <2>1. Request(v) \/ Request(w)
    BY <1>5 DEF PromiseRegisterListener
  <2>2. v.promise[p] \in StoredPromise
    BY <1>t DEF View
  <2>3. [v.promise[p] EXCEPT !.listeners = @ \cup {a}] \in StoredPromise
    BY <2>2 DEF StoredPromise
  <2>t. v \in View /\ ViewOK(jobs, v, None)
    BY <1>t
  <2> HIDE DEF v
  <2>4. w \in View
    BY <2>t, <2>3 DEF View
  <2>5. w.task = v.task /\ w.enqueue = v.enqueue /\ w.release = v.release
        /\ \A q \in Id : w.promise[q].state = v.promise[q].state
    BY <2>t DEF View, StoredPromise
  <2> HIDE DEF w
  <2>6. ViewOK(jobs, w, None)
    BY <2>t, <2>4, <2>5, RegisterOK
  <2> QED BY <2>t, <2>1, <2>4, <2>6, RequestOK
<1> QED BY <1>1, <1>2, <1>3, <1>4, <1>5

\* A request that acquires or is refused keeps the invariant.
LEMMA AcquireOr409OK ==
    ASSUME TypeInv, DispatchInv, NEW v \in View, ViewOK(jobs, v, None), NEW t \in Id,
           v.task[t].state = "pending", NEW pid \in Pid, NEW ttl \in Ttl,
           AcquireOr409(v, t, pid, ttl)
    PROVE  DispatchInv'
<1>1. ttl \in Int /\ LeaseOf(ttl) \in Nat
  BY StoreAssumption, LeaseOfType
<1>2. CASE Renewable(t)
  <2>1. held[t] \in Claim /\ jobs[held[t].job].state # "none"
    BY <1>2, ClaimedType DEF Renewable, Holds, LeaseLive, TypeInv
  <2>2. Acquire(v, t, pid, ttl) \in View /\ ViewOK(jobs, Acquire(v, t, pid, ttl), None)
    BY <1>1, AcquireType, AcquireOK
  <2>3. SameExecuteJobs(jobs, RenewLease(held[t], LeaseOf(ttl)))
    BY <1>1, <2>1, RenewKeeps DEF TypeInv
  <2>4. /\ Open(Acquire(v, t, pid, ttl), None, None, NoAfter)
        /\ SameExecuteJobs(jobs, jobs') /\ HeldOK(held')
    BY <1>2, <2>3, HeldOKNow DEF AcquireOr409
  <2>5. LastOK(Acquire(v, t, pid, ttl), NoAfter)
    BY DEF LastOK, NoAfter
  <2> QED BY <2>2, <2>4, <2>5, OpenOK
<1>3. CASE ~Renewable(t)
  <2>1. Open(v, None, None, NoAfter) /\ HeldOK(held') /\ UNCHANGED jobs
    BY <1>3, HeldOKNow DEF AcquireOr409
  <2>2. NoAfter.op \notin {"hold", "ack"}
    BY DEF NoAfter
  <2> QED BY <2>1, <2>2, ClientOpenOK
<1> QED BY <1>2, <1>3

\* So does one that claims the job by id first.
LEMMA ClaimAndAcquireOK ==
    ASSUME TypeInv, DispatchInv, NEW v \in View, ViewOK(jobs, v, None), NEW t \in Id,
           v.task[t].state = "pending", NEW pid \in Pid, NEW ttl \in Ttl,
           ClaimAndAcquire(v, t, pid, ttl)
    PROVE  DispatchInv'
<1> DEFINE c == [job |-> CurrentJob(t), ticket |-> FreshTicket(CurrentJob(t))]
<1>1. ttl \in Int /\ LeaseOf(ttl) \in Nat
  BY StoreAssumption, LeaseOfType
<1>2. /\ c \in Claim /\ jobs[c.job].state # "none" /\ OneOfItsJobs(c, t)
      /\ Open(Acquire(v, t, pid, ttl), None, None, NoAfter)
      /\ held' = [held EXCEPT ![t] = c]
      /\ jobs' = RenewLease(c, LeaseOf(ttl))
  BY DEF ClaimAndAcquire, Claimable, OneOfItsJobs, CurrentJob, ExecuteJob
<1> HIDE DEF c
<1>3. Acquire(v, t, pid, ttl) \in View /\ ViewOK(jobs, Acquire(v, t, pid, ttl), None)
  BY <1>1, AcquireType, AcquireOK
<1>4. SameExecuteJobs(jobs, jobs')
  BY <1>1, <1>2, RenewKeeps DEF TypeInv
<1>5. HeldOK(held')
  BY <1>2, HeldOKNow DEF HeldOK, TypeInv, TypeOK
<1>6. LastOK(Acquire(v, t, pid, ttl), NoAfter)
  BY DEF LastOK, NoAfter
<1> QED BY <1>2, <1>3, <1>4, <1>5, <1>6, OpenOK

\* task.create keeps the invariant.
LEMMA TaskCreateOK ==
    ASSUME TypeInv, DispatchInv, NEW t \in Id, NEW data \in Creations[t], NEW pid \in Pid,
           NEW ttl \in Ttl, TaskCreate(t, data, pid, ttl)
    PROVE  DispatchInv'
<1> DEFINE v == Timed({t})
           w == CreateAcquired(v, t, data, pid, ttl, now)
           last == IF now >= data.timeoutAt THEN NoAfter
                   ELSE [NoAfter EXCEPT !.op = "claim", !.task = t, !.lease = LeaseOf(ttl)]
<1>0. lock = "free"
  BY DEF TaskCreate, AcquireOr409, ClaimAndAcquire, Request, Open
<1>1. v \in View /\ ViewOK(jobs, v, None) /\ now \in Nat
  BY <1>0, TimedOK DEF TypeInv, TypeOK
<1>2. data \in CreateData /\ ttl \in Int /\ ttl >= 1
  BY StoreAssumption DEF TaskCreate
<1>3. last.op \notin {"hold", "ack"} /\ NoAfter.op \notin {"hold", "ack"}
  BY DEF NoAfter
<1>4. \/ v.task[t].state = "pending" /\ AcquireOr409(v, t, pid, ttl)
      \/ v.task[t].state = "pending" /\ ClaimAndAcquire(v, t, pid, ttl)
      \/ Open(v, None, None, NoAfter) /\ held' = Drop(t) /\ UNCHANGED jobs
      \/ v.promise[t].state = "absent" /\ Open(w, None, None, last) /\ UNCHANGED <<jobs, held>>
      \/ Request(v)
  BY DEF TaskCreate
<1> HIDE DEF v, last
<1>5. v.promise[t].state = "absent" => w \in View /\ ViewOK(jobs, w, None)
  BY <1>1, <1>2, CreateAcquiredType, CreateAcquiredOK
<1> HIDE DEF w
<1>6. CASE Open(v, None, None, NoAfter) /\ held' = Drop(t) /\ UNCHANGED jobs
  BY <1>1, <1>3, <1>6, HeldOKNow, ClientOpenOK
<1>7. CASE v.promise[t].state = "absent" /\ Open(w, None, None, last) /\ UNCHANGED <<jobs, held>>
  BY <1>3, <1>5, <1>7, HeldOKNow, ClientOpenOK
<1> QED BY <1>1, <1>4, <1>6, <1>7, AcquireOr409OK, ClaimAndAcquireOK, RequestOK

\* task.fulfill keeps the invariant: the task of a pending promise is settled.
LEMMA TaskFulfillOK ==
    ASSUME TypeInv, DispatchInv, NEW t \in Id, NEW version, NEW state \in Outcomes,
           TaskFulfill(t, version, state)
    PROVE  DispatchInv'
<1> DEFINE v == Timed({t})
           w == Settle(v, t, state, now)
<1>0. lock = "free"
  BY DEF TaskFulfill, Request, Open
<1>1. v \in View /\ ViewOK(jobs, v, None) /\ FreshView(v) /\ now \in Nat
  BY <1>0, TimedOK DEF TypeInv, TypeOK
<1>2. state \in SettleState /\ NoAfter.op \notin {"hold", "ack"}
  BY StoreAssumption DEF NoAfter
<1>3. \/ Request(v)
      \/ /\ IsAcquiredAt(v.task[t], version)
         /\ \/ Open(IF IsPending(v.promise[t]) THEN w ELSE v, None, t, NoAfter)
            \/ Open(v, None, None, NoAfter)
         /\ held' = HeldAfterTest(t) /\ UNCHANGED jobs
  BY DEF TaskFulfill
<1> HIDE DEF v
<1>4. CASE Request(v)
  BY <1>1, <1>4, RequestOK
<1>5. CASE IsAcquiredAt(v.task[t], version) /\ held' = HeldAfterTest(t) /\ UNCHANGED jobs
  <2>1. v.task[t].state = "acquired" /\ IsPending(v.promise[t])
    BY <1>1, <1>5 DEF IsAcquiredAt, ViewOK, DispatchOK
  <2>2. w \in View /\ ViewOK(jobs, w, t)
    BY <1>1, <1>2, <2>1, SettleType, SettleAckedOK
  <2> HIDE DEF w
  <2>3. HeldOK(held')
    BY <1>5, HeldOKNow
  <2>4. CASE Open(w, None, t, NoAfter)
    BY <1>2, <1>5, <2>2, <2>3, <2>4, ClientOpenOK
  <2>5. CASE Open(v, None, None, NoAfter)
    BY <1>1, <1>2, <1>5, <2>3, <2>5, ClientOpenOK
  <2> QED BY <1>3, <1>4, <2>1, <2>4, <2>5
<1> QED BY <1>3, <1>4, <1>5

\* task.suspend keeps the invariant, whichever of its answers it gives.
LEMMA TaskSuspendOK ==
    ASSUME TypeInv, DispatchInv, NEW t \in Id, NEW version, NEW P \in SUBSET Id,
           TaskSuspend(t, version, P)
    PROVE  DispatchInv'
<1> DEFINE v == Timed({t} \cup P)
           w == Suspend(v, t, P)
           x == [v EXCEPT !.task[t].resumes = {}]
<1>0. lock = "free"
  BY DEF TaskSuspend, Request, Open
<1>1. v \in View /\ ViewOK(jobs, v, None) /\ FreshView(v)
  BY <1>0, TimedOK
<1>2. NoAfter.op \notin {"hold", "ack"}
  BY DEF NoAfter
<1>3. \/ Request(v)
      \/ /\ IsAcquiredAt(v.task[t], version)
         /\ \/ Open(v, None, None, NoAfter)
            \/ Open(x, None, None, NoAfter)
            \/ Open(w, None, t, NoAfter)
         /\ held' = HeldAfterTest(t) /\ UNCHANGED jobs
  BY DEF TaskSuspend
<1> HIDE DEF v
<1>4. CASE Request(v)
  BY <1>1, <1>4, RequestOK
<1>5. CASE IsAcquiredAt(v.task[t], version) /\ held' = HeldAfterTest(t) /\ UNCHANGED jobs
  <2>1. v.task[t].state = "acquired" /\ v.task[t] \in StoredTask
    BY <1>1, <1>5 DEF IsAcquiredAt, View
  <2>2. w \in View /\ ViewOK(jobs, w, t)
    BY <1>1, <2>1, SuspendType, SuspendOK
  <2>3. HeldOK(held')
    BY <1>5, HeldOKNow
  <2>4. x \in View /\ ViewOK(jobs, x, None)
    <3> DEFINE y == [v.task[t] EXCEPT !.resumes = {}]
    <3>1. y \in StoredTask /\ y.job = v.task[t].job /\ y.state = "acquired"
      BY <2>1 DEF StoredTask
    <3>2. t \notin v.release /\ v.task[t].job \in Dispatches(jobs, v, t)
      BY <1>1, <2>1 DEF ViewOK, DispatchOK, Active
    <3>3. x = [v EXCEPT !.task[t] = y]
      BY <1>1, <2>1 DEF View
    <3> HIDE DEF x, y
    <3>4. ViewOK(jobs, [v EXCEPT !.task[t] = y], None)
      BY <1>1, <2>1, <3>1, <3>2, PutTaskOK
    <3> QED BY <1>1, <3>1, <3>3, <3>4, PutTaskType
  <2> HIDE DEF w, x
  <2> QED BY <1>1, <1>2, <1>3, <1>4, <1>5, <2>2, <2>3, <2>4, ClientOpenOK
<1> QED BY <1>3, <1>4, <1>5

\* Applying the deadlines leaves the jobs of halted tasks alone.
LEMMA TimedHalted ==
    ASSUME TypeInv, NEW P \in SUBSET Id, NEW t \in Id, Timed(P).task[t].state = "halted"
    PROVE  Timed(P).task[t].job = view.task[t].job
<1> DEFINE Q == {p \in P : IsPending(view.promise[p]) /\ now >= view.promise[p].timeoutAt}
           s == [p \in Q |-> Expired(view.promise[p])]
<1>1. Timed(P) = SettleChain(view, s, now)
  BY DEF Timed, TryTimeout, ExpirePromises
<1>2. view.task[t] \in StoredTask
  BY DEF TypeInv, TypeOK, View
<1> HIDE DEF s
<1> DEFINE w == SettleChain(view, s, now)
<1>3. CASE t \in DOMAIN s /\ view.task[t].state \notin {"absent", "fulfilled"}
  <2>1. w.task[t].state = "fulfilled"
    BY <1>2, <1>3 DEF SettleChain, Transition, StoredTask
  <2> QED BY <1>1, <2>1
<1>4. CASE /\ ~(t \in DOMAIN s /\ view.task[t].state \notin {"absent", "fulfilled"})
           /\ t \in Woken(view, s, now)
  <2>1. w.task[t] = ResumedTask(view.task[t], {p \in DOMAIN s : t \in s[p].callbacks}, "fanout")
    BY <1>4 DEF SettleChain
  <2> QED BY <1>1, <1>2, <2>1 DEF ResumedTask, Transition, StoredTask
<1>5. CASE /\ ~(t \in DOMAIN s /\ view.task[t].state \notin {"absent", "fulfilled"})
           /\ t \notin Woken(view, s, now)
  <2>1. w.task[t] = view.task[t]
    BY <1>5 DEF SettleChain
  <2> QED BY <1>1, <2>1
<1> QED BY <1>3, <1>4, <1>5

\* task.continue keeps the invariant.
LEMMA TaskContinueOK ==
    ASSUME TypeInv, DispatchInv, NEW t \in Id, TaskContinue(t) PROVE DispatchInv'
<1> DEFINE v == Timed({t})
           w == Continue(v, t, /\ v.task[t].job # 0
                               /\ JobExists(jobs, ExecuteJob(t, v.task[t].job)))
<1>0. lock = "free"
  BY DEF TaskContinue, Request, Open
<1>1. v \in View /\ ViewOK(jobs, v, None) /\ FreshView(v)
  BY <1>0, TimedOK
<1>2. v.task[t].state = "halted" => v.task[t].job <= MaxDispatch
  BY TimedHalted DEF DispatchInv, InBounds
<1>3. Request(IF v.task[t].state = "halted" THEN w ELSE v)
  BY DEF TaskContinue
<1> HIDE DEF v
<1>4. v.task[t].state = "halted" => w \in View /\ ViewOK(jobs, w, None)
  BY <1>1, <1>2, ContinueType, ContinueOK
<1> HIDE DEF w
<1> QED BY <1>1, <1>3, <1>4, RequestOK

\* task.fence keeps the invariant.
LEMMA TaskFenceOK ==
    ASSUME TypeInv, DispatchInv, NEW t \in Id, NEW version, NEW p \in Id,
           \/ \E data \in Creations[p] : TaskFenceCreate(t, version, p, data)
           \/ \E state \in Outcomes : TaskFenceSettle(t, version, p, state)
    PROVE  DispatchInv'
<1> DEFINE v == Timed({t, p})
<1>0. lock = "free"
  BY DEF TaskFenceCreate, TaskFenceSettle, Request, Open
<1>1. v \in View /\ ViewOK(jobs, v, None) /\ now \in Nat
  BY <1>0, TimedOK DEF TypeInv, TypeOK
<1>2. ASSUME NEW data \in Creations[p], TaskFenceCreate(t, version, p, data) PROVE DispatchInv'
  <2> DEFINE w == CreateDispatched(v, p, data, now)
  <2>1. data \in CreateData
    BY StoreAssumption
  <2>2. \/ v.promise[p].state = "absent" /\ Request(w)
        \/ Request(v)
    BY <1>2 DEF TaskFenceCreate
  <2> HIDE DEF v
  <2>3. v.promise[p].state = "absent" => w \in View /\ ViewOK(jobs, w, None)
    BY <1>1, <2>1, CreateDispatchedType, CreateDispatchedOK
  <2> HIDE DEF w
  <2> QED BY <1>1, <2>2, <2>3, RequestOK
<1>3. ASSUME NEW state \in Outcomes, TaskFenceSettle(t, version, p, state) PROVE DispatchInv'
  <2> DEFINE w == Settle(v, p, state, now)
  <2>1. Request(w) \/ Request(v)
    BY <1>3 DEF TaskFenceSettle
  <2> HIDE DEF v
  <2>2. w \in View /\ ViewOK(jobs, w, None)
    BY <1>1, SettleType, SettleOK, StoreAssumption
  <2> HIDE DEF w
  <2> QED BY <1>1, <2>1, <2>2, RequestOK
<1> QED BY <1>2, <1>3

\* Every request on a task keeps the invariant.
LEMMA TaskRequestOK ==
    ASSUME TypeInv, DispatchInv, TaskRequest PROVE DispatchInv'
<1> PICK t \in Id :
       \/ \E data \in Creations[t], pid \in Pid, ttl \in Ttl : TaskCreate(t, data, pid, ttl)
       \/ \E version \in 0 .. MaxVersion :
             \/ \E pid \in Pid, ttl \in Ttl : TaskAcquire(t, version, pid, ttl)
             \/ TaskRelease(t, version)
             \/ \E state \in Outcomes : TaskFulfill(t, version, state)
             \/ \E awaited \in SUBSET Id : TaskSuspend(t, version, awaited)
             \/ \E p \in Id :
                   \/ \E data \in Creations[p] : TaskFenceCreate(t, version, p, data)
                   \/ \E state \in Outcomes : TaskFenceSettle(t, version, p, state)
       \/ TaskHalt(t)
       \/ TaskContinue(t)
  BY DEF TaskRequest
<1> DEFINE v == Timed({t})
<1>1. lock = "free" => v \in View /\ ViewOK(jobs, v, None)
  BY TimedOK
<1>2. CASE \E data \in Creations[t], pid \in Pid, ttl \in Ttl : TaskCreate(t, data, pid, ttl)
  BY <1>2, TaskCreateOK
<1>3. ASSUME NEW version, NEW pid \in Pid, NEW ttl \in Ttl, TaskAcquire(t, version, pid, ttl)
      PROVE  DispatchInv'
  <2>1. \/ v.task[t].state = "pending" /\ AcquireOr409(v, t, pid, ttl)
        \/ Request(v)
    BY <1>3 DEF TaskAcquire
  <2>2. lock = "free"
    BY <2>1 DEF AcquireOr409, Request, Open
  <2> HIDE DEF v
  <2> QED BY <1>1, <2>1, <2>2, AcquireOr409OK, RequestOK
<1>4. ASSUME NEW version, TaskRelease(t, version) PROVE DispatchInv'
  <2> DEFINE w == Unassign(v, t)
             last == [NoAfter EXCEPT !.op = "nack", !.task = t]
  <2>1. \/ v.task[t].state = "acquired" /\ Open(w, None, None, last) /\ UNCHANGED <<jobs, held>>
        \/ Request(v)
    BY <1>4 DEF TaskRelease, IsAcquiredAt
  <2>2. lock = "free"
    BY <2>1 DEF Request, Open
  <2>3. last.op \notin {"hold", "ack"} /\ HeldOK(held)
    BY HeldOKNow DEF NoAfter
  <2> HIDE DEF v, last
  <2>4. v.task[t].state = "acquired" => w \in View /\ ViewOK(jobs, w, None)
    <3>1. v.task[t].state = "acquired" => t \notin v.release /\ v.task[t].job \in Dispatches(jobs, v, t)
      BY <1>1, <2>2 DEF ViewOK, DispatchOK, Active
    <3> QED BY <1>1, <2>2, <3>1, UnassignType, UnassignOK
  <2> HIDE DEF w
  <2> QED BY <1>1, <2>1, <2>2, <2>3, <2>4, ClientOpenOK, RequestOK
<1>5. CASE TaskHalt(t)
  <2> DEFINE w == Halt(v, t)
  <2>1. \/ v.task[t].state \in {"pending", "acquired", "suspended"} /\ Request(w)
        \/ Request(v)
    BY <1>5 DEF TaskHalt
  <2>2. lock = "free"
    BY <2>1 DEF Request, Open
  <2> HIDE DEF v
  <2>3. v.task[t].state \in {"pending", "acquired", "suspended"} => w \in View /\ ViewOK(jobs, w, None)
    BY <1>1, <2>2, HaltType, HaltOK
  <2> HIDE DEF w
  <2> QED BY <1>1, <2>1, <2>2, <2>3, RequestOK
<1> QED BY <1>2, <1>3, <1>4, <1>5, TaskContinueOK, TaskFulfillOK, TaskSuspendOK, TaskFenceOK

-----------------------------------------------------------------------------
(* The other steps                                                         *)

\* The invariant of the next state from its parts.
LEMMA InvNext ==
    ASSUME ViewOK(jobs', Committed', None), ViewOK(jobs', view', ack'),
           InBounds(Committed'), InBounds(view'), ViewIsCommitted',
           HeldOK(held'), LastOK(view', after')
    PROVE  DispatchInv'
<1>1. \A t \in Id : DispatchOK(jobs, Committed, None, t)'
  BY DEF ViewOK, DispatchOK, Dispatches
<1>2. \A t \in Id : DispatchOK(jobs, view, ack, t)'
  BY DEF ViewOK, DispatchOK, Dispatches
<1>3. InBounds(Committed)' /\ InBounds(view)'
  BY DEF InBounds
<1>4. ClaimsOK'
  BY DEF ClaimsOK, HeldOK, LastOK, OneOfItsJobs
<1> QED BY <1>1, <1>2, <1>3, <1>4 DEF DispatchInv

\* A step that leaves the records and the transaction alone, and keeps the jobs
\* of tasks.
LEMMA QuietOK ==
    ASSUME DispatchInv, UNCHANGED <<promise, task, view, lock, owner, ack, after>>,
           SameExecuteJobs(jobs, jobs'), HeldOK(held')
    PROVE  DispatchInv'
<1>1. Committed' = Committed
  BY DEF Committed
<1>2. ViewOK(jobs, Committed, None) /\ ViewOK(jobs, view, ack)
  BY DEF DispatchInv, ViewOK
<1>3. ViewOK(jobs', Committed, None) /\ ViewOK(jobs', view, ack)
  BY <1>2, SameJobsOK DEF ViewOK
<1>4. InBounds(Committed) /\ InBounds(view) /\ LastOK(view, after)
  BY ClaimsOKParts DEF DispatchInv
<1>5. ViewIsCommitted'
  BY <1>1 DEF DispatchInv, ViewIsCommitted
<1> QED BY <1>1, <1>3, <1>4, <1>5, InvNext

\* task.heartbeat keeps the invariant: it renews jobs and ends none.
LEMMA TaskHeartbeatOK ==
    ASSUME TypeInv, DispatchInv, NEW pid \in Pid, NEW named \in SUBSET Id,
           TaskHeartbeat(pid, named)
    PROVE  DispatchInv'
<1> DEFINE mine == {t \in named : /\ task[t].state = "acquired"
                                  /\ task[t].pid = pid /\ task[t].ttl # None}
           kept == {t \in mine : Renewable(t)}
<1>1. UNCHANGED <<promise, task, view, lock, owner, ack, after>>
  BY DEF TaskHeartbeat, txnVars
<1>2. HeldOK(held')
  <2>1. \A t \in Id : held'[t] \in {None, held[t]}
    BY DEF TaskHeartbeat
  <2> QED BY <2>1, ClaimsOKParts DEF HeldOK, DispatchInv
<1>3. jobs' \in [Job -> JobRecord] /\ jobs \in [Job -> JobRecord]
  BY TaskHeartbeatInv DEF TypeInv, TypeOK
<1>4. ASSUME NEW j \in Job PROVE JobExists(jobs, j) <=> JobExists(jobs', j)
  <2>1. jobs' = [i \in Job |->
                   IF \E t \in kept : held[t].job = i
                   THEN LET t == CHOOSE t \in kept : held[t].job = i
                        IN  Claimed(now + LeaseOf(task[t].ttl), held[t].ticket)
                   ELSE jobs[i]]
    BY DEF TaskHeartbeat
  <2>2. \A t \in kept : jobs[held[t].job].state = "claimed"
    BY DEF Renewable, IsCurrent
  <2> HIDE DEF kept
  <2>3. CASE \E t \in kept : held[t].job = j
    <3>1. jobs'[j].state = "claimed"
      BY <2>1, <2>3 DEF Claimed
    <3> QED BY <2>2, <2>3, <3>1 DEF JobExists
  <2>4. CASE ~\E t \in kept : held[t].job = j
    BY <2>1, <2>4 DEF JobExists
  <2> QED BY <2>3, <2>4
<1>5. SameExecuteJobs(jobs, jobs')
  BY <1>3, <1>4, KeepJobs
<1> QED BY <1>1, <1>2, <1>5, QuietOK

\* An acknowledged claim that no active task needs.
LEMMA AckOK ==
    ASSUME NEW q \in [Job -> JobRecord], NEW v \in View, ViewOK(q, v, None), NEW c \in Claim,
           c.job[1] = "execute" => v.task[c.job[2]].state \notin Active
    PROVE  ViewOK(Ack(q, c), v, None)
<1> SUFFICES ASSUME NEW t \in Id PROVE DispatchOK(Ack(q, c), v, None, t)
  BY DEF ViewOK
<1>1. DispatchOK(q, v, None, t) /\ None # t
  BY NoneAssumption DEF ViewOK
<1>2. ASSUME NEW n PROVE n \in Dispatches(Ack(q, c), v, t) => n \in Dispatches(q, v, t)
  BY DispatchesMember, ExecuteJobInJob, AckEnds
<1>3. ASSUME NEW n, v.task[t].state \in Active
      PROVE  n \in Dispatches(q, v, t) => n \in Dispatches(Ack(q, c), v, t)
  <2>1. c.job # ExecuteJob(t, n)
    BY <1>3 DEF ExecuteJob
  <2> QED BY <2>1, DispatchesMember, ExecuteJobInJob, AckEnds
<1> QED BY <1>1, <1>2, <1>3 DEF DispatchOK

\* The commit's acknowledgement ends the only job of the task.
LEMMA AckHeldOK ==
    ASSUME NEW q \in [Job -> JobRecord], NEW v \in View, NEW a \in Id, ViewOK(q, v, a),
           NEW c \in Claim, OneOfItsJobs(c, a), IsCurrent(q, c)
    PROVE  ViewOK(Ack(q, c), v, None)
<1> SUFFICES ASSUME NEW t \in Id PROVE DispatchOK(Ack(q, c), v, None, t)
  BY DEF ViewOK
<1>1. DispatchOK(q, v, a, t) /\ None # t /\ DispatchOK(q, v, a, a)
  BY NoneAssumption DEF ViewOK
<1>2. ASSUME NEW n PROVE n \in Dispatches(Ack(q, c), v, t) => n \in Dispatches(q, v, t)
  BY DispatchesMember, ExecuteJobInJob, AckEnds
<1>3. CASE t # a
  <2>1. ASSUME NEW n PROVE n \in Dispatches(q, v, t) => n \in Dispatches(Ack(q, c), v, t)
    <3>1. c.job # ExecuteJob(t, n)
      BY <1>3 DEF ExecuteJob, OneOfItsJobs
    <3> QED BY <3>1, DispatchesMember, ExecuteJobInJob, AckEnds
  <2>2. Dispatches(q, v, t) = Dispatches(Ack(q, c), v, t)
    BY <1>2, <2>1
  <2> QED BY <1>1, <1>3, <2>2 DEF DispatchOK
<1>4. CASE t = a
  <2>1. ASSUME NEW n \in Dispatches(Ack(q, c), v, a) PROVE FALSE
    <3>1. n = v.task[a].job
      BY <1>1, <1>2, <1>4, <2>1 DEF DispatchOK
    <3>2. ~Requested(v, a, n)
      <4> SUFFICES ASSUME NEW r \in v.enqueue, r.job = ExecuteJob(a, n) PROVE FALSE
        BY DEF Requested
      <4>1. r.job[1] = "execute" /\ r.job[2] = a
        BY DEF ExecuteJob
      <4> QED BY <1>1, <4>1 DEF DispatchOK
    <3>3. n \in 1 .. MaxDispatch /\ JobExists(Ack(q, c), ExecuteJob(a, n))
      BY <2>1, <3>2, DispatchesMember
    <3>4. c.job # ExecuteJob(a, n)
      BY <3>3, ExecuteJobInJob, AckEnds
    <3>5. PICK m \in 1 .. MaxDispatch : c.job = ExecuteJob(a, m)
      BY DEF OneOfItsJobs, Claim, Job, ExecuteJob
    <3>6. JobExists(q, ExecuteJob(a, m))
      BY <3>5 DEF IsCurrent, JobExists
    <3>7. m = v.task[a].job
      BY <1>1, <3>6, DispatchesMember DEF DispatchOK
    <3> QED BY <3>1, <3>4, <3>5, <3>7
  <2>2. Dispatches(Ack(q, c), v, a) = {}
    BY <2>1
  <2> QED BY <1>1, <1>4, <2>2 DEF DispatchOK
<1> QED BY <1>3, <1>4

\* The commit's enqueues become the jobs they request.
LEMMA EnqueueOK ==
    ASSUME NEW q \in [Job -> JobRecord], NEW v \in View, ViewOK(q, v, None), InBounds(v),
           NEW w \in View, w.task = v.task, w.promise = v.promise, w.enqueue = {},
           w.release \subseteq v.release
    PROVE  ViewOK(Enqueue(q, v.enqueue), w, None)
<1> SUFFICES ASSUME NEW t \in Id PROVE DispatchOK(Enqueue(q, v.enqueue), w, None, t)
  BY DEF ViewOK
<1>1. DispatchOK(q, v, None, t) /\ None # t
  BY NoneAssumption DEF ViewOK
<1>2. \A n : ~Requested(w, t, n)
  BY DEF Requested
<1>3. ASSUME NEW n, Requested(v, t, n) PROVE n \in 1 .. MaxDispatch
  <2>1. n = v.task[t].job
    BY <1>1, <1>3, DispatchesMember DEF DispatchOK
  <2>2. n <= MaxDispatch
    BY <2>1 DEF InBounds
  <2>3. n \in Nat \ {0}
    BY <1>3 DEF Requested, View, EnqueueRequest, JobId, ExecuteJob
  <2> QED BY <2>2, <2>3, QueueAssumption
<1>4. ASSUME NEW n PROVE n \in Dispatches(Enqueue(q, v.enqueue), w, t) <=> n \in Dispatches(q, v, t)
  <2>1. n \in 1 .. MaxDispatch =>
          (JobExists(Enqueue(q, v.enqueue), ExecuteJob(t, n)) <=>
             JobExists(q, ExecuteJob(t, n)) \/ Requested(v, t, n))
    BY ExecuteJobInJob, EnqueueAdds DEF Requested
  <2> QED BY <1>2, <1>3, <2>1, DispatchesMember
<1>5. Dispatches(Enqueue(q, v.enqueue), w, t) = Dispatches(q, v, t)
  BY <1>4
<1> QED BY <1>1, <1>5 DEF DispatchOK

\* A view that has fewer claims to release.
LEMMA ShrinkOK ==
    ASSUME NEW q, NEW v \in View, ViewOK(q, v, None), NEW w \in View, w.task = v.task,
           w.promise = v.promise, w.enqueue = v.enqueue, w.release \subseteq v.release
    PROVE  ViewOK(q, w, None)
<1> SUFFICES ASSUME NEW t \in Id PROVE DispatchOK(q, w, None, t)
  BY DEF ViewOK
<1>1. Dispatches(q, w, t) = Dispatches(q, v, t)
  BY DEF Dispatches
<1> QED BY <1>1 DEF DispatchOK, ViewOK

\* The end of a transaction whose work is done or given up, and a crash.
LEMMA RestOK ==
    ASSUME DispatchInv, UNCHANGED <<promise, task>>, view' = Committed,
           lock' = "free", owner' = None, ack' = None, after' = NoAfter,
           ViewOK(jobs', Committed, None), HeldOK(held')
    PROVE  DispatchInv'
<1>1. Committed' = Committed
  BY DEF Committed
<1>2. InBounds(Committed)
  BY DEF DispatchInv
<1>3. LastOK(view', after')
  BY DEF LastOK, NoAfter
<1>4. Committed = [Committed EXCEPT !.release = Committed.release]
  BY DEF Committed
<1>5. ViewIsCommitted'
  BY <1>1, <1>4 DEF ViewIsCommitted
<1> QED BY <1>1, <1>2, <1>3, <1>5, InvNext

\* The fields of a view whose enqueues are done.
LEMMA EnqueuedFields ==
    ASSUME NEW v \in View
    PROVE  [v EXCEPT !.enqueue = {}] = [promise |-> v.promise, task |-> v.task,
                                        enqueue |-> {}, release |-> v.release]
BY DEF View

\* A commit, with or without an acknowledgement, keeps the invariant.
LEMMA ApplyOK ==
    ASSUME TypeInv, DispatchInv, Apply, NEW q \in [Job -> JobRecord],
           ViewOK(q, view, None), jobs' = Enqueue(q, view.enqueue), HeldOK(held'),
           ack' = None, view' = [view EXCEPT !.enqueue = {}],
           \/ lock' = "finish" /\ after' = after
           \/ /\ lock' = "free" /\ view.release = {} /\ after' = NoAfter /\ owner' = None
    PROVE  DispatchInv'
<1>1. view \in View /\ InBounds(view) /\ LastOK(view, after)
  BY ClaimsOKParts DEF TypeInv, TypeOK, DispatchInv
<1>2. /\ Committed' \in View /\ view' \in View
      /\ Committed'.task = view.task /\ Committed'.promise = view.promise
      /\ Committed'.enqueue = {} /\ Committed'.release = {}
      /\ view'.task = view.task /\ view'.promise = view.promise
      /\ view'.enqueue = {} /\ view'.release = view.release
  BY <1>1 DEF Apply, Committed, View
<1>3. ViewOK(jobs', Committed', None) /\ ViewOK(jobs', view', None)
  BY <1>1, <1>2, EnqueueOK
<1>4. InBounds(Committed') /\ InBounds(view')
  BY <1>1, <1>2 DEF InBounds
<1>5. LastOK(view', after')
  BY <1>1, <1>2 DEF LastOK, NoAfter
<1>6. view' = [Committed' EXCEPT !.release = view'.release]
  <2>1. [view EXCEPT !.enqueue = {}] = [promise |-> view.promise, task |-> view.task,
                                        enqueue |-> {}, release |-> view.release]
    BY <1>1, EnqueuedFields
  <2>2. Committed' = [promise |-> view.promise, task |-> view.task, enqueue |-> {},
                      release |-> {}]
    BY DEF Apply, Committed
  <2> QED BY <1>2, <2>1, <2>2
<1>7. view.release = {} => view' = Committed'
  BY <1>1 DEF Apply, Committed, View
<1>8. ViewIsCommitted'
  BY <1>6, <1>7 DEF ViewIsCommitted
<1> QED BY <1>3, <1>4, <1>5, <1>8, InvNext

\* So does a commit whose request is dropped with the work that follows it.
LEMMA ApplyDroppedOK ==
    ASSUME TypeInv, DispatchInv, Apply, NEW q \in [Job -> JobRecord],
           ViewOK(q, view, None), jobs' = Enqueue(q, view.enqueue), HeldOK(held'),
           ack' = None, view' = [view EXCEPT !.enqueue = {}, !.release = {}],
           lock' = "free", after' = NoAfter, owner' = None
    PROVE  DispatchInv'
<1>1. view \in View /\ InBounds(view)
  BY DEF TypeInv, TypeOK, DispatchInv
<1>2. /\ Committed' \in View /\ view' = Committed'
      /\ Committed'.task = view.task /\ Committed'.promise = view.promise
      /\ Committed'.enqueue = {} /\ Committed'.release = {}
  BY <1>1 DEF Apply, Committed, View
<1>3. ViewOK(jobs', Committed', None)
  BY <1>1, <1>2, EnqueueOK
<1>4. InBounds(Committed')
  BY <1>1, <1>2 DEF InBounds
<1>5. LastOK(view', after')
  BY DEF LastOK, NoAfter
<1>6. view' = [Committed' EXCEPT !.release = view'.release]
  <2>1. Committed' = [promise |-> promise', task |-> task', enqueue |-> {}, release |-> {}]
    BY DEF Committed
  <2> QED BY <1>2, <2>1
<1>7. ViewIsCommitted'
  BY <1>2, <1>6 DEF ViewIsCommitted
<1> QED BY <1>2, <1>3, <1>4, <1>5, <1>7, InvNext

\* The last work after a commit keeps the invariant.
LEMMA FinishLastOK ==
    ASSUME TypeInv, DispatchInv, FinishLast PROVE DispatchInv'
<1>1. /\ lock = "finish" /\ view.release = {} /\ Unlock(TRUE)
      /\ UNCHANGED <<promise, task, view>>
  BY DEF FinishLast
<1>2. /\ lock' = "free" /\ owner' = None /\ ack' = None /\ after' = NoAfter
  BY <1>1 DEF Unlock
<1>3. view = Committed /\ ack = None
  BY <1>1 DEF DispatchInv, ViewIsCommitted, Committed
<1>4. ViewOK(jobs, Committed, None) /\ HeldOK(held) /\ LastOK(view, after)
  BY ClaimsOKParts DEF DispatchInv, ViewOK
<1>5. Committed \in View /\ jobs \in [Job -> JobRecord]
      /\ held \in [Id -> Claim \cup {None}] /\ after \in After
  BY CommittedType DEF TypeInv, TypeOK
<1>6. ASSUME SameExecuteJobs(jobs, jobs') PROVE ViewOK(jobs', Committed, None)
  BY <1>4, <1>6, SameJobsOK DEF ViewOK
<1>7. ViewOK(jobs', Committed, None) /\ HeldOK(held')
  <2>1. CASE UNCHANGED <<jobs, held>>
    BY <1>4, <2>1
  <2>2. CASE after.op = "ack" /\ jobs' = Ack(jobs, after.claim) /\ UNCHANGED held
    <3>1. after.claim \in Claim
      BY <1>4, <1>5, <2>2 DEF LastOK, After
    <3>2. after.claim.job[1] = "execute" => Committed.task[after.claim.job[2]].state \notin Active
      BY <1>3, <1>4, <2>2 DEF LastOK
    <3> QED BY <1>4, <1>5, <2>2, <3>1, <3>2, AckOK
  <2>3. CASE after.op = "hold" /\ held' = [held EXCEPT ![after.task] = after.claim] /\ UNCHANGED jobs
    BY <1>4, <1>5, <2>3 DEF LastOK, HeldOK
  <2>4. CASE /\ held' = Drop(after.task)
             /\ jobs' = IF held[after.task] = None THEN jobs ELSE Nack(jobs, held[after.task])
    <3>1. SameExecuteJobs(jobs, jobs')
      BY <1>5, <2>4, NackKeeps, SameJobs
    <3>2. HeldOK(held')
      BY <1>4, <1>5, <2>4 DEF HeldOK, Drop
    <3> QED BY <1>6, <3>1, <3>2
  <2>5. CASE /\ after.op = "claim" /\ Claimable(after.task)
             /\ LET c == [job |-> CurrentJob(after.task),
                          ticket |-> FreshTicket(CurrentJob(after.task))]
                IN  /\ c \in Claim
                    /\ held' = [held EXCEPT ![after.task] = c]
                    /\ jobs' = RenewLease(c, after.lease)
    <3> DEFINE c == [job |-> CurrentJob(after.task),
                     ticket |-> FreshTicket(CurrentJob(after.task))]
    <3>1. c \in Claim /\ held' = [held EXCEPT ![after.task] = c]
          /\ jobs' = RenewLease(c, after.lease)
          /\ jobs[c.job].state # "none" /\ OneOfItsJobs(c, after.task)
      BY <2>5 DEF Claimable, OneOfItsJobs, CurrentJob, ExecuteJob
    <3> HIDE DEF c
    <3>2. SameExecuteJobs(jobs, jobs')
      BY <1>5, <3>1, RenewKeeps DEF TypeInv, After
    <3>3. HeldOK(held')
      BY <1>4, <1>5, <3>1 DEF HeldOK
    <3> QED BY <1>6, <3>2, <3>3
  <2> QED BY <2>1, <2>2, <2>3, <2>4, <2>5 DEF FinishLast
<1> QED BY <1>1, <1>2, <1>3, <1>7, RestOK

\* A release ends a job only of a task that is halted or fulfilled.
LEMMA FinishReleaseOK ==
    ASSUME TypeInv, DispatchInv, NEW t \in Id, FinishRelease(t) PROVE DispatchInv'
<1>1. /\ lock = "finish" /\ t \in view.release /\ held' = Drop(t)
      /\ jobs' = IF held[t] = None THEN jobs ELSE Ack(jobs, held[t])
      /\ view' = [view EXCEPT !.release = @ \ {t}]
      /\ UNCHANGED <<promise, task, lock, owner, ack, after>>
  BY DEF FinishRelease
<1>2. view = [Committed EXCEPT !.release = view.release] /\ ack = None
  BY <1>1 DEF DispatchInv, ViewIsCommitted
<1>3. /\ ViewOK(jobs, view, None) /\ HeldOK(held) /\ LastOK(view, after) /\ HeldOK(held')
      /\ InBounds(view) /\ InBounds(Committed)
  BY <1>1, <1>2, ClaimsOKParts, HeldOKNow DEF DispatchInv, ViewOK
<1>4. view \in View /\ Committed \in View /\ jobs \in [Job -> JobRecord]
      /\ held \in [Id -> Claim \cup {None}]
  BY CommittedType DEF TypeInv, TypeOK
<1>5. view.task[t].state \notin Active
  BY <1>1, <1>3 DEF ViewOK, DispatchOK, Active
<1>6. ViewOK(jobs', view, None)
  <2>1. CASE held[t] = None
    BY <1>1, <1>3, <2>1
  <2>2. CASE held[t] # None
    <3>1. held[t] \in Claim /\ OneOfItsJobs(held[t], t)
      BY <1>3, <1>4, <2>2 DEF HeldOK
    <3>2. held[t].job[1] = "execute" => view.task[held[t].job[2]].state \notin Active
      BY <1>5, <3>1 DEF OneOfItsJobs
    <3> QED BY <1>1, <1>3, <1>4, <2>2, <3>1, <3>2, AckOK
  <2> QED BY <2>1, <2>2
<1>7. /\ view' \in View /\ view'.task = view.task /\ view'.promise = view.promise
      /\ view'.enqueue = view.enqueue /\ view'.release \subseteq view.release
  BY <1>1, <1>4 DEF View
<1>8. /\ Committed' = Committed /\ Committed.task = view.task
      /\ Committed.promise = view.promise /\ Committed.enqueue = view.enqueue
      /\ Committed.release = {}
  BY <1>1, <1>2 DEF Committed
<1>9. ViewOK(jobs', Committed', None) /\ ViewOK(jobs', view', ack')
  BY <1>1, <1>2, <1>4, <1>6, <1>7, <1>8, ShrinkOK
<1>10. ViewIsCommitted'
  <2>1. view' = [Committed EXCEPT !.release = view.release \ {t}]
    BY <1>1, <1>2 DEF Committed
  <2>2. view'.release = view.release \ {t}
    BY <1>1, <1>4 DEF View
  <2> QED BY <1>1, <1>2, <1>8, <2>1, <2>2 DEF ViewIsCommitted
<1>11. InBounds(Committed') /\ InBounds(view') /\ LastOK(view', after')
  BY <1>1, <1>3, <1>7, <1>8 DEF InBounds, LastOK
<1> QED BY <1>3, <1>9, <1>10, <1>11, InvNext

\* The steps of a transaction after its handler keep the invariant.
LEMMA TxnStepOK ==
    ASSUME TypeInv, DispatchInv, TxnStep PROVE DispatchInv'
<1>0. /\ jobs \in [Job -> JobRecord] /\ held \in [Id -> Claim \cup {None}]
      /\ ViewOK(jobs, view, ack) /\ ViewOK(jobs, Committed, None)
      /\ HeldOK(held)
  BY ClaimsOKParts DEF TypeInv, TypeOK, DispatchInv, ViewOK
<1>d. \A t : HeldOK(Drop(t))
  BY <1>0 DEF HeldOK, Drop
<1>1. CASE Commit
  <2>1. /\ Apply /\ jobs' = Enqueue(jobs, view.enqueue) /\ ack = None
        /\ view' = [view EXCEPT !.enqueue = {}]
        /\ HeldOK(held') /\ ack' = None
        /\ \/ lock' = "finish" /\ after' = after
           \/ /\ lock' = "free" /\ view.release = {} /\ after' = NoAfter /\ owner' = None
    BY <1>0, <1>1 DEF Commit, Unlock
  <2> QED BY <1>0, <2>1, ApplyOK
<1>2. CASE CommitAck
  <2>1. /\ Apply /\ ack # None /\ held[ack] # None /\ IsCurrent(jobs, held[ack])
        /\ jobs' = Enqueue(Ack(jobs, held[ack]), view.enqueue)
        /\ view' = [view EXCEPT !.enqueue = {}]
        /\ HeldOK(held') /\ ack' = None /\ lock' = "finish" /\ after' = after
    BY <1>d, <1>2 DEF CommitAck
  <2>2. ack \in Id /\ held[ack] \in Claim /\ OneOfItsJobs(held[ack], ack) /\ view \in View
    BY <1>0, <2>1 DEF TypeInv, TypeOK, HeldOK
  <2>3. ViewOK(Ack(jobs, held[ack]), view, None)
    BY <1>0, <2>1, <2>2, AckHeldOK
  <2>4. Ack(jobs, held[ack]) \in [Job -> JobRecord]
    BY <1>0, QueueOpsType
  <2> QED BY <2>1, <2>3, <2>4, ApplyOK
<1>3. CASE CommitLost
  <2>1. Abort /\ Unlock(FALSE) /\ UNCHANGED jobs /\ HeldOK(held')
    BY ZenonT(60), <1>d, <1>3 DEF CommitLost
  <2> QED BY <1>0, <2>1, RestOK DEF Abort, Unlock
<1> QED BY <1>1, <1>2, <1>3, FinishReleaseOK, FinishLastOK DEF TxnStep

\* A delivery keeps the invariant: it acknowledges only the job of a task that
\* is not to be executed.
LEMMA DeliverExecuteOK ==
    ASSUME TypeInv, DispatchInv, NEW l \in Loop, DeliverExecute(l) PROVE DispatchInv'
<1> DEFINE claim == loops[l].claim
           t == claim.job[2]
           v == Timed({t})
           w == Unassign(v, t)
           hold == [NoAfter EXCEPT !.op = "hold", !.task = t, !.claim = claim]
           acks == [NoAfter EXCEPT !.op = "ack", !.claim = claim]
<1>1. claim \in Claim /\ t \in Id /\ claim.job[1] = "execute"
  BY ZenonT(60), ClaimOfLoop DEF DeliverExecute, TypeInv
<1>2. /\ \/ v.task[t].state = "acquired" /\ Open(w, l, None, hold)
         \/ v.task[t].state # "acquired" /\ Open(v, l, None, hold)
         \/ v.task[t].state \notin Active /\ Open(v, l, None, acks)
      /\ UNCHANGED <<jobs, held>>
  BY ZenonT(60) DEF DeliverExecute, Active
<1>3. lock = "free"
  BY <1>2 DEF Open
<1>4. v \in View /\ ViewOK(jobs, v, None)
  BY <1>1, <1>3, TimedOK
<1> HIDE DEF v
<1>5. v.task[t].state = "acquired" => w \in View /\ ViewOK(jobs, w, None)
  <2>1. v.task[t].state = "acquired" =>
           t \notin v.release /\ v.task[t].job \in Dispatches(jobs, v, t)
    BY <1>1, <1>4 DEF ViewOK, DispatchOK, Active
  <2> QED BY <1>1, <1>4, <2>1, UnassignType, UnassignOK
<1>7. LastOK(w, hold) /\ LastOK(v, hold) /\ (v.task[t].state \notin Active => LastOK(v, acks))
  BY <1>1 DEF LastOK, OneOfItsJobs, NoAfter
<1>8. hold # NoAfter /\ acks # NoAfter
  BY DEF NoAfter
<1>9. SameExecuteJobs(jobs, jobs') /\ HeldOK(held')
  BY <1>1, <1>2, SameJobs, HeldOKNow
<1> HIDE DEF hold, acks, w, t
<1> QED BY <1>2, <1>4, <1>5, <1>7, <1>8, <1>9, OpenOK

\* The steps of the delivery loops and the timer worker keep the invariant.
LEMMA LoopStepOK ==
    ASSUME TypeInv, DispatchInv, NEW l \in Loop, LoopStep(l) PROVE DispatchInv'
<1>0. /\ HeldOK(held) /\ jobs \in [Job -> JobRecord] /\ view \in View
      /\ loops \in [Loop -> LoopState]
  BY ClaimsOKParts DEF DispatchInv, TypeInv, TypeOK
<1>1. ASSUME NEW job \in Job, LoopClaim(l, job) PROVE DispatchInv'
  <2> DEFINE c == [job |-> job, ticket |-> FreshTicket(job)]
             lease == LoopLease(l)
  <2>1. /\ c \in Claim /\ jobs' = RenewLease(c, lease) /\ jobs[c.job].state # "none"
        /\ UNCHANGED <<promise, task, held, view, lock, owner, ack, after>>
    BY <1>1 DEF LoopClaim, txnVars, IsDue
  <2>2. lease \in Nat
    BY StoreAssumption DEF LoopLease
  <2> HIDE DEF c, lease
  <2>3. SameExecuteJobs(jobs, jobs')
    BY <2>1, <2>2, RenewKeeps DEF TypeInv
  <2> QED BY <1>0, <2>1, <2>3, QuietOK
<1>2. CASE DeliverUnblock(l)
  <2> DEFINE last == [NoAfter EXCEPT !.op = "ack", !.claim = loops[l].claim]
  <2>1. /\ loops[l].claim.job[1] = "unblock" /\ loops[l].claim \in Claim
        /\ Open(view, l, None, last) /\ UNCHANGED <<jobs, held>>
    BY <1>2, ClaimOfLoop DEF DeliverUnblock, TypeInv
  <2>2. lock = "free"
    BY <2>1 DEF Open
  <2>3. ViewOK(jobs, view, None)
    BY <2>2 DEF DispatchInv, ViewIsCommitted, ViewOK
  <2>5. LastOK(view, last) /\ last # NoAfter
    BY <2>1 DEF LastOK, NoAfter
  <2>6. SameExecuteJobs(jobs, jobs') /\ HeldOK(held')
    BY <1>0, <2>1, SameJobs
  <2> HIDE DEF last
  <2> QED BY <1>0, <2>1, <2>3, <2>5, <2>6, OpenOK
<1>3. CASE DeliverExecute(l)
  BY <1>3, DeliverExecuteOK
<1>4. CASE FirePromiseTimeout(l)
  <2> DEFINE p == loops[l].claim.job[2]
             w == ExpirePromises(view, {p}, now)
  <2>1. lock = "free" /\ p \in Id
    BY <1>4, ClaimOfLoop DEF FirePromiseTimeout, TypeInv
  <2>2. ViewOK(jobs, view, None)
    BY <2>1 DEF DispatchInv, ViewIsCommitted, ViewOK
  <2>3. w \in View /\ ViewOK(jobs, w, None)
    BY <1>0, <2>1, <2>2, ExpirePromisesType, ExpirePromisesOK DEF TypeInv, TypeOK
  <2>4. CASE IsPending(view.promise[p]) /\ Open(w, l, None, NoAfter) /\ UNCHANGED <<jobs, held>>
    <3>1. w.promise[p].state # "pending"
      <4>1. view.promise[p] \in StoredPromise
        BY <1>0, <2>1 DEF View
      <4>2. TimeoutState(view.promise[p].tags) # "pending"
        BY DEF TimeoutState
      <4>3. Expired(view.promise[p]).state # "pending"
        BY SMTT(40), <4>1, <4>2 DEF Expired, StoredPromise
      <4>4. Expired(view.promise[p]) \in StoredPromise
        BY ZenonT(60), <4>1, TimeoutStateType DEF Expired, StoredPromise, PromiseState, SettleState
      <4> HIDE DEF p
      <4>5. w.promise[p] = [Expired(view.promise[p]) EXCEPT !.callbacks = {}, !.listeners = {}]
        BY <2>1 DEF ExpirePromises, SettleChain
      <4> HIDE DEF w
      <4> QED BY <4>3, <4>4, <4>5 DEF StoredPromise
    <3>2. w # view
      BY <2>4, <3>1 DEF IsPending
    <3>3. LastOK(w, NoAfter)
      BY DEF LastOK, NoAfter
    <3>4. SameExecuteJobs(jobs, jobs') /\ HeldOK(held')
      BY <1>0, <2>4, SameJobs
    <3> HIDE DEF w
    <3> QED BY <2>3, <2>4, <3>2, <3>3, <3>4, OpenOK
  <2>5. CASE UNCHANGED <<now, promise, task, jobs, held, txnVars, owed>>
    BY <1>0, <2>5, SameJobs, QuietOK DEF txnVars
  <2> QED BY <1>4, <2>4, <2>5 DEF FirePromiseTimeout
<1>5. CASE LoopEmit(l)
  <2>1. UNCHANGED <<promise, task, view, lock, owner, ack, after, held>>
    BY <1>5 DEF LoopEmit, txnVars
  <2>2. SameExecuteJobs(jobs, jobs')
    <3>1. CASE jobs' = jobs
      BY <3>1, SameJobs
    <3>2. CASE loops[l].claim.job[1] = "timer" /\ jobs' = Ack(jobs, loops[l].claim)
      <4>1. \A t, n : loops[l].claim.job # ExecuteJob(t, n)
        BY <3>2 DEF ExecuteJob
      <4> QED BY <1>0, <3>2, <4>1, AckEnds, ExecuteJobInJob DEF SameExecuteJobs
    <3> QED BY <1>5, <3>1, <3>2 DEF LoopEmit
  <2> QED BY <1>0, <2>1, <2>2, QuietOK
<1>6. CASE WorkerNack(l)
  <2>1. UNCHANGED <<promise, task, view, lock, owner, ack, after, held>>
        /\ jobs' = Nack(jobs, loops[l].claim)
    BY <1>6 DEF WorkerNack, txnVars
  <2>2. SameExecuteJobs(jobs, jobs')
    BY <1>0, <2>1, NackKeeps
  <2> QED BY <1>0, <2>1, <2>2, QuietOK
<1> QED BY <1>1, <1>2, <1>3, <1>4, <1>5, <1>6 DEF LoopStep

\* The clock and the reaper keep the invariant.
LEMMA EnvironmentOK ==
    ASSUME TypeInv, DispatchInv, EnvironmentStep PROVE DispatchInv'
<1>0. HeldOK(held) /\ jobs \in [Job -> JobRecord]
  BY ClaimsOKParts DEF DispatchInv, TypeInv, TypeOK
<1>1. CASE Tick
  BY <1>0, <1>1, SameJobs, QuietOK DEF Tick, txnVars
<1>2. ASSUME NEW job \in Job, Reap(job) PROVE DispatchInv'
  <2>1. /\ jobs[job].state = "claimed" /\ jobs' = [jobs EXCEPT ![job] = Waiting(0)]
        /\ UNCHANGED <<promise, task, view, lock, owner, ack, after, held>>
    BY <1>2 DEF Reap, LeaseEnded, Requeue, txnVars
  <2>2. jobs' \in [Job -> JobRecord]
    BY <1>0, <2>1 DEF Waiting, JobRecord
  <2>3. \A j \in Job : JobExists(jobs, j) <=> JobExists(jobs', j)
    BY <1>0, <2>1 DEF JobExists, Waiting
  <2>4. SameExecuteJobs(jobs, jobs')
    BY <1>0, <2>2, <2>3, KeepJobs
  <2> QED BY <1>0, <2>1, <2>4, QuietOK
<1> QED BY <1>1, <1>2 DEF EnvironmentStep

\* A claim that is dropped moves a job, and neither makes nor ends one.
LEMMA ClaimDroppedKeeps ==
    ASSUME TypeInv, NEW job, NEW lease \in Nat, ClaimDropped(job, lease)
    PROVE  SameExecuteJobs(jobs, jobs') /\ UNCHANGED <<promise, task>>
<1> DEFINE c == [job |-> job, ticket |-> FreshTicket(job)]
<1>1. /\ c \in Claim /\ jobs' = RenewLease(c, lease) /\ jobs[c.job].state # "none"
      /\ UNCHANGED <<promise, task>>
  BY DEF ClaimDropped
<1> HIDE DEF c
<1> QED BY <1>1, RenewKeeps DEF TypeInv

\* A request or a loop that is dropped keeps the invariant.
LEMMA DroppedStepOK ==
    ASSUME TypeInv, DispatchInv, DroppedStep PROVE DispatchInv'
<1>0. /\ jobs \in [Job -> JobRecord] /\ held \in [Id -> Claim \cup {None}]
      /\ ViewOK(jobs, view, ack) /\ ViewOK(jobs, Committed, None)
      /\ HeldOK(held)
  BY ClaimsOKParts DEF TypeInv, TypeOK, DispatchInv, ViewOK
<1>d. \A t : HeldOK(Drop(t))
  BY <1>0 DEF HeldOK, Drop
<1>1. CASE RequestDropped
  <2>1. Unlock(FALSE) /\ UNCHANGED held
    BY <1>1 DEF RequestDropped
  <2>2. CASE view' = Committed /\ UNCHANGED <<promise, task, jobs, owed>>
    BY <1>0, <2>1, <2>2, RestOK DEF Unlock
  <2>3. CASE /\ ack # None /\ held[ack] # None /\ IsCurrent(jobs, held[ack])
             /\ Apply /\ view' = [view EXCEPT !.enqueue = {}, !.release = {}]
             /\ jobs' = Enqueue(Ack(jobs, held[ack]), view.enqueue)
    <3>1. ack \in Id /\ held[ack] \in Claim /\ OneOfItsJobs(held[ack], ack) /\ view \in View
      BY <1>0, <2>3 DEF TypeInv, TypeOK, HeldOK
    <3>2. ViewOK(Ack(jobs, held[ack]), view, None)
      BY <1>0, <2>3, <3>1, AckHeldOK
    <3>3. Ack(jobs, held[ack]) \in [Job -> JobRecord]
      BY <1>0, QueueOpsType
    <3>4. /\ HeldOK(held') /\ ack' = None /\ lock' = "free" /\ after' = NoAfter
          /\ owner' = None
      BY <1>0, <2>1 DEF Unlock
    <3> QED BY <2>3, <3>2, <3>3, <3>4, ApplyDroppedOK
  <2> QED BY <1>1, <2>2, <2>3 DEF RequestDropped
<1>2. CASE AfterClaimDropped
  <2>1. after.lease \in Nat
    BY DEF TypeInv, TypeOK, After
  <2>2. /\ ClaimDropped(CurrentJob(after.task), after.lease)
        /\ view' = Committed /\ Unlock(FALSE) /\ UNCHANGED held
    BY <1>2 DEF AfterClaimDropped
  <2>3. SameExecuteJobs(jobs, jobs') /\ UNCHANGED <<promise, task>>
    BY <2>1, <2>2, ClaimDroppedKeeps
  <2>4. ViewOK(jobs', Committed, None)
    BY <1>0, <2>3, SameJobsOK DEF ViewOK
  <2> QED BY <1>0, <2>2, <2>3, <2>4, RestOK DEF Unlock
<1>3. ASSUME NEW t \in Id, NEW ttl \in Ttl, TaskCreateDropped(t, ttl) PROVE DispatchInv'
  <2>1. LeaseOf(ttl) \in Nat
    BY StoreAssumption, LeaseOfType
  <2>2. /\ ClaimDropped(CurrentJob(t), LeaseOf(ttl)) /\ HeldOK(held')
        /\ UNCHANGED <<view, lock, owner, ack, after>>
    BY <1>d, <1>3 DEF TaskCreateDropped, txnVars
  <2> QED BY <2>1, <2>2, ClaimDroppedKeeps, QuietOK
<1>4. ASSUME NEW l \in Loop, NEW job \in Job, LoopClaimDropped(l, job) PROVE DispatchInv'
  <2>1. LoopLease(l) \in Nat
    BY StoreAssumption DEF LoopLease
  <2>2. /\ ClaimDropped(job, LoopLease(l)) /\ HeldOK(held')
        /\ UNCHANGED <<view, lock, owner, ack, after>>
    BY <1>0, <1>4 DEF LoopClaimDropped, txnVars
  <2> QED BY <2>1, <2>2, ClaimDroppedKeeps, QuietOK
<1> QED BY <1>1, <1>2, <1>3, <1>4 DEF DroppedStep

\* Every fault keeps the invariant.
LEMMA FaultStepOK ==
    ASSUME TypeInv, DispatchInv, FaultStep PROVE DispatchInv'
<1>0. /\ HeldOK(held) /\ jobs \in [Job -> JobRecord] /\ ViewOK(jobs, Committed, None)
      /\ held \in [Id -> Claim \cup {None}]
  BY ClaimsOKParts DEF DispatchInv, TypeInv, TypeOK, ViewOK
<1>d. \A t : HeldOK(Drop(t))
  BY <1>0 DEF HeldOK, Drop
<1>1. CASE CommitFails
  <2>1. Abort /\ Unlock(FALSE) /\ UNCHANGED jobs /\ HeldOK(held')
    BY <1>0, <1>1 DEF CommitFails
  <2> QED BY <1>0, <2>1, RestOK DEF Abort, Unlock
<1>2. CASE Crash
  <2>1. /\ jobs' = Reopen(jobs) /\ held' = [t \in Id |-> None] /\ view' = Committed
        /\ lock' = "free" /\ owner' = None /\ ack' = None /\ after' = NoAfter
        /\ UNCHANGED <<promise, task>>
    BY <1>2 DEF Crash
  <2>2. ViewOK(jobs', Committed, None)
    BY <1>0, <2>1, ReopenKeeps, SameJobsOK DEF ViewOK
  <2>3. HeldOK(held')
    BY <2>1 DEF HeldOK
  <2> QED BY <2>1, <2>2, <2>3, RestOK
<1>3. CASE FinishFails
  <2>1. view' = Committed /\ Unlock(FALSE) /\ UNCHANGED <<promise, task, jobs>> /\ HeldOK(held')
    BY <1>0, <1>d, <1>3 DEF FinishFails
  <2> QED BY <1>0, <2>1, RestOK DEF Unlock
<1> QED BY <1>1, <1>2, <1>3, DroppedStepOK DEF FaultStep

\* The empty store satisfies the invariant.
LEMMA InitDispatch == Init => DispatchInv
<1> SUFFICES ASSUME Init PROVE DispatchInv
  OBVIOUS
<1>1. view = Committed /\ ack = None /\ view \in View
  BY InitType DEF Init, TypeInv, TypeOK
<1>2. ASSUME NEW t \in Id PROVE DispatchOK(jobs, Committed, None, t)
  <2>1. Committed.task[t] = NoTask /\ Committed.enqueue = {} /\ Committed.release = {}
    BY DEF Init, Committed
  <2>2. \A n \in 1 .. MaxDispatch : ~JobExists(jobs, ExecuteJob(t, n))
    BY ExecuteJobInJob DEF Init, JobExists, NoJob
  <2>3. Dispatches(jobs, Committed, t) = {}
    BY <2>1, <2>2 DEF Dispatches
  <2>4. NoTask.state = "absent" /\ None # t
    BY NoneAssumption DEF NoTask
  <2> QED BY <2>1, <2>3, <2>4 DEF DispatchOK, Active
<1>3. InBounds(Committed)
  <2>1. \A t \in Id : Committed.task[t] = NoTask
    BY DEF Init, Committed
  <2> QED BY <2>1, QueueAssumption, StoreAssumption DEF InBounds, NoTask
<1>4. ViewIsCommitted
  <2>1. Committed = [Committed EXCEPT !.release = Committed.release]
    BY DEF Committed
  <2> QED BY <1>1, <2>1 DEF Init, ViewIsCommitted
<1>5. ClaimsOK
  BY DEF Init, ClaimsOK, NoAfter
<1> QED BY <1>1, <1>2, <1>3, <1>4, <1>5 DEF DispatchInv

\* The invariant is inductive, given the types.
LEMMA DispatchStep == TypeInv /\ DispatchInv /\ [Next]_vars => DispatchInv'
<1> SUFFICES ASSUME TypeInv, DispatchInv, [Next]_vars PROVE DispatchInv'
  OBVIOUS
<1>1. CASE UNCHANGED vars
  <2>1. UNCHANGED <<promise, task, view, lock, owner, ack, after, held, jobs>>
    BY <1>1 DEF vars
  <2> QED BY <2>1, SameJobs, ClaimsOKParts, QuietOK DEF DispatchInv
<1> QED BY <1>1, PromiseRequestOK, TaskRequestOK, TaskHeartbeatOK, TxnStepOK,
           LoopStepOK, EnvironmentOK, FaultStepOK DEF Next, StoreStep, ClientRequest

-----------------------------------------------------------------------------
(* The theorems                                                            *)

\* The inductive invariant: in the committed records and in the view of an open
\* transaction, every task has the jobs its state needs and no other.
THEOREM DispatchInvariant == Spec => []DispatchInv
BY InitType, TypeInvStep, InitDispatch, DispatchStep, PTL DEF Spec

\* The dispatches of the committed records are the jobs in the queue.
LEMMA CommittedDispatches ==
    ASSUME NEW t \in Id
    PROVE  Dispatches(jobs, Committed, t) =
             {n \in 1 .. MaxDispatch : JobExists(jobs, ExecuteJob(t, n))}
BY DEF Dispatches, Committed

\* The job of a task to execute is never lost: not by an expired lease, a lost
\* claim, a failed commit or a crash between the steps of a transaction.
THEOREM DispatchIsNotLost == Spec => []DispatchNotLost
<1>1. DispatchInv => DispatchNotLost
  <2> SUFFICES ASSUME DispatchInv, NEW t \in Id, task[t].state \in {"pending", "acquired"}
               PROVE  task[t].job \in 1 .. MaxDispatch /\ JobExists(jobs, CurrentJob(t))
    BY DEF DispatchNotLost
  <2>1. task[t].job \in Dispatches(jobs, Committed, t)
    BY DEF DispatchInv, DispatchOK, Active, Committed
  <2> QED BY <2>1, CommittedDispatches DEF CurrentJob
<1> QED BY <1>1, DispatchInvariant, PTL

\* No job of an earlier dispatch of a task is alive.
THEOREM TaskHasOneJob == Spec => []OneJobPerTask
<1>1. DispatchInv => OneJobPerTask
  <2> SUFFICES ASSUME DispatchInv, NEW t \in Id, NEW n \in 1 .. MaxDispatch,
                      JobExists(jobs, ExecuteJob(t, n))
               PROVE  n = task[t].job
    BY DEF OneJobPerTask
  <2>1. n \in Dispatches(jobs, Committed, t)
    BY CommittedDispatches
  <2> QED BY <2>1 DEF DispatchInv, DispatchOK, Committed
<1> QED BY <1>1, DispatchInvariant, PTL

\* A suspended task has no job: it is not delivered before it is resumed.
THEOREM SuspendedTaskHasNoJob == Spec => []SuspendedHasNoJob
<1>1. DispatchInv => SuspendedHasNoJob
  <2> SUFFICES ASSUME DispatchInv, NEW t \in Id, NEW n \in 1 .. MaxDispatch,
                      task[t].state = "suspended"
               PROVE  ~JobExists(jobs, ExecuteJob(t, n))
    BY DEF SuspendedHasNoJob
  <2>1. Dispatches(jobs, Committed, t) = {}
    BY NoneAssumption DEF DispatchInv, DispatchOK, Committed
  <2> QED BY <2>1, CommittedDispatches
<1> QED BY <1>1, DispatchInvariant, PTL
=============================================================================
