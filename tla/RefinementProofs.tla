--------------------------- MODULE RefinementProofs ---------------------------
(***************************************************************************)
(* The store implements the protocol.  Every request, delivery and timer   *)
(* leaves one of a dozen effects in its view, what is committed is that    *)
(* view, and every effect is a step of the protocol.                       *)
(***************************************************************************)
EXTENDS Refinement, StoreProofs

\* The promise's deadline has passed, or it has not.
Due(p) == IsPending(view.promise[p]) /\ now >= view.promise[p].timeoutAt

Live(p) == IsPending(view.promise[p]) /\ now < view.promise[p].timeoutAt

\* The tasks a creation may start with.
FirstHeld(pid, ttl) ==
    [NewTask("acquired") EXCEPT !.version = 1, !.pid = pid, !.ttl = ttl]

FirstTask ==
    {NewTask("pending")} \cup {FirstHeld(pid, ttl) : pid \in Pid, ttl \in Int}

Expiry(v) == \E P \in SUBSET Id : v = Timed(P)

Firing(v) ==
    \E p \in Id, l \in Loop :
        /\ loops[l].pc = "claimed" /\ loops[l].claim \in Claim
        /\ loops[l].claim.job = TimerJob(p)
        /\ IsPending(view.promise[p])
        /\ v = ExpirePromises(view, {p}, now)

Creation(v) ==
    \E p \in Id, data \in CreateData, x \in FirstTask, runAt \in Nat :
        /\ view.promise[p].state = "absent"
        /\ v = CreateWith(view, p, data, x, runAt, now)

Settling(v) ==
    \E p \in Id, state \in SettleState :
        Live(p) /\ v = Settle(view, p, state, now)

Registration(v) ==
    \E p, t \in Id :
        /\ Live(p) /\ Live(t) /\ view.promise[t].tags.target # None
        /\ v = RegisterCallback(view, p, t)

Listening(v) ==
    \E p \in Id, a \in Address :
        /\ Live(p) /\ IsExternal(view.promise[p].tags)
        /\ v = [view EXCEPT !.promise[p].listeners = @ \cup {a}]

Resumption(v) ==
    \E P \in SUBSET Id, p, t \in Id :
        /\ Live(t) /\ view.promise[t].tags.target # None
        /\ Timed(P).promise[p].state \notin {"absent", "pending"}
        /\ v = ResumeAwaiter(Timed(P), t, p)

Acquisition(v) ==
    \E t \in Id, pid \in Pid, ttl \in Int :
        /\ Live(t) /\ view.task[t].state = "pending"
        /\ v = Acquire(view, t, pid, ttl)

Suspension(v) ==
    \E t \in Id, awaited \in SUBSET Id :
        /\ view.task[t].state = "acquired"
        /\ awaited # {} /\ \A p \in awaited : Live(p)
        /\ v = Suspend(view, t, awaited)

GoingOn(v) ==
    \E P \in SUBSET Id, t \in Id :
        /\ Timed(P).task[t].state = "acquired"
        /\ v = [Timed(P) EXCEPT !.task[t].resumes = {}]

Demotion(v) ==
    \E t \in Id :
        view.task[t].state = "acquired" /\ v = Unassign(view, t)

Halting(v) ==
    \E t \in Id :
        /\ view.task[t].state \in {"pending", "acquired", "suspended"}
        /\ v = Halt(view, t)

Continuation(v) ==
    \E t \in Id, jobWaits \in BOOLEAN :
        view.task[t].state = "halted" /\ v = Continue(view, t, jobWaits)

\* The view a handler leaves.
Effect(v) ==
    \/ Expiry(v) \/ Firing(v) \/ Creation(v) \/ Settling(v)
    \/ Registration(v) \/ Listening(v) \/ Resumption(v)
    \/ Acquisition(v) \/ Suspension(v) \/ GoingOn(v)
    \/ Demotion(v) \/ Halting(v) \/ Continuation(v)

-----------------------------------------------------------------------------
(* Deadlines that have not passed                                          *)

\* With no deadline to apply, a handler starts from the committed records.
LEMMA TimedSame ==
    ASSUME TypeInv, NEW P \in SUBSET Id, \A p \in P : ~Due(p)
    PROVE  Timed(P) = view
<1> DEFINE Q == {p \in P : IsPending(view.promise[p]) /\ now >= view.promise[p].timeoutAt}
           s == [p \in Q |-> Expired(view.promise[p])]
           w == SettleChain(view, s, now)
<1>1. Timed(P) = w
  BY DEF Timed, TryTimeout, ExpirePromises
<1>2. DOMAIN s = {}
  BY DEF Due
<1>3. view \in View
  BY DEF TypeInv, TypeOK
<1> HIDE DEF s
<1>4. Woken(view, s, now) = {}
  BY <1>2 DEF Woken
<1>5. w.promise = view.promise
  BY <1>2, <1>3 DEF SettleChain, View
<1>6. w.task = view.task
  BY <1>2, <1>3, <1>4 DEF SettleChain, View
<1>7. w.enqueue = view.enqueue
  BY <1>2, <1>4 DEF SettleChain
<1>8. w.release = view.release
  BY <1>2 DEF SettleChain
<1>9. w = [promise |-> w.promise, task |-> w.task, enqueue |-> w.enqueue, release |-> w.release]
  BY DEF SettleChain
<1>10. view = [promise |-> view.promise, task |-> view.task, enqueue |-> view.enqueue, release |-> view.release]
  BY <1>3 DEF View
<1> HIDE DEF w
<1> QED BY <1>1, <1>5, <1>6, <1>7, <1>8, <1>9, <1>10

\* A named promise that is not due is as it was, and one that is due is settled.
LEMMA TimedPromise ==
    ASSUME TypeInv, NEW P \in SUBSET Id, NEW p \in Id
    PROVE  /\ ~(p \in P /\ Due(p)) => Timed(P).promise[p] = view.promise[p]
           /\ p \in P /\ Due(p) =>
                Timed(P).promise[p] = [Expired(view.promise[p]) EXCEPT !.callbacks = {},
                                                                       !.listeners = {}]
<1> DEFINE Q == {q \in P : IsPending(view.promise[q]) /\ now >= view.promise[q].timeoutAt}
           s == [q \in Q |-> Expired(view.promise[q])]
<1>1. Timed(P) = SettleChain(view, s, now)
  BY DEF Timed, TryTimeout, ExpirePromises
<1>2. p \in DOMAIN s <=> p \in P /\ Due(p)
  BY DEF Due
<1>3. p \in DOMAIN s => s[p] = Expired(view.promise[p])
  OBVIOUS
<1> HIDE DEF s
<1>4. p \notin DOMAIN s => SettleChain(view, s, now).promise[p] = view.promise[p]
  BY DEF SettleChain
<1>5. p \in DOMAIN s => SettleChain(view, s, now).promise[p] =
                           [s[p] EXCEPT !.callbacks = {}, !.listeners = {}]
  BY DEF SettleChain
<1> QED BY <1>1, <1>2, <1>3, <1>4, <1>5

\* A settlement by the deadline keeps the deadline and the tags.
LEMMA ExpiredFields ==
    ASSUME NEW x \in StoredPromise
    PROVE  LET y == [Expired(x) EXCEPT !.callbacks = {}, !.listeners = {}]
           IN  /\ y.state = TimeoutState(x.tags) /\ y.state \notin {"absent", "pending"}
               /\ y.settledAt = x.timeoutAt /\ y.timeoutAt = x.timeoutAt /\ y.tags = x.tags
               /\ y.callbacks = {} /\ y.listeners = {}
<1>1. TimeoutState(x.tags) \notin {"absent", "pending"}
  BY DEF TimeoutState
<1> QED BY <1>1 DEF Expired, StoredPromise

\* A promise that is absent or pending after the deadlines were applied was so
\* before, and is not due.
LEMMA TimedOpen ==
    ASSUME TypeInv, NEW P \in SUBSET Id, NEW p \in P,
           Timed(P).promise[p].state \in {"absent", "pending"}
    PROVE  ~Due(p) /\ Timed(P).promise[p] = view.promise[p]
<1>1. p \in Id /\ view.promise[p] \in StoredPromise
  BY DEF TypeInv, TypeOK, View
<1> QED BY <1>1, TimedPromise, ExpiredFields

\* The deadline of a promise that is not due has not passed.
LEMMA NotDue ==
    ASSUME TypeInv, NEW p \in Id, IsPending(view.promise[p]), ~Due(p)
    PROVE  Live(p)
<1>1. view.promise[p].timeoutAt \in Nat /\ now \in Nat
  BY DEF TypeInv, TypeOK, View, StoredPromise
<1> QED BY <1>1 DEF Live, Due

\* A task that is not ended after the deadlines were applied is not past its own.
LEMMA TimedTask ==
    ASSUME TypeInv, DispatchInv, lock = "free", NEW P \in SUBSET Id, NEW t \in P,
           Timed(P).task[t].state \notin {"absent", "fulfilled"}
    PROVE  ~Due(t) /\ Live(t)
<1> DEFINE v == Timed(P)
<1>1. t \in Id /\ ViewOK(jobs, v, None)
  BY TimedOK
<1> HIDE DEF v
<1>2. IsPending(v.promise[t])
  BY <1>1 DEF ViewOK, DispatchOK, v
<1>3. ~Due(t) /\ IsPending(view.promise[t])
  BY <1>2, TimedOpen DEF v, IsPending
<1> QED BY <1>1, <1>3, NotDue

-----------------------------------------------------------------------------
(* The effects of the handlers                                             *)

\* A transaction is opened with an effect on the committed records.
Opened ==
    /\ lock = "free" /\ Effect(view')
    /\ UNCHANGED <<now, promise, task, owed>>

\* To open a transaction on a view with an effect is one such step.
LEMMA OpensEffect ==
    ASSUME NEW v, NEW who, NEW acked, NEW last, Open(v, who, acked, last), Effect(v)
    PROVE  Opened
BY DEF Open, Opened

\* The deadlines alone are an effect.
LEMMA TimedEffect ==
    ASSUME NEW P \in SUBSET Id PROVE Effect(Timed(P))
BY DEF Effect, Expiry

\* The two creations are creations.
LEMMA CreationEffect ==
    ASSUME now \in Nat, NEW p \in Id, NEW data \in CreateData, view.promise[p].state = "absent"
    PROVE  /\ Effect(CreateDispatched(view, p, data, now))
           /\ \A pid \in Pid, ttl \in Nat :
                 Effect(CreateAcquired(view, p, data, pid, ttl, now))
<1>1. Effect(CreateDispatched(view, p, data, now))
  <2> DEFINE delay == data.tags.delay
             runAt == IF delay = None THEN 0 ELSE IF now < delay THEN delay ELSE 0
             x == NewTask("pending")
  <2>1. runAt \in Nat /\ x \in FirstTask
    BY DEF CreateData, Tags, FirstTask
  <2>2. CreateDispatched(view, p, data, now) = CreateWith(view, p, data, x, runAt, now)
    BY DEF CreateDispatched
  <2> HIDE DEF runAt, x
  <2> QED BY <2>1, <2>2 DEF Effect, Creation
<1>2. ASSUME NEW pid \in Pid, NEW ttl \in Nat
      PROVE  Effect(CreateAcquired(view, p, data, pid, ttl, now))
  <2> DEFINE x == FirstHeld(pid, ttl)
  <2>1. now + ttl \in Nat /\ x \in FirstTask
    <3>1. ttl \in Int
      OBVIOUS
    <3> QED BY <3>1 DEF FirstTask
  <2>2. CreateAcquired(view, p, data, pid, ttl, now) = CreateWith(view, p, data, x, now + ttl, now)
    BY DEF CreateAcquired, FirstHeld
  <2> HIDE DEF x
  <2> QED BY <2>1, <2>2 DEF Effect, Creation
<1> QED BY <1>1, <1>2

\* Every request on a promise leaves an effect.
LEMMA PromiseRequestEffect ==
    ASSUME TypeInv, DispatchInv, PromiseRequest PROVE Opened
<1>0. now \in Nat
  BY DEF TypeInv, TypeOK
<1> PICK p \in Id :
       \/ \E data \in Creations[p] : PromiseCreate(p, data)
       \/ Get(p)
       \/ \E state \in Outcomes : PromiseSettle(p, state)
       \/ \E t \in Id : PromiseRegisterCallback(p, t)
       \/ \E address \in Address : PromiseRegisterListener(p, address)
  BY DEF PromiseRequest
<1>t. Effect(Timed({p}))
  BY TimedEffect
<1>o. Timed({p}).promise[p].state \in {"absent", "pending"} =>
        Timed({p}) = view /\ ~Due(p)
  BY TimedOpen, TimedSame
<1>r. ASSUME NEW v, Request(v), Effect(v) PROVE Opened
  BY <1>r, OpensEffect DEF Request
<1>1. ASSUME NEW data \in Creations[p], PromiseCreate(p, data) PROVE Opened
  <2>1. data \in CreateData
    BY StoreAssumption
  <2>2. CASE Timed({p}).promise[p].state = "absent"
    <3>1. Timed({p}) = view
      BY <1>o, <2>2
    <3>2. Request(CreateDispatched(view, p, data, now))
      BY <1>1, <2>2, <3>1 DEF PromiseCreate
    <3> QED BY <1>0, <1>r, <2>1, <2>2, <3>1, <3>2, CreationEffect
  <2>3. CASE Timed({p}).promise[p].state # "absent"
    BY <1>1, <1>r, <1>t, <2>3 DEF PromiseCreate
  <2> QED BY <2>2, <2>3
<1>2. CASE Get(p)
  BY <1>2, <1>r, <1>t DEF Get
<1>3. ASSUME NEW state \in Outcomes, PromiseSettle(p, state) PROVE Opened
  <2>1. state \in SettleState
    BY StoreAssumption
  <2>2. CASE IsPending(Timed({p}).promise[p])
    <3>1. Timed({p}) = view /\ Live(p)
      BY <1>o, <2>2, NotDue DEF IsPending
    <3>2. Request(Settle(view, p, state, now))
      BY <1>3, <2>2, <3>1 DEF PromiseSettle
    <3> QED BY <1>r, <2>1, <3>1, <3>2 DEF Effect, Settling
  <2>3. CASE ~IsPending(Timed({p}).promise[p])
    BY <1>3, <1>r, <1>t, <2>3 DEF PromiseSettle
  <2> QED BY <2>2, <2>3
<1>4. ASSUME NEW t \in Id, PromiseRegisterCallback(p, t) PROVE Opened
  <2> DEFINE P == {p, t}
             v == Timed(P)
  <2>1. \/ Request(v)
        \/ /\ IsPending(v.promise[t]) /\ v.promise[t].tags.target # None
           /\ \/ IsPending(v.promise[p]) /\ Request(RegisterCallback(v, p, t))
              \/ /\ ~IsPending(v.promise[p]) /\ v.promise[p].state # "absent"
                 /\ Request(ResumeAwaiter(v, t, p))
    BY <1>4 DEF PromiseRegisterCallback
  <2>2. P \in SUBSET Id /\ p \in P /\ t \in P
    OBVIOUS
  <2>3. CASE Request(v)
    BY <2>2, <2>3, <1>r, TimedEffect
  <2>4. ASSUME IsPending(v.promise[t])
        PROVE  ~Due(t) /\ Live(t) /\ v.promise[t] = view.promise[t]
    BY <2>2, <2>4, TimedOpen, NotDue DEF IsPending
  <2>5. CASE /\ IsPending(v.promise[t]) /\ v.promise[t].tags.target # None
             /\ IsPending(v.promise[p]) /\ Request(RegisterCallback(v, p, t))
    <3>1. ~Due(p) /\ Live(p)
      BY <2>2, <2>5, TimedOpen, NotDue DEF IsPending
    <3>2. v = view
      BY <2>4, <2>5, <3>1, TimedSame
    <3> HIDE DEF v
    <3> QED BY <1>r, <2>4, <2>5, <3>1, <3>2 DEF Effect, Registration
  <2>6. CASE /\ IsPending(v.promise[t]) /\ v.promise[t].tags.target # None
             /\ ~IsPending(v.promise[p]) /\ v.promise[p].state # "absent"
             /\ Request(ResumeAwaiter(v, t, p))
    <3> HIDE DEF P
    <3>1. Effect(ResumeAwaiter(v, t, p))
      BY <2>2, <2>4, <2>6 DEF Effect, Resumption, IsPending
    <3> QED BY <1>r, <2>6, <3>1
  <2> QED BY <2>1, <2>3, <2>5, <2>6
<1>5. ASSUME NEW a \in Address, PromiseRegisterListener(p, a) PROVE Opened
  <2> DEFINE v == Timed({p})
             w == [v EXCEPT !.promise[p].listeners = @ \cup {a}]
  <2>1. \/ Request(v)
        \/ IsExternal(v.promise[p].tags) /\ IsPending(v.promise[p]) /\ Request(w)
    BY <1>5 DEF PromiseRegisterListener
  <2>2. CASE IsExternal(v.promise[p].tags) /\ IsPending(v.promise[p]) /\ Request(w)
    <3>1. v = view /\ Live(p)
      BY <1>o, <2>2, NotDue DEF IsPending
    <3> HIDE DEF v
    <3>2. Effect(w)
      BY <2>2, <3>1 DEF Effect, Listening
    <3> QED BY <1>r, <2>2, <3>2
  <2> QED BY <1>r, <1>t, <2>1, <2>2
<1> QED BY <1>1, <1>2, <1>3, <1>4, <1>5

\* An acquisition of a task that waits for a worker is an effect, and so is its
\* refusal.
LEMMA AcquisitionEffect ==
    ASSUME TypeInv, DispatchInv, NEW t \in Id, NEW pid \in Pid, NEW ttl \in Int,
           Timed({t}).task[t].state = "pending",
           AcquireOr409(Timed({t}), t, pid, ttl) \/ ClaimAndAcquire(Timed({t}), t, pid, ttl)
    PROVE  Opened
<1> DEFINE v == Timed({t})
<1>1. lock = "free"
  BY DEF AcquireOr409, ClaimAndAcquire, Open
<1>2. ~Due(t) /\ Live(t)
  BY <1>1, TimedTask
<1>3. v = view
  BY <1>2, TimedSame
<1>4. \/ Open(Acquire(v, t, pid, ttl), None, None, NoAfter)
      \/ Open(v, None, None, NoAfter)
  BY DEF AcquireOr409, ClaimAndAcquire
<1>5. Effect(v)
  BY TimedEffect
<1> HIDE DEF v
<1>6. Effect(Acquire(v, t, pid, ttl))
  BY <1>2, <1>3 DEF Effect, Acquisition, v
<1> QED BY <1>4, <1>5, <1>6, OpensEffect

\* task.create leaves an effect.
LEMMA TaskCreateEffect ==
    ASSUME TypeInv, DispatchInv, NEW t \in Id, NEW data \in Creations[t], NEW pid \in Pid,
           NEW ttl \in Ttl, TaskCreate(t, data, pid, ttl)
    PROVE  Opened
<1> DEFINE v == Timed({t})
           w == CreateAcquired(v, t, data, pid, ttl, now)
           last == IF now >= data.timeoutAt THEN NoAfter
                   ELSE [NoAfter EXCEPT !.op = "claim", !.task = t, !.lease = LeaseOf(ttl)]
<1>1. data \in CreateData /\ ttl \in Int /\ ttl \in Nat /\ now \in Nat
  BY StoreAssumption DEF TaskCreate, TypeInv, TypeOK
<1>2. \/ /\ v.task[t].state = "pending"
         /\ AcquireOr409(v, t, pid, ttl) \/ ClaimAndAcquire(v, t, pid, ttl)
      \/ Open(v, None, None, NoAfter)
      \/ v.promise[t].state = "absent" /\ Open(w, None, None, last)
  BY DEF TaskCreate, Request
<1>3. CASE v.promise[t].state = "absent" /\ Open(w, None, None, last)
  <2>1. v = view
    BY <1>3, TimedOpen, TimedSame
  <2> HIDE DEF v, last
  <2>2. Effect(w)
    BY <1>1, <1>3, <2>1, CreationEffect
  <2> HIDE DEF w
  <2> QED BY <1>3, <2>2, OpensEffect
<1>4. CASE Open(v, None, None, NoAfter)
  <2>1. Effect(v)
    BY TimedEffect
  <2> QED BY <1>4, <2>1, OpensEffect
<1> QED BY <1>1, <1>2, <1>3, <1>4, AcquisitionEffect

\* task.fulfill leaves an effect.
LEMMA TaskFulfillEffect ==
    ASSUME TypeInv, DispatchInv, NEW t \in Id, NEW version, NEW state \in Outcomes,
           TaskFulfill(t, version, state)
    PROVE  Opened
<1> DEFINE v == Timed({t})
<1>0. lock = "free"
  BY DEF TaskFulfill, Request, Open
<1>1. Effect(v) /\ state \in SettleState
  BY TimedEffect, StoreAssumption
<1>2. \/ Open(v, None, None, NoAfter)
      \/ /\ v.task[t].state = "acquired"
         /\ Open(IF IsPending(v.promise[t]) THEN Settle(v, t, state, now) ELSE v, None, t, NoAfter)
  BY DEF TaskFulfill, Request, IsAcquiredAt
<1>3. CASE Open(v, None, None, NoAfter)
  BY <1>1, <1>3, OpensEffect
<1>4. CASE /\ v.task[t].state = "acquired"
           /\ Open(IF IsPending(v.promise[t]) THEN Settle(v, t, state, now) ELSE v, None, t, NoAfter)
  <2>1. Live(t) /\ ~Due(t)
    BY <1>0, <1>4, TimedTask
  <2>2. v = view
    BY <2>1, TimedSame
  <2> HIDE DEF v
  <2>3. Effect(Settle(v, t, state, now))
    BY <1>1, <2>1, <2>2 DEF Effect, Settling
  <2> QED BY <1>1, <1>4, <2>3, OpensEffect
<1> QED BY <1>2, <1>3, <1>4

\* task.suspend leaves an effect, whichever of its answers it gives.
LEMMA TaskSuspendEffect ==
    ASSUME TypeInv, DispatchInv, NEW t \in Id, NEW version, NEW awaited \in SUBSET Id,
           TaskSuspend(t, version, awaited)
    PROVE  Opened
<1> DEFINE P == {t} \cup awaited
           v == Timed(P)
           w == Suspend(v, t, awaited)
           x == [v EXCEPT !.task[t].resumes = {}]
<1>0. lock = "free"
  BY DEF TaskSuspend, Request, Open
<1>1. Effect(v) /\ P \in SUBSET Id
  BY TimedEffect
<1>2. \/ Open(v, None, None, NoAfter)
      \/ /\ v.task[t].state = "acquired"
         /\ \/ Open(x, None, None, NoAfter)
            \/ /\ awaited # {} /\ \A p \in awaited : IsPending(v.promise[p])
               /\ Open(w, None, t, NoAfter)
  BY DEF TaskSuspend, Request, IsAcquiredAt, AnySettled
<1> HIDE DEF P
<1>3. CASE Open(v, None, None, NoAfter)
  BY <1>1, <1>3, OpensEffect
<1>4. CASE v.task[t].state = "acquired" /\ Open(x, None, None, NoAfter)
  <2>1. Effect(x)
    BY <1>1, <1>4 DEF Effect, GoingOn
  <2> QED BY <1>4, <2>1, OpensEffect
<1>5. CASE /\ v.task[t].state = "acquired"
           /\ awaited # {} /\ \A p \in awaited : IsPending(v.promise[p])
           /\ Open(w, None, t, NoAfter)
  <2>1. Live(t) /\ ~Due(t)
    BY <1>0, <1>1, <1>5, TimedTask DEF P
  <2>2. ASSUME NEW p \in awaited PROVE ~Due(p) /\ Live(p)
    BY <1>1, <1>5, TimedOpen, NotDue DEF P, IsPending
  <2>3. v = view
    BY <1>1, <2>1, <2>2, TimedSame DEF P
  <2> HIDE DEF v
  <2>4. Effect(w)
    BY <1>5, <2>2, <2>3 DEF Effect, Suspension
  <2> QED BY <1>5, <2>4, OpensEffect
<1> QED BY <1>2, <1>3, <1>4, <1>5

\* task.fence leaves an effect.
LEMMA TaskFenceEffect ==
    ASSUME TypeInv, DispatchInv, NEW t \in Id, NEW version, NEW p \in Id,
           \/ \E data \in Creations[p] : TaskFenceCreate(t, version, p, data)
           \/ \E state \in Outcomes : TaskFenceSettle(t, version, p, state)
    PROVE  Opened
<1> DEFINE P == {t, p}
           v == Timed(P)
<1>0. lock = "free" /\ now \in Nat
  BY DEF TaskFenceCreate, TaskFenceSettle, Request, Open, TypeInv, TypeOK
<1>1. Effect(v) /\ P \in SUBSET Id /\ t \in P /\ p \in P
  BY TimedEffect
<1>r. ASSUME NEW z, Request(z), Effect(z) PROVE Opened
  BY <1>r, OpensEffect DEF Request
<1>2. ASSUME v.task[t].state = "acquired", v.promise[p].state \in {"absent", "pending"}
      PROVE  v = view /\ ~Due(p)
  <2>1. ~Due(t)
    BY <1>0, <1>1, <1>2, TimedTask
  <2>2. ~Due(p)
    BY <1>1, <1>2, TimedOpen
  <2> QED BY <1>1, <2>1, <2>2, TimedSame
<1>3. ASSUME NEW data \in Creations[p], TaskFenceCreate(t, version, p, data) PROVE Opened
  <2> DEFINE w == CreateDispatched(v, p, data, now)
  <2>1. data \in CreateData
    BY StoreAssumption
  <2>2. \/ v.task[t].state = "acquired" /\ v.promise[p].state = "absent" /\ Request(w)
        \/ Request(v)
    BY <1>3 DEF TaskFenceCreate, IsAcquiredAt
  <2> HIDE DEF v
  <2>3. v.task[t].state = "acquired" /\ v.promise[p].state = "absent" => Effect(w)
    BY <1>0, <1>2, <2>1, CreationEffect
  <2> HIDE DEF w
  <2> QED BY <1>1, <1>r, <2>2, <2>3
<1>4. ASSUME NEW state \in Outcomes, TaskFenceSettle(t, version, p, state) PROVE Opened
  <2> DEFINE w == Settle(v, p, state, now)
  <2>1. state \in SettleState
    BY StoreAssumption
  <2>2. \/ v.task[t].state = "acquired" /\ IsPending(v.promise[p]) /\ Request(w)
        \/ Request(v)
    BY <1>4 DEF TaskFenceSettle, IsAcquiredAt
  <2> HIDE DEF v
  <2>3. ASSUME v.task[t].state = "acquired", IsPending(v.promise[p]) PROVE Effect(w)
    <3>1. v = view /\ Live(p)
      BY <1>2, <2>3, NotDue DEF IsPending
    <3> QED BY <2>1, <3>1 DEF Effect, Settling
  <2> HIDE DEF w
  <2> QED BY <1>1, <1>r, <2>2, <2>3
<1> QED BY <1>3, <1>4

\* Every request on a task leaves an effect.
LEMMA TaskRequestEffect ==
    ASSUME TypeInv, DispatchInv, TaskRequest PROVE Opened
<1> PICK t \in Id :
       \/ \E data \in Creations[t], pid \in Pid, ttl \in Ttl : TaskCreate(t, data, pid, ttl)
       \/ \E version \in 0 .. MaxVersion :
             \/ \E pid \in Pid, ttl \in Ttl : TaskAcquire(t, version, pid, ttl)
             \/ TaskRelease(t, version)
             \/ \E state \in Outcomes : TaskFulfill(t, version, state)
             \/ \E awaited \in SUBSET Id : TaskSuspend(t, version, awaited)
             \/ \E p \in Id :
                   \/ \E data \in Creations[p] : TaskFenceCreate(t, version, p, data)
                   \/ \E state \in Outcomes : TaskFenceSettle(t, version, p, state)
       \/ TaskHalt(t)
       \/ TaskContinue(t)
  BY DEF TaskRequest
<1> DEFINE v == Timed({t})
<1>1. Effect(v)
  BY TimedEffect
<1>r. ASSUME NEW z, Request(z), Effect(z) PROVE Opened
  BY <1>r, OpensEffect DEF Request
<1>2. ASSUME lock = "free", v.task[t].state \notin {"absent", "fulfilled"} PROVE v = view
  BY <1>2, TimedTask, TimedSame
<1>3. ASSUME NEW version, NEW pid \in Pid, NEW ttl \in Ttl, TaskAcquire(t, version, pid, ttl)
      PROVE  Opened
  <2>1. \/ v.task[t].state = "pending" /\ AcquireOr409(v, t, pid, ttl)
        \/ Request(v)
    BY <1>3 DEF TaskAcquire
  <2>2. ttl \in Int
    BY StoreAssumption
  <2> QED BY <1>1, <1>r, <2>1, <2>2, AcquisitionEffect
<1>4. ASSUME NEW version, TaskRelease(t, version) PROVE Opened
  <2> DEFINE w == Unassign(v, t)
             last == [NoAfter EXCEPT !.op = "nack", !.task = t]
  <2>1. \/ v.task[t].state = "acquired" /\ Open(w, None, None, last)
        \/ Request(v)
    BY <1>4 DEF TaskRelease, IsAcquiredAt
  <2>2. lock = "free"
    BY <2>1 DEF Request, Open
  <2> HIDE DEF v, last
  <2>3. v.task[t].state = "acquired" => Effect(w)
    BY <1>2, <2>2 DEF Effect, Demotion
  <2> HIDE DEF w
  <2> QED BY <1>1, <1>r, <2>1, <2>3, OpensEffect
<1>5. CASE TaskHalt(t)
  <2> DEFINE w == Halt(v, t)
  <2>1. \/ v.task[t].state \in {"pending", "acquired", "suspended"} /\ Request(w)
        \/ Request(v)
    BY <1>5 DEF TaskHalt
  <2>2. lock = "free"
    BY <2>1 DEF Request, Open
  <2> HIDE DEF v
  <2>3. v.task[t].state \in {"pending", "acquired", "suspended"} => Effect(w)
    BY <1>2, <2>2 DEF Effect, Halting
  <2> HIDE DEF w
  <2> QED BY <1>1, <1>r, <2>1, <2>3
<1>6. CASE TaskContinue(t)
  <2> DEFINE waits == v.task[t].job # 0 /\ JobExists(jobs, ExecuteJob(t, v.task[t].job))
             w == Continue(v, t, waits)
  <2>1. \/ v.task[t].state = "halted" /\ Request(w)
        \/ Request(v)
    BY <1>6 DEF TaskContinue
  <2>2. lock = "free"
    BY <2>1 DEF Request, Open
  <2>3. waits \in BOOLEAN
    OBVIOUS
  <2> HIDE DEF v, waits
  <2>4. v.task[t].state = "halted" => Effect(w)
    BY <1>2, <2>2, <2>3 DEF Effect, Continuation
  <2> HIDE DEF w
  <2> QED BY <1>1, <1>r, <2>1, <2>4
<1> QED BY <1>3, <1>4, <1>5, <1>6, TaskCreateEffect, TaskFulfillEffect, TaskSuspendEffect,
           TaskFenceEffect

\* A delivery leaves an effect.
LEMMA DeliveryEffect ==
    ASSUME TypeInv, DispatchInv, NEW l \in Loop, DeliverUnblock(l) \/ DeliverExecute(l)
    PROVE  Opened
<1>1. CASE DeliverUnblock(l)
  <2> DEFINE last == [NoAfter EXCEPT !.op = "ack", !.claim = loops[l].claim]
  <2>1. Open(view, l, None, last)
    BY <1>1 DEF DeliverUnblock
  <2>2. Timed({}) = view
    BY TimedSame
  <2>3. Effect(view)
    BY <2>2, TimedEffect
  <2> QED BY <2>1, <2>3, OpensEffect
<1>2. CASE DeliverExecute(l)
  <2> DEFINE claim == loops[l].claim
             t == claim.job[2]
             v == Timed({t})
             w == Unassign(v, t)
             hold == [NoAfter EXCEPT !.op = "hold", !.task = t, !.claim = claim]
             acks == [NoAfter EXCEPT !.op = "ack", !.claim = claim]
  <2>1. t \in Id
    BY ZenonT(60), <1>2, ClaimOfLoop DEF DeliverExecute, TypeInv
  <2>2. \/ v.task[t].state = "acquired" /\ Open(w, l, None, hold)
        \/ Open(v, l, None, hold)
        \/ Open(v, l, None, acks)
    BY ZenonT(60), <1>2 DEF DeliverExecute
  <2>3. lock = "free"
    BY <2>2 DEF Open
  <2>4. Effect(v) /\ (v.task[t].state = "acquired" => v = view)
    BY <2>1, <2>3, TimedEffect, TimedTask, TimedSame
  <2> HIDE DEF v, t, hold, acks
  <2>5. v.task[t].state = "acquired" => Effect(w)
    BY <2>1, <2>4 DEF Effect, Demotion
  <2> HIDE DEF w
  <2> QED BY SMTT(40), <2>2, <2>4, <2>5, OpensEffect
<1> QED BY <1>1, <1>2

\* A timer that fires leaves an effect, or finds nothing to do.
LEMMA FiringEffect ==
    ASSUME TypeInv, NEW l \in Loop, FirePromiseTimeout(l)
    PROVE  Opened \/ UNCHANGED <<now, promise, task, jobs, held, txnVars, owed>>
<1> DEFINE p == loops[l].claim.job[2]
           w == ExpirePromises(view, {p}, now)
<1>1. /\ loops[l].pc = "claimed" /\ loops[l].claim.job[1] = "timer"
      /\ loops[l].claim \in Claim /\ loops[l].claim.job \in Job
  BY ClaimOfLoop DEF FirePromiseTimeout, TypeInv, Claim
<1>2. p \in Id /\ loops[l].claim.job = TimerJob(p)
  BY <1>1 DEF Job, TimerJob
<1>3. CASE IsPending(view.promise[p]) /\ Open(w, l, None, NoAfter)
  <2> HIDE DEF p
  <2>1. Effect(w)
    BY <1>1, <1>2, <1>3 DEF Effect, Firing
  <2> QED BY <1>3, <2>1, OpensEffect
<1> QED BY <1>3 DEF FirePromiseTimeout

-----------------------------------------------------------------------------
(* The kinds of steps                                                      *)

\* The open transaction becomes durable.
Applied ==
    /\ lock = "commit" /\ lock' # "commit"
    /\ Apply
    /\ UNCHANGED now

\* No record changes, and the open transaction goes on as it is or has ended.
Rested ==
    /\ UNCHANGED <<promise, task>>
    /\ now' >= now
    /\ lock' # "commit" \/ UNCHANGED <<view, lock>>

\* Every step opens a transaction with one of the effects, makes the open one
\* durable, or leaves the records alone: no fault has a fourth outcome.
LEMMA StepKinds ==
    ASSUME TypeInv, DispatchInv, [Next]_vars
    PROVE  Opened \/ Applied \/ Rested
<1>0. now \in Nat
  BY DEF TypeInv, TypeOK
<1>1. CASE UNCHANGED vars
  BY <1>0, <1>1 DEF vars, Rested
<1>2. ASSUME NEW pid, NEW named, TaskHeartbeat(pid, named) PROVE Rested
  BY <1>0, <1>2 DEF TaskHeartbeat, txnVars, Rested
<1>3. CASE TxnStep
  <2>1. CASE Commit
    BY <2>1 DEF Commit, Applied, Unlock
  <2>2. CASE CommitAck
    BY <2>2 DEF CommitAck, Applied
  <2>3. CASE CommitLost
    BY <1>0, <2>3 DEF CommitLost, Abort, Unlock, Rested
  <2>4. ASSUME NEW t \in Id, FinishRelease(t) PROVE Rested
    BY <1>0, <2>4 DEF FinishRelease, Rested
  <2>5. CASE FinishLast
    BY <1>0, <2>5 DEF FinishLast, Unlock, Rested
  <2> QED BY <1>3, <2>1, <2>2, <2>3, <2>4, <2>5 DEF TxnStep
<1>4. ASSUME NEW l \in Loop, LoopStep(l) PROVE Opened \/ Rested
  <2>1. ASSUME NEW job \in Job, LoopClaim(l, job) PROVE Rested
    BY <1>0, <2>1 DEF LoopClaim, txnVars, Rested
  <2>2. CASE LoopEmit(l) \/ WorkerNack(l)
    BY <1>0, <2>2 DEF LoopEmit, WorkerNack, txnVars, Rested
  <2>3. CASE UNCHANGED <<now, promise, task, jobs, held, txnVars, owed>>
    BY <1>0, <2>3 DEF txnVars, Rested
  <2> QED BY <1>4, <2>1, <2>2, <2>3, DeliveryEffect, FiringEffect DEF LoopStep
<1>5. CASE EnvironmentStep
  BY <1>0, <1>5 DEF EnvironmentStep, Tick, Reap, txnVars, Rested
<1>6. CASE FaultStep
  <2>1. CASE CommitFails
    BY <1>0, <2>1 DEF CommitFails, Abort, Unlock, Rested
  <2>2. CASE FinishFails
    BY <1>0, <2>2 DEF FinishFails, Unlock, Rested
  <2>3. CASE RequestDropped
    BY <1>0, <2>3 DEF RequestDropped, Unlock, Applied, Rested
  <2>4. CASE AfterClaimDropped
    BY <1>0, <2>4 DEF AfterClaimDropped, ClaimDropped, Unlock, Rested
  <2>5. ASSUME NEW t, NEW ttl, TaskCreateDropped(t, ttl) PROVE Rested
    BY <1>0, <2>5 DEF TaskCreateDropped, ClaimDropped, txnVars, Rested
  <2>6. ASSUME NEW l, NEW job, LoopClaimDropped(l, job) PROVE Rested
    BY <1>0, <2>6 DEF LoopClaimDropped, ClaimDropped, txnVars, Rested
  <2>7. CASE Crash
    BY <1>0, <2>7 DEF Crash, Rested
  <2> QED BY <1>6, <2>1, <2>2, <2>3, <2>4, <2>5, <2>6, <2>7 DEF FaultStep, DroppedStep
<1> QED BY <1>1, <1>2, <1>3, <1>4, <1>5, <1>6, PromiseRequestEffect, TaskRequestEffect
        DEF Next, StoreStep, ClientRequest

-----------------------------------------------------------------------------
(* Deadlines in any order                                                  *)

\* The promises a request names may be expired in any order, or all at once: the
\* records, the jobs and the released claims are the same, so the loop of
\* try_timeout (src/kernel.rs) computes what TryTimeout says whatever its order.
THEOREM ExpiryInAnyOrder == Spec => []ExpiryOrderIrrelevant
<1>1. TypeInv => ExpiryOrderIrrelevant
  <2> SUFFICES ASSUME TypeInv, NEW p \in Id, NEW q \in Id
               PROVE  TryTimeout(TryTimeout(view, {p}, now), {q}, now) = TryTimeout(view, {p, q}, now)
    BY DEF ExpiryOrderIrrelevant, Timed
  <2> DEFINE w == TryTimeout(view, {p}, now)
  <2>0. \A r : Due(r) <=> IsPending(view.promise[r]) /\ now >= view.promise[r].timeoutAt
    BY DEF Due
  <2>1. view \in View /\ now \in Nat
    BY DEF TypeInv, TypeOK
  <2>2. w \in View
    BY <2>1, TryTimeoutType
  <2>3. CASE p = q
    <3>1. ~(IsPending(w.promise[p]) /\ now >= w.promise[p].timeoutAt)
      BY <2>0, TimedOpen DEF Timed, IsPending
    <3>2. TryTimeout(w, {q}, now) = w
      BY <2>2, <2>3, <3>1, NothingDue
    <3>3. {p, q} = {p}
      BY <2>3
    <3> QED BY <3>2, <3>3
  <2>4. CASE ~Due(p)
    <3>1. w = view
      BY <2>0, <2>1, <2>4, NothingDue
    <3>2. TryTimeout(view, {p, q}, now) = TryTimeout(view, {q}, now)
      BY <2>0, <2>4, OnlyDueMatter
    <3> QED BY <3>1, <3>2
  <2>5. CASE p # q /\ Due(p) /\ ~Due(q)
    <3>1. w.promise[q] = view.promise[q]
      BY <2>0, <2>1, <2>5 DEF TryTimeout, ExpirePromises, SettleChain
    <3>2. TryTimeout(w, {q}, now) = w
      BY <2>0, <2>2, <2>5, <3>1, NothingDue
    <3>3. TryTimeout(view, {p, q}, now) = w
      BY <2>0, <2>5, OnlyDueMatter
    <3> QED BY <3>2, <3>3
  <2>6. CASE p # q /\ Due(p) /\ Due(q)
    BY <2>0, <2>1, <2>6, ExpireTwo
  <2> QED BY <2>3, <2>4, <2>5, <2>6
<1> QED BY <1>1, InitType, TypeInvStep, PTL DEF Spec

-----------------------------------------------------------------------------
(* Legal transactions                                                      *)

\* The moves of a task, one by one.
LEMMA MovesAre ==
    ASSUME NEW a \in TaskState \cup {"absent"}, NEW b \in TaskState \cup {"absent"}
    PROVE  <<a, b>> \in Abstract!Moves <=>
             \/ a = b
             \/ a = "absent" /\ b \in {"pending", "acquired", "fulfilled"}
             \/ a = "pending" /\ b \in {"acquired", "halted", "fulfilled"}
             \/ a = "acquired" /\ b \in {"pending", "suspended", "halted", "fulfilled"}
             \/ a = "suspended" /\ b \in {"pending", "halted", "fulfilled"}
             \/ a = "halted" /\ b \in {"pending", "fulfilled"}
BY DEF Abstract!Moves, Abstract!TaskState, TaskState

\* A step of a task from its parts: the move, the promise it belongs to, its
\* holder, what it is told and what it sleeps on.
LEMMA TaskStepFrom ==
    ASSUME NEW t \in Id, NEW x \in StoredTask, NEW y \in StoredTask, NEW P, NEW Q,
           NEW late \in BOOLEAN,
           <<x.state, y.state>> \in Abstract!Moves,
           y.state = "absent" <=> Q[t].state = "absent" \/ Q[t].tags.target = None,
           y.state # "absent" =>
              (y.state = "fulfilled" <=> Q[t].state \notin {"absent", "pending"}),
           x.state = "fulfilled" => y = x,
           Abstract!HolderStep(x, y),
           \A p \in y.resumes : p \in x.resumes \/ Q[p].state \notin {"absent", "pending"},
           y.state \in {"pending", "halted"} => x.resumes \subseteq y.resumes,
           y.state \in {"suspended", "fulfilled"} => y.resumes = {},
           \/ \A p \in Id : /\ P[p].state = "pending" /\ t \in P[p].callbacks
                            /\ Q[p].state \notin {"absent", "pending"}
                            => p \in y.resumes
           \/ y.state = "fulfilled" \/ late
           \/ y.state = "acquired" /\ y.resumes = {},
           x.state = "acquired" /\ y.state = "suspended" =>
              \E p \in Id : Q[p].state = "pending" /\ t \in Q[p].callbacks,
           x.state = "suspended" /\ y.state = "pending" => y.resumes # {}
    PROVE  Abstract!TaskStep(t, x, y, P, Q, late)
<1>1. Abstract!ResumeStep(x, y, Q, Abstract!Told(P, Q, t), late)
  BY DEF Abstract!ResumeStep, Abstract!Told, Abstract!IsSettled, Abstract!IsPending
<1>2. Abstract!SleepStep(x, y, Q, t)
  BY DEF Abstract!SleepStep, Abstract!IsPending
<1> QED BY <1>1, <1>2 DEF Abstract!TaskStep, Abstract!IsSettled

\* When no transaction is open the view is the committed records.
LEMMA FreeView ==
    ASSUME TypeInv, DispatchInv, lock = "free"
    PROVE  view \in View /\ view.promise = promise /\ view.task = task
BY DEF TypeInv, TypeOK, DispatchInv, ViewIsCommitted, Committed

\* Whether a task is past its deadline.
LEMMA OverdueIs ==
    ASSUME NEW t \in Id
    PROVE  t \in Overdue <=> promise[t].state # "absent" /\ now >= promise[t].timeoutAt
BY DEF Overdue

\* A task whose record stays, whose promise stays open or settled, and that
\* misses no settlement.
LEMMA TaskStays ==
    ASSUME TypeInv, RecordsOK, NEW v \in View, NEW t \in Id, v.task[t] = task[t],
           v.promise[t].state = promise[t].state, v.promise[t].tags = promise[t].tags,
           \/ task[t].state = "fulfilled" \/ t \in Overdue
           \/ \A p \in Id : /\ promise[p].state = "pending" /\ t \in promise[p].callbacks
                            => v.promise[p].state \in {"absent", "pending"},
           \A p \in Id : promise[p].state \notin {"absent", "pending"} =>
                            v.promise[p].state \notin {"absent", "pending"},
           \A p \in Id : t \in v.promise[p].callbacks =>
                            t \in promise[p].callbacks \/ task[t].state # "absent"
    PROVE  LegalTask(v, t)
<1>1. task[t] \in StoredTask /\ (t \in Overdue) \in BOOLEAN
  BY DEF TypeInv, TypeOK
<1>2. <<task[t].state, task[t].state>> \in Abstract!Moves
  BY <1>1, MovesAre DEF StoredTask
<1>3. Abstract!HolderStep(task[t], task[t])
  BY DEF RecordsOK, Abstract!HolderStep
<1>4. task[t].resumes \subseteq Id
  BY <1>1 DEF StoredTask
<1>5. Abstract!TaskStep(t, task[t], v.task[t], promise, v.promise, t \in Overdue)
  <2> DEFINE late == t \in Overdue
  <2>1. late \in BOOLEAN
    BY <1>1
  <2>2. \/ \A p \in Id : /\ promise[p].state = "pending" /\ t \in promise[p].callbacks
                         /\ v.promise[p].state \notin {"absent", "pending"}
                         => p \in task[t].resumes
        \/ task[t].state = "fulfilled" \/ late
    OBVIOUS
  <2> HIDE DEF late
  <2>3. Abstract!TaskStep(t, task[t], task[t], promise, v.promise, late)
    BY <1>1, <1>2, <1>3, <1>4, <2>1, <2>2, TaskStepFrom
       DEF RecordsOK, FulfilledIffSettled, ResumesAreSettled
  <2> QED BY <2>3 DEF late
<1> QED BY <1>5 DEF LegalTask, RecordsOK

\* The settlement of a promise: a client's before the deadline, or the deadline's.
SettledFrom(new, old) ==
    /\ new.state \notin {"absent", "pending"}
    /\ new.timeoutAt = old.timeoutAt /\ new.tags = old.tags
    /\ new.callbacks = old.callbacks /\ new.listeners = old.listeners
    /\ \/ new.state \in SettleState /\ new.settledAt < new.timeoutAt
       \/ new.state = TimeoutState(new.tags) /\ new.settledAt = new.timeoutAt

\* Settling pending promises is a legal transaction: their tasks are fulfilled,
\* and every task registered with one of them is told or past its own deadline.
LEMMA SettleChainLegal ==
    ASSUME TypeInv, DispatchInv, RecordsOK, lock = "free",
           NEW D \in SUBSET Id, NEW s \in [D -> StoredPromise],
           \A p \in D : IsPending(promise[p]) /\ SettledFrom(s[p], promise[p])
    PROVE  Legal(SettleChain(view, s, now))
<1> DEFINE w == SettleChain(view, s, now)
           wk == Woken(view, s, now)
           Awaited(t) == {p \in DOMAIN s : t \in s[p].callbacks}
<1>0. view \in View /\ view.promise = promise /\ view.task = task
  BY FreeView
<1>1. w \in View
  BY <1>0, SettleChainType
<1>2. ASSUME NEW p \in Id
      PROVE  /\ p \notin D => w.promise[p] = promise[p]
             /\ p \in D => w.promise[p] = [s[p] EXCEPT !.callbacks = {}, !.listeners = {}]
  BY <1>0 DEF SettleChain
<1>3. ASSUME NEW p \in D
      PROVE  /\ w.promise[p].state = s[p].state /\ w.promise[p].timeoutAt = promise[p].timeoutAt
             /\ w.promise[p].tags = promise[p].tags /\ w.promise[p].settledAt = s[p].settledAt
             /\ w.promise[p].callbacks = {} /\ w.promise[p].listeners = {}
             /\ w.promise[p].state \notin {"absent", "pending"}
  <2>1. p \in Id /\ s[p] \in StoredPromise /\ SettledFrom(s[p], promise[p])
    OBVIOUS
  <2>2. w.promise[p] = [s[p] EXCEPT !.callbacks = {}, !.listeners = {}]
    BY <1>2, <2>1
  <2> HIDE DEF w
  <2> QED BY <2>1, <2>2 DEF StoredPromise, SettledFrom
<1>4. ASSUME NEW p \in Id PROVE Abstract!PromiseStep(promise[p], w.promise[p])
  <2> HIDE DEF w
  <2>1. CASE p \notin D
    BY <1>2, <2>1 DEF Abstract!PromiseStep
  <2>2. CASE p \in D
    <3>1. IsPending(promise[p]) /\ SettledFrom(s[p], promise[p])
      BY <2>2
    <3>2. Abstract!Settlement(w.promise[p])
      BY <1>3, <2>2, <3>1 DEF SettledFrom, Abstract!Settlement, Abstract!IsSettled,
           Abstract!SettleState, SettleState, Abstract!TimeoutState, TimeoutState
    <3> QED BY <1>3, <2>2, <3>1, <3>2 DEF Abstract!PromiseStep, Abstract!IsPending, IsPending
  <2> QED BY <2>1, <2>2
<1>5. ASSUME NEW t \in Id PROVE LegalTask(w, t)
  <2>1. task[t] \in StoredTask /\ w.task[t] \in StoredTask
    BY <1>1 DEF TypeInv, TypeOK, View
  <2>n. \A p \in Id : promise[p].state \notin {"absent", "pending"} =>
                         w.promise[p].state \notin {"absent", "pending"}
    BY <1>2, <1>3 DEF IsPending
  <2>c. \A p \in Id : t \in w.promise[p].callbacks => t \in promise[p].callbacks
    BY <1>2, <1>3
  <2>o. (t \in Overdue) \in BOOLEAN
    OBVIOUS
  <2>2. CASE t \in D /\ task[t].state \notin {"absent", "fulfilled"}
    <3>1. w.task[t] = [Transition(task[t], "fulfilled") EXCEPT !.resumes = {}]
      BY <1>0, <2>2 DEF SettleChain
    <3>2. /\ w.task[t].state = "fulfilled" /\ w.task[t].resumes = {} /\ w.task[t].pid = None
          /\ w.task[t].version = task[t].version
      <4> HIDE DEF w
      <4> QED BY <2>1, <3>1 DEF Transition, StoredTask
    <3> HIDE DEF w
    <3>3. <<task[t].state, w.task[t].state>> \in Abstract!Moves
      BY <2>1, <2>2, <3>2, MovesAre DEF StoredTask, TaskState
    <3>4. promise[t].state # "absent" /\ promise[t].tags.target # None
      BY <2>2 DEF RecordsOK, FulfilledIffSettled
    <3>5. Abstract!HolderStep(task[t], w.task[t])
      BY <3>2 DEF Abstract!HolderStep
    <3>6. Abstract!TaskStep(t, task[t], w.task[t], promise, w.promise, t \in Overdue)
      <4> DEFINE late == t \in Overdue
      <4> HIDE DEF late
      <4>1. late \in BOOLEAN
        BY DEF late
      <4>2. Abstract!TaskStep(t, task[t], w.task[t], promise, w.promise, late)
        <5>1. /\ w.promise[t].state \notin {"absent", "pending"}
              /\ w.promise[t].tags.target # None
          BY <1>3, <2>2, <3>4
        <5> QED BY <2>1, <2>2, <3>2, <3>3, <3>5, <4>1, <5>1, TaskStepFrom
      <4> QED BY <4>2 DEF late
    <3> QED BY <3>2, <3>6 DEF LegalTask
  <2>3. CASE t \in D /\ task[t].state \in {"absent", "fulfilled"}
    <3>1. promise[t].state = "pending" /\ t \notin wk
      BY <2>3 DEF IsPending, Woken
    <3>2. task[t].state = "absent"
      BY <2>3, <3>1 DEF RecordsOK, FulfilledIffSettled
    <3>3. w.task[t] = task[t]
      BY <1>0, <2>3, <3>1 DEF SettleChain
    <3>4. \A p \in Id : t \notin promise[p].callbacks
      BY <3>2 DEF RecordsOK
    <3> HIDE DEF w, wk
    <3>5. promise[t].tags.target = None
      BY <3>1, <3>2 DEF RecordsOK, FulfilledIffSettled
    <3>6. <<task[t].state, w.task[t].state>> \in Abstract!Moves
      BY <2>1, <3>3, MovesAre DEF StoredTask
    <3>8. task[t] = NoTask /\ task[t].resumes = {} /\ task[t].pid = None
      <4>1. task[t] = NoTask
        BY <3>2 DEF RecordsOK
      <4> QED BY <4>1 DEF NoTask
    <3>7. Abstract!HolderStep(task[t], w.task[t])
      BY <3>2, <3>3, <3>8 DEF Abstract!HolderStep
    <3>9. Abstract!TaskStep(t, task[t], w.task[t], promise, w.promise, t \in Overdue)
      <4> DEFINE late == t \in Overdue
      <4> HIDE DEF late
      <4>1. late \in BOOLEAN
        BY DEF late
      <4>2. Abstract!TaskStep(t, task[t], w.task[t], promise, w.promise, late)
        BY <1>3, <2>1, <2>3, <3>2, <3>3, <3>4, <3>5, <3>6, <3>7, <3>8, <4>1, TaskStepFrom
      <4> QED BY <4>2 DEF late
    <3> QED BY <2>c, <3>3, <3>4, <3>8, <3>9 DEF LegalTask
  <2>4. CASE t \notin D /\ t \in wk
    <3>1. /\ promise[t].state = "pending" /\ \E p \in D : t \in s[p].callbacks
      BY <1>0, <2>4 DEF Woken, IsPending
    <3>2. Awaited(t) # {} /\ Awaited(t) \subseteq D
      BY <3>1
    <3>3. w.task[t] = ResumedTask(task[t], Awaited(t), "fanout")
      BY <1>0, <2>4 DEF SettleChain
    <3>4. \A p \in D : p \in Awaited(t) <=> t \in promise[p].callbacks
      BY DEF SettledFrom
    <3>5. task[t].state \in {"pending", "acquired", "suspended", "halted"}
      <4>1. task[t].state # "absent"
        BY <3>1, <3>2, <3>4 DEF RecordsOK
      <4> QED BY <2>1, <3>1, <4>1 DEF RecordsOK, FulfilledIffSettled, StoredTask, TaskState
    <3> DEFINE A == Awaited(t)
    <3> HIDE DEF w, A
    <3>6. \/ /\ task[t].state = "suspended" /\ w.task[t].state = "pending"
             /\ w.task[t].resumes = A /\ w.task[t].pid = None
             /\ w.task[t].version = task[t].version
          \/ /\ task[t].state # "suspended" /\ w.task[t].state = task[t].state
             /\ w.task[t].resumes = task[t].resumes \cup A
             /\ w.task[t].pid = task[t].pid /\ w.task[t].version = task[t].version
      <4>1. w.task[t] = ResumedTask(task[t], A, "fanout")
        BY <3>3 DEF A
      <4> QED BY <2>1, <3>5, <4>1 DEF ResumedTask, Transition, StoredTask
    <3>7. \A p \in A : w.promise[p].state \notin {"absent", "pending"}
      BY <1>3, <3>2 DEF A
    <3>8. \A p \in Id : /\ promise[p].state = "pending" /\ t \in promise[p].callbacks
                        /\ w.promise[p].state \notin {"absent", "pending"}
                        => p \in A
      BY <1>2, <3>4 DEF A
    <3>9. <<task[t].state, w.task[t].state>> \in Abstract!Moves
      BY <2>1, <3>6, MovesAre DEF StoredTask
    <3>10. Abstract!HolderStep(task[t], w.task[t])
      BY <3>6 DEF RecordsOK, Abstract!HolderStep
    <3>11. w.promise[t] = promise[t] /\ promise[t].tags.target # None
      BY <1>2, <2>4, <3>1, <3>5 DEF RecordsOK, FulfilledIffSettled
    <3>12. Abstract!TaskStep(t, task[t], w.task[t], promise, w.promise, t \in Overdue)
      <4> DEFINE late == t \in Overdue
      <4> HIDE DEF late
      <4>1. late \in BOOLEAN
        BY DEF late
      <4>2. A # {} /\ (task[t].state = "suspended" => task[t].resumes = {})
        BY <3>2 DEF A, RecordsOK, ResumesAreSettled
      <4>3. \A p \in w.task[t].resumes : \/ p \in task[t].resumes
                                         \/ w.promise[p].state \notin {"absent", "pending"}
        BY <3>6, <3>7
      <4>4. \A p \in Id : /\ promise[p].state = "pending" /\ t \in promise[p].callbacks
                          /\ w.promise[p].state \notin {"absent", "pending"}
                          => p \in w.task[t].resumes
        BY <3>6, <3>8
      <4>5. w.task[t].state \in {"pending", "acquired", "halted"}
            /\ task[t].resumes \subseteq w.task[t].resumes
            /\ (task[t].state = "suspended" => w.task[t].resumes # {})
        BY <3>5, <3>6, <4>2
      <4>6. /\ task[t] \in StoredTask /\ w.task[t] \in StoredTask
            /\ task[t].state \notin {"absent", "fulfilled"}
            /\ w.task[t].state \notin {"absent", "suspended", "fulfilled"}
        BY <2>1, <3>5, <4>5
      <4>7. w.promise[t].state = "pending" /\ w.promise[t].tags.target # None
        BY <3>1, <3>11
      <4>8. Abstract!TaskStep(t, task[t], w.task[t], promise, w.promise, late)
        BY <3>9, <3>10, <4>1, <4>3, <4>4, <4>5, <4>6, <4>7, TaskStepFrom
      <4> QED BY <4>8 DEF late
    <3> QED BY <3>5, <3>6, <3>12 DEF LegalTask
  <2>5. CASE t \notin D /\ t \notin wk
    <3>1. w.task[t] = task[t] /\ w.promise[t] = promise[t]
      BY <1>0, <1>2, <2>5 DEF SettleChain
    <3>2. ASSUME NEW p \in Id, promise[p].state = "pending", t \in promise[p].callbacks,
                 w.promise[p].state \notin {"absent", "pending"}
          PROVE  task[t].state = "fulfilled" \/ t \in Overdue
      <4>1. p \in D /\ t \in s[p].callbacks
        BY <1>2, <3>2 DEF SettledFrom
      <4>2. ~IsPending(promise[t]) \/ ~(now < promise[t].timeoutAt)
        BY <1>0, <2>5, <4>1 DEF Woken
      <4>3. task[t].state # "absent" /\ promise[t].state # "absent"
        BY <3>2 DEF RecordsOK, FulfilledIffSettled
      <4>4. promise[t].timeoutAt \in Nat /\ now \in Nat
        BY DEF TypeInv, TypeOK, StoredPromise
      <4> QED BY <4>2, <4>3, <4>4, OverdueIs DEF RecordsOK, FulfilledIffSettled, IsPending
    <3> HIDE DEF w
    <3>3. \/ task[t].state = "fulfilled" \/ t \in Overdue
          \/ \A p \in Id : /\ promise[p].state = "pending" /\ t \in promise[p].callbacks
                           => w.promise[p].state \in {"absent", "pending"}
      BY <3>2
    <3> QED BY <1>1, <2>n, <2>c, <3>1, <3>3, TaskStays
  <2> QED BY <2>2, <2>3, <2>4, <2>5
<1> QED BY <1>4, <1>5 DEF Legal

-----------------------------------------------------------------------------
(* The effects are legal                                                   *)

\* A deadline's settlement is a settlement.
LEMMA ExpiredFrom ==
    ASSUME NEW x \in StoredPromise
    PROVE  Expired(x) \in StoredPromise /\ SettledFrom(Expired(x), x)
<1>1. TimeoutState(x.tags) \in PromiseState \ {"absent", "pending"}
  BY DEF TimeoutState, PromiseState, SettleState
<1>2. /\ Expired(x).state = TimeoutState(x.tags) /\ Expired(x).settledAt = x.timeoutAt
      /\ Expired(x).timeoutAt = x.timeoutAt /\ Expired(x).tags = x.tags
      /\ Expired(x).callbacks = x.callbacks /\ Expired(x).listeners = x.listeners
      /\ Expired(x) \in StoredPromise
  BY <1>1 DEF Expired, StoredPromise
<1> QED BY <1>1, <1>2 DEF SettledFrom

\* Expiring pending promises is legal.
LEMMA ExpirePromisesLegal ==
    ASSUME TypeInv, DispatchInv, RecordsOK, lock = "free",
           NEW D \in SUBSET Id, \A p \in D : IsPending(promise[p])
    PROVE  Legal(ExpirePromises(view, D, now))
<1> DEFINE s == [p \in D |-> Expired(view.promise[p])]
<1>1. view.promise = promise /\ promise \in [Id -> StoredPromise]
  BY FreeView DEF TypeInv, TypeOK
<1>2. /\ s \in [D -> StoredPromise]
      /\ \A p \in D : IsPending(promise[p]) /\ SettledFrom(s[p], promise[p])
  BY <1>1, ExpiredFrom
<1>3. ExpirePromises(view, D, now) = SettleChain(view, s, now)
  BY DEF ExpirePromises
<1> HIDE DEF s
<1> QED BY <1>2, <1>3, SettleChainLegal

\* Applying deadlines is legal.
LEMMA TimedLegal ==
    ASSUME TypeInv, DispatchInv, RecordsOK, lock = "free", NEW P \in SUBSET Id
    PROVE  Timed(P) \in View /\ Legal(Timed(P))
<1> DEFINE D == {p \in P : IsPending(view.promise[p]) /\ now >= view.promise[p].timeoutAt}
<1>1. D \in SUBSET Id /\ \A p \in D : IsPending(promise[p])
  BY FreeView
<1>2. Timed(P) = ExpirePromises(view, D, now)
  BY DEF Timed, TryTimeout
<1> HIDE DEF D
<1> QED BY <1>1, <1>2, TimedOK, ExpirePromisesLegal

\* A client's settlement before the deadline is legal.
LEMMA SettlingLegal ==
    ASSUME TypeInv, DispatchInv, RecordsOK, lock = "free", NEW v, Settling(v)
    PROVE  Legal(v)
<1> PICK p \in Id, state \in SettleState : Live(p) /\ v = Settle(view, p, state, now)
  BY DEF Settling
<1> DEFINE x == [view.promise[p] EXCEPT !.state = state, !.settledAt = now]
           s == [q \in {p} |-> x]
<1>1. view.promise = promise /\ promise[p] \in StoredPromise /\ now \in Nat
  BY FreeView DEF TypeInv, TypeOK
<1>2. x \in StoredPromise /\ SettledFrom(x, promise[p])
  <2>1. /\ x.state = state /\ x.settledAt = now /\ x.timeoutAt = promise[p].timeoutAt
        /\ x.tags = promise[p].tags /\ x.callbacks = promise[p].callbacks
        /\ x.listeners = promise[p].listeners /\ x \in StoredPromise
    BY <1>1 DEF StoredPromise, PromiseState
  <2> HIDE DEF x
  <2> QED BY <1>1, <2>1 DEF SettledFrom, Live, SettleState
<1>3. v = SettleChain(view, s, now)
  BY DEF Settle
<1>4. /\ s \in [{p} -> StoredPromise] /\ {p} \in SUBSET Id
      /\ \A q \in {p} : IsPending(promise[q]) /\ SettledFrom(s[q], promise[q])
  BY <1>1, <1>2 DEF Live
<1> HIDE DEF s
<1> QED BY <1>3, <1>4, SettleChainLegal

\* The timer's settlement is legal, whether or not the deadline has passed.
LEMMA FiringLegal ==
    ASSUME TypeInv, DispatchInv, RecordsOK, lock = "free", NEW v, Firing(v)
    PROVE  Legal(v)
<1> PICK p \in Id : IsPending(view.promise[p]) /\ v = ExpirePromises(view, {p}, now)
  BY DEF Firing
<1> QED BY FreeView, ExpirePromisesLegal

\* The promises of view v are the committed ones, some pending ones with more
\* registrations.
Registered(v) ==
    \A p \in Id : \/ v.promise[p] = promise[p]
                  \/ /\ promise[p].state = "pending" /\ v.promise[p].state = "pending"
                     /\ v.promise[p].timeoutAt = promise[p].timeoutAt
                     /\ v.promise[p].settledAt = promise[p].settledAt
                     /\ v.promise[p].tags = promise[p].tags
                     /\ promise[p].callbacks \subseteq v.promise[p].callbacks
                     /\ promise[p].listeners \subseteq v.promise[p].listeners

\* Registrations, and a step of one task, are legal when the step is.
LEMMA OneTaskLegal ==
    ASSUME TypeInv, RecordsOK, NEW v \in View, NEW t \in Id, Registered(v),
           \A u \in Id \ {t} : v.task[u] = task[u],
           \A p \in Id : v.promise[p].callbacks \subseteq promise[p].callbacks \cup {t},
           LegalTask(v, t)
    PROVE  Legal(v)
<1>1. ASSUME NEW p \in Id PROVE Abstract!PromiseStep(promise[p], v.promise[p])
  BY DEF Registered, Abstract!PromiseStep, Abstract!IsPending
<1>2. ASSUME NEW u \in Id \ {t} PROVE LegalTask(v, u)
  BY TaskStays DEF Registered
<1> QED BY <1>1, <1>2 DEF Legal

\* A step of a task that is alive before and after, while no promise settles.
LEMMA MovedTask ==
    ASSUME TypeInv, RecordsOK, NEW v \in View, NEW t \in Id, Registered(v),
           task[t].state \notin {"absent", "fulfilled"},
           v.task[t].state \notin {"absent", "fulfilled"},
           <<task[t].state, v.task[t].state>> \in Abstract!Moves,
           Abstract!HolderStep(task[t], v.task[t]),
           v.task[t].resumes \subseteq task[t].resumes,
           v.task[t].state \in {"pending", "halted"} => v.task[t].resumes = task[t].resumes,
           v.task[t].state = "suspended" => v.task[t].resumes = {},
           task[t].state = "acquired" /\ v.task[t].state = "suspended" =>
              \E p \in Id : v.promise[p].state = "pending" /\ t \in v.promise[p].callbacks,
           ~(task[t].state = "suspended" /\ v.task[t].state = "pending")
    PROVE  LegalTask(v, t)
<1>1. task[t] \in StoredTask /\ v.task[t] \in StoredTask
  BY DEF TypeInv, TypeOK, View
<1>2. /\ v.promise[t].state = promise[t].state /\ v.promise[t].tags = promise[t].tags
      /\ \A p \in Id : v.promise[p].state = promise[p].state
  BY DEF Registered
<1>3. promise[t].state = "pending" /\ promise[t].tags.target # None
  BY DEF RecordsOK, FulfilledIffSettled
<1> DEFINE late == t \in Overdue
<1>4. late \in BOOLEAN
  OBVIOUS
<1> HIDE DEF late
<1>5. Abstract!TaskStep(t, task[t], v.task[t], promise, v.promise, late)
  BY <1>1, <1>2, <1>3, <1>4, TaskStepFrom
<1> QED BY <1>5 DEF LegalTask, late

\* Replacing a task's record by one that is a legal step is legal.
LEMMA PutTaskLegal ==
    ASSUME TypeInv, DispatchInv, RecordsOK, lock = "free", NEW v \in View, NEW t \in Id,
           NEW x \in StoredTask, v.promise = view.promise, v.task = [view.task EXCEPT ![t] = x],
           task[t].state \notin {"absent", "fulfilled"}, x.state \notin {"absent", "fulfilled"},
           <<task[t].state, x.state>> \in Abstract!Moves, Abstract!HolderStep(task[t], x),
           x.resumes \subseteq task[t].resumes,
           x.state \in {"pending", "halted"} => x.resumes = task[t].resumes,
           x.state # "suspended",
           ~(task[t].state = "suspended" /\ x.state = "pending")
    PROVE  Legal(v)
<1>1. view.promise = promise /\ view.task = task /\ task \in [Id -> StoredTask]
  BY FreeView DEF TypeInv, TypeOK
<1>2. v.task[t] = x /\ \A u \in Id \ {t} : v.task[u] = task[u]
  BY <1>1
<1>3. Registered(v) /\ \A p \in Id : v.promise[p].callbacks \subseteq promise[p].callbacks \cup {t}
  BY <1>1 DEF Registered
<1>4. LegalTask(v, t)
  BY <1>2, <1>3, MovedTask
<1> QED BY <1>2, <1>3, <1>4, OneTaskLegal

\* The acquisition of a pending task is legal: it raises the version.
LEMMA AcquisitionLegal ==
    ASSUME TypeInv, DispatchInv, RecordsOK, lock = "free", NEW v, Acquisition(v)
    PROVE  Legal(v)
<1> PICK t \in Id, pid \in Pid, ttl \in Int :
        view.task[t].state = "pending" /\ v = Acquire(view, t, pid, ttl)
  BY DEF Acquisition
<1> DEFINE x == [task[t] EXCEPT !.state = "acquired", !.version = task[t].version + 1,
                                !.pid = pid, !.ttl = ttl, !.resumes = {}]
<1>1. view \in View /\ view.task = task /\ task[t] \in StoredTask
  BY FreeView DEF TypeInv, TypeOK
<1>2. v \in View
  BY <1>1, AcquireType
<1>3. v.promise = view.promise /\ v.task = [view.task EXCEPT ![t] = x]
  BY <1>1 DEF Acquire, View
<1>4. /\ x \in StoredTask /\ x.state = "acquired" /\ x.version = task[t].version + 1
      /\ x.resumes = {}
  <2>1. task[t].version + 1 \in Nat /\ "acquired" \in TaskState
    BY <1>1 DEF StoredTask, TaskState
  <2> QED BY <1>1, <2>1 DEF StoredTask
<1> HIDE DEF x
<1>5. <<task[t].state, x.state>> \in Abstract!Moves
  BY <1>1, <1>4, MovesAre DEF TaskState
<1>6. Abstract!HolderStep(task[t], x)
  BY <1>4 DEF Abstract!HolderStep
<1> QED BY <1>1, <1>2, <1>3, <1>4, <1>5, <1>6, PutTaskLegal

\* A transition keeps the version and what the task is to observe.
LEMMA TransitionFields ==
    ASSUME NEW x \in StoredTask, NEW state \in TaskState
    PROVE  LET y == Transition(x, state)
           IN  /\ y \in StoredTask /\ y.state = state /\ y.pid = None
               /\ y.version = x.version /\ y.resumes = x.resumes /\ y.job = x.job
BY DEF Transition, StoredTask

\* Taking a task from its holder, and halting a task, are legal.
LEMMA DemotionLegal ==
    ASSUME TypeInv, DispatchInv, RecordsOK, lock = "free", NEW v, Demotion(v) \/ Halting(v)
    PROVE  Legal(v)
<1>1. PICK t \in Id, state \in {"pending", "halted"} :
        \/ view.task[t].state = "acquired" /\ state = "pending" /\ v = Unassign(view, t)
        \/ /\ view.task[t].state \in {"pending", "acquired", "suspended"}
           /\ state = "halted" /\ v = Halt(view, t)
  BY DEF Demotion, Halting
<1> DEFINE x == Transition(task[t], state)
<1>2. view \in View /\ view.task = task /\ task[t] \in StoredTask /\ state \in TaskState
  BY FreeView DEF TypeInv, TypeOK, TaskState
<1>3. v \in View
  BY <1>1, <1>2, UnassignType, HaltType
<1>4. v.promise = view.promise /\ v.task = [view.task EXCEPT ![t] = x]
  BY <1>1, <1>2 DEF Unassign, Halt, View
<1>5. /\ x \in StoredTask /\ x.state = state /\ x.pid = None
      /\ x.version = task[t].version /\ x.resumes = task[t].resumes
  BY <1>2, TransitionFields
<1> HIDE DEF x
<1>6. <<task[t].state, x.state>> \in Abstract!Moves
  BY <1>1, <1>2, <1>5, MovesAre DEF TaskState
<1>7. Abstract!HolderStep(task[t], x)
  BY <1>5 DEF Abstract!HolderStep
<1> QED BY <1>1, <1>2, <1>3, <1>4, <1>5, <1>6, <1>7, PutTaskLegal

\* A halted task that is continued loses nothing it has learned.
LEMMA ContinuationLegal ==
    ASSUME TypeInv, DispatchInv, RecordsOK, lock = "free", NEW v, Continuation(v)
    PROVE  Legal(v)
<1>1. PICK t \in Id, waits \in BOOLEAN :
        view.task[t].state = "halted" /\ v = Continue(view, t, waits)
  BY DEF Continuation
<1> DEFINE y == Transition(task[t], "pending")
           x == IF waits THEN y ELSE [y EXCEPT !.job = task[t].job + 1]
<1>2. view \in View /\ view.task = task /\ task[t] \in StoredTask /\ "pending" \in TaskState
  BY FreeView DEF TypeInv, TypeOK, TaskState
<1>3. v \in View
  BY <1>1, <1>2, ContinueType
<1>4. v.promise = view.promise /\ v.task = [view.task EXCEPT ![t] = x]
  BY <1>1, <1>2 DEF Continue, Unassign, View
<1>5. /\ x \in StoredTask /\ x.state = "pending" /\ x.pid = None
      /\ x.version = task[t].version /\ x.resumes = task[t].resumes
  <2>1. /\ y \in StoredTask /\ y.state = "pending" /\ y.pid = None
        /\ y.version = task[t].version /\ y.resumes = task[t].resumes
        /\ task[t].job + 1 \in Nat
    BY <1>2, TransitionFields DEF StoredTask
  <2> HIDE DEF y
  <2> QED BY <2>1 DEF StoredTask
<1> HIDE DEF x
<1>6. <<task[t].state, x.state>> \in Abstract!Moves
  BY <1>1, <1>2, <1>5, MovesAre DEF TaskState
<1>7. Abstract!HolderStep(task[t], x)
  BY <1>5 DEF Abstract!HolderStep
<1> QED BY <1>1, <1>2, <1>3, <1>4, <1>5, <1>6, <1>7, PutTaskLegal

\* A callback and a listener are registered with a pending promise.
LEMMA RegistrationLegal ==
    ASSUME TypeInv, DispatchInv, RecordsOK, lock = "free", NEW v, Registration(v) \/ Listening(v)
    PROVE  Legal(v)
<1>0. view \in View /\ view.promise = promise /\ view.task = task
  BY FreeView
<1>1. CASE Registration(v)
  <2>1. PICK p \in Id, t \in Id : /\ Live(p) /\ Live(t) /\ view.promise[t].tags.target # None
                                  /\ v = RegisterCallback(view, p, t)
    BY <1>1 DEF Registration
  <2> DEFINE x == [promise[p] EXCEPT !.callbacks = @ \cup {t}]
  <2>2. v \in View
    BY <1>0, <2>1, RegisterCallbackType
  <2>3. v.task = task /\ v.promise = [promise EXCEPT ![p] = x]
    BY <1>0, <2>1 DEF RegisterCallback, View
  <2>4. promise[p] \in StoredPromise /\ promise \in [Id -> StoredPromise]
    BY DEF TypeInv, TypeOK
  <2>5. /\ x.state = promise[p].state /\ x.timeoutAt = promise[p].timeoutAt
        /\ x.settledAt = promise[p].settledAt /\ x.tags = promise[p].tags
        /\ x.callbacks = promise[p].callbacks \cup {t} /\ x.listeners = promise[p].listeners
    BY <2>4 DEF StoredPromise
  <2> HIDE DEF x
  <2>6. Registered(v)
    BY <1>0, <2>1, <2>3, <2>4, <2>5 DEF Registered, Live, IsPending
  <2>7. \A q \in Id : v.promise[q].callbacks \subseteq promise[q].callbacks \cup {t}
    BY <2>3, <2>4, <2>5
  <2>8. task[t].state # "absent"
    BY <1>0, <2>1 DEF Live, IsPending, RecordsOK, FulfilledIffSettled
  <2>s. \A q \in Id : v.promise[q].state = promise[q].state /\ v.promise[q].tags = promise[q].tags
    BY <2>6 DEF Registered
  <2>9. LegalTask(v, t)
    BY <2>2, <2>3, <2>8, <2>s, TaskStays
  <2> QED BY <2>2, <2>3, <2>6, <2>7, <2>9, OneTaskLegal
<1>2. CASE Listening(v)
  <2>1. PICK p \in Id, a \in Address :
               Live(p) /\ v = [view EXCEPT !.promise[p].listeners = @ \cup {a}]
    BY <1>2 DEF Listening
  <2> DEFINE x == [promise[p] EXCEPT !.listeners = @ \cup {a}]
  <2>2. promise[p] \in StoredPromise /\ promise \in [Id -> StoredPromise]
    BY DEF TypeInv, TypeOK
  <2>3. v.task = task /\ v.promise = [promise EXCEPT ![p] = x]
    BY <1>0, <2>1 DEF View
  <2>4. /\ x.state = promise[p].state /\ x.timeoutAt = promise[p].timeoutAt
        /\ x.settledAt = promise[p].settledAt /\ x.tags = promise[p].tags
        /\ x.callbacks = promise[p].callbacks /\ x.listeners = promise[p].listeners \cup {a}
        /\ x \in StoredPromise
    BY <2>2 DEF StoredPromise
  <2> HIDE DEF x
  <2>5. v \in View
    BY <1>0, <2>1, <2>4 DEF View, x
  <2>6. Registered(v)
    BY <1>0, <2>1, <2>2, <2>3, <2>4 DEF Registered, Live, IsPending
  <2>7. \A q \in Id : v.promise[q].callbacks = promise[q].callbacks
    BY <2>2, <2>3, <2>4
  <2>s. \A q \in Id : v.promise[q].state = promise[q].state /\ v.promise[q].tags = promise[q].tags
    BY <2>6 DEF Registered
  <2>8. LegalTask(v, p)
    BY ZenonT(60), <2>3, <2>5, <2>7, <2>s, TaskStays
  <2> QED BY <2>3, <2>5, <2>6, <2>7, <2>8, OneTaskLegal
<1> QED BY <1>1, <1>2

\* A task is suspended on promises that are pending, and registered with them.
LEMMA SuspensionLegal ==
    ASSUME TypeInv, DispatchInv, RecordsOK, lock = "free", NEW v, Suspension(v)
    PROVE  Legal(v)
<1>0. /\ view \in View /\ view.promise = promise /\ view.task = task
      /\ promise \in [Id -> StoredPromise] /\ task \in [Id -> StoredTask]
  BY FreeView DEF TypeInv, TypeOK
<1>1. PICK t \in Id, awaited \in SUBSET Id :
        /\ view.task[t].state = "acquired"
        /\ awaited # {} /\ \A p \in awaited : Live(p)
        /\ v = Suspend(view, t, awaited)
  BY DEF Suspension
<1>2. v \in View
  BY <1>0, <1>1, SuspendType
<1>3. ASSUME NEW p \in Id
      PROVE  /\ p \notin awaited => v.promise[p] = promise[p]
             /\ p \in awaited => v.promise[p] = [promise[p] EXCEPT !.callbacks = @ \cup {t}]
  BY <1>0, <1>1 DEF Suspend, View
<1>4. ASSUME NEW p \in awaited
      PROVE  /\ v.promise[p].state = "pending" /\ promise[p].state = "pending"
             /\ v.promise[p].timeoutAt = promise[p].timeoutAt
             /\ v.promise[p].settledAt = promise[p].settledAt
             /\ v.promise[p].tags = promise[p].tags
             /\ v.promise[p].callbacks = promise[p].callbacks \cup {t}
             /\ v.promise[p].listeners = promise[p].listeners
  <2>1. promise[p] \in StoredPromise /\ promise[p].state = "pending" /\ p \in Id
    BY <1>0, <1>1 DEF Live, IsPending
  <2>2. v.promise[p] = [promise[p] EXCEPT !.callbacks = @ \cup {t}]
    BY <1>3, <2>1
  <2> QED BY <2>1, <2>2 DEF StoredPromise
<1>5. Registered(v) /\ \A p \in Id : v.promise[p].callbacks \subseteq promise[p].callbacks \cup {t}
  BY <1>3, <1>4 DEF Registered
<1>6. /\ v.task[t] = [Transition(task[t], "suspended") EXCEPT !.resumes = {}]
      /\ \A u \in Id \ {t} : v.task[u] = task[u]
  BY <1>0, <1>1 DEF Suspend, View
<1>7. /\ v.task[t].state = "suspended" /\ v.task[t].pid = None /\ v.task[t].resumes = {}
      /\ v.task[t].version = task[t].version
  <2> DEFINE y == Transition(task[t], "suspended")
  <2>1. y \in StoredTask /\ y.state = "suspended" /\ y.pid = None /\ y.version = task[t].version
    BY <1>0, TransitionFields DEF TaskState
  <2> HIDE DEF y
  <2>2. v.task[t] = [y EXCEPT !.resumes = {}]
    BY <1>6 DEF y
  <2> QED BY <2>1, <2>2 DEF StoredTask
<1>8. <<task[t].state, v.task[t].state>> \in Abstract!Moves
  BY <1>0, <1>1, <1>7, MovesAre DEF TaskState
<1>9. Abstract!HolderStep(task[t], v.task[t])
  BY <1>7 DEF Abstract!HolderStep
<1>10. \E p \in Id : v.promise[p].state = "pending" /\ t \in v.promise[p].callbacks
  BY <1>1, <1>4
<1>11. LegalTask(v, t)
  BY <1>0, <1>1, <1>2, <1>5, <1>7, <1>8, <1>9, <1>10, MovedTask
<1> QED BY <1>2, <1>5, <1>6, <1>11, OneTaskLegal

\* A legal view with another legal step for one task is legal.
LEMMA ReplaceLegal ==
    ASSUME NEW v, NEW w, Legal(v), NEW t \in Id, w.promise = v.promise,
           \A u \in Id \ {t} : w.task[u] = v.task[u], w.task[t].state # "absent",
           Abstract!TaskStep(t, task[t], w.task[t], promise, v.promise, t \in Overdue)
    PROVE  Legal(w)
<1>1. ASSUME NEW u \in Id \ {t} PROVE LegalTask(w, u)
  <2>1. LegalTask(v, u)
    BY DEF Legal
  <2> QED BY <2>1 DEF LegalTask
<1>2. LegalTask(w, t)
  BY DEF LegalTask
<1> QED BY <1>1, <1>2 DEF Legal

\* A task that goes on at once is told by the answer.
LEMMA GoingOnLegal ==
    ASSUME TypeInv, DispatchInv, RecordsOK, lock = "free", NEW v, GoingOn(v)
    PROVE  Legal(v)
<1>1. PICK P \in SUBSET Id, t \in Id :
        /\ Timed(P).task[t].state = "acquired"
        /\ v = [Timed(P) EXCEPT !.task[t].resumes = {}]
  BY DEF GoingOn
<1> DEFINE u == Timed(P)
           x == u.task[t]
           y == [x EXCEPT !.resumes = {}]
<1>2. u \in View /\ Legal(u)
  BY TimedLegal
<1> HIDE DEF u
<1>3. x \in StoredTask /\ x.state = "acquired"
  BY <1>1, <1>2 DEF View, u
<1>4. v.promise = u.promise /\ v.task = [u.task EXCEPT ![t] = y]
  BY <1>1, <1>2 DEF View, u
<1>5. v.task[t] = y /\ \A r \in Id \ {t} : v.task[r] = u.task[r]
  BY <1>2, <1>4 DEF View
<1>6. /\ y.state = "acquired" /\ y.resumes = {} /\ y.version = x.version /\ y.pid = x.pid
  BY <1>3 DEF StoredTask
<1> DEFINE late == t \in Overdue
<1>7. Abstract!TaskStep(t, task[t], x, promise, u.promise, late)
  BY <1>2 DEF Legal, LegalTask
<1> HIDE DEF x, y, late
<1>8. Abstract!TaskStep(t, task[t], y, promise, u.promise, late)
  BY <1>3, <1>6, <1>7 DEF Abstract!TaskStep, Abstract!HolderStep, Abstract!ResumeStep,
       Abstract!SleepStep
<1> QED BY <1>2, <1>4, <1>5, <1>6, <1>8, ReplaceLegal DEF late

\* What the deadlines do to a task that is not past its own: it is told of the
\* promises that expire while it is registered with them.
LEMMA TimedLive ==
    ASSUME TypeInv, NEW P \in SUBSET Id, NEW t \in Id, Live(t)
    PROVE  LET told == {q \in P : Due(q) /\ t \in view.promise[q].callbacks}
           IN  Timed(P).task[t] = IF told = {} THEN view.task[t]
                                  ELSE ResumedTask(view.task[t], told, "fanout")
<1> DEFINE Q == {p \in P : IsPending(view.promise[p]) /\ now >= view.promise[p].timeoutAt}
           s == [p \in Q |-> Expired(view.promise[p])]
           told == {q \in P : Due(q) /\ t \in view.promise[q].callbacks}
           w == SettleChain(view, s, now)
<1>1. Timed(P) = w
  BY DEF Timed, TryTimeout, ExpirePromises
<1>2. view.promise[t].timeoutAt \in Nat /\ now \in Nat
  BY DEF TypeInv, TypeOK, View, StoredPromise
<1>3. DOMAIN s = Q /\ t \notin Q
  BY <1>2 DEF Live
<1>4. told = {p \in DOMAIN s : t \in s[p].callbacks}
  <2>1. ASSUME NEW p \in Q PROVE s[p].callbacks = view.promise[p].callbacks
    <3>1. view.promise[p] \in StoredPromise /\ s[p] = Expired(view.promise[p])
      BY DEF TypeInv, TypeOK, View
    <3> QED BY <3>1, ExpiredFrom DEF SettledFrom
  <2> HIDE DEF s
  <2> QED BY <1>3, <2>1 DEF Due
<1>5. t \in Woken(view, s, now) <=> told # {}
  <2> HIDE DEF s
  <2> QED BY <1>3, <1>4 DEF Woken, Live
<1>6. w.task[t] = IF t \in Woken(view, s, now)
                  THEN ResumedTask(view.task[t], {p \in DOMAIN s : t \in s[p].callbacks}, "fanout")
                  ELSE view.task[t]
  <2>1. t \notin DOMAIN s
    BY <1>3
  <2> HIDE DEF s
  <2> QED BY <2>1 DEF SettleChain
<1> HIDE DEF w, s
<1> QED BY <1>1, <1>4, <1>5, <1>6

\* A callback that comes after the settlement tells the task at once, in the
\* transaction that may have applied that settlement's deadline.
LEMMA ResumptionLegal ==
    ASSUME TypeInv, DispatchInv, RecordsOK, lock = "free", NEW v, Resumption(v)
    PROVE  Legal(v)
<1>1. PICK P \in SUBSET Id, p \in Id, t \in Id :
        /\ Live(t) /\ view.promise[t].tags.target # None
        /\ Timed(P).promise[p].state \notin {"absent", "pending"}
        /\ v = ResumeAwaiter(Timed(P), t, p)
  BY DEF Resumption
<1> DEFINE u == Timed(P)
           x == u.task[t]
           y == ResumedTask(x, {p}, "registration")
           told == {q \in P : Due(q) /\ t \in view.promise[q].callbacks}
           late == t \in Overdue
<1>0. view.promise = promise /\ view.task = task /\ task[t] \in StoredTask /\ late \in BOOLEAN
  BY FreeView DEF TypeInv, TypeOK
<1>2. u \in View /\ Legal(u)
  BY TimedLegal
<1>3. u.promise[t] = promise[t] /\ promise[t].state = "pending" /\ promise[t].tags.target # None
  <2>1. ~Due(t)
    <3>1. promise[t].timeoutAt \in Nat /\ now \in Nat
      BY DEF TypeInv, TypeOK, StoredPromise
    <3> QED BY <1>0, <1>1, <3>1 DEF Live, Due
  <2> QED BY <1>0, <1>1, <2>1, TimedPromise DEF Live, IsPending
<1>4. task[t].state \in {"pending", "acquired", "suspended", "halted"}
  BY <1>0, <1>3 DEF RecordsOK, FulfilledIffSettled, StoredTask, TaskState
<1>5. x = IF told = {} THEN task[t] ELSE ResumedTask(task[t], told, "fanout")
  BY <1>0, <1>1, TimedLive
<1>6. \A q \in Id : promise[q].state = "pending" =>
        /\ q \in told => u.promise[q].state \notin {"absent", "pending"}
        /\ u.promise[q].state \notin {"absent", "pending"} /\ t \in promise[q].callbacks => q \in told
  <2> SUFFICES ASSUME NEW q \in Id, promise[q].state = "pending"
               PROVE  /\ q \in told => u.promise[q].state \notin {"absent", "pending"}
                      /\ u.promise[q].state \notin {"absent", "pending"} /\ t \in promise[q].callbacks => q \in told
    OBVIOUS
  <2>1. promise[q] \in StoredPromise
    BY DEF TypeInv, TypeOK
  <2> QED BY <1>0, <2>1, TimedPromise, ExpiredFields
<1>7. \A q \in told : q \in Id /\ promise[q].state = "pending"
  BY <1>0 DEF Due, IsPending
<1>8. u.promise[p].state \notin {"absent", "pending"}
  BY <1>1
<1> HIDE DEF told
<1>9. v.promise = u.promise /\ v.task = [u.task EXCEPT ![t] = y]
  <2> HIDE DEF u
  <2> QED BY <1>1, <1>2 DEF ResumeAwaiter, View, u
<1> HIDE DEF u, late
<1>10. x \in StoredTask /\ y \in StoredTask /\ v.task[t] = y
       /\ \A r \in Id \ {t} : v.task[r] = u.task[r]
  <2>1. x \in StoredTask /\ v.task[t] = y /\ \A r \in Id \ {t} : v.task[r] = u.task[r]
    BY <1>2, <1>9 DEF View
  <2> HIDE DEF x
  <2>2. y \in StoredTask
    BY <2>1, ResumedTaskType
  <2> QED BY <2>1, <2>2
<1> HIDE DEF x
<1>11. /\ x.version = task[t].version
       /\ \/ task[t].state = "suspended" /\ told = {} /\ x = task[t]
          \/ /\ task[t].state = "suspended" /\ x.state = "pending"
             /\ x.resumes = told /\ x.pid = None
          \/ /\ task[t].state # "suspended" /\ x.state = task[t].state
             /\ x.pid = task[t].pid /\ x.resumes = task[t].resumes \cup told
  BY <1>0, <1>4, <1>5 DEF ResumedTask, Transition, StoredTask
<1>12. /\ y.version = x.version
       /\ \/ /\ x.state = "suspended" /\ y.state = "pending" /\ y.resumes = {p} /\ y.pid = None
          \/ /\ x.state \in {"pending", "acquired"} /\ y.state = x.state /\ y.pid = x.pid
             /\ y.resumes = x.resumes \cup {p}
          \/ x.state = "halted" /\ y.state = x.state /\ y.pid = x.pid /\ y.resumes = x.resumes
  BY <1>4, <1>10, <1>11 DEF ResumedTask, Transition, StoredTask
<1> HIDE DEF y
<1>13. /\ y.version = task[t].version /\ told \subseteq y.resumes
       /\ y.resumes \subseteq task[t].resumes \cup told \cup {p}
       /\ task[t].state = "suspended" => y.state = "pending" /\ y.pid = None /\ p \in y.resumes
       /\ task[t].state # "suspended" =>
            y.state = task[t].state /\ y.pid = task[t].pid /\ task[t].resumes \subseteq y.resumes
  BY <1>4, <1>11, <1>12
<1>14. task[t].state = "suspended" => task[t].resumes = {}
  BY DEF RecordsOK, ResumesAreSettled
<1>15. <<task[t].state, y.state>> \in Abstract!Moves
  BY <1>4, <1>13, MovesAre DEF TaskState
<1>16. Abstract!HolderStep(task[t], y)
  BY <1>4, <1>13 DEF Abstract!HolderStep, RecordsOK
<1>17. \A q \in y.resumes : q \in task[t].resumes \/ u.promise[q].state \notin {"absent", "pending"}
  BY <1>6, <1>7, <1>8, <1>13
<1>18. \A q \in Id : /\ promise[q].state = "pending" /\ t \in promise[q].callbacks
                     /\ u.promise[q].state \notin {"absent", "pending"}
                     => q \in y.resumes
  BY <1>6, <1>13
<1>19. Abstract!TaskStep(t, task[t], y, promise, u.promise, late)
  BY <1>0, <1>3, <1>4, <1>10, <1>13, <1>14, <1>15, <1>16, <1>17, <1>18, TaskStepFrom
<1>20. y.state # "absent"
  BY <1>4, <1>13
<1> QED BY ZenonT(60), <1>2, <1>9, <1>10, <1>19, <1>20, ReplaceLegal DEF late

\* A creation is legal: the promise starts pending, or settled at a deadline that
\* has passed, with the task it needs.
LEMMA CreationLegal ==
    ASSUME TypeInv, DispatchInv, RecordsOK, lock = "free", NEW v, Creation(v)
    PROVE  Legal(v)
<1>0. /\ view \in View /\ view.promise = promise /\ view.task = task /\ now \in Nat
      /\ promise \in [Id -> StoredPromise] /\ task \in [Id -> StoredTask]
  BY FreeView DEF TypeInv, TypeOK
<1>1. PICK p \in Id, data \in CreateData, x \in FirstTask, runAt \in Nat :
        /\ view.promise[p].state = "absent"
        /\ v = CreateWith(view, p, data, x, runAt, now)
  BY DEF Creation
<1> DEFINE new == CreatedPromise(data, now)
<1>2. /\ x \in StoredTask /\ x.resumes = {}
      /\ \/ x.state = "pending" /\ x.version = 0 /\ x.pid = None
         \/ x.state = "acquired" /\ x.version = 1
  <2>1. CASE x = NewTask("pending")
    BY <2>1 DEF NewTask, NoTask, StoredTask, TaskState
  <2>2. ASSUME NEW pid \in Pid, NEW ttl \in Int, x = FirstHeld(pid, ttl)
        PROVE  x \in StoredTask /\ x.resumes = {} /\ x.state = "acquired" /\ x.version = 1
    BY <2>2 DEF FirstHeld, NewTask, NoTask, StoredTask, TaskState
  <2> QED BY <2>1, <2>2 DEF FirstTask
<1>3. /\ new \in StoredPromise /\ new.tags = data.tags /\ new.timeoutAt = data.timeoutAt
      /\ new.callbacks = {} /\ new.listeners = {}
      /\ \/ new.state = "pending"
         \/ new.state = TimeoutState(new.tags) /\ new.settledAt = new.timeoutAt
  <2>1. new \in StoredPromise
    BY <1>0, CreatedPromiseType
  <2> QED BY <2>1 DEF CreatedPromise, NoPromise, CreateData
<1>4. TimeoutState(new.tags) \notin {"absent", "pending"}
  BY DEF TimeoutState
<1>5. v \in View
  BY <1>0, <1>1, <1>2, CreateWithType
<1>6. v.promise = [promise EXCEPT ![p] = new]
  BY <1>0, <1>1 DEF CreateWith
<1>7. /\ \A u \in Id \ {p} : v.task[u] = task[u]
      /\ v.task[p] = IF data.tags.target = None THEN NoTask
                     ELSE IF new.state = "pending" THEN [x EXCEPT !.job = 1]
                     ELSE NewTask("fulfilled")
  BY <1>0, <1>1 DEF CreateWith, IsPending
<1> HIDE DEF new
<1>8. v.promise[p] = new /\ \A q \in Id \ {p} : v.promise[q] = promise[q]
  BY <1>0, <1>6
<1>9. Abstract!Settlement(new) \/ new.state = "pending"
  BY <1>3, <1>4 DEF Abstract!Settlement, Abstract!IsSettled, Abstract!TimeoutState, TimeoutState
<1>10. ASSUME NEW q \in Id PROVE Abstract!PromiseStep(promise[q], v.promise[q])
  BY <1>0, <1>1, <1>3, <1>8, <1>9 DEF Abstract!PromiseStep, Abstract!IsPending
<1>11. ASSUME NEW u \in Id \ {p} PROVE LegalTask(v, u)
  <2>1. v.task[u] = task[u] /\ v.promise[u] = promise[u]
    BY <1>7, <1>8
  <2>2. \A q \in Id : /\ promise[q].state # "absent" => v.promise[q] = promise[q]
                      /\ u \in v.promise[q].callbacks => u \in promise[q].callbacks
    BY <1>0, <1>1, <1>3, <1>8
  <2> QED BY <1>5, <2>1, <2>2, TaskStays
<1>12. LegalTask(v, p)
  <2> DEFINE y == v.task[p]
             late == p \in Overdue
  <2>1. task[p] = NoTask
    BY <1>0, <1>1 DEF RecordsOK, FulfilledIffSettled
  <2>2. /\ task[p].state = "absent" /\ task[p].version = 0 /\ task[p].resumes = {}
        /\ task[p].pid = None /\ task[p] \in StoredTask
    BY <1>0, <2>1 DEF NoTask
  <2>3. y \in StoredTask /\ late \in BOOLEAN
    BY <1>5 DEF View
  <2>4. /\ y.resumes = {}
        /\ \/ y = NoTask /\ y.state = "absent" /\ data.tags.target = None
              /\ y.version = 0 /\ y.pid = None
           \/ /\ data.tags.target # None /\ new.state = "pending"
              /\ \/ y.state = "pending" /\ y.version = 0 /\ y.pid = None
                 \/ y.state = "acquired" /\ y.version = 1
           \/ /\ data.tags.target # None /\ new.state \notin {"absent", "pending"}
              /\ y.state = "fulfilled" /\ y.version = 0 /\ y.pid = None
    <3>1. CASE data.tags.target = None
      BY <1>7, <3>1 DEF NoTask
    <3>2. CASE data.tags.target # None /\ new.state = "pending"
      <4>1. y = [x EXCEPT !.job = 1]
        BY <1>7, <3>2
      <4> QED BY <1>2, <3>2, <4>1 DEF StoredTask
    <3>3. CASE data.tags.target # None /\ new.state # "pending"
      <4>1. y = NewTask("fulfilled") /\ new.state \notin {"absent", "pending"}
        BY <1>3, <1>4, <1>7, <3>3
      <4> QED BY <3>3, <4>1 DEF NewTask, NoTask
    <3> QED BY <3>1, <3>2, <3>3
  <2> HIDE DEF y, late
  <2>5. <<task[p].state, y.state>> \in Abstract!Moves
    BY <2>2, <2>4, MovesAre DEF TaskState
  <2>6. Abstract!HolderStep(task[p], y)
    BY <2>2, <2>4 DEF Abstract!HolderStep
  <2>7. \A q \in Id : p \notin promise[q].callbacks /\ p \notin v.promise[q].callbacks
    BY <1>3, <1>8, <2>2 DEF RecordsOK
  <2>8. Abstract!TaskStep(p, task[p], y, promise, v.promise, late)
    BY <1>3, <1>8, <2>2, <2>3, <2>4, <2>5, <2>6, <2>7, TaskStepFrom
  <2> QED BY <2>4, <2>7, <2>8 DEF LegalTask, y, late
<1> QED BY <1>10, <1>11, <1>12 DEF Legal

\* Every effect a transaction can have is a legal transaction of the protocol.
LEMMA EffectLegal ==
    ASSUME TypeInv, DispatchInv, RecordsOK, lock = "free", NEW v, Effect(v)
    PROVE  Legal(v)
BY TimedLegal, FiringLegal, CreationLegal, SettlingLegal, RegistrationLegal, ResumptionLegal,
   AcquisitionLegal, SuspensionLegal, GoingOnLegal, DemotionLegal, ContinuationLegal
   DEF Effect, Expiry

-----------------------------------------------------------------------------
(* The invariant                                                           *)

\* A legal transaction keeps the records right.
LEMMA AppliedRecords ==
    ASSUME TypeInv, RecordsOK, Legal(view), Apply, UNCHANGED now
    PROVE  RecordsOK'
<1>0. view \in View /\ promise' = view.promise /\ task' = view.task
      /\ promise \in [Id -> StoredPromise] /\ task \in [Id -> StoredTask]
  BY DEF Apply, TypeInv, TypeOK
<1> SUFFICES ASSUME NEW t \in Id
    PROVE  /\ task'[t].state = "absent" <=>
                promise'[t].state = "absent" \/ promise'[t].tags.target = None
           /\ task'[t].state # "absent" =>
                (task'[t].state = "fulfilled" <=> promise'[t].state # "pending")
           /\ \A p \in task'[t].resumes : promise'[p].state \notin {"absent", "pending"}
           /\ task'[t].state \in {"suspended", "fulfilled"} => task'[t].resumes = {}
           /\ task'[t].state = "suspended" =>
                \/ \E p \in Id : promise'[p].state = "pending" /\ t \in promise'[p].callbacks
                \/ now' >= promise'[t].timeoutAt
           /\ task'[t].state # "acquired" => task'[t].pid = None
           /\ task'[t].state = "absent" => task'[t] = NoTask
           /\ \A p \in Id : t \in promise'[p].callbacks => task'[t].state # "absent"
  BY DEF RecordsOK, FulfilledIffSettled, ResumesAreSettled, SuspendedIsAwaited
<1> DEFINE x == task[t]
           y == view.task[t]
           late == t \in Overdue
           Q == view.promise
<1>1. /\ Abstract!TaskStep(t, x, y, promise, Q, late)
      /\ y.state = "absent" => y = NoTask
      /\ \A p \in Id : t \in Q[p].callbacks => y.state # "absent"
  BY DEF Legal, LegalTask
<1>2. \A p \in Id : Abstract!PromiseStep(promise[p], Q[p])
  BY DEF Legal
<1>3. /\ x \in StoredTask /\ y \in StoredTask
      /\ late <=> promise[t].state # "absent" /\ now >= promise[t].timeoutAt
  BY <1>0, OverdueIs DEF View
<1> HIDE DEF x, y, late, Q
<1>4. /\ y.state = "absent" <=> Q[t].state = "absent" \/ Q[t].tags.target = None
      /\ y.state # "absent" => (y.state = "fulfilled" <=> Q[t].state \notin {"absent", "pending"})
  BY <1>1 DEF Abstract!TaskStep, Abstract!IsSettled
<1>5. \A p \in y.resumes : Q[p].state \notin {"absent", "pending"}
  <2>1. \A p \in Id : promise[p].state \notin {"absent", "pending"} => Q[p] = promise[p]
    BY <1>2 DEF Abstract!PromiseStep, Abstract!IsPending
  <2>2. \A p \in x.resumes : promise[p].state \notin {"absent", "pending"} /\ p \in Id
    BY <1>3 DEF RecordsOK, ResumesAreSettled, StoredTask, x
  <2> QED BY <1>1, <2>1, <2>2 DEF Abstract!TaskStep, Abstract!ResumeStep, Abstract!IsSettled
<1>6. y.state \in {"suspended", "fulfilled"} => y.resumes = {}
  BY <1>1 DEF Abstract!TaskStep, Abstract!ResumeStep
<1>7. y.state # "acquired" => y.pid = None
  BY <1>1 DEF Abstract!TaskStep, Abstract!HolderStep
<1>8. ASSUME y.state = "suspended"
      PROVE  \/ \E p \in Id : Q[p].state = "pending" /\ t \in Q[p].callbacks
             \/ now >= Q[t].timeoutAt
  <2>1. x.state \in {"acquired", "suspended"}
    BY <1>1, <1>3, <1>8, MovesAre DEF Abstract!TaskStep, StoredTask
  <2>2. CASE x.state = "acquired"
    BY <1>1, <1>8, <2>2 DEF Abstract!TaskStep, Abstract!SleepStep, Abstract!IsPending
  <2>3. CASE x.state = "suspended"
    <3>1. promise[t].state = "pending" /\ Q[t].timeoutAt = promise[t].timeoutAt
      <4>1. promise[t].state = "pending"
        BY <2>3 DEF RecordsOK, FulfilledIffSettled, x
      <4> QED BY <1>2, <4>1 DEF Abstract!PromiseStep, Abstract!IsPending
    <3>2. CASE now >= promise[t].timeoutAt
      BY <3>1, <3>2
    <3>3. CASE ~(now >= promise[t].timeoutAt)
      <4>1. PICK p \in Id : promise[p].state = "pending" /\ t \in promise[p].callbacks
        BY <2>3, <3>3 DEF RecordsOK, SuspendedIsAwaited, x
      <4>2. ~late
        BY <1>3, <3>3
      <4>3. Abstract!Told(promise, Q, t) \subseteq y.resumes /\ y.resumes = {}
        BY <1>1, <1>6, <1>8, <4>2 DEF Abstract!TaskStep, Abstract!ResumeStep
      <4>4. ~Abstract!IsSettled(Q[p])
        BY <4>1, <4>3 DEF Abstract!Told, Abstract!IsPending
      <4>5. Q[p].state = "pending" /\ t \in Q[p].callbacks
        BY <1>2, <4>1, <4>4 DEF Abstract!PromiseStep, Abstract!IsPending, Abstract!IsSettled,
             Abstract!Settlement
      <4> QED BY <4>5
    <3> QED BY <3>2, <3>3
  <2> QED BY <2>1, <2>2, <2>3
<1>9. promise'[t] = Q[t] /\ task'[t] = y /\ promise' = Q /\ now' = now
  BY <1>0 DEF Q, y
<1> QED BY <1>1, <1>4, <1>5, <1>6, <1>7, <1>8, <1>9

\* What is legal stays legal while time passes.
LEMMA LaterTask ==
    ASSUME NEW t, NEW x, NEW y, NEW P, NEW Q, NEW late \in BOOLEAN, NEW later \in BOOLEAN,
           late => later, Abstract!TaskStep(t, x, y, P, Q, late)
    PROVE  Abstract!TaskStep(t, x, y, P, Q, later)
BY DEF Abstract!TaskStep, Abstract!ResumeStep

\* What is legal stays legal as time passes.
LEMMA LegalLater ==
    ASSUME TypeInv, TypeInv', Legal(view), UNCHANGED <<promise, task, view>>, now' >= now
    PROVE  Legal(view)'
<1>1. ASSUME NEW p \in Id PROVE Abstract!PromiseStep(promise'[p], view'.promise[p])
  BY DEF Legal
<1>2. ASSUME NEW t \in Id
      PROVE  Abstract!TaskStep(t, task'[t], view'.task[t], promise', view'.promise, t \in Overdue')
  <2> DEFINE late == t \in Overdue
             later == t \in Overdue'
  <2>1. late => later
    <3>1. now \in Nat /\ now' \in Nat /\ promise[t].timeoutAt \in Nat
      BY DEF TypeInv, TypeOK, StoredPromise
    <3> QED BY <3>1 DEF Overdue
  <2>2. late \in BOOLEAN /\ later \in BOOLEAN
    OBVIOUS
  <2>3. Abstract!TaskStep(t, task[t], view.task[t], promise, view.promise, late)
    BY DEF Legal, LegalTask
  <2> HIDE DEF late, later
  <2>4. Abstract!TaskStep(t, task[t], view.task[t], promise, view.promise, later)
    BY <2>1, <2>2, <2>3, LaterTask
  <2> QED BY <2>4 DEF later
<1>3. ASSUME NEW t \in Id
      PROVE  /\ view'.task[t].state = "absent" => view'.task[t] = NoTask
             /\ \A p \in Id : t \in view'.promise[p].callbacks => view'.task[t].state # "absent"
  BY DEF Legal, LegalTask
<1> QED BY <1>1, <1>2, <1>3 DEF Legal, LegalTask

\* The records stay right while time passes.
LEMMA RecordsLater ==
    ASSUME TypeInv, TypeInv', RecordsOK, UNCHANGED <<promise, task>>, now' >= now
    PROVE  RecordsOK'
<1>1. FulfilledIffSettled' /\ ResumesAreSettled'
  BY DEF RecordsOK, FulfilledIffSettled, ResumesAreSettled
<1>2. SuspendedIsAwaited'
  <2>1. now \in Nat /\ now' \in Nat /\ \A t \in Id : promise[t].timeoutAt \in Nat
    BY DEF TypeInv, TypeOK, StoredPromise
  <2> QED BY <2>1 DEF RecordsOK, SuspendedIsAwaited
<1> QED BY <1>1, <1>2 DEF RecordsOK

\* The empty store satisfies the invariant.
LEMMA InitProtocol == Init => ProtocolInv
<1> SUFFICES ASSUME Init PROVE RecordsOK
  BY DEF ProtocolInv, Init
<1>1. \A t \in Id : task[t] = NoTask /\ promise[t] = NoPromise
  BY DEF Init
<1>2. /\ NoTask.state = "absent" /\ NoTask.resumes = {} /\ NoTask.pid = None
      /\ NoPromise.state = "absent" /\ NoPromise.callbacks = {}
  BY DEF NoTask, NoPromise
<1> QED BY <1>1, <1>2 DEF RecordsOK, FulfilledIffSettled, ResumesAreSettled, SuspendedIsAwaited

\* The invariant is inductive, given the types and the dispatches.
LEMMA ProtocolStep ==
    TypeInv /\ TypeInv' /\ DispatchInv /\ ProtocolInv /\ [Next]_vars => ProtocolInv'
<1> SUFFICES ASSUME TypeInv, TypeInv', DispatchInv, ProtocolInv, [Next]_vars PROVE ProtocolInv'
  OBVIOUS
<1>1. Opened \/ Applied \/ Rested
  BY StepKinds
<1>0. now \in Nat /\ RecordsOK
  BY DEF TypeInv, TypeOK, ProtocolInv
<1>2. CASE Opened
  <2>1. RecordsOK'
    BY <1>0, <1>2, RecordsLater DEF Opened
  <2>2. Legal(view')
    BY <1>0, <1>2, EffectLegal DEF Opened
  <2>3. Legal(view)'
    BY <1>2, <2>2 DEF Opened, Legal, LegalTask, Overdue
  <2> QED BY <2>1, <2>3 DEF ProtocolInv
<1>3. CASE Applied
  BY <1>0, <1>3, AppliedRecords DEF Applied, ProtocolInv
<1>4. CASE Rested
  <2>1. RecordsOK'
    BY <1>0, <1>4, RecordsLater DEF Rested
  <2>2. lock' = "commit" => Legal(view)'
    BY <1>4, LegalLater DEF Rested, ProtocolInv
  <2> QED BY <2>1, <2>2 DEF ProtocolInv
<1> QED BY <1>1, <1>2, <1>3, <1>4

-----------------------------------------------------------------------------
(* The theorems                                                            *)

\* The inductive invariant: the committed records are consistent, and a
\* transaction that is about to commit is legal however long it waits.
THEOREM ProtocolInvariant == Spec => []ProtocolInv
BY InitType, TypeInvStep, InitDispatch, DispatchStep, InitProtocol, ProtocolStep, PTL DEF Spec

\* What a client sees of a task's step is a step, too.
LEMMA RecordStep ==
    ASSUME NEW t, NEW x, NEW y, NEW P, NEW Q, NEW late \in BOOLEAN,
           Abstract!TaskStep(t, x, y, P, Q, late)
    PROVE  Abstract!TaskStep(t, TaskRecord(x), TaskRecord(y), P, Q, late)
<1> DEFINE a == TaskRecord(x)
           b == TaskRecord(y)
<1>1. /\ a.state = x.state /\ a.version = x.version /\ a.pid = x.pid /\ a.resumes = x.resumes
      /\ b.state = y.state /\ b.version = y.version /\ b.pid = y.pid /\ b.resumes = y.resumes
  BY DEF TaskRecord
<1>2. x = y => a = b
  OBVIOUS
<1> HIDE DEF a, b
<1>3. Abstract!HolderStep(a, b)
  BY <1>1 DEF Abstract!TaskStep, Abstract!HolderStep
<1>4. Abstract!ResumeStep(a, b, Q, Abstract!Told(P, Q, t), late)
  BY <1>1 DEF Abstract!TaskStep, Abstract!ResumeStep
<1>5. Abstract!SleepStep(a, b, Q, t)
  BY <1>1 DEF Abstract!TaskStep, Abstract!SleepStep
<1> QED BY <1>1, <1>2, <1>3, <1>4, <1>5 DEF Abstract!TaskStep, a, b

\* A commit is a transaction of the protocol.
LEMMA AppliedTransact ==
    ASSUME TypeInv, Legal(view), Apply, UNCHANGED now PROVE Abstract!Transact
<1>0. promise' = view.promise /\ task' = view.task
  BY DEF Apply
<1>1. \A p \in Id : Abstract!PromiseStep(promise[p], promise'[p])
  BY <1>0 DEF Legal
<1>2. ASSUME NEW t \in Id
      PROVE  Abstract!TaskStep(t, [u \in Id |-> TaskRecord(task[u])][t],
                               [u \in Id |-> TaskRecord(task'[u])][t],
                               promise, promise', t \in Overdue)
  <2> DEFINE late == t \in Overdue
  <2>1. late \in BOOLEAN
    OBVIOUS
  <2>2. Abstract!TaskStep(t, task[t], task'[t], promise, promise', late)
    BY <1>0 DEF Legal, LegalTask
  <2> HIDE DEF late
  <2>3. Abstract!TaskStep(t, TaskRecord(task[t]), TaskRecord(task'[t]), promise, promise', late)
    BY <2>1, <2>2, RecordStep
  <2> QED BY <2>3 DEF late
<1>3. \A p \in Id : promise[p].state # "absent" =>
        promise'[p].state # "absent" /\ promise'[p].timeoutAt = promise[p].timeoutAt
  BY <1>1 DEF Abstract!PromiseStep, Abstract!IsPending, Abstract!Settlement, Abstract!IsSettled
<1>4. Overdue \subseteq Overdue' /\ \A p \in Overdue' \ Overdue : promise[p].state = "absent"
  BY <1>3 DEF Overdue
<1> QED BY <1>1, <1>2, <1>4 DEF Abstract!Transact

\* The store implements the protocol: whatever the queue, the leases, the loops
\* and the faults do, the records change by legal transactions only.
THEOREM StoreImplementsProtocol == Spec => ImplementsProtocol
<1>1. Init => Abstract!Init
  <2> SUFFICES ASSUME Init PROVE Abstract!Init
    OBVIOUS
  <2>1. \A p \in Id : promise[p].state = "absent"
    BY DEF Init, NoPromise
  <2>2. Overdue = {}
    BY <2>1 DEF Overdue
  <2> QED BY <2>2 DEF Init, Abstract!Init, NoPromise, Abstract!NoPromise, NoTask, Abstract!NoTask,
                TaskRecord, Abstract!TaskRecord
<1>2. TypeInv /\ TypeInv' /\ DispatchInv /\ ProtocolInv /\ [Next]_vars
        => [Abstract!Next]_(Abstract!vars)
  <2> SUFFICES ASSUME TypeInv, TypeInv', DispatchInv, ProtocolInv, [Next]_vars
               PROVE  [Abstract!Next]_(Abstract!vars)
    OBVIOUS
  <2>1. CASE Opened
    BY <2>1 DEF Opened, Abstract!vars, Overdue
  <2>2. CASE Applied
    BY <2>2, AppliedTransact DEF Applied, ProtocolInv, Abstract!Next
  <2>3. CASE Rested
    <3>1. Overdue \subseteq Overdue'
      <4>1. now \in Nat /\ now' \in Nat /\ \A p \in Id : promise[p].timeoutAt \in Nat
        BY DEF TypeInv, TypeOK, StoredPromise
      <4> QED BY <2>3, <4>1 DEF Rested, Overdue
    <3>2. Overdue' \subseteq {p \in Id : promise[p].state # "absent"}
      BY <2>3 DEF Rested, Overdue
    <3>3. Abstract!Pass
      BY <2>3, <3>1, <3>2 DEF Rested, Abstract!Pass
    <3> QED BY <3>3 DEF Abstract!Next
  <2> QED BY <2>1, <2>2, <2>3, StepKinds
<1> QED BY <1>1, <1>2, InitType, TypeInvStep, DispatchInvariant, ProtocolInvariant, PTL
        DEF Spec, ImplementsProtocol, Abstract!Spec

\* Promise and task agree: a settled promise's task is fulfilled.
THEOREM PromiseAndTaskAgree == Spec => []FulfilledIffSettled
<1>1. ProtocolInv => FulfilledIffSettled
  BY DEF ProtocolInv, RecordsOK
<1> QED BY <1>1, ProtocolInvariant, PTL

\* A task observes settled promises only.
THEOREM OnlySettledIsResumed == Spec => []ResumesAreSettled
<1>1. ProtocolInv => ResumesAreSettled
  BY DEF ProtocolInv, RecordsOK
<1> QED BY <1>1, ProtocolInvariant, PTL

\* No wake-up is lost: a suspended task is registered with a pending promise
\* until its own deadline.
THEOREM WakeUpIsNotLost == Spec => []SuspendedIsAwaited
<1>1. ProtocolInv => SuspendedIsAwaited
  BY DEF ProtocolInv, RecordsOK
<1> QED BY <1>1, ProtocolInvariant, PTL

\* A settled promise and its task never change again.
THEOREM SettlementIsFinal == Spec => SettledIsFinal
<1> DEFINE A == \A p \in Id : promise[p].state \notin {"absent", "pending"} =>
                    promise'[p] = promise[p] /\ task'[p] = task[p]
<1>1. TypeInv /\ DispatchInv /\ ProtocolInv /\ [Next]_vars => [A]_vars
  <2> SUFFICES ASSUME TypeInv, DispatchInv, ProtocolInv, [Next]_vars PROVE A
    OBVIOUS
  <2>1. CASE Opened \/ Rested
    BY <2>1 DEF Opened, Rested
  <2>2. CASE Applied
    <3> SUFFICES ASSUME NEW p \in Id, promise[p].state \notin {"absent", "pending"}
                 PROVE  promise'[p] = promise[p] /\ task'[p] = task[p]
      OBVIOUS
    <3>1. promise' = view.promise /\ task' = view.task /\ Legal(view) /\ RecordsOK
      BY <2>2 DEF Applied, Apply, ProtocolInv
    <3>2. promise'[p] = promise[p]
      BY <3>1 DEF Legal, Abstract!PromiseStep, Abstract!IsPending
    <3>3. CASE task[p].state = "fulfilled"
      BY <3>1, <3>2, <3>3 DEF Legal, LegalTask, Abstract!TaskStep
    <3>4. CASE task[p].state = "absent"
      <4>1. promise[p].tags.target = None
        BY <3>1, <3>4 DEF RecordsOK, FulfilledIffSettled
      <4>2. view.task[p].state = "absent"
        BY <3>1, <3>2, <4>1 DEF Legal, LegalTask, Abstract!TaskStep
      <4> QED BY <3>1, <3>2, <3>4, <4>2 DEF Legal, LegalTask, RecordsOK
    <3> QED BY <3>1, <3>3, <3>4 DEF RecordsOK, FulfilledIffSettled
  <2> QED BY <2>1, <2>2, StepKinds
<1>2. Spec => [][A]_vars
  BY <1>1, InitType, TypeInvStep, DispatchInvariant, ProtocolInvariant, PTL DEF Spec
<1> QED BY <1>2 DEF SettledIsFinal

\* Whoever becomes the holder of a task does so at a version nobody held before.
THEOREM VersionIsAFence == Spec => VersionFences
<1> DEFINE A == \A t \in Id :
                  /\ task'[t].version >= task[t].version
                  /\ task'[t].state = "acquired" =>
                        \/ task'[t].version > task[t].version
                        \/ IsAcquiredAt(task[t], task'[t].version)
                           /\ task'[t].pid = task[t].pid
<1>1. TypeInv /\ DispatchInv /\ ProtocolInv /\ [Next]_vars => [A]_vars
  <2> SUFFICES ASSUME TypeInv, DispatchInv, ProtocolInv, [Next]_vars PROVE A
    OBVIOUS
  <2> SUFFICES ASSUME NEW t \in Id
      PROVE  /\ task'[t].version >= task[t].version
             /\ task'[t].state = "acquired" =>
                   \/ task'[t].version > task[t].version
                   \/ IsAcquiredAt(task[t], task'[t].version)
                      /\ task'[t].pid = task[t].pid
    OBVIOUS
  <2>0. task[t].version \in Nat
    BY DEF TypeInv, TypeOK, StoredTask
  <2>1. CASE Opened \/ Rested
    BY <2>0, <2>1 DEF Opened, Rested, IsAcquiredAt
  <2>2. CASE Applied
    <3>1. task' = view.task /\ Legal(view)
      BY <2>2 DEF Applied, Apply, ProtocolInv
    <3>2. Abstract!HolderStep(task[t], task'[t])
      BY <3>1 DEF Legal, LegalTask, Abstract!TaskStep
    <3> QED BY <2>0, <3>2 DEF Abstract!HolderStep, IsAcquiredAt
  <2> QED BY <2>1, <2>2, StepKinds
<1>2. Spec => [][A]_vars
  BY <1>1, InitType, TypeInvStep, DispatchInvariant, ProtocolInvariant, PTL DEF Spec
<1> QED BY <1>2 DEF VersionFences
=============================================================================
