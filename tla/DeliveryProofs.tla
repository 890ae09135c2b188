---------------------------- MODULE DeliveryProofs -----------------------------
(***************************************************************************)
(* Timers and messages are not lost: the jobs of the queue that are not    *)
(* dispatches, the claims of the loops and the promises they belong to     *)
(* agree at every step of every transaction.                               *)
(***************************************************************************)
EXTENDS RefinementProofs

-----------------------------------------------------------------------------
(* What a transaction does to a promise, its timer and its listeners       *)

\* A promise whose settlement is what it was, and that loses no listener.
PromiseKept(v, p) ==
    LET x == view.promise[p]
        y == v.promise[p]
    IN  /\ y.state = x.state /\ y.settledAt = x.settledAt
        /\ y.timeoutAt = x.timeoutAt /\ y.tags = x.tags
        /\ x.listeners \subseteq y.listeners
        /\ IsPending(x) \/ y.listeners = x.listeners

\* A promise that is settled by now, with a message to each of its listeners.
PromiseEnded(v, p) ==
    LET x == view.promise[p]
        y == v.promise[p]
    IN  /\ IsPending(x) /\ y.state \notin {"absent", "pending"}
        /\ y.timeoutAt = x.timeoutAt /\ y.tags = x.tags
        /\ y.settledAt \in 0 .. now /\ y.listeners = {}
        /\ \A a \in x.listeners : \E r \in v.enqueue : r.job = UnblockJob(p, a)

\* A promise that is new, with its timer if a task can await it.
PromiseMade(v, p) ==
    LET y == v.promise[p]
    IN  /\ view.promise[p].state = "absent" /\ y.state # "absent"
        /\ y.listeners = {}
        /\ y.state # "pending" => y.settledAt \in 0 .. now
        /\ IsPending(y) /\ IsExternal(y.tags) => \E r \in v.enqueue : r.job = TimerJob(p)

\* A view that leaves every promise in order, and sets the timers of the new ones.
Delivers(v) ==
    /\ \A p \in Id : PromiseKept(v, p) \/ PromiseEnded(v, p) \/ PromiseMade(v, p)
    /\ \A r \in v.enqueue, p \in Id : r.job = TimerJob(p) =>
          PromiseMade(v, p) /\ r.runAt = v.promise[p].timeoutAt

\* Tasks and their dispatches do not matter to it.
LEMMA DeliversAgain ==
    ASSUME NEW v, NEW w, Delivers(v), w.promise = v.promise,
           \A r \in v.enqueue : r \in w.enqueue,
           \A r \in w.enqueue : r \in v.enqueue \/ r.job[1] = "execute"
    PROVE  Delivers(w)
<1>1. ASSUME NEW p \in Id PROVE /\ PromiseKept(v, p) => PromiseKept(w, p)
                                /\ PromiseEnded(v, p) => PromiseEnded(w, p)
                                /\ PromiseMade(v, p) => PromiseMade(w, p)
  BY DEF PromiseKept, PromiseEnded, PromiseMade
<1>2. \A p \in Id : TimerJob(p)[1] # "execute"
  BY DEF TimerJob
<1>3. ASSUME NEW r \in w.enqueue, NEW p \in Id, r.job = TimerJob(p)
      PROVE  PromiseMade(w, p) /\ r.runAt = w.promise[p].timeoutAt
  <2>1. r \in v.enqueue
    BY <1>2, <1>3
  <2> QED BY <1>1, <1>3, <2>1 DEF Delivers
<1> QED BY <1>1, <1>3 DEF Delivers

\* The view itself is in order.
LEMMA ViewDelivers ==
    ASSUME view.enqueue = {} PROVE Delivers(view)
BY DEF Delivers, PromiseKept

\* A settlement sends its messages.
LEMMA SettleChainDelivers ==
    ASSUME TypeInv, view.enqueue = {}, NEW D \in SUBSET Id, NEW s \in [D -> StoredPromise],
           \A p \in D : /\ IsPending(view.promise[p])
                        /\ s[p].state \notin {"absent", "pending"}
                        /\ s[p].timeoutAt = view.promise[p].timeoutAt
                        /\ s[p].tags = view.promise[p].tags
                        /\ s[p].listeners = view.promise[p].listeners
                        /\ s[p].settledAt \in 0 .. now
    PROVE  Delivers(SettleChain(view, s, now))
<1> DEFINE v == SettleChain(view, s, now)
           wk == {t \in Woken(view, s, now) : view.task[t].state = "suspended"}
<1>1. v.enqueue = {DispatchRequest(t, view.task[t], 0) : t \in wk}
                     \cup UNION {{[job |-> UnblockJob(p, a), runAt |-> 0] : a \in s[p].listeners} : p \in D}
  BY DEF SettleChain
<1>2. ASSUME NEW p \in Id \ D PROVE v.promise[p] = view.promise[p]
  BY <1>2 DEF SettleChain
<1>3. ASSUME NEW p \in D PROVE v.promise[p] = [s[p] EXCEPT !.callbacks = {}, !.listeners = {}]
  BY <1>3 DEF SettleChain
<1>4. ASSUME NEW r \in v.enqueue, NEW p \in Id PROVE r.job # TimerJob(p)
  <2>1. r.job[1] \in {"execute", "unblock"}
    BY <1>1 DEF DispatchRequest, ExecuteJob, UnblockJob
  <2> QED BY <2>1 DEF TimerJob
<1>5. ASSUME NEW p \in D, NEW a \in s[p].listeners
      PROVE  \E r \in v.enqueue : r.job = UnblockJob(p, a)
  <2> DEFINE m == [job |-> UnblockJob(p, a), runAt |-> 0]
  <2>1. m \in v.enqueue
    <3>1. m \in {[job |-> UnblockJob(p, b), runAt |-> 0] : b \in s[p].listeners}
      OBVIOUS
    <3> HIDE DEF m, v
    <3> QED BY <1>1, <3>1
  <2>2. m.job = UnblockJob(p, a)
    OBVIOUS
  <2> HIDE DEF m, v
  <2> QED BY <2>1, <2>2
<1> HIDE DEF v
<1>6. ASSUME NEW p \in D PROVE PromiseEnded(v, p)
  <2>1. s[p] \in StoredPromise
    OBVIOUS
  <2>2. /\ v.promise[p].state = s[p].state /\ v.promise[p].timeoutAt = s[p].timeoutAt
        /\ v.promise[p].tags = s[p].tags /\ v.promise[p].settledAt = s[p].settledAt
        /\ v.promise[p].listeners = {}
    BY ZenonT(60), <1>3, <2>1 DEF StoredPromise
  <2> QED BY <1>5, <2>2 DEF PromiseEnded
<1>7. ASSUME NEW p \in Id \ D PROVE PromiseKept(v, p)
  BY <1>2, <1>7 DEF PromiseKept
<1> QED BY <1>4, <1>6, <1>7 DEF Delivers, v

\* Deadlines that have passed settle their promises.
LEMMA ExpiryDelivers ==
    ASSUME TypeInv, view.enqueue = {}, NEW D \in SUBSET Id, \A p \in D : Due(p)
    PROVE  Delivers(ExpirePromises(view, D, now))
<1> DEFINE s == [p \in D |-> Expired(view.promise[p])]
<1>0. view \in View /\ now \in Nat
  BY DEF TypeInv, TypeOK
<1>1. ASSUME NEW p \in D
      PROVE  /\ IsPending(view.promise[p])
             /\ s[p] \in StoredPromise
             /\ s[p].state \notin {"absent", "pending"}
             /\ s[p].timeoutAt = view.promise[p].timeoutAt
             /\ s[p].tags = view.promise[p].tags
             /\ s[p].listeners = view.promise[p].listeners
             /\ s[p].settledAt \in 0 .. now
  <2>1. view.promise[p] \in StoredPromise /\ Due(p)
    BY <1>0 DEF View
  <2>2. TimeoutState(view.promise[p].tags) \in PromiseState \cup {"absent"}
    BY DEF TimeoutState, PromiseState, SettleState
  <2>3. TimeoutState(view.promise[p].tags) \notin {"absent", "pending"}
    BY DEF TimeoutState
  <2>4. s[p] = [view.promise[p] EXCEPT !.state = TimeoutState(view.promise[p].tags),
                                       !.settledAt = view.promise[p].timeoutAt]
    BY DEF Expired
  <2>5. view.promise[p].timeoutAt \in 0 .. now
    BY <1>0, <2>1 DEF StoredPromise, Due
  <2> HIDE DEF s
  <2> QED BY <2>1, <2>2, <2>3, <2>4, <2>5 DEF StoredPromise, Due
<1>2. s \in [D -> StoredPromise]
  BY <1>1
<1>3. ExpirePromises(view, D, now) = SettleChain(view, s, now)
  BY DEF ExpirePromises
<1> HIDE DEF s
<1> QED BY <1>1, <1>2, <1>3, SettleChainDelivers

\* The deadlines a request applies.
LEMMA TimedDelivers ==
    ASSUME TypeInv, view.enqueue = {}, NEW P \in SUBSET Id PROVE Delivers(Timed(P))
<1> DEFINE D == {p \in P : IsPending(view.promise[p]) /\ now >= view.promise[p].timeoutAt}
<1>1. D \in SUBSET Id /\ \A p \in D : Due(p)
  BY DEF Due
<1>2. Timed(P) = ExpirePromises(view, D, now)
  BY DEF Timed, TryTimeout
<1> HIDE DEF D
<1> QED BY <1>1, <1>2, ExpiryDelivers

\* A client's settlement.
LEMMA SettlingDelivers ==
    ASSUME TypeInv, view.enqueue = {}, NEW p \in Id, NEW state \in SettleState,
           IsPending(view.promise[p])
    PROVE  Delivers(Settle(view, p, state, now))
<1> DEFINE x == [view.promise[p] EXCEPT !.state = state, !.settledAt = now]
           s == [q \in {p} |-> x]
<1>1. view.promise[p] \in StoredPromise /\ now \in Nat
  BY DEF TypeInv, TypeOK, View
<1>2. state \in PromiseState \cup {"absent"} /\ state \notin {"absent", "pending"}
  BY DEF SettleState, PromiseState
<1>3. /\ x \in StoredPromise /\ x.state = state /\ x.settledAt = now
      /\ x.timeoutAt = view.promise[p].timeoutAt /\ x.tags = view.promise[p].tags
      /\ x.listeners = view.promise[p].listeners
  BY <1>1, <1>2 DEF StoredPromise
<1>4. Settle(view, p, state, now) = SettleChain(view, s, now)
  BY DEF Settle
<1> HIDE DEF x
<1>5. s \in [{p} -> StoredPromise] /\ s[p] = x
  BY <1>3
<1> HIDE DEF s
<1>6. {p} \in SUBSET Id
  OBVIOUS
<1>7. now \in 0 .. now
  BY <1>1
<1> QED BY <1>2, <1>3, <1>4, <1>5, <1>6, <1>7, SettleChainDelivers

\* A creation sets the timer.
LEMMA CreationDelivers ==
    ASSUME TypeInv, view.enqueue = {}, NEW p \in Id, NEW data \in CreateData, NEW x,
           NEW runAt, view.promise[p].state = "absent"
    PROVE  Delivers(CreateWith(view, p, data, x, runAt, now))
<1> DEFINE v == CreateWith(view, p, data, x, runAt, now)
           y == CreatedPromise(data, now)
           timer == [job |-> TimerJob(p), runAt |-> data.timeoutAt]
<1>1. view \in View /\ now \in Nat /\ data.timeoutAt \in Nat
  BY DEF TypeInv, TypeOK, CreateData
<1>2. /\ y.state = (IF now >= data.timeoutAt THEN TimeoutState(data.tags) ELSE "pending")
      /\ y.settledAt = (IF now >= data.timeoutAt THEN data.timeoutAt ELSE None)
      /\ y.timeoutAt = data.timeoutAt /\ y.tags = data.tags /\ y.listeners = {}
  BY DEF CreatedPromise, NoPromise
<1>3. TimeoutState(data.tags) \notin {"absent", "pending"}
  BY DEF TimeoutState
<1>4. v.promise = [view.promise EXCEPT ![p] = y]
  BY DEF CreateWith
<1>5. \A r \in v.enqueue : r.job = ExecuteJob(p, 1) \/ r = timer
  BY DEF CreateWith
<1>6. IsPending(y) /\ IsExternal(data.tags) => timer \in v.enqueue
  BY DEF CreateWith
<1> HIDE DEF v, y
<1>7. v.promise[p] = y /\ \A q \in Id \ {p} : v.promise[q] = view.promise[q]
  BY <1>1, <1>4 DEF View
<1>8. PromiseMade(v, p)
  <2>1. y.state # "absent" /\ (y.state # "pending" => y.settledAt \in 0 .. now)
    BY <1>1, <1>2, <1>3
  <2> QED BY <1>2, <1>6, <1>7, <2>1 DEF PromiseMade
<1>9. \A q \in Id \ {p} : PromiseKept(v, q)
  BY <1>7 DEF PromiseKept
<1>10. ASSUME NEW r \in v.enqueue, NEW q \in Id, r.job = TimerJob(q)
       PROVE  q = p /\ r.runAt = data.timeoutAt
  BY <1>5, <1>10 DEF TimerJob, ExecuteJob
<1> QED BY <1>2, <1>7, <1>8, <1>9, <1>10 DEF Delivers, v

\* Every effect of a handler leaves the promises in order.
LEMMA EffectDelivers ==
    ASSUME TypeInv, DispatchInv, TimerInv, lock = "free", NEW v, Effect(v)
    PROVE  Delivers(v)
<1>0. view \in View /\ view = Committed /\ view.enqueue = {}
  BY DEF TypeInv, TypeOK, DispatchInv, ViewIsCommitted, Committed
<1>d. Delivers(view)
  BY <1>0, ViewDelivers
<1>1. CASE Expiry(v)
  BY <1>0, <1>1, TimedDelivers DEF Expiry
<1>2. CASE Firing(v)
  <2>1. PICK p \in Id, l \in Loop :
           /\ loops[l].pc = "claimed" /\ loops[l].claim.job = TimerJob(p)
           /\ IsPending(view.promise[p])
           /\ v = ExpirePromises(view, {p}, now)
    BY <1>2 DEF Firing
  <2>2. Due(p)
    BY <1>0, <2>1 DEF TimerInv, TimerClaimOK, Due, Committed
  <2>3. {p} \in SUBSET Id /\ \A q \in {p} : Due(q)
    BY <2>2
  <2> QED BY <1>0, <2>1, <2>3, ExpiryDelivers
<1>3. CASE Creation(v)
  BY <1>0, <1>3, CreationDelivers DEF Creation
<1>4. CASE Settling(v)
  BY <1>0, <1>4, SettlingDelivers DEF Settling, Live
<1>5. CASE Registration(v)
  <2>1. PICK p, t \in Id : v = RegisterCallback(view, p, t)
    BY <1>5 DEF Registration
  <2>2. /\ v.enqueue = view.enqueue
        /\ \A q \in Id : /\ v.promise[q].state = view.promise[q].state
                         /\ v.promise[q].settledAt = view.promise[q].settledAt
                         /\ v.promise[q].timeoutAt = view.promise[q].timeoutAt
                         /\ v.promise[q].tags = view.promise[q].tags
                         /\ v.promise[q].listeners = view.promise[q].listeners
    BY <1>0, <2>1 DEF RegisterCallback, View, StoredPromise
  <2> QED BY <1>0, <2>2 DEF Delivers, PromiseKept
<1>6. CASE Listening(v)
  <2>1. PICK p \in Id, a \in Address :
           Live(p) /\ v = [view EXCEPT !.promise[p].listeners = @ \cup {a}]
    BY <1>6 DEF Listening
  <2>2. /\ v.enqueue = view.enqueue
        /\ \A q \in Id : /\ v.promise[q].state = view.promise[q].state
                         /\ v.promise[q].settledAt = view.promise[q].settledAt
                         /\ v.promise[q].timeoutAt = view.promise[q].timeoutAt
                         /\ v.promise[q].tags = view.promise[q].tags
                         /\ v.promise[q].listeners =
                              IF q = p THEN view.promise[q].listeners \cup {a}
                              ELSE view.promise[q].listeners
    <3> DEFINE x == view.promise[p]
               y == [x EXCEPT !.listeners = x.listeners \cup {a}]
    <3>1. x \in StoredPromise
      BY <1>0 DEF View
    <3>2. /\ y.state = x.state /\ y.settledAt = x.settledAt /\ y.timeoutAt = x.timeoutAt
          /\ y.tags = x.tags /\ y.listeners = x.listeners \cup {a}
      BY <3>1 DEF StoredPromise
    <3>3. v.enqueue = view.enqueue /\ v.promise = [view.promise EXCEPT ![p] = y]
      BY <1>0, <2>1 DEF View
    <3> HIDE DEF y
    <3>4. \A q \in Id : v.promise[q] = IF q = p THEN y ELSE view.promise[q]
      BY <1>0, <3>3 DEF View
    <3> QED BY <3>2, <3>3, <3>4
  <2>3. IsPending(view.promise[p])
    BY <2>1 DEF Live
  <2> QED BY <1>0, <2>2, <2>3 DEF Delivers, PromiseKept
<1>7. CASE Resumption(v)
  <2>1. PICK P \in SUBSET Id, p, t \in Id : v = ResumeAwaiter(Timed(P), t, p)
    BY <1>7 DEF Resumption
  <2> DEFINE w == Timed(P)
             r == DispatchRequest(t, w.task[t], 0)
  <2>2. Delivers(w) /\ w \in View
    BY <1>0, TimedDelivers, TimedType DEF TypeInv
  <2>3. v = ResumeAwaiter(w, t, p)
    BY <2>1
  <2>4. r.job[1] = "execute"
    BY DEF DispatchRequest, ExecuteJob
  <2> HIDE DEF w
  <2>5. v.promise = w.promise /\ v.enqueue = w.enqueue \cup {q \in {r} : w.task[t].state = "suspended"}
    BY <2>2, <2>3 DEF ResumeAwaiter, View
  <2> QED BY <2>2, <2>4, <2>5, DeliversAgain
<1>8. CASE GoingOn(v)
  <2>1. PICK P \in SUBSET Id, t \in Id : v = [Timed(P) EXCEPT !.task[t].resumes = {}]
    BY <1>8 DEF GoingOn
  <2> DEFINE w == Timed(P)
  <2>2. Delivers(w) /\ w \in View
    BY <1>0, TimedDelivers, TimedType DEF TypeInv
  <2> HIDE DEF w
  <2>3. v.promise = w.promise /\ v.enqueue = w.enqueue
    BY <2>1, <2>2 DEF View, w
  <2> QED BY <2>2, <2>3, DeliversAgain
<1>9. CASE Acquisition(v) \/ Demotion(v) \/ Halting(v) \/ Continuation(v)
  <2>1. PICK t \in Id : \/ v.enqueue = view.enqueue
                        \/ v.enqueue = view.enqueue \cup {DispatchRequest(t, view.task[t], 0)}
    BY <1>0, <1>9 DEF Acquisition, Demotion, Halting, Continuation, Acquire, Unassign, Halt,
          Continue, View
  <2>2. v.promise = view.promise
    BY <1>0, <1>9 DEF Acquisition, Demotion, Halting, Continuation, Acquire, Unassign, Halt,
          Continue, View
  <2>3. DispatchRequest(t, view.task[t], 0).job[1] = "execute"
    BY DEF DispatchRequest, ExecuteJob
  <2> QED BY <1>0, <1>d, <2>1, <2>2, <2>3, DeliversAgain
<1>10. CASE Suspension(v)
  <2>1. PICK t \in Id, awaited \in SUBSET Id : v = Suspend(view, t, awaited)
    BY <1>10 DEF Suspension
  <2>2. /\ v.enqueue = view.enqueue
        /\ \A q \in Id : /\ v.promise[q].state = view.promise[q].state
                         /\ v.promise[q].settledAt = view.promise[q].settledAt
                         /\ v.promise[q].timeoutAt = view.promise[q].timeoutAt
                         /\ v.promise[q].tags = view.promise[q].tags
                         /\ v.promise[q].listeners = view.promise[q].listeners
    BY <1>0, <2>1 DEF Suspend, View, StoredPromise
  <2> QED BY <1>0, <2>2 DEF Delivers, PromiseKept
<1> QED BY <1>1, <1>2, <1>3, <1>4, <1>5, <1>6, <1>7, <1>8, <1>9, <1>10 DEF Effect
-----------------------------------------------------------------------------
(* What a step does to the queue and the loops                             *)

\* The timers and the messages in the queue are the same.
SameOthers(q, r) == \A j \in Job : j[1] # "execute" => r[j] = q[j]

\* The owner of the transaction has left the lock.
Left(ok) ==
    /\ owner' = None /\ after' = NoAfter
    /\ loops' = IF owner = None THEN loops
                ELSE [loops EXCEPT ![owner] = Unlocked(loops[owner], ok)]

\* A client's request is evaluated.
Asked ==
    /\ Opened
    /\ UNCHANGED loops /\ owner' = None /\ after'.op # "ack"
    /\ after'.op = "nack" => after'.task \in Id
    /\ SameOthers(jobs, jobs')

\* A loop's delivery or timer is evaluated.
Delivered(l) ==
    /\ Opened
    /\ loops[l].pc = "claimed" /\ loops' = Busy(l) /\ owner' = l
    /\ UNCHANGED jobs /\ after'.op # "nack"
    /\ \/ /\ loops[l].claim.job[1] # "timer"
          /\ after'.op = "ack" => after'.claim = loops[l].claim
       \/ /\ after'.op # "ack" /\ loops[l].claim.job[1] = "timer"
          /\ view' = ExpirePromises(view, {loops[l].claim.job[2]}, now)

\* The transaction is durable, and its jobs are in the queue.
Stored ==
    /\ Applied
    /\ \E q \in [Job -> JobRecord] :
          SameOthers(jobs, q) /\ jobs' = Enqueue(q, view.enqueue)
    /\ view'.promise = view.promise /\ view'.enqueue = {}
    /\ UNCHANGED <<loops, owner, after>> \/ Left(TRUE)

\* The transaction has ended without a result.
GivenUp ==
    /\ UNCHANGED <<now, promise, task, owed>>
    /\ SameOthers(jobs, jobs')
    /\ view'.promise = promise /\ view'.enqueue = {}
    /\ Left(FALSE)

\* The last work after the commit.
Finished ==
    /\ UNCHANGED <<now, promise, task, owed, view>>
    /\ lock = "finish"
    /\ \/ SameOthers(jobs, jobs')
       \/ after.op = "ack" /\ jobs' = Ack(jobs, after.claim)
    /\ Left(TRUE)

\* Nothing happens to a promise, a timer or a message.
Calm ==
    /\ UNCHANGED <<promise, loops, owner, after, owed>>
    /\ now' >= now /\ SameOthers(jobs, jobs')
    /\ view'.promise = view.promise /\ view'.enqueue = view.enqueue

\* A step that is none of those.
QueueStep ==
    \/ \E l \in Loop :
          \/ \E job \in Job : LoopClaim(l, job) \/ LoopClaimDropped(l, job)
          \/ LoopEmit(l) \/ WorkerNack(l)
          \/ FirePromiseTimeout(l) /\ ~IsPending(view.promise[loops[l].claim.job[2]])
    \/ \E job \in Job : Reap(job)
    \/ Crash

\* The claims held for tasks are claims of dispatches.
LEMMA HeldIsExecute ==
    ASSUME TypeInv, DispatchInv, NEW t \in Id, held[t] # None
    PROVE  held[t] \in Claim /\ held[t].job \in Job /\ held[t].job[1] = "execute"
BY DEF TypeInv, TypeOK, DispatchInv, ClaimsOK, Claim

\* To claim or renew the job of a task leaves timers and messages alone.
LEMMA RenewOthers ==
    ASSUME NEW c, c.job[1] = "execute", NEW lease
    PROVE  SameOthers(jobs, RenewLease(c, lease))
BY DEF SameOthers, RenewLease

\* So does to acknowledge or fail its claim.
LEMMA AckOthers ==
    ASSUME NEW c, c.job[1] = "execute"
    PROVE  SameOthers(jobs, Ack(jobs, c)) /\ SameOthers(jobs, Nack(jobs, c))
BY DEF SameOthers, Ack, Nack

\* A client's request leaves the queue's timers and messages and the loops alone.
LEMMA OpenAsked ==
    ASSUME Opened, NEW v, NEW acked, NEW last, Open(v, None, acked, last), last.op # "ack",
           last.op = "nack" => last.task \in Id, UNCHANGED loops, SameOthers(jobs, jobs')
    PROVE  Asked
BY DEF Open, Asked

\* A request that changes no claim.
LEMMA RequestAsked ==
    ASSUME Opened, NEW v, Request(v) PROVE Asked
BY OpenAsked DEF Request, NoAfter, SameOthers

\* An acquisition, or its refusal.
LEMMA AcquisitionAsked ==
    ASSUME TypeInv, DispatchInv, Opened, NEW t \in Id, NEW v, NEW pid, NEW ttl,
           AcquireOr409(v, t, pid, ttl) \/ ClaimAndAcquire(v, t, pid, ttl)
    PROVE  Asked
<1>0. NoAfter.op \notin {"ack", "nack"} /\ SameOthers(jobs, jobs)
  BY DEF NoAfter, SameOthers
<1>1. CASE AcquireOr409(v, t, pid, ttl)
  <2>1. CASE Renewable(t)
    <3>1. held[t].job[1] = "execute"
      BY <2>1, HeldIsExecute DEF Renewable, Holds
    <3> QED BY <1>0, <1>1, <2>1, <3>1, RenewOthers, OpenAsked DEF AcquireOr409
  <2>2. CASE ~Renewable(t)
    BY <1>0, <1>1, <2>2, OpenAsked DEF AcquireOr409
  <2> QED BY <2>1, <2>2
<1>2. CASE ClaimAndAcquire(v, t, pid, ttl)
  <2> DEFINE c == [job |-> CurrentJob(t), ticket |-> FreshTicket(CurrentJob(t))]
  <2>1. c.job[1] = "execute"
    BY DEF CurrentJob, ExecuteJob
  <2>2. /\ Open(Acquire(v, t, pid, ttl), None, None, NoAfter)
        /\ jobs' = RenewLease(c, LeaseOf(ttl)) /\ UNCHANGED loops
    BY <1>2 DEF ClaimAndAcquire
  <2> HIDE DEF c
  <2> QED BY <1>0, <2>1, <2>2, RenewOthers, OpenAsked
<1> QED BY <1>1, <1>2

\* Every request on a promise.
LEMMA PromiseRequestAsked ==
    ASSUME TypeInv, DispatchInv, PromiseRequest PROVE Asked
BY PromiseRequestEffect, RequestAsked
   DEF PromiseRequest, PromiseCreate, Get, PromiseSettle, PromiseRegisterCallback,
       PromiseRegisterListener

\* Every request on a task.
LEMMA TaskRequestAsked ==
    ASSUME TypeInv, DispatchInv, TaskRequest PROVE Asked
<1>0. NoAfter.op \notin {"ack", "nack"} /\ SameOthers(jobs, jobs) /\ Opened
  BY TaskRequestEffect DEF NoAfter, SameOthers
<1>o. ASSUME NEW v, NEW acked, Open(v, None, acked, NoAfter), UNCHANGED <<jobs, loops>>
      PROVE  Asked
  BY <1>0, <1>o, OpenAsked
<1> PICK t \in Id :
       \/ \E data \in Creations[t], pid \in Pid, ttl \in Ttl : TaskCreate(t, data, pid, ttl)
       \/ \E version \in 0 .. MaxVersion :
             \/ \E pid \in Pid, ttl \in Ttl : TaskAcquire(t, version, pid, ttl)
             \/ TaskRelease(t, version)
             \/ \E state \in Outcomes : TaskFulfill(t, version, state)
             \/ \E awaited \in SUBSET Id : TaskSuspend(t, version, awaited)
             \/ \E p \in Id :
                   \/ \E data \in Creations[p] : TaskFenceCreate(t, version, p, data)
                   \/ \E state \in Outcomes : TaskFenceSettle(t, version, p, state)
       \/ TaskHalt(t)
       \/ TaskContinue(t)
  BY DEF TaskRequest
<1>1. ASSUME NEW data, NEW pid, NEW ttl, TaskCreate(t, data, pid, ttl) PROVE Asked
  <2> DEFINE v == Timed({t})
             last == IF now >= data.timeoutAt THEN NoAfter
                     ELSE [NoAfter EXCEPT !.op = "claim", !.task = t, !.lease = LeaseOf(ttl)]
  <2>1. last.op \notin {"ack", "nack"}
    BY DEF NoAfter
  <2> HIDE DEF last
  <2>2. \/ AcquireOr409(v, t, pid, ttl) \/ ClaimAndAcquire(v, t, pid, ttl)
        \/ Open(v, None, None, NoAfter) /\ UNCHANGED <<jobs, loops>>
        \/ Request(v)
        \/ /\ Open(CreateAcquired(v, t, data, pid, ttl, now), None, None, last)
           /\ UNCHANGED <<jobs, loops>>
    BY <1>1 DEF TaskCreate, last
  <2> HIDE DEF v
  <2> QED BY <1>0, <1>o, <2>1, <2>2, AcquisitionAsked, RequestAsked, OpenAsked
<1>2. ASSUME NEW version, NEW pid, NEW ttl, TaskAcquire(t, version, pid, ttl) PROVE Asked
  BY <1>0, <1>2, AcquisitionAsked, RequestAsked DEF TaskAcquire
<1>3. ASSUME NEW version, TaskRelease(t, version) PROVE Asked
  <2> DEFINE last == [NoAfter EXCEPT !.op = "nack", !.task = t]
  <2>1. last.op # "ack" /\ last.task = t
    BY DEF NoAfter
  <2>2. \/ Open(Unassign(Timed({t}), t), None, None, last) /\ UNCHANGED <<jobs, loops>>
        \/ Request(Timed({t}))
    BY <1>3 DEF TaskRelease
  <2> HIDE DEF last
  <2> QED BY <1>0, <2>1, <2>2, OpenAsked, RequestAsked
<1>4. ASSUME NEW version, NEW state, TaskFulfill(t, version, state) PROVE Asked
  BY <1>0, <1>4, <1>o, RequestAsked DEF TaskFulfill
<1>5. ASSUME NEW version, NEW awaited, TaskSuspend(t, version, awaited) PROVE Asked
  BY <1>0, <1>5, <1>o, RequestAsked DEF TaskSuspend
<1>6. CASE \/ TaskHalt(t) \/ TaskContinue(t)
           \/ \E version, p, x : TaskFenceCreate(t, version, p, x) \/ TaskFenceSettle(t, version, p, x)
  BY <1>0, <1>6, RequestAsked DEF TaskHalt, TaskContinue, TaskFenceCreate, TaskFenceSettle
<1> QED BY <1>1, <1>2, <1>3, <1>4, <1>5, <1>6

\* A delivery, or a timer that finds its promise pending.
LEMMA LoopDelivered ==
    ASSUME TypeInv, DispatchInv, NEW l \in Loop,
           \/ DeliverUnblock(l) \/ DeliverExecute(l)
           \/ FirePromiseTimeout(l) /\ IsPending(view.promise[loops[l].claim.job[2]])
    PROVE  Delivered(l)
<1> DEFINE claim == loops[l].claim
           t == claim.job[2]
           acks == [NoAfter EXCEPT !.op = "ack", !.claim = claim]
           hold == [NoAfter EXCEPT !.op = "hold", !.task = t, !.claim = claim]
<1>0. /\ acks.claim = claim /\ acks.op = "ack" /\ hold.op = "hold"
      /\ NoAfter.op \notin {"ack", "nack"}
  BY DEF NoAfter
<1> HIDE DEF acks, hold
<1>1. CASE DeliverUnblock(l)
  <2>1. Opened
    BY <1>1, DeliveryEffect
  <2>2. /\ loops[l].pc = "claimed" /\ claim.job[1] = "unblock"
        /\ Open(view, l, None, acks) /\ loops' = Busy(l) /\ UNCHANGED jobs
    BY <1>1 DEF DeliverUnblock, acks
  <2> QED BY <1>0, <2>1, <2>2 DEF Open, Delivered
<1>2. CASE DeliverExecute(l)
  <2>1. Opened
    BY SMTT(40), <1>2, DeliveryEffect
  <2>2. /\ loops[l].pc = "claimed" /\ claim.job[1] = "execute"
        /\ loops' = Busy(l) /\ UNCHANGED jobs
        /\ \E v : Open(v, l, None, acks) \/ Open(v, l, None, hold)
    BY ZenonT(60), <1>2 DEF DeliverExecute, acks, hold
  <2> QED BY <1>0, <2>1, <2>2 DEF Open, Delivered
<1>3. CASE FirePromiseTimeout(l) /\ IsPending(view.promise[loops[l].claim.job[2]])
  <2>1. /\ loops[l].pc = "claimed" /\ claim.job[1] = "timer"
        /\ loops' = Busy(l) /\ UNCHANGED jobs
        /\ Open(ExpirePromises(view, {t}, now), l, None, NoAfter)
    BY <1>3 DEF FirePromiseTimeout
  <2>2. claim \in Claim /\ claim.job \in Job
    BY <2>1, ClaimOfLoop DEF TypeInv
  <2>3. t \in Id /\ claim.job = TimerJob(t)
    BY <2>1, <2>2 DEF Job, TimerJob
  <2>4. Effect(ExpirePromises(view, {t}, now))
    BY <1>3, <2>1, <2>2, <2>3 DEF Effect, Firing
  <2> HIDE DEF t
  <2>5. Opened
    BY <2>1, <2>4, OpensEffect
  <2> QED BY <1>0, <2>1, <2>5 DEF Open, Delivered, t
<1> QED BY <1>1, <1>2, <1>3

\* The commit stores the transaction.
LEMMA TxnStored ==
    ASSUME TypeInv, DispatchInv,
           Commit \/ CommitAck \/ (RequestDropped /\ lock = "commit")
    PROVE  Stored
<1>0. view \in View /\ jobs \in [Job -> JobRecord] /\ owner \in Loop \cup {None}
      /\ ack \in Id \cup {None} /\ SameOthers(jobs, jobs)
  BY DEF TypeInv, TypeOK, SameOthers
<1>1. CASE Commit
  <2>1. Applied
    BY <1>1 DEF Commit, Applied, Unlock
  <2>2. jobs' = Enqueue(jobs, view.enqueue) /\ view' = [view EXCEPT !.enqueue = {}]
    BY <1>1 DEF Commit
  <2>3. view'.promise = view.promise /\ view'.enqueue = {}
    BY <1>0, <2>2 DEF View
  <2>4. UNCHANGED <<loops, owner, after>> \/ Left(TRUE)
    BY <1>1 DEF Commit, Unlock, Left
  <2> QED BY <1>0, <2>1, <2>2, <2>3, <2>4 DEF Stored
<1>2. ASSUME ack # None, held[ack] # None
      PROVE  Ack(jobs, held[ack]) \in [Job -> JobRecord] /\ SameOthers(jobs, Ack(jobs, held[ack]))
  <2>1. ack \in Id
    BY <1>0, <1>2
  <2> QED BY <1>0, <1>2, <2>1, HeldIsExecute, AckOthers, QueueOpsType
<1>3. CASE CommitAck
  <2>1. Applied
    BY <1>3 DEF CommitAck, Applied
  <2>2. /\ jobs' = Enqueue(Ack(jobs, held[ack]), view.enqueue)
        /\ view' = [view EXCEPT !.enqueue = {}] /\ ack # None /\ held[ack] # None
        /\ UNCHANGED <<loops, owner, after>>
    BY <1>3 DEF CommitAck
  <2>3. view'.promise = view.promise /\ view'.enqueue = {}
    BY <1>0, <2>2 DEF View
  <2> QED BY <1>2, <2>1, <2>2, <2>3 DEF Stored
<1>4. CASE RequestDropped /\ lock = "commit"
  <2>1. Applied
    BY <1>4 DEF RequestDropped, Applied, Unlock
  <2>2. /\ jobs' = Enqueue(Ack(jobs, held[ack]), view.enqueue)
        /\ view' = [view EXCEPT !.enqueue = {}, !.release = {}] /\ ack # None /\ held[ack] # None
        /\ owner = None /\ Unlock(FALSE)
    BY <1>4 DEF RequestDropped
  <2>3. view'.promise = view.promise /\ view'.enqueue = {}
    BY <1>0, <2>2 DEF View
  <2>4. Left(TRUE)
    BY <2>2 DEF Left, Unlock
  <2> QED BY <1>2, <2>1, <2>2, <2>3, <2>4 DEF Stored
<1> QED BY <1>1, <1>3, <1>4

\* The ends of a transaction without a result.
LEMMA TxnGivenUp ==
    ASSUME TypeInv, DispatchInv,
           \/ CommitLost \/ CommitFails \/ FinishFails \/ AfterClaimDropped
           \/ RequestDropped /\ lock # "commit"
    PROVE  GivenUp
<1>0. SameOthers(jobs, jobs)
  BY DEF SameOthers
<1>1. Committed.promise = promise /\ Committed.enqueue = {}
  BY DEF Committed
<1>2. view' = Committed /\ Left(FALSE) /\ UNCHANGED <<now, promise, task, owed>>
  BY DEF CommitLost, CommitFails, FinishFails, AfterClaimDropped, RequestDropped, Abort, Unlock,
         Left, ClaimDropped
<1>3. SameOthers(jobs, jobs')
  <2>1. CASE AfterClaimDropped
    <3> DEFINE c == [job |-> CurrentJob(after.task), ticket |-> FreshTicket(CurrentJob(after.task))]
    <3>1. c.job[1] = "execute"
      BY DEF CurrentJob, ExecuteJob
    <3>2. jobs' = RenewLease(c, after.lease)
      BY <2>1 DEF AfterClaimDropped, ClaimDropped
    <3> HIDE DEF c
    <3> QED BY <3>1, <3>2, RenewOthers
  <2>2. CASE ~AfterClaimDropped
    BY <1>0, <2>2 DEF CommitLost, CommitFails, FinishFails, RequestDropped
  <2> QED BY <2>1, <2>2
<1> QED BY <1>1, <1>2, <1>3 DEF GivenUp

\* The last work after a commit.
LEMMA TxnFinished ==
    ASSUME TypeInv, DispatchInv, TimerInv, FinishLast PROVE Finished
<1>0. SameOthers(jobs, jobs) /\ after \in After
  BY DEF SameOthers, TypeInv, TypeOK
<1>1. lock = "finish" /\ Left(TRUE) /\ UNCHANGED <<now, promise, task, owed, view>>
  BY DEF FinishLast, Unlock, Left
<1>2. SameOthers(jobs, jobs') \/ (after.op = "ack" /\ jobs' = Ack(jobs, after.claim))
  <2>1. CASE after.op = "nack"
    <3>1. jobs' = IF held[after.task] = None THEN jobs ELSE Nack(jobs, held[after.task])
      BY <2>1 DEF FinishLast
    <3>2. after.task \in Id
      BY <2>1 DEF TimerInv, AfterOK
    <3>3. ASSUME held[after.task] # None
          PROVE  SameOthers(jobs, Nack(jobs, held[after.task]))
      BY <3>2, <3>3, HeldIsExecute, AckOthers
    <3> QED BY <1>0, <3>1, <3>3
  <2>2. CASE after.op = "claim" /\ Claimable(after.task)
    <3> DEFINE c == [job |-> CurrentJob(after.task), ticket |-> FreshTicket(CurrentJob(after.task))]
    <3>1. c.job[1] = "execute"
      BY DEF CurrentJob, ExecuteJob
    <3>2. jobs' = RenewLease(c, after.lease)
      BY <2>2 DEF FinishLast
    <3> HIDE DEF c
    <3> QED BY <3>1, <3>2, RenewOthers
  <2>3. CASE \/ after.op \in {"none", "ack", "hold"} \/ (after.op = "claim" /\ ~Claimable(after.task))
    BY <1>0, <2>3 DEF FinishLast
  <2> QED BY <1>0, <2>1, <2>2, <2>3 DEF After
<1> QED BY <1>1, <1>2 DEF Finished

\* Steps that touch no promise, timer or message.
LEMMA CalmSteps ==
    ASSUME TypeInv, DispatchInv,
           \/ UNCHANGED vars \/ Tick
           \/ \E t \in Id : FinishRelease(t)
           \/ \E t \in Id, ttl \in Ttl : TaskCreateDropped(t, ttl)
           \/ \E pid \in Pid, named \in SUBSET Id : TaskHeartbeat(pid, named)
    PROVE  Calm
<1>0. now \in Nat /\ view \in View /\ SameOthers(jobs, jobs)
  BY DEF TypeInv, TypeOK, SameOthers
<1>1. CASE UNCHANGED vars \/ Tick
  BY <1>0, <1>1 DEF vars, Tick, txnVars, Calm
<1>2. ASSUME NEW t \in Id, FinishRelease(t) PROVE Calm
  <2>1. SameOthers(jobs, jobs')
    BY <1>0, <1>2, HeldIsExecute, AckOthers DEF FinishRelease
  <2>2. view'.promise = view.promise /\ view'.enqueue = view.enqueue
    BY <1>0, <1>2 DEF FinishRelease, View
  <2> QED BY <1>0, <1>2, <2>1, <2>2 DEF FinishRelease, Calm
<1>3. ASSUME NEW t \in Id, NEW ttl, TaskCreateDropped(t, ttl) PROVE Calm
  <2> DEFINE c == [job |-> CurrentJob(t), ticket |-> FreshTicket(CurrentJob(t))]
  <2>1. c.job[1] = "execute"
    BY DEF CurrentJob, ExecuteJob
  <2>2. jobs' = RenewLease(c, LeaseOf(ttl))
    BY <1>3 DEF TaskCreateDropped, ClaimDropped
  <2> HIDE DEF c
  <2>3. SameOthers(jobs, jobs')
    BY <2>1, <2>2, RenewOthers
  <2> QED BY <1>0, <1>3, <2>3 DEF TaskCreateDropped, ClaimDropped, txnVars, Calm
<1>4. ASSUME NEW pid, NEW named \in SUBSET Id, TaskHeartbeat(pid, named) PROVE Calm
  <2> DEFINE mine == {t \in named : /\ task[t].state = "acquired"
                                    /\ task[t].pid = pid /\ task[t].ttl # None}
             kept == {t \in mine : Renewable(t)}
  <2>1. \A t \in kept : held[t].job[1] = "execute"
    BY SMTT(40), HeldIsExecute DEF Renewable, Holds
  <2>2. jobs' = [j \in Job |->
                      IF \E t \in kept : held[t].job = j
                      THEN LET t == CHOOSE t \in kept : held[t].job = j
                           IN  Claimed(now + LeaseOf(task[t].ttl), held[t].ticket)
                      ELSE jobs[j]]
    BY <1>4 DEF TaskHeartbeat
  <2> HIDE DEF kept
  <2>3. SameOthers(jobs, jobs')
    BY SMTT(40), <2>1, <2>2 DEF SameOthers
  <2>4. UNCHANGED <<now, promise, view, owner, after, loops, owed>>
    BY <1>4 DEF TaskHeartbeat, txnVars
  <2> QED BY <1>0, <2>3, <2>4 DEF Calm
<1> QED BY <1>1, <1>2, <1>3, <1>4

\* Every step is of one of these kinds.
LEMMA DeliveryKinds ==
    ASSUME TypeInv, DispatchInv, TimerInv, [Next]_vars
    PROVE  \/ Asked \/ Stored \/ GivenUp \/ Finished \/ Calm \/ QueueStep
           \/ \E l \in Loop : Delivered(l)
<1>1. CASE UNCHANGED vars \/ EnvironmentStep
  BY <1>1, CalmSteps DEF EnvironmentStep, QueueStep
<1>2. CASE ClientRequest
  BY <1>2, PromiseRequestAsked, TaskRequestAsked, CalmSteps DEF ClientRequest
<1>3. CASE TxnStep
  BY <1>3, TxnStored, TxnGivenUp, TxnFinished, CalmSteps DEF TxnStep
<1>4. ASSUME NEW l \in Loop, LoopStep(l) PROVE QueueStep \/ Delivered(l)
  BY <1>4, LoopDelivered DEF LoopStep, QueueStep
<1>5. CASE FaultStep
  BY <1>5, TxnStored, TxnGivenUp, CalmSteps DEF FaultStep, DroppedStep, QueueStep
<1> QED BY <1>1, <1>2, <1>3, <1>4, <1>5 DEF Next, StoreStep

-----------------------------------------------------------------------------
(* The timers                                                              *)

\* The timer of a promise is a job of its own.
LEMMA TimerIsJob ==
    ASSUME NEW p \in Id
    PROVE  /\ TimerJob(p) \in Job /\ TimerJob(p)[1] = "timer" /\ TimerJob(p)[2] = p
           /\ \A q \in Id : TimerJob(q) = TimerJob(p) => q = p
BY DEF TimerJob, Job

\* The open transaction keeps the deadlines of the promises and their settlements.
LEMMA ViewKeeps ==
    ASSUME TypeInv, DispatchInv, ProtocolInv, NEW p \in Id, promise[p].state # "absent"
    PROVE  /\ view.promise[p].state # "absent"
           /\ view.promise[p].timeoutAt = promise[p].timeoutAt
           /\ ~IsPending(promise[p]) => view.promise[p] = promise[p]
<1>1. CASE lock = "commit"
  BY <1>1 DEF ProtocolInv, Legal, Abstract!PromiseStep, Abstract!IsPending, IsPending,
              Abstract!Settlement, Abstract!IsSettled
<1>2. CASE lock # "commit"
  <2>1. view.promise = promise
    BY <1>2 DEF DispatchInv, ViewIsCommitted, Committed
  <2> QED BY <2>1
<1> QED BY <1>1, <1>2

\* A loop that leaves the lock keeps its claim, and says that it has fired its
\* timer only when the transaction has a result.
LEMMA LeftLoop ==
    ASSUME TypeInv, NEW ok \in BOOLEAN, Left(ok), NEW k \in Loop
    PROVE  /\ k # owner => loops'[k] = loops[k]
           /\ loops'[k].pc # "idle" => /\ loops[k].pc # "idle"
                                       /\ loops'[k].claim = loops[k].claim
           /\ k = owner /\ loops'[k].pc = "emit" => ok
<1>0. loops \in [Loop -> LoopState] /\ OwnerIsBusy /\ None \notin Loop
  BY StoreAssumption DEF TypeInv, TypeOK
<1>1. CASE k # owner
  BY <1>0, <1>1 DEF Left
<1>2. CASE k = owner
  <2>1. loops'[k] = Unlocked(loops[k], ok) /\ loops[k].pc = "busy" /\ loops[k] \in LoopState
    BY <1>0, <1>2 DEF Left, OwnerIsBusy
  <2> DEFINE x == loops[k]
  <2>2. x \in [pc : {"claimed", "busy", "emit", "failed"}, claim : Claim] /\ x.pc = "busy"
    BY <2>1 DEF LoopState, IdleLoop
  <2> HIDE DEF x
  <2>3. \/ Unlocked(x, ok) = IdleLoop
        \/ Unlocked(x, ok) = [x EXCEPT !.pc = "emit"] /\ ok
        \/ Unlocked(x, ok) = [x EXCEPT !.pc = "failed"]
    BY DEF Unlocked
  <2>4. IdleLoop.pc = "idle"
    BY DEF IdleLoop
  <2>5. /\ [x EXCEPT !.pc = "emit"].claim = x.claim
        /\ [x EXCEPT !.pc = "failed"].claim = x.claim
        /\ [x EXCEPT !.pc = "failed"].pc = "failed"
    BY <2>2
  <2> QED BY <1>2, <2>1, <2>2, <2>3, <2>4, <2>5 DEF x
<1> QED BY <1>1, <1>2

\* The parts of the invariant, put together.
LEMMA TimerInvNext ==
    ASSUME \A p \in Id : TimerOnTime(p)', \A p \in Id : TimerOK(Committed, p)',
           \A p \in Id : TimerOK(view, p)', \A l \in Loop, p \in Id : TimerClaimOK(l, p)', AfterOK'
    PROVE  TimerInv'
BY DEF TimerInv

\* The timers of a transaction that is opened.
LEMMA OpenedTimers ==
    ASSUME TypeInv, DispatchInv, TimerInv, Opened, SameOthers(jobs, jobs'), NEW p \in Id
    PROVE  TimerOnTime(p)' /\ TimerOK(Committed, p)' /\ TimerOK(view, p)'
<1>1. view = Committed /\ Delivers(view') /\ UNCHANGED <<now, promise, task, owed>>
  BY EffectDelivers DEF Opened, DispatchInv, ViewIsCommitted
<1>2. jobs'[TimerJob(p)] = jobs[TimerJob(p)]
  BY TimerIsJob DEF SameOthers
<1>3. Committed' = Committed
  BY <1>1 DEF Committed
<1>4. TimerOnTime(p) /\ TimerOK(Committed, p)
  BY DEF TimerInv
<1>5. TimerOnTime(p)'
  BY <1>1, <1>2, <1>4 DEF TimerOnTime, JobExists
<1>6. TimerOK(Committed, p)'
  BY <1>1, <1>2, <1>3, <1>4 DEF TimerOK, Queued, JobExists
<1>7. TimerOK(view, p)'
  <2> DEFINE x == view.promise[p]
             y == view'.promise[p]
  <2>1. PromiseKept(view', p) \/ PromiseEnded(view', p) \/ PromiseMade(view', p)
    BY <1>1 DEF Delivers
  <2>2. \A r \in view'.enqueue : r.job = TimerJob(p) => y.state # "absent" /\ r.runAt = y.timeoutAt
    BY <1>1 DEF Delivers, PromiseMade
  <2>3. view.enqueue = {}
    BY <1>1 DEF Committed
  <2>4. IsPending(y) /\ IsExternal(y.tags) => Queued(view, TimerJob(p))'
    BY <1>1, <1>2, <1>4, <2>1, <2>3
       DEF PromiseKept, PromiseEnded, PromiseMade, TimerOK, Queued, JobExists, IsPending
  <2>5. y.state \notin {"absent", "pending"} => y.settledAt \in 0 .. now'
    BY <1>1, <1>4, <2>1 DEF PromiseKept, PromiseEnded, PromiseMade, TimerOK
  <2> QED BY <2>2, <2>4, <2>5 DEF TimerOK
<1> QED BY <1>5, <1>6, <1>7

\* A request keeps the invariant of the timers.
LEMMA AskedTimers ==
    ASSUME TypeInv, DispatchInv, TimerInv, Asked PROVE TimerInv'
<1>1. ASSUME NEW l \in Loop, NEW p \in Id PROVE TimerClaimOK(l, p)'
  <2>1. owner' # l /\ UNCHANGED <<now, promise, loops>>
    BY StoreAssumption DEF Asked, Opened
  <2> QED BY <2>1 DEF TimerInv, TimerClaimOK
<1>2. AfterOK'
  BY DEF Asked, AfterOK
<1> QED BY <1>1, <1>2, OpenedTimers, TimerInvNext DEF Asked

\* So does a delivery, and a timer that fires.
LEMMA DeliveredTimers ==
    ASSUME TypeInv, DispatchInv, TimerInv, NEW l \in Loop, Delivered(l) PROVE TimerInv'
<1>0. loops \in [Loop -> LoopState] /\ UNCHANGED <<now, promise>>
  BY DEF TypeInv, TypeOK, Delivered, Opened
<1>1. /\ loops'[l].claim = loops[l].claim /\ loops'[l].pc = "busy" /\ loops[l].pc = "claimed"
      /\ \A k \in Loop \ {l} : loops'[k] = loops[k]
  <2>1. loops[l] \in [pc : {"claimed", "busy", "emit", "failed"}, claim : Claim]
    BY <1>0 DEF Delivered, LoopState, IdleLoop
  <2> QED BY <1>0, <2>1 DEF Delivered, Busy
<1>2. ASSUME NEW k \in Loop, NEW p \in Id PROVE TimerClaimOK(k, p)'
  <2>1. CASE k # l
    <3>1. owner' # k /\ loops'[k] = loops[k]
      BY <1>1, <2>1 DEF Delivered
    <3> QED BY <1>0, <3>1 DEF TimerInv, TimerClaimOK
  <2>2. CASE k = l
    <3>1. ASSUME loops[l].claim.job = TimerJob(p) PROVE ~IsPending(view'.promise[p])
      <4> DEFINE s == [q \in {p} |-> Expired(view.promise[q])]
                 x == view.promise[p]
      <4>1. view' = SettleChain(view, s, now)
        BY <3>1, TimerIsJob DEF Delivered, ExpirePromises
      <4>2. p \in DOMAIN s /\ s[p] = Expired(x)
        OBVIOUS
      <4> HIDE DEF s
      <4>3. view'.promise[p] = [Expired(x) EXCEPT !.callbacks = {}, !.listeners = {}]
        BY <4>1, <4>2 DEF SettleChain
      <4>4. x \in StoredPromise
        BY DEF TypeInv, TypeOK, View
      <4> HIDE DEF x
      <4> QED BY <4>3, <4>4, ExpiredFields DEF IsPending
    <3> QED BY <1>0, <1>1, <2>2, <3>1 DEF TimerInv, TimerClaimOK
  <2> QED BY <2>1, <2>2
<1>3. AfterOK'
  <2>1. owner' = l /\ l # None
    BY StoreAssumption DEF Delivered
  <2> QED BY <1>1, <2>1 DEF Delivered, AfterOK
<1>4. Opened /\ SameOthers(jobs, jobs')
  BY DEF Delivered, SameOthers
<1> QED BY <1>2, <1>3, <1>4, OpenedTimers, TimerInvNext

\* A commit puts the timers of the new promises into the queue.
LEMMA StoredTimers ==
    ASSUME TypeInv, DispatchInv, ProtocolInv, TimerInv, Stored PROVE TimerInv'
<1>0. /\ promise' = view.promise /\ now' = now /\ Committed'.promise = view.promise
      /\ Committed'.enqueue = {} /\ view'.promise = view.promise /\ view'.enqueue = {}
  BY DEF Stored, Applied, Apply, Committed
<1>1. ASSUME NEW p \in Id
      PROVE  /\ \A r \in view.enqueue : r.job # TimerJob(p)
             /\ jobs'[TimerJob(p)] = jobs[TimerJob(p)]
             \/ /\ view.promise[p].state # "absent"
                /\ jobs'[TimerJob(p)] = Waiting(view.promise[p].timeoutAt)
  <2> DEFINE j == TimerJob(p)
             R == view.enqueue
  <2>1. PICK q \in [Job -> JobRecord] : SameOthers(jobs, q) /\ jobs' = Enqueue(q, R)
    BY DEF Stored
  <2>2. j \in Job /\ q[j] = jobs[j]
    BY <2>1, TimerIsJob DEF SameOthers
  <2>3. CASE \E r \in R : r.job = j
    <3> DEFINE c == CHOOSE r \in R : r.job = j
    <3>1. c \in R /\ c.job = j
      BY <2>3
    <3>2. jobs'[j] = Waiting(c.runAt)
      BY <2>1, <2>2, <2>3 DEF Enqueue
    <3> HIDE DEF c
    <3>3. view.promise[p].state # "absent" /\ c.runAt = view.promise[p].timeoutAt
      BY <3>1 DEF TimerInv, TimerOK
    <3> QED BY <3>2, <3>3
  <2>4. CASE ~\E r \in R : r.job = j
    BY <2>1, <2>2, <2>4 DEF Enqueue
  <2> QED BY <2>3, <2>4
<1>2. \A a : Waiting(a).state = "waiting" /\ Waiting(a).at = a
  BY DEF Waiting
<1>3. ASSUME NEW p \in Id PROVE TimerOnTime(p)'
  <2>1. CASE jobs'[TimerJob(p)] = Waiting(view.promise[p].timeoutAt) /\ view.promise[p].state # "absent"
    BY <1>0, <1>2, <2>1 DEF TimerOnTime
  <2>2. CASE jobs'[TimerJob(p)] = jobs[TimerJob(p)]
    BY <1>0, <2>2, ViewKeeps DEF TimerInv, TimerOnTime, JobExists
  <2> QED BY <1>1, <2>1, <2>2
<1>4. ASSUME NEW p \in Id PROVE TimerOK(Committed, p)' /\ TimerOK(view, p)'
  <2>1. TimerOK(view, p)
    BY DEF TimerInv
  <2>2. IsPending(view.promise[p]) /\ IsExternal(view.promise[p].tags) => JobExists(jobs', TimerJob(p))
    BY <1>1, <1>2, <2>1 DEF TimerOK, Queued, JobExists
  <2> QED BY <1>0, <2>1, <2>2 DEF TimerOK, Queued
<1>5. ASSUME NEW k \in Loop, NEW p \in Id, loops'[k].pc # "idle", loops'[k].claim.job = TimerJob(p)
      PROVE  /\ promise'[p].state # "absent" /\ now' >= promise'[p].timeoutAt
             /\ loops'[k].pc = "emit" => ~IsPending(promise'[p])
             /\ owner' = k => ~IsPending(view'.promise[p])
  <2>0. UNCHANGED <<loops, owner>> \/ (Left(TRUE) /\ owner' = None)
    BY DEF Stored, Left
  <2>1. loops[k].pc # "idle" /\ loops[k].claim.job = TimerJob(p)
    BY <1>5, <2>0, LeftLoop
  <2>2. /\ promise[p].state # "absent" /\ now >= promise[p].timeoutAt
        /\ loops[k].pc = "emit" => ~IsPending(promise[p])
        /\ owner = k => ~IsPending(view.promise[p])
    BY <2>1 DEF TimerInv, TimerClaimOK
  <2>3. CASE owner = k
    BY <1>0, <2>0, <2>2, <2>3, StoreAssumption, ViewKeeps
  <2>4. CASE owner # k
    <3>1. loops'[k] = loops[k] /\ owner' # k
      BY <2>0, <2>4, LeftLoop, StoreAssumption
    <3> QED BY <1>0, <2>2, <3>1, ViewKeeps
  <2> QED BY <2>3, <2>4
<1>6. AfterOK'
  <2>1. NoAfter.op = "none"
    BY DEF NoAfter
  <2> QED BY <2>1 DEF Stored, Left, TimerInv, AfterOK
<1>7. \A l \in Loop, p \in Id : TimerClaimOK(l, p)'
  BY <1>5 DEF TimerClaimOK
<1> QED BY <1>3, <1>4, <1>6, <1>7, TimerInvNext

\* A transaction that ends without a result leaves the timers as they are.
LEMMA GivenUpTimers ==
    ASSUME TypeInv, DispatchInv, TimerInv, GivenUp PROVE TimerInv'
<1>0. /\ UNCHANGED <<now, promise>> /\ Committed'.promise = promise /\ Committed'.enqueue = {}
      /\ view'.promise = promise /\ view'.enqueue = {} /\ Left(FALSE)
  BY DEF GivenUp, Committed
<1>1. ASSUME NEW p \in Id
      PROVE  TimerOnTime(p)' /\ TimerOK(Committed, p)' /\ TimerOK(view, p)'
  <2>1. jobs'[TimerJob(p)] = jobs[TimerJob(p)]
    BY TimerIsJob DEF GivenUp, SameOthers
  <2>2. TimerOnTime(p) /\ TimerOK(Committed, p)
    BY DEF TimerInv
  <2>3. Committed.promise = promise /\ Committed.enqueue = {}
    BY DEF Committed
  <2> QED BY <1>0, <2>1, <2>2, <2>3 DEF TimerOnTime, TimerOK, Queued, JobExists
<1>2. ASSUME NEW k \in Loop, NEW p \in Id PROVE TimerClaimOK(k, p)'
  <2>1. owner' # k
    BY <1>0, StoreAssumption DEF Left
  <2>2. ASSUME loops'[k].pc # "idle"
        PROVE  /\ loops[k].pc # "idle" /\ loops'[k].claim = loops[k].claim
               /\ loops'[k].pc = "emit" => loops[k].pc = "emit"
    BY <1>0, <2>2, LeftLoop
  <2> QED BY <1>0, <2>1, <2>2 DEF TimerInv, TimerClaimOK
<1>3. AfterOK'
  BY <1>0 DEF Left, NoAfter, AfterOK
<1> QED BY <1>1, <1>2, <1>3, TimerInvNext

\* The work after a commit acknowledges no timer.
LEMMA FinishedTimers ==
    ASSUME TypeInv, DispatchInv, TimerInv, Finished PROVE TimerInv'
<1>0. UNCHANGED <<now, promise, task, view>> /\ Left(TRUE) /\ view.promise = promise
  BY DEF Finished, DispatchInv, ViewIsCommitted, Committed
<1>1. ASSUME NEW p \in Id PROVE jobs'[TimerJob(p)] = jobs[TimerJob(p)]
  <2>1. CASE SameOthers(jobs, jobs')
    BY <2>1, TimerIsJob DEF SameOthers
  <2>2. CASE after.op = "ack" /\ jobs' = Ack(jobs, after.claim)
    <3>1. after.claim.job[1] # "timer"
      BY <2>2 DEF TimerInv, AfterOK
    <3>2. jobs \in [Job -> JobRecord]
      BY DEF TypeInv, TypeOK
    <3> QED BY <2>2, <3>1, <3>2, TimerIsJob DEF Ack
  <2> QED BY <2>1, <2>2 DEF Finished
<1>2. ASSUME NEW p \in Id
      PROVE  TimerOnTime(p)' /\ TimerOK(Committed, p)' /\ TimerOK(view, p)'
  <2>1. Committed' = Committed
    BY <1>0 DEF Committed
  <2>2. TimerOnTime(p) /\ TimerOK(Committed, p) /\ TimerOK(view, p)
    BY DEF TimerInv
  <2> QED BY <1>0, <1>1, <2>1, <2>2 DEF TimerOnTime, TimerOK, Queued, JobExists
<1>3. ASSUME NEW k \in Loop, NEW p \in Id PROVE TimerClaimOK(k, p)'
  <2>1. owner' # k
    BY <1>0, StoreAssumption DEF Left
  <2>2. ASSUME loops'[k].pc # "idle"
        PROVE  /\ loops[k].pc # "idle" /\ loops'[k].claim = loops[k].claim
               /\ loops'[k].pc = "emit" => loops[k].pc = "emit" \/ owner = k
    BY <1>0, <2>2, LeftLoop
  <2> QED BY <1>0, <2>1, <2>2 DEF TimerInv, TimerClaimOK
<1>4. AfterOK'
  BY <1>0 DEF Left, NoAfter, AfterOK
<1> QED BY <1>2, <1>3, <1>4, TimerInvNext

\* The timers are right later, too.
LEMMA CalmTimers ==
    ASSUME TypeInv, TypeInv', DispatchInv, TimerInv, Calm PROVE TimerInv'
<1>0. /\ UNCHANGED <<promise, loops, owner, after>> /\ now' >= now /\ now \in Nat /\ now' \in Nat
      /\ view'.promise = view.promise /\ view'.enqueue = view.enqueue
      /\ Committed'.promise = Committed.promise /\ Committed'.enqueue = Committed.enqueue
      /\ view \in View /\ promise \in [Id -> StoredPromise]
  BY DEF Calm, TypeInv, TypeOK, Committed
<1>1. ASSUME NEW p \in Id PROVE jobs'[TimerJob(p)] = jobs[TimerJob(p)]
  BY TimerIsJob DEF Calm, SameOthers
<1>t. ASSUME NEW p \in Id PROVE promise[p].timeoutAt \in Nat
  BY <1>0 DEF StoredPromise
<1>2. ASSUME NEW p \in Id PROVE TimerOnTime(p)'
  BY <1>0, <1>1, <1>t DEF TimerInv, TimerOnTime, JobExists
<1>3. ASSUME NEW v \in View, NEW w, NEW p \in Id, w.promise = v.promise, w.enqueue = v.enqueue,
             TimerOK(v, p)
      PROVE  /\ IsPending(w.promise[p]) /\ IsExternal(w.promise[p].tags) =>
                   JobExists(jobs', TimerJob(p)) \/ \E r \in w.enqueue : r.job = TimerJob(p)
             /\ \A r \in w.enqueue : r.job = TimerJob(p) =>
                   w.promise[p].state # "absent" /\ r.runAt = w.promise[p].timeoutAt
             /\ w.promise[p].state \notin {"absent", "pending"} => w.promise[p].settledAt \in 0 .. now'
  <2>1. 0 .. now \subseteq 0 .. now'
    BY <1>0
  <2> QED BY <1>1, <1>3, <2>1 DEF TimerOK, Queued, JobExists
<1>4. ASSUME NEW p \in Id PROVE TimerOK(Committed, p)'
  <2>1. Committed \in View /\ TimerOK(Committed, p)
    BY CommittedType DEF TypeInv, TimerInv
  <2> QED BY <1>0, <1>3, <2>1 DEF TimerOK, Queued
<1>5. ASSUME NEW p \in Id PROVE TimerOK(view, p)'
  <2>1. TimerOK(view, p)
    BY DEF TimerInv
  <2> QED BY <1>0, <1>3, <2>1 DEF TimerOK, Queued
<1>6. ASSUME NEW k \in Loop, NEW p \in Id PROVE TimerClaimOK(k, p)'
  BY <1>0, <1>t DEF TimerInv, TimerClaimOK
<1>7. AfterOK'
  BY <1>0 DEF TimerInv, AfterOK
<1> QED BY <1>2, <1>4, <1>5, <1>6, <1>7, TimerInvNext

\* What a step of the queue or a loop may do to a timer: nothing, claim it or take
\* it back when its time has come, or end it when its promise is settled.
TimerMoves(p) ==
    LET old == jobs[TimerJob(p)]
        new == jobs'[TimerJob(p)]
    IN  \/ new = old
        \/ /\ old.state # "none" /\ new.state # "none"
           /\ old.state = "claimed" \/ old.at <= now
        \/ new.state = "none" /\ promise[p].state # "absent" /\ ~IsPending(promise[p])

\* The steps of the queue and the loops move timers so.
LEMMA QueueStepTimer ==
    ASSUME TypeInv, DispatchInv, TimerInv, QueueStep, NEW p \in Id PROVE TimerMoves(p)
<1> DEFINE j == TimerJob(p)
<1>0. j \in Job /\ jobs \in [Job -> JobRecord]
  BY TimerIsJob DEF TypeInv, TypeOK
<1>w. \A a, k : Waiting(a).state = "waiting" /\ Claimed(a, k).state = "claimed" /\ NoJob.state = "none"
  BY DEF Waiting, Claimed, NoJob
<1>1. ASSUME NEW l \in Loop, NEW job \in Job, LoopClaim(l, job) \/ LoopClaimDropped(l, job)
      PROVE  TimerMoves(p)
  <2> DEFINE c == [job |-> job, ticket |-> FreshTicket(job)]
  <2>1. IsDue(jobs, job, now) /\ jobs' = RenewLease(c, LoopLease(l)) /\ c.job = job
    BY <1>1 DEF LoopClaim, LoopClaimDropped, ClaimDropped
  <2> HIDE DEF c
  <2>2. jobs' = [jobs EXCEPT ![job] = Claimed(now + LoopLease(l), c.ticket)]
    BY <2>1 DEF RenewLease
  <2> QED BY <1>0, <1>w, <2>1, <2>2 DEF IsDue, TimerMoves
<1>2. ASSUME NEW l \in Loop, LoopEmit(l) PROVE TimerMoves(p)
  <2>1. \/ jobs' = jobs
        \/ loops[l].pc = "emit" /\ jobs' = Ack(jobs, loops[l].claim)
    BY <1>2 DEF LoopEmit
  <2>2. CASE loops[l].pc = "emit" /\ jobs' = Ack(jobs, loops[l].claim)
    <3>1. CASE loops[l].claim.job = j
      <4>1. promise[p].state # "absent" /\ ~IsPending(promise[p])
        BY <2>2, <3>1 DEF TimerInv, TimerClaimOK
      <4>2. jobs'[j] = jobs[j] \/ jobs'[j] = NoJob
        BY <1>0, <2>2 DEF Ack
      <4> QED BY <1>w, <4>1, <4>2 DEF TimerMoves
    <3>2. CASE loops[l].claim.job # j
      BY <1>0, <2>2, <3>2 DEF Ack, TimerMoves
    <3> QED BY <3>1, <3>2
  <2> QED BY <2>1, <2>2 DEF TimerMoves
<1>3. ASSUME NEW l \in Loop, WorkerNack(l) PROVE TimerMoves(p)
  <2>1. jobs' = Nack(jobs, loops[l].claim)
    BY <1>3 DEF WorkerNack
  <2> QED BY <1>0, <1>w, <2>1 DEF Nack, IsCurrent, TimerMoves
<1>4. ASSUME NEW l \in Loop, FirePromiseTimeout(l), ~IsPending(view.promise[loops[l].claim.job[2]])
      PROVE  TimerMoves(p)
  BY <1>4 DEF FirePromiseTimeout, TimerMoves
<1>5. ASSUME NEW job \in Job, Reap(job) PROVE TimerMoves(p)
  BY <1>0, <1>5, <1>w DEF Reap, LeaseEnded, Requeue, TimerMoves
<1>6. CASE Crash
  BY <1>0, <1>6, <1>w DEF Crash, Reopen, TimerMoves
<1> QED BY <1>1, <1>2, <1>3, <1>4, <1>5, <1>6 DEF QueueStep

\* What such a step does to the loops: a loop gets the claim of a due job, or says
\* that its timer has fired when the promise is settled, or goes on with its claim.
LEMMA QueueStepLoop ==
    ASSUME TypeInv, DispatchInv, TimerInv, QueueStep, NEW k \in Loop, loops'[k].pc # "idle"
    PROVE  \/ loops'[k] = loops[k]
           \/ /\ loops[k].pc = "idle" /\ loops'[k].pc = "claimed"
              /\ loops'[k].claim.job \in Job /\ IsDue(jobs, loops'[k].claim.job, now)
           \/ /\ loops[k].pc = "claimed" /\ loops'[k].claim = loops[k].claim
              /\ loops[k].claim.job[1] = "timer"
              /\ ~IsPending(promise[loops[k].claim.job[2]])
<1>0. loops \in [Loop -> LoopState] /\ IdleLoop.pc = "idle"
  BY DEF TypeInv, TypeOK, IdleLoop
<1>1. ASSUME NEW l \in Loop, NEW job \in Job, LoopClaim(l, job)
      PROVE  \/ loops'[k] = loops[k]
             \/ /\ loops[k].pc = "idle" /\ loops'[k].pc = "claimed"
                /\ loops'[k].claim.job \in Job /\ IsDue(jobs, loops'[k].claim.job, now)
  <2> DEFINE c == [job |-> job, ticket |-> FreshTicket(job)]
  <2>1. /\ loops[l].pc = "idle" /\ IsDue(jobs, job, now)
        /\ loops' = [loops EXCEPT ![l] = [pc |-> "claimed", claim |-> c]] /\ c.job = job
    BY <1>1 DEF LoopClaim
  <2> HIDE DEF c
  <2> QED BY <1>0, <2>1
<1>2. ASSUME NEW l \in Loop, LoopEmit(l) \/ WorkerNack(l) PROVE loops'[k] = loops[k]
  BY <1>0, <1>2 DEF LoopEmit, WorkerNack
<1>3. ASSUME NEW l \in Loop, FirePromiseTimeout(l), ~IsPending(view.promise[loops[l].claim.job[2]])
      PROVE  \/ loops'[k] = loops[k]
             \/ /\ loops[k].pc = "claimed" /\ loops'[k].claim = loops[k].claim
                /\ loops[k].claim.job[1] = "timer"
                /\ ~IsPending(promise[loops[k].claim.job[2]])
  <2>1. /\ loops[l].pc = "claimed" /\ loops[l].claim.job[1] = "timer" /\ lock = "free"
        /\ loops' = [loops EXCEPT ![l].pc = "emit"]
    BY <1>3 DEF FirePromiseTimeout
  <2>2. view.promise = promise
    BY <2>1, FreeView
  <2>3. loops[l] \in [pc : {"claimed", "busy", "emit", "failed"}, claim : Claim]
    BY <1>0, <2>1 DEF LoopState, IdleLoop
  <2>4. loops'[l].claim = loops[l].claim /\ \A m \in Loop \ {l} : loops'[m] = loops[m]
    BY <1>0, <2>1, <2>3
  <2> QED BY <1>3, <2>1, <2>2, <2>4
<1>4. ASSUME \/ \E job \in Job : Reap(job)
             \/ \E l \in Loop, job \in Job : LoopClaimDropped(l, job)
      PROVE  loops' = loops
  BY <1>4 DEF Reap, LoopClaimDropped
<1>5. CASE Crash
  BY <1>0, <1>5 DEF Crash
<1> QED BY <1>1, <1>2, <1>3, <1>4, <1>5 DEF QueueStep

\* No promise and no transaction changes, except that a crash ends it.
LEMMA QueueStepRest ==
    ASSUME TypeInv, DispatchInv, QueueStep
    PROVE  /\ UNCHANGED <<now, promise, task>>
           /\ \/ /\ UNCHANGED <<view, owner, after>>
                 /\ \A l \in Loop : owner = l => loops'[l] = loops[l]
              \/ view' = Committed /\ owner' = None /\ after' = NoAfter
<1>0. loops \in [Loop -> LoopState] /\ OwnerIsBusy /\ None \notin Loop
  BY StoreAssumption DEF TypeInv, TypeOK
<1>1. ASSUME NEW l \in Loop, NEW job \in Job, LoopClaim(l, job) \/ LoopClaimDropped(l, job)
      PROVE  /\ UNCHANGED <<now, promise, task, view, owner, after>>
             /\ \A m \in Loop : owner = m => loops'[m] = loops[m]
  BY <1>0, <1>1 DEF LoopClaim, LoopClaimDropped, ClaimDropped, txnVars, OwnerIsBusy
<1>2. ASSUME NEW l \in Loop, LoopEmit(l) \/ WorkerNack(l)
      PROVE  /\ UNCHANGED <<now, promise, task, view, owner, after>>
             /\ \A m \in Loop : owner = m => loops'[m] = loops[m]
  BY <1>0, <1>2 DEF LoopEmit, WorkerNack, txnVars, OwnerIsBusy
<1>3. ASSUME NEW l \in Loop, FirePromiseTimeout(l), ~IsPending(view.promise[loops[l].claim.job[2]])
      PROVE  /\ UNCHANGED <<now, promise, task, view, owner, after>>
             /\ \A m \in Loop : owner = m => loops'[m] = loops[m]
  BY <1>0, <1>3 DEF FirePromiseTimeout, txnVars, OwnerIsBusy
<1>4. ASSUME NEW job \in Job, Reap(job)
      PROVE  UNCHANGED <<now, promise, task, view, owner, after, loops>>
  BY <1>4 DEF Reap, txnVars
<1>5. CASE Crash
  BY <1>5 DEF Crash
<1> QED BY <1>1, <1>2, <1>3, <1>4, <1>5 DEF QueueStep

\* The steps of the queue and the loops keep the invariant of the timers.
LEMMA QueueStepTimers ==
    ASSUME TypeInv, DispatchInv, ProtocolInv, TimerInv, QueueStep PROVE TimerInv'
<1>0. /\ UNCHANGED <<now, promise, task>>
      /\ \/ /\ UNCHANGED <<view, owner, after>>
            /\ \A l \in Loop : owner = l => loops'[l] = loops[l]
         \/ view' = Committed /\ owner' = None /\ after' = NoAfter
      /\ now \in Nat /\ None \notin Loop
  BY QueueStepRest, StoreAssumption DEF TypeInv, TypeOK
<1>1. Committed' = Committed
  BY <1>0 DEF Committed
<1>2. ASSUME NEW p \in Id PROVE TimerOnTime(p)'
  <2>1. TimerMoves(p) /\ TimerOnTime(p)
    BY QueueStepTimer DEF TimerInv
  <2>2. promise[p].timeoutAt \in Nat /\ jobs[TimerJob(p)].at \in Nat
    BY TimerIsJob DEF TypeInv, TypeOK, StoredPromise, JobRecord
  <2> QED BY <1>0, <2>1, <2>2 DEF TimerMoves, TimerOnTime, JobExists
<1>3. ASSUME NEW v, NEW p \in Id, TimerOK(v, p),
             promise[p].state # "absent" /\ ~IsPending(promise[p]) => ~IsPending(v.promise[p])
      PROVE  /\ IsPending(v.promise[p]) /\ IsExternal(v.promise[p].tags) =>
                   JobExists(jobs', TimerJob(p)) \/ \E r \in v.enqueue : r.job = TimerJob(p)
             /\ \A r \in v.enqueue : r.job = TimerJob(p) =>
                   v.promise[p].state # "absent" /\ r.runAt = v.promise[p].timeoutAt
             /\ v.promise[p].state \notin {"absent", "pending"} => v.promise[p].settledAt \in 0 .. now
  <2>1. TimerMoves(p)
    BY QueueStepTimer
  <2> QED BY <1>3, <2>1 DEF TimerMoves, TimerOK, Queued, JobExists
<1>4. ASSUME NEW p \in Id PROVE TimerOK(Committed, p)'
  <2>1. TimerOK(Committed, p) /\ Committed.promise = promise
    BY DEF TimerInv, Committed
  <2> QED BY <1>0, <1>1, <1>3, <2>1 DEF TimerOK, Queued
<1>5. ASSUME NEW p \in Id PROVE TimerOK(view, p)'
  <2>1. CASE view' = view
    <3>1. TimerOK(view, p)
      BY DEF TimerInv
    <3>2. promise[p].state # "absent" /\ ~IsPending(promise[p]) => ~IsPending(view.promise[p])
      BY ViewKeeps
    <3> QED BY <1>0, <1>3, <2>1, <3>1, <3>2 DEF TimerOK, Queued
  <2>2. CASE view' = Committed
    BY <1>0, <1>1, <1>4, <2>2 DEF TimerOK, Queued
  <2> QED BY <1>0, <2>1, <2>2
<1>6. ASSUME NEW k \in Loop, NEW p \in Id, loops'[k].pc # "idle", loops'[k].claim.job = TimerJob(p)
      PROVE  /\ promise[p].state # "absent" /\ now >= promise[p].timeoutAt
             /\ loops'[k].pc = "emit" => ~IsPending(promise[p])
  <2>1. CASE loops'[k] = loops[k]
    BY <1>6, <2>1 DEF TimerInv, TimerClaimOK
  <2>2. CASE loops'[k].pc = "claimed" /\ IsDue(jobs, loops'[k].claim.job, now)
    <3>1. TimerOnTime(p) /\ jobs[TimerJob(p)].state = "waiting" /\ jobs[TimerJob(p)].at <= now
      BY <1>6, <2>2 DEF TimerInv, IsDue
    <3> QED BY <2>2, <3>1 DEF TimerOnTime, JobExists
  <2>3. CASE /\ loops[k].pc = "claimed" /\ loops'[k].claim = loops[k].claim
             /\ ~IsPending(promise[loops[k].claim.job[2]])
    BY <1>6, <2>3, TimerIsJob DEF TimerInv, TimerClaimOK
  <2> QED BY <1>6, <2>1, <2>2, <2>3, QueueStepLoop
<1>7. ASSUME NEW k \in Loop, NEW p \in Id PROVE TimerClaimOK(k, p)'
  <2>1. ASSUME owner' = k, loops'[k].pc # "idle", loops'[k].claim.job = TimerJob(p)
        PROVE  ~IsPending(view'.promise[p])
    BY <1>0, <2>1 DEF TimerInv, TimerClaimOK
  <2> QED BY <1>0, <1>6, <2>1 DEF TimerClaimOK
<1>8. AfterOK'
  <2>1. NoAfter.op = "none" /\ owner \in Loop \cup {None}
    BY DEF NoAfter, TypeInv, TypeOK
  <2> QED BY <1>0, <2>1 DEF TimerInv, AfterOK
<1> QED BY <1>2, <1>4, <1>5, <1>7, <1>8, TimerInvNext

\* The empty store has no timers.
LEMMA InitTimers == Init => TimerInv
<1> SUFFICES ASSUME Init PROVE TimerInv
  OBVIOUS
<1>1. /\ view = Committed /\ Committed.enqueue = {} /\ Committed.promise = promise
      /\ after.op = "none"
  BY DEF Init, Committed, NoAfter
<1>2. ASSUME NEW p \in Id PROVE jobs[TimerJob(p)].state = "none" /\ promise[p].state = "absent"
  BY TimerIsJob DEF Init, NoJob, NoPromise
<1>3. \A l \in Loop : loops[l].pc = "idle"
  BY DEF Init, IdleLoop
<1> QED BY <1>1, <1>2, <1>3
        DEF TimerInv, TimerOnTime, TimerOK, TimerClaimOK, AfterOK, JobExists, IsPending

\* The invariant of the timers is inductive, given the others.
LEMMA TimerStep ==
    TypeInv /\ TypeInv' /\ DispatchInv /\ ProtocolInv /\ TimerInv /\ [Next]_vars => TimerInv'
BY DeliveryKinds, AskedTimers, DeliveredTimers, StoredTimers, GivenUpTimers, FinishedTimers,
   CalmTimers, QueueStepTimers

\* The inductive invariant: every timer is set for its promise's deadline, claimed
\* after it, and ended when the promise is settled.
THEOREM TimerInvariant == Spec => []TimerInv
BY InitType, TypeInvStep, DispatchInvariant, ProtocolInvariant, InitTimers, TimerStep, PTL DEF Spec

\* The timer of a pending promise that a task can await is never lost: not by a
\* failed commit, a lost claim, a timer that could not be applied or a crash.
THEOREM TimerIsNotLost == Spec => []TimerNotLost
<1>1. TimerInv => TimerNotLost
  BY DEF TimerInv, TimerOK, TimerNotLost, Queued, Committed, IsPending
<1> QED BY <1>1, TimerInvariant, PTL

\* A client settles before the deadline, and the deadline settles at the deadline.
InTime(p) ==
    promise[p].state \notin {"absent", "pending"} =>
        \/ promise[p].settledAt < promise[p].timeoutAt
        \/ /\ promise[p].settledAt = promise[p].timeoutAt
           /\ promise[p].state = TimeoutState(promise[p].tags)

\* Every commit is in time.
LEMMA InTimeStep ==
    ASSUME TypeInv, DispatchInv, ProtocolInv, [Next]_vars, NEW p \in Id, InTime(p)
    PROVE  InTime(p)'
<1>1. CASE Opened \/ Rested
  BY <1>1 DEF Opened, Rested, InTime
<1>2. CASE Applied
  <2>1. Abstract!PromiseStep(promise[p], promise'[p])
    BY <1>2 DEF Applied, Apply, ProtocolInv, Legal
  <2> QED BY <2>1 DEF InTime, Abstract!PromiseStep, Abstract!Settlement, Abstract!IsPending,
                Abstract!IsSettled, Abstract!TimeoutState, TimeoutState
<1> QED BY <1>1, <1>2, StepKinds

\* The deadline wins: no settlement comes after it, none at it but the deadline's
\* own, and none is recorded at a time that has not come.
THEOREM DeadlineIsKept == Spec => []DeadlineWins
<1> DEFINE I == \A p \in Id : InTime(p)
<1>1. Init => I
  BY DEF Init, NoPromise, InTime
<1>2. TypeInv /\ DispatchInv /\ ProtocolInv /\ I /\ [Next]_vars => I'
  BY InTimeStep
<1>3. TypeInv /\ TimerInv /\ I => DeadlineWins
  <2> SUFFICES ASSUME TypeInv, TimerInv, I, NEW p \in Id,
                      promise[p].state \notin {"absent", "pending"}
               PROVE  promise[p].settledAt <= now /\ InTime(p)
    BY DEF DeadlineWins, InTime
  <2>1. promise[p].settledAt \in 0 .. now /\ now \in Nat
    BY DEF TimerInv, TimerOK, Committed, TypeInv, TypeOK
  <2> QED BY <2>1
<1> HIDE DEF I
<1>4. Spec => []I
  BY <1>1, <1>2, InitType, TypeInvStep, DispatchInvariant, ProtocolInvariant, PTL DEF Spec
<1> QED BY <1>3, <1>4, InitType, TypeInvStep, TimerInvariant, PTL DEF Spec

-----------------------------------------------------------------------------
(* The listeners                                                           *)

\* The message to a listener is a job of its own.
LEMMA UnblockIsJob ==
    ASSUME NEW p \in Id, NEW a \in Address
    PROVE  /\ UnblockJob(p, a) \in Job /\ UnblockJob(p, a)[1] = "unblock"
           /\ UnblockJob(p, a)[2] = p /\ UnblockJob(p, a)[3] = a
BY DEF UnblockJob, Job

\* No loop forgets a message it is about to pass on.
Remembers == \A k \in Loop : loops[k].pc = "emit" => loops'[k] = loops[k]

\* A message that is on its way stays so.
Carried(p, a) ==
    <<p, a>> \in owed' =>
        /\ JobExists(jobs, UnblockJob(p, a)) =>
              JobExists(jobs', UnblockJob(p, a)) \/ Emitting(UnblockJob(p, a))'
        /\ Emitting(UnblockJob(p, a)) => Emitting(UnblockJob(p, a))'

\* It does when no loop forgets it and an acknowledgement hands it to a loop.
LEMMA RememberCarries ==
    ASSUME Remembers, NEW p \in Id, NEW a \in Address,
           JobExists(jobs, UnblockJob(p, a)) =>
              JobExists(jobs', UnblockJob(p, a)) \/ Emitting(UnblockJob(p, a))'
    PROVE  Carried(p, a)
BY DEF Remembers, Carried, Emitting

\* A step that leaves the promises alone, carries the messages and makes the view
\* what it was, or the committed records, keeps the invariant of the listeners.
LEMMA CarriedListeners ==
    ASSUME ListenerInv, UNCHANGED promise, owed' \subseteq owed,
           \A p \in Id, a \in Address : Carried(p, a),
           \/ view'.promise = view.promise /\ view'.enqueue = view.enqueue
           \/ view'.promise = promise /\ view'.enqueue = {}
    PROVE  ListenerInv'
<1> SUFFICES ASSUME NEW p \in Id, NEW a \in Address
             PROVE  ListenerOK(Committed, p, a)' /\ ListenerOK(view, p, a)'
  BY DEF ListenerInv
<1>1. /\ Committed'.promise = promise /\ Committed'.enqueue = {}
      /\ Committed.promise = promise /\ Committed.enqueue = {}
  BY DEF Committed
<1>2. ListenerOK(Committed, p, a) /\ ListenerOK(view, p, a) /\ Carried(p, a)
  BY DEF ListenerInv
<1> QED BY <1>1, <1>2 DEF ListenerOK, Queued, Carried

\* A transaction that is opened keeps it, too.
LEMMA OpenedListeners ==
    ASSUME TypeInv, DispatchInv, TimerInv, ListenerInv, Opened, SameOthers(jobs, jobs'), Remembers
    PROVE  ListenerInv'
<1> SUFFICES ASSUME NEW p \in Id, NEW a \in Address
             PROVE  ListenerOK(Committed, p, a)' /\ ListenerOK(view, p, a)'
  BY DEF ListenerInv
<1> DEFINE x == view.promise[p]
           y == view'.promise[p]
<1>1. view = Committed /\ Delivers(view') /\ UNCHANGED <<promise, task, owed>>
  BY EffectDelivers DEF Opened, DispatchInv, ViewIsCommitted
<1>2. jobs'[UnblockJob(p, a)] = jobs[UnblockJob(p, a)]
  BY UnblockIsJob DEF SameOthers
<1>3. ListenerOK(Committed, p, a) /\ Committed' = Committed /\ view.enqueue = {}
  BY <1>1 DEF ListenerInv, Committed
<1>4. Emitting(UnblockJob(p, a)) => Emitting(UnblockJob(p, a))'
  BY DEF Remembers, Emitting
<1>5. ListenerOK(Committed, p, a)'
  BY <1>1, <1>2, <1>3, <1>4 DEF ListenerOK, Queued, JobExists
<1>6. PromiseKept(view', p) \/ PromiseEnded(view', p) \/ PromiseMade(view', p)
  BY <1>1 DEF Delivers
<1>7. a \in y.listeners => IsPending(y)
  BY <1>1, <1>3, <1>6 DEF PromiseKept, PromiseEnded, PromiseMade, ListenerOK, IsPending
<1>8. ASSUME <<p, a>> \in owed'
      PROVE  a \in y.listeners \/ Queued(view, UnblockJob(p, a))' \/ Emitting(UnblockJob(p, a))'
  <2>1. a \in x.listeners \/ JobExists(jobs, UnblockJob(p, a)) \/ Emitting(UnblockJob(p, a))
    BY <1>1, <1>3, <1>8 DEF ListenerOK, Queued
  <2>2. CASE a \in x.listeners
    <3>1. IsPending(x)
      BY <1>1, <1>3, <2>2 DEF ListenerOK
    <3> QED BY <1>6, <2>2, <3>1 DEF PromiseKept, PromiseEnded, PromiseMade, Queued, IsPending
  <2> QED BY <1>2, <1>4, <2>1, <2>2 DEF Queued, JobExists
<1> QED BY <1>5, <1>7, <1>8 DEF ListenerOK

\* So does its commit, which owes every registered listener a message.
LEMMA StoredListeners ==
    ASSUME ListenerInv, Stored, Remembers PROVE ListenerInv'
<1> SUFFICES ASSUME NEW p \in Id, NEW a \in Address
             PROVE  ListenerOK(Committed, p, a)' /\ ListenerOK(view, p, a)'
  BY DEF ListenerInv
<1> DEFINE j == UnblockJob(p, a)
<1>1. /\ Committed'.promise = view.promise /\ Committed'.enqueue = {}
      /\ view'.promise = view.promise /\ view'.enqueue = {}
  BY DEF Stored, Applied, Apply, Committed
<1>2. <<p, a>> \in owed' => <<p, a>> \in owed \/ a \in view.promise[p].listeners
  BY DEF Stored, Applied, Apply
<1>3. Queued(view, j) => JobExists(jobs', j)
  <2>1. PICK q \in [Job -> JobRecord] : SameOthers(jobs, q) /\ jobs' = Enqueue(q, view.enqueue)
    BY DEF Stored
  <2>2. j \in Job /\ q[j] = jobs[j]
    BY <2>1, UnblockIsJob DEF SameOthers
  <2> HIDE DEF j
  <2> QED BY <2>1, <2>2, EnqueueAdds DEF Queued, JobExists
<1>4. Emitting(j) => Emitting(j)'
  BY DEF Remembers, Emitting
<1>5. ListenerOK(view, p, a)
  BY DEF ListenerInv
<1> HIDE DEF j
<1>6. Queued(view, j)' <=> JobExists(jobs', j) \/ \E r \in view'.enqueue : r.job = j
  BY DEF Queued
<1>7. Queued(Committed, j)' <=> JobExists(jobs', j) \/ \E r \in Committed'.enqueue : r.job = j
  BY DEF Queued
<1> QED BY <1>1, <1>2, <1>3, <1>4, <1>5, <1>6, <1>7 DEF ListenerOK, j

\* A loop that leaves the lock forgets nothing.
LEMMA LeftRemembers ==
    ASSUME TypeInv, NEW ok \in BOOLEAN, Left(ok) PROVE Remembers
<1>1. ASSUME NEW k \in Loop, loops[k].pc = "emit" PROVE k # owner
  BY <1>1, StoreAssumption DEF TypeInv, OwnerIsBusy
<1> QED BY <1>1, LeftLoop DEF Remembers

\* A message is acknowledged by the loop that passes it on next.
LEMMA FinishedListeners ==
    ASSUME TypeInv, DispatchInv, TimerInv, ListenerInv, Finished PROVE ListenerInv'
<1>1. Remembers
  BY LeftRemembers DEF Finished
<1>2. ASSUME NEW p \in Id, NEW a \in Address PROVE Carried(p, a)
  <2> DEFINE j == UnblockJob(p, a)
  <2>0. j \in Job /\ j[1] = "unblock" /\ jobs \in [Job -> JobRecord]
    BY UnblockIsJob DEF TypeInv, TypeOK
  <2> HIDE DEF j
  <2>1. JobExists(jobs, j) => JobExists(jobs', j) \/ Emitting(j)'
    <3>1. CASE SameOthers(jobs, jobs')
      BY <2>0, <3>1 DEF SameOthers, JobExists
    <3>2. CASE after.op = "ack" /\ jobs' = Ack(jobs, after.claim) /\ after.claim.job # j
      BY <2>0, <3>2, AckEnds
    <3>3. CASE after.op = "ack" /\ after.claim.job = j
      <4>1. owner \in Loop /\ owner # None /\ loops[owner].claim.job = j /\ loops[owner].pc = "busy"
        BY <3>3, StoreAssumption DEF TimerInv, AfterOK, TypeInv, TypeOK, OwnerIsBusy
      <4> DEFINE x == loops[owner]
      <4>2. x \in [pc : {"claimed", "busy", "emit", "failed"}, claim : Claim]
        BY <4>1 DEF TypeInv, TypeOK, LoopState, IdleLoop
      <4>3. loops'[owner] = Unlocked(x, TRUE)
        BY <4>1 DEF Finished, Left, TypeInv, TypeOK
      <4>4. x.claim.job[1] = "unblock" /\ x.claim.job = j
        BY <2>0, <4>1
      <4> HIDE DEF x
      <4>5. Unlocked(x, TRUE) = [x EXCEPT !.pc = "emit"]
        BY <4>4 DEF Unlocked
      <4>6. loops'[owner].pc = "emit" /\ loops'[owner].claim.job = j
        BY <4>2, <4>3, <4>4, <4>5
      <4> QED BY <4>1, <4>6 DEF Emitting
    <3> QED BY <3>1, <3>2, <3>3 DEF Finished
  <2> QED BY <1>1, <2>1, RememberCarries DEF j
<1> QED BY <1>2, CarriedListeners DEF Finished

\* The steps of the queue and the loops lose no message, unless the process dies.
LEMMA QueueStepListeners ==
    ASSUME "crash" \notin Faults, TypeInv, DispatchInv, TimerInv, ListenerInv, QueueStep
    PROVE  ListenerInv'
<1>0. /\ UNCHANGED <<promise, view>> /\ jobs \in [Job -> JobRecord]
      /\ loops \in [Loop -> LoopState]
  BY ZenonT(60)
     DEF QueueStep, Crash, LoopClaim, LoopClaimDropped, ClaimDropped, LoopEmit, WorkerNack,
         FirePromiseTimeout, Reap, txnVars, TypeInv, TypeOK
<1>w. \A a, k : Waiting(a).state # "none" /\ Claimed(a, k).state # "none"
  BY DEF Waiting, Claimed
<1>1. ASSUME \A j \in Job : JobExists(jobs, j) => JobExists(jobs', j), Remembers, owed' = owed
      PROVE  ListenerInv'
  <2>1. \A p \in Id, a \in Address : Carried(p, a)
    BY <1>1, UnblockIsJob, RememberCarries
  <2> QED BY <1>0, <1>1, <2>1, CarriedListeners
<1>2. ASSUME NEW l \in Loop, NEW job \in Job, LoopClaim(l, job) \/ LoopClaimDropped(l, job)
      PROVE  ListenerInv'
  <2> DEFINE c == [job |-> job, ticket |-> FreshTicket(job)]
             e == Claimed(now + LoopLease(l), c.ticket)
  <2>1. jobs' = [jobs EXCEPT ![job] = e]
    BY <1>2 DEF LoopClaim, LoopClaimDropped, ClaimDropped, RenewLease
  <2>2. e.state # "none"
    BY <1>w
  <2> HIDE DEF e
  <2>3. \A j \in Job : JobExists(jobs, j) => JobExists(jobs', j)
    BY <1>0, <2>1, <2>2 DEF JobExists
  <2>4. Remembers /\ owed' = owed
    BY <1>0, <1>2 DEF Remembers, LoopClaim, LoopClaimDropped, ClaimDropped
  <2> QED BY <1>1, <2>3, <2>4
<1>3. ASSUME NEW l \in Loop, LoopEmit(l) PROVE ListenerInv'
  <2> DEFINE m == loops[l].claim.job
  <2>1. loops[l].pc = "emit" /\ \A k \in Loop \ {l} : loops'[k] = loops[k]
    BY <1>0, <1>3 DEF LoopEmit
  <2>2. ASSUME NEW p \in Id, NEW a \in Address PROVE Carried(p, a)
    <3> DEFINE j == UnblockJob(p, a)
    <3>0. j \in Job /\ j[1] = "unblock" /\ j[2] = p /\ j[3] = a
      BY UnblockIsJob
    <3> HIDE DEF j
    <3>1. CASE m = j
      <4>1. <<p, a>> \notin owed'
        BY <1>3, <3>0, <3>1 DEF LoopEmit
      <4> QED BY <4>1 DEF Carried
    <3>2. CASE m # j
      <4>1. JobExists(jobs, j) => JobExists(jobs', j)
        BY <1>0, <1>3, <3>0, <3>2, AckEnds DEF LoopEmit
      <4>2. Emitting(j) => Emitting(j)'
        BY <2>1, <3>2 DEF Emitting
      <4> QED BY <4>1, <4>2 DEF Carried, j
    <3> QED BY <3>1, <3>2
  <2>3. owed' \subseteq owed
    BY <1>3 DEF LoopEmit
  <2> QED BY <1>0, <2>2, <2>3, CarriedListeners
<1>4. ASSUME NEW l \in Loop, WorkerNack(l) PROVE ListenerInv'
  <2>1. jobs' = Nack(jobs, loops[l].claim) /\ owed' = owed
    BY <1>4 DEF WorkerNack
  <2>2. \A j \in Job : JobExists(jobs, j) => JobExists(jobs', j)
    BY <1>0, <1>w, <2>1 DEF JobExists, Nack
  <2>3. Remembers
    BY <1>0, <1>4 DEF Remembers, WorkerNack
  <2> QED BY <1>1, <2>1, <2>2, <2>3
<1>5. ASSUME NEW l \in Loop, FirePromiseTimeout(l), ~IsPending(view.promise[loops[l].claim.job[2]])
      PROVE  ListenerInv'
  <2>1. jobs' = jobs /\ owed' = owed /\ Remembers
    BY <1>0, <1>5 DEF FirePromiseTimeout, Remembers
  <2> QED BY <1>1, <2>1
<1>6. ASSUME NEW job \in Job, Reap(job) PROVE ListenerInv'
  <2>1. \A j \in Job : JobExists(jobs, j) => JobExists(jobs', j)
    BY <1>0, <1>6, <1>w DEF Reap, Requeue, JobExists
  <2>2. Remembers /\ owed' = owed
    BY <1>6 DEF Reap, Remembers
  <2> QED BY <1>1, <2>1, <2>2
<1> QED BY <1>2, <1>3, <1>4, <1>5, <1>6 DEF QueueStep, Crash

\* The invariant of the listeners is inductive while no process dies.
LEMMA ListenerStep ==
    ASSUME "crash" \notin Faults
    PROVE  TypeInv /\ DispatchInv /\ TimerInv /\ ListenerInv /\ [Next]_vars => ListenerInv'
<1> SUFFICES ASSUME TypeInv, DispatchInv, TimerInv, ListenerInv, [Next]_vars PROVE ListenerInv'
  OBVIOUS
<1>1. ASSUME SameOthers(jobs, jobs'), Remembers, UNCHANGED <<promise, owed>>,
             \/ view'.promise = view.promise /\ view'.enqueue = view.enqueue
             \/ view'.promise = promise /\ view'.enqueue = {}
      PROVE  ListenerInv'
  <2>1. ASSUME NEW p \in Id, NEW a \in Address PROVE Carried(p, a)
    <3>1. jobs'[UnblockJob(p, a)] = jobs[UnblockJob(p, a)]
      BY <1>1, UnblockIsJob DEF SameOthers
    <3> QED BY <1>1, <3>1, RememberCarries DEF JobExists
  <2> QED BY <1>1, <2>1, CarriedListeners
<1>2. CASE Asked
  BY <1>2, OpenedListeners DEF Asked, Remembers
<1>3. ASSUME NEW l \in Loop, Delivered(l) PROVE ListenerInv'
  <2>1. Remembers
    BY <1>3 DEF Delivered, Busy, Remembers, TypeInv, TypeOK
  <2>2. SameOthers(jobs, jobs') /\ Opened
    BY <1>3 DEF Delivered, SameOthers
  <2> QED BY <2>1, <2>2, OpenedListeners
<1>4. CASE Stored
  <2>1. Remembers
    BY <1>4, LeftRemembers DEF Stored, Remembers
  <2> QED BY <1>4, <2>1, StoredListeners
<1>5. CASE GivenUp
  BY <1>1, <1>5, LeftRemembers DEF GivenUp
<1>6. CASE Calm
  BY <1>1, <1>6 DEF Calm, Remembers
<1> QED BY <1>2, <1>3, <1>4, <1>5, <1>6, FinishedListeners, QueueStepListeners, DeliveryKinds

\* No listener is forgotten while no process dies: whatever commit, delivery or
\* acknowledgement fails, its message is in the queue, or with a loop that passes
\* it on.
THEOREM ListenerIsNotForgotten ==
    ASSUME "crash" \notin Faults PROVE Spec => []ListenerNotForgotten
<1>1. Init => ListenerInv
  BY DEF Init, ListenerInv, ListenerOK, Committed, NoPromise
<1>2. ListenerInv => ListenerNotForgotten
  BY DEF ListenerInv, ListenerOK, ListenerNotForgotten, Queued, Committed
<1> QED BY <1>1, <1>2, InitType, TypeInvStep, DispatchInvariant, TimerInvariant, ListenerStep, PTL
        DEF Spec
=============================================================================
