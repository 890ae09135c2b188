----------------------------- MODULE KernelProofs -----------------------------
(***************************************************************************)
(* What the kernel's operators compute: views from views, job tables from  *)
(* job tables, and the same view in whatever order deadlines are applied.  *)
(***************************************************************************)
EXTENDS Kernel, TLAPS

\* A job id of the instance names a promise or a task.
LEMMA JobParts ==
    ASSUME NEW j \in Job
    PROVE  /\ j[2] \in Id
           /\ j[1] \in {"execute", "unblock", "timer"}
           /\ j[1] = "execute" => \E n \in 1 .. MaxDispatch : j = ExecuteJob(j[2], n)
BY DEF Job, ExecuteJob

\* A task moved to a state without a holder is a task record.
LEMMA TransitionType ==
    ASSUME NEW x \in StoredTask, NEW s \in TaskState
    PROVE  Transition(x, s) \in StoredTask
BY DEF StoredTask, Transition

\* Resuming a task yields a task record.
LEMMA ResumedTaskType ==
    ASSUME NEW x \in StoredTask, NEW S \in SUBSET Id, NEW w
    PROVE  ResumedTask(x, S, w) \in StoredTask
<1>1. CASE x.state = "suspended"
  <2> DEFINE y == Transition(x, "pending")
  <2>1. y \in StoredTask /\ x.job + 1 \in Nat
    BY TransitionType DEF TaskState, StoredTask
  <2>2. ResumedTask(x, S, w) = [y EXCEPT !.resumes = S, !.job = x.job + 1]
    BY <1>1 DEF ResumedTask
  <2> HIDE DEF y
  <2> QED BY <2>1, <2>2 DEF StoredTask
<1>2. CASE \/ x.state \in {"pending", "acquired"}
           \/ x.state = "halted" /\ w = "fanout"
  <2>1. ResumedTask(x, S, w) = [x EXCEPT !.resumes = x.resumes \cup S]
    BY <1>2 DEF ResumedTask
  <2>2. x.resumes \cup S \in SUBSET Id
    BY DEF StoredTask
  <2> QED BY <2>1, <2>2 DEF StoredTask
<1>3. CASE ~(\/ x.state \in {"suspended", "pending", "acquired"}
             \/ x.state = "halted" /\ w = "fanout")
  BY <1>3 DEF ResumedTask
<1> QED BY <1>1, <1>2, <1>3

\* The deadline settles a promise to a settled state.
LEMMA TimeoutStateType ==
    ASSUME NEW tags PROVE TimeoutState(tags) \in {"resolved", "rejected_timedout"}
BY DEF TimeoutState

\* The consequences of a settlement keep the view well typed (settle_chain).
LEMMA SettleChainType ==
    ASSUME NEW v \in View, NEW P \in SUBSET Id, NEW s \in [P -> StoredPromise], NEW n
    PROVE  SettleChain(v, s, n) \in View
<1> DEFINE w == SettleChain(v, s, n)
<1>1. w.promise \in [Id -> StoredPromise]
  <2> SUFFICES ASSUME NEW p \in Id PROVE w.promise[p] \in StoredPromise
    BY DEF SettleChain
  <2>1. CASE p \in P
    <3>1. s[p] \in StoredPromise /\ w.promise[p] = [s[p] EXCEPT !.callbacks = {}, !.listeners = {}]
      BY <2>1 DEF SettleChain
    <3> QED BY <3>1 DEF StoredPromise
  <2>2. CASE p \notin P
    BY <2>2 DEF SettleChain, View
  <2> QED BY <2>1, <2>2
<1>2. w.task \in [Id -> StoredTask]
  <2> SUFFICES ASSUME NEW t \in Id PROVE w.task[t] \in StoredTask
    BY DEF SettleChain
  <2>1. v.task[t] \in StoredTask
    BY DEF View
  <2>2. ResumedTask(v.task[t], {p \in DOMAIN s : t \in s[p].callbacks}, "fanout") \in StoredTask
    BY <2>1, ResumedTaskType
  <2>3. [Transition(v.task[t], "fulfilled") EXCEPT !.resumes = {}] \in StoredTask
    <3>1. Transition(v.task[t], "fulfilled") \in StoredTask
      BY <2>1, TransitionType DEF TaskState
    <3> QED BY <3>1 DEF StoredTask
  <2>4. \/ w.task[t] = [Transition(v.task[t], "fulfilled") EXCEPT !.resumes = {}]
        \/ w.task[t] = ResumedTask(v.task[t],
                            {p \in DOMAIN s : t \in s[p].callbacks}, "fanout")
        \/ w.task[t] = v.task[t]
    BY DEF SettleChain
  <2> HIDE DEF w
  <2> QED BY <2>1, <2>2, <2>3, <2>4
<1>3. w.enqueue \in SUBSET EnqueueRequest
  BY DEF SettleChain, View, StoredPromise, EnqueueRequest, DispatchRequest, ExecuteJob, UnblockJob, JobId, Woken, StoredTask
<1>4. w.release \in SUBSET Id
  BY DEF SettleChain, View
<1> QED BY <1>1, <1>2, <1>3, <1>4 DEF SettleChain, View

\* So does the expiry of any set of promises (expire_promise).
LEMMA ExpirePromisesType ==
    ASSUME NEW v \in View, NEW P \in SUBSET Id, NEW n
    PROVE  ExpirePromises(v, P, n) \in View
<1> DEFINE s == [p \in P |-> Expired(v.promise[p])]
<1>1. s \in [P -> StoredPromise]
  <2> SUFFICES ASSUME NEW p \in P PROVE Expired(v.promise[p]) \in StoredPromise
    OBVIOUS
  <2>1. v.promise[p] \in StoredPromise
    BY DEF View
  <2>2. TimeoutState(v.promise[p].tags) \in PromiseState
    BY TimeoutStateType DEF PromiseState, SettleState
  <2> QED BY <2>1, <2>2 DEF Expired, StoredPromise
<1>2. SettleChain(v, s, n) \in View
  BY <1>1, SettleChainType
<1> QED BY <1>2 DEF ExpirePromises

\* So does applying the deadlines a request names (try_timeout).
LEMMA TryTimeoutType ==
    ASSUME NEW v \in View, NEW P \in SUBSET Id, NEW n
    PROVE  TryTimeout(v, P, n) \in View
<1>1. {p \in P : IsPending(v.promise[p]) /\ n >= v.promise[p].timeoutAt} \in SUBSET Id
  OBVIOUS
<1> QED BY <1>1, ExpirePromisesType DEF TryTimeout

\* So does a settlement by a client (settle).
LEMMA SettleType ==
    ASSUME NEW v \in View, NEW p \in Id, NEW state \in SettleState, NEW n \in Nat
    PROVE  Settle(v, p, state, n) \in View
<1> DEFINE x == [v.promise[p] EXCEPT !.state = state, !.settledAt = n]
<1>1. x \in StoredPromise
  <2>1. v.promise[p] \in StoredPromise
    BY DEF View
  <2> QED BY <2>1 DEF StoredPromise, PromiseState
<1>2. [q \in {p} |-> x] \in [{p} -> StoredPromise]
  BY <1>1
<1>3. SettleChain(v, [q \in {p} |-> x], n) \in View
  BY <1>2, SettleChainType
<1> QED BY <1>3 DEF Settle

\* Replacing one task record keeps the view well typed.
LEMMA PutTaskType ==
    ASSUME NEW v \in View, NEW t \in Id, NEW x \in StoredTask
    PROVE  [v EXCEPT !.task[t] = x] \in View
BY DEF View

\* Acquiring a task keeps the view well typed (acquire).
LEMMA AcquireType ==
    ASSUME NEW v \in View, NEW t \in Id, NEW pid \in Pid, NEW ttl \in Int
    PROVE  Acquire(v, t, pid, ttl) \in View
<1>1. v.task[t] \in StoredTask
  BY DEF View
<1>2. [v.task[t] EXCEPT !.state = "acquired", !.version = v.task[t].version + 1,
                        !.pid = pid, !.ttl = ttl, !.resumes = {}] \in StoredTask
  <2>1. v.task[t].version + 1 \in Nat /\ "acquired" \in TaskState
    BY <1>1 DEF StoredTask, TaskState
  <2> QED BY <1>1, <2>1 DEF StoredTask
<1> QED BY <1>2, PutTaskType DEF Acquire

\* A created promise is a promise record.
LEMMA CreatedPromiseType ==
    ASSUME NEW data \in CreateData, NEW n \in Nat
    PROVE  CreatedPromise(data, n) \in StoredPromise
<1>1. NoPromise \in StoredPromise
  BY DEF NoPromise, StoredPromise, PromiseState, Tags
<1>2. TimeoutState(data.tags) \in PromiseState /\ "pending" \in PromiseState
  BY TimeoutStateType DEF PromiseState, SettleState
<1> QED BY <1>1, <1>2 DEF CreatedPromise, StoredPromise, CreateData

\* A new task is a task record.
LEMMA NewTaskType ==
    ASSUME NEW s \in TaskState PROVE NewTask(s) \in StoredTask /\ NoTask \in StoredTask
BY DEF NewTask, NoTask, StoredTask

\* Creating a promise with its task and jobs keeps the view well typed.
LEMMA CreateWithType ==
    ASSUME NEW v \in View, NEW p \in Id, NEW data \in CreateData,
           NEW x \in StoredTask, NEW runAt \in Nat, NEW n \in Nat
    PROVE  CreateWith(v, p, data, x, runAt, n) \in View
<1> DEFINE w == CreateWith(v, p, data, x, runAt, n)
<1>1. CreatedPromise(data, n) \in StoredPromise
  BY CreatedPromiseType
<1>2. [x EXCEPT !.job = 1] \in StoredTask
  BY DEF StoredTask
<1>3. NewTask("fulfilled") \in StoredTask /\ NoTask \in StoredTask
  BY NewTaskType DEF TaskState
<1>4. w.promise \in [Id -> StoredPromise]
  <2>1. w.promise = [v.promise EXCEPT ![p] = CreatedPromise(data, n)]
    BY DEF CreateWith, View
  <2> QED BY <1>1, <2>1 DEF View
<1>5. w.task \in [Id -> StoredTask]
  <2>1. w.task = [v.task EXCEPT ![p] =
                    IF data.tags.target = None THEN NoTask
                    ELSE IF IsPending(CreatedPromise(data, n)) /\ data.tags.target # None
                         THEN [x EXCEPT !.job = 1] ELSE NewTask("fulfilled")]
    BY DEF CreateWith, View
  <2> QED BY <1>2, <1>3, <2>1 DEF View
<1>6. w.enqueue \in SUBSET EnqueueRequest
  BY DEF CreateWith, View, EnqueueRequest, JobId, ExecuteJob, TimerJob, CreateData
<1> QED BY <1>4, <1>5, <1>6 DEF CreateWith, View

\* The same for CreateMode::Dispatch.
LEMMA CreateDispatchedType ==
    ASSUME NEW v \in View, NEW p \in Id, NEW data \in CreateData, NEW n \in Nat
    PROVE  CreateDispatched(v, p, data, n) \in View
<1>1. NewTask("pending") \in StoredTask
  BY NewTaskType DEF TaskState
<1>2. data.tags.delay \in Nat \cup {None}
  BY DEF CreateData, Tags
<1> QED BY <1>1, <1>2, CreateWithType DEF CreateDispatched

\* The same for CreateMode::Acquire.
LEMMA CreateAcquiredType ==
    ASSUME NEW v \in View, NEW p \in Id, NEW data \in CreateData, NEW pid \in Pid,
           NEW ttl \in Int, ttl >= 1, NEW n \in Nat
    PROVE  CreateAcquired(v, p, data, pid, ttl, n) \in View
<1>1. NewTask("acquired") \in StoredTask
  BY NewTaskType DEF TaskState
<1>2. [NewTask("acquired") EXCEPT !.version = 1, !.pid = pid, !.ttl = ttl] \in StoredTask
  BY <1>1 DEF StoredTask
<1>3. n + ttl \in Nat
  OBVIOUS
<1> QED BY <1>2, <1>3, CreateWithType DEF CreateAcquired

\* Registering a callback keeps the view well typed.
LEMMA RegisterCallbackType ==
    ASSUME NEW v \in View, NEW p \in Id, NEW t \in Id
    PROVE  RegisterCallback(v, p, t) \in View
<1>1. v.promise[p] \in StoredPromise
  BY DEF View
<1> DEFINE y == [v.promise[p] EXCEPT !.callbacks = @ \cup {t}]
<1>2. y \in StoredPromise
  BY <1>1 DEF StoredPromise
<1>3. RegisterCallback(v, p, t) = [v EXCEPT !.promise[p] = y]
  BY DEF RegisterCallback
<1> HIDE DEF y
<1>4. [v.promise EXCEPT ![p] = y] \in [Id -> StoredPromise]
  BY <1>2 DEF View
<1> QED BY <1>3, <1>4 DEF View

\* Resuming one awaiter keeps the view well typed (resume_awaiter).
LEMMA ResumeAwaiterType ==
    ASSUME NEW v \in View, NEW p \in Id, NEW t \in Id
    PROVE  ResumeAwaiter(v, t, p) \in View
<1>1. v.task[t] \in StoredTask
  BY DEF View
<1>2. ResumedTask(v.task[t], {p}, "registration") \in StoredTask
  BY <1>1, ResumedTaskType
<1>3. DispatchRequest(t, v.task[t], 0) \in EnqueueRequest
  BY <1>1 DEF DispatchRequest, EnqueueRequest, ExecuteJob, JobId, StoredTask
<1> QED BY <1>2, <1>3 DEF ResumeAwaiter, View

\* Suspending a task keeps the view well typed (task_suspend).
LEMMA SuspendType ==
    ASSUME NEW v \in View, NEW t \in Id, NEW P \in SUBSET Id
    PROVE  Suspend(v, t, P) \in View
<1>1. v.task[t] \in StoredTask
  BY DEF View
<1>2. Transition(v.task[t], "suspended") \in StoredTask
  BY <1>1, TransitionType DEF TaskState
<1>3. [Transition(v.task[t], "suspended") EXCEPT !.resumes = {}] \in StoredTask
  BY <1>2 DEF StoredTask
<1>4. ASSUME NEW p \in Id
      PROVE  [v.promise[p] EXCEPT !.callbacks = @ \cup {t}] \in StoredPromise
  <2>1. v.promise[p] \in StoredPromise
    BY DEF View
  <2> QED BY <2>1 DEF StoredPromise
<1> QED BY <1>3, <1>4 DEF Suspend, View

\* Returning a task to pending keeps the view well typed.
LEMMA UnassignType ==
    ASSUME NEW v \in View, NEW t \in Id PROVE Unassign(v, t) \in View
<1>1. v.task[t] \in StoredTask
  BY DEF View
<1> QED BY <1>1, TransitionType, PutTaskType DEF Unassign, TaskState

\* Halting a task keeps the view well typed (task_halt).
LEMMA HaltType ==
    ASSUME NEW v \in View, NEW t \in Id PROVE Halt(v, t) \in View
<1>1. v.task[t] \in StoredTask
  BY DEF View
<1>2. Transition(v.task[t], "halted") \in StoredTask
  BY <1>1, TransitionType DEF TaskState
<1> QED BY <1>2 DEF Halt, View

\* Continuing a task keeps the view well typed (task_continue).
LEMMA ContinueType ==
    ASSUME NEW v \in View, NEW t \in Id, NEW b PROVE Continue(v, t, b) \in View
<1>1. v.task[t] \in StoredTask
  BY DEF View
<1>2. Transition(v.task[t], "pending") \in StoredTask /\ v.task[t].job + 1 \in Nat
  BY <1>1, TransitionType DEF TaskState, StoredTask
<1>3. [Transition(v.task[t], "pending") EXCEPT !.job = v.task[t].job + 1] \in StoredTask
  BY <1>2 DEF StoredTask
<1>4. DispatchRequest(t, v.task[t], 0) \in EnqueueRequest
  BY <1>1 DEF DispatchRequest, EnqueueRequest, ExecuteJob, JobId, StoredTask
<1> QED BY <1>3, <1>4, UnassignType DEF Continue, View

-----------------------------------------------------------------------------
(* Type correctness of the queue's operations                              *)

\* The records the queue writes are job records.
LEMMA JobRecordType ==
    ASSUME NEW at \in Nat, NEW k \in Ticket
    PROVE  Waiting(at) \in JobRecord /\ Claimed(at, k) \in JobRecord /\ NoJob \in JobRecord
BY DEF Waiting, Claimed, NoJob, JobRecord

\* The queue operations map job tables to job tables.
LEMMA QueueOpsType ==
    ASSUME NEW js \in [Job -> JobRecord], NEW c, NEW j
    PROVE  /\ Ack(js, c) \in [Job -> JobRecord]
           /\ Nack(js, c) \in [Job -> JobRecord]
           /\ Requeue(js, j) \in [Job -> JobRecord]
           /\ Reopen(js) \in [Job -> JobRecord]
<1>1. Waiting(0) \in JobRecord /\ NoJob \in JobRecord
  BY DEF Waiting, NoJob, JobRecord
<1> QED BY <1>1 DEF Ack, Nack, Requeue, Reopen

\* Enqueuing requests yields a job table.
LEMMA EnqueueType ==
    ASSUME NEW js \in [Job -> JobRecord], NEW R \in SUBSET EnqueueRequest
    PROVE  Enqueue(js, R) \in [Job -> JobRecord]
<1> SUFFICES ASSUME NEW j \in Job PROVE Enqueue(js, R)[j] \in JobRecord
  BY DEF Enqueue
<1>1. CASE \E r \in R : r.job = j
  <2>1. (CHOOSE r \in R : r.job = j).runAt \in Nat
    BY <1>1 DEF EnqueueRequest
  <2>2. Waiting((CHOOSE r \in R : r.job = j).runAt) \in JobRecord
    BY <2>1 DEF Waiting, JobRecord
  <2> QED BY <1>1, <2>2 DEF Enqueue
<1>2. CASE ~\E r \in R : r.job = j
  BY <1>2 DEF Enqueue
<1> QED BY <1>1, <1>2

\* The lease of any ttl, negative ones too, is a duration (lease_of).
LEMMA LeaseOfType ==
    ASSUME NEW ttl \in Int PROVE LeaseOf(ttl) \in Nat
BY DEF LeaseOf

-----------------------------------------------------------------------------
(* Deadlines in any order                                                  *)

\* Nothing happens to a view none of whose named promises is due.
LEMMA NothingDue ==
    ASSUME NEW v \in View, NEW P, NEW n,
           \A p \in P : ~(IsPending(v.promise[p]) /\ n >= v.promise[p].timeoutAt)
    PROVE  TryTimeout(v, P, n) = v
<1> DEFINE D == {p \in P : IsPending(v.promise[p]) /\ n >= v.promise[p].timeoutAt}
           s == [p \in D |-> Expired(v.promise[p])]
           w == SettleChain(v, s, n)
<1>1. TryTimeout(v, P, n) = w
  BY DEF TryTimeout, ExpirePromises
<1>2. DOMAIN s = {}
  OBVIOUS
<1> HIDE DEF s
<1>3. Woken(v, s, n) = {}
  BY <1>2 DEF Woken
<1>4. w.promise = v.promise
  BY <1>2 DEF SettleChain, View
<1>5. w.task = v.task
  BY <1>2, <1>3 DEF SettleChain, View
<1>6. w.enqueue = v.enqueue
  BY <1>2, <1>3 DEF SettleChain
<1>7. w.release = v.release
  BY <1>2 DEF SettleChain
<1>8. w = [promise |-> w.promise, task |-> w.task, enqueue |-> w.enqueue, release |-> w.release]
  BY DEF SettleChain
<1>9. v = [promise |-> v.promise, task |-> v.task, enqueue |-> v.enqueue, release |-> v.release]
  BY DEF View
<1> HIDE DEF w
<1> QED BY <1>1, <1>4, <1>5, <1>6, <1>7, <1>8, <1>9

\* Which promises are due is all that matters of the named ones.
LEMMA OnlyDueMatter ==
    ASSUME NEW v, NEW P, NEW Q, NEW n,
           \A p : p \in P /\ IsPending(v.promise[p]) /\ n >= v.promise[p].timeoutAt <=>
                  p \in Q /\ IsPending(v.promise[p]) /\ n >= v.promise[p].timeoutAt
    PROVE  TryTimeout(v, P, n) = TryTimeout(v, Q, n)
<1>1. {p \in P : IsPending(v.promise[p]) /\ n >= v.promise[p].timeoutAt} =
      {p \in Q : IsPending(v.promise[p]) /\ n >= v.promise[p].timeoutAt}
  OBVIOUS
<1> QED BY <1>1 DEF TryTimeout

\* A task learns of two settlements one after the other, or at once.
LEMMA ResumedTwice ==
    ASSUME NEW x \in StoredTask, NEW A \in SUBSET Id, NEW B \in SUBSET Id
    PROVE  ResumedTask(ResumedTask(x, A, "fanout"), B, "fanout") = ResumedTask(x, A \cup B, "fanout")
<1>0. x.job \in Nat /\ x.job + 1 \in Nat
  BY DEF StoredTask
<1>1. CASE x.state = "suspended"
  <2> DEFINE y == [Transition(x, "pending") EXCEPT !.resumes = A, !.job = x.job + 1]
             z == [Transition(x, "pending") EXCEPT !.resumes = A \cup B, !.job = x.job + 1]
  <2>1. ResumedTask(x, A, "fanout") = y /\ ResumedTask(x, A \cup B, "fanout") = z
    BY <1>1 DEF ResumedTask
  <2>2. y.state = "pending" /\ y.resumes = A
    BY DEF Transition, StoredTask
  <2>3. [y EXCEPT !.resumes = A \cup B] = z
    BY DEF Transition, StoredTask
  <2> HIDE DEF y, z
  <2>4. ResumedTask(y, B, "fanout") = [y EXCEPT !.resumes = A \cup B]
    BY <2>2 DEF ResumedTask
  <2> QED BY <2>1, <2>3, <2>4
<1>2. CASE x.state \in {"pending", "acquired", "halted"}
  <2> DEFINE y == [x EXCEPT !.resumes = x.resumes \cup A]
             z == [x EXCEPT !.resumes = x.resumes \cup (A \cup B)]
  <2>1. ResumedTask(x, A, "fanout") = y /\ ResumedTask(x, A \cup B, "fanout") = z
    BY <1>2 DEF ResumedTask
  <2>2. y.state = x.state /\ y.resumes = x.resumes \cup A
    BY DEF StoredTask
  <2>3. [y EXCEPT !.resumes = y.resumes \cup B] = z
    BY DEF StoredTask
  <2> HIDE DEF y, z
  <2>4. ResumedTask(y, B, "fanout") = [y EXCEPT !.resumes = y.resumes \cup B]
    BY <1>2, <2>2 DEF ResumedTask
  <2> QED BY <2>1, <2>3, <2>4
<1>3. CASE x.state \in {"absent", "fulfilled"}
  BY <1>3 DEF ResumedTask
<1> QED BY <1>1, <1>2, <1>3 DEF StoredTask, TaskState

\* Two promises past their deadlines are settled one after the other, or at once.
LEMMA ExpireTwo ==
    ASSUME NEW v \in View, NEW p \in Id, NEW q \in Id, NEW n \in Nat, p # q,
           IsPending(v.promise[p]), n >= v.promise[p].timeoutAt,
           IsPending(v.promise[q]), n >= v.promise[q].timeoutAt
    PROVE  TryTimeout(TryTimeout(v, {p}, n), {q}, n) = TryTimeout(v, {p, q}, n)
<1> DEFINE s1 == [r \in {p} |-> Expired(v.promise[r])]
           w  == SettleChain(v, s1, n)
           s2 == [r \in {q} |-> Expired(w.promise[r])]
           u  == SettleChain(w, s2, n)
           s3 == [r \in {p, q} |-> Expired(v.promise[r])]
           x  == SettleChain(v, s3, n)
           cbp == v.promise[p].callbacks
           cbq == v.promise[q].callbacks
           Awake(t) == IsPending(v.promise[t]) /\ n < v.promise[t].timeoutAt
           W1 == {t \in Id : t \in cbp /\ Awake(t)}
           W2 == {t \in Id : t \in cbq /\ Awake(t)}
           Unended(t) == v.task[t].state \notin {"absent", "fulfilled"}
           End(t) == [Transition(v.task[t], "fulfilled") EXCEPT !.resumes = {}]
           Done(r) == [Expired(v.promise[r]) EXCEPT !.callbacks = {}, !.listeners = {}]
<1>1. TryTimeout(v, {p}, n) = w
  <2>1. {r \in {p} : IsPending(v.promise[r]) /\ n >= v.promise[r].timeoutAt} = {p}
    OBVIOUS
  <2> QED BY <2>1 DEF TryTimeout, ExpirePromises
<1>2. TryTimeout(v, {p, q}, n) = x
  <2>1. {r \in {p, q} : IsPending(v.promise[r]) /\ n >= v.promise[r].timeoutAt} = {p, q}
    OBVIOUS
  <2> QED BY <2>1 DEF TryTimeout, ExpirePromises
<1>3. /\ v.promise \in [Id -> StoredPromise] /\ v.task \in [Id -> StoredTask]
      /\ \A r \in Id : v.promise[r] \in StoredPromise /\ v.promise[r].timeoutAt \in Nat
      /\ \A r \in Id : v.task[r] \in StoredTask
  BY DEF View, StoredPromise
<1>4. \A r \in {p, q} : /\ Expired(v.promise[r]).callbacks = v.promise[r].callbacks
                        /\ Expired(v.promise[r]).listeners = v.promise[r].listeners
                        /\ Expired(v.promise[r]).state # "pending"
  BY <1>3 DEF Expired, StoredPromise, TimeoutState
<1>5. ~Awake(p) /\ ~Awake(q)
  BY <1>3
<1>6. /\ DOMAIN s1 = {p} /\ s1[p] = Expired(v.promise[p])
      /\ DOMAIN s3 = {p, q} /\ s3[p] = Expired(v.promise[p]) /\ s3[q] = Expired(v.promise[q])
  OBVIOUS
<1> HIDE DEF s1, s3
<1>7. Woken(v, s1, n) = W1
  BY <1>4, <1>5, <1>6 DEF Woken
<1>8. Woken(v, s3, n) = W1 \cup W2
  BY <1>4, <1>5, <1>6 DEF Woken
<1>9. /\ w.promise = [r \in Id |-> IF r = p THEN Done(p) ELSE v.promise[r]]
      /\ x.promise = [r \in Id |-> IF r \in {p, q} THEN Done(r) ELSE v.promise[r]]
  BY <1>6 DEF SettleChain
<1>10. /\ w.promise[q] = v.promise[q] /\ w.promise[p] = Done(p)
       /\ \A r \in Id : r # p => w.promise[r] = v.promise[r]
  BY <1>9
<1>11. ~IsPending(w.promise[p])
  BY <1>3, <1>4, <1>10 DEF Expired, StoredPromise, IsPending
<1>12. DOMAIN s2 = {q} /\ s2[q] = Expired(v.promise[q])
  BY <1>10
<1>13. TryTimeout(w, {q}, n) = u
  <2>1. {r \in {q} : IsPending(w.promise[r]) /\ n >= w.promise[r].timeoutAt} = {q}
    BY <1>10
  <2> QED BY <2>1 DEF TryTimeout, ExpirePromises
<1>14. w.task = [t \in Id |-> IF t = p THEN IF Unended(p) THEN End(p) ELSE v.task[p]
                              ELSE IF t \in W1 THEN ResumedTask(v.task[t], {p}, "fanout")
                              ELSE v.task[t]]
  <2>1. \A t \in W1 : {r \in DOMAIN s1 : t \in s1[r].callbacks} = {p}
    BY <1>4, <1>6
  <2>2. {t \in DOMAIN s1 : v.task[t].state \notin {"absent", "fulfilled"}} =
        {t \in {p} : Unended(t)}
    BY <1>6
  <2>3. p \notin W1
    BY <1>5
  <2> HIDE DEF Awake, W1, Unended
  <2> QED BY <1>7, <2>1, <2>2, <2>3 DEF SettleChain
<1>15. /\ w.enqueue = v.enqueue
                      \cup {DispatchRequest(t, v.task[t], 0) : t \in {t \in W1 : v.task[t].state = "suspended"}}
                      \cup {[job |-> UnblockJob(p, a), runAt |-> 0] : a \in v.promise[p].listeners}
       /\ w.release = v.release \cup {t \in {p} : Unended(t)}
  <2>1. {t \in DOMAIN s1 : v.task[t].state \notin {"absent", "fulfilled"}} =
        {t \in {p} : Unended(t)}
    BY <1>6
  <2>2. UNION {{[job |-> UnblockJob(r, a), runAt |-> 0] : a \in s1[r].listeners} : r \in DOMAIN s1} =
        {[job |-> UnblockJob(p, a), runAt |-> 0] : a \in v.promise[p].listeners}
    BY <1>4, <1>6
  <2> HIDE DEF Awake, W1, Unended
  <2> QED BY <1>7, <2>1, <2>2 DEF SettleChain
<1>16. /\ x.enqueue = v.enqueue
                      \cup {DispatchRequest(t, v.task[t], 0) :
                              t \in {t \in W1 \cup W2 : v.task[t].state = "suspended"}}
                      \cup ({[job |-> UnblockJob(p, a), runAt |-> 0] : a \in v.promise[p].listeners}
                            \cup {[job |-> UnblockJob(q, a), runAt |-> 0] : a \in v.promise[q].listeners})
       /\ x.release = v.release \cup {t \in {p, q} : Unended(t)}
  <2>1. {t \in DOMAIN s3 : v.task[t].state \notin {"absent", "fulfilled"}} =
        {t \in {p, q} : Unended(t)}
    BY <1>6
  <2>2. UNION {{[job |-> UnblockJob(r, a), runAt |-> 0] : a \in s3[r].listeners} : r \in DOMAIN s3} =
        {[job |-> UnblockJob(p, a), runAt |-> 0] : a \in v.promise[p].listeners}
        \cup {[job |-> UnblockJob(q, a), runAt |-> 0] : a \in v.promise[q].listeners}
    BY <1>4, <1>6
  <2> HIDE DEF Awake, W1, W2, Unended
  <2> QED BY <1>8, <2>1, <2>2 DEF SettleChain
<1>17. x.task = [t \in Id |-> IF t \in {p, q} THEN IF Unended(t) THEN End(t) ELSE v.task[t]
                              ELSE IF t \in W1 \cup W2
                                   THEN ResumedTask(v.task[t], {r \in {p, q} : t \in v.promise[r].callbacks}, "fanout")
                              ELSE v.task[t]]
  <2>1. \A t \in Id : {r \in DOMAIN s3 : t \in s3[r].callbacks} = {r \in {p, q} : t \in v.promise[r].callbacks}
    BY <1>4, <1>6
  <2>2. {t \in DOMAIN s3 : v.task[t].state \notin {"absent", "fulfilled"}} =
        {t \in {p, q} : Unended(t)}
    BY <1>6
  <2>3. p \notin W1 \cup W2 /\ q \notin W1 \cup W2
    BY <1>5
  <2> HIDE DEF Awake, W1, W2, Unended
  <2> QED BY <1>8, <2>1, <2>2, <2>3 DEF SettleChain
<1>18. w = [promise |-> w.promise, task |-> w.task, enqueue |-> w.enqueue, release |-> w.release]
  BY DEF SettleChain
<1>19. x = [promise |-> x.promise, task |-> x.task, enqueue |-> x.enqueue, release |-> x.release]
  BY DEF SettleChain
<1>20. u = [promise |-> u.promise, task |-> u.task, enqueue |-> u.enqueue, release |-> u.release]
  BY DEF SettleChain
<1> HIDE DEF w, x, s2
<1>21. Woken(w, s2, n) = W2
  <2>1. \A t \in Id : IsPending(w.promise[t]) /\ n < w.promise[t].timeoutAt <=> Awake(t)
    BY <1>5, <1>10, <1>11
  <2> HIDE DEF Awake
  <2> QED BY <2>1, <1>4, <1>5, <1>12 DEF Woken
<1>22. u.promise = x.promise
  <2>1. u.promise = [r \in Id |-> IF r = q THEN Done(q) ELSE w.promise[r]]
    BY <1>12 DEF SettleChain
  <2> HIDE DEF Done, u
  <2> QED BY <2>1, <1>9
<1>23. w.task[q] = v.task[q]
  BY <1>5, <1>14
<1>24. /\ u.enqueue = w.enqueue
                      \cup {DispatchRequest(t, w.task[t], 0) : t \in {t \in W2 : w.task[t].state = "suspended"}}
                      \cup {[job |-> UnblockJob(q, a), runAt |-> 0] : a \in v.promise[q].listeners}
       /\ u.release = w.release \cup {t \in {q} : Unended(t)}
       /\ u.task = [t \in Id |-> IF t = q THEN IF Unended(q) THEN End(q) ELSE v.task[q]
                              ELSE IF t \in W2 THEN ResumedTask(w.task[t], {q}, "fanout")
                              ELSE w.task[t]]
  <2>1. {t \in DOMAIN s2 : w.task[t].state \notin {"absent", "fulfilled"}} =
        {t \in {q} : Unended(t)}
    BY <1>12, <1>23
  <2>2. UNION {{[job |-> UnblockJob(r, a), runAt |-> 0] : a \in s2[r].listeners} : r \in DOMAIN s2} =
        {[job |-> UnblockJob(q, a), runAt |-> 0] : a \in v.promise[q].listeners}
    BY <1>4, <1>12
  <2>3. \A t \in W2 : {r \in DOMAIN s2 : t \in s2[r].callbacks} = {q}
    BY <1>4, <1>12
  <2>4. q \notin W2
    BY <1>5
  <2> HIDE DEF Awake, W1, W2, Unended
  <2> QED BY <1>21, <1>23, <2>1, <2>2, <2>3, <2>4 DEF SettleChain
<1> HIDE DEF u
<1>25. \A t \in W1 \cap W2 : w.task[t].state # "suspended"
  <2> SUFFICES ASSUME NEW t \in W1 \cap W2 PROVE w.task[t].state # "suspended"
    OBVIOUS
  <2>1. w.task[t] = ResumedTask(v.task[t], {p}, "fanout")
    BY <1>5, <1>14
  <2>2. v.task[t] \in StoredTask /\ v.task[t].job + 1 \in Nat
    BY <1>3 DEF StoredTask
  <2> QED BY <2>1, <2>2 DEF ResumedTask, Transition, StoredTask
<1>26. \A t \in Id : t \notin W1 /\ t # p => w.task[t] = v.task[t]
  BY <1>14
<1>27. p \notin W1 /\ p \notin W2 /\ q \notin W1 /\ q \notin W2
  BY <1>5
<1>28. \A t \in Id : /\ t \in W1 <=> t \in cbp /\ Awake(t)
                     /\ t \in W2 <=> t \in cbq /\ Awake(t)
  OBVIOUS
<1>29. W1 \subseteq Id /\ W2 \subseteq Id
  OBVIOUS
<1> HIDE DEF Awake, W1, W2, Unended, End, Done
<1>30. u.task = x.task
  <2>1. \A t \in Id : u.task[t] = x.task[t]
    <3> TAKE t \in Id
    <3>1. CASE t \in {p, q}
      BY <3>1, <1>14, <1>17, <1>24, <1>27
    <3>2. CASE t \notin {p, q} /\ t \notin W1 /\ t \notin W2
      BY <3>2, <1>14, <1>17, <1>24
    <3>3. CASE t \notin {p, q} /\ t \in W1 /\ t \notin W2
      <4>1. {r \in {p, q} : t \in v.promise[r].callbacks} = {p}
        BY <3>3, <1>28
      <4>2. x.task[t] = ResumedTask(v.task[t], {r \in {p, q} : t \in v.promise[r].callbacks}, "fanout")
        BY <3>3, <1>17
      <4>3. x.task[t] = ResumedTask(v.task[t], {p}, "fanout")
        BY <4>1, <4>2
      <4> QED BY <3>3, <4>3, <1>14, <1>24
    <3>4. CASE t \notin {p, q} /\ t \notin W1 /\ t \in W2
      <4>1. {r \in {p, q} : t \in v.promise[r].callbacks} = {q}
        BY <3>4, <1>28
      <4>2. x.task[t] = ResumedTask(v.task[t], {r \in {p, q} : t \in v.promise[r].callbacks}, "fanout")
        BY <3>4, <1>17
      <4>3. x.task[t] = ResumedTask(v.task[t], {q}, "fanout")
        BY <4>1, <4>2
      <4> QED BY <3>4, <4>3, <1>14, <1>24
    <3>5. CASE t \notin {p, q} /\ t \in W1 /\ t \in W2
      <4>1. {r \in {p, q} : t \in v.promise[r].callbacks} = {p} \cup {q}
        BY <3>5, <1>28
      <4>2. ResumedTask(ResumedTask(v.task[t], {p}, "fanout"), {q}, "fanout") =
            ResumedTask(v.task[t], {p} \cup {q}, "fanout")
        BY <1>3, ResumedTwice
      <4>3. x.task[t] = ResumedTask(v.task[t], {r \in {p, q} : t \in v.promise[r].callbacks}, "fanout")
        BY <3>5, <1>17
      <4>4. x.task[t] = ResumedTask(v.task[t], {p} \cup {q}, "fanout")
        BY <4>1, <4>3
      <4>5. w.task[t] = ResumedTask(v.task[t], {p}, "fanout")
        BY <3>5, <1>14
      <4>6. u.task[t] = ResumedTask(w.task[t], {q}, "fanout")
        BY <3>5, <1>24
      <4> QED BY <4>2, <4>4, <4>5, <4>6
    <3> QED BY <3>1, <3>2, <3>3, <3>4, <3>5
  <2>2. u.task = [t \in Id |-> u.task[t]]
    BY <1>24
  <2>3. x.task = [t \in Id |-> x.task[t]]
    BY <1>17
  <2> QED BY <2>1, <2>2, <2>3
<1>31. u.enqueue = x.enqueue
  <2>1. {DispatchRequest(t, w.task[t], 0) : t \in {t \in W2 : w.task[t].state = "suspended"}} =
        {DispatchRequest(t, v.task[t], 0) : t \in {t \in W2 \ W1 : v.task[t].state = "suspended"}}
    <3>1. \A t \in W2 : w.task[t].state = "suspended" <=> t \notin W1 /\ v.task[t].state = "suspended"
      BY <1>25, <1>26, <1>27, <1>29
    <3>2. \A t \in W2 \ W1 : w.task[t] = v.task[t]
      BY <1>26, <1>27, <1>29
    <3>3. {t \in W2 : w.task[t].state = "suspended"} = {t \in W2 \ W1 : v.task[t].state = "suspended"}
      BY <3>1
    <3> QED BY <3>2, <3>3
  <2> DEFINE Sent(S) == {DispatchRequest(t, v.task[t], 0) : t \in {t \in S : v.task[t].state = "suspended"}}
             Told(r) == {[job |-> UnblockJob(r, a), runAt |-> 0] : a \in v.promise[r].listeners}
  <2>2. Sent(W1 \cup W2) = Sent(W1) \cup Sent(W2 \ W1)
    OBVIOUS
  <2>3. /\ w.enqueue = v.enqueue \cup Sent(W1) \cup Told(p)
        /\ x.enqueue = v.enqueue \cup Sent(W1 \cup W2) \cup (Told(p) \cup Told(q))
    BY <1>15, <1>16
  <2>4. u.enqueue = w.enqueue \cup Sent(W2 \ W1) \cup Told(q)
    BY <2>1, <1>24
  <2> HIDE DEF Sent, Told
  <2> QED BY <2>2, <2>3, <2>4
<1>32. u.release = x.release
  BY <1>15, <1>16, <1>24
<1> QED BY <1>1, <1>2, <1>13, <1>19, <1>20, <1>22, <1>30, <1>31, <1>32
=============================================================================
