------------------------------ MODULE Protocol -------------------------------
(***************************************************************************)
(* What the store promises its clients: promises that settle once, no      *)
(* later than at their deadline, and tasks that have one holder per        *)
(* version, that sleep only while something will wake them and that miss   *)
(* no settlement they asked for.  There is no queue, no lease, no commit   *)
(* and no crash here: a step is what a client can see of one transaction,  *)
(* an operation after the expiries that come before it.                    *)
(***************************************************************************)
EXTENDS Records

VARIABLES
    promises,   \* the promises
    tasks,      \* the tasks, without their jobs and lease times
    overdue     \* the promises whose deadline has passed

vars == <<promises, tasks, overdue>>

IsSettled(promise) == promise.state \notin {"absent", "pending"}

Init ==
    /\ promises = [p \in Id |-> NoPromise]
    /\ tasks = [t \in Id |-> TaskRecord(NoTask)]
    /\ overdue = {}

-----------------------------------------------------------------------------
\* A client settles before the deadline; at the deadline the promise has its
\* timeout state.
Settlement(new) ==
    /\ IsSettled(new)
    /\ \/ new.state \in SettleState /\ new.settledAt < new.timeoutAt
       \/ /\ new.state = TimeoutState(new.tags)
          /\ new.settledAt = new.timeoutAt
    /\ new.callbacks = {} /\ new.listeners = {}

\* One step of a promise: it is created, gains registrations, or is settled, and
\* a settled promise stays as it is.
PromiseStep(old, new) ==
    \/ new = old
    \/ /\ old.state = "absent"
       /\ new.callbacks = {} /\ new.listeners = {}
       /\ IsPending(new) \/ Settlement(new)
    \/ /\ IsPending(old)
       /\ new.timeoutAt = old.timeoutAt /\ new.tags = old.tags
       /\ \/ Settlement(new)
          \/ /\ new.state = old.state /\ new.settledAt = old.settledAt
             /\ old.callbacks \subseteq new.callbacks
             /\ old.listeners \subseteq new.listeners

\* The ways of a task from one state to another.
Moves ==
    {<<s, s>> : s \in TaskState \cup {"absent"}}
        \cup ({"absent"} \X {"pending", "acquired", "fulfilled"})
        \cup ({"pending"} \X {"acquired", "halted", "fulfilled"})
        \cup ({"acquired"} \X {"pending", "suspended", "halted", "fulfilled"})
        \cup ({"suspended"} \X {"pending", "halted", "fulfilled"})
        \cup ({"halted"} \X {"pending", "fulfilled"})

\* The promises that settle between P and Q while task t is registered with them.
Told(P, Q, t) ==
    {p \in Id : IsPending(P[p]) /\ IsSettled(Q[p]) /\ t \in P[p].callbacks}

\* Only an acquisition names a holder, and it does so at the next version.
HolderStep(old, new) ==
    IF new.state = "acquired"
    THEN \/ new.version = old.version + 1 /\ new.resumes = {}
         \/ /\ old.state = "acquired"
            /\ new.version = old.version /\ new.pid = old.pid
    ELSE new.version = old.version /\ new.pid = None

\* A task learns of settlements only, keeps what it has learned until it is
\* acquired or suspended, and learns of every settlement it is registered for, if
\* it is not overdue itself.  A task told to go on at once learns by the answer.
ResumeStep(old, new, Q, told, late) ==
    /\ \A p \in new.resumes : p \in old.resumes \/ IsSettled(Q[p])
    /\ new.state \in {"pending", "halted"} => old.resumes \subseteq new.resumes
    /\ new.state \in {"suspended", "fulfilled"} => new.resumes = {}
    /\ \/ told \subseteq new.resumes
       \/ new.state = "fulfilled" \/ late
       \/ new.state = "acquired" /\ new.resumes = {}

\* A task falls asleep only on a pending promise, and is not woken for nothing.
SleepStep(old, new, Q, t) ==
    /\ old.state = "acquired" /\ new.state = "suspended" =>
          \E p \in Id : IsPending(Q[p]) /\ t \in Q[p].callbacks
    /\ old.state = "suspended" /\ new.state = "pending" => new.resumes # {}

\* One step of task t from record `old' to `new', while the promises go from P
\* to Q; `late' tells that the task is past its deadline.
TaskStep(t, old, new, P, Q, late) ==
    /\ <<old.state, new.state>> \in Moves
    /\ new.state = "absent" <=>
          Q[t].state = "absent" \/ Q[t].tags.target = None
    /\ new.state # "absent" => (new.state = "fulfilled" <=> IsSettled(Q[t]))
    /\ old.state = "fulfilled" => new = old
    /\ HolderStep(old, new)
    /\ ResumeStep(old, new, Q, Told(P, Q, t), late)
    /\ SleepStep(old, new, Q, t)

\* A transaction, and time that passes.
Transact ==
    /\ \A p \in Id : PromiseStep(promises[p], promises'[p])
    /\ \A t \in Id :
          TaskStep(t, tasks[t], tasks'[t], promises, promises', t \in overdue)
    /\ overdue \subseteq overdue'
    /\ \A p \in overdue' \ overdue : promises[p].state = "absent"

Pass ==
    /\ overdue \subseteq overdue'
    /\ overdue' \subseteq {p \in Id : promises[p].state # "absent"}
    /\ UNCHANGED <<promises, tasks>>

Next == Transact \/ Pass

Spec == Init /\ [][Next]_vars
=============================================================================
