------------------------------- MODULE Records -------------------------------
(***************************************************************************)
(* The protocol's records (src/records.rs): promises and tasks as the      *)
(* store keeps them, and the tag rules that classify a promise.  Payloads, *)
(* headers and the creation time are left out: no rule of the kernel reads *)
(* them.  Of the tags only the ones the kernel reads are kept.             *)
(***************************************************************************)
EXTENDS Integers, FiniteSets

CONSTANTS
    Id,         \* promise ids; a task has the id of its promise
    Address,    \* listener and target addresses
    Pid,        \* worker process ids
    None        \* the absent value of an Option

ASSUME NoneAssumption ==
    None \notin Id \cup Address \cup Pid \cup Int

SettleState == {"resolved", "rejected", "rejected_canceled"}

PromiseState == SettleState \cup {"pending", "rejected_timedout"}

TaskState == {"pending", "acquired", "suspended", "halted", "fulfilled"}

\* `external' stands for resonate:scope = global and resonate:external = true.
Tags == [target : Address \cup {None}, timer : BOOLEAN, external : BOOLEAN,
         delay : Nat \cup {None}]

\* A stored promise.  The two registration lists hold no duplicates and the
\* order they are served in is not observable, so they are sets.
StoredPromise ==
    [state     : PromiseState \cup {"absent"},
     timeoutAt : Nat,
     settledAt : Nat \cup {None},
     tags      : Tags,
     callbacks : SUBSET Id,
     listeners : SUBSET Address]

NoPromise ==
    [state |-> "absent", timeoutAt |-> 0, settledAt |-> None,
     tags |-> [target |-> None, timer |-> FALSE, external |-> FALSE,
               delay |-> None],
     callbacks |-> {}, listeners |-> {}]

\* A stored task.  `job' numbers the task's dispatches: it names the job of
\* the last one, and 0 is the absent job id of a task never dispatched.
StoredTask ==
    [state   : TaskState \cup {"absent"},
     version : Nat,
     job     : Nat,
     pid     : Pid \cup {None},
     ttl     : Int \cup {None},
     resumes : SUBSET Id]

NoTask ==
    [state |-> "absent", version |-> 0, job |-> 0, pid |-> None,
     ttl |-> None, resumes |-> {}]

\* What the store tells of a task: not its job.  The lease time is left out.
TaskRecord(task) == [state |-> task.state, version |-> task.version,
                     pid |-> task.pid, resumes |-> task.resumes]

NewTask(state) == [NoTask EXCEPT !.state = state]

-----------------------------------------------------------------------------
IsPending(promise) == promise.state = "pending"

\* The state a deadline settles a promise with these tags to.
TimeoutState(tags) == IF tags.timer THEN "resolved" ELSE "rejected_timedout"

\* Whether a task can await a promise with these tags.
IsExternal(tags) == tags.external \/ tags.target # None \/ tags.timer

IsAcquiredAt(task, version) ==
    task.state = "acquired" /\ task.version = version

\* Move the task to a state without a holder.
Transition(task, state) ==
    [task EXCEPT !.state = state, !.pid = None, !.ttl = None]

\* Mutant: a negative ttl is not clamped.
LeaseUnclamped(ttl) == ttl

\* The lease of a task with this ttl.
LeaseOf(ttl) == IF ttl > 0 THEN ttl ELSE 0
=============================================================================
