------------------------------- MODULE MCStore -------------------------------
(***************************************************************************)
(* Instances of Store for TLC: the ids, their creation data, the loops and *)
(* the queues they serve.  Times are small numbers of clock ticks.         *)
(***************************************************************************)
EXTENDS Refinement

\* One origin for all ids.
OneOrigin == [p \in Id |-> "o"]

\* The timer worker, and delivery loops that all serve address w, or two
\* addresses.
ServesOne == [l \in Loop |-> IF l = "timers" THEN Timers ELSE "w"]
ServesTwo == [l \in Loop |-> CASE l = "timers" -> Timers
                               [] l = "l1" -> "w"
                               [] OTHER -> "x"]

NoTags == [target |-> None, timer |-> FALSE, external |-> FALSE, delay |-> None]

\* A promise with a task, a promise without one that a task can await, a timer,
\* one that nobody can await, and one whose task is dispatched later.
Targeted(deadline) ==
    [timeoutAt |-> deadline, tags |-> [NoTags EXCEPT !.target = "w"]]
External(deadline) ==
    [timeoutAt |-> deadline, tags |-> [NoTags EXCEPT !.external = TRUE]]
TimerPromise(deadline) ==
    [timeoutAt |-> deadline, tags |-> [NoTags EXCEPT !.timer = TRUE]]
Internal(deadline) == [timeoutAt |-> deadline, tags |-> NoTags]
Delayed(delay, deadline) ==
    [timeoutAt |-> deadline, tags |-> [NoTags EXCEPT !.target = "w",
                                                     !.delay = delay]]

\* A task whose deadline is out of reach.
LeaseCreations == [p \in Id |-> {Targeted(9)}]

\* A lease time, and one that is no time: task.acquire does not refuse it.
LeaseTtl == {-1, 1}

\* A task that awaits a promise with an earlier deadline than its own.
AwaitCreations == [p \in Id |-> IF p = "a" THEN {Targeted(2)} ELSE {External(1)}]

\* A parent task, and a child task with a deadline.
ChainCreations == [p \in Id |-> {Targeted(IF p = "a" THEN 9 ELSE 2)}]

\* Every kind of promise without a task that a listener may meet.
ListenCreations == [p \in Id |-> {TimerPromise(2), Internal(1), External(2)}]
=============================================================================
