----------------------------- MODULE MCSchedules -----------------------------
(***************************************************************************)
(* Instances of Schedules for TLC.                                         *)
(***************************************************************************)
EXTENDS Schedules

FiringIds == ScheduleId \X ((1 .. MaxTime) \cup {None})

\* The second firing.
TakenIds == ScheduleId \X {2}

NoTags == [target |-> None, timer |-> FALSE, external |-> FALSE, delay |-> None]

Data(cron, named, stamped, timeout) ==
    [cron |-> cron, template |-> [id |-> named, timestamp |-> stamped],
     timeout |-> timeout, tags |-> [NoTags EXCEPT !.target = "w"]]

\* An expression that fires three times and then no more, with promises that have
\* a deadline beyond the end of time, and one that always names one promise.
EachFiring == {Data({1, 2, 3}, TRUE, TRUE, 4), Data({2, 3}, TRUE, FALSE, 0)}

\* A promise of a client, without a target.
ClientData == {[timeoutAt |-> 3, tags |-> NoTags]}
=============================================================================
