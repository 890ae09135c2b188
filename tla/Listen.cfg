SPECIFICATION LiveSpec
CONSTANTS
    Id = {"a"}
    Address = {"w", "x"}
    Pid = {"p1"}
    None = None
    MaxDispatch = 1
    Ticket = {1, 2, 3}
    Origin <- OneOrigin
    Creations <- ListenCreations
    Outcomes = {"resolved"}
    Ttl = {1}
    Requests = {"promise.create", "promise.settle",
                "promise.register_listener"}
    Loop = {"l1", "l2", "timers"}
    Serves <- ServesTwo
    Timers = Timers
    RetryTimeout = 1
    WorkerLease = 1
    Faults = {"storage", "cancel"}
    MaxTime = 2
    MaxVersion = 1
    Far = 9
INVARIANTS
    ListenerNotForgotten
    TimerInv
    TimerNotLost
    DeadlineWins
PROPERTY ListenerIsTold
