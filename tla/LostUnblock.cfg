SPECIFICATION Spec
CONSTANTS
    Id = {"a"}
    Address = {"w"}
    Pid = {"p1"}
    None = None
    MaxDispatch = 2
    Ticket = {1, 2, 3}
    Origin <- OneOrigin
    Creations <- ListenCreations
    Outcomes = {"resolved"}
    Ttl = {2}
    Requests = {"promise.create", "promise.settle",
                "promise.register_listener"}
    Loop = {"l1"}
    Serves <- ServesOne
    Timers = Timers
    RetryTimeout = 1
    WorkerLease = 1
    Faults = {"crash"}
    MaxTime = 2
    MaxVersion = 2
INVARIANT ListenerNotForgotten
