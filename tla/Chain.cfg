SPECIFICATION Spec
CONSTANTS
    Id = {"a", "b"}
    Address = {"w"}
    Pid = {"p1"}
    None = None
    MaxDispatch = 2
    Ticket = {1, 2, 3}
    Origin <- OneOrigin
    Creations <- ChainCreations
    Outcomes = {"resolved"}
    Ttl = {1}
    Requests = {"get", "task.create", "task.acquire", "task.suspend",
                "task.fence", "task.fulfill", "task.heartbeat"}
    Loop = {"l1"}
    Serves <- ServesOne
    Timers = Timers
    RetryTimeout = 1
    WorkerLease = 1
    Faults = {"crash"}
    MaxTime = 2
    MaxVersion = 2
INVARIANTS
    DispatchInv
    SuspendedIsAwaited
PROPERTIES
    SettledIsFinal
    ImplementsProtocol
