SPECIFICATION Spec
CONSTANTS
    Id = {"a"}
    Address = {"w"}
    Pid = {"p1", "p2"}
    None = None
    MaxDispatch = 2
    Ticket = {1, 2, 3, 4}
    Origin <- OneOrigin
    Creations <- LeaseCreations
    Outcomes = {"resolved"}
    Ttl <- LeaseTtl
    Requests = {"promise.create", "task.create", "task.acquire", "task.release",
                "task.fulfill", "task.heartbeat", "task.halt", "task.continue",
                "promise.settle"}
    Loop = {"l1", "l2"}
    Serves <- ServesOne
    Timers = Timers
    RetryTimeout = 1
    WorkerLease = 1
    Faults = {"crash", "storage", "cancel"}
    MaxTime = 3
    MaxVersion = 2
INVARIANTS
    TypeOK
    DispatchNotLost
    OneJobPerTask
PROPERTY VersionFences
