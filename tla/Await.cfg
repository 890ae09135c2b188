SPECIFICATION Spec
CONSTANTS
    Id = {"a", "b"}
    Address = {"w"}
    Pid = {"p1"}
    None = None
    MaxDispatch = 2
    Ticket = {1, 2, 3}
    Origin <- OneOrigin
    Creations <- AwaitCreations
    Outcomes = {"resolved"}
    Ttl = {2}
    Requests = {"promise.create", "promise.settle",
                "promise.register_callback", "task.acquire", "task.suspend",
                "task.fulfill", "task.halt", "task.continue"}
    Loop = {"l1", "timers"}
    Serves <- ServesOne
    Timers = Timers
    RetryTimeout = 1
    WorkerLease = 1
    Faults = {"crash"}
    MaxTime = 2
    MaxVersion = 2
INVARIANTS
    SuspendedIsAwaited
    SuspendedHasNoJob
    FulfilledIffSettled
    ResumesAreSettled
    ProtocolInv
    ExpiryOrderIrrelevant
PROPERTY ImplementsProtocol
