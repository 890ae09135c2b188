SPECIFICATION LiveSpec
CONSTANTS
    Id = {"a", "b"}
    Address = {"w"}
    Pid = {"p1"}
    None = None
    MaxDispatch = 3
    Ticket = {1, 2, 3}
    Origin <- OneOrigin
    Creations <- WakeCreations
    Outcomes = {"resolved"}
    Ttl = {1}
    Requests = {"promise.create", "task.acquire", "task.suspend",
                "task.release"}
    Loop = {"l1", "timers"}
    Serves <- ServesOne
    Timers = Timers
    RetryTimeout = 1
    WorkerLease = 1
    Faults = {"crash", "storage", "cancel"}
    MaxTime = 1
    MaxVersion = 2
    Far = 9
PROPERTIES
    NoTaskIsStranded
    DeadlineComes
