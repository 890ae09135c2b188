SPECIFICATION Spec
CONSTANTS
    Id = {"a"}
    Address = {"w"}
    Pid = {"p1"}
    None = None
    MaxDispatch = 2
    Ticket = {1, 2, 3}
    Origin <- OneOrigin
    Creations <- LeaseCreations
    Outcomes = {"resolved"}
    Ttl = {2}
    Requests = {"promise.create", "task.create"}
    Loop = {"l1"}
    Serves <- ServesOne
    Timers = Timers
    RetryTimeout = 1
    WorkerLease = 1
    Faults = {}
    MaxTime = 3
    MaxVersion = 2
PROPERTY DemotedAfterLease
