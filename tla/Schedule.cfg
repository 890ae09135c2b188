SPECIFICATION Spec
CONSTANTS
    ScheduleId = {"s"}
    ScheduleData <- EachFiring
    ClientId <- TakenIds
    PromiseData <- ClientData
    Slot = {1, 2, 3, 4, 5, 6}
    WorkerLease = 1
    MaxMillis = 4
    MaxTime = 3
    MaxCreates = 2
    MaxFaults = 2
    Id <- FiringIds
    Address = {"w"}
    Pid = {}
    None = None
    MaxDispatch = 1
    Ticket = {1}
CHECK_DEADLOCK FALSE
INVARIANTS
    TypeOK
    NextFiringIsScheduled
    NoFiringIsSkipped
    NoFiringIsEarly
    DeadlineAfterFiring
PROPERTY ScheduleFires
