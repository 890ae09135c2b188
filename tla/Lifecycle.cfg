SPECIFICATION Spec
CONSTANTS
    Net = {"n"}
    Unicast <- OwnAddress
    Anycast <- GroupAddress
    Caller = {"c1", "c2"}
    LoopId = {1, 2, 3, 4}
    Job = {"any"}
    AddressOf <- OneEach
    MaxFaults = 1
    RegistersFirst = FALSE
    None = None
CHECK_DEADLOCK FALSE
INVARIANTS
    NoLoopIsLeftBehind
    StartedIsServed
PROPERTIES
    ClosesUnlessAlive
    StopReturns
    MessageArrives
