SPECIFICATION Spec
CONSTANTS
    Net = {"n"}
    Unicast <- OwnAddress
    Anycast <- GroupAddress
    Caller = {"c1", "c2"}
    LoopId = {1, 2, 3, 4}
    Job = {"n"}
    AddressOf <- OneEach
    MaxFaults = 0
    RegistersFirst = TRUE
    None = None
CHECK_DEADLOCK FALSE
INVARIANT DeliveredIsSeen
