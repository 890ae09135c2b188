SPECIFICATION Spec
CONSTANTS
    AddressByte = {"2", "5", "F", "_", "/"}
    Plain = {"2", "5", "F"}
    Hex <- HexDigits
    MaxQueueName = 5
    MaxAddress = 3
    IdByte = {":", ".", "x", "0"}
    Null = "0"
    MaxId = 3
    MaxUses = 2
    FiredIds <- PlainFired
CHECK_DEADLOCK FALSE
INVARIANTS
    DistinctQueues
    BranchInOrigin
    BranchScanIsExact
