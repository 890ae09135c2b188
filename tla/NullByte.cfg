SPECIFICATION Spec
CONSTANTS
    AddressByte = {"2", "5", "F", "_", "/"}
    Plain = {"2", "5", "F"}
    Hex <- HexDigits
    MaxQueueName = 5
    MaxAddress = 1
    IdByte = {":", ".", "x", "0"}
    Null = "0"
    MaxId = 2
    MaxUses = 2
    FiredIds <- NullFired
CHECK_DEADLOCK FALSE
INVARIANT BranchScanIsExact
