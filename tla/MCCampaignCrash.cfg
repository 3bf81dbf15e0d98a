SPECIFICATION FairSpec
CONSTANTS
    Recipients = {r1}
    Workers = {w1}
    BatchSize = 1
    FaultKinds = {"fanout"}
    MaxCopies = 2
    MaxFaults = 1
    MaxOps = 0
    MaxDelays = 1
    NoRow = NoRow
PROPERTIES
    EventuallyDrained
CHECK_DEADLOCK FALSE
