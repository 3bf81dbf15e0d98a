SPECIFICATION FairSpec
CONSTANTS
    Recipients = {r1}
    Workers = {w1}
    BatchSize = 1
    FaultKinds = {}
    MaxCopies = 2
    MaxFaults = 0
    MaxOps = 1
    MaxDelays = 1
    NoRow = NoRow
PROPERTIES
    EventuallyDrained
CHECK_DEADLOCK FALSE
