SPECIFICATION FairSpec
CONSTANTS
    Recipients = {r1, r2}
    Workers = {w1}
    BatchSize = 1
    FaultKinds = {"send", "crash", "lease"}
    MaxCopies = 2
    MaxFaults = 1
    MaxOps = 0
    MaxDelays = 1
    NoRow = NoRow
INVARIANTS
    BoundedOverrun
PROPERTIES
    EventuallyDrained
CHECK_DEADLOCK FALSE
