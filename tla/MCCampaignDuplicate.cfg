SPECIFICATION Spec
CONSTANTS
    Recipients = {r1}
    Workers = {w1}
    BatchSize = 1
    FaultKinds = {"send"}
    MaxCopies = 2
    MaxFaults = 1
    MaxOps = 0
    MaxDelays = 0
    NoRow = NoRow
INVARIANTS
    NeverDuplicateSend
CHECK_DEADLOCK FALSE
