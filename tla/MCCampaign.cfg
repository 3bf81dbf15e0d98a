SPECIFICATION Spec
CONSTANTS
    Recipients = {r1}
    Workers = {w1, w2}
    BatchSize = 1
    FaultKinds = {"send", "crash", "lease", "write", "fanout", "cancel", "result"}
    MaxCopies = 2
    MaxFaults = 1
    MaxOps = 1
    MaxDelays = 1
    NoRow = NoRow
SYMMETRY WorkerSymmetry
INVARIANTS
    SendsAccounted
    SentMeansSent
PROPERTIES
    LogImplementsSendClaim
    StatusSteps
    SentIsKept
CHECK_DEADLOCK FALSE
