CONSTANTS
    NumRows = 2
    Relays = {p1, p2}
    BatchSize = 2
    MaxAttempts = 2
    MaxFaults = 1
    MaxReplays = 1
    NoRow = NoRow
    NumMessages = 2
    Scripts <- MCScripts
    NumHandlers = 2
    MaxFailedRuns = 2
    Sessions = {s1}
    ApiKeys = {k1}
    Admins = {p1, p2}
    MaxRequests = 2
    MaxFailures = 1
SPECIFICATION MCPlatformSpec
SYMMETRY TwoOfAKind
INVARIANTS
    NoLostEvent
    ExclusiveClaim
    AttemptsAreTries
    RecordedStopApplied
    DuplicatesNeedOverlap
    NoSilentLoss
    WelcomeOnce
    OneBotAnswer
    RevokedStaysRevoked
PROPERTIES
    DeadLetterKept
    ImplementsAtLeastOnce
CHECK_DEADLOCK FALSE
