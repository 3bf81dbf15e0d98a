CONSTANTS
    NumRows = 2
    Relays = {w1}
    BatchSize = 1
    MaxAttempts = 2
    MaxFaults = 2
    MaxReplays = 1
    NoRow = NoRow
    Queues = {q1}
    Taps = {t1}
    BusMessages = {m1}
    MaxDrops = 4
    MaxThrows = 2
    Contacts = {c1, c2}
    LastStep = 2
    Schedulers = {i1, i2}
    StopOnReply = TRUE
    MaxTickFailures = 1
    Calls = {"c1", "c2", "c3"}
    KindOf <- MCKindOf
    BREAKER_THRESHOLD = 2
    MAX_ATTEMPTS = 2
    MediaMessages = {m1, m2}
    Fetchers = {f1, f2}
    JobTries = 2
    MaxDoubled = 1
    Keys = {k1, k2}
    Verifiers = {v1}
SPECIFICATION MCServicesSpec
INVARIANTS
    DeadDeliveredTwice
    EachStepOnce
    AnswerTellsTruth
    LinkedIsServed
PROPERTIES
    EventuallySettled
    ConsumersReturn
    MediaSettles
    OutageEnds
CHECK_DEADLOCK FALSE
