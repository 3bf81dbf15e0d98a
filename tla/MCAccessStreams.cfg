CONSTANTS
    Sessions = {s1}
    ApiKeys = {k1}
    Admins = {a1, a2}
    MaxRequests = 2
    MaxFailures = 0
SPECIFICATION AccessSpec
INVARIANTS
    StreamsGoWithSessions
CHECK_DEADLOCK FALSE
