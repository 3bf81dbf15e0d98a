CONSTANTS
    NumMessages = 2
    Scripts <- MCScripts
    NumHandlers = 2
    MaxFailedRuns = 2
SPECIFICATION InboundSpec
PROPERTY
    ManualAssignmentKept
CHECK_DEADLOCK FALSE
