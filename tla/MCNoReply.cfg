CONSTANTS
    NoReplyRules = {1, 2}
    Delay <- MCDelay
    TimerHosts = {i1, i2}
    MaxClock = 5
    MaxHostCrashes = 1
SPECIFICATION NoReplySpec
PROPERTY
    UnansweredIsFollowedUp
CHECK_DEADLOCK FALSE
