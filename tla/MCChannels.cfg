CONSTANTS
    Instances = {gateway, worker}
    MaxRotations = 2
    MaxLostUpdates = 0
SPECIFICATION ChannelsSpec
INVARIANTS
    RotatedTokenIsVisible
CHECK_DEADLOCK FALSE
