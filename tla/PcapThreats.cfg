SPECIFICATION Spec
CONSTANTS
    Addrs = {"a", "long"}
    LongAddrs = {"long"}
    MaxFlows = 1
    MaxPending = 1
    AlertIDs = {}
    MaxAlerts = 1
    Severities = {}
    Bottom = 1
    Threshold = 0
    MaxArrivals = 1
CHECK_DEADLOCK FALSE
INVARIANT AllThreatsAreMarked
