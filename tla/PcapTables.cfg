SPECIFICATION Spec
CONSTANTS
    Addrs = {"v4", "v6"}
    LongAddrs = {"v6"}
    MaxFlows = 2
    MaxPending = 2
    AlertIDs = {"x", "y", "z"}
    MaxAlerts = 2
    Severities = {"warning", "critical"}
    Bottom = 2
    Threshold = 1
    MaxArrivals = 4
CHECK_DEADLOCK FALSE
INVARIANTS
    TableIsInOrder
    ThreatsAreMarked
    AlertsAreListed
