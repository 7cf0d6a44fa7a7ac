SPECIFICATION ServiceSpec
CONSTANTS
    Requests = {r1, r2}
    Keys = {"hash"}
    KindOf <- MCKindOf
    None = None
    Slots = 2
    TTLFull = 2
    TTLPartial = 1
    MaxTime = 0
    Workers = {w1}
    QueueSize = 1
CHECK_DEADLOCK FALSE
INVARIANTS
    EventsAccounted
PROPERTIES
    LookupsAnswered
    TelemetryDrains
