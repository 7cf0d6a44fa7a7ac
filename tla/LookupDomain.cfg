SPECIFICATION Spec
CONSTANTS
    Requests = {r1}
    Keys = {"domain"}
    KindOf <- MCKindOf
    None = None
    Slots = 2
    TTLFull = 2
    TTLPartial = 1
    MaxTime = 0
CHECK_DEADLOCK FALSE
INVARIANT TotalFailureNotCached
