SPECIFICATION Spec
CONSTANTS
    Requests = {r1, r2}
    Keys = {"url"}
    KindOf <- MCKindOf
    None = None
    Slots = 2
    TTLFull = 2
    TTLPartial = 1
    MaxTime = 1
CHECK_DEADLOCK FALSE
INVARIANT OptInIsSubmitted
