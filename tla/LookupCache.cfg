SPECIFICATION Spec
CONSTANTS
    Requests = {r1, r2, r3}
    Keys = {"url"}
    KindOf <- MCKindOf
    None = None
    Slots = 2
    TTLFull = 2
    TTLPartial = 1
    MaxTime = 3
CHECK_DEADLOCK FALSE
SYMMETRY MCSymmetry
INVARIANTS
    TypeOK
    NoStaleResponse
    FailuresNotServed
