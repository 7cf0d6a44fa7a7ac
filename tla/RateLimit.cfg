SPECIFICATION Spec
CONSTANTS
    Clients = {c1, c2}
    Requests = {r1, r2, r3, r4}
    None = None
    Proxy = Proxy
    Burst = 1
    Every = 2
    GlobalBurst = 3
    GlobalEvery = 2
    EntryTTL = 4
    CleanupEvery = 1
    Stall = 1
    MaxTime = 7
SYMMETRY MCSymmetry
CHECK_DEADLOCK FALSE
INVARIANTS
    ClientsKeepRate
    ServiceKeepsRate
PROPERTY LimitedOnlyWhenSpent
