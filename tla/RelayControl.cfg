SPECIFICATION Spec
CONSTANTS
    Sessions = {s1, s2}
    Handlers = {h1, h2, h3}
    None = None
    Sweeper = Sweeper
    TTL = 0
    MaxTime = 1
    MaxItems = 1
    MaxBytes = 2
    MaxFrames = 0
    FrameSize <- MCFrameSize
SYMMETRY MCSymmetry
INVARIANTS
    OneBinding
    NoLostConnection
    RemovedIsBeingClosed
PROPERTY NoLateReservation
