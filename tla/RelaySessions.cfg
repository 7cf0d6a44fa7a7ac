SPECIFICATION FairSpec
CONSTANTS
    Sessions = {s1}
    Handlers = {h1, h2}
    None = None
    Sweeper = Sweeper
    TTL = 0
    MaxTime = 1
    MaxItems = 2
    MaxBytes = 3
    MaxFrames = 4
    FrameSize <- MCFrameSize
INVARIANTS
    TypeOK
    FramesInOrder
    BufferIsSound
PROPERTIES
    ImplementsChannel
    ExpiredIsRemoved
    PartnerIsClosed
    HandlersReturn
