SPECIFICATION FairSpec
CONSTANTS
    Bits = 4
    MinPrefix = 2
    InScope <- MCInScope
    Private <- MCPrivate
    Allowlists <- MCAllowlists
    Ports <- MCPorts
    Workers = {w1, w2}
CHECK_DEADLOCK FALSE
INVARIANTS
    ScanIsExact
    TargetsAreRight
PROPERTY ScanReturns
