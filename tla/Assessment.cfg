SPECIFICATION Spec
CONSTANTS
    None = None
    Votes <- MCVotes
    Reports <- MCReports
    Slots = 2
    Timeout = 5
    OTXTimeout = 3
    WhoisTimeout = 15
    WhoisQueries = 3
    PollEvery = 1
    PollFor = 4
    MaxWait = 4
CHECK_DEADLOCK FALSE
INVARIANTS
    SlotsComeBack
    HighIsCorroborated
    ScoreOrdersEvidence
PROPERTIES
    EvidenceNeverWithdrawn
    ImplementsLookup
