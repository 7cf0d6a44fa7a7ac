SPECIFICATION Spec
CONSTANTS
    None = None
    Failure = Failure
    Sockets = {s1, s2}
    MaxAttempts = 3
    Panels = 2
    PollEvery = 2
    Burst = 6
    CallLimit = 2
    RunIds = {1, 2, 3, 4, 5, 6}
    MaxTime = 7
    MaxOpenings = 3
    LastOpening = 2
    Values = {"address", "link"}
    TypeOf <- MCTypeOf
    Private = {"link"}
    Searches = {q1, q2}
    HistoryMax = 1
CHECK_DEADLOCK FALSE
INVARIANTS
    PollingIsNotLimited
    PanelsAreFresh
    HistoryIsSound
    SettledViewIsTrue
    SubmissionIsChosen
    NeverStranded
    StatusIsTrue
PROPERTIES
    TokenUseIsBounded
    FindsAgent
