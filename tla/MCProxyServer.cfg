SPECIFICATION ProxyFairSpec
CONSTANTS
    Backends = {"a", "b"}
    NoName = "none"
    Requests = {"r1", "r2"}
    Capacity = 1
    Active = "a"
    Target <- MCTarget
    UpstreamStatus = {200, 400}
    MaxRetries = 1
INVARIANTS
    SnapshotCountsRecent
    AggregatesCountAnswers
    AnsweredIsCounted
    ConnectionsCounted
    DrainedMeansNobodyLeft
PROPERTIES
    QuitCompletes
CHECK_DEADLOCK FALSE
