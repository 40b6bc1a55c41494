SPECIFICATION LogSpec
CONSTANTS
    Requests = {"r1"}
    Paths = {"a", "b"}
    NoPath = "none"
    Configs <- MCConfigs
    ChannelSize = 1
    MaxBytes = 3
    MaxFiles = 2
    Day = 2
    Week = 1
    Sizes = {1, 2}
    MaxLines = 3
    MaxTime = 3
    MaxFaults = 1
    MaxChanges = 1
    MaxRestarts = 1
INVARIANTS
    TailKept
    LogStaysBounded
PROPERTIES
    LoweredLevelHides
CHECK_DEADLOCK FALSE
