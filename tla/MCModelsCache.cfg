SPECIFICATION MCSpec
CONSTANTS
    Backends = {"a", "b"}
    NoName = "none"
    Profiles <- MCProfiles
    MaxSwitches = 2
    Urls = {"u", "v"}
    h1 = h1
    h2 = h2
    Handlers = {h1, h2}
    CacheTtl = 2
    FetchTimeout = 1
    MaxTime = 3
CONSTRAINT OneMoves
SYMMETRY HandlerSymmetry
INVARIANTS
    CacheHoldsOwnLists
PROPERTIES
    ServedIsRecent
    ServedSinceSwitch
CHECK_DEADLOCK FALSE
