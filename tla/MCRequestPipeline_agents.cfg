SPECIFICATION PipelineSpec
CONSTANTS
    Backends = {"a", "b"}
    NoName = "none"
    Profiles <- TwoProfiles
    MaxSwitches = 1
    Main = "main"
    Subagents = {"s1"}
    Teammates = {"t1"}
    Choices = {"none", "b"}
    Blocks = {}
    Requests = {r1}
    Asks = {"none", "a"}
    GraceEnds = FALSE
    Polite = FALSE
    MaxSession = 2
INVARIANTS
    PipelineTypeOK
    AffinityInFlight
    ActiveIsConfigured
