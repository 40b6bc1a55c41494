SPECIFICATION PipelineSpec
CONSTANTS
    Backends = {"a", "b"}
    NoName = "none"
    Profiles <- OneProfile
    MaxSwitches = 1
    Main = "main"
    Subagents = {}
    Teammates = {}
    Choices = {"none"}
    Blocks = {x1, x2}
    Requests = {r1, r2}
    Asks = {"none", "a", "b"}
    GraceEnds = TRUE
    Polite = TRUE
    MaxSession = 3
SYMMETRY Interchangeable
PROPERTIES
    ValidHistoryKept
    WholeHistoryOrNone
