SPECIFICATION PipelineSpec
CONSTANTS
    Backends = {"a", "b"}
    NoName = "none"
    Profiles <- OneProfile
    MaxSwitches = 1
    Main = "main"
    Subagents = {}
    Teammates = {}
    Choices = {"none"}
    Blocks = {x1}
    Requests = {r1, r2}
    Asks = {"none", "b"}
    GraceEnds = FALSE
    Polite = FALSE
    MaxSession = 3
SYMMETRY Interchangeable
INVARIANTS
    ThinkingInv
PROPERTIES
    KeepsThinkingPromise
