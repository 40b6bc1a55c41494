SPECIFICATION UiFairSpec
CONSTANTS
    CommandBuffer = 1
    SessionSource = "generated"
    SavesFail = TRUE
    MaxKeys = 2
    MaxPresses = 2
    MaxOutputs = 1
INVARIANTS
    AttachedToPresent
    InputInOrder
PROPERTIES
    BufferedInputReachesPty
    ExitConcernsPresent
    RestartCompletesWhenSaved
\* The user may stop typing, and the program may quit.
CHECK_DEADLOCK FALSE
