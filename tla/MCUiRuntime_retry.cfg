SPECIFICATION UiSpec
CONSTANTS
    CommandBuffer = 2
    SessionSource = "generated"
    SavesFail = FALSE
    MaxKeys = 1
    MaxPresses = 1
    MaxOutputs = 1
PROPERTIES FailedResumeRetried
\* The user may stop typing, and the program may quit.
CHECK_DEADLOCK FALSE
