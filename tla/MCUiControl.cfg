SPECIFICATION MCFairSpec
CONSTANTS
    Backends = {"a", "b"}
    NoName = "none"
    Profiles <- MCProfiles
    MaxSwitches = 1
    VisibleRows = 1
    InitialOverrides = {"none"}
    CommandBuffer = 2
    IpcBuffer = 2
    MaxKeys = 4
    MaxTimeouts = 1
    MaxEvents = 1
INVARIANTS
    KeysGoToDialog
    ChoicesInOrder
PROPERTIES
    HeaderCatchesUp
