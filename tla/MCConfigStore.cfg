SPECIFICATION StoreFairSpec
CONSTANTS
    Backends = {"claude", "a"}
    NoName = "none"
    Profiles = {}
    MaxSwitches = 0
    Handlers = {"w1", "w2"}
    Mode = "claude"
    NeedsKey = {"a"}
    FirstConfig <- MCFirstConfig
    Edits <- MCEdits
    Settings = {1}
    Passwords = {1}
    MaxJobs = 3
    MaxCrashes = 1
INVARIANTS EditsAreSerial InstanceFollowsFile
PROPERTIES SoleSaveRepairs SettingsUndoNoEdit KeysKept JobsEnd
\* The jobs run out, and an instance may find no config to start from.
CHECK_DEADLOCK FALSE
