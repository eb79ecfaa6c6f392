\* ServerList
SPECIFICATION Spec
CONSTANTS
    MaxWork = 2
    MaxTasks = 2
    MaxOpens = 2
    MaxFaults = 0
    Blank = Blank
    Garbled = Garbled
    None = None
INVARIANTS
    CoverWhileLoading
CHECK_DEADLOCK FALSE
