\* ServerList
SPECIFICATION Spec
CONSTANTS
    MaxWork = 3
    MaxTasks = 2
    MaxOpens = 1
    MaxFaults = 0
    Blank = Blank
    Garbled = Garbled
    None = None
INVARIANTS
    OverlapIsSaved
CHECK_DEADLOCK FALSE
