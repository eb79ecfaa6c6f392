\* ServerList
SPECIFICATION Spec
CONSTANTS
    MaxWork = 3
    MaxTasks = 2
    MaxOpens = 2
    MaxFaults = 0
    Blank = Blank
    Garbled = Garbled
    None = None
PROPERTIES
    AllPageIsLoaded
CHECK_DEADLOCK FALSE
