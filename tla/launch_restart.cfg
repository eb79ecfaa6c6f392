\* Launch
SPECIFICATION Spec
CONSTANTS
    Quick = FALSE
    Faults = {}
    MaxTaps = 1
    MaxKills = 1
    None = None
PROPERTIES
    RestartReconnects
CHECK_DEADLOCK FALSE
