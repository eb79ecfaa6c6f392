\* Launch
SPECIFICATION Spec
CONSTANTS
    Quick = TRUE
    Faults = {}
    MaxTaps = 2
    MaxKills = 0
    None = None
INVARIANTS
    OneStart
CHECK_DEADLOCK FALSE
