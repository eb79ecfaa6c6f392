\* Launch
SPECIFICATION Spec
CONSTANTS
    Quick = FALSE
    Faults = {}
    MaxTaps = 2
    MaxKills = 0
    None = None
INVARIANTS
    ActiveIsShown
CHECK_DEADLOCK FALSE
