\* Launch
SPECIFICATION Spec
CONSTANTS
    Quick = FALSE
    Faults = {"config", "convert", "password"}
    MaxTaps = 4
    MaxKills = 2
    None = None
INVARIANTS
    OneStart
    ActiveIsUnderWay
    PanelIsForActive
    CoverIsForPanel
CHECK_DEADLOCK FALSE
