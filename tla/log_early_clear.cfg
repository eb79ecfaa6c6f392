\* LogCache
SPECIFICATION Spec
CONSTANTS
    MAXLOGENTRIES = 3
    Faults = {"disk", "open"}
    EarlyClear = TRUE
    MaxLines = 6
    MaxClears = 1
    MaxFaults = 1
    MaxStarts = 3
    Garbage = Garbage
    None = None
INVARIANTS
    ClearedStaysAway
\* The process may be dead for good.
CHECK_DEADLOCK FALSE
