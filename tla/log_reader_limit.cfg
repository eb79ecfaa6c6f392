\* LogCache
SPECIFICATION Spec
CONSTANTS
    MAXLOGENTRIES = 3
    Faults = {}
    EarlyClear = FALSE
    MaxLines = 6
    MaxClears = 1
    MaxFaults = 1
    MaxStarts = 3
    Garbage = Garbage
    None = None
INVARIANTS
    ReaderLimitSuffices
\* The process may be dead for good.
CHECK_DEADLOCK FALSE
