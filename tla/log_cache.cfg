\* LogCache
SPECIFICATION FairSpec
CONSTANTS
    MAXLOGENTRIES = 3
    Faults = {"disk", "open"}
    EarlyClear = FALSE
    MaxLines = 6
    MaxClears = 1
    MaxFaults = 1
    MaxStarts = 3
    Garbage = Garbage
    None = None
INVARIANTS
    LinesStayInOrder
    NothingIsDropped
    FileIsBounded
    ClearedStaysAway
PROPERTIES
    RecoveryIsComplete
\* The process may be dead for good.
CHECK_DEADLOCK FALSE
