\* SessionLifecycle
SPECIFICATION Spec
CONSTANTS
    Sessions = {s1, s2, s3}
    None = None
    Prompt = TRUE
    Overlap = {}
    Faults = {"exec"}
    Talkers = {s1, s2, s3}
    MaxStops = 2
SYMMETRY StartSymmetry
INVARIANTS
    NoOrphan
    NoRevival
    StopIsKept
    RunningIsShown
    GoneIsShown
\* The last session may end, or stay connected, for good.
CHECK_DEADLOCK FALSE
