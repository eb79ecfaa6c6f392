\* SessionLifecycle
SPECIFICATION Spec
CONSTANTS
    Sessions = {s1}
    None = None
    Prompt = TRUE
    Overlap = {}
    Faults = {"config"}
    Talkers = {s1}
    MaxStops = 0
SYMMETRY StartSymmetry
INVARIANTS
    GoneIsShown
\* The last session may end, or stay connected, for good.
CHECK_DEADLOCK FALSE
