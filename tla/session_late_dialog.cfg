\* SessionLifecycle
SPECIFICATION Spec
CONSTANTS
    Sessions = {s1}
    None = None
    Prompt = TRUE
    Overlap = {"exit"}
    Faults = {}
    Talkers = {s1}
    MaxStops = 1
SYMMETRY StartSymmetry
INVARIANTS
    GoneIsShown
\* The last session may end, or stay connected, for good.
CHECK_DEADLOCK FALSE
