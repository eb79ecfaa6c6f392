\* SessionLifecycle
SPECIFICATION Spec
CONSTANTS
    Sessions = {s1}
    None = None
    Prompt = TRUE
    Overlap = {"stop"}
    Faults = {}
    Talkers = {}
    MaxStops = 1
SYMMETRY StartSymmetry
INVARIANTS
    StopIsKept
\* The last session may end, or stay connected, for good.
CHECK_DEADLOCK FALSE
