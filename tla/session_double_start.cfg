\* SessionLifecycle
SPECIFICATION Spec
CONSTANTS
    Sessions = {s1, s2}
    None = None
    Prompt = TRUE
    Overlap = {"start"}
    Faults = {}
    Talkers = {}
    MaxStops = 0
SYMMETRY StartSymmetry
INVARIANTS
    OneProcess
\* The last session may end, or stay connected, for good.
CHECK_DEADLOCK FALSE
