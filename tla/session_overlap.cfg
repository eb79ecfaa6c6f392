\* SessionLifecycle
SPECIFICATION Spec
CONSTANTS
    Sessions = {s1, s2}
    None = None
    Prompt = FALSE
    Overlap = {"stop", "exit"}
    Faults = {"config", "management", "exec"}
    Talkers = {}
    MaxStops = 1
SYMMETRY StartSymmetry
INVARIANTS
    OneProcess
    RunningIsOwned
\* The last session may end, or stay connected, for good.
CHECK_DEADLOCK FALSE
