\* SessionLifecycle
SPECIFICATION FairSpec
CONSTANTS
    Sessions = {s1, s2}
    None = None
    Prompt = FALSE
    Overlap = {}
    Faults = {"config", "management", "exec"}
    Talkers = {s1}
    MaxStops = 1
PROPERTIES
    SentStopsEnd
    ComesToRest
\* The last session may end, or stay connected, for good.
CHECK_DEADLOCK FALSE
