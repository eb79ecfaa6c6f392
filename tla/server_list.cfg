\* ServerList
SPECIFICATION FairSpec
CONSTANTS
    MaxWork = 2
    MaxTasks = 2
    MaxOpens = 2
    MaxFaults = 1
    Blank = Blank
    Garbled = Garbled
    None = None
INVARIANTS
    FlagMeansLoading
    ListIsSaved
    FavoritesAreCurrent
PROPERTIES
    FileIsReadWhole
    CoverComesDown
\* The activity may be closed for good.
CHECK_DEADLOCK FALSE
