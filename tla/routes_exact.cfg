\* Routes
SPECIFICATION FairSpec
CONSTANTS
    Bits = 3
    NoNet = NoNet
    MaxRoutes = 3
    Spaces = {"v4", "v4old", "v6"}
    Awkward = FALSE
INVARIANTS
    SpaceIsKept
    PositiveIsExact
    AssertionsHold
PROPERTIES
    Terminates
