\* Routes
SPECIFICATION Spec
CONSTANTS
    Bits = 3
    NoNet = NoNet
    MaxRoutes = 3
    Spaces = {"v4"}
    Awkward = TRUE
INVARIANTS
    AssertionsHold
