\* PauseControl
SPECIFICATION Spec
CONSTANTS
    Networks = {wifi, mobile}
    NoNet = NoNet
    HalfUp = HalfUp
    ScreenOffPref = TRUE
    NetChangePref = TRUE
    DoubleTap = FALSE
    Happenings = {"screen"}
    MaxEvents = 3
INVARIANTS
    ScreenOnCounts
\* Everything may settle for good: the environment owes no further event.
CHECK_DEADLOCK FALSE
