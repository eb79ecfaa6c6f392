\* PauseControl
SPECIFICATION Spec
CONSTANTS
    Networks = {wifi, mobile}
    NoNet = NoNet
    HalfUp = HalfUp
    ScreenOffPref = TRUE
    NetChangePref = TRUE
    DoubleTap = FALSE
    Happenings = {"net", "screen"}
    MaxEvents = 3
INVARIANTS
    ScreenPauseHolds
\* Everything may settle for good: the environment owes no further event.
CHECK_DEADLOCK FALSE
