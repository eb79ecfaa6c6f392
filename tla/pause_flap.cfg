\* PauseControl
SPECIFICATION Spec
CONSTANTS
    Networks = {wifi, mobile}
    NoNet = NoNet
    HalfUp = HalfUp
    ScreenOffPref = FALSE
    NetChangePref = TRUE
    DoubleTap = FALSE
    Happenings = {"net", "tap"}
    MaxEvents = 3
PROPERTIES
    NoReleaseWhilePausedByUser
\* Everything may settle for good: the environment owes no further event.
CHECK_DEADLOCK FALSE
