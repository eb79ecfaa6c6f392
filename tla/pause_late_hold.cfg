\* PauseControl
SPECIFICATION Spec
CONSTANTS
    Networks = {wifi, mobile}
    NoNet = NoNet
    HalfUp = HalfUp
    ScreenOffPref = FALSE
    NetChangePref = FALSE
    DoubleTap = FALSE
    Happenings = {"tap"}
    MaxEvents = 3
INVARIANTS
    UserPauseHolds
\* Everything may settle for good: the environment owes no further event.
CHECK_DEADLOCK FALSE
