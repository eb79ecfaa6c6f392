\* PauseControl
SPECIFICATION Spec
CONSTANTS
    Networks = {wifi, mobile}
    NoNet = NoNet
    HalfUp = HalfUp
    ScreenOffPref = TRUE
    NetChangePref = FALSE
    DoubleTap = FALSE
    Happenings = {"screen", "tap"}
    MaxEvents = 3
INVARIANTS
    UserPauseShown
\* Everything may settle for good: the environment owes no further event.
CHECK_DEADLOCK FALSE
