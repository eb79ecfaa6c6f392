\* PauseControl
SPECIFICATION Spec
CONSTANTS
    Networks = {wifi, mobile}
    NoNet = NoNet
    HalfUp = HalfUp
    ScreenOffPref = FALSE
    NetChangePref = FALSE
    DoubleTap = TRUE
    Happenings = {"tap"}
    MaxEvents = 4
INVARIANTS
    NotHeldWhenWanted
\* Everything may settle for good: the environment owes no further event.
CHECK_DEADLOCK FALSE
