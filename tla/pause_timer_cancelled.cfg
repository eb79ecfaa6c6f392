\* PauseControl
SPECIFICATION Spec
CONSTANTS
    Networks = {wifi, mobile}
    NoNet = NoNet
    HalfUp = HalfUp
    ScreenOffPref = FALSE
    NetChangePref = TRUE
    DoubleTap = FALSE
    Happenings = {"net", "screen"}
    MaxEvents = 4
INVARIANTS
    NetworkLossDetected
\* Everything may settle for good: the environment owes no further event.
CHECK_DEADLOCK FALSE
