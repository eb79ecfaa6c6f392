\* HoldHistory
SPECIFICATION HistSpec
CONSTANTS
    Networks = {wifi, mobile}
    NoNet = NoNet
    HalfUp = HalfUp
    ScreenOffPref = TRUE
    NetChangePref = FALSE
    DoubleTap = FALSE
    Happenings = {"net", "screen", "tap", "drop"}
    MaxEvents = 4
INVARIANTS
    PauseHolds
PROPERTIES
    NoReleaseWhilePausedByUser
    KeepsPromise
\* Everything may settle for good: the environment owes no further event.
CHECK_DEADLOCK FALSE
