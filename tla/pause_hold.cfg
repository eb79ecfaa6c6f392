\* PauseControl
SPECIFICATION FairSpec
CONSTANTS
    Networks = {wifi, mobile}
    NoNet = NoNet
    HalfUp = HalfUp
    ScreenOffPref = TRUE
    NetChangePref = TRUE
    DoubleTap = FALSE
    Happenings = {"net", "screen", "tap", "drop"}
    MaxEvents = 3
INVARIANTS
    TypeOK
    HoldIsKnown
    ReleaseIsArmed
    NotHeldWhenWanted
PROPERTIES
    SettlesAgain
    EventuallyConnected
\* Everything may settle for good: the environment owes no further event.
CHECK_DEADLOCK FALSE
