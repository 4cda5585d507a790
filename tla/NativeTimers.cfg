SPECIFICATION FairSpec
CONSTANTS
    Timers = {t1}
    NoTimer = NoTimer
    Platforms = {"GLib", "GLibmm", "Qt", "FreeRTOS", "Arduino"}
    QueueFills = TRUE
    MaxSources = 4
    MaxCalls = 4
INVARIANTS ActiveTicks ArmedIsRegistered
PROPERTIES SingleShotExpires
CHECK_DEADLOCK FALSE
