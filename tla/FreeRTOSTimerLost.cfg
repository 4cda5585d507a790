SPECIFICATION Spec
CONSTANTS
    Timers = {t1}
    NoTimer = NoTimer
    Platforms = {"FreeRTOS"}
    QueueFills = FALSE
    MaxSources = 4
    MaxCalls = 4
INVARIANTS StartedTicks
CHECK_DEADLOCK FALSE
