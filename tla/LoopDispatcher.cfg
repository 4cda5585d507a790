SPECIFICATION FairSpec
CONSTANTS
    Platforms = {"GLib", "GLibmm", "Qt", "Arduino", "FreeRTOS"}
    Handlers = {h1, h2}
    NoHandler = NoHandler
    Clients = {c1, c2}
    Loop = Loop
    MayRelease = {h1}
    MayEnqueue = {h2}
    MayRestart = FALSE
    CacheSize = 1
    PipeSize = 6
    MaxCalls = 3
INVARIANTS NoWakeupLost GrowsOnlyByOverlap
PROPERTIES EmissionsServed WorkIsDone
CHECK_DEADLOCK FALSE
