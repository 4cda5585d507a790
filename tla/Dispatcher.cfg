SPECIFICATION FairSpec
CONSTANTS
    Handlers = {h1, h2}
    NoHandler = NoHandler
    Signals = {e1}
    Clients = {c1}
    CacheSize = 1
    MayStop = TRUE
    MayRelease = {h1}
    MayEnqueue = {h2}
    MayAct = TRUE
    MaxPending = 2
    MaxEnqueued = 2
    MaxActions = 1
INVARIANTS NeverSleepsOnEvents ReleasedIsQuiet
PROPERTIES Stops EmissionsServed ReleaseEnds EnqueuedSeenAwake
CHECK_DEADLOCK FALSE
