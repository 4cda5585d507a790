\* What the dispatcher does not promise: one property at a time.
SPECIFICATION FairSpec
CONSTANTS
    Handlers = {h1}
    NoHandler = NoHandler
    Signals = {e1, e2}
    Clients = {c1, c2}
    CacheSize = 2
    MayStop = FALSE
    MayRelease = {}
    MayEnqueue = {h1}
    MayAct = TRUE
    MaxPending = 1
    MaxEnqueued = 3
    MaxActions = 1
PROPERTY ActionsExecuted
\* PROPERTY EnqueuedDelivered
\* PROPERTY OldestFirst
\* INVARIANT WithinCacheSize
