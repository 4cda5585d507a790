SPECIFICATION Spec
CONSTANTS
    t1 = t1
    Timers = {t1, t2}
    t2 = t2
    Interval <- TwoTimers
    Kinds = {"single", "periodic"}
    Clients = {c1, c2}
    TimersThread = TimersThread
    Stopper = Stopper
    NoThread = NoThread
    NoCall = NoCall
    Operations = {"start", "restart", "stop", "unregister"}
    MayStop = TRUE
    MaxCalls = 3
INVARIANTS ActiveMatchesRunning CallbackIsRegistered
CHECK_DEADLOCK FALSE
