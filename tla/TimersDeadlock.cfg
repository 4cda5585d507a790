SPECIFICATION FairSpec
CONSTANTS
    t1 = t1
    Timers = {t1, t2}
    t2 = t2
    Interval <- TwoTimers
    Kinds = {"single"}
    Clients = {c1}
    TimersThread = TimersThread
    Stopper = Stopper
    NoThread = NoThread
    NoCall = NoCall
    Operations = {"start"}
    MayStop = FALSE
    MaxCalls = 2
PROPERTY CallsReturn
CHECK_DEADLOCK FALSE
