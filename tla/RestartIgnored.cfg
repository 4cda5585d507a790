SPECIFICATION FairSpec
CONSTANTS
    t1 = t1
    Timers = {t1}
    t2 = t2
    Interval <- OneTimer
    Kinds = {"single"}
    Clients = {c1}
    TimersThread = TimersThread
    Stopper = Stopper
    NoThread = NoThread
    NoCall = NoCall
    Operations = {"start", "restart"}
    MayStop = FALSE
    MaxCalls = 2
PROPERTY RestartRevives
CHECK_DEADLOCK FALSE
