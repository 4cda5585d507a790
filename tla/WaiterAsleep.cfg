SPECIFICATION FairSpec
CONSTANTS
    States = {"A", "P", "B", "C"}
    Events = {"E1", "E2"}
    Conditions = {}
    NoState = NoState
    NoEvent = NoEvent
    NoCondition = NoCondition
    Initial = "A"
    Parent <- SyncParent
    EntryPoints <- SyncEntryPoints
    Transitions <- SyncTransitions
    FinalEvent <- NoFinal
    History <- NoHistory
    RaisedOn <- NoActions
    CanRefuseEntry = {}
    CanRefuseExit = {"A"}
    Clients = {c1}
    NoClient = NoClient
    MayClear = {}
    MaySync = {c1}
    MayTimeOut = {}
    Posted = {"E1", "E2"}
    MaxPending = 1
    MaxEmitted = 1
PROPERTIES SyncReturns
