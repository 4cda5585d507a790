SPECIFICATION HistorySpec
CONSTANTS
    States = {"F", "P", "A", "Q", "B", "C", "H", "S"}
    Events = {"go", "back", "deep", "shallow"}
    Conditions = {}
    NoState = NoState
    NoEvent = NoEvent
    NoCondition = NoCondition
    Initial = "F"
    Parent <- HistoryParent
    EntryPoints <- HistoryEntryPoints
    Transitions <- HistoryTransitions
    FinalEvent <- NoFinal
    History <- Histories
    RaisedOn <- NoActions
    CanRefuseEntry = {"F"}
    CanRefuseExit = {"P", "A"}
    Clients = {c1}
    NoClient = NoClient
    MayClear = {}
    MaySync = {c1}
    MayTimeOut = {}
    Posted = {"go", "back", "deep", "shallow"}
    MaxPending = 2
    MaxEmitted = 2
INVARIANTS TypeOK HistoryRemembers HistoryRestored
PROPERTIES LeavesOnlyByExit
