SPECIFICATION HistorySpec
CONSTANTS
    States = {"F", "P", "A", "Q", "B", "C", "X", "H", "K"}
    Events = {"go", "next", "back", "deep", "leave"}
    Conditions = {}
    NoState = NoState
    NoEvent = NoEvent
    NoCondition = NoCondition
    Initial = "F"
    Parent <- RegionsParent
    EntryPoints <- RegionsEntryPoints
    Transitions <- RegionsTransitions
    FinalEvent <- NoFinal
    History <- RegionsHistories
    RaisedOn <- NoActions
    CanRefuseEntry = {}
    CanRefuseExit = {}
    Clients = {c1}
    NoClient = NoClient
    MayClear = {}
    MaySync = {}
    MayTimeOut = {}
    Posted = {"go", "next", "back", "deep", "leave"}
    MaxPending = 2
    MaxEmitted = 2
PROPERTIES LeavesOnlyByExit
