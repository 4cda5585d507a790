SPECIFICATION Spec
CONSTANTS
    States = {"A", "P", "B", "C"}
    Events = {"E1", "E2"}
    Conditions = {}
    NoState = NoState
    NoEvent = NoEvent
    NoCondition = NoCondition
    Initial = "A"
    Parent <- SyncParent
    EntryPoints <- SyncEntryPoints
    Transitions <- SyncTransitions
    FinalEvent <- NoFinal
    History <- NoHistory
    RaisedOn <- NoActions
    CanRefuseEntry = {}
    CanRefuseExit = {}
    Clients = {c1, c2}
    NoClient = NoClient
    MayClear = {c2}
    MaySync = {}
    MayTimeOut = {}
    Posted = {"E1", "E2"}
    MaxPending = 2
    MaxEmitted = 2
INVARIANTS LegalConfiguration
