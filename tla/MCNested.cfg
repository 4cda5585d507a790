SPECIFICATION Spec
CONSTANTS
    States = {"F", "P", "A", "Q", "B", "C", "H"}
    Events = {"go", "back", "out"}
    Conditions = {"cond"}
    NoState = NoState
    NoEvent = NoEvent
    NoCondition = NoCondition
    Initial = "F"
    Parent <- NestedParent
    EntryPoints <- NestedEntryPoints
    Transitions <- NestedTransitions
    FinalEvent <- NoFinal
    History <- NestedHistory
    RaisedOn <- NestedActions
    CanRefuseEntry = {"F"}
    CanRefuseExit = {"P", "A", "B"}
    Clients = {c1}
    NoClient = NoClient
    MayClear = {c1}
    MaySync = {c1}
    MayTimeOut = {c1}
    Posted = {"go", "back", "out"}
    MaxPending = 2
    MaxEmitted = 2
INVARIANTS NoDuplicateActive CanceledRestores PopNeverEmpty EmissionCoversPending
