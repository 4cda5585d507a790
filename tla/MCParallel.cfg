SPECIFICATION Spec
CONSTANTS
    States = {"F", "P", "A", "Q", "B", "C", "Y", "Z"}
    Events = {"go", "step", "out", "done"}
    Conditions = {}
    NoState = NoState
    NoEvent = NoEvent
    NoCondition = NoCondition
    Initial = "F"
    Parent <- ParallelParent
    EntryPoints <- ParallelEntryPoints
    Transitions <- ParallelTransitions
    FinalEvent <- ParallelFinal
    History <- NoHistory
    RaisedOn <- NoActions
    CanRefuseEntry = {}
    CanRefuseExit = {}
    Clients = {c1}
    NoClient = NoClient
    MayClear = {}
    MaySync = {c1}
    MayTimeOut = {}
    Posted = {"go", "step", "out"}
    MaxPending = 2
    MaxEmitted = 2
INVARIANTS LegalConfiguration InnerTransitionsFirst FinalEventWaits
