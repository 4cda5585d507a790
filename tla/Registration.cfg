SPECIFICATION Spec
CONSTANTS
    States = {0, 1, 2, 3}
    Events = {1}
    Timers = {1}
    NoState = NoState
    NoEvent = NoEvent
    Initial = 0
    Named = {0, 1}
    MaxSubstates = 3
    MaxEntryPoints = 2
    MaxOthers = 1
INVARIANTS SubstatesFormForest EntryPointsInside
CHECK_DEADLOCK FALSE
