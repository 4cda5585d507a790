----------------------------- MODULE HsmHistory -----------------------------
(***************************************************************************)
(* The engine with an auxiliary variable that remembers which states a     *)
(* transition into a history state is to bring back, until the next event. *)
(***************************************************************************)
EXTENDS HsmProperties

VARIABLE goal   \* [history, states]

NoGoal == [history |-> NoState, states |-> {}]

GoalNext ==
    goal' = CASE pc = "restore" /\ pc' = "restoreParent" ->
                   [history |-> Entered, states |-> ToSet(mHistoryData[Entered])]
              [] pc = "pop" /\ dispatch'.event.transitionType = "REGULAR" -> NoGoal
              [] OTHER -> goal

HistoryInit == Init /\ goal = NoGoal
HistoryNext == Next /\ GoalNext
HistorySpec == HistoryInit /\ [][HistoryNext]_<<vars, goal>>

\* Before the next event is taken, the states a history remembered are active
\* again: with a DEEP history they are all the active states of its parent,
\* with a SHALLOW one all its active children.
HistoryRestored ==
    Settled /\ goal # NoGoal =>
        LET parent == History[goal.history].parent
        IN  goal.states = {s \in Active : IF History[goal.history].type = "DEEP"
                                          THEN IsSubstateOf(parent, s)
                                          ELSE Parent[s] = parent}
=============================================================================
