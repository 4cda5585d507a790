---------------------------- MODULE HsmStructure ----------------------------
(***************************************************************************)
(* What an application registers before it initialises a state machine     *)
(* (HsmImpl.cpp, 193-385), and the read-only queries the transition engine *)
(* asks of it.  The registered structure is a parameter: nothing in the    *)
(* engine changes it.                                                      *)
(*                                                                         *)
(* Callbacks that a program supplies are abstracted to what the engine     *)
(* looks at: a transition condition to a name whose truth is chosen anew   *)
(* at each evaluation, onEntering/onExiting to the states that may refuse. *)
(***************************************************************************)
EXTENDS Integers, Sequences, FiniteSets

CONSTANTS
    States,         \* every registered StateID_t
    Events,         \* every EventID_t
    Conditions,     \* condition callbacks
    NoState,        \* INVALID_HSM_STATE_ID
    NoEvent,        \* INVALID_HSM_EVENT_ID
    NoCondition,    \* an empty condition callback
    Initial,        \* mInitialState
    Parent,         \* mSubstates, read from the child
    EntryPoints,    \* mSubstateEntryPoints, in the order of registration
    Transitions,    \* mTransitionsByEvent, in the order of registration
    FinalEvent,     \* mFinalStates
    History,        \* mHistoryStates and the constant part of mHistoryData
    RaisedOn,       \* mRegisteredActions of kind StateAction::TRANSITION
    CanRefuseEntry, \* states whose onEntering may return false
    CanRefuseExit   \* states whose onExiting may return false

-----------------------------------------------------------------------------
Guarded == [cond : Conditions \cup {NoCondition}, expected : BOOLEAN]

StateEntryPoint == [parent : States, state : States,
                    onEvent : Events \cup {NoEvent}, guard : Guarded]

RegisteredTransition == [from : States, to : States, onEvent : Events,
                         internal : BOOLEAN, guard : Guarded]

ASSUME NamesAssumption ==
    /\ NoState \notin States
    /\ NoEvent \notin Events
    /\ NoCondition \notin Conditions
    /\ Initial \in States

ASSUME ParentAssumption == Parent \in [States -> States \cup {NoState}]

ASSUME EntryPointsAssumption ==
    /\ EntryPoints \in Seq(StateEntryPoint)
    /\ \A i \in DOMAIN EntryPoints :
           EntryPoints[i].parent = Parent[EntryPoints[i].state]

ASSUME TransitionsAssumption == Transitions \in Seq(RegisteredTransition)

ASSUME FinalAssumption ==
    /\ DOMAIN FinalEvent \subseteq States
    /\ \A s \in DOMAIN FinalEvent : FinalEvent[s] \in Events \cup {NoEvent}

ASSUME HistoryAssumption ==
    /\ DOMAIN History \subseteq States
    /\ \A h \in DOMAIN History :
           History[h] \in [parent : States, type : {"SHALLOW", "DEEP"},
                           target : States \cup {NoState}]

ASSUME CallbacksAssumption ==
    /\ RaisedOn \in [{"ENTRY", "EXIT"} -> [States -> Seq(Events)]]
    /\ CanRefuseEntry \subseteq States
    /\ CanRefuseExit \subseteq States

-----------------------------------------------------------------------------
FinalStates   == DOMAIN FinalEvent
HistoryStates == DOMAIN History

\* The states isSubstateOf walks through from `s` up to its root: the least set
\* that holds the parent of `s` and, with a state, the parent of that state.
HoldsParents(S, s) ==
    /\ Parent[s] \in S \cup {NoState}
    /\ \A t \in S : Parent[t] \in S \cup {NoState}

Ancestors ==
    [s \in States |->
       {p \in States : \A S \in SUBSET States : HoldsParents(S, s) => p \in S}]

IsSubstateOf(parent, child) == parent \in Ancestors[child]

HasSubstates(s) == \E c \in States : Parent[c] = s

\* The child of `p` on the way down to its substate `s`.
ChildTowards(p, s) ==
    CHOOSE c \in {s} \cup Ancestors[s] : Parent[c] = p

-----------------------------------------------------------------------------
\* A condition callback answers TRUE exactly when it is in `truth`.
Holds(guard, truth) ==
    guard.cond = NoCondition \/ (guard.cond \in truth) = guard.expected

EntryMatches(point, s, e, truth) ==
    /\ point.parent = s
    /\ point.onEvent \in {NoEvent, e}
    /\ Holds(point.guard, truth)

\* getEntryPoints: which of the registered entry points of `s` apply.
GetEntryPoints(s, e, truth) ==
    {i \in DOMAIN EntryPoints : EntryMatches(EntryPoints[i], s, e, truth)}

(***************************************************************************)
(* The inner loop of findTransitionTarget: starting from the destination,  *)
(* composite states are replaced by their matching entry points at the     *)
(* back of the queue.  The search ends at the first state without          *)
(* substates (the transition is possible) or at the first composite state  *)
(* that no entry point opens (it is not), whatever else the queue holds.   *)
(***************************************************************************)
DestinationReachable(destination, e, truth) ==
    LET Opened(s) == SelectSeq(EntryPoints,
                               LAMBDA p : EntryMatches(p, s, e, truth))
        parentStates[n \in 0 .. Cardinality(States)] ==
            IF n = 0 THEN <<destination>>
            ELSE LET queue == parentStates[n - 1]
                     next  == Opened(Head(queue))
                 IN  IF next = <<>> THEN queue
                     ELSE Tail(queue) \o [i \in DOMAIN next |-> next[i].state]
    IN  ~ HasSubstates(Head(parentStates[Cardinality(States)]))

\* findTransitionTarget without the search of parents: the transitions of `s`
\* on `e` that may be taken, by their place in the order of registration.
FindTransitionTarget(s, e, truth) ==
    {i \in DOMAIN Transitions :
        /\ Transitions[i].from = s
        /\ Transitions[i].onEvent = e
        /\ Holds(Transitions[i].guard, truth)
        /\ DestinationReachable(Transitions[i].to, e, truth)}

-----------------------------------------------------------------------------
\* TransitionInfo, as far as the engine reads it once a target is determined.
TransitionInfo == [from : States, to : States, internal : BOOLEAN]

ExternalTransition(from, to) == [from |-> from, to |-> to, internal |-> FALSE]

\* An internal self-transition only calls its callback: no state is left.
IsInternalSelf(t) == t.from = t.to /\ t.internal
=============================================================================
