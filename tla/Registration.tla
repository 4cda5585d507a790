---------------------------- MODULE Registration ----------------------------
(***************************************************************************)
(* The calls that build the structure of a state machine (HsmImpl.cpp,     *)
(* 98-385), in any order and number.  The engine takes what they build as  *)
(* a parameter (HsmStructure) and walks the parent relation without a      *)
(* bound: what it relies on is what the calls have to guarantee, or to     *)
(* leave to the program.                                                   *)
(*                                                                         *)
(* A multimap or a list whose order no query depends on is a set.          *)
(***************************************************************************)
EXTENDS Integers, Sequences, FiniteSets

CONSTANTS
    States,         \* StateID_t, numbers
    Events,         \* EventID_t
    Timers,         \* TimerID_t
    NoState,        \* INVALID_HSM_STATE_ID
    NoEvent,        \* INVALID_HSM_EVENT_ID
    Initial,        \* the initial state given to the constructor
    Named,          \* bound: the states the other calls name
    MaxSubstates,   \* bound: entries of mSubstates
    MaxEntryPoints, \* bound: entries of mSubstateEntryPoints
    MaxOthers       \* bound: calls other than registerSubstate

ASSUME RegistrationAssumption ==
    /\ States \subseteq Int
    /\ NoState \notin States
    /\ NoEvent \notin Events
    /\ Initial \in States
    /\ Named \subseteq States
    /\ MaxSubstates \in Nat
    /\ MaxEntryPoints \in Nat
    /\ MaxOthers \in Nat

VARIABLES
    safe,                   \* built with HSM_ENABLE_SAFE_STRUCTURE
    initialized,            \* mDispatcher is set
    mInitialState,
    mRegisteredStates,
    mFinalStates,           \* records [state, event], one per state
    mSubstates,             \* records [parent, child]
    mSubstateEntryPoints,   \* list of records, in the order of registration
    mTopLevelStates,
    mHistoryStates,         \* records [parent, child]: the multimap
    mHistoryData,           \* records [state, type, target], one per state
    mTransitionsByEvent,    \* list of records, in the order of registration
    mTimers,                \* records [timer, event], one per timer
    mRegisteredActions,     \* records [state, trigger, action]
    others                  \* auxiliary: calls counted by MaxOthers

substateVars == <<mSubstates, mSubstateEntryPoints>>
stateVars    == <<mRegisteredStates, mTopLevelStates>>
historyVars  == <<mHistoryStates, mHistoryData>>
otherVars    == <<mFinalStates, mTransitionsByEvent, mTimers, mRegisteredActions>>
startVars    == <<initialized, mInitialState>>
vars == <<safe, substateVars, stateVars, historyVars, otherVars, startVars, others>>

-----------------------------------------------------------------------------
Link        == [parent : States, child : States]
EntryPoint  == [parent : States, state : States, onEvent : Events \cup {NoEvent}]
HistoryInfo == [state : States, type : {"SHALLOW", "DEEP"}, target : States \cup {NoState}]
RegisteredTransition == [from : States, to : States, onEvent : Events, internal : BOOLEAN]
Action      == {"START_TIMER", "RESTART_TIMER", "STOP_TIMER", "TRANSITION"}
Trigger     == {"ON_STATE_ENTRY", "ON_STATE_EXIT"}

TypeOK ==
    /\ safe \in BOOLEAN
    /\ initialized \in BOOLEAN
    /\ mInitialState \in States
    /\ mRegisteredStates \subseteq States
    /\ mFinalStates \subseteq [state : States, event : Events \cup {NoEvent}]
    /\ mSubstates \subseteq Link
    /\ mSubstateEntryPoints \in Seq(EntryPoint)
    /\ mTopLevelStates \subseteq States
    /\ mHistoryStates \subseteq Link
    /\ mHistoryData \subseteq HistoryInfo
    /\ mTransitionsByEvent \in Seq(RegisteredTransition)
    /\ mTimers \subseteq [timer : Timers, event : Events]
    /\ mRegisteredActions \subseteq [state : States, trigger : Trigger, action : Action]
    /\ others \in Nat

\* A program that has registered nothing yet.
Init ==
    /\ safe \in BOOLEAN
    /\ initialized = FALSE
    /\ mInitialState = Initial
    /\ mRegisteredStates = {} /\ mTopLevelStates = {}
    /\ mFinalStates = {} /\ mTimers = {} /\ mRegisteredActions = {}
    /\ mSubstates = {} /\ mSubstateEntryPoints = <<>>
    /\ mHistoryStates = {} /\ mHistoryData = {}
    /\ mTransitionsByEvent = <<>>
    /\ others = 0

-----------------------------------------------------------------------------
ParentsOf(s) == {l.parent : l \in {k \in mSubstates : k.child = s}}

HasParentState(s) == ParentsOf(s) # {}
IsSubstate(s)     == HasParentState(s)

\* The walk of registerSubstate from a state to the parent of its parent: the
\* states it passes, which is the least set that holds its own parents.
HoldsParents(S, s) == \A t \in S \cup {s} : ParentsOf(t) \subseteq S

Ancestors(s) ==
    {p \in States : \A S \in SUBSET States : HoldsParents(S, s) => p \in S}

\* The list answers TRUE for the states it does not hold.
IsTopState(s) == s \notin mTopLevelStates

\* Mutant: the walk stops at the first parent.
AllowedUnlessParent(parent, substate) ==
    /\ parent # substate
    /\ safe => /\ ~ HasParentState(substate)
               /\ substate \notin ParentsOf(parent)

\* The sanity check of the safe build, and the one of any build.
RegistrationAllowed(parent, substate) ==
    /\ parent # substate
    /\ safe => /\ ~ HasParentState(substate)
               /\ substate \notin Ancestors(parent)

-----------------------------------------------------------------------------
\* registerSubstate and registerSubstateEntryPoint.
AddSubstate(parent, substate, entryPoint) ==
    /\ RegistrationAllowed(parent, substate)
    /\ mSubstates' = mSubstates \cup {[parent |-> parent, child |-> substate]}
    /\ mSubstateEntryPoints' = mSubstateEntryPoints \o entryPoint
    /\ mTopLevelStates' = IF safe /\ IsTopState(substate)
                          THEN mTopLevelStates \ {substate}
                          ELSE mTopLevelStates

\* Mutant: the entry point is added before the check.
RefuseAfterEntryPoint(parent, substate, entryPoint) ==
    /\ ~ RegistrationAllowed(parent, substate)
    /\ mSubstateEntryPoints' = mSubstateEntryPoints \o entryPoint
    /\ UNCHANGED <<mSubstates, mTopLevelStates>>

\* The call answers false.
RefuseSubstate(parent, substate, entryPoint) ==
    /\ ~ RegistrationAllowed(parent, substate)
    /\ UNCHANGED <<substateVars, mTopLevelStates>>

Register(parent, substate, entryPoint) ==
    /\ Cardinality(mSubstates) < MaxSubstates
    /\ Len(mSubstateEntryPoints \o entryPoint) <= MaxEntryPoints
    /\ \/ AddSubstate(parent, substate, entryPoint)
       \/ RefuseSubstate(parent, substate, entryPoint)
    /\ UNCHANGED <<safe, mRegisteredStates, historyVars, otherVars, startVars, others>>

RegisterSubstate(parent, substate) == Register(parent, substate, <<>>)

RegisterSubstateEntryPoint(parent, substate, event) ==
    Register(parent, substate,
             <<[parent |-> parent, state |-> substate, onEvent |-> event]>>)

-----------------------------------------------------------------------------
Counted == others < MaxOthers /\ others' = others + 1

\* operator[] of a map keeps one record per key.
Put(map, key, record) == {r \in map : r[key] # record[key]} \cup {record}

\* Part of registerFinalState too.
PutState(s) ==
    /\ mRegisteredStates' = mRegisteredStates \cup {s}
    /\ mTopLevelStates' = IF safe /\ ~ IsSubstate(s) /\ ~ IsTopState(s)
                          THEN mTopLevelStates \cup {s}
                          ELSE mTopLevelStates

RegisterState(s) ==
    /\ Counted
    /\ PutState(s)
    /\ UNCHANGED <<safe, substateVars, historyVars, otherVars, startVars>>

RegisterFinalState(s, event) ==
    /\ Counted
    /\ mFinalStates' = Put(mFinalStates, "state", [state |-> s, event |-> event])
    /\ PutState(s)
    /\ UNCHANGED <<safe, substateVars, historyVars, startVars,
                   mTransitionsByEvent, mTimers, mRegisteredActions>>

RegisterHistory(parent, h, type, target) ==
    /\ Counted
    /\ mHistoryStates' = mHistoryStates \cup {[parent |-> parent, child |-> h]}
    /\ mHistoryData' = Put(mHistoryData, "state",
                           [state |-> h, type |-> type, target |-> target])
    /\ UNCHANGED <<safe, substateVars, stateVars, otherVars, startVars>>

\* registerTransition, and registerSelfTransition with either type.
RegisterTransition(from, to, event, internal) ==
    /\ Counted
    /\ internal => from = to
    /\ mTransitionsByEvent' = Append(mTransitionsByEvent,
          [from |-> from, to |-> to, onEvent |-> event, internal |-> internal])
    /\ UNCHANGED <<safe, substateVars, stateVars, historyVars, startVars,
                   mFinalStates, mTimers, mRegisteredActions>>

RegisterTimer(t, event) ==
    /\ Counted
    /\ mTimers' = Put(mTimers, "timer", [timer |-> t, event |-> event])
    /\ UNCHANGED <<safe, substateVars, stateVars, historyVars, startVars,
                   mFinalStates, mTransitionsByEvent, mRegisteredActions>>

\* What registerStateAction wants of the arguments, by their types.
ArgsValid(action, types) ==
    CASE action = "START_TIMER" -> types = <<"numeric", "numeric", "bool">>
      [] action \in {"RESTART_TIMER", "STOP_TIMER"} -> types = <<"numeric">>
      [] action = "TRANSITION" -> types # <<>> /\ types[1] = "numeric"

RegisterStateAction(s, trigger, action, types) ==
    /\ Counted
    /\ mRegisteredActions' =
          IF ArgsValid(action, types)
          THEN mRegisteredActions
                 \cup {[state |-> s, trigger |-> trigger, action |-> action]}
          ELSE mRegisteredActions
    /\ UNCHANGED <<safe, substateVars, stateVars, historyVars, startVars,
                   mFinalStates, mTransitionsByEvent, mTimers>>

SetInitialState(s) ==
    /\ Counted
    /\ mInitialState' = IF initialized THEN mInitialState ELSE s
    /\ UNCHANGED <<safe, substateVars, stateVars, historyVars, otherVars, initialized>>

\* The part of initialize() that later registrations can see.
EndRegistration ==
    /\ Counted
    /\ ~ initialized
    /\ initialized' = TRUE
    /\ UNCHANGED <<safe, substateVars, stateVars, historyVars, otherVars, mInitialState>>

RegisterStructure ==
    \E p, s \in States :
        \/ RegisterSubstate(p, s)
        \/ \E e \in Events \cup {NoEvent} : RegisterSubstateEntryPoint(p, s, e)

RegisterData ==
    \E s \in Named :
        \/ RegisterState(s)
        \/ SetInitialState(s)
        \/ \E e \in Events \cup {NoEvent} : RegisterFinalState(s, e)
        \/ \E h \in Named \ {s}, type \in {"SHALLOW", "DEEP"}, t \in Named \cup {NoState} :
              RegisterHistory(s, h, type, t)
        \/ \E to \in Named, e \in Events, internal \in BOOLEAN :
              RegisterTransition(s, to, e, internal)
        \/ \E trigger \in Trigger, action \in Action,
              types \in {<<>>, <<"numeric">>, <<"numeric", "numeric", "bool">>} :
              RegisterStateAction(s, trigger, action, types)

Next ==
    \/ RegisterStructure
    \/ RegisterData
    \/ \E t \in Timers, e \in Events : RegisterTimer(t, e)
    \/ EndRegistration

Spec == Init /\ [][Next]_vars

-----------------------------------------------------------------------------
(* What the engine takes for granted (HsmStructure). *)

OneParent == \A s \in States : \A p, q \in ParentsOf(s) : p = q

\* Every set of states has one whose parent is elsewhere: no cycle in it.
Acyclic ==
    \A S \in SUBSET States : S # {} => \E s \in S : ParentsOf(s) \cap S = {}

\* The safe build keeps the promise of hsm.hpp:245-248 whatever is called in
\* whatever order: a state has one parent, and going up from any state ends.
\* isSubstateOf (HsmImpl.cpp:802-840) walks up without a bound.
SubstatesFormForest == safe => OneParent /\ Acyclic

\* What an entry point opens is a substate of the state it is registered for:
\* determineTargetState enters it without asking (HsmImpl.cpp:1210-1240).
EntryPointsInside ==
    \A i \in DOMAIN mSubstateEntryPoints :
        LET e == mSubstateEntryPoints[i]
        IN  [parent |-> e.parent, child |-> e.state] \in mSubstates

\* HsmImpl.hpp:228: "list of states which are not substates and dont have
\* substates of their own"
TopLevelListed ==
    safe => mTopLevelStates =
              {s \in mRegisteredStates : ~ \E l \in mSubstates : s \in {l.parent, l.child}}
=============================================================================
