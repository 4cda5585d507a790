----------------------------- MODULE MachineProofs -----------------------------
(***************************************************************************)
(* What holds around the engine of a state machine: the structure that the *)
(* calls before initialize() register, for every set of states and every   *)
(* number of calls, and the end of its life, release(), on any of the      *)
(* hosts and for any number of threads.                                    *)
(***************************************************************************)
EXTENDS Registration, Lifecycle, TLAPS

-----------------------------------------------------------------------------
(* The parent relation when one link is added *)

LEMMA LinkAdded ==
    ASSUME NEW p \in States, NEW c \in States,
           mSubstates' = mSubstates \cup {[parent |-> p, child |-> c]}
    PROVE  \A s : ParentsOf(s)' = IF s = c THEN ParentsOf(s) \cup {p} ELSE ParentsOf(s)
<1> TAKE s
<1>1. ParentsOf(s)' = {l.parent : l \in {k \in mSubstates' : k.child = s}}
  BY DEF ParentsOf
<1>2. CASE s = c
  <2>1. {k \in mSubstates' : k.child = s}
          = {k \in mSubstates : k.child = s} \cup {[parent |-> p, child |-> c]}
    BY <1>2
  <2>2. ASSUME NEW A, NEW r
        PROVE  {l.parent : l \in A \cup {r}} = {l.parent : l \in A} \cup {r.parent}
    OBVIOUS
  <2>3. [parent |-> p, child |-> c].parent = p
    OBVIOUS
  <2>4. ParentsOf(s)' = ParentsOf(s) \cup {p}
    BY <1>1, <2>1, <2>2, <2>3 DEF ParentsOf
  <2> QED
    BY <1>2, <2>4
<1>3. CASE s # c
  <2>1. {k \in mSubstates' : k.child = s} = {k \in mSubstates : k.child = s}
    BY <1>3
  <2> QED
    BY <1>1, <1>3, <2>1 DEF ParentsOf
<1> QED
  BY <1>2, <1>3

\* A state and its ancestors hold the parents of each of them.
LEMMA AncestorsClosed ==
    ASSUME mSubstates \subseteq Link, NEW s \in States
    PROVE  \A t \in Ancestors(s) \cup {s} : ParentsOf(t) \subseteq Ancestors(s)
<1> SUFFICES ASSUME NEW t \in Ancestors(s) \cup {s}, NEW q \in ParentsOf(t)
             PROVE  q \in Ancestors(s)
  OBVIOUS
<1>1. q \in States
  BY DEF ParentsOf, Link
<1>2. ASSUME NEW S \in SUBSET States, HoldsParents(S, s)
      PROVE  q \in S
  <2>1. t \in S \cup {s}
    BY <1>2 DEF Ancestors
  <2> QED
    BY <1>2, <2>1 DEF HoldsParents
<1> QED
  BY <1>1, <1>2 DEF Ancestors

\* The check of the safe build is the right one: a link to a state that is
\* not among the ancestors closes no cycle.
LEMMA LinkKeepsForest ==
    ASSUME mSubstates \subseteq Link, OneParent, Acyclic,
           NEW p \in States, NEW c \in States,
           p # c, ~ HasParentState(c), c \notin Ancestors(p),
           mSubstates' = mSubstates \cup {[parent |-> p, child |-> c]}
    PROVE  OneParent' /\ Acyclic'
<1>1. \A s : ParentsOf(s)' = IF s = c THEN {p} ELSE ParentsOf(s)
  BY LinkAdded DEF HasParentState
<1>2. OneParent'
  BY <1>1 DEF OneParent
<1>3. ASSUME NEW S \in SUBSET States, S # {}
      PROVE  \E s \in S : ParentsOf(s)' \cap S = {}
  <2>1. CASE p \notin S \/ c \notin S
    <3>1. CASE c \in S
      BY <1>1, <2>1, <3>1
    <3>2. CASE c \notin S
      BY <1>1, <1>3, <3>2 DEF Acyclic
    <3> QED
      BY <3>1, <3>2
  <2>2. CASE p \in S /\ c \in S
    <3> DEFINE above == S \cap (Ancestors(p) \cup {p})
    <3>1. above \in SUBSET States /\ above # {} /\ c \notin above
      BY <2>2
    <3>2. PICK s \in above : ParentsOf(s) \cap above = {}
      BY <3>1 DEF Acyclic
    <3>3. ParentsOf(s) \subseteq Ancestors(p)
      BY <3>2, AncestorsClosed
    <3>4. ParentsOf(s) \cap S = {}
      BY <3>2, <3>3
    <3>5. ParentsOf(s)' = ParentsOf(s)
      BY <1>1, <3>1, <3>2
    <3> QED
      BY <3>2, <3>4, <3>5
  <2> QED
    BY <2>1, <2>2
<1>4. Acyclic'
  BY <1>3 DEF Acyclic
<1> QED
  BY <1>2, <1>4

-----------------------------------------------------------------------------
(* The invariant *)

LinksOK == safe \in BOOLEAN /\ mSubstates \subseteq Link

EntriesOK == mSubstateEntryPoints \in Seq(EntryPoint)

RegistrationInv == LinksOK /\ SubstatesFormForest /\ EntriesOK /\ EntryPointsInside

LEMMA InvInit == Init => RegistrationInv
<1> SUFFICES ASSUME Init PROVE RegistrationInv
  OBVIOUS
<1>1. \A s : ParentsOf(s) = {}
  BY DEF Init, ParentsOf
<1> QED
  BY <1>1 DEF Init, RegistrationInv, LinksOK, EntriesOK, SubstatesFormForest,
              OneParent, Acyclic, EntryPointsInside

\* What does not touch the two tables keeps what is said of them.
LEMMA InvUnchanged ==
    ASSUME RegistrationInv, UNCHANGED <<safe, substateVars>>
    PROVE  RegistrationInv'
<1>1. \A s : ParentsOf(s)' = ParentsOf(s)
  BY DEF ParentsOf, substateVars
<1> QED
  BY <1>1 DEF RegistrationInv, LinksOK, EntriesOK, SubstatesFormForest, OneParent,
              Acyclic, EntryPointsInside, substateVars

\* One entry point at most, and it is for the link the call adds.
Fits(entryPoint, p, c) ==
    \/ entryPoint = <<>>
    \/ \E e \in Events \cup {NoEvent} :
          entryPoint = <<[parent |-> p, state |-> c, onEvent |-> e]>>

LEMMA EntryPointForLink ==
    ASSUME NEW p \in States, NEW c \in States, NEW entryPoint, Fits(entryPoint, p, c)
    PROVE  /\ entryPoint \in Seq(EntryPoint)
           /\ \A i \in DOMAIN entryPoint :
                  entryPoint[i].parent = p /\ entryPoint[i].state = c
<1>1. CASE entryPoint = <<>>
  BY <1>1
<1>2. ASSUME NEW e \in Events \cup {NoEvent},
             entryPoint = <<[parent |-> p, state |-> c, onEvent |-> e]>>
      PROVE  /\ entryPoint \in Seq(EntryPoint)
             /\ \A i \in DOMAIN entryPoint :
                    entryPoint[i].parent = p /\ entryPoint[i].state = c
  <2>1. [parent |-> p, state |-> c, onEvent |-> e] \in EntryPoint
    BY DEF EntryPoint
  <2> QED
    BY <1>2, <2>1
<1> QED
  BY <1>1, <1>2 DEF Fits

LEMMA InvAddSubstate ==
    ASSUME RegistrationInv, NEW p \in States, NEW c \in States, NEW entryPoint,
           Fits(entryPoint, p, c), safe' = safe, AddSubstate(p, c, entryPoint)
    PROVE  RegistrationInv'
<1>1. mSubstates' = mSubstates \cup {[parent |-> p, child |-> c]}
  BY DEF AddSubstate
<1>2. LinksOK'
  BY <1>1 DEF RegistrationInv, LinksOK, Link
<1>4. SubstatesFormForest'
  <2>1. CASE safe
    <3>1. p # c /\ ~ HasParentState(c) /\ c \notin Ancestors(p)
      BY <2>1 DEF AddSubstate, RegistrationAllowed
    <3>2. OneParent /\ Acyclic /\ mSubstates \subseteq Link
      BY <2>1 DEF RegistrationInv, SubstatesFormForest, LinksOK
    <3>3. OneParent' /\ Acyclic'
      BY <1>1, <3>1, <3>2, LinkKeepsForest
    <3> QED
      BY <3>3 DEF SubstatesFormForest
  <2>2. CASE ~ safe
    BY <2>2 DEF SubstatesFormForest
  <2> QED
    BY <2>1, <2>2
<1>5. entryPoint \in Seq(EntryPoint)
      /\ \A i \in DOMAIN entryPoint : entryPoint[i].parent = p /\ entryPoint[i].state = c
  BY EntryPointForLink
<1>6. mSubstateEntryPoints' = mSubstateEntryPoints \o entryPoint
  BY DEF AddSubstate
<1>7. EntriesOK'
  BY <1>5, <1>6 DEF RegistrationInv, EntriesOK
<1>8. ASSUME NEW i \in DOMAIN mSubstateEntryPoints'
      PROVE  [parent |-> mSubstateEntryPoints'[i].parent,
              child |-> mSubstateEntryPoints'[i].state] \in mSubstates'
  <2>0. mSubstateEntryPoints \in Seq(EntryPoint)
    BY DEF RegistrationInv, EntriesOK
  <2>1. CASE i \in DOMAIN mSubstateEntryPoints
    <3>1. mSubstateEntryPoints'[i] = mSubstateEntryPoints[i]
      BY <1>5, <1>6, <2>0, <2>1
    <3>2. [parent |-> mSubstateEntryPoints[i].parent,
           child |-> mSubstateEntryPoints[i].state] \in mSubstates
      BY <2>1 DEF RegistrationInv, EntryPointsInside
    <3> QED
      BY <1>1, <3>1, <3>2
  <2>2. CASE i \notin DOMAIN mSubstateEntryPoints
    <3>1. PICK k \in DOMAIN entryPoint : mSubstateEntryPoints'[i] = entryPoint[k]
      <4>1. i \in 1 .. Len(mSubstateEntryPoints) + Len(entryPoint)
            /\ i > Len(mSubstateEntryPoints)
        BY <1>5, <1>6, <1>8, <2>0, <2>2
      <4>2. i - Len(mSubstateEntryPoints) \in DOMAIN entryPoint
        BY <1>5, <2>0, <4>1
      <4>3. mSubstateEntryPoints'[i] = entryPoint[i - Len(mSubstateEntryPoints)]
        BY <1>5, <1>6, <2>0, <4>1
      <4> QED
        BY <4>2, <4>3
    <3> QED
      BY <1>1, <1>5, <3>1
  <2> QED
    BY <2>1, <2>2
<1>9. EntryPointsInside'
  BY <1>8 DEF EntryPointsInside
<1> QED
  BY <1>2, <1>4, <1>7, <1>9 DEF RegistrationInv

LEMMA InvRegister ==
    ASSUME RegistrationInv, NEW p \in States, NEW c \in States, NEW entryPoint,
           Fits(entryPoint, p, c), Register(p, c, entryPoint)
    PROVE  RegistrationInv'
<1>1. CASE AddSubstate(p, c, entryPoint)
  BY <1>1, InvAddSubstate DEF Register
<1>2. CASE RefuseSubstate(p, c, entryPoint)
  BY <1>2, InvUnchanged DEF Register, RefuseSubstate
<1> QED
  BY <1>1, <1>2 DEF Register

LEMMA InvNext == RegistrationInv /\ [Next]_vars => RegistrationInv'
<1> SUFFICES ASSUME RegistrationInv, [Next]_vars PROVE RegistrationInv'
  OBVIOUS
<1>1. ASSUME NEW p \in States, NEW s \in States, RegisterSubstate(p, s)
      PROVE  RegistrationInv'
  BY <1>1, InvRegister DEF RegisterSubstate, Fits
<1>2. ASSUME NEW p \in States, NEW s \in States, NEW e \in Events \cup {NoEvent},
             RegisterSubstateEntryPoint(p, s, e)
      PROVE  RegistrationInv'
  <2>1. Fits(<<[parent |-> p, state |-> s, onEvent |-> e]>>, p, s)
    BY DEF Fits
  <2> QED
    BY <1>2, <2>1, InvRegister DEF RegisterSubstateEntryPoint
<1>3. CASE RegisterData
  <2>1. UNCHANGED <<safe, substateVars>>
    BY <1>3 DEF RegisterData, RegisterState, SetInitialState, RegisterFinalState,
                RegisterHistory, RegisterTransition, RegisterStateAction
  <2> QED
    BY <2>1, InvUnchanged
<1>4. ASSUME NEW t \in Timers, NEW e \in Events, RegisterTimer(t, e)
      PROVE  RegistrationInv'
  BY <1>4, InvUnchanged DEF RegisterTimer
<1>5. CASE EndRegistration
  BY <1>5, InvUnchanged DEF EndRegistration
<1>6. CASE UNCHANGED vars
  BY <1>6, InvUnchanged DEF vars
<1> QED
  BY <1>1, <1>2, <1>3, <1>4, <1>5, <1>6 DEF Next, RegisterStructure

-----------------------------------------------------------------------------
(* Types *)

LEMMA TypeInit == Init => TypeOK
<1> SUFFICES ASSUME Init PROVE TypeOK
  OBVIOUS
<1>1. mSubstateEntryPoints \in Seq(EntryPoint) /\ mTransitionsByEvent \in Seq(RegisteredTransition)
  BY DEF Init
<1> QED
  BY <1>1, RegistrationAssumption DEF Init, TypeOK

LEMMA TypeRegister ==
    ASSUME TypeOK, NEW p \in States, NEW c \in States, NEW entryPoint,
           Fits(entryPoint, p, c), Register(p, c, entryPoint)
    PROVE  TypeOK'
<1>1. UNCHANGED <<safe, mRegisteredStates, historyVars, otherVars, startVars, others>>
  BY DEF Register
<1>2. mSubstates' \subseteq Link /\ mTopLevelStates' \subseteq States
      /\ (mSubstateEntryPoints' = mSubstateEntryPoints
           \/ mSubstateEntryPoints' = mSubstateEntryPoints \o entryPoint)
  <2>1. CASE AddSubstate(p, c, entryPoint)
    BY <2>1 DEF AddSubstate, TypeOK, Link
  <2>2. CASE RefuseSubstate(p, c, entryPoint)
    BY <2>2 DEF RefuseSubstate, TypeOK, substateVars
  <2> QED
    BY <2>1, <2>2 DEF Register
<1>3. entryPoint \in Seq(EntryPoint)
  BY EntryPointForLink
<1>4. mSubstateEntryPoints' \in Seq(EntryPoint)
  <2>1. mSubstateEntryPoints \in Seq(EntryPoint)
    BY DEF TypeOK
  <2>2. mSubstateEntryPoints \o entryPoint \in Seq(EntryPoint)
    BY <1>3, <2>1
  <2> QED
    BY <1>2, <2>1, <2>2
<1> QED
  BY <1>1, <1>2, <1>4 DEF TypeOK, historyVars, otherVars, startVars

LEMMA TypePut ==
    ASSUME NEW R, NEW map \in SUBSET R, NEW key, NEW record \in R
    PROVE  Put(map, key, record) \subseteq R
BY DEF Put

LEMMA TypePutState ==
    ASSUME TypeOK, NEW s \in States, PutState(s)
    PROVE  mRegisteredStates' \subseteq States /\ mTopLevelStates' \subseteq States
BY DEF TypeOK, PutState

LEMMA TypeData == TypeOK /\ RegisterData => TypeOK'
<1> SUFFICES ASSUME TypeOK, NEW s \in States, Counted,
                    \/ RegisterState(s)
                    \/ SetInitialState(s)
                    \/ \E e \in Events \cup {NoEvent} : RegisterFinalState(s, e)
                    \/ \E h \in States, type \in {"SHALLOW", "DEEP"},
                          t \in States \cup {NoState} : RegisterHistory(s, h, type, t)
                    \/ \E to \in States, e \in Events, internal \in BOOLEAN :
                          RegisterTransition(s, to, e, internal)
                    \/ \E trigger \in Trigger, action \in Action : \E types :
                          RegisterStateAction(s, trigger, action, types)
             PROVE  TypeOK'
  BY RegistrationAssumption
     DEF RegisterData, RegisterState, SetInitialState, RegisterFinalState,
         RegisterHistory, RegisterTransition, RegisterStateAction
<1>0. others' \in Nat
  BY DEF Counted, TypeOK
<1> USE DEF substateVars, stateVars, historyVars, otherVars, startVars
<1>1. CASE RegisterState(s)
  BY <1>0, <1>1, TypePutState DEF TypeOK, RegisterState
<1>2. CASE SetInitialState(s)
  BY <1>0, <1>2 DEF TypeOK, SetInitialState
<1>3. ASSUME NEW e \in Events \cup {NoEvent}, RegisterFinalState(s, e)
      PROVE  TypeOK'
  <2>1. [state |-> s, event |-> e] \in [state : States, event : Events \cup {NoEvent}]
    OBVIOUS
  <2>2. mFinalStates' \subseteq [state : States, event : Events \cup {NoEvent}]
    <3>1. mFinalStates \in SUBSET [state : States, event : Events \cup {NoEvent}]
      BY DEF TypeOK
    <3>2. mFinalStates' = Put(mFinalStates, "state", [state |-> s, event |-> e])
      BY <1>3 DEF RegisterFinalState
    <3> QED
      BY <2>1, <3>1, <3>2, TypePut
  <2>3. mRegisteredStates' \subseteq States /\ mTopLevelStates' \subseteq States
    BY <1>3, TypePutState DEF RegisterFinalState
  <2> QED
    BY <1>0, <1>3, <2>2, <2>3 DEF TypeOK, RegisterFinalState
<1>4. ASSUME NEW h \in States, NEW type \in {"SHALLOW", "DEEP"},
             NEW t \in States \cup {NoState}, RegisterHistory(s, h, type, t)
      PROVE  TypeOK'
  <2>1. [state |-> h, type |-> type, target |-> t] \in HistoryInfo
    BY DEF HistoryInfo
  <2>2. mHistoryData' \subseteq HistoryInfo
    BY <1>4, <2>1, TypePut DEF TypeOK, RegisterHistory
  <2>3. mHistoryStates' \subseteq Link
    BY <1>4 DEF TypeOK, RegisterHistory, Link
  <2> QED
    BY <1>0, <1>4, <2>2, <2>3 DEF TypeOK, RegisterHistory
<1>5. ASSUME NEW to \in States, NEW e \in Events, NEW internal \in BOOLEAN,
             RegisterTransition(s, to, e, internal)
      PROVE  TypeOK'
  <2>1. [from |-> s, to |-> to, onEvent |-> e, internal |-> internal] \in RegisteredTransition
    BY DEF RegisteredTransition
  <2>2. mTransitionsByEvent' \in Seq(RegisteredTransition)
    BY <1>5, <2>1 DEF TypeOK, RegisterTransition
  <2> QED
    BY <1>0, <1>5, <2>2 DEF TypeOK, RegisterTransition
<1>6. ASSUME NEW trigger \in Trigger, NEW action \in Action, NEW types,
             RegisterStateAction(s, trigger, action, types)
      PROVE  TypeOK'
  <2>1. mRegisteredActions' \subseteq [state : States, trigger : Trigger, action : Action]
    BY <1>6 DEF TypeOK, RegisterStateAction
  <2> QED
    BY <1>0, <1>6, <2>1 DEF TypeOK, RegisterStateAction
<1> QED
  BY <1>1, <1>2, <1>3, <1>4, <1>5, <1>6

LEMMA TypeNext == TypeOK /\ [Next]_vars => TypeOK'
<1> SUFFICES ASSUME TypeOK, [Next]_vars PROVE TypeOK'
  OBVIOUS
<1>1. ASSUME NEW p \in States, NEW s \in States, RegisterSubstate(p, s)
      PROVE  TypeOK'
  BY <1>1, TypeRegister DEF RegisterSubstate, Fits
<1>2. ASSUME NEW p \in States, NEW s \in States, NEW e \in Events \cup {NoEvent},
             RegisterSubstateEntryPoint(p, s, e)
      PROVE  TypeOK'
  <2>1. Fits(<<[parent |-> p, state |-> s, onEvent |-> e]>>, p, s)
    BY DEF Fits
  <2> QED
    BY <1>2, <2>1, TypeRegister DEF RegisterSubstateEntryPoint
<1>3. CASE RegisterData
  BY <1>3, TypeData
<1> USE DEF substateVars, stateVars, historyVars, otherVars, startVars
<1>4. ASSUME NEW t \in Timers, NEW e \in Events, RegisterTimer(t, e)
      PROVE  TypeOK'
  <2>1. mTimers' \subseteq [timer : Timers, event : Events]
    <3>1. [timer |-> t, event |-> e] \in [timer : Timers, event : Events]
      OBVIOUS
    <3> QED
      BY <1>4, <3>1, TypePut DEF RegisterTimer, TypeOK
  <2> QED
    BY <1>4, <2>1 DEF RegisterTimer, Counted, TypeOK
<1>5. CASE EndRegistration
  BY <1>5 DEF EndRegistration, Counted, TypeOK
<1>6. CASE UNCHANGED vars
  BY <1>6 DEF vars, TypeOK
<1> QED
  BY <1>1, <1>2, <1>3, <1>4, <1>5, <1>6 DEF Next, RegisterStructure

-----------------------------------------------------------------------------
\* Every table holds records of its own kind, whatever is registered.
THEOREM RegistrationTypes == Spec => []TypeOK
BY TypeInit, TypeNext, PTL DEF Spec

\* Whatever a program registers, in whatever order: the safe build of
\* registerSubstate (HsmImpl.cpp:249-271) admits forests only.
THEOREM SafeStructureIsForest == Spec => []SubstatesFormForest
<1>1. RegistrationInv => SubstatesFormForest
  BY DEF RegistrationInv
<1> QED
  BY InvInit, InvNext, <1>1, PTL DEF Spec

\* In every build an entry point belongs to the state it is registered for.
THEOREM EntryPointsBelong == Spec => []EntryPointsInside
<1>1. RegistrationInv => EntryPointsInside
  BY DEF RegistrationInv
<1> QED
  BY InvInit, InvNext, <1>1, PTL DEF Spec

-----------------------------------------------------------------------------
(* The life of the machine that was registered                             *)

Releasing == {"removeEmissions", "unregisterEvents", "unregisterTimer", "reset", "wait",
              "lock", "waiting", "asleep", "relock", "released"}
TimerGone == Releasing \ {"removeEmissions", "unregisterEvents", "unregisterTimer"}

\* The dispatcher's thread holds the mutex of the flag, handles an event, has the flag set.
Holding == {"check", "transition", "more", "clear", "notify"}
Busy == {"transition", "more"}
Flagged == {"flagged", "check", "transition", "more", "clear"}

\* A transition that was under way when release() began is one that the flag and its mutex
\* tell of; no other begins.  A wait that a token of an earlier notify() ends too early
\* still has to take the mutex.
ReleaseInv ==
    /\ inside = FALSE
    /\ owner \in Releasing => mStopDispatching
    /\ pc \in Holding => mSync # Nobody /\ owner # "waiting"
    /\ owner = "waiting" => mSync # Nobody
    /\ pc \in Flagged => mValue
    /\ ~ OwnThread /\ owner \in Releasing => pc \notin Busy
    /\ owner = "released" => pc \notin Busy
    /\ owner \in TimerGone => "timer" \notin registered /\ ~ mActiveTimer

LEMMA ReleaseInit == LifeInit => ReleaseInv
BY DEF LifeInit, ReleaseInv, Releasing, TimerGone, Holding, Busy, Flagged

LEMMA OwnerKeeps ==
    ASSUME ReleaseInv, OwnerRuns, OwnerStep
    PROVE  ReleaseInv'
<1> USE DEF ReleaseInv, OwnThread, Releasing, TimerGone, Holding, Busy, Flagged,
            machine, tables, flag
<1>1. CASE \/ Initialize \/ CreateHandlers \/ StartupCallbackReturns
           \/ Activate \/ PushEntryPoint \/ EmitStartup
  BY <1>1 DEF Initialize, CreateHandlers, StartupCallbackReturns, Activate,
              PushEntryPoint, EmitStartup, Emit
<1>2. CASE Unregister
  BY <1>2 DEF Unregister
<1>3. CASE LookAtFlag
  BY <1>3 DEF LookAtFlag, OwnerRuns
<1>4. CASE LockFlag \/ WaitForFlag
  BY <1>4, LifecycleAssumption DEF LockFlag, WaitForFlag
<1>5. CASE TakeToken \/ RelockFlag
  BY <1>5 DEF TakeToken, RelockFlag
<1> QED
  BY <1>1, <1>2, <1>3, <1>4, <1>5 DEF OwnerStep

LEMMA DispatcherKeeps == ReleaseInv /\ DispatcherRuns /\ DispatcherStep => ReleaseInv'
<1> SUFFICES ASSUME ReleaseInv, DispatcherStep PROVE ReleaseInv'
  OBVIOUS
<1> USE DEF ReleaseInv, OwnThread, Releasing, TimerGone, Holding, Busy, Flagged,
            machine, tables, flag
<1>1. CASE Serve \/ CallHandler \/ TestAndSet
  BY <1>1 DEF Serve, CallHandler, TestAndSet
<1>2. CASE LockDispatching \/ TakeEvent
  BY <1>2 DEF LockDispatching, TakeEvent, Dispatcher, Nobody
<1>3. CASE TransitionDone \/ EmitMore
  BY <1>3 DEF TransitionDone, EmitMore, Emit
<1>4. CASE ClearFlag \/ NotifyFlag
  BY <1>4 DEF ClearFlag, NotifyFlag
<1> QED
  BY <1>1, <1>2, <1>3, <1>4 DEF DispatcherStep

LEMMA PosterKeeps ==
    ASSUME ReleaseInv, NEW p \in Posters,
           Transition(p) \/ StartTimer(p) \/ PosterStep(p)
    PROVE  ReleaseInv'
<1> USE DEF machine, tables, flag
<1>1. CASE ActivateTimer(p)
  <2>1. owner \in TimerGone => ~ mActiveTimer'
    BY <1>1 DEF ActivateTimer, ReleaseInv
  <2> QED
    BY <1>1, <2>1 DEF ActivateTimer, ReleaseInv, OwnThread
<1>2. CASE ~ ActivateTimer(p)
  BY <1>2 DEF Transition, StartTimer, PosterStep, PostEvent,
              EmitPosted, Emit, ReleaseInv, OwnThread
<1> QED
  BY <1>1, <1>2

\* After release() has returned to the owner no event of the machine is being handled and
\* none of its timers is left in the dispatcher, whatever the flag is made of: with the
\* STL, where a wait may be woken; with FreeRTOS, where it may end too early; on Arduino,
\* where there is none.
THEOREM ReleaseLeavesNothing ==
    ASSUME ~ MayReleaseInside
    PROVE  LifeSpec => []ReleasedIsIdle
<1>1. ReleaseInv /\ [LifeNext]_lifeVars => ReleaseInv'
  <2> SUFFICES ASSUME ReleaseInv, [LifeNext]_lifeVars PROVE ReleaseInv'
    OBVIOUS
  <2> USE DEF machine, tables, flag
  <2>1. CASE Release
    BY <2>1 DEF Release, OwnerRuns, OwnThread, ReleaseInv, Releasing,
                TimerGone, Holding, Busy, Flagged
  <2>2. CASE DispatchTimerEvent
    BY <2>2 DEF DispatchTimerEvent, Emit, OwnThread, ReleaseInv, Releasing,
                TimerGone, Holding, Busy, Flagged
  <2>3. CASE UNCHANGED lifeVars
    BY <2>3 DEF lifeVars, OwnThread, ReleaseInv
  <2> QED
    BY <2>1, <2>2, <2>3, OwnerKeeps, DispatcherKeeps, PosterKeeps DEF LifeNext
<1>2. ReleaseInv => ReleasedIsIdle
  BY DEF ReleaseInv, ReleasedIsIdle, Releasing, TimerGone, Busy
<1> QED
  BY ReleaseInit, <1>1, <1>2, PTL DEF LifeSpec
==============================================================================
