--------------------------- MODULE HsmEngineProofs ---------------------------
(***************************************************************************)
(* Theorems about the transition engine, for every registered structure,   *)
(* every set of clients and every bound: type correctness, and the         *)
(* properties the runs check on small instances, with the invariants that  *)
(* make them inductive.                                                    *)
(***************************************************************************)
EXTENDS HsmProperties, TLAPS, SequenceTheorems

NoDuplicate(list) == \A i, j \in DOMAIN list : list[i] = list[j] => i = j

-----------------------------------------------------------------------------
(* The operations on the list of active states *)

LEMMA EntryOfSeq ==
    ASSUME NEW S, NEW list \in Seq(S), NEW i \in DOMAIN list
    PROVE  list[i] \in S
OBVIOUS

LEMMA PairSeq ==
    ASSUME NEW S, NEW a \in S, NEW b \in S
    PROVE  <<a, b>> \in Seq(S)
OBVIOUS

LEMMA ConcatSeq ==
    ASSUME NEW S, NEW list \in Seq(S), NEW more \in Seq(S)
    PROVE  more \o list \in Seq(S)
OBVIOUS

\* Removing one place keeps the others, in their order.
LEMMA RemoveAtPlaces ==
    ASSUME NEW S, NEW list \in Seq(S), NEW i \in DOMAIN list
    PROVE  /\ RemoveAt(list, i) \in Seq(S)
           /\ Len(RemoveAt(list, i)) = Len(list) - 1
           /\ \A j \in 1 .. Len(list) - 1 :
                  RemoveAt(list, i)[j] = list[IF j < i THEN j ELSE j + 1]
<1> DEFINE before == SubSeq(list, 1, i - 1)
           after  == SubSeq(list, i + 1, Len(list))
<1>1. /\ before \in Seq(S) /\ Len(before) = i - 1
      /\ \A j \in 1 .. i - 1 : before[j] = list[j]
  OBVIOUS
<1>2. /\ after \in Seq(S) /\ Len(after) = Len(list) - i
      /\ \A j \in 1 .. Len(list) - i : after[j] = list[i + j]
  OBVIOUS
<1>3. RemoveAt(list, i) = before \o after
  BY DEF RemoveAt
<1> HIDE DEF before, after
<1>4. RemoveAt(list, i) \in Seq(S) /\ Len(RemoveAt(list, i)) = Len(list) - 1
  BY <1>1, <1>2, <1>3
<1>5. ASSUME NEW j \in 1 .. Len(list) - 1
      PROVE  RemoveAt(list, i)[j] = list[IF j < i THEN j ELSE j + 1]
  <2>1. CASE j < i
    BY <1>1, <1>2, <1>3, <2>1
  <2>2. CASE j >= i
    <3>a. j - (i - 1) \in 1 .. Len(after) /\ j > Len(before)
      BY <1>1, <1>2, <2>2
    <3>1. (before \o after)[j] = after[j - Len(before)]
      BY <1>1, <1>2, <3>a
    <3>3. RemoveAt(list, i)[j] = after[j - (i - 1)]
      BY <1>1, <1>3, <3>1
    <3>2. after[j - (i - 1)] = list[i + (j - (i - 1))]
      BY <1>2, <2>2
    <3> QED BY <3>3, <3>2, <2>2
  <2> QED BY <2>1, <2>2
<1> QED BY <1>4, <1>5

\* std::list::remove
LEMMA WithoutState ==
    ASSUME NEW S, NEW list \in Seq(S), NEW s
    PROVE  /\ Without(list, s) \in Seq(S)
           /\ ToSet(Without(list, s)) \subseteq ToSet(list)
           /\ ToSet(list) \subseteq ToSet(Without(list, s)) \cup {s}
           /\ NoDuplicate(list) =>
                 /\ NoDuplicate(Without(list, s))
                 /\ s \notin ToSet(Without(list, s))
<1>1. CASE s \notin ToSet(list)
  BY <1>1 DEF Without, ToSet
<1>2. CASE s \in ToSet(list)
  <2> DEFINE i == CHOOSE k \in DOMAIN list : list[k] = s
             rest == RemoveAt(list, i)
  <2>1. i \in DOMAIN list /\ list[i] = s
    BY <1>2 DEF ToSet
  <2>2. Without(list, s) = rest
    BY <1>2 DEF Without
  <2> HIDE DEF i
  <2>3. /\ rest \in Seq(S)
        /\ Len(rest) = Len(list) - 1
        /\ \A j \in 1 .. Len(list) - 1 : rest[j] = list[IF j < i THEN j ELSE j + 1]
    BY <2>1, RemoveAtPlaces
  <2> HIDE DEF rest
  <2>4. ToSet(rest) \subseteq ToSet(list)
    BY <2>1, <2>3 DEF ToSet
  <2>5. ToSet(list) \subseteq ToSet(rest) \cup {s}
    <3> SUFFICES ASSUME NEW k \in DOMAIN list, k # i
                 PROVE  list[k] \in ToSet(rest)
      BY <2>1 DEF ToSet
    <3>1. CASE k < i
      <4>1. k \in DOMAIN rest /\ rest[k] = list[k]
        BY <2>1, <2>3, <3>1
      <4> QED BY <4>1 DEF ToSet
    <3>2. CASE k > i
      <4>1. k - 1 \in 1 .. Len(list) - 1 /\ ~ (k - 1 < i) /\ (k - 1) + 1 = k
        BY <2>1, <3>2
      <4>2. rest[k - 1] = list[k]
        BY <2>3, <4>1
      <4>3. k - 1 \in DOMAIN rest
        BY <2>3, <4>1
      <4> QED BY <4>2, <4>3 DEF ToSet
    <3> QED BY <2>1, <3>1, <3>2
  <2>6. ASSUME NoDuplicate(list) PROVE NoDuplicate(rest) /\ s \notin ToSet(rest)
    <3>1. NoDuplicate(rest)
      <4> DEFINE place(j) == IF j < i THEN j ELSE j + 1
      <4> SUFFICES ASSUME NEW a \in DOMAIN rest, NEW b \in DOMAIN rest,
                          rest[a] = rest[b]
                   PROVE  a = b
        BY DEF NoDuplicate
      <4>1. /\ a \in 1 .. Len(list) - 1 /\ b \in 1 .. Len(list) - 1
            /\ rest[a] = list[place(a)] /\ rest[b] = list[place(b)]
        BY <2>3
      <4>2. place(a) \in DOMAIN list /\ place(b) \in DOMAIN list
        BY <2>1, <4>1
      <4>3. place(a) = place(b)
        BY <2>6, <4>1, <4>2 DEF NoDuplicate
      <4> QED BY <2>1, <4>1, <4>3
    <3>2. ASSUME NEW j \in DOMAIN rest PROVE rest[j] # s
      BY <2>1, <2>3, <2>6 DEF NoDuplicate
    <3> QED BY <3>1, <3>2 DEF ToSet
  <2> QED BY <2>2, <2>3, <2>4, <2>5, <2>6
<1> QED BY <1>1, <1>2

LEMMA AppendState ==
    ASSUME NEW S, NEW list \in Seq(S), NEW s \in S
    PROVE  /\ Append(list, s) \in Seq(S)
           /\ ToSet(Append(list, s)) = ToSet(list) \cup {s}
           /\ NoDuplicate(list) /\ s \notin ToSet(list) => NoDuplicate(Append(list, s))
<1>1. ToSet(Append(list, s)) = ToSet(list) \cup {s}
  <2>1. \A i \in DOMAIN list : i \in DOMAIN Append(list, s) /\ Append(list, s)[i] = list[i]
    OBVIOUS
  <2>2. Len(list) + 1 \in DOMAIN Append(list, s) /\ Append(list, s)[Len(list) + 1] = s
    OBVIOUS
  <2>3. \A i \in DOMAIN Append(list, s) :
            Append(list, s)[i] \in ToSet(list) \cup {s}
    BY DEF ToSet
  <2> QED BY <2>1, <2>2, <2>3 DEF ToSet
<1>2. NoDuplicate(list) /\ s \notin ToSet(list) => NoDuplicate(Append(list, s))
  BY DEF NoDuplicate, ToSet
<1> QED BY <1>1, <1>2

LEMMA AddState ==
    ASSUME NEW S, NEW list \in Seq(S), NEW s \in S
    PROVE  /\ AddActiveState(list, s) \in Seq(S)
           /\ ToSet(AddActiveState(list, s)) = ToSet(list) \cup {s}
           /\ NoDuplicate(list) => NoDuplicate(AddActiveState(list, s))
BY AppendState DEF AddActiveState

LEMMA ReplaceState ==
    ASSUME NEW S, NEW list \in Seq(S), NEW old, NEW new \in S
    PROVE  /\ ReplaceActiveState(list, old, new) \in Seq(S)
           /\ NoDuplicate(list) => NoDuplicate(ReplaceActiveState(list, old, new))
<1> DEFINE kept == IF IsSubstateOf(old, new) THEN list ELSE Without(list, old)
<1>1. kept \in Seq(S) /\ (NoDuplicate(list) => NoDuplicate(kept))
  BY WithoutState
<1>2. ReplaceActiveState(list, old, new) = AddActiveState(kept, new)
  BY DEF ReplaceActiveState
<1> HIDE DEF kept
<1> QED BY <1>1, <1>2, AddState

-----------------------------------------------------------------------------
(* What the queries on the structure return *)

LEMMA AncestorsAreStates == Ancestors \in [States -> SUBSET States]
BY DEF Ancestors

\* The ancestors of a state hold its parent and, with a state, its parent.
LEMMA AncestorsHoldParents ==
    ASSUME NEW s \in States
    PROVE  HoldsParents(Ancestors[s], s)
<1> SUFFICES ASSUME NEW t \in {s} \cup Ancestors[s], Parent[t] # NoState
             PROVE  Parent[t] \in Ancestors[s]
  BY DEF HoldsParents
<1>1. t \in States /\ Parent[t] \in States
  BY AncestorsAreStates, ParentAssumption
<1>2. \A S \in SUBSET States : HoldsParents(S, s) => Parent[t] \in S
  BY <1>1 DEF HoldsParents, Ancestors
<1> QED BY <1>1, <1>2 DEF Ancestors

LEMMA AncestorsAreLeast ==
    ASSUME NEW s \in States, NEW S \in SUBSET States, HoldsParents(S, s)
    PROVE  Ancestors[s] \subseteq S
BY DEF Ancestors

LEMMA AncestorsOfAncestor ==
    ASSUME NEW s \in States, NEW a \in Ancestors[s]
    PROVE  a \in States /\ Ancestors[a] \subseteq Ancestors[s]
<1>1. a \in States /\ Ancestors[s] \in SUBSET States
  BY AncestorsAreStates
<1>2. HoldsParents(Ancestors[s], a)
  BY AncestorsHoldParents DEF HoldsParents
<1> QED BY <1>1, <1>2, AncestorsAreLeast

LEMMA AncestorsOfChild ==
    ASSUME NEW s \in States, Parent[s] # NoState
    PROVE  /\ Parent[s] \in Ancestors[s]
           /\ Ancestors[s] \subseteq {Parent[s]} \cup Ancestors[Parent[s]]
<1> DEFINE above == {Parent[s]} \cup Ancestors[Parent[s]]
<1>1. Parent[s] \in States /\ above \in SUBSET States
  BY ParentAssumption, AncestorsAreStates
<1>2. HoldsParents(above, s)
  BY <1>1, AncestorsHoldParents DEF HoldsParents
<1>3. Parent[s] \in Ancestors[s]
  BY AncestorsHoldParents DEF HoldsParents
<1> QED BY <1>1, <1>2, <1>3, AncestorsAreLeast

LEMMA ChildOnTheWay ==
    ASSUME NEW s \in States, NEW p \in Ancestors[s]
    PROVE  /\ ChildTowards(p, s) \in {s} \cup Ancestors[s]
           /\ Parent[ChildTowards(p, s)] = p
<1> DEFINE rest == Ancestors[s] \ {p}
<1>1. \E c \in {s} \cup Ancestors[s] : Parent[c] = p
  <2> SUFFICES ASSUME \A c \in {s} \cup Ancestors[s] : Parent[c] # p PROVE FALSE
    OBVIOUS
  <2>1. HoldsParents(rest, s)
    BY AncestorsHoldParents DEF HoldsParents
  <2>2. rest \in SUBSET States
    BY AncestorsAreStates
  <2> QED BY <2>1, <2>2, AncestorsAreLeast
<1> QED BY <1>1 DEF ChildTowards

\* The parent that a history belongs to is reached through a child of it, so
\* what updateHistory stores is a state.
LEMMA ChildIsState ==
    ASSUME NEW s \in States, NEW p \in Ancestors[s]
    PROVE  ChildTowards(p, s) \in States
BY ChildOnTheWay, AncestorsAreStates

LEMMA PlacesAreNumbers ==
    ASSUME NEW event \in PendingEventInfo
    PROVE  Places(event) \subseteq Nat \ {0}
BY TransitionsAssumption, EntryPointsAssumption DEF Places, PendingEventInfo

LEMMA MatchingArePlaces ==
    ASSUME NEW event \in PendingEventInfo, NEW s, NEW truth
    PROVE  MatchingTransitions(s, event, truth) \subseteq Places(event)
BY DEF MatchingTransitions, Places, FindTransitionTarget, GetEntryPoints, PendingEventInfo

LEMMA TransitionOfPlace ==
    ASSUME NEW event \in PendingEventInfo, NEW s \in States, NEW i \in Places(event)
    PROVE  TransitionOf(s, event, i) \in TransitionInfo
<1>1. CASE event.transitionType = "REGULAR"
  <2>1. Transitions[i] \in RegisteredTransition
    <3>1. i \in DOMAIN Transitions
      BY <1>1 DEF Places
    <3> QED BY <3>1, TransitionsAssumption, EntryOfSeq
  <2> QED BY <1>1, <2>1 DEF TransitionOf, TransitionInfo, RegisteredTransition
<1>2. CASE event.transitionType = "ENTRYPOINT"
  <2>1. EntryPoints[i].state \in States
    <3>1. i \in DOMAIN EntryPoints
      BY <1>2 DEF Places
    <3>2. EntryPoints[i] \in StateEntryPoint
      BY <3>1, EntryPointsAssumption, EntryOfSeq
    <3> QED BY <3>2 DEF StateEntryPoint
  <2> QED BY <1>2, <2>1 DEF TransitionOf, TransitionInfo, ExternalTransition
<1>3. CASE event.transitionType = "FORCED"
  <2>1. event.forced \in Seq(TransitionInfo) /\ i \in DOMAIN event.forced
    BY <1>3 DEF Places, PendingEventInfo
  <2>2. event.forced[i] \in TransitionInfo
    BY <2>1
  <2> QED BY <1>3, <2>2 DEF TransitionOf
<1> QED BY <1>1, <1>2, <1>3 DEF PendingEventInfo

LEMMA HistoryOfParent ==
    ASSUME NEW h \in HistoryStates
    PROVE  /\ History[h].parent \in States
           /\ History[h].target \in States \cup {NoState}
BY HistoryAssumption DEF HistoryStates

\* Updating the histories leaves lists of states.
LEMMA UpdatedHistory ==
    ASSUME NEW top, NEW s \in States, NEW touched,
           mHistoryData \in [HistoryStates -> Seq(States)]
    PROVE  UpdateHistory(top, s, touched) \in [HistoryStates -> Seq(States)]
<1> SUFFICES ASSUME NEW h \in HistoryStates,
                    History[h].parent \in HistoryParents(top, s)
             PROVE  AddActiveState(IF h \in touched THEN mHistoryData[h] ELSE <<>>,
                                   Remembered(h, s)) \in Seq(States)
  BY DEF UpdateHistory
<1>1. Remembered(h, s) \in States
  BY ChildIsState DEF Remembered, HistoryParents
<1>2. (IF h \in touched THEN mHistoryData[h] ELSE <<>>) \in Seq(States)
  OBVIOUS
<1> QED BY <1>1, <1>2, AddState

-----------------------------------------------------------------------------
(* Events in the queue *)

LEMMA RegularEvent ==
    ASSUME NEW e \in Events \cup {NoEvent}, NEW c \in Clients \cup {NoClient}
    PROVE  Regular(e, c) \in PendingEventInfo
BY DEF Regular, PendingEventInfo

LEMMA EntryPointEvent ==
    ASSUME NEW event \in PendingEventInfo
    PROVE  EntryPointOf(event) \in PendingEventInfo
<1>1. <<>> \in Seq(TransitionInfo)
  OBVIOUS
<1> QED BY <1>1 DEF PendingEventInfo, EntryPointOf

LEMMA ForcedEvent ==
    ASSUME NEW event \in PendingEventInfo, NEW ts \in Seq(TransitionInfo),
           NEW ignore \in BOOLEAN
    PROVE  ForcedOf(event, ts, ignore) \in PendingEventInfo
BY DEF PendingEventInfo, ForcedOf

LEMMA PushedFront ==
    ASSUME mPendingEvents \in Seq(PendingEventInfo), NEW event \in PendingEventInfo,
           PushFront(event)
    PROVE  mPendingEvents' \in Seq(PendingEventInfo) /\ mPendingEvents' # <<>>
BY DEF PushFront

\* State actions append events and emit once for each of them.
LEMMA ExecutedActions ==
    ASSUME mPendingEvents \in Seq(PendingEventInfo), emitted \in Nat,
           NEW s \in States, NEW trigger \in {"ENTRY", "EXIT"},
           ExecuteStateAction(s, trigger)
    PROVE  mPendingEvents' \in Seq(PendingEventInfo) /\ emitted' \in Nat
<1> DEFINE raised == RaisedOn[trigger][s]
           posted == [i \in DOMAIN raised |-> Regular(raised[i], NoClient)]
<1>1. raised \in Seq(Events)
  BY CallbacksAssumption
<1>2. \A i \in DOMAIN raised : Regular(raised[i], NoClient) \in PendingEventInfo
  BY <1>1, RegularEvent
<1>3. posted \in Seq(PendingEventInfo)
  BY <1>1, <1>2
<1>4. mPendingEvents' = mPendingEvents \o posted /\ emitted' = emitted + Len(raised)
  BY DEF ExecuteStateAction
<1> HIDE DEF posted, raised
<1> QED BY <1>1, <1>3, <1>4

LEMMA EnteringActions ==
    ASSUME mPendingEvents \in Seq(PendingEventInfo), emitted \in Nat,
           NEW list, NEW s \in States,
           OnStateEntering(list, s) \/ EnterRegardless(list, s)
    PROVE  mPendingEvents' \in Seq(PendingEventInfo) /\ emitted' \in Nat
BY ExecutedActions DEF OnStateEntering, EnterRegardless, queueVars

-----------------------------------------------------------------------------
(* Type correctness *)

LEMMA InitTypeOK == Init => TypeOK
<1> SUFFICES ASSUME Init PROVE TypeOK
  OBVIOUS
<1>1. Regular(NoEvent, NoClient) \in PendingEventInfo
  BY RegularEvent
<1> QED BY <1>1, NamesAssumption
    DEF Init, TypeOK, NotDispatching, NoTransition, Status, DispatchLocals, SingleLocals,
        Handling, Exiting, Entering, Places

\* Waiting for an answer changes nothing but where the client stands.
LEMMA WaitStepFrame ==
    ASSUME NEW c \in Clients, WaitStep(c)
    PROVE  /\ \E to \in {"ready", "wait", "falling", "asleep"} :
                client' = [client EXCEPT ![c] = to]
           /\ client[c] \in {"wait", "falling", "asleep"}
           /\ UNCHANGED <<mActiveStates, mHistoryData, pc, dispatch, single, queueVars,
                          transitionStatus>>
  BY DEF WaitStep, Return, StayPending, FallAsleep, WakeUp, TimeOut, WaitMoves

\* Clients leave the dispatcher's frames alone.
LEMMA ClientTypeOK ==
    ASSUME TypeOK, NEW c \in Clients, ClientStep(c)
    PROVE  TypeOK'
<1>1. ASSUME NEW e \in Posted, NEW clearQueue \in BOOLEAN, NEW sync \in BOOLEAN,
             Post(c, e, clearQueue, sync)
      PROVE  TypeOK'
  <2> DEFINE kept == IF clearQueue THEN <<>> ELSE mPendingEvents
             new  == Regular(e, IF sync THEN c ELSE NoClient)
  <2>1. kept \in Seq(PendingEventInfo)
    BY DEF TypeOK
  <2>2. new \in PendingEventInfo
    BY RegularEvent, ClientsAssumption
  <2>3. mPendingEvents' = Append(kept, new)
    BY <1>1 DEF Post
  <2> HIDE DEF kept, new
  <2>4. mPendingEvents' \in Seq(PendingEventInfo)
    BY <2>1, <2>2, <2>3
  <2>5. client' \in [Clients -> {"ready", "emit", "emitSync", "wait", "falling", "asleep"}]
    BY <1>1 DEF Post, TypeOK, Notified
  <2>6. transitionStatus' \in [Clients -> Status]
    BY <1>1 DEF Post, TypeOK, Status
  <2> QED BY <1>1, <2>4, <2>5, <2>6 DEF Post, TypeOK
<1>2. CASE Emit(c)
  BY <1>2 DEF Emit, TypeOK
<1>3. CASE WaitStep(c)
  BY <1>3, WaitStepFrame DEF TypeOK, queueVars
<1> QED BY <1>1, <1>2, <1>3 DEF ClientStep

\* Steps that only move the dispatcher between its places.
LEMMA PlainStepsTypeOK ==
    ASSUME TypeOK, \/ DispatchEvents \/ ClearDispatching \/ ExitDone
                   \/ ReenterDone \/ EntriesDone
    PROVE  TypeOK'
<1> USE DEF queueVars, clientVars, TypeOK, Handling, Exiting, Entering
<1>1. CASE DispatchEvents
  BY <1>1 DEF DispatchEvents
<1>2. CASE ClearDispatching
  BY <1>2 DEF ClearDispatching
<1>3. CASE ExitDone
  BY <1>3 DEF ExitDone
<1>4. CASE ReenterDone
  BY <1>4 DEF ReenterDone
<1>5. CASE EntriesDone
  BY <1>5 DEF EntriesDone
<1> QED BY <1>1, <1>2, <1>3, <1>4, <1>5

\* What every step below finds in the dispatcher's frames.
LEMMA Frames ==
    ASSUME TypeOK
    PROVE  /\ dispatch \in DispatchLocals /\ single \in SingleLocals
           /\ dispatch.event \in PendingEventInfo
           /\ dispatch.it \in Nat /\ dispatch.it <= Len(dispatch.snapshot)
           /\ single.from \in States
           /\ Places(dispatch.event) \subseteq Nat \ {0}
           /\ External \subseteq single.matching
           /\ \A i \in Places(dispatch.event) : Matched(i) \in TransitionInfo
           /\ mActiveStates \in Seq(States) /\ Len(mActiveStates) \in Nat
           /\ mPendingEvents \in Seq(PendingEventInfo) /\ emitted \in Nat
<1>1. /\ dispatch \in DispatchLocals /\ single \in SingleLocals
      /\ dispatch.event \in PendingEventInfo /\ single.from \in States
      /\ dispatch.it \in Nat
  BY DEF TypeOK, DispatchLocals, SingleLocals
<1>2. \A i \in Places(dispatch.event) : Matched(i) \in TransitionInfo
  BY <1>1, TransitionOfPlace DEF Matched
<1>3. Len(mActiveStates) \in Nat
  BY DEF TypeOK
<1> QED BY <1>1, <1>2, <1>3, PlacesAreNumbers DEF TypeOK, External

LEMMA DispatchStepsTypeOK ==
    ASSUME TypeOK, \/ EnterInitialState \/ StartEntryPoints \/ PopEvent \/ SkipState
                   \/ BeginTransition \/ EndTransition \/ FinishEvent
    PROVE  TypeOK'
<1> USE DEF queueVars, clientVars
<1>0. NoTransition \in SingleLocals
  BY NamesAssumption DEF NoTransition, SingleLocals, Status
<1>1. CASE EnterInitialState
  <2>1. mPendingEvents' \in Seq(PendingEventInfo) /\ emitted' \in Nat
    BY <1>1, Frames, EnteringActions, NamesAssumption DEF EnterInitialState
  <2>2. mActiveStates' \in Seq(States)
    BY <1>1, Frames, AppendState, NamesAssumption DEF EnterInitialState
  <2> QED BY <1>1, <2>1, <2>2 DEF EnterInitialState, TypeOK, Handling, Exiting, Entering
<1>2. CASE StartEntryPoints
  <2>1. EntryPointOf(Regular(NoEvent, NoClient)) \in PendingEventInfo
    BY RegularEvent, EntryPointEvent
  <2>2. mPendingEvents' \in Seq(PendingEventInfo)
    BY <1>2, <2>1, Frames, PushedFront DEF StartEntryPoints
  <2> QED BY <1>2, <2>2 DEF StartEntryPoints, TypeOK, Handling, Exiting, Entering
<1>3. CASE PopEvent
  <2>1. Head(mPendingEvents) \in PendingEventInfo /\ Tail(mPendingEvents) \in Seq(PendingEventInfo)
    BY <1>3, Frames DEF PopEvent
  <2>2. dispatch' \in DispatchLocals /\ dispatch'.it = Len(dispatch'.snapshot)
    BY <1>3, <2>1, Frames DEF PopEvent, DispatchLocals, Status
  <2> QED BY <1>3, <2>1, <2>2, Frames DEF PopEvent, TypeOK, Handling, Exiting, Entering
<1>4. CASE SkipState
  <2>0. dispatch.it - 1 \in Nat
    BY <1>4, Frames DEF SkipState
  <2>1. dispatch' \in DispatchLocals
    BY <1>4, <2>0, Frames DEF SkipState, DispatchLocals
  <2>2. /\ dispatch'.event = dispatch.event /\ dispatch'.snapshot = dispatch.snapshot
        /\ dispatch'.it = dispatch.it - 1
    BY <1>4, Frames DEF SkipState, DispatchLocals
  <2> QED BY <1>4, <2>1, <2>2, Frames DEF SkipState, TypeOK, Handling, Exiting, Entering
<1>5. CASE BeginTransition
  <2> DEFINE matching(truth) == MatchingTransitions(Scanned, dispatch.event, truth)
  <2>1. Scanned \in States
    <3>1. dispatch.snapshot \in Seq(States)
      BY Frames DEF DispatchLocals
    <3>a. dispatch.it > 0
      BY <1>5 DEF BeginTransition
    <3>2. dispatch.it \in DOMAIN dispatch.snapshot
      BY <3>a, <3>1, Frames
    <3> QED BY <3>1, <3>2 DEF Scanned
  <2>2. PICK truth : \E exits \in SUBSET matching(truth), res \in {"DONE_OK", "DONE_FAILED"} :
            single' = [NoTransition EXCEPT !.from = Scanned, !.matching = matching(truth),
                                           !.todo = exits, !.res = res, !.before = Active]
    BY <1>5 DEF BeginTransition
  <2>3. matching(truth) \subseteq Places(dispatch.event)
    BY Frames, MatchingArePlaces
  <2>4. Active \subseteq States
    BY Frames DEF Active, ToSet
  <2> HIDE DEF matching
  <2>5. PICK exits \in SUBSET matching(truth), res \in {"DONE_OK", "DONE_FAILED"} :
            single' = [NoTransition EXCEPT !.from = Scanned, !.matching = matching(truth),
                                           !.todo = exits, !.res = res, !.before = Active]
    BY <2>2
  <2>6. single' \in SingleLocals
    BY <1>0, <2>1, <2>3, <2>4, <2>5, Frames DEF SingleLocals, Status
  <2>7. single'.todo \subseteq matching(truth) /\ single'.matching = matching(truth)
    BY <1>0, <2>5 DEF SingleLocals
  <2> QED BY <1>5, <2>3, <2>6, <2>7, ZenonT(40) DEF BeginTransition, TypeOK, Handling, Exiting, Entering
<1>6. CASE EndTransition
  <2>1. single.res \in Status /\ dispatch.res \in Status
    BY Frames DEF SingleLocals, DispatchLocals
  <2>2. dispatch.it - 1 \in Nat
    BY <1>6, Frames DEF EndTransition, TypeOK, Handling
  <2>3. PICK acc \in SUBSET States, res \in Status :
            dispatch' = [dispatch EXCEPT !.it = @ - 1, !.accepted = acc, !.res = res]
    BY <1>6, <2>1, Frames DEF EndTransition, MergeResult, DispatchLocals
  <2>4. dispatch' \in DispatchLocals
    BY <2>2, <2>3, Frames DEF DispatchLocals
  <2>5. /\ dispatch'.event = dispatch.event /\ dispatch'.snapshot = dispatch.snapshot
        /\ dispatch'.it = dispatch.it - 1
    BY <2>3, Frames DEF DispatchLocals
  <2> QED BY <1>0, <1>6, <2>4, <2>5, Frames DEF EndTransition, TypeOK, Handling, Exiting, Entering
<1>7. CASE FinishEvent
  <2>1. /\ NotDispatching \in DispatchLocals
        /\ NotDispatching.it = 0 /\ NotDispatching.snapshot = <<>>
    BY RegularEvent DEF NotDispatching, DispatchLocals, Status
  <2>2. transitionStatus' \in [Clients -> Status]
    BY <1>7, Frames DEF FinishEvent, TypeOK, DispatchLocals
  <2>3. client' \in [Clients -> {"ready", "emit", "emitSync", "wait", "falling", "asleep"}]
    BY <1>7 DEF FinishEvent, Notified, TypeOK
  <2>4. /\ dispatch' = NotDispatching /\ pc' = "clear"
        /\ UNCHANGED <<mActiveStates, mHistoryData, single, mPendingEvents, emitted>>
    BY <1>7 DEF FinishEvent
  <2> QED BY <2>1, <2>2, <2>3, <2>4 DEF TypeOK, Handling, Exiting, Entering
<1> QED BY <1>1, <1>2, <1>3, <1>4, <1>5, <1>6, <1>7

LEMMA ExitStepsTypeOK ==
    ASSUME TypeOK, \/ NextExit \/ ExitsDone \/ ExitState \/ RefuseExit \/ NoMoreToExit
                   \/ LeaveState \/ RollbackState
    PROVE  TypeOK'
<1> USE DEF queueVars, clientVars
<1>0. /\ single.exited \in Seq(States) /\ single.at \in Nat
      /\ single.touched \in SUBSET HistoryStates
  BY Frames DEF SingleLocals
<1>1. CASE NextExit
  <2> DEFINE end == Len(mActiveStates) + 1
  <2>1. PICK i \in single.todo :
            single' = [single EXCEPT !.cur = i, !.todo = @ \ {i}, !.at = end]
    BY <1>1 DEF NextExit
  <2>2. i \in Places(dispatch.event) /\ i \in Nat
    BY Frames, <1>1, <2>1 DEF TypeOK, NextExit, Handling
  <2>3. end \in Nat /\ end \in 1 .. Len(mActiveStates) + 1
    BY Frames
  <2> HIDE DEF end
  <2>4. single' \in SingleLocals
    BY Frames, <2>1, <2>2, <2>3 DEF SingleLocals
  <2>5. /\ single'.todo \subseteq single.todo /\ single'.matching = single.matching
        /\ single'.cur = i /\ single'.at = end
    BY Frames, <2>1 DEF SingleLocals
  <2> QED BY Frames, <1>1, <2>2, <2>3, <2>4, <2>5 DEF NextExit, TypeOK, Handling, Exiting, Entering
<1>2. CASE ExitsDone
  <2>1. CASE single.exitAllowed
    <3>1. single' = [single EXCEPT !.todo = External]
      BY <1>2, <2>1 DEF ExitsDone
    <3>2. External \in SUBSET Nat
      BY Frames DEF SingleLocals
    <3>3. single' \in SingleLocals
      BY <3>1, <3>2, Frames DEF SingleLocals
    <3>4. single'.todo = External /\ single'.matching = single.matching
      BY <3>1, Frames DEF SingleLocals
    <3> QED BY <1>2, <2>1, <3>3, <3>4, Frames DEF ExitsDone, TypeOK, Handling, Exiting, Entering
  <2>2. CASE ~ single.exitAllowed
    <3>1. single' = [single EXCEPT !.res = "CANCELED"]
      BY <1>2, <2>2 DEF ExitsDone
    <3>3. single' \in SingleLocals
      BY <3>1, Frames DEF SingleLocals, Status
    <3>4. single'.todo = single.todo /\ single'.matching = single.matching
      BY <3>1, Frames DEF SingleLocals
    <3> QED BY <1>2, <2>2, <3>3, <3>4, Frames DEF ExitsDone, TypeOK, Handling, Exiting, Entering
  <2> QED BY <2>1, <2>2
<1>3. CASE ExitState
  <2>1. PICK i \in ToExit :
          /\ ExecuteStateAction(mActiveStates[i], "EXIT")
          /\ single' = [single EXCEPT !.exited = Append(@, mActiveStates[i]),
                                      !.at = i, !.exitAllowed = TRUE]
    BY <1>3 DEF ExitState
  <2>2. single.at \in 1 .. Len(mActiveStates) + 1
    BY <1>3 DEF ExitState, TypeOK
  <2>3. i \in 1 .. Len(mActiveStates) /\ i \in Nat
    BY <2>1, <2>2, Frames DEF ToExit
  <2>4. mActiveStates[i] \in States
    BY <2>3, Frames
  <2>5. mPendingEvents' \in Seq(PendingEventInfo) /\ emitted' \in Nat
    BY <2>1, <2>4, ExecutedActions, Frames
  <2> DEFINE longer == Append(single.exited, mActiveStates[i])
  <2>6. longer \in Seq(States)
    BY <1>0, <2>4
  <2>7. single' = [single EXCEPT !.exited = longer, !.at = i, !.exitAllowed = TRUE]
    BY <2>1
  <2> HIDE DEF longer
  <2>8. single' \in SingleLocals
    BY <2>3, <2>6, <2>7, Frames DEF SingleLocals
  <2>9. /\ single'.todo = single.todo /\ single'.matching = single.matching
        /\ single'.cur = single.cur /\ single'.at = i
    BY <2>7, Frames DEF SingleLocals
  <2>10. /\ pc = "exiting" /\ pc' = pc
         /\ UNCHANGED <<mActiveStates, mHistoryData, dispatch, client, transitionStatus>>
    BY <1>3 DEF ExitState
  <2> QED BY <2>3, <2>5, <2>8, <2>9, <2>10, Frames DEF TypeOK, Handling, Exiting, Entering
<1>4. CASE RefuseExit
  <2>1. single' \in SingleLocals
    BY <1>4, Frames DEF RefuseExit, SingleLocals
  <2>2. /\ single'.todo = single.todo /\ single'.matching = single.matching
        /\ single'.cur = single.cur /\ single'.at = 1
    BY <1>4, Frames DEF RefuseExit, SingleLocals
  <2> QED BY <1>4, <2>1, <2>2, Frames DEF RefuseExit, TypeOK, Handling, Exiting, Entering
<1>5. CASE NoMoreToExit
  <2>1. single' \in SingleLocals
    BY <1>5, Frames DEF NoMoreToExit, SingleLocals
  <2>2. /\ single'.todo = single.todo /\ single'.matching = single.matching
        /\ single'.cur = single.cur /\ single'.at = 1
    BY <1>5, Frames DEF NoMoreToExit, SingleLocals
  <2> QED BY <1>5, <2>1, <2>2, Frames DEF NoMoreToExit, TypeOK, Handling, Exiting, Entering
<1>6. CASE LeaveState
  <2> DEFINE s == single.exited[single.at]
  <2>1. s \in States
    BY <1>0, <1>6 DEF LeaveState, TypeOK
  <2>2. mHistoryData' \in [HistoryStates -> Seq(States)]
    BY <1>6, <2>1, UpdatedHistory DEF LeaveState, TypeOK
  <2>3. mActiveStates' \in Seq(States)
    BY <1>6, WithoutState, Frames DEF LeaveState
  <2> DEFINE next == single.at + 1
  <2>4. PICK touched \in SUBSET HistoryStates :
            single' = [single EXCEPT !.at = next, !.touched = touched]
    BY <1>0, <1>6 DEF LeaveState
  <2>n. next \in Nat /\ next > 0
    BY <1>0
  <2> HIDE DEF next, s
  <2>5. single' \in SingleLocals
    BY <2>n, <2>4, Frames DEF SingleLocals
  <2>6. /\ single'.todo = single.todo /\ single'.matching = single.matching
        /\ single'.cur = single.cur /\ single'.at = next
    BY <2>4, Frames DEF SingleLocals
  <2>7. /\ pc = "leave" /\ pc' = pc
        /\ UNCHANGED <<dispatch, mPendingEvents, emitted, client, transitionStatus>>
    BY <1>6 DEF LeaveState
  <2> QED BY <2>n, <2>2, <2>3, <2>5, <2>6, <2>7 DEF TypeOK, Handling, Exiting, Entering
<1>7. CASE RollbackState
  <2> DEFINE s    == single.exited[single.at]
             rest == Without(mActiveStates, s)
  <2>1. s \in States
    BY <1>0, <1>7 DEF RollbackState, TypeOK
  <2>2. rest \in Seq(States)
    BY WithoutState, Frames
  <2>3. EnterRegardless(rest, s) /\ mActiveStates' = Append(rest, s)
    BY <1>7 DEF RollbackState
  <2> HIDE DEF s, rest
  <2>4. mPendingEvents' \in Seq(PendingEventInfo) /\ emitted' \in Nat
    BY <2>1, <2>3, EnteringActions, Frames
  <2>5. mActiveStates' \in Seq(States)
    BY <2>1, <2>2, <2>3
  <2> DEFINE next == single.at + 1
  <2>6. single' = [single EXCEPT !.at = next]
    BY <1>7 DEF RollbackState
  <2>n. next \in Nat /\ next > 0
    BY <1>0
  <2> HIDE DEF next
  <2>7. single' \in SingleLocals
    BY <2>n, <2>6, Frames DEF SingleLocals
  <2>8. /\ single'.todo = single.todo /\ single'.matching = single.matching
        /\ single'.cur = single.cur /\ single'.at = next
    BY <2>6, Frames DEF SingleLocals
  <2>9. /\ pc = "rollback" /\ pc' = pc
        /\ UNCHANGED <<mHistoryData, dispatch, client, transitionStatus>>
    BY <1>7 DEF RollbackState
  <2> QED BY <2>n, <2>4, <2>5, <2>7, <2>8, <2>9 DEF TypeOK, Handling, Exiting, Entering
<1> QED BY <1>1, <1>2, <1>3, <1>4, <1>5, <1>6, <1>7

\* Where the dispatcher has a transition in hand, its target is a state.
LEMMA TargetInHand ==
    ASSUME TypeOK, pc \in Exiting \cup Entering
    PROVE  CurTransition \in TransitionInfo /\ Entered \in States
BY Frames DEF TypeOK, CurTransition, Entered, TransitionInfo

LEMMA EnterStepsTypeOK ==
    ASSUME TypeOK, EnterState \/ RefuseEntry \/ ReenterState \/ EnteredState
    PROVE  TypeOK'
<1> USE DEF queueVars, clientVars
<1>0. single.exited \in Seq(States) /\ single.at \in Nat
  BY Frames DEF SingleLocals
<1>1. CASE EnterState
  <2>1. PICK i \in single.todo :
          /\ OnStateEntering(mActiveStates, Matched(i).to)
          /\ mActiveStates' = ReplaceActiveState(mActiveStates, single.from, Matched(i).to)
          /\ single' = [single EXCEPT !.cur = i, !.todo = @ \ {i}]
    BY <1>1 DEF EnterState
  <2>2. i \in Places(dispatch.event) /\ i \in Nat
    BY Frames, <1>1, <2>1 DEF TypeOK, EnterState, Handling
  <2>3. Matched(i).to \in States
    BY Frames, <2>2 DEF TransitionInfo
  <2>4. mPendingEvents' \in Seq(PendingEventInfo) /\ emitted' \in Nat
    BY <2>1, <2>3, EnteringActions, Frames
  <2>5. mActiveStates' \in Seq(States)
    BY <2>1, <2>3, ReplaceState, Frames
  <2>6. single' \in SingleLocals
    BY Frames, <2>1, <2>2 DEF SingleLocals
  <2>7. /\ single'.todo \subseteq single.todo /\ single'.matching = single.matching
        /\ single'.cur = i /\ single'.at = single.at
    BY Frames, <2>1 DEF SingleLocals
  <2>8. /\ pc = "enter" /\ pc' = "entered"
        /\ UNCHANGED <<mHistoryData, dispatch, client, transitionStatus>>
    BY <1>1 DEF EnterState
  <2> QED BY <2>2, <2>4, <2>5, <2>6, <2>7, <2>8 DEF TypeOK, Handling, Exiting, Entering
<1>2. CASE RefuseEntry
  <2>1. PICK i \in single.todo :
          single' = [single EXCEPT !.cur = i, !.todo = @ \ {i}, !.at = 1,
                                   !.res = "DONE_FAILED"]
    BY <1>2 DEF RefuseEntry
  <2>2. i \in Places(dispatch.event) /\ i \in Nat
    BY Frames, <1>2, <2>1 DEF TypeOK, RefuseEntry, Handling
  <2>6. single' \in SingleLocals
    BY Frames, <2>1, <2>2 DEF SingleLocals, Status
  <2>7. /\ single'.todo \subseteq single.todo /\ single'.matching = single.matching
        /\ single'.cur = i /\ single'.at = 1
    BY Frames, <2>1 DEF SingleLocals
  <2>8. /\ pc = "enter" /\ pc' = "reenter"
        /\ UNCHANGED <<mActiveStates, mHistoryData, dispatch, mPendingEvents, emitted,
                       client, transitionStatus>>
    BY <1>2 DEF RefuseEntry
  <2> QED BY <2>2, <2>6, <2>7, <2>8 DEF TypeOK, Handling, Exiting, Entering
<1>3. CASE ReenterState
  <2> DEFINE s    == single.exited[single.at]
             next == single.at + 1
  <2>0. /\ pc = "reenter" /\ pc' = pc
        /\ UNCHANGED <<mHistoryData, dispatch, client, transitionStatus>>
    BY <1>3 DEF ReenterState
  <2>1. s \in States
    BY <1>0, <1>3 DEF ReenterState, TypeOK
  <2>2. /\ EnterRegardless(mActiveStates, s)
        /\ mActiveStates' = AddActiveState(mActiveStates, s)
        /\ single' = [single EXCEPT !.at = next]
    BY <1>3 DEF ReenterState
  <2>3. next \in Nat /\ next > 0
    BY <1>0
  <2> HIDE DEF s, next
  <2>4. mPendingEvents' \in Seq(PendingEventInfo) /\ emitted' \in Nat
    BY <2>1, <2>2, EnteringActions, Frames
  <2>5. mActiveStates' \in Seq(States)
    BY <2>1, <2>2, AddState, Frames
  <2>6. single' \in SingleLocals
    BY <2>2, <2>3, Frames DEF SingleLocals
  <2>7. /\ single'.todo = single.todo /\ single'.matching = single.matching
        /\ single'.cur = single.cur /\ single'.at = next
    BY <2>2, Frames DEF SingleLocals
  <2> QED BY <2>0, <2>3, <2>4, <2>5, <2>6, <2>7 DEF TypeOK, Handling, Exiting, Entering
<1>4. CASE EnteredState
  <2>0. /\ pc = "entered" /\ pc' = "enter"
        /\ UNCHANGED <<mActiveStates, mHistoryData, emitted, dispatch, client,
                       transitionStatus>>
    BY <1>4 DEF EnteredState
  <2>1. PICK res \in Status : single' = [single EXCEPT !.res = res]
    BY <1>4 DEF EnteredState, Status
  <2>2. EntryPointOf(dispatch.event) \in PendingEventInfo
    BY Frames, EntryPointEvent
  <2>3. PushFront(EntryPointOf(dispatch.event)) \/ UNCHANGED mPendingEvents
    BY <1>4 DEF EnteredState
  <2>4. mPendingEvents' \in Seq(PendingEventInfo)
    BY <2>2, <2>3, Frames, PushedFront
  <2>5. single' \in SingleLocals
    BY <2>1, Frames DEF SingleLocals
  <2>6. single'.todo = single.todo /\ single'.matching = single.matching
    BY <2>1, Frames DEF SingleLocals
  <2> QED BY <2>0, <2>4, <2>5, <2>6 DEF TypeOK, Handling, Exiting, Entering
<1> QED BY <1>1, <1>2, <1>3, <1>4

LEMMA SpecialTargetsTypeOK ==
    ASSUME TypeOK, \/ EnteredFinalState \/ EnteredEmptyHistory \/ EnteredHistory
                   \/ RestoreState \/ RestoreLastGroup \/ RestoreParent
    PROVE  TypeOK'
<1> USE DEF queueVars, clientVars
<1>0. single.at \in Nat /\ single.group \in Seq(TransitionInfo) /\ single.ignore \in BOOLEAN
  BY Frames DEF SingleLocals
<1>e. dispatch.event.id \in Events \cup {NoEvent} /\ dispatch.event.ignoreEntryPoints \in BOOLEAN
  BY Frames DEF PendingEventInfo
<1>h. Entered \in States
  BY TargetInHand DEF EnteredFinalState, EnteredEmptyHistory, EnteredHistory, RestoreState,
     RestoreLastGroup, RestoreParent, Exiting, Entering
<1>edge. ASSUME NEW s \in States
         PROVE  /\ ExternalTransition(Entered, s) \in TransitionInfo
                /\ <<ExternalTransition(Entered, s)>> \in Seq(TransitionInfo)
  BY <1>h DEF ExternalTransition, TransitionInfo
<1>1. CASE EnteredFinalState
  <2>0. /\ pc = "entered" /\ pc' = "enter" /\ Entered \in FinalStates
        /\ single' = [single EXCEPT !.res = "DONE_OK"]
        /\ UNCHANGED <<mActiveStates, mHistoryData, emitted, dispatch, client,
                       transitionStatus>>
    BY <1>1 DEF EnteredFinalState
  <2> DEFINE e == IF FinalEvent[Entered] # NoEvent
                  THEN FinalEvent[Entered] ELSE dispatch.event.id
  <2>1. e \in Events \cup {NoEvent}
    BY <1>e, <2>0, FinalAssumption DEF FinalStates
  <2>2. PushFront(Regular(e, NoClient)) \/ UNCHANGED mPendingEvents
    BY <1>1 DEF EnteredFinalState
  <2> HIDE DEF e
  <2>3. Regular(e, NoClient) \in PendingEventInfo
    BY <2>1, RegularEvent
  <2>4. mPendingEvents' \in Seq(PendingEventInfo)
    BY <2>2, <2>3, Frames, PushedFront
  <2>5. single' \in SingleLocals
    BY <2>0, Frames DEF SingleLocals, Status
  <2>6. single'.todo = single.todo /\ single'.matching = single.matching
    BY <2>0, Frames DEF SingleLocals
  <2> QED BY <2>0, <2>4, <2>5, <2>6 DEF TypeOK, Handling, Exiting, Entering
<1>2. CASE EnteredEmptyHistory
  <2> DEFINE target == History[Entered].target
             parent == History[Entered].parent
             forced(s, ignore) ==
                 ForcedOf(dispatch.event, <<ExternalTransition(Entered, s)>>, ignore)
             own  == dispatch.event.ignoreEntryPoints
             both == own \/ target = parent
  <2>0. /\ pc = "entered" /\ pc' = "enter" /\ Entered \in HistoryStates
        /\ single' = [single EXCEPT !.res = "PENDING"]
        /\ UNCHANGED <<mActiveStates, mHistoryData, emitted, dispatch, client,
                       transitionStatus>>
    BY <1>2 DEF EnteredEmptyHistory
  <2>1. mPendingEvents' = (IF target = NoState THEN <<forced(parent, own)>>
                           ELSE <<forced(parent, TRUE), forced(target, both)>>)
                          \o mPendingEvents
    BY <1>2 DEF EnteredEmptyHistory
  <2>2. parent \in States /\ target \in States \cup {NoState}
        /\ own \in BOOLEAN /\ both \in BOOLEAN
    BY <1>e, <2>0, HistoryOfParent
  <2>3. ASSUME NEW s \in States, NEW ignore \in BOOLEAN
        PROVE  forced(s, ignore) \in PendingEventInfo
    BY <1>edge, Frames, ForcedEvent
  <2> HIDE DEF target, parent, forced, own, both
  <2>4. forced(parent, own) \in PendingEventInfo /\ forced(parent, TRUE) \in PendingEventInfo
    BY <2>2, <2>3
  <2>a. single' \in SingleLocals
    BY <2>0, Frames DEF SingleLocals, Status
  <2>b. single'.todo = single.todo /\ single'.matching = single.matching
    BY <2>0, Frames DEF SingleLocals
  <2>c. mPendingEvents' \in Seq(PendingEventInfo)
    <3>1. CASE target = NoState
      <4>1. <<forced(parent, own)>> \in Seq(PendingEventInfo)
        BY <2>4
      <4> QED BY <2>1, <3>1, <4>1, Frames
    <3>2. CASE target # NoState
      <4>1. forced(target, both) \in PendingEventInfo
        BY <2>2, <2>3, <3>2
      <4>2. <<forced(parent, TRUE), forced(target, both)>> \in Seq(PendingEventInfo)
        BY <2>4, <4>1, PairSeq
      <4>3. mPendingEvents' = <<forced(parent, TRUE), forced(target, both)>> \o mPendingEvents
        BY <2>1, <3>2
      <4> QED BY <4>2, <4>3, Frames, ConcatSeq
    <3> QED BY <3>1, <3>2
  <2> QED BY <2>0, <2>a, <2>b, <2>c DEF TypeOK, Handling, Exiting, Entering
<1>3. CASE EnteredHistory
  <2>0. /\ pc = "entered" /\ pc' = "restore" /\ Entered \in HistoryStates
        /\ single' = [single EXCEPT !.res = "PENDING", !.at = 1, !.group = <<>>,
                                    !.ignore = FALSE]
        /\ UNCHANGED <<mActiveStates, mHistoryData, dispatch, mPendingEvents, emitted,
                       client, transitionStatus>>
    BY <1>3 DEF EnteredHistory
  <2>1. <<>> \in Seq(TransitionInfo)
    OBVIOUS
  <2>2. single' \in SingleLocals
    BY <2>0, <2>1, Frames DEF SingleLocals, Status
  <2>3. /\ single'.todo = single.todo /\ single'.matching = single.matching
        /\ single'.cur = single.cur /\ single'.at = 1 /\ single'.from = single.from
    BY <2>0, Frames DEF SingleLocals
  <2>4. Entered = TransitionOf(single.from, dispatch.event, single.cur).to
    BY DEF Entered, CurTransition, Matched
  <2> QED BY <2>0, <2>2, <2>3, <2>4 DEF TypeOK, Handling, Exiting, Entering
<1>4. CASE RestoreState
  <2> DEFINE previous == mHistoryData[Entered]
             edge     == ExternalTransition(Entered, previous[single.at])
             next     == single.at + 1
             longer   == Append(single.group, edge)
  <2>0. /\ pc = "restore" /\ pc' = pc
        /\ UNCHANGED <<mActiveStates, mHistoryData, emitted, dispatch, client,
                       transitionStatus>>
    BY <1>4 DEF RestoreState
  <2>1. Entered \in HistoryStates /\ single.at > 0
    BY <2>0 DEF TypeOK, Entered, CurTransition, Matched
  <2>2. previous \in Seq(States)
    BY <2>1 DEF TypeOK
  <2>3. single.at \in DOMAIN previous
    BY <1>0, <1>4, <2>1, <2>2 DEF RestoreState
  <2>4. edge \in TransitionInfo /\ <<edge>> \in Seq(TransitionInfo)
    BY <2>2, <2>3, <1>edge, EntryOfSeq
  <2>5. longer \in Seq(TransitionInfo)
    BY <1>0, <2>4
  <2>6. next \in Nat /\ next > 0
    BY <1>0
  <2>7. \/ /\ PushFront(ForcedOf(dispatch.event, single.group, single.ignore))
           /\ single' = [single EXCEPT !.at = next, !.group = <<edge>>, !.ignore = TRUE]
        \/ /\ UNCHANGED mPendingEvents
           /\ single' = [single EXCEPT !.at = next, !.group = longer, !.ignore = FALSE]
    BY <1>4 DEF RestoreState
  <2> HIDE DEF previous, edge, next, longer
  <2>8. PICK group \in Seq(TransitionInfo), ignore \in BOOLEAN :
            single' = [single EXCEPT !.at = next, !.group = group, !.ignore = ignore]
    BY <2>4, <2>5, <2>7
  <2>9. mPendingEvents' \in Seq(PendingEventInfo)
    <3>1. ForcedOf(dispatch.event, single.group, single.ignore) \in PendingEventInfo
      BY <1>0, Frames, ForcedEvent
    <3> QED BY <2>7, <3>1, Frames, PushedFront
  <2>10. single' \in SingleLocals
    BY <2>6, <2>8, Frames DEF SingleLocals
  <2>11. /\ single'.todo = single.todo /\ single'.matching = single.matching
         /\ single'.cur = single.cur /\ single'.at = next /\ single'.from = single.from
    BY <2>8, Frames DEF SingleLocals
  <2> QED BY <2>0, <2>6, <2>9, <2>10, <2>11 DEF TypeOK, Handling, Exiting, Entering
<1>5. CASE RestoreLastGroup
  <2>0. /\ pc = "restore" /\ pc' = "restoreParent"
        /\ mHistoryData' = [mHistoryData EXCEPT ![Entered] = <<>>]
        /\ UNCHANGED <<mActiveStates, emitted, dispatch, single, client, transitionStatus>>
    BY <1>5 DEF RestoreLastGroup
  <2>1. ForcedOf(dispatch.event, single.group, single.ignore) \in PendingEventInfo
    BY <1>0, Frames, ForcedEvent
  <2>2. mPendingEvents' \in Seq(PendingEventInfo)
    BY <1>5, <2>1, Frames, PushedFront DEF RestoreLastGroup
  <2>3. mHistoryData' \in [HistoryStates -> Seq(States)]
    <3>1. <<>> \in Seq(States)
      OBVIOUS
    <3> QED BY <2>0, <3>1 DEF TypeOK
  <2> QED BY <2>0, <2>2, <2>3 DEF TypeOK, Handling, Exiting, Entering
<1>6. CASE RestoreParent
  <2>0. /\ pc = "restoreParent" /\ pc' = "enter"
        /\ UNCHANGED <<mActiveStates, mHistoryData, emitted, dispatch, single, client,
                       transitionStatus>>
    BY <1>6 DEF RestoreParent
  <2>1. Entered \in HistoryStates
    BY <2>0 DEF TypeOK, Entered, CurTransition, Matched
  <2> DEFINE parent == History[Entered].parent
  <2>2. parent \in States
    BY <2>1, HistoryOfParent
  <2>3. PushFront(ForcedOf(dispatch.event, <<ExternalTransition(Entered, parent)>>, TRUE))
    BY <1>6 DEF RestoreParent
  <2> HIDE DEF parent
  <2>4. ForcedOf(dispatch.event, <<ExternalTransition(Entered, parent)>>, TRUE)
            \in PendingEventInfo
    BY <1>edge, <2>2, Frames, ForcedEvent
  <2>5. mPendingEvents' \in Seq(PendingEventInfo)
    BY <2>3, <2>4, Frames, PushedFront
  <2> QED BY <2>0, <2>5 DEF TypeOK, Handling, Exiting, Entering
<1> QED BY <1>1, <1>2, <1>3, <1>4, <1>5, <1>6

LEMMA NextTypeOK == TypeOK /\ [Next]_vars => TypeOK'
<1> SUFFICES ASSUME TypeOK, [Next]_vars PROVE TypeOK'
  OBVIOUS
<1>1. CASE DispatcherStep
  BY <1>1, PlainStepsTypeOK, DispatchStepsTypeOK, ExitStepsTypeOK, EnterStepsTypeOK,
     SpecialTargetsTypeOK DEF DispatcherStep
<1>2. CASE \E c \in Clients : ClientStep(c)
  BY <1>2, ClientTypeOK
<1>3. CASE UNCHANGED vars
  BY <1>3 DEF vars, queueVars, clientVars, TypeOK, Handling, Exiting, Entering
<1> QED BY <1>1, <1>2, <1>3 DEF Next

\* Every variable keeps its type, and no iterator of the dispatcher - over the
\* snapshot of active states (doTransition, 1060), over the states to leave
\* (executeExitTransition, 1288), over the remembered states
\* (transitionToPreviousActiveStates, 1366) - ever leaves its list.
THEOREM TypeCorrect == Spec => []TypeOK
<1>1. Init => TypeOK
  BY InitTypeOK
<1>2. TypeOK /\ [Next]_vars => TypeOK'
  BY NextTypeOK
<1> QED BY <1>1, <1>2, PTL DEF Spec

-----------------------------------------------------------------------------
(* What most steps leave alone *)

\* The steps that leave the list of active states alone.
LEMMA ActiveStatesKept ==
    ASSUME [Next]_vars,
           ~ EnterInitialState, ~ LeaveState, ~ RollbackState, ~ EnterState,
           ~ ReenterState
    PROVE  mActiveStates' = mActiveStates
<1>1. CASE DispatcherStep
  BY <1>1 DEF DispatcherStep, StartEntryPoints, DispatchEvents, PopEvent, SkipState,
     BeginTransition, EndTransition, FinishEvent, ClearDispatching, NextExit,
     ExitsDone, ExitState, RefuseExit, NoMoreToExit, ExitDone, RefuseEntry,
     ReenterDone, EntriesDone, EnteredFinalState, EnteredEmptyHistory,
     EnteredHistory, RestoreState, RestoreLastGroup, RestoreParent, EnteredState
<1>2. CASE \E c \in Clients : ClientStep(c)
  BY <1>2, WaitStepFrame DEF ClientStep, Post, Emit
<1>3. CASE UNCHANGED vars
  BY <1>3 DEF vars
<1> QED BY <1>1, <1>2, <1>3 DEF Next

\* No step leads back to the start.
LEMMA BootOnlyOnce ==
    ASSUME [Next]_vars, pc' = "boot"
    PROVE  pc = "boot" /\ ~ EnterInitialState
<1>1. CASE DispatcherStep
  BY <1>1 DEF DispatcherStep, EnterInitialState, StartEntryPoints, DispatchEvents,
     PopEvent, SkipState, BeginTransition, EndTransition, FinishEvent, ClearDispatching,
     NextExit, ExitsDone, ExitState, RefuseExit, NoMoreToExit, LeaveState,
     RollbackState, ExitDone, EnterState, RefuseEntry, ReenterState, ReenterDone,
     EntriesDone, EnteredFinalState, EnteredEmptyHistory, EnteredHistory,
     RestoreState, RestoreLastGroup, RestoreParent, EnteredState
<1>2. CASE \E c \in Clients : ClientStep(c)
  BY <1>2, WaitStepFrame DEF ClientStep, Post, Emit, EnterInitialState
<1>3. CASE UNCHANGED vars
  BY <1>3 DEF vars, EnterInitialState
<1> QED BY <1>1, <1>2, <1>3 DEF Next

-----------------------------------------------------------------------------
(* The list of active states *)

\* handleStartup appends without a look: nothing is active before it.
ActiveInv == NoDuplicateActive /\ (pc = "boot" => mActiveStates = <<>>)

LEMMA ActiveInvStep == TypeOK /\ ActiveInv /\ [Next]_vars => ActiveInv'
<1> SUFFICES ASSUME TypeOK, ActiveInv, [Next]_vars PROVE ActiveInv'
  OBVIOUS
<1> USE DEF NoDuplicateActive, NoDuplicate
<1>0. mActiveStates \in Seq(States) /\ NoDuplicate(mActiveStates)
  BY DEF ActiveInv, TypeOK
<1>1. CASE EnterInitialState
  <2>1. mActiveStates' = <<Initial>> /\ pc' = "bootEntry"
    BY <1>1 DEF EnterInitialState, ActiveInv
  <2> QED BY <2>1 DEF ActiveInv
<1>2. CASE LeaveState
  <2>1. mActiveStates' = Without(mActiveStates, single.exited[single.at])
        /\ pc' = pc /\ pc = "leave"
    BY <1>2 DEF LeaveState
  <2> QED BY <1>0, <2>1, WithoutState DEF ActiveInv
<1>3. CASE RollbackState
  <2> DEFINE s    == single.exited[single.at]
             rest == Without(mActiveStates, s)
  <2>1. mActiveStates' = Append(rest, s) /\ pc' = pc /\ pc = "rollback"
    BY <1>3 DEF RollbackState
  <2>2. s \in States
    BY <1>3, Frames DEF RollbackState, TypeOK, SingleLocals
  <2>3. rest \in Seq(States) /\ NoDuplicate(rest) /\ s \notin ToSet(rest)
    BY <1>0, WithoutState
  <2> HIDE DEF s, rest
  <2> QED BY <2>1, <2>2, <2>3, AppendState DEF ActiveInv
<1>4. CASE EnterState
  <2>1. PICK i \in single.todo :
            mActiveStates' = ReplaceActiveState(mActiveStates, single.from, Matched(i).to)
    BY <1>4 DEF EnterState
  <2>2. i \in Places(dispatch.event) /\ pc' = "entered"
    BY <1>4, <2>1 DEF EnterState, TypeOK, Handling
  <2>3. Matched(i).to \in States
    BY <2>2, Frames DEF TransitionInfo
  <2> QED BY <1>0, <2>1, <2>2, <2>3, ReplaceState DEF ActiveInv
<1>5. CASE ReenterState
  <2> DEFINE s == single.exited[single.at]
  <2>1. mActiveStates' = AddActiveState(mActiveStates, s) /\ pc' = pc /\ pc = "reenter"
    BY <1>5 DEF ReenterState
  <2>2. s \in States
    BY <1>5, Frames DEF ReenterState, TypeOK, SingleLocals
  <2> HIDE DEF s
  <2>3. NoDuplicate(AddActiveState(mActiveStates, s))
    BY <1>0, <2>2, AddState
  <2> QED BY <2>1, <2>3 DEF ActiveInv
<1>6. CASE ~ EnterInitialState /\ ~ LeaveState /\ ~ RollbackState /\ ~ EnterState
           /\ ~ ReenterState
  BY <1>6, ActiveStatesKept, BootOnlyOnce DEF ActiveInv
<1> QED BY <1>1, <1>2, <1>3, <1>4, <1>5, <1>6

\* The list of active states never holds a state twice, whatever the structure:
\* also where a rolled back transition appends without a look (1288).
THEOREM ActiveStatesUnique == Spec => []NoDuplicateActive
<1>1. Init => ActiveInv
  BY DEF Init, ActiveInv, NoDuplicateActive
<1>2. ActiveInv => NoDuplicateActive
  BY DEF ActiveInv
<1> QED BY <1>1, <1>2, ActiveInvStep, TypeCorrect, PTL DEF Spec

-----------------------------------------------------------------------------
(* The queue between its locks *)

LEMMA PopNeverEmptyStep == PopNeverEmpty /\ [Next]_vars => PopNeverEmpty'
<1> SUFFICES ASSUME PopNeverEmpty, [Next]_vars, pc' = "pop"
             PROVE  mPendingEvents' # <<>>
  BY DEF PopNeverEmpty
<1> USE DEF PopNeverEmpty
<1>1. CASE DispatcherStep
  BY <1>1 DEF DispatcherStep, EnterInitialState, StartEntryPoints, DispatchEvents,
     PopEvent, SkipState, BeginTransition, EndTransition, FinishEvent, ClearDispatching,
     NextExit, ExitsDone, ExitState, RefuseExit, NoMoreToExit, LeaveState,
     RollbackState, ExitDone, EnterState, RefuseEntry, ReenterState, ReenterDone,
     EntriesDone, EnteredFinalState, EnteredEmptyHistory, EnteredHistory,
     RestoreState, RestoreLastGroup, RestoreParent, EnteredState
<1>2. CASE \E c \in Clients : ClientStep(c)
  <2>1. CASE UNCHANGED mPendingEvents
    BY <1>2, <2>1, WaitStepFrame DEF ClientStep, Post, Emit
  <2>2. CASE mPendingEvents' # <<>>
    BY <2>2
  <2>3. UNCHANGED mPendingEvents \/ mPendingEvents' # <<>>
    <3>1. ASSUME NEW c \in Clients, NEW e \in Posted, NEW clearQueue \in BOOLEAN,
                 NEW sync \in BOOLEAN, Post(c, e, clearQueue, sync)
          PROVE  mPendingEvents' # <<>>
      BY <3>1 DEF Post
    <3> QED BY <1>2, <3>1, WaitStepFrame DEF ClientStep, Emit, queueVars
  <2> QED BY <2>1, <2>2, <2>3
<1>3. CASE UNCHANGED vars
  BY <1>3 DEF vars, queueVars
<1> QED BY <1>1, <1>2, <1>3 DEF Next

\* dispatchEvents may test empty() without the lock (645) and take the first
\* event later, under it: no client, not even one that clears the queue, can
\* leave the list empty in between.
THEOREM QueueHoldsWhatWasSeen == Spec => []PopNeverEmpty
<1>1. Init => PopNeverEmpty
  BY DEF Init, PopNeverEmpty
<1> QED BY <1>1, PopNeverEmptyStep, PTL DEF Spec
\* The steps that bring the dispatcher back to waiting look at the queue again.
LEMMA BackToIdle ==
    ASSUME TypeOK, DispatcherStep, pc' = "idle", mPendingEvents' # <<>>
    PROVE  emitted' > 0
<1>1. StartEntryPoints \/ ClearDispatching
  BY DEF DispatcherStep, EnterInitialState, DispatchEvents,
     PopEvent, SkipState, BeginTransition, EndTransition, FinishEvent,
     NextExit, ExitsDone, ExitState, RefuseExit, NoMoreToExit, LeaveState,
     RollbackState, ExitDone, EnterState, RefuseEntry, ReenterState, ReenterDone,
     EntriesDone, EnteredFinalState, EnteredEmptyHistory, EnteredHistory,
     RestoreState, RestoreLastGroup, RestoreParent, EnteredState
<1>2. emitted' = emitted + 1
  BY <1>1 DEF StartEntryPoints, ClearDispatching
<1> QED BY <1>2 DEF TypeOK

LEMMA EmissionStep ==
    TypeOK /\ EmissionCoversPending /\ [Next]_vars => EmissionCoversPending'
<1> SUFFICES ASSUME TypeOK, EmissionCoversPending, [Next]_vars,
                    mPendingEvents' # <<>>, pc' = "idle"
             PROVE  \/ emitted' > 0
                    \/ \E c \in Clients : client'[c] \in {"emit", "emitSync"}
  BY DEF EmissionCoversPending
<1>1. CASE DispatcherStep
  BY <1>1, BackToIdle
<1>2. ASSUME NEW c \in Clients, ClientStep(c)
      PROVE  \/ emitted' > 0
             \/ \E d \in Clients : client'[d] \in {"emit", "emitSync"}
  <2>1. ASSUME NEW e \in Posted, NEW clearQueue \in BOOLEAN, NEW sync \in BOOLEAN,
               Post(c, e, clearQueue, sync)
        PROVE  client'[c] \in {"emit", "emitSync"}
    BY <2>1 DEF Post, Notified
  <2>2. CASE Emit(c)
    BY <2>2 DEF Emit, TypeOK
  <2>3. CASE WaitStep(c)
    <3>1. /\ pc = "idle" /\ mPendingEvents # <<>> /\ emitted' = emitted
          /\ client[c] \in {"wait", "falling", "asleep"}
          /\ \E to \in {"ready", "wait", "falling", "asleep"} :
               client' = [client EXCEPT ![c] = to]
      BY <2>3, WaitStepFrame DEF queueVars
    <3>2. \A d \in Clients : client[d] \in {"emit", "emitSync"} => client'[d] = client[d]
      BY <3>1 DEF TypeOK
    <3> QED BY <3>1, <3>2 DEF EmissionCoversPending
  <2> QED BY <1>2, <2>1, <2>2, <2>3 DEF ClientStep
<1>3. CASE UNCHANGED vars
  BY <1>3 DEF vars, queueVars, clientVars, EmissionCoversPending
<1> QED BY <1>1, <1>2, <1>3 DEF Next

\* No wake-up is lost: while the dispatcher waits, an event in the queue always
\* has an emission that will serve it or a client about to make one.
THEOREM EveryEventIsServed == Spec => []EmissionCoversPending
<1>1. Init => EmissionCoversPending
  BY DEF Init, EmissionCoversPending
<1> QED BY <1>1, EmissionStep, TypeCorrect, PTL DEF Spec

-----------------------------------------------------------------------------
(* A canceled transition *)

\* What was active when the transition began is active still or among the
\* states already exited; a rollback brings these back one by one.
CancelInv ==
    /\ pc \in Handling \ {"end"} => single.res # "CANCELED"
    /\ pc \in Exiting \cup {"exit"} =>
         /\ Active \cup ToSet(single.exited) \subseteq single.before
         /\ single.before \subseteq Active \cup ToSet(single.exited)
    /\ pc = "leave" => single.exitAllowed
    /\ pc = "rollback" =>
         /\ ~ single.exitAllowed
         /\ \A k \in DOMAIN single.exited : k < single.at => single.exited[k] \in Active
    /\ pc = "exit" /\ ~ single.exitAllowed => Active = single.before
    /\ CanceledRestores
LEMMA BeginStepCancel ==
    ASSUME TypeOK, BeginTransition
    PROVE  CancelInv'
<1>0. NoTransition \in SingleLocals
  BY NamesAssumption DEF NoTransition, SingleLocals, Status
<1>1. /\ single'.res \in {"DONE_OK", "DONE_FAILED"}
      /\ single'.exitAllowed = TRUE /\ single'.exited = <<>> /\ single'.before = Active
  BY <1>0 DEF BeginTransition, SingleLocals, NoTransition
<1>2. pc' \in {"end", "exit"} /\ mActiveStates' = mActiveStates
  BY DEF BeginTransition
<1>3. Active' = Active /\ ToSet(single'.exited) = {}
  BY <1>1, <1>2 DEF Active, ToSet
<1> QED BY <1>1, <1>2, <1>3 DEF CancelInv, CanceledRestores, Handling, Exiting, Entering

\* The part of a transition that enters states.
LEMMA EnterStepsCancel ==
    ASSUME TypeOK, CancelInv,
           \/ EnterState \/ RefuseEntry \/ ReenterState \/ ReenterDone \/ EntriesDone
           \/ EnteredFinalState \/ EnteredEmptyHistory \/ EnteredHistory
           \/ RestoreState \/ RestoreLastGroup \/ RestoreParent \/ EnteredState
    PROVE  CancelInv'
<1>1. /\ pc \in Entering \cup {"enter"} /\ pc' \in Entering \cup {"enter", "end"}
  BY ZenonT(40) DEF EnterState, RefuseEntry, ReenterState, ReenterDone, EntriesDone,
     EnteredFinalState, EnteredEmptyHistory, EnteredHistory, RestoreState,
     RestoreLastGroup, RestoreParent, EnteredState, Entering
<1>2. single'.res \in {single.res, "DONE_OK", "DONE_FAILED", "PENDING"}
  BY Frames DEF EnterState, RefuseEntry, ReenterState, ReenterDone, EntriesDone,
     EnteredFinalState, EnteredEmptyHistory, EnteredHistory, RestoreState,
     RestoreLastGroup, RestoreParent, EnteredState, SingleLocals
<1>3. single'.res # "CANCELED"
  BY <1>1, <1>2 DEF CancelInv, Handling, Entering
<1> QED BY <1>1, <1>3 DEF CancelInv, CanceledRestores, Handling, Exiting, Entering

\* The part that leaves states, or enters them again.
LEMMA ExitStepsCancel ==
    ASSUME TypeOK, CancelInv,
           \/ NextExit \/ ExitsDone \/ ExitState \/ RefuseExit \/ NoMoreToExit
           \/ LeaveState \/ RollbackState \/ ExitDone
    PROVE  CancelInv'
<1> USE DEF CancelInv, CanceledRestores, Handling, Exiting, Entering
<1>0. /\ single.exited \in Seq(States) /\ single.at \in Nat
      /\ Active = ToSet(mActiveStates)
  BY Frames DEF SingleLocals, Active
<1>1. CASE NextExit
  <2>1. /\ pc = "exit" /\ pc' = "exiting" /\ Active' = Active
        /\ single'.exited = single.exited /\ single'.before = single.before
        /\ single'.res = single.res
    BY <1>1, Frames DEF NextExit, SingleLocals, Active
  <2> QED BY <2>1
<1>2. CASE ExitsDone
  <2>1. /\ pc = "exit" /\ pc' \in {"enter", "end"} /\ Active' = Active
        /\ single'.before = single.before
        /\ pc' = "enter" => single'.res = single.res
        /\ pc' = "end" => ~ single.exitAllowed
    BY <1>2, Frames DEF ExitsDone, SingleLocals, Active
  <2> QED BY <2>1
<1>3. CASE ExitState
  <2>1. PICK k \in ToExit :
            single' = [single EXCEPT !.exited = Append(@, mActiveStates[k]),
                                     !.at = k, !.exitAllowed = TRUE]
    BY <1>3 DEF ExitState
  <2>2. k \in DOMAIN mActiveStates
    <3>1. single.at \in 1 .. Len(mActiveStates) + 1
      BY <1>3 DEF ExitState, TypeOK
    <3>2. k \in 1 .. Len(mActiveStates)
      BY <3>1, Frames DEF ToExit
    <3> QED BY <3>2, Frames
  <2>3. mActiveStates[k] \in States /\ mActiveStates[k] \in Active
    BY <1>0, <2>2, Frames DEF ToSet
  <2>4. /\ pc = "exiting" /\ pc' = pc /\ Active' = Active
        /\ single'.exited = Append(single.exited, mActiveStates[k])
        /\ single'.before = single.before /\ single'.res = single.res
    BY <1>3, <2>1, Frames DEF ExitState, SingleLocals, Active
  <2>5. ToSet(single'.exited) = ToSet(single.exited) \cup {mActiveStates[k]}
    BY <1>0, <2>3, <2>4, AppendState
  <2> QED BY <2>3, <2>4, <2>5
<1>4. CASE RefuseExit
  <2>1. /\ pc = "exiting" /\ pc' = "rollback" /\ Active' = Active
        /\ single'.exited = single.exited /\ single'.before = single.before
        /\ single'.res = single.res /\ single'.exitAllowed = FALSE /\ single'.at = 1
    BY <1>4, Frames DEF RefuseExit, SingleLocals, Active
  <2>2. \A k \in DOMAIN single.exited : ~ (k < 1)
    BY <1>0
  <2> QED BY <2>1, <2>2
<1>5. CASE NoMoreToExit
  <2>1. /\ pc = "exiting" /\ Active' = Active
        /\ pc' = IF single.exitAllowed THEN "leave" ELSE "rollback"
        /\ single'.exited = single.exited /\ single'.before = single.before
        /\ single'.res = single.res /\ single'.exitAllowed = single.exitAllowed
        /\ single'.at = 1
    BY <1>5, Frames DEF NoMoreToExit, SingleLocals, Active
  <2>2. \A k \in DOMAIN single.exited : ~ (k < 1)
    BY <1>0
  <2> QED BY <2>1, <2>2
<1>6. CASE LeaveState
  <2> DEFINE s == single.exited[single.at]
  <2>1. /\ pc = "leave" /\ pc' = pc /\ mActiveStates' = Without(mActiveStates, s)
        /\ single'.exited = single.exited /\ single'.before = single.before
        /\ single'.res = single.res /\ single'.exitAllowed = single.exitAllowed
    BY <1>6, Frames DEF LeaveState, SingleLocals
  <2>2. s \in ToSet(single.exited)
    BY <1>0, <1>6 DEF LeaveState, TypeOK, ToSet
  <2> HIDE DEF s
  <2>3. Active' \subseteq Active /\ Active \subseteq Active' \cup {s}
    BY <2>1, Frames, WithoutState DEF Active
  <2> QED BY <2>1, <2>2, <2>3
<1>7. CASE RollbackState
  <2> DEFINE s    == single.exited[single.at]
             rest == Without(mActiveStates, s)
  <2>1. /\ pc = "rollback" /\ pc' = pc /\ mActiveStates' = Append(rest, s)
        /\ single'.exited = single.exited /\ single'.before = single.before
        /\ single'.res = single.res /\ single'.exitAllowed = single.exitAllowed
        /\ single'.at = single.at + 1
    BY <1>7, Frames DEF RollbackState, SingleLocals
  <2>2. s \in ToSet(single.exited) /\ s \in States
    BY <1>0, <1>7 DEF RollbackState, TypeOK, ToSet
  <2>3. /\ rest \in Seq(States) /\ ToSet(rest) \subseteq Active
        /\ Active \subseteq ToSet(rest) \cup {s}
    BY Frames, WithoutState DEF Active
  <2>4. \A k \in DOMAIN single.exited :
            k < single.at + 1 => k < single.at \/ single.exited[k] = s
    BY <1>0
  <2> HIDE DEF s, rest
  <2>5. Active' = ToSet(rest) \cup {s}
    BY <2>1, <2>2, <2>3, AppendState DEF Active
  <2>6. Active' = Active \cup {s}
    BY <2>3, <2>5
  <2> QED BY <2>1, <2>2, <2>4, <2>6
<1>8. CASE ExitDone
  <2>1. /\ pc \in {"leave", "rollback"} /\ pc' = "exit" /\ Active' = Active
        /\ UNCHANGED single /\ single.at > Len(single.exited)
    BY <1>8 DEF ExitDone, Active
  <2>2. CASE pc = "leave"
    BY <2>1, <2>2
  <2>3. CASE pc = "rollback"
    <3>1. ToSet(single.exited) \subseteq Active
      BY <1>0, <2>1, <2>3 DEF ToSet
    <3> QED BY <2>1, <2>3, <3>1
  <2> QED BY <2>1, <2>2, <2>3
<1> QED BY <1>1, <1>2, <1>3, <1>4, <1>5, <1>6, <1>7, <1>8

LEMMA CancelInvStep == TypeOK /\ CancelInv /\ [Next]_vars => CancelInv'
<1> SUFFICES ASSUME TypeOK, CancelInv, [Next]_vars PROVE CancelInv'
  OBVIOUS
<1>1. CASE \/ EnterInitialState \/ StartEntryPoints \/ DispatchEvents \/ PopEvent
           \/ SkipState \/ EndTransition \/ FinishEvent \/ ClearDispatching
  <2>1. pc' \in {"bootEntry", "idle", "pop", "scan", "clear"}
    BY <1>1 DEF EnterInitialState, StartEntryPoints, DispatchEvents, PopEvent,
       SkipState, EndTransition, FinishEvent, ClearDispatching
  <2> QED BY <2>1 DEF CancelInv, CanceledRestores, Handling, Exiting, Entering
<1>2. CASE UNCHANGED <<mActiveStates, pc, single>>
  BY <1>2 DEF CancelInv, CanceledRestores, Active
<1>3. ASSUME NEW c \in Clients, ClientStep(c)
      PROVE  UNCHANGED <<mActiveStates, pc, single>>
  BY <1>3, WaitStepFrame DEF ClientStep, Post, Emit
<1>4. CASE UNCHANGED vars
  BY <1>2, <1>4 DEF vars
<1> QED BY <1>1, <1>2, <1>3, <1>4, BeginStepCancel, EnterStepsCancel, ExitStepsCancel
    DEF Next, DispatcherStep

\* onExiting may refuse after some of the states to leave have been exited:
\* the transition is then canceled and exactly the states it found are active,
\* also when several transitions match and share the list of exited states.
THEOREM CancelingRestores == Spec => []CanceledRestores
<1>1. Init => CancelInv
  BY DEF Init, CancelInv, CanceledRestores, Handling, Exiting, Entering
<1>2. CancelInv => CanceledRestores
  BY DEF CancelInv
<1> QED BY <1>1, <1>2, CancelInvStep, TypeCorrect, PTL DEF Spec

-----------------------------------------------------------------------------
(* Clients that wait for an answer *)

\* An event of the list belongs to the client `w`.
OwedIn(list, w) == \E i \in DOMAIN list : list[i].waiter = w

\* What an event that ignores entry points leaves undone is done by another
\* event of the same client, further back.
Followed(list) ==
    \A i \in DOMAIN list : list[i].ignoreEntryPoints =>
        \E j \in DOMAIN list : i < j /\ list[j].waiter = list[i].waiter

LEMMA FollowedFront ==
    ASSUME NEW S, NEW list \in Seq(S), NEW e \in S, Followed(list),
           e.ignoreEntryPoints => OwedIn(list, e.waiter)
    PROVE  /\ Followed(<<e>> \o list)
           /\ OwedIn(<<e>> \o list, e.waiter)
           /\ \A w : OwedIn(list, w) => OwedIn(<<e>> \o list, w)
<1> DEFINE longer == <<e>> \o list
<1>1. /\ longer[1] = e /\ 1 \in DOMAIN longer
      /\ \A i \in DOMAIN list : i + 1 \in DOMAIN longer /\ longer[i + 1] = list[i]
      /\ \A i \in DOMAIN longer : i = 1 \/ i - 1 \in DOMAIN list
      /\ DOMAIN list \subseteq Nat \ {0} /\ DOMAIN longer \subseteq Nat
  OBVIOUS
<1> HIDE DEF longer
<1>2. ASSUME NEW i \in DOMAIN longer, longer[i].ignoreEntryPoints
      PROVE  \E j \in DOMAIN longer : i < j /\ longer[j].waiter = longer[i].waiter
  <2>1. CASE i = 1
    <3>1. PICK j \in DOMAIN list : list[j].waiter = e.waiter
      BY <1>1, <1>2, <2>1 DEF OwedIn
    <3>2. j + 1 \in DOMAIN longer /\ 1 < j + 1 /\ longer[j + 1] = list[j]
      BY <1>1
    <3> QED BY <1>1, <2>1, <3>1, <3>2
  <2>2. CASE i # 1
    <3>1. i - 1 \in DOMAIN list /\ longer[i] = list[i - 1]
      <4>1. i - 1 \in DOMAIN list /\ i \in Nat
        BY <1>1, <2>2
      <4>2. longer[(i - 1) + 1] = list[i - 1] /\ (i - 1) + 1 = i
        BY <1>1, <4>1
      <4> QED BY <4>1, <4>2
    <3>2. PICK j \in DOMAIN list : i - 1 < j /\ list[j].waiter = list[i - 1].waiter
      BY <1>2, <3>1 DEF Followed
    <3>3. j + 1 \in DOMAIN longer /\ longer[j + 1] = list[j] /\ i < j + 1
      BY <1>1, <3>2
    <3> QED BY <3>1, <3>2, <3>3
  <2> QED BY <2>1, <2>2
<1>3. OwedIn(longer, e.waiter)
  BY <1>1 DEF OwedIn
<1>4. ASSUME NEW w, OwedIn(list, w) PROVE OwedIn(longer, w)
  <2>1. PICK i \in DOMAIN list : list[i].waiter = w
    BY <1>4 DEF OwedIn
  <2> QED BY <1>1, <2>1 DEF OwedIn
<1>5. Followed(longer)
  BY <1>2 DEF Followed
<1> QED BY <1>3, <1>4, <1>5 DEF longer

LEMMA PairInFront ==
    ASSUME NEW S, NEW list \in Seq(S), NEW a \in S, NEW b \in S
    PROVE  /\ <<b>> \o list \in Seq(S)
           /\ <<a, b>> \o list = <<a>> \o (<<b>> \o list)
<1> DEFINE l == <<a, b>> \o list
           r == <<a>> \o (<<b>> \o list)
<1>1. <<b>> \o list \in Seq(S) /\ <<a, b>> \in Seq(S)
  BY PairSeq
<1>2. l \in Seq(S) /\ r \in Seq(S) /\ Len(l) = Len(list) + 2 /\ Len(r) = Len(list) + 2
  BY <1>1
<1>3. ASSUME NEW i \in 1 .. Len(list) + 2
      PROVE  /\ l[i] = IF i = 1 THEN a ELSE IF i = 2 THEN b ELSE list[i - 2]
             /\ r[i] = IF i = 1 THEN a ELSE IF i = 2 THEN b ELSE list[i - 2]
  OBVIOUS
<1> HIDE DEF l, r
<1>4. l = r
  BY <1>2, <1>3, SMTT(30)
<1> QED BY <1>1, <1>4 DEF l, r

LEMMA FollowedBack ==
    ASSUME NEW S, NEW list \in Seq(S), NEW more \in Seq(S), Followed(list),
           \A i \in DOMAIN more : ~ more[i].ignoreEntryPoints
    PROVE  /\ Followed(list \o more)
           /\ \A w : OwedIn(list, w) => OwedIn(list \o more, w)
<1> DEFINE longer == list \o more
<1>1. /\ \A i \in DOMAIN list : i \in DOMAIN longer /\ longer[i] = list[i]
      /\ \A i \in DOMAIN longer : i \in DOMAIN list \/ \E k \in DOMAIN more : longer[i] = more[k]
  <2>1. ASSUME NEW i \in DOMAIN longer, i \notin DOMAIN list
        PROVE  \E k \in DOMAIN more : longer[i] = more[k]
    <3>1. i - Len(list) \in DOMAIN more /\ longer[i] = more[i - Len(list)]
      BY <2>1
    <3> QED BY <3>1
  <2> QED BY <2>1
<1> HIDE DEF longer
<1>2. Followed(longer)
  BY <1>1 DEF Followed
<1>3. ASSUME NEW w, OwedIn(list, w) PROVE OwedIn(longer, w)
  BY <1>1, <1>3 DEF OwedIn
<1> QED BY <1>2, <1>3 DEF longer

LEMMA FollowedTail ==
    ASSUME NEW S, NEW list \in Seq(S), list # <<>>, Followed(list)
    PROVE  /\ Followed(Tail(list))
           /\ Head(list).ignoreEntryPoints => OwedIn(Tail(list), Head(list).waiter)
           /\ \A w : OwedIn(list, w) => w = Head(list).waiter \/ OwedIn(Tail(list), w)
<1> DEFINE rest == Tail(list)
<1>1. /\ 1 \in DOMAIN list /\ Head(list) = list[1]
      /\ \A i \in DOMAIN rest : i + 1 \in DOMAIN list /\ rest[i] = list[i + 1]
      /\ \A i \in DOMAIN list \ {1} : i - 1 \in DOMAIN rest /\ rest[i - 1] = list[i]
      /\ DOMAIN list \subseteq Nat \ {0} /\ DOMAIN rest \subseteq Nat \ {0}
  OBVIOUS
<1> HIDE DEF rest
<1>2. ASSUME NEW i \in DOMAIN list, list[i].ignoreEntryPoints
      PROVE  \E j \in DOMAIN rest : /\ i < j + 1
                                    /\ rest[j].waiter = list[i].waiter
  <2>1. PICK j \in DOMAIN list : i < j /\ list[j].waiter = list[i].waiter
    BY <1>2 DEF Followed
  <2>2. j # 1 /\ j \in Nat
    BY <1>1, <2>1
  <2>3. j - 1 \in DOMAIN rest /\ rest[j - 1] = list[j] /\ (j - 1) + 1 = j
    BY <1>1, <2>2
  <2> QED BY <2>1, <2>3
<1>3. Followed(rest)
  <2> SUFFICES ASSUME NEW i \in DOMAIN rest, rest[i].ignoreEntryPoints
               PROVE  \E j \in DOMAIN rest : i < j /\ rest[j].waiter = rest[i].waiter
    BY DEF Followed
  <2>1. i + 1 \in DOMAIN list /\ list[i + 1] = rest[i]
    BY <1>1
  <2>2. PICK j \in DOMAIN rest : i + 1 < j + 1 /\ rest[j].waiter = list[i + 1].waiter
    BY <1>2, <2>1
  <2>3. i < j
    BY <1>1, <2>2
  <2> QED BY <2>1, <2>2, <2>3
<1>4. Head(list).ignoreEntryPoints => OwedIn(rest, Head(list).waiter)
  BY <1>1, <1>2 DEF OwedIn
<1>5. ASSUME NEW w, OwedIn(list, w) PROVE w = Head(list).waiter \/ OwedIn(rest, w)
  BY <1>1, <1>5 DEF OwedIn
<1> QED BY <1>3, <1>4, <1>5 DEF rest

-----------------------------------------------------------------------------
\* Some of what the event in hand asks for is left to a later one.
Unfinished ==
    \/ dispatch.event.ignoreEntryPoints
    \/ dispatch.res = "PENDING"
    \/ single.ignore
    \/ single.res = "PENDING" /\ pc # "restore"
    \/ pc = "restoreParent"

WaitInv ==
    /\ NoOrphanWaiter
    /\ Followed(mPendingEvents)
    /\ pc \notin Handling => single = NoTransition
    /\ pc \notin Handling \cup {"scan"} => dispatch = NotDispatching
    /\ Unfinished => OwedIn(mPendingEvents, dispatch.event.waiter)

\* Events in the queue stay there, and new ones leave nothing undone.
QueueGrows ==
    /\ Followed(mPendingEvents')
    /\ \A w : OwedIn(mPendingEvents, w) => OwedIn(mPendingEvents', w)

LEMMA PushedGrows ==
    ASSUME TypeOK, Followed(mPendingEvents), NEW event \in PendingEventInfo,
           PushFront(event),
           event.ignoreEntryPoints => OwedIn(mPendingEvents, event.waiter)
    PROVE  QueueGrows /\ OwedIn(mPendingEvents', event.waiter)
BY FollowedFront DEF TypeOK, PushFront, QueueGrows

\* What other threads and the actions of states add to the queue: events at its
\* end, with nothing left undone.
AppendsRegular ==
    \E more \in Seq(PendingEventInfo) :
        /\ mPendingEvents' = mPendingEvents \o more
        /\ \A i \in DOMAIN more : /\ more[i].transitionType = "REGULAR"
                                  /\ ~ more[i].ignoreEntryPoints

\* What the dispatcher appends of its own accord nobody waits for.
AppendsUnowned ==
    \E more \in Seq(PendingEventInfo) :
        /\ mPendingEvents' = mPendingEvents \o more
        /\ \A i \in DOMAIN more : more[i].waiter = NoClient

LEMMA AppendingGrows ==
    ASSUME TypeOK, Followed(mPendingEvents), AppendsRegular
    PROVE  QueueGrows
<1>1. PICK more \in Seq(PendingEventInfo) :
          /\ mPendingEvents' = mPendingEvents \o more
          /\ \A i \in DOMAIN more : ~ more[i].ignoreEntryPoints
  BY DEF AppendsRegular
<1> QED BY <1>1, FollowedBack, Frames DEF QueueGrows

LEMMA NothingAppended ==
    ASSUME TypeOK, UNCHANGED mPendingEvents
    PROVE  AppendsRegular /\ AppendsUnowned
<1>1. PICK none \in Seq(PendingEventInfo) :
          DOMAIN none = {} /\ mPendingEvents = mPendingEvents \o none
  <2>1. <<>> \in Seq(PendingEventInfo) /\ DOMAIN <<>> = {}
    OBVIOUS
  <2>2. mPendingEvents = mPendingEvents \o <<>>
    BY Frames, ConcatEmptySeq
  <2> QED BY <2>1, <2>2
<1> QED BY <1>1 DEF AppendsRegular, AppendsUnowned

LEMMA ActionsAppend ==
    ASSUME TypeOK, NEW s \in States, NEW trigger \in {"ENTRY", "EXIT"},
           ExecuteStateAction(s, trigger)
    PROVE  AppendsRegular /\ AppendsUnowned
<1> DEFINE raised == RaisedOn[trigger][s]
           posted == [i \in DOMAIN raised |-> Regular(raised[i], NoClient)]
<1>1. raised \in Seq(Events)
  BY CallbacksAssumption
<1>2. ASSUME NEW i \in DOMAIN raised
      PROVE  /\ Regular(raised[i], NoClient) \in PendingEventInfo
             /\ Regular(raised[i], NoClient).transitionType = "REGULAR"
             /\ ~ Regular(raised[i], NoClient).ignoreEntryPoints
             /\ Regular(raised[i], NoClient).waiter = NoClient
  BY <1>1, RegularEvent DEF Regular
<1>3. posted \in Seq(PendingEventInfo)
      /\ \A i \in DOMAIN posted : /\ posted[i].transitionType = "REGULAR"
                                  /\ ~ posted[i].ignoreEntryPoints
                                  /\ posted[i].waiter = NoClient
  BY <1>1, <1>2
<1>4. mPendingEvents' = mPendingEvents \o posted
  BY DEF ExecuteStateAction
<1> HIDE DEF posted
<1> QED BY <1>3, <1>4 DEF AppendsRegular, AppendsUnowned

LEMMA EnteringAppends ==
    ASSUME TypeOK, NEW list, NEW s \in States,
           OnStateEntering(list, s) \/ EnterRegardless(list, s)
    PROVE  AppendsRegular /\ AppendsUnowned
BY ActionsAppend, NothingAppended DEF OnStateEntering, EnterRegardless, queueVars

\* The steps that leave the queue alone, or append to it.
LEMMA AppendingSteps ==
    ASSUME TypeOK,
           \/ EnterInitialState \/ DispatchEvents \/ SkipState \/ BeginTransition
           \/ EndTransition \/ FinishEvent \/ ClearDispatching
           \/ NextExit \/ ExitsDone \/ ExitState \/ RefuseExit \/ NoMoreToExit
           \/ LeaveState \/ RollbackState \/ ExitDone
           \/ EnterState \/ RefuseEntry \/ ReenterState \/ ReenterDone \/ EntriesDone
           \/ EnteredHistory \/ UNCHANGED vars
    PROVE  AppendsRegular /\ AppendsUnowned
<1>1. CASE UNCHANGED mPendingEvents
  BY <1>1, NothingAppended
<1>2. CASE EnterInitialState
  BY <1>2, EnteringAppends, NamesAssumption DEF EnterInitialState
<1>3. CASE ExitState
  <2>1. PICK i \in ToExit : ExecuteStateAction(mActiveStates[i], "EXIT")
    BY <1>3 DEF ExitState
  <2>2. i \in 1 .. Len(mActiveStates)
    <3>1. single.at \in 1 .. Len(mActiveStates) + 1
      BY <1>3 DEF ExitState, TypeOK
    <3> QED BY <3>1, Frames DEF ToExit
  <2>3. mActiveStates[i] \in States
    BY <2>2, Frames
  <2> QED BY <2>1, <2>3, ActionsAppend
<1>4. CASE RollbackState
  <2>1. single.exited[single.at] \in States
    BY <1>4, Frames DEF RollbackState, TypeOK, SingleLocals
  <2> QED BY <1>4, <2>1, EnteringAppends DEF RollbackState
<1>5. CASE EnterState
  <2>1. PICK i \in single.todo : OnStateEntering(mActiveStates, Matched(i).to)
    BY <1>5 DEF EnterState
  <2>2. Matched(i).to \in States
    BY <1>5, <2>1, Frames DEF EnterState, TypeOK, Handling, TransitionInfo
  <2> QED BY <2>1, <2>2, EnteringAppends
<1>6. CASE ReenterState
  <2>1. single.exited[single.at] \in States
    BY <1>6, Frames DEF ReenterState, TypeOK, SingleLocals
  <2> QED BY <1>6, <2>1, EnteringAppends DEF ReenterState
<1> QED BY <1>1, <1>2, <1>3, <1>4, <1>5, <1>6
    DEF DispatchEvents, SkipState, BeginTransition, EndTransition, FinishEvent,
        ClearDispatching, NextExit, ExitsDone, RefuseExit, NoMoreToExit, LeaveState,
        ExitDone, RefuseEntry, ReenterDone, EntriesDone, EnteredHistory, vars, queueVars

LEMMA PostAppends ==
    ASSUME TypeOK, NEW c \in Clients, NEW e \in Posted, NEW sync \in BOOLEAN,
           Post(c, e, FALSE, sync)
    PROVE  AppendsRegular
<1> DEFINE event == Regular(e, IF sync THEN c ELSE NoClient)
<1>1. /\ event \in PendingEventInfo /\ event.transitionType = "REGULAR"
      /\ ~ event.ignoreEntryPoints
  BY ClientsAssumption, RegularEvent DEF Regular
<1>2. mPendingEvents' = Append(mPendingEvents, event)
  BY DEF Post
<1> HIDE DEF event
<1>3. mPendingEvents' = mPendingEvents \o <<event>> /\ <<event>> \in Seq(PendingEventInfo)
  BY <1>1, <1>2, Frames
<1>4. \A i \in DOMAIN <<event>> : <<event>>[i] = event
  OBVIOUS
<1> QED BY <1>1, <1>3, <1>4 DEF AppendsRegular

\* Clients that do not clear the queue append to it.
LEMMA ClientsAppend ==
    ASSUME TypeOK, MayClear = {}, NEW c \in Clients, ClientStep(c)
    PROVE  AppendsRegular
<1>1. ASSUME NEW e \in Posted, NEW sync \in BOOLEAN, Post(c, e, FALSE, sync)
      PROVE  AppendsRegular
  BY <1>1, PostAppends
<1>2. CASE Emit(c) \/ WaitStep(c)
  BY <1>2, NothingAppended, WaitStepFrame DEF Emit, queueVars
<1> QED BY <1>1, <1>2 DEF ClientStep

\* The steps that put events in front of the queue; what is owed to the owner
\* of the event in hand is then in the queue whenever something is unfinished.
LEMMA PushingSteps ==
    ASSUME TypeOK, WaitInv, NothingDropped,
           \/ StartEntryPoints \/ EnteredFinalState \/ EnteredEmptyHistory
           \/ RestoreState \/ RestoreLastGroup \/ RestoreParent \/ EnteredState
    PROVE  /\ QueueGrows
           /\ Unfinished' => OwedIn(mPendingEvents', dispatch.event.waiter)
<1> DEFINE w == dispatch.event.waiter
<1>0. /\ Followed(mPendingEvents)
      /\ Unfinished => OwedIn(mPendingEvents, w)
  BY DEF WaitInv
<1>u. ASSUME UNCHANGED mPendingEvents PROVE QueueGrows
  BY <1>0, <1>u DEF QueueGrows
<1>f. ASSUME NEW ts \in Seq(TransitionInfo), NEW ignore \in BOOLEAN
      PROVE  /\ ForcedOf(dispatch.event, ts, ignore) \in PendingEventInfo
             /\ ForcedOf(dispatch.event, ts, ignore).waiter = w
             /\ ForcedOf(dispatch.event, ts, ignore).ignoreEntryPoints = ignore
  BY Frames, ForcedEvent DEF ForcedOf
<1>edge. ASSUME NEW s \in States, Entered \in States
         PROVE  <<ExternalTransition(Entered, s)>> \in Seq(TransitionInfo)
  BY <1>edge DEF ExternalTransition, TransitionInfo
<1>1. CASE StartEntryPoints
  <2> DEFINE event == EntryPointOf(Regular(NoEvent, NoClient))
  <2>1. event \in PendingEventInfo /\ ~ event.ignoreEntryPoints
    BY RegularEvent, EntryPointEvent DEF EntryPointOf, Regular
  <2>2. PushFront(event) \/ UNCHANGED mPendingEvents
    BY <1>1 DEF StartEntryPoints
  <2> HIDE DEF event
  <2>3. QueueGrows
    BY <1>0, <1>u, <2>1, <2>2, PushedGrows
  <2>4. Unfinished' => Unfinished
    BY <1>1 DEF StartEntryPoints, Unfinished
  <2> QED BY <1>0, <2>3, <2>4 DEF QueueGrows
<1>2. CASE EnteredFinalState
  <2> DEFINE e == IF FinalEvent[Entered] # NoEvent
                  THEN FinalEvent[Entered] ELSE dispatch.event.id
  <2>1. Regular(e, NoClient) \in PendingEventInfo /\ ~ Regular(e, NoClient).ignoreEntryPoints
    <3>1. dispatch.event.id \in Events \cup {NoEvent}
      BY Frames DEF PendingEventInfo
    <3>2. e \in Events \cup {NoEvent}
      BY <1>2, <3>1, FinalAssumption DEF EnteredFinalState, FinalStates
    <3> QED BY <3>2, RegularEvent DEF Regular
  <2>2. PushFront(Regular(e, NoClient)) \/ UNCHANGED mPendingEvents
    BY <1>2 DEF EnteredFinalState
  <2> HIDE DEF e
  <2>3. QueueGrows
    BY <1>0, <1>u, <2>1, <2>2, PushedGrows
  <2>4. Unfinished' => Unfinished
    BY <1>2, Frames DEF EnteredFinalState, Unfinished, SingleLocals
  <2> QED BY <1>0, <2>3, <2>4 DEF QueueGrows
<1>3. CASE EnteredEmptyHistory
  <2> DEFINE target == History[Entered].target
             parent == History[Entered].parent
             forced(s, ignore) ==
                 ForcedOf(dispatch.event, <<ExternalTransition(Entered, s)>>, ignore)
             own    == dispatch.event.ignoreEntryPoints
             first  == forced(parent, IF target = NoState THEN own ELSE TRUE)
             second == forced(target, own)
  <2>1. Entered \in HistoryStates /\ Entered \in States /\ parent \in States
        /\ target \in States \cup {NoState} /\ own \in BOOLEAN /\ target # parent
    BY <1>3, HistoryOfParent, TargetInHand, Frames
       DEF EnteredEmptyHistory, Entering, Exiting, PendingEventInfo, NothingDropped
  <2>2. mPendingEvents' = IF target = NoState THEN <<first>> \o mPendingEvents
                          ELSE <<first, second>> \o mPendingEvents
    BY <1>3, <2>1 DEF EnteredEmptyHistory
  <2>3. first \in PendingEventInfo /\ first.waiter = w
        /\ first.ignoreEntryPoints = IF target = NoState THEN own ELSE TRUE
    BY <1>f, <1>edge, <2>1
  <2>4. target # NoState => /\ second \in PendingEventInfo /\ second.waiter = w
                            /\ second.ignoreEntryPoints = own
    BY <1>f, <1>edge, <2>1
  <2>5. own => OwedIn(mPendingEvents, w)
    BY <1>0 DEF Unfinished
  <2> HIDE DEF target, parent, own, first, second
  <2>6. QueueGrows /\ OwedIn(mPendingEvents', w)
    <3>1. CASE target = NoState
      <4>1. first.ignoreEntryPoints => OwedIn(mPendingEvents, first.waiter)
        BY <2>3, <2>5, <3>1
      <4>2. mPendingEvents' = <<first>> \o mPendingEvents
        BY <2>2, <3>1
      <4> QED BY <1>0, <2>3, <4>1, <4>2, FollowedFront, Frames DEF QueueGrows
    <3>2. CASE target # NoState
      <4> DEFINE longer == <<second>> \o mPendingEvents
      <4>1. second.ignoreEntryPoints => OwedIn(mPendingEvents, second.waiter)
        BY <2>4, <2>5, <3>2
      <4>2. /\ Followed(longer) /\ OwedIn(longer, w)
            /\ \A v : OwedIn(mPendingEvents, v) => OwedIn(longer, v)
        BY <1>0, <2>4, <3>2, <4>1, FollowedFront, Frames
      <4>3. longer \in Seq(PendingEventInfo) /\ <<first, second>> \o mPendingEvents
                                                = <<first>> \o longer
        BY <2>3, <2>4, <3>2, Frames, PairInFront
      <4>4. mPendingEvents' = <<first>> \o longer
        BY <2>2, <3>2, <4>3
      <4> HIDE DEF longer
      <4> QED BY <2>3, <4>2, <4>3, <4>4, FollowedFront DEF QueueGrows
    <3> QED BY <3>1, <3>2
  <2> QED BY <2>6
<1>4. CASE RestoreState
  <2> DEFINE event == ForcedOf(dispatch.event, single.group, single.ignore)
  <2>1. single.group \in Seq(TransitionInfo) /\ single.ignore \in BOOLEAN
    BY Frames DEF SingleLocals
  <2>2. event \in PendingEventInfo /\ event.waiter = w
        /\ event.ignoreEntryPoints = single.ignore
    BY <1>f, <2>1
  <2>3. single.ignore => OwedIn(mPendingEvents, w)
    BY <1>0 DEF Unfinished
  <2>4. /\ pc = "restore" /\ pc' = "restore" /\ dispatch' = dispatch
        /\ \/ PushFront(event)
           \/ UNCHANGED mPendingEvents /\ ~ single'.ignore
    BY <1>4, Frames DEF RestoreState, SingleLocals
  <2> HIDE DEF event
  <2>5. CASE PushFront(event)
    BY <1>0, <2>2, <2>3, <2>5, PushedGrows
  <2>6. CASE UNCHANGED mPendingEvents /\ ~ single'.ignore
    BY <1>0, <1>u, <2>4, <2>6 DEF Unfinished
  <2> QED BY <2>4, <2>5, <2>6
<1>5. CASE RestoreLastGroup
  <2>1. single.group \in Seq(TransitionInfo) /\ single.ignore \in BOOLEAN
    BY Frames DEF SingleLocals
  <2>2. single.ignore => OwedIn(mPendingEvents, w)
    BY <1>0 DEF Unfinished
  <2> QED BY <1>0, <1>5, <1>f, <2>1, <2>2, PushedGrows DEF RestoreLastGroup
<1>6. CASE RestoreParent
  <2> DEFINE parent == History[Entered].parent
  <2>1. parent \in States /\ Entered \in States
    <3>1. Entered \in HistoryStates
      BY <1>6 DEF RestoreParent, TypeOK, Entered, CurTransition, Matched
    <3>2. Entered \in States
      BY <1>6, TargetInHand DEF RestoreParent, Entering, Exiting
    <3> QED BY <3>1, <3>2, HistoryOfParent
  <2>2. PushFront(ForcedOf(dispatch.event, <<ExternalTransition(Entered, parent)>>, TRUE))
    BY <1>6 DEF RestoreParent
  <2>3. OwedIn(mPendingEvents, w)
    BY <1>0, <1>6 DEF Unfinished, RestoreParent
  <2> HIDE DEF parent
  <2>4. <<ExternalTransition(Entered, parent)>> \in Seq(TransitionInfo)
    BY <1>edge, <2>1
  <2> QED BY <1>0, <1>f, <2>2, <2>3, <2>4, PushedGrows
<1>7. CASE EnteredState
  <2> DEFINE event == EntryPointOf(dispatch.event)
             own   == dispatch.event.ignoreEntryPoints
  <2>1. event \in PendingEventInfo /\ event.waiter = w /\ event.ignoreEntryPoints = own
    BY Frames, EntryPointEvent DEF EntryPointOf
  <2>2. /\ pc = "entered" /\ pc' = "enter" /\ dispatch' = dispatch
        /\ single'.ignore = single.ignore
        /\ \/ PushFront(event) /\ ~ own
           \/ UNCHANGED mPendingEvents /\ (single'.res = "PENDING" => own)
    BY <1>7, Frames DEF EnteredState, SingleLocals
  <2>3. Unfinished' => Unfinished \/ single'.res = "PENDING"
    BY <2>2 DEF Unfinished
  <2>4. own => Unfinished
    BY DEF Unfinished
  <2> HIDE DEF event, own
  <2>5. CASE PushFront(event) /\ ~ own
    BY <1>0, <2>1, <2>5, PushedGrows
  <2>6. CASE UNCHANGED mPendingEvents /\ (single'.res = "PENDING" => own)
    BY <1>0, <1>u, <2>3, <2>4, <2>6
  <2> QED BY <2>2, <2>5, <2>6
<1> QED BY <1>1, <1>2, <1>3, <1>4, <1>5, <1>6, <1>7

\* The other steps of a transition leave nothing unfinished that was not.
LEMMA UnfinishedKept ==
    ASSUME TypeOK, WaitInv,
           \/ EnterInitialState \/ DispatchEvents \/ SkipState \/ BeginTransition
           \/ EndTransition \/ ClearDispatching
           \/ NextExit \/ ExitsDone \/ ExitState \/ RefuseExit \/ NoMoreToExit
           \/ LeaveState \/ RollbackState \/ ExitDone
           \/ EnterState \/ RefuseEntry \/ ReenterState \/ ReenterDone \/ EntriesDone
           \/ EnteredHistory \/ UNCHANGED vars \/ \E c \in Clients : ClientStep(c)
    PROVE  (Unfinished' => Unfinished) /\ dispatch'.event = dispatch.event
<1>0. NoTransition.res # "PENDING" /\ ~ NoTransition.ignore
  BY DEF NoTransition
<1>1. CASE \/ EnterInitialState \/ DispatchEvents \/ ClearDispatching
           \/ ExitDone \/ ReenterDone \/ EntriesDone \/ UNCHANGED vars
  BY <1>1 DEF EnterInitialState, DispatchEvents, ClearDispatching, ExitDone,
     ReenterDone, EntriesDone, vars, Unfinished
<1>2. CASE SkipState
  BY <1>2, Frames DEF SkipState, Unfinished, DispatchLocals
<1>3. CASE BeginTransition
  <2>1. ~ single'.ignore /\ single'.res # "PENDING"
    BY <1>3, ZenonT(40) DEF BeginTransition, NoTransition
  <2>2. pc' # "restoreParent" /\ dispatch' = dispatch
    BY <1>3 DEF BeginTransition
  <2> QED BY <2>1, <2>2 DEF Unfinished
<1>4. CASE EndTransition
  <2>1. /\ dispatch'.event = dispatch.event /\ pc = "end" /\ pc' = "scan"
        /\ dispatch'.res = MergeResult(dispatch.res, single.res)
        /\ single' = NoTransition
    BY <1>4, Frames DEF EndTransition, DispatchLocals
  <2> QED BY <1>0, <2>1 DEF Unfinished, MergeResult
<1>5. CASE \/ NextExit \/ ExitsDone \/ ExitState \/ RefuseExit \/ NoMoreToExit
           \/ LeaveState \/ RollbackState
  <2>1. /\ dispatch' = dispatch /\ pc \in Exiting \cup {"exit"}
        /\ pc' \in Exiting \cup {"exit", "enter", "end"}
        /\ single'.ignore = single.ignore
        /\ single'.res \in {single.res, "CANCELED"}
    BY <1>5, Frames, ZenonT(40) DEF NextExit, ExitsDone, ExitState, RefuseExit, NoMoreToExit,
       LeaveState, RollbackState, SingleLocals, Exiting
  <2> QED BY <2>1 DEF Unfinished, Exiting
<1>6. CASE EnterState \/ RefuseEntry \/ ReenterState
  <2>1. /\ dispatch' = dispatch /\ pc \in {"enter", "reenter"}
        /\ pc' \in {"entered", "reenter"}
        /\ single'.ignore = single.ignore
        /\ single'.res \in {single.res, "DONE_FAILED"}
    BY <1>6, Frames DEF EnterState, RefuseEntry, ReenterState, SingleLocals
  <2> QED BY <2>1 DEF Unfinished
<1>7. CASE EnteredHistory
  <2>1. dispatch' = dispatch /\ pc' = "restore" /\ ~ single'.ignore
    BY <1>7, Frames DEF EnteredHistory, SingleLocals
  <2> QED BY <2>1 DEF Unfinished
<1>8. ASSUME NEW c \in Clients, ClientStep(c)
      PROVE  UNCHANGED <<pc, dispatch, single>>
  BY <1>8, WaitStepFrame DEF ClientStep, Post, Emit
<1> QED BY <1>1, <1>2, <1>3, <1>4, <1>5, <1>6, <1>7, <1>8 DEF Unfinished

LEMMA WaitInvStep == NothingDropped => (TypeOK /\ WaitInv /\ [Next]_vars => WaitInv')
<1> SUFFICES ASSUME NothingDropped, TypeOK, WaitInv, [Next]_vars PROVE WaitInv'
  OBVIOUS
<1> USE DEF Carries
<1>0. /\ NoOrphanWaiter /\ Followed(mPendingEvents)
      /\ pc \notin Handling => single = NoTransition
      /\ pc \notin Handling \cup {"scan"} => dispatch = NotDispatching
      /\ Unfinished => OwedIn(mPendingEvents, dispatch.event.waiter)
  BY DEF WaitInv
<1>none. /\ NoTransition.res # "PENDING" /\ ~ NoTransition.ignore
         /\ NotDispatching.res # "PENDING" /\ ~ NotDispatching.event.ignoreEntryPoints
         /\ NotDispatching.event.waiter = NoClient
  BY DEF NoTransition, NotDispatching, Regular
<1>owed. \A c : AnswerDue(c) <=> dispatch.event.waiter = c \/ OwedIn(mPendingEvents, c)
  BY DEF AnswerDue, OwedIn
<1>owed2. \A c : AnswerDue(c)' <=> dispatch'.event.waiter = c \/ OwedIn(mPendingEvents', c)
  BY DEF AnswerDue, OwedIn
<1>pcs. /\ pc' \notin Handling => single' = NoTransition
        /\ pc' \notin Handling \cup {"scan"} => dispatch' = NotDispatching
  <2>1. CASE DispatcherStep
    BY <1>0, <2>1 DEF DispatcherStep, EnterInitialState, StartEntryPoints, DispatchEvents,
       PopEvent, SkipState, BeginTransition, EndTransition, FinishEvent, ClearDispatching,
       NextExit, ExitsDone, ExitState, RefuseExit, NoMoreToExit, LeaveState,
       RollbackState, ExitDone, EnterState, RefuseEntry, ReenterState, ReenterDone,
       EntriesDone, EnteredFinalState, EnteredEmptyHistory, EnteredHistory,
       RestoreState, RestoreLastGroup, RestoreParent, EnteredState,
       Handling, Exiting, Entering
  <2>2. CASE \E c \in Clients : ClientStep(c)
    BY <1>0, <2>2, WaitStepFrame DEF ClientStep, Post, Emit
  <2>3. CASE UNCHANGED vars
    BY <1>0, <2>3 DEF vars
  <2> QED BY <2>1, <2>2, <2>3 DEF Next
\* Steps of the dispatcher that answer nobody.
<1>1. ASSUME QueueGrows, dispatch'.event = dispatch.event,
             Unfinished' => OwedIn(mPendingEvents', dispatch.event.waiter),
             UNCHANGED <<client, transitionStatus>>
      PROVE  WaitInv'
  <2>1. NoOrphanWaiter'
    BY <1>0, <1>1, <1>owed, <1>owed2 DEF NoOrphanWaiter, IsWaiting, QueueGrows
  <2>2. Followed(mPendingEvents)' /\ (Unfinished => OwedIn(mPendingEvents, dispatch.event.waiter))'
    BY <1>1 DEF QueueGrows, Followed, OwedIn
  <2> QED BY <1>pcs, <2>1, <2>2 DEF WaitInv
<1>2. CASE PopEvent
  <2>1. /\ pc = "pop" /\ mPendingEvents # <<>> /\ mPendingEvents' = Tail(mPendingEvents)
        /\ dispatch'.event = Head(mPendingEvents) /\ dispatch'.res = "DONE_FAILED"
        /\ pc' = "scan" /\ UNCHANGED <<single, client, transitionStatus>>
    BY <1>2 DEF PopEvent, clientVars
  <2>2. single = NoTransition /\ dispatch = NotDispatching
    BY <1>0, <2>1 DEF Handling, Exiting, Entering
  <2>3. /\ Followed(mPendingEvents')
        /\ Head(mPendingEvents).ignoreEntryPoints
              => OwedIn(mPendingEvents', Head(mPendingEvents).waiter)
        /\ \A w : OwedIn(mPendingEvents, w)
                    => w = Head(mPendingEvents).waiter \/ OwedIn(mPendingEvents', w)
    BY <1>0, <2>1, Frames, FollowedTail
  <2>4. Unfinished' => OwedIn(mPendingEvents', dispatch'.event.waiter)
    BY <1>none, <2>1, <2>2, <2>3 DEF Unfinished
  <2>5. NoOrphanWaiter'
    BY <1>0, <1>none, <1>owed, <1>owed2, <2>1, <2>2, <2>3, ClientsAssumption
       DEF NoOrphanWaiter, IsWaiting
  <2>6. Followed(mPendingEvents)' /\ (Unfinished => OwedIn(mPendingEvents, dispatch.event.waiter))'
    BY <2>3, <2>4 DEF Followed, OwedIn
  <2> QED BY <1>pcs, <2>5, <2>6 DEF WaitInv
<1>3. CASE FinishEvent
  <2>1. /\ pc = "scan" /\ pc' = "clear" /\ mPendingEvents' = mPendingEvents
        /\ transitionStatus' = [c \in Clients |-> IF c = dispatch.event.waiter
                                                  THEN dispatch.res ELSE transitionStatus[c]]
        /\ dispatch' = NotDispatching /\ single' = single /\ QueueGrows
    BY <1>0, <1>3, AppendingSteps, AppendingGrows DEF FinishEvent, queueVars, NothingDropped
  <2>2. \A c \in Clients : client'[c] # client[c] => client[c] = "asleep"
    BY <1>3 DEF FinishEvent, Notified
  <2>3. single = NoTransition
    BY <1>0, <2>1 DEF Handling, Exiting, Entering
  <2>4. ~ Unfinished'
    BY <1>none, <2>1, <2>3 DEF Unfinished
  <2>5. NoOrphanWaiter'
    <3> SUFFICES ASSUME NEW c \in Clients, IsWaiting(c)', transitionStatus'[c] = "PENDING"
                 PROVE  OwedIn(mPendingEvents', c)
      BY <1>owed2 DEF NoOrphanWaiter
    <3>1. IsWaiting(c)
      BY <2>2 DEF IsWaiting
    <3>2. CASE c = dispatch.event.waiter
      BY <1>0, <2>1, <3>2 DEF Unfinished
    <3>3. CASE c # dispatch.event.waiter
      BY <1>0, <1>owed, <2>1, <3>1, <3>3 DEF NoOrphanWaiter
    <3> QED BY <3>2, <3>3
  <2>6. Followed(mPendingEvents)' /\ (Unfinished => OwedIn(mPendingEvents, dispatch.event.waiter))'
    BY <2>1, <2>4 DEF QueueGrows, Followed
  <2> QED BY <1>pcs, <2>5, <2>6 DEF WaitInv
<1>4. ASSUME NEW c \in Clients, ClientStep(c) PROVE WaitInv'
  <2>1. /\ QueueGrows /\ (Unfinished' => Unfinished) /\ dispatch'.event = dispatch.event
    BY <1>0, <1>4, ClientsAppend, AppendingGrows, UnfinishedKept DEF NothingDropped
  <2>2. ASSUME NEW d \in Clients, IsWaiting(d)', transitionStatus'[d] = "PENDING"
        PROVE  \/ IsWaiting(d) /\ transitionStatus[d] = "PENDING"
               \/ OwedIn(mPendingEvents', d)
    <3>1. ASSUME NEW e \in Posted, NEW sync \in BOOLEAN, Post(c, e, FALSE, sync)
          PROVE  \/ IsWaiting(d) /\ transitionStatus[d] = "PENDING"
                 \/ OwedIn(mPendingEvents', d)
      <4>1. CASE sync /\ d = c
        <5>1. mPendingEvents' = Append(mPendingEvents, Regular(e, c))
          BY <3>1, <4>1 DEF Post
        <5>2. /\ Len(mPendingEvents) + 1 \in DOMAIN Append(mPendingEvents, Regular(e, c))
              /\ Append(mPendingEvents, Regular(e, c))[Len(mPendingEvents) + 1] = Regular(e, c)
          BY Frames
        <5>3. Regular(e, c).waiter = c
          BY DEF Regular
        <5> QED BY <4>1, <5>1, <5>2, <5>3 DEF OwedIn
      <4>2. CASE ~ (sync /\ d = c)
        <5>1. transitionStatus'[d] = transitionStatus[d]
          BY <3>1, <4>2 DEF Post
        <5>2. client'[d] = client[d] \/ client'[d] = "emit"
          BY <3>1, <4>2 DEF Post, Notified
        <5> QED BY <2>2, <5>1, <5>2 DEF IsWaiting
      <4> QED BY <4>1, <4>2
    <3>2. CASE Emit(c) \/ WaitStep(c)
      BY <2>2, <3>2, WaitStepFrame DEF Emit, IsWaiting, TypeOK
    <3> QED BY <1>4, <3>1, <3>2 DEF ClientStep, NothingDropped
  <2>3. NoOrphanWaiter'
    BY <1>0, <1>owed, <1>owed2, <2>1, <2>2 DEF NoOrphanWaiter, QueueGrows
  <2>4. Followed(mPendingEvents)' /\ (Unfinished => OwedIn(mPendingEvents, dispatch.event.waiter))'
    BY <1>0, <2>1 DEF QueueGrows, Followed, OwedIn
  <2> QED BY <1>pcs, <2>3, <2>4 DEF WaitInv
<1>5. ASSUME \/ StartEntryPoints \/ EnteredFinalState \/ EnteredEmptyHistory
             \/ RestoreState \/ RestoreLastGroup \/ RestoreParent \/ EnteredState
      PROVE  WaitInv'
  <2>1. dispatch' = dispatch /\ UNCHANGED <<client, transitionStatus>>
    BY <1>5 DEF StartEntryPoints, EnteredFinalState, EnteredEmptyHistory, RestoreState,
       RestoreLastGroup, RestoreParent, EnteredState, clientVars
  <2> QED BY <1>1, <1>5, <2>1, PushingSteps
<1>6. ASSUME \/ EnterInitialState \/ DispatchEvents \/ SkipState \/ BeginTransition
             \/ EndTransition \/ ClearDispatching
             \/ NextExit \/ ExitsDone \/ ExitState \/ RefuseExit \/ NoMoreToExit
             \/ LeaveState \/ RollbackState \/ ExitDone
             \/ EnterState \/ RefuseEntry \/ ReenterState \/ ReenterDone \/ EntriesDone
             \/ EnteredHistory \/ UNCHANGED vars
      PROVE  WaitInv'
  <2>1. UNCHANGED <<client, transitionStatus>>
    BY <1>6 DEF EnterInitialState, DispatchEvents, SkipState, BeginTransition,
       EndTransition, ClearDispatching, NextExit, ExitsDone, ExitState, RefuseExit,
       NoMoreToExit, LeaveState, RollbackState, ExitDone, EnterState, RefuseEntry,
       ReenterState, ReenterDone, EntriesDone, EnteredHistory, vars, clientVars
  <2>2. QueueGrows
    BY <1>0, <1>6, AppendingSteps, AppendingGrows DEF NothingDropped
  <2>3. (Unfinished' => Unfinished) /\ dispatch'.event = dispatch.event
    BY <1>6, UnfinishedKept
  <2> QED BY <1>0, <1>1, <2>1, <2>2, <2>3 DEF QueueGrows
<1> QED BY <1>2, <1>3, <1>4, <1>5, <1>6 DEF Next, DispatcherStep

\* A client in transitionSync is never forgotten: while its status is PENDING an
\* event in the queue or in progress carries its lock, through entry points,
\* histories and follow-up events, provided nothing drops such an event unheard:
\* no client clears the queue (444), and no history has its own parent as its
\* default target, for which both events of transitionToDefaultHistoryState
\* leave the entry points to someone else (1428-1464).
THEOREM NobodyForgotten == NothingDropped => (Spec => []NoOrphanWaiter)
<1>1. Init => WaitInv
  <2> SUFFICES ASSUME Init PROVE WaitInv
    OBVIOUS
  <2>1. mPendingEvents = <<>> /\ pc = "boot"
        /\ dispatch = NotDispatching /\ single = NoTransition
        /\ \A c \in Clients : transitionStatus[c] # "PENDING"
    BY DEF Init
  <2>2. ~ Unfinished
    BY <2>1 DEF Unfinished, NotDispatching, NoTransition, Regular
  <2>3. Followed(mPendingEvents)
    BY <2>1 DEF Followed
  <2> QED BY <2>1, <2>2, <2>3 DEF WaitInv, NoOrphanWaiter
<1>2. WaitInv => NoOrphanWaiter
  BY DEF WaitInv
<1>3. CASE NothingDropped
  <2>1. TypeOK /\ WaitInv /\ [Next]_vars => WaitInv'
    BY <1>3, WaitInvStep
  <2>2. Spec => []NoOrphanWaiter
    BY <1>1, <1>2, <2>1, TypeCorrect, PTL DEF Spec
  <2> QED BY <2>2
<1>4. CASE ~ NothingDropped
  BY <1>4
<1> QED BY <1>3, <1>4

-----------------------------------------------------------------------------
(* Leaving states *)

\* A state and its substates.
Below(p) == {s \in States : s = p \/ IsSubstateOf(p, s)}

\* What updateHistory has stored of the exited states taken off the list so far.
Left(h) ==
    {k \in DOMAIN single.exited :
        k < single.at /\ History[h].parent \in HistoryParents(single.from, single.exited[k])}

HistoriesSoFar ==
    \A h \in HistoryStates :
        /\ h \in single.touched <=> Left(h) # {}
        /\ h \in single.touched =>
              ToSet(mHistoryData[h]) = {Remembered(h, single.exited[k]) : k \in Left(h)}

IsRegular == dispatch.event.transitionType = "REGULAR"

\* Which transitions the loops over the matching ones carry out.
ChosenInv ==
    /\ pc \in Handling => /\ single.todo \subseteq single.matching
                          /\ IsRegular => \A i \in single.matching : Matched(i).from = single.from
                          /\ dispatch.event.transitionType = "ENTRYPOINT" =>
                                \A i \in single.matching : Parent[Matched(i).to] = single.from
    /\ pc \in Exiting => IsRegular /\ single.cur \in single.matching
    /\ pc = "exit" => IsRegular \/ single.todo = {}

\* What has been exited of the states the transition leaves.
LeaveInv ==
    /\ pc \in Exiting \cup {"exit"} =>
          single.from \in single.before /\ ToSet(single.exited) \subseteq Below(single.from)
    /\ pc = "exiting" =>
          \A i \in DOMAIN mActiveStates :
              i >= single.at /\ mActiveStates[i] \in Below(single.from)
                 => mActiveStates[i] \in ToSet(single.exited)
    /\ pc = "leave" => /\ single.before \cap Below(single.from) \subseteq ToSet(single.exited)
                       /\ HistoriesSoFar
    /\ pc = "exit" /\ single.exitAllowed /\ IsRegular =>
          single.todo = External \/ single.from \in ToSet(single.exited)
    /\ pc \in {"enter"} \cup Entering /\ IsRegular =>
          single.todo = {} \/ single.from \in ToSet(single.exited)
\* The steps that leave states, and those that enter states.
ExitingStep ==
    \/ NextExit \/ ExitsDone \/ ExitState \/ RefuseExit \/ NoMoreToExit
    \/ LeaveState \/ RollbackState \/ ExitDone

EnteringStep ==
    \/ EnterState \/ RefuseEntry \/ ReenterState \/ ReenterDone \/ EntriesDone
    \/ EnteredFinalState \/ EnteredEmptyHistory \/ EnteredHistory
    \/ RestoreState \/ RestoreLastGroup \/ RestoreParent \/ EnteredState

LEMMA ExitingFrame ==
    ASSUME TypeOK, ExitingStep
    PROVE  /\ pc \in Exiting \cup {"exit"} /\ dispatch' = dispatch
           /\ single'.from = single.from /\ single'.matching = single.matching
           /\ single'.before = single.before
           /\ External' = External
<1>1. /\ pc \in Exiting \cup {"exit"} /\ dispatch' = dispatch
      /\ single'.from = single.from /\ single'.matching = single.matching
      /\ single'.before = single.before
  <2>1. CASE NextExit
    <3>1. PICK i : single' = [single EXCEPT !.cur = i, !.todo = @ \ {i},
                                            !.at = Len(mActiveStates) + 1]
      BY <2>1 DEF NextExit
    <3> QED BY <2>1, <3>1, Frames DEF NextExit, SingleLocals
  <2>2. CASE ExitsDone
    BY <2>2, Frames DEF ExitsDone, SingleLocals
  <2>3. CASE ExitState
    BY <2>3, Frames DEF ExitState, SingleLocals, Exiting
  <2>4. CASE LeaveState
    BY <2>4, Frames DEF LeaveState, SingleLocals, Exiting
  <2>5. CASE RefuseExit \/ NoMoreToExit \/ RollbackState \/ ExitDone
    BY <2>5, Frames DEF RefuseExit, NoMoreToExit, RollbackState, ExitDone, SingleLocals, Exiting
  <2> QED BY <2>1, <2>2, <2>3, <2>4, <2>5 DEF ExitingStep
<1> QED BY <1>1 DEF External, Matched

LEMMA EnteringFrame ==
    ASSUME TypeOK, EnteringStep
    PROVE  /\ pc \in Entering \cup {"enter"} /\ pc' \in Entering \cup {"enter", "end"}
           /\ dispatch' = dispatch
           /\ single'.from = single.from /\ single'.matching = single.matching
           /\ single'.todo \subseteq single.todo /\ single'.exited = single.exited
<1>1. /\ pc \in Entering \cup {"enter"} /\ pc' \in Entering \cup {"enter", "end"}
      /\ dispatch' = dispatch
  BY DEF EnteringStep, EnterState, RefuseEntry, ReenterState, ReenterDone, EntriesDone,
     EnteredFinalState, EnteredEmptyHistory, EnteredHistory, RestoreState,
     RestoreLastGroup, RestoreParent, EnteredState, Entering
<1>2. /\ single'.from = single.from /\ single'.matching = single.matching
      /\ single'.todo \subseteq single.todo /\ single'.exited = single.exited
  <2>1. CASE ReenterState
    BY <2>1, Frames DEF ReenterState, SingleLocals
  <2>a. CASE EnterState
    <3>1. PICK i \in single.todo : single' = [single EXCEPT !.cur = i, !.todo = @ \ {i}]
      BY <2>a DEF EnterState
    <3> QED BY <3>1, Frames DEF SingleLocals
  <2>b. CASE RefuseEntry
    <3>1. PICK i \in single.todo :
              single' = [single EXCEPT !.cur = i, !.todo = @ \ {i}, !.at = 1,
                                       !.res = "DONE_FAILED"]
      BY <2>b DEF RefuseEntry
    <3> QED BY <3>1, Frames DEF SingleLocals
  <2>2. CASE \/ ReenterDone \/ EntriesDone \/ EnteredFinalState \/ EnteredEmptyHistory
             \/ EnteredHistory \/ RestoreLastGroup \/ RestoreParent
    BY <2>2, Frames DEF ReenterDone, EntriesDone, EnteredFinalState,
       EnteredEmptyHistory, EnteredHistory, RestoreLastGroup, RestoreParent, SingleLocals
  <2>3. CASE RestoreState
    BY <2>3, Frames DEF RestoreState, SingleLocals
  <2>4. CASE EnteredState
    BY <2>4, Frames DEF EnteredState, SingleLocals
  <2> QED BY <2>1, <2>a, <2>b, <2>2, <2>3, <2>4 DEF EnteringStep
<1> QED BY <1>1, <1>2

\* Every other step leaves the transition in hand alone, or none is in hand.
LEMMA OtherSteps ==
    ASSUME [Next]_vars, ~ BeginTransition, ~ ExitingStep, ~ EnteringStep
    PROVE  pc' \notin Handling \/ UNCHANGED <<mActiveStates, mHistoryData, pc, dispatch, single>>
<1>1. CASE DispatcherStep
  BY <1>1 DEF DispatcherStep, ExitingStep, EnteringStep, EnterInitialState, StartEntryPoints,
     DispatchEvents, PopEvent, SkipState, EndTransition, FinishEvent, ClearDispatching,
     Handling, Exiting, Entering
<1>2. ASSUME NEW c \in Clients, ClientStep(c)
      PROVE  UNCHANGED <<mActiveStates, mHistoryData, pc, dispatch, single>>
  <2>1. CASE WaitStep(c)
    BY <2>1, WaitStepFrame
  <2>2. CASE Emit(c)
    BY <2>2 DEF Emit
  <2>3. ASSUME NEW e, NEW clearQueue, NEW sync, Post(c, e, clearQueue, sync)
        PROVE  UNCHANGED <<mActiveStates, mHistoryData, pc, dispatch, single>>
    BY <2>3 DEF Post
  <2> QED BY <1>2, <2>1, <2>2, <2>3 DEF ClientStep
<1>3. CASE UNCHANGED vars
  BY <1>3 DEF vars
<1> QED BY <1>1, <1>2, <1>3 DEF Next

LEMMA BeginChosen ==
    ASSUME TypeOK, BeginTransition
    PROVE  /\ ChosenInv' /\ pc' \in {"exit", "end"}
           /\ single'.from \in single'.before /\ single'.exited = <<>>
           /\ IsRegular => single'.todo = External'
<1>1. /\ NoTransition \in SingleLocals /\ Scanned \in States
  <2>1. NoTransition \in SingleLocals
    BY NamesAssumption DEF NoTransition, SingleLocals, Status
  <2>2. dispatch.it \in DOMAIN dispatch.snapshot /\ dispatch.snapshot \in Seq(States)
    BY Frames DEF BeginTransition, DispatchLocals
  <2> QED BY <2>1, <2>2 DEF Scanned
<1>2. PICK truth \in SUBSET Conditions :
        /\ single'.from = Scanned /\ single'.exited = <<>> /\ single'.before = Active
        /\ single'.matching = MatchingTransitions(Scanned, dispatch.event, truth)
        /\ single'.todo = IF IsRegular
                          THEN {i \in single'.matching :
                                  ~ IsInternalSelf(TransitionOf(Scanned, dispatch.event, i))}
                          ELSE {}
        /\ pc' \in {"exit", "end"} /\ dispatch' = dispatch
  BY <1>1 DEF BeginTransition, SingleLocals, IsRegular, NoTransition
<1>3. \A i : Matched(i)' = TransitionOf(Scanned, dispatch.event, i)
  BY <1>2 DEF Matched
<1>4. IsRegular => single'.todo = External'
  BY <1>2, <1>3 DEF External
<1>5. Scanned \in Active
  BY DEF BeginTransition, PassedOver
<1>6. IsRegular => \A i \in single'.matching : Matched(i)'.from = Scanned
  BY <1>2, <1>3 DEF IsRegular, MatchingTransitions, FindTransitionTarget, TransitionOf
<1>7. ASSUME dispatch.event.transitionType = "ENTRYPOINT", NEW i \in single'.matching
      PROVE  Parent[Matched(i)'.to] = Scanned
  <2>1. i \in DOMAIN EntryPoints /\ EntryPoints[i].parent = Scanned
    BY <1>2, <1>7 DEF MatchingTransitions, GetEntryPoints, EntryMatches
  <2>2. Matched(i)'.to = EntryPoints[i].state
    BY <1>3, <1>7 DEF TransitionOf, ExternalTransition
  <2> QED BY <2>1, <2>2, EntryPointsAssumption
<1>8. single'.todo \subseteq single'.matching /\ (~ IsRegular => single'.todo = {})
  BY <1>2
<1> QED BY <1>2, <1>4, <1>5, <1>6, <1>7, <1>8
        DEF ChosenInv, IsRegular, Exiting, Handling, Entering

LEMMA ChosenInvStep == TypeOK /\ ChosenInv /\ [Next]_vars => ChosenInv'
<1> SUFFICES ASSUME TypeOK, ChosenInv, [Next]_vars PROVE ChosenInv'
  OBVIOUS
<1>1. CASE BeginTransition
  BY <1>1, BeginChosen
<1>2. CASE ExitingStep
  <2>1. /\ pc \in Exiting \cup {"exit"} /\ dispatch' = dispatch
        /\ single'.from = single.from /\ single'.matching = single.matching
    BY <1>2, ExitingFrame
  <2>2. /\ \A i : Matched(i)' = Matched(i)
        /\ IsRegular' = IsRegular
    BY <2>1 DEF Matched, IsRegular
  <2>3. single'.todo \subseteq single.todo \cup External
    <3>1. CASE NextExit
      <4>1. PICK i : single'.todo = single.todo \ {i}
        BY <3>1, Frames DEF NextExit, SingleLocals
      <4> QED BY <4>1
    <3>2. CASE ExitsDone
      BY <3>2, Frames DEF ExitsDone, SingleLocals
    <3>3. CASE ExitState \/ LeaveState
      BY <3>3, Frames DEF ExitState, LeaveState, SingleLocals
    <3>4. CASE RefuseExit \/ NoMoreToExit \/ RollbackState \/ ExitDone
      BY <3>4, Frames DEF RefuseExit, NoMoreToExit, RollbackState, ExitDone, SingleLocals
    <3> QED BY <1>2, <3>1, <3>2, <3>3, <3>4 DEF ExitingStep
  <2>4. pc' \in Exiting => IsRegular /\ single'.cur \in single.matching
    BY <1>2, Frames, ZenonT(40) DEF ExitingStep, NextExit, ExitsDone, ExitState, RefuseExit,
       NoMoreToExit, LeaveState, RollbackState, ExitDone, SingleLocals, ChosenInv,
       Exiting, Handling
  <2>5. pc' = "exit" => IsRegular
    BY <1>2 DEF ExitingStep, NextExit, ExitsDone, ExitState, RefuseExit,
       NoMoreToExit, LeaveState, RollbackState, ExitDone, ChosenInv, Exiting
  <2> QED BY <2>1, <2>2, <2>3, <2>4, <2>5, Frames DEF ChosenInv, Handling
<1>3. CASE EnteringStep
  <2>1. /\ pc \in Entering \cup {"enter"} /\ pc' \in Entering \cup {"enter", "end"}
        /\ dispatch' = dispatch
        /\ single'.from = single.from /\ single'.matching = single.matching
        /\ single'.todo \subseteq single.todo
    BY <1>3, EnteringFrame
  <2>2. /\ \A i : Matched(i)' = Matched(i)
        /\ IsRegular' = IsRegular
    BY <2>1 DEF Matched, IsRegular
  <2> QED BY <2>1, <2>2 DEF ChosenInv, Handling, Exiting, Entering
<1>4. CASE ~ BeginTransition /\ ~ ExitingStep /\ ~ EnteringStep
  <2>1. CASE pc' \notin Handling
    BY <2>1 DEF ChosenInv, Handling
  <2>2. CASE UNCHANGED <<pc, dispatch, single>>
    BY <2>2 DEF ChosenInv, IsRegular, Matched
  <2> QED BY <1>4, <2>1, <2>2, OtherSteps
<1> QED BY <1>1, <1>2, <1>3, <1>4

\* The transition that is being left begins in the state that handles the event.
LEMMA LeavingFrom ==
    ASSUME TypeOK, ChosenInv, pc \in Exiting
    PROVE  CurTransition.from = single.from
BY DEF ChosenInv, CurTransition, Handling

\* One more exited state is taken off the list, and stored.
LEMMA LeaveStateHistories ==
    ASSUME TypeOK, ChosenInv, LeaveInv, LeaveState
    PROVE  HistoriesSoFar'
<1> DEFINE s == single.exited[single.at]
           at == single.at
<1>0. /\ single.exited \in Seq(States) /\ at \in Nat /\ at > 0 /\ at <= Len(single.exited)
      /\ pc = "leave" /\ HistoriesSoFar /\ mHistoryData \in [HistoryStates -> Seq(States)]
      /\ CurTransition.from = single.from
  <2>1. pc = "leave" /\ at <= Len(single.exited)
    BY DEF LeaveState
  <2> QED BY <2>1, Frames, LeavingFrom DEF SingleLocals, TypeOK, LeaveInv, Exiting
<1>1. /\ single'.exited = single.exited /\ single'.at = at + 1 /\ single'.from = single.from
      /\ single'.touched = single.touched \cup {h \in HistoryStates :
                               History[h].parent \in HistoryParents(single.from, s)}
      /\ mHistoryData' = UpdateHistory(single.from, s, single.touched)
  BY <1>0, Frames DEF LeaveState, SingleLocals
<1>2. s \in States /\ at \in DOMAIN single.exited
  BY <1>0
<1> SUFFICES ASSUME NEW h \in HistoryStates
             PROVE  /\ h \in single'.touched <=> Left(h)' # {}
                    /\ h \in single'.touched =>
                          ToSet(mHistoryData'[h]) = {Remembered(h, single'.exited[k]) : k \in Left(h)'}
  BY DEF HistoriesSoFar
<1>3. /\ h \in single.touched <=> Left(h) # {}
      /\ h \in single.touched =>
            ToSet(mHistoryData[h]) = {Remembered(h, single.exited[k]) : k \in Left(h)}
  BY <1>0 DEF HistoriesSoFar
<1>4. Left(h)' = Left(h) \cup (IF History[h].parent \in HistoryParents(single.from, s)
                               THEN {at} ELSE {})
  <2>1. \A k \in DOMAIN single.exited : k < at + 1 <=> k < at \/ k = at
    BY <1>0
  <2> QED BY <1>1, <1>2, <2>1 DEF Left
<1> HIDE DEF at
<1>5. CASE History[h].parent \notin HistoryParents(single.from, s)
  <2>1. mHistoryData'[h] = mHistoryData[h]
    BY <1>1, <1>5 DEF UpdateHistory
  <2> QED BY <1>1, <1>3, <1>4, <1>5, <2>1
<1>6. CASE History[h].parent \in HistoryParents(single.from, s)
  <2> DEFINE kept == IF h \in single.touched THEN mHistoryData[h] ELSE <<>>
             last == Remembered(h, s)
  <2>1. mHistoryData'[h] = AddActiveState(kept, last)
    BY <1>1, <1>6 DEF UpdateHistory
  <2>2. last \in States
    BY <1>2, <1>6, ChildIsState DEF Remembered, HistoryParents
  <2>3. kept \in Seq(States)
    BY <1>0
  <2>4. ToSet(kept) = {Remembered(h, single.exited[k]) : k \in Left(h)}
    <3>1. CASE h \in single.touched
      BY <1>3, <3>1
    <3>2. CASE h \notin single.touched
      <4>1. kept = <<>> /\ Left(h) = {}
        BY <1>3, <3>2
      <4>2. ToSet(kept) = {}
        BY <4>1 DEF ToSet
      <4> QED BY <4>1, <4>2
    <3> QED BY <3>1, <3>2
  <2> HIDE DEF kept
  <2>5. ToSet(mHistoryData'[h]) = ToSet(kept) \cup {last}
    BY <2>1, <2>2, <2>3, AddState
  <2>6. Left(h)' = Left(h) \cup {at}
    BY <1>4, <1>6
  <2>7. Remembered(h, single.exited[at]) = last
    BY DEF at
  <2> HIDE DEF last
  <2> QED BY <1>1, <1>6, <2>4, <2>5, <2>6, <2>7
<1> QED BY <1>5, <1>6

LEMMA ExitingLeaveInv ==
    ASSUME TypeOK, ChosenInv, CancelInv, LeaveInv, ExitingStep
    PROVE  LeaveInv'
<1>0. /\ single.exited \in Seq(States) /\ single.at \in Nat
      /\ single.from \in single.before /\ single.from \in States
      /\ ToSet(single.exited) \subseteq Below(single.from)
  BY ExitingFrame, Frames DEF LeaveInv, SingleLocals
<1>f. /\ single'.from = single.from /\ single'.before = single.before
      /\ External' = External /\ IsRegular' = IsRegular
  BY ExitingFrame DEF IsRegular
<1>e. single'.exited = single.exited => ToSet(single'.exited) = ToSet(single.exited)
  OBVIOUS
<1> USE DEF LeaveInv, Exiting, Entering, Handling
<1>1. CASE NextExit
  <2>1. /\ pc' = "exiting" /\ single'.exited = single.exited
        /\ single'.at = Len(mActiveStates) + 1 /\ mActiveStates' = mActiveStates
    BY <1>1, Frames DEF NextExit, SingleLocals
  <2>2. \A i \in DOMAIN mActiveStates' : ~ (i >= single'.at)
    BY <2>1, Frames
  <2> QED BY <1>0, <1>f, <2>1, <2>2
<1>2. CASE ExitsDone
  <2>1. /\ pc = "exit" /\ single.todo = {} /\ single'.exited = single.exited
        /\ \/ pc' = "end"
           \/ single.exitAllowed /\ pc' = "enter" /\ single'.todo = External
    BY <1>2, Frames DEF ExitsDone, SingleLocals
  <2> QED BY <1>f, <2>1
<1>3. CASE ExitState
  <2>1. PICK k \in ToExit :
            /\ \A j \in ToExit : j <= k
            /\ single' = [single EXCEPT !.exited = Append(@, mActiveStates[k]),
                                        !.at = k, !.exitAllowed = TRUE]
    BY <1>3 DEF ExitState
  <2>2. single.at \in 1 .. Len(mActiveStates) + 1 /\ CurTransition.from = single.from
    BY <1>3, LeavingFrom DEF ExitState, TypeOK
  <2> DEFINE s == mActiveStates[k]
  <2>3. /\ k \in DOMAIN mActiveStates /\ k < single.at /\ k \in Nat
        /\ s \in States /\ s \in Below(single.from)
    <3>1. k \in 1 .. Len(mActiveStates) /\ k < single.at
      BY <2>1, <2>2, Frames DEF ToExit
    <3>2. s \in States
      BY <3>1, Frames
    <3> QED BY <2>1, <2>2, <3>1, <3>2, Frames DEF ToExit, Below
  <2>4. /\ pc' = "exiting" /\ pc = "exiting" /\ mActiveStates' = mActiveStates
        /\ single'.exited = Append(single.exited, s) /\ single'.at = k
    BY <1>3, <2>1, Frames DEF ExitState, SingleLocals
  <2>5. ToSet(single'.exited) = ToSet(single.exited) \cup {s}
    BY <1>0, <2>3, <2>4, AppendState
  <2>6. ASSUME NEW i \in DOMAIN mActiveStates, i >= k, mActiveStates[i] \in Below(single.from)
        PROVE  mActiveStates[i] \in ToSet(single'.exited)
    <3>1. CASE i >= single.at
      BY <2>4, <2>5, <2>6, <3>1
    <3>2. CASE i < single.at
      <4>1. i \in 1 .. single.at - 1
        BY <2>2, <2>6, <3>2, Frames
      <4>2. i \in ToExit
        BY <2>2, <2>6, <4>1 DEF ToExit, Below
      <4>3. i = k
        BY <2>1, <2>3, <2>6, <4>1, <4>2
      <4> QED BY <2>5, <4>3
    <3> QED BY <2>2, <2>6, <3>1, <3>2, Frames
  <2> HIDE DEF s
  <2> QED BY <1>0, <1>f, <2>3, <2>4, <2>5, <2>6
<1>4. CASE RefuseExit
  <2>1. pc' = "rollback" /\ single'.exited = single.exited
    BY <1>4, Frames DEF RefuseExit, SingleLocals
  <2> QED BY <1>0, <1>f, <2>1
<1>5. CASE NoMoreToExit
  <2>1. /\ pc = "exiting" /\ ToExit = {} /\ pc' \in {"leave", "rollback"}
        /\ single'.exited = single.exited /\ single'.at = 1 /\ single'.touched = {}
    BY <1>5, Frames DEF NoMoreToExit, SingleLocals
  <2>2. single.at \in 1 .. Len(mActiveStates) + 1 /\ CurTransition.from = single.from
    BY <2>1, LeavingFrom DEF TypeOK
  <2>3. ASSUME NEW s \in single.before, s \in Below(single.from)
        PROVE  s \in ToSet(single.exited)
    <3>1. CASE s \in Active
      <4>1. PICK i \in DOMAIN mActiveStates : mActiveStates[i] = s
        BY <3>1 DEF Active, ToSet
      <4>2. i \in 1 .. Len(mActiveStates)
        BY Frames
      <4>3. CASE i < single.at
        <5>1. i \in ToExit
          BY <2>2, <2>3, <4>1, <4>2, <4>3 DEF ToExit, Below
        <5> QED BY <2>1, <5>1
      <4>4. CASE i >= single.at
        BY <2>1, <2>3, <4>1, <4>4
      <4> QED BY <2>2, <4>2, <4>3, <4>4
    <3>2. CASE s \notin Active
      BY <2>1, <2>3, <3>2 DEF CancelInv
    <3> QED BY <3>1, <3>2
  <2>4. HistoriesSoFar'
    <3>1. \A k \in DOMAIN single'.exited : ~ (k < single'.at)
      BY <1>0, <2>1
    <3>2. \A h \in HistoryStates : Left(h)' = {}
      BY <3>1 DEF Left
    <3> QED BY <2>1, <3>2 DEF HistoriesSoFar
  <2> QED BY <1>0, <1>f, <2>1, <2>3, <2>4
<1>6. CASE LeaveState
  <2>1. pc = "leave" /\ pc' = pc /\ single'.exited = single.exited
    BY <1>6, Frames DEF LeaveState, SingleLocals
  <2>2. HistoriesSoFar'
    BY <1>6, LeaveStateHistories
  <2> QED BY <1>0, <1>f, <2>1, <2>2
<1>7. CASE RollbackState
  <2>1. pc' = "rollback" /\ single'.exited = single.exited
    BY <1>7, Frames DEF RollbackState, SingleLocals
  <2> QED BY <1>0, <1>f, <2>1
<1>8. CASE ExitDone
  <2>1. pc \in {"leave", "rollback"} /\ pc' = "exit" /\ single' = single
    BY <1>8 DEF ExitDone
  <2>2. single.from \in Below(single.from)
    BY <1>0 DEF Below
  <2> QED BY <1>0, <1>f, <2>1, <2>2 DEF CancelInv
<1> QED BY <1>1, <1>2, <1>3, <1>4, <1>5, <1>6, <1>7, <1>8 DEF ExitingStep

LEMMA LeaveInvStep ==
    TypeOK /\ ChosenInv /\ CancelInv /\ LeaveInv /\ [Next]_vars => LeaveInv'
<1> SUFFICES ASSUME TypeOK, ChosenInv, CancelInv, LeaveInv, [Next]_vars PROVE LeaveInv'
  OBVIOUS
<1>1. CASE BeginTransition
  <2>1. /\ pc' \in {"exit", "end"} /\ IsRegular' = IsRegular
        /\ single'.from \in single'.before /\ single'.exited = <<>>
        /\ IsRegular => single'.todo = External'
    BY <1>1, BeginChosen DEF BeginTransition, IsRegular
  <2>2. ToSet(single'.exited) = {}
    BY <2>1 DEF ToSet
  <2> QED BY <2>1, <2>2 DEF LeaveInv, Exiting, Entering
<1>2. CASE ExitingStep
  BY <1>2, ExitingLeaveInv
<1>3. CASE EnteringStep
  <2>1. /\ pc \in Entering \cup {"enter"} /\ pc' \in Entering \cup {"enter", "end"}
        /\ IsRegular' = IsRegular /\ single'.from = single.from
        /\ single'.todo \subseteq single.todo /\ single'.exited = single.exited
    BY <1>3, EnteringFrame DEF IsRegular
  <2> QED BY <2>1 DEF LeaveInv, Exiting, Entering
<1>4. CASE ~ BeginTransition /\ ~ ExitingStep /\ ~ EnteringStep
  <2>1. CASE pc' \notin Handling
    BY <2>1 DEF LeaveInv, Handling, Exiting, Entering
  <2>2. CASE UNCHANGED <<mActiveStates, mHistoryData, pc, dispatch, single>>
    <3>1. IsRegular' = IsRegular /\ External' = External /\ \A h : Left(h)' = Left(h)
      BY <2>2 DEF IsRegular, External, Matched, Left
    <3>2. HistoriesSoFar => HistoriesSoFar'
      BY <2>2, <3>1 DEF HistoriesSoFar
    <3> QED BY <2>2, <3>1, <3>2 DEF LeaveInv
  <2> QED BY <1>4, <2>1, <2>2, OtherSteps
<1> QED BY <1>1, <1>2, <1>3, <1>4

LEMMA LeavingInv == Spec => [](TypeOK /\ ChosenInv /\ CancelInv /\ LeaveInv)
<1>1. Init => ChosenInv /\ CancelInv /\ LeaveInv
  BY DEF Init, ChosenInv, CancelInv, CanceledRestores, LeaveInv, Handling, Exiting, Entering
<1> QED BY <1>1, ChosenInvStep, CancelInvStep, LeaveInvStep, TypeCorrect, PTL DEF Spec

-----------------------------------------------------------------------------
(* What a history remembers *)

\* The part of a composite state that was active when the transition began: one
\* of its children at least, and with a state all those around it.
WholeBefore(p) ==
    /\ \E t \in single.before : Parent[t] = p
    /\ \A s \in single.before : IsSubstateOf(p, s) => Parent[s] \in single.before

LeftWhole ==
    \A h \in HistoryStates :
        History[h].parent \in ToSet(single.exited) => WholeBefore(History[h].parent)

\* Between a state and a substate that was active every state was.
LEMMA ActiveOnTheWay ==
    ASSUME NEW p \in States, NEW s \in single.before, s \in States,
           single.before \in SUBSET States, WholeBefore(p), p \in Ancestors[s]
    PROVE  ChildTowards(p, s) \in single.before
<1> DEFINE c == ChildTowards(p, s)
           S == {t \in States : t \in single.before \/ p \notin Ancestors[t]}
<1>1. c \in {s} \cup Ancestors[s] /\ c \in States /\ Parent[c] = p
  BY ChildOnTheWay, AncestorsAreStates
<1>2. p \in Ancestors[c]
  BY <1>1, AncestorsOfChild, NamesAssumption
<1>3. HoldsParents(S, s)
  <2> SUFFICES ASSUME NEW t \in S \cup {s}, Parent[t] # NoState
               PROVE  Parent[t] \in S
    BY DEF HoldsParents
  <2>1. Parent[t] \in States /\ t \in States
    BY ParentAssumption
  <2>2. CASE p \in Ancestors[t]
    BY <2>1, <2>2 DEF WholeBefore, IsSubstateOf
  <2>3. CASE p \notin Ancestors[t]
    BY <2>1, <2>3, AncestorsOfChild, AncestorsOfAncestor
  <2> QED BY <2>2, <2>3
<1>4. c \in S
  BY <1>1, <1>3, AncestorsAreLeast
<1> HIDE DEF c
<1> QED BY <1>2, <1>4 DEF c

\* The child of a state is on the way to itself.
LEMMA ChildOfOne ==
    ASSUME Acyclic, NEW p \in States, NEW t \in States, Parent[t] = p
    PROVE  p \in Ancestors[t] /\ ChildTowards(p, t) = t
<1>1. p \in Ancestors[t] /\ Ancestors[t] \subseteq {p} \cup Ancestors[p]
  BY AncestorsOfChild, NamesAssumption
<1>2. ASSUME NEW c \in Ancestors[t], Parent[c] = p PROVE FALSE
  <2>1. c \in States /\ p \in Ancestors[c]
    BY <1>2, AncestorsAreStates, AncestorsOfChild, NamesAssumption
  <2>2. p \in Ancestors[p]
    BY <1>1, <2>1, AncestorsOfAncestor
  <2> QED BY <2>2 DEF Acyclic
<1> QED BY <1>1, <1>2, ChildOnTheWay

LEMMA RemembersWhatItLeft ==
    ASSUME Acyclic, TypeOK, CancelInv, LeaveInv, LeftWhole
    PROVE  HistoryRemembers
<1> SUFFICES ASSUME pc = "leave", single.at > Len(single.exited), NEW h \in HistoryStates,
                    History[h].parent \in ToSet(single.exited)
             PROVE  ToSet(mHistoryData[h]) =
                      {s \in single.before : IF History[h].type = "DEEP"
                                             THEN IsSubstateOf(History[h].parent, s)
                                             ELSE Parent[s] = History[h].parent}
  BY DEF HistoryRemembers
<1> DEFINE p == History[h].parent
           from == single.from
<1>1. /\ single.exited \in Seq(States) /\ single.at \in Nat /\ single.before \in SUBSET States
      /\ p \in States /\ from \in States
  BY Frames, HistoryOfParent DEF SingleLocals
<1>2. /\ ToSet(single.exited) \subseteq single.before
      /\ ToSet(single.exited) \subseteq Below(from)
      /\ single.before \cap Below(from) \subseteq ToSet(single.exited)
      /\ HistoriesSoFar
  BY DEF CancelInv, LeaveInv, Exiting
<1>3. WholeBefore(p) /\ p \in Below(from)
  BY <1>2 DEF LeftWhole
<1> DEFINE under == {s \in single.before : p \in Ancestors[s]}
<1>4. under \subseteq ToSet(single.exited)
  <2> SUFFICES ASSUME NEW s \in under PROVE s \in Below(from)
    BY <1>2
  <2>1. s \in States /\ p \in Ancestors[s]
    BY <1>1
  <2>2. from = p \/ from \in Ancestors[s]
    BY <1>3, <2>1, AncestorsOfAncestor DEF Below, IsSubstateOf
  <2> QED BY <2>1, <2>2 DEF Below, IsSubstateOf
<1>5. ASSUME NEW s \in ToSet(single.exited)
      PROVE  p \in HistoryParents(from, s) <=> s \in under
  <2>1. s \in States /\ s \in single.before /\ s \in Below(from)
    BY <1>1, <1>2
  <2>2. p \in Ancestors[s] => IsSubstateOf(from, s)
    BY <1>3, <2>1, AncestorsOfAncestor DEF Below, IsSubstateOf
  <2> QED BY <1>3, <2>1, <2>2 DEF HistoryParents, Below
<1>6. Left(h) = {k \in DOMAIN single.exited : single.exited[k] \in under}
  <2>1. \A k \in DOMAIN single.exited : k < single.at /\ single.exited[k] \in ToSet(single.exited)
    BY <1>1 DEF ToSet
  <2> QED BY <1>5, <2>1 DEF Left
<1>7. PICK t \in single.before : Parent[t] = p
  BY <1>3 DEF WholeBefore
<1>8. t \in under
  BY <1>1, <1>7, ChildOfOne
<1>9. \A s \in under : \E k \in Left(h) : single.exited[k] = s
  BY <1>4, <1>6 DEF ToSet
<1>10. ToSet(mHistoryData[h]) = {Remembered(h, s) : s \in under}
  <2>1. Left(h) # {}
    BY <1>8, <1>9
  <2>2. ToSet(mHistoryData[h]) = {Remembered(h, single.exited[k]) : k \in Left(h)}
    BY <1>2, <2>1 DEF HistoriesSoFar
  <2> QED BY <1>6, <1>9, <2>2
<1>11. CASE History[h].type = "DEEP"
  <2>1. \A s \in under : Remembered(h, s) = s
    BY <1>11 DEF Remembered
  <2> QED BY <1>10, <1>11, <2>1 DEF IsSubstateOf
<1>12. CASE History[h].type # "DEEP"
  <2>1. \A s \in under : Remembered(h, s) = ChildTowards(p, s)
    BY <1>12, HistoryAssumption DEF Remembered, HistoryStates
  <2>2. ASSUME NEW s \in under
        PROVE  ChildTowards(p, s) \in single.before /\ Parent[ChildTowards(p, s)] = p
    BY <1>1, <1>3, <2>2, ActiveOnTheWay, ChildOnTheWay
  <2>3. ASSUME NEW s \in single.before, Parent[s] = p
        PROVE  s \in under /\ ChildTowards(p, s) = s
    BY <1>1, <2>3, ChildOfOne
  <2>4. {ChildTowards(p, s) : s \in under} = {s \in single.before : Parent[s] = p}
    BY <2>2, <2>3
  <2> QED BY <1>10, <1>12, <2>1, <2>4
<1> QED BY <1>11, <1>12

\* A transition that leaves a state with a history stores there exactly what it
\* found active, for every tree of states: whatever was stored before is gone,
\* states that other regions hold are not taken along, and several transitions
\* of one event that share the list of exited states store it all. What was
\* active must have been whole: a composite state together with one of its
\* children at least, a substate together with the states around it.
THEOREM HistoriesAreExact == Acyclic => (Spec => [](LeftWhole => HistoryRemembers))
<1>1. ASSUME Acyclic, TypeOK, ChosenInv, CancelInv, LeaveInv PROVE LeftWhole => HistoryRemembers
  BY <1>1, RemembersWhatItLeft
<1>2. CASE Acyclic
  <2>1. TypeOK /\ ChosenInv /\ CancelInv /\ LeaveInv => (LeftWhole => HistoryRemembers)
    BY <1>1, <1>2
  <2> QED BY <2>1, LeavingInv, PTL
<1> QED BY <1>2

-----------------------------------------------------------------------------
(* States that stop being active *)

\* What states of `list` a replacement takes off it.
LEMMA ReplacedState ==
    ASSUME NEW S, NEW list \in Seq(S), NEW old, NEW new \in S
    PROVE  ToSet(list) \subseteq ToSet(ReplaceActiveState(list, old, new))
                                 \cup (IF IsSubstateOf(old, new) THEN {} ELSE {old})
<1> DEFINE kept == IF IsSubstateOf(old, new) THEN list ELSE Without(list, old)
<1>1. /\ kept \in Seq(S)
      /\ ToSet(list) \subseteq ToSet(kept) \cup (IF IsSubstateOf(old, new) THEN {} ELSE {old})
  BY WithoutState
<1>2. ReplaceActiveState(list, old, new) = AddActiveState(kept, new)
  BY DEF ReplaceActiveState
<1> HIDE DEF kept
<1> QED BY <1>1, <1>2, AddState

\* Unless a history forces a transition, a state goes only after its onExiting.
Unforced == dispatch.event.transitionType # "FORCED"

LEMMA UnforcedStep ==
    ASSUME TypeOK, ChosenInv, LeaveInv, [Next]_vars, Unforced
    PROVE  Active \ Active' \subseteq ToSet(single.exited)
<1> USE DEF Active
<1>1. CASE EnterInitialState
  BY <1>1, Frames, AppendState, NamesAssumption DEF EnterInitialState
<1>2. CASE LeaveState
  <2>1. /\ mActiveStates' = Without(mActiveStates, single.exited[single.at])
        /\ single.at <= Len(single.exited) /\ single.at \in Nat /\ single.at > 0
        /\ single.exited \in Seq(States)
    BY <1>2, Frames DEF LeaveState, TypeOK, SingleLocals
  <2>2. single.exited[single.at] \in ToSet(single.exited)
    BY <2>1 DEF ToSet
  <2> QED BY <2>1, <2>2, Frames, WithoutState
<1>3. CASE RollbackState
  <2> DEFINE s    == single.exited[single.at]
             rest == Without(mActiveStates, s)
  <2>1. mActiveStates' = Append(rest, s) /\ s \in States
    BY <1>3, Frames DEF RollbackState, TypeOK, SingleLocals
  <2>2. rest \in Seq(States) /\ ToSet(mActiveStates) \subseteq ToSet(rest) \cup {s}
    BY Frames, WithoutState
  <2> HIDE DEF s, rest
  <2> QED BY <2>1, <2>2, AppendState
<1>4. CASE EnterState
  <2>1. PICK i \in single.todo :
            mActiveStates' = ReplaceActiveState(mActiveStates, single.from, Matched(i).to)
    BY <1>4 DEF EnterState
  <2>2. pc = "enter" /\ i \in Places(dispatch.event) /\ i \in single.matching
    BY <1>4, <2>1 DEF EnterState, TypeOK, ChosenInv, Handling
  <2>3. Matched(i).to \in States
    BY <2>2, Frames DEF TransitionInfo
  <2>4. ToSet(mActiveStates) \subseteq ToSet(mActiveStates')
            \cup (IF IsSubstateOf(single.from, Matched(i).to) THEN {} ELSE {single.from})
    BY <2>1, <2>3, Frames, ReplacedState
  <2>5. CASE dispatch.event.transitionType = "REGULAR"
    <3>1. single.from \in ToSet(single.exited)
      BY <2>1, <2>2, <2>5 DEF LeaveInv, IsRegular
    <3> QED BY <2>4, <3>1
  <2>6. CASE dispatch.event.transitionType = "ENTRYPOINT"
    <3>1. Parent[Matched(i).to] = single.from /\ single.from \in States
      BY <2>2, <2>6, Frames DEF ChosenInv, Handling
    <3>2. IsSubstateOf(single.from, Matched(i).to)
      BY <2>3, <3>1, AncestorsOfChild, NamesAssumption DEF IsSubstateOf
    <3> QED BY <2>4, <3>2
  <2> QED BY <2>5, <2>6, Frames DEF Unforced, PendingEventInfo
<1>5. CASE ReenterState
  <2>1. mActiveStates' = AddActiveState(mActiveStates, single.exited[single.at])
        /\ single.exited[single.at] \in States
    BY <1>5, Frames DEF ReenterState, TypeOK, SingleLocals
  <2> QED BY <2>1, Frames, AddState
<1>6. CASE ~ EnterInitialState /\ ~ LeaveState /\ ~ RollbackState /\ ~ EnterState
           /\ ~ ReenterState
  BY <1>6, ActiveStatesKept
<1> QED BY <1>1, <1>2, <1>3, <1>4, <1>5, <1>6

\* Only a history's default or remembered target is an event that forces.
UnforcedInv ==
    /\ Unforced
    /\ \A i \in DOMAIN mPendingEvents : mPendingEvents[i].transitionType # "FORCED"

LEMMA UnforcedFront ==
    ASSUME TypeOK, UnforcedInv, NEW event \in PendingEventInfo,
           event.transitionType # "FORCED", PushFront(event), dispatch' = dispatch
    PROVE  UnforcedInv'
<1>1. mPendingEvents' = <<event>> \o mPendingEvents /\ mPendingEvents \in Seq(PendingEventInfo)
  BY Frames DEF PushFront
<1>2. \A i \in DOMAIN mPendingEvents' :
          \/ i = 1
          \/ i - 1 \in DOMAIN mPendingEvents /\ mPendingEvents'[i] = mPendingEvents[i - 1]
  BY <1>1
<1>3. mPendingEvents'[1] = event
  BY <1>1
<1> QED BY <1>2, <1>3 DEF UnforcedInv, Unforced

LEMMA UnforcedBack ==
    ASSUME NEW S, NEW list \in Seq(S), NEW more \in Seq(S),
           \A i \in DOMAIN list : list[i].transitionType # "FORCED",
           \A i \in DOMAIN more : more[i].transitionType # "FORCED"
    PROVE  \A i \in DOMAIN (list \o more) : (list \o more)[i].transitionType # "FORCED"
<1> DEFINE longer == list \o more
<1> SUFFICES ASSUME NEW i \in DOMAIN longer PROVE longer[i].transitionType # "FORCED"
  OBVIOUS
<1>1. CASE i \in DOMAIN list
  <2>1. longer[i] = list[i]
    BY <1>1
  <2> QED BY <1>1, <2>1
<1>2. CASE i \notin DOMAIN list
  <2>1. i - Len(list) \in DOMAIN more /\ longer[i] = more[i - Len(list)]
    BY <1>2
  <2> HIDE DEF longer
  <2> QED BY <2>1
<1> QED BY <1>1, <1>2

LEMMA UnforcedInvStep ==
    HistoryStates = {} => (TypeOK /\ UnforcedInv /\ [Next]_vars => UnforcedInv')
<1> SUFFICES ASSUME HistoryStates = {}, TypeOK, UnforcedInv, [Next]_vars PROVE UnforcedInv'
  OBVIOUS
<1>0. /\ Unforced /\ mPendingEvents \in Seq(PendingEventInfo)
      /\ \A i \in DOMAIN mPendingEvents : mPendingEvents[i].transitionType # "FORCED"
  BY Frames DEF UnforcedInv
<1>none. NotDispatching.event.transitionType # "FORCED"
  BY DEF NotDispatching, Regular
<1>a. ASSUME AppendsRegular, dispatch'.event = dispatch.event \/ dispatch' = NotDispatching
      PROVE  UnforcedInv'
  <2>1. PICK more \in Seq(PendingEventInfo) :
            /\ mPendingEvents' = mPendingEvents \o more
            /\ \A i \in DOMAIN more : more[i].transitionType # "FORCED"
    BY <1>a DEF AppendsRegular
  <2>2. \A i \in DOMAIN mPendingEvents' : mPendingEvents'[i].transitionType # "FORCED"
    BY <1>0, <2>1, UnforcedBack
  <2> QED BY <1>0, <1>a, <1>none, <2>2 DEF UnforcedInv, Unforced
<1>1. CASE \/ EnterInitialState \/ DispatchEvents \/ SkipState \/ BeginTransition
           \/ EndTransition \/ FinishEvent \/ ClearDispatching
           \/ NextExit \/ ExitsDone \/ ExitState \/ RefuseExit \/ NoMoreToExit
           \/ LeaveState \/ RollbackState \/ ExitDone
           \/ EnterState \/ RefuseEntry \/ ReenterState \/ ReenterDone \/ EntriesDone
           \/ EnteredHistory \/ UNCHANGED vars
  <2>1. dispatch'.event = dispatch.event \/ dispatch' = NotDispatching
    BY <1>1, Frames DEF EnterInitialState, DispatchEvents, SkipState, BeginTransition,
       EndTransition, FinishEvent, ClearDispatching, NextExit, ExitsDone, ExitState,
       RefuseExit, NoMoreToExit, LeaveState, RollbackState, ExitDone, EnterState,
       RefuseEntry, ReenterState, ReenterDone, EntriesDone, EnteredHistory, vars,
       DispatchLocals
  <2> QED BY <1>1, <1>a, <2>1, AppendingSteps
<1>2. CASE StartEntryPoints
  <2> DEFINE event == EntryPointOf(Regular(NoEvent, NoClient))
  <2>1. event \in PendingEventInfo /\ event.transitionType # "FORCED"
    BY RegularEvent, EntryPointEvent DEF EntryPointOf
  <2>2. (PushFront(event) \/ UNCHANGED mPendingEvents) /\ dispatch' = dispatch
    BY <1>2 DEF StartEntryPoints
  <2> HIDE DEF event
  <2> QED BY <1>0, <2>1, <2>2, UnforcedFront DEF UnforcedInv, Unforced
<1>3. CASE PopEvent
  <2>1. /\ mPendingEvents # <<>> /\ dispatch'.event = Head(mPendingEvents)
        /\ mPendingEvents' = Tail(mPendingEvents)
    BY <1>3 DEF PopEvent
  <2>2. \A i \in DOMAIN Tail(mPendingEvents) :
            i + 1 \in DOMAIN mPendingEvents /\ Tail(mPendingEvents)[i] = mPendingEvents[i + 1]
    BY <1>0
  <2>3. Head(mPendingEvents) = mPendingEvents[1] /\ 1 \in DOMAIN mPendingEvents
    BY <1>0, <2>1
  <2> QED BY <1>0, <2>1, <2>2, <2>3 DEF UnforcedInv, Unforced
<1>4. CASE EnteredFinalState
  <2> DEFINE e == IF FinalEvent[Entered] # NoEvent
                  THEN FinalEvent[Entered] ELSE dispatch.event.id
  <2>1. e \in Events \cup {NoEvent}
    <3>1. dispatch.event.id \in Events \cup {NoEvent}
      BY Frames DEF PendingEventInfo
    <3> QED BY <1>4, <3>1, FinalAssumption DEF EnteredFinalState, FinalStates
  <2>2. (PushFront(Regular(e, NoClient)) \/ UNCHANGED mPendingEvents) /\ dispatch' = dispatch
    BY <1>4 DEF EnteredFinalState
  <2> HIDE DEF e
  <2>3. Regular(e, NoClient) \in PendingEventInfo
        /\ Regular(e, NoClient).transitionType # "FORCED"
    BY <2>1, RegularEvent DEF Regular
  <2> QED BY <1>0, <2>2, <2>3, UnforcedFront DEF UnforcedInv, Unforced
<1>5. CASE EnteredState
  <2>1. EntryPointOf(dispatch.event) \in PendingEventInfo
        /\ EntryPointOf(dispatch.event).transitionType # "FORCED"
    BY Frames, EntryPointEvent DEF EntryPointOf
  <2>2. (PushFront(EntryPointOf(dispatch.event)) \/ UNCHANGED mPendingEvents)
        /\ dispatch' = dispatch
    BY <1>5 DEF EnteredState
  <2> QED BY <1>0, <2>1, <2>2, UnforcedFront DEF UnforcedInv, Unforced
<1>6. CASE EnteredEmptyHistory \/ RestoreState \/ RestoreLastGroup \/ RestoreParent
  <2>1. Entered \in HistoryStates
    BY <1>6 DEF EnteredEmptyHistory, RestoreState, RestoreLastGroup, RestoreParent,
       TypeOK, Entered, CurTransition, Matched
  <2> QED BY <2>1
<1>7. ASSUME NEW c \in Clients, ClientStep(c) PROVE UnforcedInv'
  <2>1. ASSUME NEW e \in Posted, NEW clearQueue \in BOOLEAN, NEW sync \in BOOLEAN,
               Post(c, e, clearQueue, sync)
        PROVE  \A i \in DOMAIN mPendingEvents' : mPendingEvents'[i].transitionType # "FORCED"
    <3> DEFINE kept  == IF clearQueue THEN <<>> ELSE mPendingEvents
               event == Regular(e, IF sync THEN c ELSE NoClient)
    <3>1. kept \in Seq(PendingEventInfo)
          /\ \A i \in DOMAIN kept : kept[i].transitionType # "FORCED"
      BY <1>0
    <3>2. event.transitionType # "FORCED" /\ mPendingEvents' = Append(kept, event)
      BY <2>1 DEF Post, Regular
    <3> HIDE DEF kept, event
    <3>3. \A i \in DOMAIN Append(kept, event) :
              \/ i \in DOMAIN kept /\ Append(kept, event)[i] = kept[i]
              \/ Append(kept, event)[i] = event
      BY <3>1
    <3> QED BY <3>1, <3>2, <3>3
  <2>2. dispatch' = dispatch
    BY <1>7, WaitStepFrame DEF ClientStep, Post, Emit
  <2>3. CASE UNCHANGED mPendingEvents
    BY <1>0, <2>2, <2>3 DEF UnforcedInv, Unforced
  <2>4. UNCHANGED mPendingEvents \/ \A i \in DOMAIN mPendingEvents' :
                                        mPendingEvents'[i].transitionType # "FORCED"
    BY <1>7, <2>1, WaitStepFrame DEF ClientStep, Emit, queueVars
  <2> QED BY <1>0, <2>2, <2>3, <2>4 DEF UnforcedInv, Unforced
<1> QED BY <1>1, <1>2, <1>3, <1>4, <1>5, <1>6, <1>7 DEF Next, DispatcherStep

\* Whatever callbacks refuse and clients do in between, a state that stops being
\* active has agreed to it in onExiting, unless the event in hand is one that a
\* history pushed to force a transition.
THEOREM OnlyHistoriesForce ==
    Spec => [][Unforced => Active \ Active' \subseteq ToSet(single.exited)]_vars
<1>1. TypeOK /\ ChosenInv /\ LeaveInv /\ [Next]_vars
          => [Unforced => Active \ Active' \subseteq ToSet(single.exited)]_vars
  BY UnforcedStep
<1> QED BY <1>1, LeavingInv, PTL DEF Spec

\* Without history states no event ever forces a transition, so that no state
\* stops being active without its onExiting.
THEOREM LeavingCallsExit == HistoryStates = {} => (Spec => LeavesOnlyByExit)
<1>1. ASSUME HistoryStates = {} PROVE Spec => LeavesOnlyByExit
  <2>1. Init => UnforcedInv
    BY DEF Init, UnforcedInv, Unforced, NotDispatching, Regular
  <2>2. TypeOK /\ UnforcedInv /\ [Next]_vars => UnforcedInv'
    BY <1>1, UnforcedInvStep
  <2>3. UnforcedInv /\ [Unforced => Active \ Active' \subseteq ToSet(single.exited)]_vars
          => [Active \ Active' \subseteq ToSet(single.exited) \cup HistoryStates]_vars
    BY DEF UnforcedInv
  <2> QED BY <2>1, <2>2, <2>3, TypeCorrect, OnlyHistoriesForce, PTL
          DEF Spec, LeavesOnlyByExit
<1> QED BY <1>1

-----------------------------------------------------------------------------
(* Parents of active states *)

\* What the theorems above have shown of every structure without histories.
EngineInv ==
    /\ TypeOK /\ ChosenInv /\ CancelInv /\ LeaveInv
    /\ ActiveInv /\ UnforcedInv

LEMMA EngineInvHolds == HistoryStates = {} => (Spec => []EngineInv)
<1> SUFFICES ASSUME HistoryStates = {} PROVE Spec => []EngineInv
  OBVIOUS
<1>1. Init => ActiveInv /\ UnforcedInv
  BY DEF Init, ActiveInv, NoDuplicateActive, UnforcedInv, Unforced, NotDispatching, Regular
<1>2. TypeOK /\ UnforcedInv /\ [Next]_vars => UnforcedInv'
  BY UnforcedInvStep
<1>3. TypeOK /\ ChosenInv /\ CancelInv /\ LeaveInv /\ ActiveInv /\ UnforcedInv => EngineInv
  BY DEF EngineInv
<1> QED BY <1>1, <1>2, <1>3, ActiveInvStep, LeavingInv, PTL DEF Spec

LEMMA NotBelowItself ==
    ASSUME Acyclic, NEW s \in States
    PROVE  Ancestors[s] \cap Below(s) = {}
<1> SUFFICES ASSUME NEW p \in Ancestors[s], p \in Below(s) PROVE FALSE
  OBVIOUS
<1>1. p \in States /\ Ancestors[p] \subseteq Ancestors[s]
  BY AncestorsOfAncestor
<1> QED BY <1>1 DEF Below, IsSubstateOf, Acyclic

LEMMA ChildBelow ==
    ASSUME NEW s \in States, NEW t \in States, Parent[t] \in Below(s)
    PROVE  t \in Below(s)
<1>1. Parent[t] \in States /\ Parent[t] # NoState
  BY NamesAssumption DEF Below
<1>2. Parent[t] \in Ancestors[t]
  BY <1>1, AncestorsOfChild
<1>3. Ancestors[Parent[t]] \subseteq Ancestors[t]
  BY <1>2, AncestorsOfAncestor
<1> QED BY <1>2, <1>3 DEF Below, IsSubstateOf

LEMMA NoParentNoAncestors ==
    ASSUME NEW s \in States, Parent[s] = NoState
    PROVE  Ancestors[s] = {}
<1>1. HoldsParents({}, s)
  BY DEF HoldsParents
<1> QED BY <1>1, AncestorsAreLeast

\* The states around the target of a transition are around its source.
LEMMA OutwardTarget ==
    ASSUME Outward, EngineInv, IsRegular, pc \in Handling, NEW i \in single.matching
    PROVE  /\ Parent[Matched(i).to] \in Ancestors[single.from] \cup {NoState}
           /\ Ancestors[Matched(i).to] \subseteq Ancestors[single.from]
           /\ Matched(i).to \in Below(single.from) => Matched(i).to = single.from
<1> DEFINE to == Matched(i).to
<1>1. /\ i \in Places(dispatch.event) /\ single.from \in States /\ to \in States
  BY Frames DEF EngineInv, TypeOK, TransitionInfo
<1>2. /\ i \in DOMAIN Transitions /\ Matched(i).from = single.from
      /\ Matched(i).from = Transitions[i].from /\ to = Transitions[i].to
  BY <1>1 DEF IsRegular, Places, Matched, TransitionOf, EngineInv, ChosenInv
<1> HIDE DEF to
<1>3. Parent[to] \in Ancestors[single.from] \cup {NoState}
  BY <1>2 DEF Outward
<1>4. Ancestors[to] \subseteq Ancestors[single.from]
  <2>1. CASE Parent[to] = NoState
    BY <1>1, <2>1, NoParentNoAncestors
  <2>2. CASE Parent[to] \in Ancestors[single.from]
    <3>1. Parent[to] \in States /\ Ancestors[Parent[to]] \subseteq Ancestors[single.from]
      BY <1>1, <2>2, AncestorsOfAncestor
    <3>2. Parent[to] # NoState
      BY <3>1, NamesAssumption
    <3> QED BY <1>1, <2>2, <3>1, <3>2, AncestorsOfChild
  <2> QED BY <1>3, <2>1, <2>2
<1>5. single.from \notin Ancestors[to]
  BY <1>1, <1>4 DEF Outward, Acyclic
<1> QED BY <1>3, <1>4, <1>5 DEF to, Below, IsSubstateOf

-----------------------------------------------------------------------------
(* What the steps do to the set of active states *)

LEMMA TakenOff ==
    ASSUME NEW S, NEW list \in Seq(S), NoDuplicate(list), NEW s
    PROVE  ToSet(Without(list, s)) = ToSet(list) \ {s}
BY WithoutState

LEMMA ReplacedSet ==
    ASSUME NEW S, NEW list \in Seq(S), NoDuplicate(list), NEW old, NEW new \in S
    PROVE  ToSet(ReplaceActiveState(list, old, new))
             = (IF IsSubstateOf(old, new) THEN ToSet(list) ELSE ToSet(list) \ {old}) \cup {new}
<1> DEFINE kept == IF IsSubstateOf(old, new) THEN list ELSE Without(list, old)
<1>1. kept \in Seq(S)
  BY WithoutState
<1>2. ToSet(kept) = IF IsSubstateOf(old, new) THEN ToSet(list) ELSE ToSet(list) \ {old}
  BY TakenOff
<1>3. ReplaceActiveState(list, old, new) = AddActiveState(kept, new)
  BY DEF ReplaceActiveState
<1> HIDE DEF kept
<1> QED BY <1>1, <1>2, <1>3, AddState

\* The target is entered; the source of a regular transition is gone.
EntersTarget(i) ==
    LET to == Matched(i).to
    IN  /\ IsNext(i) /\ i \in single.matching /\ to \in States
        /\ OnStateEntering(mActiveStates, to)
        /\ mActiveStates' = ReplaceActiveState(mActiveStates, single.from, to)
        /\ Active' = (IF IsRegular THEN Active \ {single.from} ELSE Active) \cup {to}
        /\ ~ IsRegular => dispatch.event.transitionType = "ENTRYPOINT" /\ Parent[to] = single.from
        /\ single' = [single EXCEPT !.cur = i, !.todo = @ \ {i}]
        /\ Entered' = to

LEMMA EnterStateEffect ==
    ASSUME Outward, EngineInv, EnterState
    PROVE  \E i \in single.todo : EntersTarget(i)
<1>1. PICK i \in single.todo :
        /\ IsNext(i)
        /\ OnStateEntering(mActiveStates, Matched(i).to)
        /\ mActiveStates' = ReplaceActiveState(mActiveStates, single.from, Matched(i).to)
        /\ single' = [single EXCEPT !.cur = i, !.todo = @ \ {i}]
  BY DEF EnterState
<1>2. pc = "enter" /\ dispatch' = dispatch
  BY DEF EnterState
<1>3. i \in single.matching /\ i \in Places(dispatch.event)
  BY <1>2 DEF EngineInv, TypeOK, ChosenInv, Handling
<1>4. /\ Matched(i).to \in States /\ single.from \in States
      /\ mActiveStates \in Seq(States) /\ NoDuplicate(mActiveStates)
  BY <1>3, Frames DEF EngineInv, ActiveInv, NoDuplicateActive, NoDuplicate, TransitionInfo
<1>5. ~ IsRegular => /\ dispatch.event.transitionType = "ENTRYPOINT"
                     /\ Parent[Matched(i).to] = single.from
  BY <1>2, <1>3, Frames
     DEF EngineInv, UnforcedInv, Unforced, ChosenInv, IsRegular, Handling, PendingEventInfo
<1>6. Active' = (IF IsSubstateOf(single.from, Matched(i).to) THEN Active
                 ELSE Active \ {single.from}) \cup {Matched(i).to}
  BY <1>1, <1>4, ReplacedSet DEF Active
<1>7. IsRegular => ~ IsSubstateOf(single.from, Matched(i).to)
  BY <1>2, <1>3, <1>4, OutwardTarget DEF Handling, IsSubstateOf, Outward, Acyclic
<1>8. ~ IsRegular => IsSubstateOf(single.from, Matched(i).to)
  BY <1>4, <1>5, AncestorsOfChild, NamesAssumption DEF IsSubstateOf
<1>9. Entered' = Matched(i).to
  <2>1. single'.cur = i /\ single'.from = single.from
    BY <1>1, Frames DEF EngineInv, SingleLocals
  <2> QED BY <1>2, <2>1 DEF Entered, CurTransition, Matched
<1> QED BY <1>1, <1>3, <1>4, <1>5, <1>6, <1>7, <1>8, <1>9 DEF EntersTarget

LEMMA LeaveStateEffect ==
    ASSUME EngineInv, LeaveState
    PROVE  /\ pc = "leave" /\ pc' = "leave" /\ dispatch' = dispatch
           /\ single.at \in DOMAIN single.exited /\ single'.at = single.at + 1
           /\ single'.exited = single.exited /\ single'.from = single.from
           /\ single'.before = single.before /\ single'.matching = single.matching
           /\ single'.exitAllowed = single.exitAllowed /\ single'.todo = single.todo
           /\ single'.res = single.res
           /\ Active' = Active \ {single.exited[single.at]}
<1> DEFINE s == single.exited[single.at]
<1>1. /\ mActiveStates \in Seq(States) /\ NoDuplicate(mActiveStates)
      /\ single \in SingleLocals /\ single.at > 0
  BY Frames DEF EngineInv, ActiveInv, NoDuplicateActive, NoDuplicate, LeaveState, TypeOK
<1>2. /\ pc = "leave" /\ pc' = pc /\ dispatch' = dispatch
      /\ single.at <= Len(single.exited) /\ mActiveStates' = Without(mActiveStates, s)
      /\ single'.at = single.at + 1 /\ single'.res = single.res
      /\ single'.exited = single.exited /\ single'.from = single.from
      /\ single'.before = single.before /\ single'.matching = single.matching
      /\ single'.exitAllowed = single.exitAllowed /\ single'.todo = single.todo
  BY <1>1 DEF LeaveState, SingleLocals
<1>3. single.at \in DOMAIN single.exited
  BY <1>1, <1>2 DEF SingleLocals
<1>4. Active' = Active \ {s}
  BY <1>1, <1>2, TakenOff DEF Active
<1> QED BY <1>2, <1>3, <1>4

LEMMA RollbackStateEffect ==
    ASSUME EngineInv, RollbackState
    PROVE  /\ pc = "rollback" /\ pc' = "rollback" /\ dispatch' = dispatch
           /\ single'.exited = single.exited /\ single'.from = single.from
           /\ single'.before = single.before /\ single'.matching = single.matching
           /\ single'.exitAllowed = single.exitAllowed /\ single'.todo = single.todo
           /\ single'.res = single.res
           /\ Active \subseteq Active' /\ Active' \subseteq single.before
<1> DEFINE s    == single.exited[single.at]
           rest == Without(mActiveStates, s)
<1>1. mActiveStates \in Seq(States) /\ single \in SingleLocals /\ single.at > 0
  BY Frames DEF EngineInv, RollbackState, TypeOK
<1>2. /\ pc = "rollback" /\ pc' = pc /\ dispatch' = dispatch
      /\ single.at <= Len(single.exited) /\ mActiveStates' = Append(rest, s)
      /\ single'.exited = single.exited /\ single'.from = single.from
      /\ single'.before = single.before /\ single'.matching = single.matching
      /\ single'.exitAllowed = single.exitAllowed /\ single'.todo = single.todo
      /\ single'.res = single.res
  BY <1>1 DEF RollbackState, SingleLocals
<1>3. s \in States /\ s \in ToSet(single.exited)
  BY <1>1, <1>2 DEF SingleLocals, ToSet
<1>4. rest \in Seq(States) /\ ToSet(rest) \subseteq Active /\ Active \subseteq ToSet(rest) \cup {s}
  BY <1>1, WithoutState DEF Active
<1> HIDE DEF s, rest
<1>5. Active' = ToSet(rest) \cup {s}
  BY <1>2, <1>3, <1>4, AppendState DEF Active
<1>6. Active \cup ToSet(single.exited) \subseteq single.before
  BY <1>2 DEF EngineInv, CancelInv, Exiting
<1> QED BY <1>2, <1>3, <1>4, <1>5, <1>6

-----------------------------------------------------------------------------
\* Where parents may be missing, and what makes up for it: the states that were
\* active when the transition began, with the state handling it and those
\* around it.
ParentsInv ==
    /\ pc \notin {"leave", "rollback"} => ParentsActive
    /\ pc \in Exiting \cup {"exit"} =>
          \A s \in single.before : Parent[s] \in single.before \cup {NoState}
    /\ pc = "leave" =>
          \A s \in Active \cap Below(single.from) :
              \E k \in DOMAIN single.exited : k >= single.at /\ single.exited[k] = s
    /\ pc = "exit" /\ single.exitAllowed /\ IsRegular =>
          single.todo = External \/ Active \cap Below(single.from) = {}
    /\ pc \in {"enter", "entered"} /\ IsRegular =>
          /\ single.todo = {} \/ Active \cap Below(single.from) \subseteq {single.from}
          /\ Ancestors[single.from] \subseteq Active
    /\ pc \in Handling /\ ~ IsRegular => single.from \in Active
    /\ pc # "reenter"

\* A set of states that holds the parents of its members holds their ancestors.
LEMMA ClosedHoldsAncestors ==
    ASSUME NEW S \in SUBSET States, \A t \in S : Parent[t] \in S \cup {NoState}, NEW s \in S
    PROVE  Ancestors[s] \subseteq S
BY AncestorsAreLeast DEF HoldsParents

LEMMA ParentsBegin ==
    ASSUME Outward, EngineInv, ParentsInv, BeginTransition
    PROVE  ParentsInv'
<1>1. /\ pc = "scan" /\ pc' \in {"exit", "end"} /\ dispatch' = dispatch
      /\ Active' = Active /\ Scanned \in Active
  BY DEF BeginTransition, Active, PassedOver
<1>2. /\ single'.from \in single'.before /\ (IsRegular => single'.todo = External')
      /\ IsRegular' = IsRegular
  BY <1>1, BeginChosen DEF EngineInv, IsRegular
<1>3. single'.before = Active /\ single'.from = Scanned
  <2>1. NoTransition \in SingleLocals
    BY NamesAssumption DEF NoTransition, SingleLocals, Status
  <2> QED BY <2>1 DEF BeginTransition, SingleLocals
<1>4. ParentsActive
  BY <1>1 DEF ParentsInv
<1> QED BY <1>1, <1>2, <1>3, <1>4 DEF ParentsInv, ParentsActive, Exiting

LEMMA ParentsExiting ==
    ASSUME Outward, EngineInv, ParentsInv, ExitingStep
    PROVE  ParentsInv'
<1>0. /\ pc \in Exiting \cup {"exit"} /\ dispatch' = dispatch /\ IsRegular' = IsRegular
      /\ single'.from = single.from /\ single'.before = single.before /\ External' = External
  BY ExitingFrame DEF EngineInv, IsRegular
<1>1. /\ single.from \in States /\ single \in SingleLocals /\ single.from \in single.before
      /\ ToSet(single.exited) \subseteq Below(single.from)
      /\ Active \cup ToSet(single.exited) \subseteq single.before
      /\ single.before \subseteq Active \cup ToSet(single.exited)
      /\ single.before \in SUBSET States
  BY <1>0, Frames DEF EngineInv, LeaveInv, CancelInv, SingleLocals
<1>2. \A s \in single.before : Parent[s] \in single.before \cup {NoState}
  BY <1>0 DEF ParentsInv
<1>3. Ancestors[single.from] \subseteq Active
  BY <1>1, <1>2, ClosedHoldsAncestors, NotBelowItself DEF Outward
<1> USE DEF ParentsInv, Exiting
<1>4. ASSUME Active' = Active, pc' = pc \/ pc' = "exiting", pc # "leave", pc' # "exit",
             pc \in {"exit", "exiting"}
      PROVE  ParentsInv'
  <2>1. ParentsActive'
    BY <1>4 DEF ParentsActive
  <2>2. pc' = "exiting"
    BY <1>4, <1>0
  <2> QED BY <1>0, <1>2, <1>4, <2>1, <2>2 DEF Handling
<1>5. CASE NextExit
  <2>1. pc = "exit" /\ pc' = "exiting" /\ Active' = Active
    BY <1>5 DEF NextExit, Active
  <2> QED BY <1>4, <2>1
<1>6. CASE ExitState
  <2>1. pc = "exiting" /\ pc' = pc /\ Active' = Active
    BY <1>6 DEF ExitState, Active
  <2> QED BY <1>4, <2>1
<1>7. CASE ExitsDone
  <2>1. /\ pc = "exit" /\ single.todo = {} /\ Active' = Active
        /\ \/ pc' = "end"
           \/ single.exitAllowed /\ pc' = "enter" /\ single'.todo = External
    BY <1>1, <1>7 DEF ExitsDone, SingleLocals, Active
  <2>2. ParentsActive'
    BY <2>1 DEF ParentsActive
  <2>3. pc' = "enter" /\ IsRegular =>
            single'.todo = {} \/ Active \cap Below(single.from) = {}
    BY <2>1
  <2> QED BY <1>0, <1>3, <2>1, <2>2, <2>3 DEF Handling
<1>8. CASE RefuseExit
  <2>1. pc = "exiting" /\ pc' = "rollback" /\ Active' = Active
    BY <1>8 DEF RefuseExit, Active
  <2> QED BY <1>0, <1>2, <2>1 DEF Handling
<1>9. CASE NoMoreToExit
  <2>1. /\ pc = "exiting" /\ Active' = Active /\ pc' \in {"leave", "rollback"}
        /\ pc' = "leave" => single.exitAllowed
        /\ single'.exited = single.exited /\ single'.at = 1
    BY <1>1, <1>9 DEF NoMoreToExit, SingleLocals, Active
  <2>2. pc' = "leave" => \A s \in Active' \cap Below(single'.from) :
            \E k \in DOMAIN single'.exited : k >= single'.at /\ single'.exited[k] = s
    <3> SUFFICES ASSUME pc' = "leave", NEW s \in Active, s \in Below(single.from)
                 PROVE  \E k \in DOMAIN single.exited : k >= 1 /\ single.exited[k] = s
      BY <1>0, <2>1 DEF Below
    <3>1. LeaveInv'
      BY ExitingLeaveInv DEF EngineInv
    <3>2. single'.before \cap Below(single'.from) \subseteq ToSet(single'.exited)
      BY <3>1 DEF LeaveInv, Below
    <3>3. s \in ToSet(single.exited)
      BY <1>0, <1>1, <2>1, <3>2 DEF Below
    <3>4. PICK k \in DOMAIN single.exited : single.exited[k] = s
      BY <3>3 DEF ToSet
    <3>5. k >= 1
      BY <1>1 DEF SingleLocals
    <3> QED BY <3>4, <3>5
  <2> QED BY <1>0, <1>2, <2>1, <2>2 DEF Handling, Below
<1>10. CASE LeaveState
  <2>1. /\ pc = "leave" /\ pc' = "leave" /\ single'.at = single.at + 1
        /\ single'.exited = single.exited /\ single.at \in DOMAIN single.exited
        /\ Active' = Active \ {single.exited[single.at]}
    BY <1>10, LeaveStateEffect
  <2>2. \A s \in Active' \cap Below(single'.from) :
            \E k \in DOMAIN single'.exited : k >= single'.at /\ single'.exited[k] = s
    <3> SUFFICES ASSUME NEW s \in Active, s # single.exited[single.at], s \in Below(single.from)
                 PROVE  \E k \in DOMAIN single.exited : k >= single.at + 1 /\ single.exited[k] = s
      BY <1>0, <2>1 DEF Below
    <3>1. PICK k \in DOMAIN single.exited : k >= single.at /\ single.exited[k] = s
      BY <2>1
    <3>2. k \in Nat /\ single.at \in Nat /\ k # single.at
      BY <1>1, <3>1 DEF SingleLocals
    <3>3. k >= single.at + 1
      BY <3>1, <3>2
    <3> QED BY <3>1, <3>3
  <2>3. IsRegular
    BY <2>1 DEF EngineInv, ChosenInv
  <2> QED BY <1>0, <1>2, <2>1, <2>2, <2>3
<1>11. CASE RollbackState
  <2>1. pc' = "rollback"
    BY <1>11, RollbackStateEffect
  <2>2. IsRegular
    BY <1>11 DEF EngineInv, ChosenInv, RollbackState
  <2> QED BY <1>0, <1>2, <2>1, <2>2
<1>12. CASE ExitDone
  <2>1. /\ pc \in {"leave", "rollback"} /\ pc' = "exit" /\ Active' = Active
        /\ single' = single /\ single.at > Len(single.exited)
    BY <1>12 DEF ExitDone, Active
  <2>2. CASE pc = "leave"
    <3>1. Active \cap Below(single.from) = {}
      <4> SUFFICES ASSUME NEW k \in DOMAIN single.exited, k >= single.at PROVE FALSE
        BY <2>2
      <4> QED BY <1>1, <2>1 DEF SingleLocals
    <3>2. ParentsActive
      <4> SUFFICES ASSUME NEW s \in Active PROVE Parent[s] \in Active \cup {NoState}
        BY DEF ParentsActive
      <4>1. Parent[s] \in Active \cup ToSet(single.exited) \cup {NoState} /\ s \in States
        BY <1>1, <1>2
      <4>2. Parent[s] \notin Below(single.from)
        BY <1>1, <3>1, <4>1, ChildBelow
      <4> QED BY <1>1, <4>1, <4>2
    <3>3. IsRegular
      BY <2>2 DEF EngineInv, ChosenInv
    <3> QED BY <1>0, <1>2, <2>1, <2>2, <3>1, <3>2, <3>3 DEF ParentsActive, Below
  <2>3. CASE pc = "rollback"
    <3>1. ~ single.exitAllowed /\ IsRegular
      BY <2>3 DEF EngineInv, CancelInv, ChosenInv
    <3>2. ToSet(single.exited) \subseteq Active
      <4>1. \A k \in DOMAIN single.exited : k < single.at
        BY <1>1, <2>1 DEF SingleLocals
      <4> QED BY <2>3, <4>1 DEF EngineInv, CancelInv, ToSet
    <3>3. ParentsActive
      BY <1>1, <1>2, <3>2 DEF ParentsActive
    <3> QED BY <1>0, <1>2, <2>1, <2>3, <3>1, <3>3 DEF ParentsActive
  <2> QED BY <2>1, <2>2, <2>3
<1> QED BY <1>5, <1>6, <1>7, <1>8, <1>9, <1>10, <1>11, <1>12 DEF ExitingStep

\* Without histories and refused entries a step that enters is one of these.
LEMMA PlainEntering ==
    ASSUME Outward, EngineInv, ParentsInv, EnteringStep
    PROVE  EnterState \/ EntriesDone \/ EnteredFinalState \/ EnteredState
<1>1. ~ RefuseEntry
  BY DEF RefuseEntry, Outward
<1>2. ~ ReenterState /\ ~ ReenterDone
  BY DEF ReenterState, ReenterDone, ParentsInv
<1>3. ~ EnteredEmptyHistory /\ ~ EnteredHistory
  BY DEF EnteredEmptyHistory, EnteredHistory, Outward
<1>4. ~ RestoreState /\ ~ RestoreLastGroup /\ ~ RestoreParent
  BY DEF RestoreState, RestoreLastGroup, RestoreParent, Outward, EngineInv, TypeOK
<1> QED BY <1>1, <1>2, <1>3, <1>4 DEF EnteringStep

LEMMA ParentsEntering ==
    ASSUME Outward, EngineInv, ParentsInv, EnteringStep
    PROVE  ParentsInv'
<1>0. /\ dispatch' = dispatch /\ IsRegular' = IsRegular /\ single'.from = single.from
      /\ single.from \in States /\ single \in SingleLocals /\ Active \subseteq States
  <2>1. Active \subseteq States
    BY Frames DEF EngineInv, Active, ToSet
  <2> QED BY <2>1, EnteringFrame, Frames DEF EngineInv, IsRegular
<1>1. CASE EnterState
  <2>1. PICK i \in single.todo : EntersTarget(i)
    BY <1>1, EnterStateEffect
  <2> DEFINE to == Matched(i).to
  <2>2. /\ i \in single.matching /\ to \in States
        /\ Active' = (IF IsRegular THEN Active \ {single.from} ELSE Active) \cup {to}
        /\ ~ IsRegular => Parent[to] = single.from
        /\ single' = [single EXCEPT !.cur = i, !.todo = @ \ {i}]
    BY <2>1 DEF EntersTarget
  <2>3. single'.todo \subseteq single.todo
    BY <1>0, <2>2 DEF SingleLocals
  <2>4. pc = "enter" /\ pc' = "entered" /\ ParentsActive
    BY <1>1 DEF EnterState, ParentsInv
  <2>5. CASE IsRegular
    <3>1. /\ Parent[to] \in Ancestors[single.from] \cup {NoState}
          /\ to \in Below(single.from) => to = single.from
      BY <2>2, <2>4, <2>5, OutwardTarget DEF Handling
    <3>2. /\ Active \cap Below(single.from) \subseteq {single.from}
          /\ Ancestors[single.from] \subseteq Active
      BY <2>4, <2>5 DEF ParentsInv
    <3>3. single.from \notin Ancestors[single.from]
      BY <1>0 DEF Outward, Acyclic
    <3> HIDE DEF to
    <3>4. ASSUME NEW s \in Active, s # single.from
          PROVE  Parent[s] # single.from
      <4>1. single.from \in Below(single.from)
        BY <1>0 DEF Below
      <4> QED BY <1>0, <3>2, <3>4, <4>1, ChildBelow
    <3>5. ParentsActive'
      <4> SUFFICES ASSUME NEW s \in Active' PROVE Parent[s] \in Active' \cup {NoState}
        BY DEF ParentsActive
      <4>1. CASE s = to
        BY <2>2, <2>5, <3>1, <3>2, <3>3, <4>1
      <4>2. CASE s # to
        <5>1. s \in Active /\ s # single.from
          BY <2>2, <2>5, <4>2
        <5>2. Parent[s] \in Active \cup {NoState} /\ Parent[s] # single.from
          BY <2>4, <3>4, <5>1 DEF ParentsActive
        <5> QED BY <2>2, <2>5, <5>2
      <4> QED BY <4>1, <4>2
    <3>6. Active' \cap Below(single.from) \subseteq {single.from}
      BY <2>2, <2>5, <3>1, <3>2
    <3>7. Ancestors[single.from] \subseteq Active'
      BY <2>2, <2>5, <3>2, <3>3
    <3> QED BY <1>0, <2>4, <2>5, <3>5, <3>6, <3>7 DEF ParentsInv, Exiting, Below
  <2>6. CASE ~ IsRegular
    <3>1. single.from \in Active
      BY <2>4, <2>6 DEF ParentsInv, Handling
    <3> HIDE DEF to
    <3>2. Active' = Active \cup {to} /\ Parent[to] = single.from
      BY <2>2, <2>6 DEF to
    <3>3. ParentsActive'
      BY <2>4, <3>1, <3>2 DEF ParentsActive
    <3> QED BY <1>0, <2>4, <2>6, <3>1, <3>2, <3>3 DEF ParentsInv, Exiting
  <2> QED BY <2>5, <2>6
<1>2. CASE EntriesDone \/ EnteredFinalState \/ EnteredState
  <2>1. /\ pc \in {"enter", "entered"} /\ pc' \in {"enter", "end"} /\ Active' = Active
        /\ single'.todo = single.todo
    BY <1>0, <1>2 DEF EntriesDone, EnteredFinalState, EnteredState, SingleLocals, Active
  <2>2. ParentsActive'
    BY <2>1 DEF ParentsInv, ParentsActive
  <2> QED BY <1>0, <2>1, <2>2 DEF ParentsInv, Exiting, Handling, Entering, Below
<1> QED BY <1>1, <1>2, PlainEntering

\* Where the other steps of the dispatcher begin.
LEMMA OtherStepsFrom ==
    ASSUME [Next]_vars, ~ BeginTransition, ~ ExitingStep, ~ EnteringStep
    PROVE  pc' = pc \/ pc \in {"boot", "bootEntry", "idle", "pop", "scan", "end", "clear"}
<1>1. CASE DispatcherStep
  BY <1>1 DEF DispatcherStep, ExitingStep, EnteringStep, EnterInitialState, StartEntryPoints,
     DispatchEvents, PopEvent, SkipState, EndTransition, FinishEvent, ClearDispatching
<1>2. CASE \E c \in Clients : ClientStep(c)
  BY <1>2, WaitStepFrame DEF ClientStep, Post, Emit
<1>3. CASE UNCHANGED vars
  BY <1>3 DEF vars
<1> QED BY <1>1, <1>2, <1>3 DEF Next

LEMMA ParentsInvStep ==
    Outward => (EngineInv /\ ParentsInv /\ [Next]_vars => ParentsInv')
<1> SUFFICES ASSUME Outward, EngineInv, ParentsInv, [Next]_vars PROVE ParentsInv'
  OBVIOUS
<1>1. CASE ~ BeginTransition /\ ~ ExitingStep /\ ~ EnteringStep
  <2>1. CASE UNCHANGED <<mActiveStates, mHistoryData, pc, dispatch, single>>
    <3>1. Active' = Active /\ External' = External /\ IsRegular' = IsRegular
      BY <2>1 DEF Active, External, Matched, IsRegular
    <3> QED BY <2>1, <3>1 DEF ParentsInv, ParentsActive, Below
  <2>2. CASE pc' \notin Handling
    <3>1. pc \notin {"leave", "rollback"} \/ pc' = pc
      BY <1>1, OtherStepsFrom
    <3>2. CASE EnterInitialState
      <4>1. mActiveStates' = <<Initial>>
        BY <3>2 DEF EnterInitialState, EngineInv, ActiveInv
      <4>2. Active' = {Initial}
        BY <4>1 DEF Active, ToSet
      <4>3. ParentsActive'
        BY <4>2 DEF ParentsActive, Outward
      <4> QED BY <2>2, <4>3 DEF ParentsInv, Handling, Exiting, Entering
    <3>3. CASE ~ EnterInitialState
      <4>1. mActiveStates' = mActiveStates
        BY <1>1, <3>3, ActiveStatesKept DEF ExitingStep, EnteringStep
      <4>2. pc \notin {"leave", "rollback"}
        BY <2>2, <3>1 DEF Handling, Exiting
      <4>3. ParentsActive'
        BY <4>1, <4>2 DEF ParentsInv, ParentsActive, Active
      <4> QED BY <2>2, <4>3 DEF ParentsInv, Handling, Exiting, Entering
    <3> QED BY <3>2, <3>3
  <2> QED BY <1>1, <2>1, <2>2, OtherSteps
<1> QED BY <1>1, ParentsBegin, ParentsExiting, ParentsEntering

\* The states around an active state are active, through every step of every
\* transition but while states are being left: this is what onStateEntering and
\* the search for a transition in the parents count on.  Exits may be refused
\* and the queue may be cleared.
THEOREM ParentsStayActive ==
    Outward => (Spec => [](pc \notin {"leave", "rollback"} => ParentsActive))
<1> SUFFICES ASSUME Outward
             PROVE  Spec => [](pc \notin {"leave", "rollback"} => ParentsActive)
  OBVIOUS
<1>1. Init => ParentsInv
  BY DEF Init, ParentsInv, ParentsActive, Active, ToSet, Handling, Exiting, Entering
<1>2. EngineInv /\ ParentsInv /\ [Next]_vars => ParentsInv'
  BY ParentsInvStep
<1>3. Spec => []EngineInv
  BY EngineInvHolds DEF Outward
<1>4. ParentsInv => (pc \notin {"leave", "rollback"} => ParentsActive)
  BY DEF ParentsInv
<1> QED BY <1>1, <1>2, <1>3, <1>4, PTL DEF Spec

-----------------------------------------------------------------------------
(* The order in which states are asked *)

\* No state is listed behind one of its substates.
Inward(list) == \A i, j \in DOMAIN list : i < j => list[j] \notin Ancestors[list[i]]

LEMMA InwardRemoved ==
    ASSUME NEW list \in Seq(States), NEW i \in DOMAIN list, Inward(list)
    PROVE  Inward(RemoveAt(list, i))
<1> DEFINE rest     == RemoveAt(list, i)
           place(j) == IF j < i THEN j ELSE j + 1
<1>1. /\ DOMAIN rest = 1 .. Len(list) - 1
      /\ \A j \in 1 .. Len(list) - 1 : rest[j] = list[place(j)]
  BY RemoveAtPlaces
<1>2. \A j \in 1 .. Len(list) - 1 : place(j) \in DOMAIN list
  OBVIOUS
<1>3. \A j, k \in 1 .. Len(list) - 1 : j < k => place(j) < place(k)
  OBVIOUS
<1> HIDE DEF rest, place
<1>4. Inward(rest)
  BY <1>1, <1>2, <1>3 DEF Inward
<1> QED BY <1>4 DEF rest

LEMMA InwardWithout ==
    ASSUME NEW list \in Seq(States), NEW s, Inward(list)
    PROVE  Inward(Without(list, s))
<1>1. CASE s \in ToSet(list)
  <2> DEFINE i == CHOOSE k \in DOMAIN list : list[k] = s
  <2>1. i \in DOMAIN list /\ Without(list, s) = RemoveAt(list, i)
    BY <1>1 DEF Without, ToSet
  <2> QED BY <2>1, InwardRemoved
<1> QED BY <1>1 DEF Without

LEMMA InwardAppended ==
    ASSUME NEW list \in Seq(States), NEW s \in States, Inward(list), s \notin Ancestors[s],
           \A t \in ToSet(list) : s \notin Ancestors[t]
    PROVE  Inward(Append(list, s))
<1> SUFFICES ASSUME NEW i \in 1 .. Len(list) + 1, NEW j \in 1 .. Len(list) + 1, i < j
             PROVE  Append(list, s)[j] \notin Ancestors[Append(list, s)[i]]
  BY DEF Inward
<1>1. i \in DOMAIN list /\ Append(list, s)[i] = list[i] /\ list[i] \in ToSet(list)
  BY DEF ToSet
<1>2. CASE j = Len(list) + 1
  BY <1>1, <1>2
<1>3. CASE j # Len(list) + 1
  <2>1. j \in DOMAIN list /\ Append(list, s)[j] = list[j]
    BY <1>3
  <2> QED BY <1>1, <2>1 DEF Inward
<1> QED BY <1>2, <1>3

\* The state handling the event is the one just asked.
AskedInv == pc \in Handling => single.from = dispatch.snapshot[dispatch.it]

\* Parents are listed before their children, and nothing is rolled back.
InnerInv ==
    /\ AskedInv
    /\ Inward(mActiveStates) /\ Inward(dispatch.snapshot)
    /\ pc \in Handling => single.exitAllowed
    /\ pc # "rollback"

LEMMA BeginAsked ==
    ASSUME BeginTransition
    PROVE  /\ single'.from = dispatch'.snapshot[dispatch'.it] /\ single'.exitAllowed
           /\ pc' \in {"exit", "end"} /\ dispatch' = dispatch /\ mActiveStates' = mActiveStates
<1>1. single'.from = Scanned /\ single'.exitAllowed
  BY DEF BeginTransition, NoTransition
<1> QED BY <1>1 DEF BeginTransition, Scanned

LEMMA HandlingAsked ==
    ASSUME TypeOK, AskedInv, ExitingStep \/ EnteringStep
    PROVE  AskedInv'
<1>1. pc \in Handling /\ dispatch' = dispatch /\ single'.from = single.from
  BY ExitingFrame, EnteringFrame DEF Handling
<1> QED BY <1>1 DEF AskedInv

LEMMA AskedInvStep == TypeOK /\ AskedInv /\ [Next]_vars => AskedInv'
<1> SUFFICES ASSUME TypeOK, AskedInv, [Next]_vars PROVE AskedInv'
  OBVIOUS
<1>1. CASE ~ BeginTransition /\ ~ ExitingStep /\ ~ EnteringStep
  BY <1>1, OtherSteps DEF AskedInv
<1> QED BY <1>1, BeginAsked, HandlingAsked DEF AskedInv

\* The event in hand and the states to ask are fixed when the event is taken.
LEMMA SnapshotKept ==
    ASSUME TypeOK, [Next]_vars, ~ PopEvent, ~ FinishEvent
    PROVE  dispatch'.snapshot = dispatch.snapshot /\ dispatch'.event = dispatch.event
<1>1. dispatch \in DispatchLocals
  BY Frames
<1>2. CASE SkipState \/ EndTransition
  BY <1>1, <1>2 DEF SkipState, EndTransition, DispatchLocals
<1>3. CASE ExitingStep \/ EnteringStep
  BY <1>3, ExitingFrame, EnteringFrame
<1>4. CASE \/ EnterInitialState \/ StartEntryPoints \/ DispatchEvents \/ BeginTransition
           \/ ClearDispatching
  BY <1>4 DEF EnterInitialState, StartEntryPoints, DispatchEvents, BeginTransition,
     ClearDispatching
<1>5. CASE \E c \in Clients : ClientStep(c)
  BY <1>5, WaitStepFrame DEF ClientStep, Post, Emit
<1>6. CASE UNCHANGED vars
  BY <1>6 DEF vars
<1> QED BY <1>2, <1>3, <1>4, <1>5, <1>6 DEF Next, DispatcherStep, ExitingStep, EnteringStep

LEMMA EntryKeepsAnswer ==
    ASSUME TypeOK, EnteringStep
    PROVE  single'.exitAllowed = single.exitAllowed
<1>1. CASE EnterState \/ RefuseEntry \/ ReenterState
  BY <1>1, Frames DEF EnterState, RefuseEntry, ReenterState, SingleLocals
<1>2. CASE \/ ReenterDone \/ EntriesDone \/ EnteredFinalState \/ EnteredEmptyHistory
           \/ EnteredHistory \/ RestoreLastGroup \/ RestoreParent
  BY <1>2, Frames DEF ReenterDone, EntriesDone, EnteredFinalState, EnteredEmptyHistory,
     EnteredHistory, RestoreLastGroup, RestoreParent, SingleLocals
<1>3. CASE RestoreState \/ EnteredState
  BY <1>3, Frames DEF RestoreState, EnteredState, SingleLocals
<1> QED BY <1>1, <1>2, <1>3 DEF EnteringStep

\* A state is entered behind those around it: none below it is active then.
LEMMA InwardEntering ==
    ASSUME Outward, EngineInv, ParentsInv, InnerInv, EnterState
    PROVE  Inward(mActiveStates')
<1>1. PICK i \in single.todo : EntersTarget(i)
  BY EnterStateEffect
<1> DEFINE to   == Matched(i).to
           kept == IF IsSubstateOf(single.from, to) THEN mActiveStates
                   ELSE Without(mActiveStates, single.from)
<1>2. /\ to \in States /\ single.from \in States /\ i \in single.matching
      /\ mActiveStates' = AddActiveState(kept, to)
      /\ mActiveStates \in Seq(States) /\ NoDuplicate(mActiveStates)
      /\ pc = "enter" /\ ParentsActive /\ Active \subseteq States
  <2>1. Active \subseteq States
    BY Frames DEF EngineInv, Active, ToSet
  <2> QED BY <1>1, <2>1, Frames
      DEF EntersTarget, ReplaceActiveState, EngineInv, ActiveInv, NoDuplicateActive,
          NoDuplicate, EnterState, ParentsInv
<1>3. kept \in Seq(States) /\ Inward(kept) /\ ToSet(kept) \subseteq Active
  BY <1>2, WithoutState, InwardWithout DEF InnerInv, Active
<1>4. ~ IsSubstateOf(single.from, to) => ToSet(kept) = Active \ {single.from}
  BY <1>2, TakenOff DEF Active
<1>5. IsSubstateOf(single.from, to) => ToSet(kept) = Active
  BY DEF Active
<1>6. to \in ToSet(kept) \/ \A t \in ToSet(kept) : to \notin Ancestors[t]
  <2> HIDE DEF to, kept
  <2> SUFFICES ASSUME NEW t \in ToSet(kept), to \in Ancestors[t], to \notin ToSet(kept)
               PROVE  FALSE
    OBVIOUS
  <2>1. t \in Active /\ to \in Active
    BY <1>2, <1>3, ClosedHoldsAncestors DEF ParentsActive
  <2>2. to = single.from /\ ~ IsSubstateOf(single.from, to) /\ t # single.from
    BY <1>4, <1>5, <2>1
  <2>3. t \in Below(single.from)
    BY <1>2, <2>1, <2>2 DEF Below, IsSubstateOf
  <2>4. IsRegular
    <3> SUFFICES ASSUME ~ IsRegular PROVE FALSE
      OBVIOUS
    <3>1. Parent[to] = single.from
      BY <1>1 DEF EntersTarget, to
    <3>2. single.from \in Ancestors[to]
      BY <1>2, <3>1, AncestorsOfChild, NamesAssumption DEF to
    <3> QED BY <2>2, <3>2 DEF IsSubstateOf
  <2>5. Active \cap Below(single.from) \subseteq {single.from}
    BY <1>1, <1>2, <2>4 DEF ParentsInv
  <2> QED BY <2>1, <2>2, <2>3, <2>5
<1>7. to \notin Ancestors[to]
  BY <1>2 DEF Outward, Acyclic
<1> HIDE DEF to, kept
<1> QED BY <1>2, <1>3, <1>6, <1>7, InwardAppended DEF AddActiveState

LEMMA InnerInvStep ==
    Outward /\ CanRefuseExit = {} =>
        (EngineInv /\ ParentsInv /\ InnerInv /\ [Next]_vars => InnerInv')
<1> SUFFICES ASSUME Outward, CanRefuseExit = {}, EngineInv, ParentsInv, InnerInv, [Next]_vars
             PROVE  InnerInv'
  OBVIOUS
<1>a. TypeOK /\ AskedInv'
  BY AskedInvStep DEF EngineInv, InnerInv
<1>1. Inward(mActiveStates')
  <2>1. CASE EnterInitialState
    <3>1. mActiveStates' = <<Initial>>
      BY <2>1 DEF EnterInitialState, EngineInv, ActiveInv
    <3> QED BY <3>1 DEF Inward
  <2>2. CASE LeaveState
    <3>1. mActiveStates' = Without(mActiveStates, single.exited[single.at])
      BY <2>2 DEF LeaveState
    <3> QED BY <3>1, <1>a, Frames, InwardWithout DEF InnerInv
  <2>3. ~ RollbackState /\ ~ ReenterState
    BY DEF RollbackState, ReenterState, InnerInv, ParentsInv
  <2>4. CASE EnterState
    BY <2>4, InwardEntering
  <2> QED BY <2>1, <2>2, <2>3, <2>4, ActiveStatesKept DEF InnerInv
<1>2. Inward(dispatch'.snapshot)
  <2>1. CASE PopEvent
    BY <2>1 DEF PopEvent, InnerInv
  <2>2. CASE FinishEvent
    BY <2>2 DEF FinishEvent, NotDispatching, Inward
  <2>3. ~ PopEvent /\ ~ FinishEvent => dispatch'.snapshot = dispatch.snapshot
    BY <1>a, SnapshotKept
  <2> QED BY <2>1, <2>2, <2>3 DEF InnerInv
<1>3. (pc' \in Handling => single'.exitAllowed) /\ pc' # "rollback"
  <2>1. CASE BeginTransition
    BY <2>1, BeginAsked
  <2>2. CASE ExitingStep
    <3>1. ~ RefuseExit /\ ~ RollbackState
      BY DEF RefuseExit, RollbackState, InnerInv
    <3>2. pc \in Handling /\ single.exitAllowed /\ pc # "rollback"
      BY <1>a, <2>2, ExitingFrame DEF InnerInv, Handling
    <3> QED BY <1>a, <2>2, <3>1, <3>2, Frames
        DEF ExitingStep, NextExit, ExitsDone, ExitState, NoMoreToExit, LeaveState, ExitDone,
            SingleLocals
  <2>3. CASE EnteringStep
    <3>1. pc \in Handling /\ pc' # "rollback" /\ single.exitAllowed
      BY <1>a, <2>3, EnteringFrame DEF InnerInv, Handling, Entering
    <3>2. single'.exitAllowed = single.exitAllowed
      BY <1>a, <2>3, EntryKeepsAnswer
    <3> QED BY <3>1, <3>2
  <2>4. CASE ~ BeginTransition /\ ~ ExitingStep /\ ~ EnteringStep
    BY <2>4, OtherSteps DEF InnerInv, Handling, Exiting
  <2> QED BY <2>1, <2>2, <2>3, <2>4
<1> QED BY <1>a, <1>1, <1>2, <1>3 DEF InnerInv

\* A substate of a state that begins to leave has been asked before it, whatever
\* the conditions: the states are asked from the last active one to the first,
\* and every state is listed behind those around it.  The hypothesis on refused
\* exits is needed: the rollback appends the states again from the inside out.
THEOREM InnerStatesAskedFirst ==
    Outward /\ CanRefuseExit = {} => (Spec => []InnerTransitionsFirst)
<1> SUFFICES ASSUME Outward, CanRefuseExit = {} PROVE Spec => []InnerTransitionsFirst
  OBVIOUS
<1>1. Init => ParentsInv /\ InnerInv
  BY DEF Init, ParentsInv, ParentsActive, Active, ToSet, Handling, Exiting, Entering,
     InnerInv, AskedInv, Inward, NotDispatching
<1>2. EngineInv /\ ParentsInv /\ InnerInv /\ [Next]_vars => ParentsInv' /\ InnerInv'
  BY ParentsInvStep, InnerInvStep
<1>3. Spec => []EngineInv
  BY EngineInvHolds DEF Outward
<1>4. EngineInv /\ InnerInv => InnerTransitionsFirst
  <2> SUFFICES ASSUME EngineInv, InnerInv, pc = "exit",
                      NEW i \in 1 .. dispatch.it - 1
               PROVE  ~ IsSubstateOf(single.from, dispatch.snapshot[i])
    BY DEF InnerTransitionsFirst
  <2>1. /\ dispatch.it \in DOMAIN dispatch.snapshot /\ i \in DOMAIN dispatch.snapshot
        /\ single.from = dispatch.snapshot[dispatch.it] /\ i < dispatch.it
    BY Frames DEF EngineInv, TypeOK, DispatchLocals, InnerInv, AskedInv, Handling
  <2> QED BY <2>1 DEF InnerInv, Inward, IsSubstateOf
<1> QED BY <1>1, <1>2, <1>3, <1>4, PTL DEF Spec

-----------------------------------------------------------------------------
(* One transition at a time, to a state with the same parent *)

HasActiveChild(p) == \E t \in Active : Parent[t] = p

\* The state handling an ENTRYPOINT event has several entry points to take.
Several == \E i, j \in single.matching : i # j

\* How far the loops over the matching transitions have come.
LateralInv ==
    /\ pc \in Handling /\ IsRegular => ~ Several
    /\ pc = "exit" => single.todo \subseteq External
    /\ pc \in Exiting => single.todo = {} /\ single.cur \in External
    /\ pc \in Handling /\ ~ IsRegular => single.exitAllowed
    /\ pc \in {"exit", "enter", "entered"} /\ ~ IsRegular =>
          ~ HasActiveChild(single.from) \/ Several \/ (pc # "exit" /\ single.todo = {})
    /\ pc = "entered" => Entered \in Active
    /\ pc = "entered" /\ IsRegular => single.todo = {}

LEMMA LateralBegin ==
    ASSUME Lateral, EngineInv, BeginTransition
    PROVE  LateralInv'
<1>1. /\ TypeOK /\ UnforcedInv /\ pc' \in {"exit", "end"} /\ dispatch' = dispatch
      /\ mActiveStates' = mActiveStates /\ single'.exitAllowed
      /\ Scanned \in States /\ IsRegular' = IsRegular
  <2>1. dispatch.it \in DOMAIN dispatch.snapshot /\ dispatch.snapshot \in Seq(States)
    BY Frames DEF BeginTransition, DispatchLocals, EngineInv
  <2> QED BY <2>1, BeginAsked, BeginChosen DEF EngineInv, Scanned, IsRegular
<1>2. PICK truth \in SUBSET Conditions :
        /\ single'.matching = MatchingTransitions(Scanned, dispatch.event, truth)
        /\ single'.from = Scanned
  BY DEF BeginTransition, NoTransition
<1>3. IsRegular => ~ Several'
  <2> SUFFICES ASSUME IsRegular PROVE ~ Several'
    OBVIOUS
  <2>1. single'.matching = FindTransitionTarget(Scanned, dispatch.event.id, truth)
    BY <1>2 DEF MatchingTransitions, IsRegular
  <2>2. dispatch.event.id \in Events \cup {NoEvent}
    BY <1>1, Frames DEF PendingEventInfo
  <2>3. CASE dispatch.event.id \in Events
    BY <1>1, <2>1, <2>3 DEF Lateral, OneRegular, Several
  <2>4. CASE dispatch.event.id = NoEvent
    <3> SUFFICES ASSUME NEW i \in DOMAIN Transitions PROVE Transitions[i].onEvent # NoEvent
      BY <2>1, <2>4 DEF FindTransitionTarget, Several
    <3>1. Transitions[i] \in RegisteredTransition
      BY TransitionsAssumption
    <3> QED BY <3>1, NamesAssumption DEF RegisteredTransition
  <2> QED BY <2>2, <2>3, <2>4
<1>4. pc' = "exit" => single'.todo \subseteq External'
  <2>1. CASE IsRegular
    BY <1>1, <2>1, BeginChosen
  <2>2. CASE ~ IsRegular
    BY <1>1, <2>2, BeginChosen DEF ChosenInv
  <2> QED BY <2>1, <2>2
<1>5. pc' = "exit" /\ ~ IsRegular => ~ HasActiveChild(single.from)'
  <2> SUFFICES ASSUME pc' = "exit", ~ IsRegular, NEW t \in Active, Parent[t] = Scanned
               PROVE  FALSE
    BY <1>1, <1>2 DEF HasActiveChild, Active
  <2>1. dispatch.event.transitionType = "ENTRYPOINT"
    BY <1>1, Frames DEF IsRegular, UnforcedInv, Unforced, PendingEventInfo
  <2>2. single'.matching # {}
    BY <2>1 DEF BeginTransition, NoTransition
  <2>3. t # Scanned
    BY <1>1, AncestorsOfChild, NamesAssumption DEF Lateral, Outward, Acyclic
  <2> QED BY <1>2, <2>1, <2>2, <2>3 DEF MatchingTransitions
<1>6. IsRegular' => ~ Several'
  BY <1>1, <1>3
<1>7. pc' = "exit" /\ ~ IsRegular' => ~ HasActiveChild(single.from)'
  BY <1>1, <1>5
<1> QED BY <1>1, <1>4, <1>6, <1>7 DEF LateralInv, Exiting

LEMMA LateralExiting ==
    ASSUME Lateral, EngineInv, LateralInv, ExitingStep
    PROVE  LateralInv'
<1>1. /\ pc \in Exiting \cup {"exit"} /\ dispatch' = dispatch
      /\ single'.from = single.from /\ single'.matching = single.matching
      /\ External' = External /\ IsRegular' = IsRegular /\ Several' = Several
      /\ pc \in Handling /\ ChosenInv
  BY ExitingFrame DEF EngineInv, IsRegular, Several, Handling
<1>2. single \in SingleLocals
  BY Frames DEF EngineInv
<1>3. CASE NextExit
  <2>1. PICK i \in single.todo :
            /\ IsNext(i) /\ pc' = "exiting" /\ single'.cur = i /\ single'.todo = single.todo \ {i}
            /\ pc = "exit"
    BY <1>2, <1>3 DEF NextExit, SingleLocals
  <2>2. IsRegular /\ ~ Several /\ single.todo \subseteq single.matching
    BY <1>1, <2>1 DEF ChosenInv, LateralInv
  <2>3. single'.todo = {} /\ single'.cur \in External
    BY <2>1, <2>2 DEF LateralInv, Several
  <2>4. IsRegular' /\ ~ Several' /\ single'.cur \in External'
    BY <1>1, <2>2, <2>3
  <2> QED BY <2>1, <2>3, <2>4 DEF LateralInv, Exiting
<1>4. CASE ExitsDone
  <2>1. /\ pc = "exit" /\ single.todo = {} /\ mActiveStates' = mActiveStates
        /\ single'.exitAllowed = single.exitAllowed
        /\ pc' \in {"enter", "end"}
    BY <1>2, <1>4 DEF ExitsDone, SingleLocals
  <2>2. HasActiveChild(single.from)' <=> HasActiveChild(single.from)
    BY <1>1, <2>1 DEF HasActiveChild, Active
  <2> QED BY <1>1, <2>1, <2>2 DEF LateralInv, Exiting
<1>5. CASE ExitState \/ RefuseExit \/ NoMoreToExit \/ LeaveState \/ RollbackState
  <2>1. /\ pc \in Exiting /\ pc' \in Exiting /\ single'.todo = single.todo
        /\ single'.cur = single.cur
    BY <1>2, <1>5 DEF ExitState, RefuseExit, NoMoreToExit, LeaveState, RollbackState,
       SingleLocals, Exiting
  <2>2. IsRegular
    BY <1>1, <2>1 DEF ChosenInv
  <2> QED BY <1>1, <2>1, <2>2 DEF LateralInv, Exiting
<1>6. CASE ExitDone
  <2>1. pc \in Exiting /\ pc' = "exit" /\ single' = single
    BY <1>6 DEF ExitDone, Exiting
  <2>2. IsRegular
    BY <1>1, <2>1 DEF ChosenInv
  <2> QED BY <1>1, <2>1, <2>2 DEF LateralInv, Exiting
<1> QED BY <1>3, <1>4, <1>5, <1>6 DEF ExitingStep

LEMMA LateralEntering ==
    ASSUME Lateral, EngineInv, ParentsInv, LateralInv, EnteringStep
    PROVE  LateralInv'
<1>0. Outward
  BY DEF Lateral
<1>1. /\ pc \in Entering \cup {"enter"} /\ pc' \in Entering \cup {"enter", "end"}
      /\ dispatch' = dispatch /\ pc \in Handling /\ ChosenInv
      /\ single'.from = single.from /\ single'.matching = single.matching
      /\ IsRegular' = IsRegular /\ Several' = Several
      /\ single'.exitAllowed = single.exitAllowed
  BY EnteringFrame, EntryKeepsAnswer DEF EngineInv, IsRegular, Several, Handling
<1>2. single \in SingleLocals
  BY Frames DEF EngineInv
<1>3. CASE EnterState
  <2>1. PICK i \in single.todo : EntersTarget(i)
    BY <1>0, <1>3, EnterStateEffect
  <2>2. /\ pc = "enter" /\ pc' = "entered" /\ single'.todo = single.todo \ {i}
        /\ single.todo \subseteq single.matching
    BY <1>1, <1>2, <1>3, <2>1 DEF EnterState, EntersTarget, SingleLocals, ChosenInv
  <2>3. Entered' \in Active'
    BY <2>1 DEF EntersTarget
  <2>4. single'.todo = {} \/ Several
    BY <2>2 DEF Several
  <2> QED BY <1>1, <2>2, <2>3, <2>4 DEF LateralInv, Exiting
<1>4. CASE EntriesDone \/ EnteredFinalState \/ EnteredState
  <2>1. /\ pc \in {"enter", "entered"} /\ pc' \in {"enter", "end"}
        /\ mActiveStates' = mActiveStates /\ single'.todo = single.todo
    BY <1>2, <1>4 DEF EntriesDone, EnteredFinalState, EnteredState, SingleLocals
  <2>2. HasActiveChild(single.from)' <=> HasActiveChild(single.from)
    BY <1>1, <2>1 DEF HasActiveChild, Active
  <2> QED BY <1>1, <2>1, <2>2 DEF LateralInv, Exiting
<1> QED BY <1>0, <1>3, <1>4, PlainEntering

LEMMA LateralInvStep ==
    Lateral => (EngineInv /\ ParentsInv /\ LateralInv /\ [Next]_vars => LateralInv')
<1> SUFFICES ASSUME Lateral, EngineInv, ParentsInv, LateralInv, [Next]_vars PROVE LateralInv'
  OBVIOUS
<1>1. CASE ~ BeginTransition /\ ~ ExitingStep /\ ~ EnteringStep
  <2>1. CASE UNCHANGED <<mActiveStates, mHistoryData, pc, dispatch, single>>
    <3>1. /\ Several' = Several /\ External' = External /\ IsRegular' = IsRegular
          /\ HasActiveChild(single.from)' = HasActiveChild(single.from)
          /\ Entered' = Entered /\ Active' = Active
      BY <2>1 DEF Several, External, Matched, IsRegular, HasActiveChild, Active, Entered,
         CurTransition
    <3> QED BY <2>1, <3>1 DEF LateralInv
  <2>2. CASE pc' \notin Handling
    BY <2>2 DEF LateralInv, Handling, Entering
  <2> QED BY <1>1, <2>1, <2>2, OtherSteps
<1> QED BY <1>1, LateralBegin, LateralExiting, LateralEntering

-----------------------------------------------------------------------------
(* What the steps do to the states that are active or about to be again *)

\* The active states, with those a transition under way has taken off the list.
Kept ==
    IF pc \in Exiting \cup {"exit"} THEN single.before
    ELSE IF pc = "enter" /\ IsRegular /\ single.todo # {} THEN Active \cup {single.from}
    ELSE Active

\* A state takes the place of one with the same parent ...
Replaces(to) ==
    /\ to \in States /\ single.from \in Kept /\ Parent[to] = Parent[single.from]
    /\ Active \cap Below(single.from) \subseteq {single.from}
    /\ Kept' = (Active \ {single.from}) \cup {to}

\* ... or is entered below the state that handles an ENTRYPOINT event.
OpensUp(to) ==
    /\ to \in States /\ single.from \in Active /\ Parent[to] = single.from
    /\ HasActiveChild(single.from) => Several
    /\ dispatch.event.transitionType = "ENTRYPOINT" /\ pc = "enter"
    /\ Kept' = Active \cup {to}

LEMMA ActiveIsKept ==
    ASSUME EngineInv
    PROVE  Active \subseteq Kept /\ Kept \subseteq States
<1>1. Active \subseteq States /\ single.from \in States /\ single \in SingleLocals
  BY Frames DEF EngineInv, Active, ToSet
<1> QED BY <1>1 DEF EngineInv, CancelInv, Kept, SingleLocals

LEMMA KeptEntering ==
    ASSUME Lateral, EngineInv, ParentsInv, LateralInv, EnteringStep
    PROVE  Kept' \subseteq Kept \/ \E to : Replaces(to) \/ OpensUp(to)
<1>0. Outward
  BY DEF Lateral
<1>1. /\ single \in SingleLocals /\ dispatch' = dispatch /\ IsRegular' = IsRegular
      /\ Active \subseteq Kept
  BY Frames, EnteringFrame, ActiveIsKept DEF EngineInv, IsRegular
<1>2. CASE EnterState
  <2>1. PICK i \in single.todo : EntersTarget(i)
    BY <1>0, <1>2, EnterStateEffect
  <2> DEFINE to == Matched(i).to
  <2>2. /\ to \in States /\ pc = "enter" /\ pc' = "entered" /\ i \in single.matching
        /\ Active' = (IF IsRegular THEN Active \ {single.from} ELSE Active) \cup {to}
        /\ ~ IsRegular => dispatch.event.transitionType = "ENTRYPOINT"
                          /\ Parent[to] = single.from
    BY <1>2, <2>1 DEF EntersTarget, EnterState
  <2>3. Kept' = Active'
    BY <2>2 DEF Kept, Exiting
  <2>4. CASE IsRegular
    <3>1. /\ single.from \in Kept
          /\ Active \cap Below(single.from) \subseteq {single.from}
      BY <2>1, <2>2, <2>4 DEF Kept, Exiting, ParentsInv
    <3>2. i \in Places(dispatch.event) /\ Matched(i).from = single.from
      BY <2>1, <2>2, <2>4 DEF EngineInv, TypeOK, ChosenInv, Handling
    <3>3. i \in DOMAIN Transitions /\ to = Transitions[i].to /\ Transitions[i].from = single.from
      BY <2>4, <3>2 DEF IsRegular, Places, Matched, TransitionOf
    <3>4. Parent[to] = Parent[single.from]
      BY <3>3 DEF Lateral, Siblings
    <3> HIDE DEF to
    <3> QED BY <2>2, <2>3, <2>4, <3>1, <3>4 DEF Replaces
  <2>5. CASE ~ IsRegular
    <3>1. single.from \in Active
      BY <2>2, <2>5 DEF ParentsInv, Handling
    <3>2. HasActiveChild(single.from) => Several
      BY <2>1, <2>2, <2>5 DEF LateralInv
    <3> HIDE DEF to
    <3> QED BY <2>2, <2>3, <2>5, <3>1, <3>2 DEF OpensUp
  <2> QED BY <2>4, <2>5
<1>3. CASE EntriesDone \/ EnteredFinalState \/ EnteredState
  <2>1. /\ pc' = "end" \/ (pc = "entered" /\ pc' = "enter")
        /\ mActiveStates' = mActiveStates /\ single'.todo = single.todo
    BY <1>1, <1>3 DEF EntriesDone, EnteredFinalState, EnteredState, SingleLocals
  <2>2. Kept' = Active'
    BY <1>1, <2>1 DEF Kept, Exiting, LateralInv
  <2> QED BY <1>1, <2>1, <2>2 DEF Active
<1> QED BY <1>0, <1>2, <1>3, PlainEntering

LEMMA KeptExiting ==
    ASSUME EngineInv, ExitingStep
    PROVE  Kept' \subseteq Kept
<1>1. /\ pc \in Exiting \cup {"exit"} /\ dispatch' = dispatch /\ IsRegular' = IsRegular
      /\ single'.from = single.from /\ single'.before = single.before
      /\ single.from \in single.before /\ Active \subseteq single.before
  BY ExitingFrame DEF EngineInv, LeaveInv, CancelInv, IsRegular
<1>2. CASE ExitsDone
  <2>1. mActiveStates' = mActiveStates /\ pc' \in {"enter", "end"}
    BY <1>2 DEF ExitsDone
  <2>2. Kept' \subseteq Active' \cup {single'.from}
    BY <2>1 DEF Kept, Exiting
  <2> QED BY <1>1, <2>1, <2>2 DEF Kept, Active
<1>3. CASE ~ ExitsDone
  <2>1. pc' \in Exiting \cup {"exit"}
    BY <1>3 DEF ExitingStep, NextExit, ExitState, RefuseExit, NoMoreToExit, LeaveState,
       RollbackState, ExitDone, Exiting
  <2> QED BY <1>1, <2>1 DEF Kept
<1> QED BY <1>2, <1>3

LEMMA KeptMoves ==
    ASSUME Lateral, EngineInv, ParentsInv, LateralInv, [Next]_vars
    PROVE  \/ Kept' \subseteq Kept \/ Kept' = {Initial}
           \/ \E to : Replaces(to) \/ OpensUp(to)
<1>1. CASE BeginTransition
  <2>1. /\ pc = "scan" /\ pc' \in {"exit", "end"} /\ mActiveStates' = mActiveStates
        /\ single'.before = Active
    BY <1>1 DEF BeginTransition, NoTransition
  <2> QED BY <2>1 DEF Kept, Exiting, Active
<1>2. CASE ~ BeginTransition /\ ~ ExitingStep /\ ~ EnteringStep
  <2>1. CASE UNCHANGED <<mActiveStates, mHistoryData, pc, dispatch, single>>
    BY <2>1 DEF Kept, Active, IsRegular
  <2>2. CASE pc' \notin Handling
    <3>1. Kept' = Active'
      BY <2>2 DEF Kept, Handling
    <3>2. CASE EnterInitialState
      <4>1. mActiveStates' = <<Initial>>
        BY <3>2 DEF EnterInitialState, EngineInv, ActiveInv
      <4> QED BY <3>1, <4>1 DEF Active, ToSet
    <3>3. CASE ~ EnterInitialState
      <4>1. mActiveStates' = mActiveStates
        BY <1>2, <3>3, ActiveStatesKept DEF ExitingStep, EnteringStep
      <4> QED BY <3>1, <4>1, ActiveIsKept DEF Active
    <3> QED BY <3>2, <3>3
  <2> QED BY <1>2, <2>1, <2>2, OtherSteps
<1> QED BY <1>1, <1>2, KeptExiting, KeptEntering

-----------------------------------------------------------------------------
(* The events of structures without histories *)

\* Entry points are never ignored, no transition is forced.
Plain == {e \in PendingEventInfo : e.transitionType # "FORCED" /\ ~ e.ignoreEntryPoints}

PlainInv == dispatch.event \in Plain /\ mPendingEvents \in Seq(Plain)

\* What an entered state pushes to the front of the queue.
PushesEntryPoint ==
    \E event \in {dispatch.event, Regular(NoEvent, NoClient)} : PushFront(EntryPointOf(event))

PushesFinalEvent ==
    \E id \in Events \cup {NoEvent} : PushFront(Regular(id, NoClient))

ClearsQueue ==
    \E e \in Events, w \in Clients \cup {NoClient} : mPendingEvents' = <<Regular(e, w)>>

LEMMA QueueMoves ==
    ASSUME HistoryStates = {}, TypeOK, [Next]_vars
    PROVE  \/ AppendsRegular
           \/ PopEvent
           \/ (StartEntryPoints \/ EnteredState) /\ PushesEntryPoint
           \/ EnteredFinalState /\ PushesFinalEvent
           \/ MayClear # {} /\ ClearsQueue /\ dispatch' = dispatch
<1>1. CASE \/ EnterInitialState \/ DispatchEvents \/ SkipState \/ BeginTransition
           \/ EndTransition \/ FinishEvent \/ ClearDispatching
           \/ NextExit \/ ExitsDone \/ ExitState \/ RefuseExit \/ NoMoreToExit
           \/ LeaveState \/ RollbackState \/ ExitDone
           \/ EnterState \/ RefuseEntry \/ ReenterState \/ ReenterDone \/ EntriesDone
           \/ EnteredHistory \/ UNCHANGED vars
  BY <1>1, AppendingSteps
<1>2. CASE StartEntryPoints
  BY <1>2, NothingAppended DEF StartEntryPoints, PushesEntryPoint
<1>3. CASE EnteredState
  BY <1>3, NothingAppended DEF EnteredState, PushesEntryPoint
<1>4. CASE EnteredFinalState
  <2> DEFINE e == IF FinalEvent[Entered] # NoEvent
                  THEN FinalEvent[Entered] ELSE dispatch.event.id
  <2>1. e \in Events \cup {NoEvent}
    <3>1. dispatch.event.id \in Events \cup {NoEvent}
      BY Frames DEF PendingEventInfo
    <3> QED BY <1>4, <3>1, FinalAssumption DEF EnteredFinalState, FinalStates
  <2>2. PushFront(Regular(e, NoClient)) \/ UNCHANGED mPendingEvents
    BY <1>4 DEF EnteredFinalState
  <2> HIDE DEF e
  <2> QED BY <1>4, <2>1, <2>2, NothingAppended DEF PushesFinalEvent
<1>5. CASE EnteredEmptyHistory \/ RestoreState \/ RestoreLastGroup \/ RestoreParent
  <2>1. Entered \in HistoryStates
    BY <1>5 DEF EnteredEmptyHistory, RestoreState, RestoreLastGroup, RestoreParent,
       TypeOK, Entered, CurTransition, Matched
  <2> QED BY <2>1
<1>6. ASSUME NEW c \in Clients, ClientStep(c), MayClear = {} PROVE AppendsRegular
  BY <1>6, ClientsAppend
<1>7. ASSUME NEW c \in Clients, NEW e \in Posted, NEW sync \in BOOLEAN,
             Post(c, e, TRUE, sync)
      PROVE  ClearsQueue /\ dispatch' = dispatch
  <2> DEFINE w == IF sync THEN c ELSE NoClient
  <2>1. mPendingEvents' = Append(<<>>, Regular(e, w)) /\ dispatch' = dispatch
    BY <1>7 DEF Post
  <2>2. e \in Events /\ w \in Clients \cup {NoClient}
    BY ClientsAssumption
  <2> HIDE DEF w
  <2>3. Append(<<>>, Regular(e, w)) = <<Regular(e, w)>>
    OBVIOUS
  <2> QED BY <2>1, <2>2, <2>3 DEF ClearsQueue
<1>8. ASSUME NEW c \in Clients, ClientStep(c), MayClear # {}
      PROVE  AppendsRegular \/ (ClearsQueue /\ dispatch' = dispatch)
  <2>1. ASSUME NEW e \in Posted, NEW sync \in BOOLEAN, Post(c, e, FALSE, sync)
        PROVE  AppendsRegular
    BY <2>1, PostAppends
  <2>2. CASE Emit(c) \/ WaitStep(c)
    BY <2>2, NothingAppended, WaitStepFrame DEF Emit, queueVars
  <2> QED BY <1>7, <1>8, <2>1, <2>2 DEF ClientStep
<1> QED BY <1>1, <1>2, <1>3, <1>4, <1>5, <1>6, <1>8 DEF Next, DispatcherStep

LEMMA PlainInvStep ==
    HistoryStates = {} => (TypeOK /\ PlainInv /\ [Next]_vars => PlainInv')
<1> SUFFICES ASSUME HistoryStates = {}, TypeOK, PlainInv, [Next]_vars PROVE PlainInv'
  OBVIOUS
<1>1. ASSUME NEW id \in Events \cup {NoEvent}, NEW w \in Clients \cup {NoClient}
      PROVE  Regular(id, w) \in Plain
  BY RegularEvent DEF Regular, Plain
<1>2. \A e \in Plain : EntryPointOf(e) \in Plain
  BY EntryPointEvent DEF EntryPointOf, Plain
<1>3. dispatch'.event \in Plain
  <2>1. CASE PopEvent
    BY <2>1 DEF PopEvent, PlainInv
  <2>2. CASE FinishEvent
    BY <2>2, <1>1 DEF FinishEvent, NotDispatching
  <2> QED BY <2>1, <2>2, SnapshotKept DEF PlainInv
<1>4. CASE AppendsRegular
  <2>1. PICK more \in Seq(PendingEventInfo) :
            /\ mPendingEvents' = mPendingEvents \o more
            /\ \A i \in DOMAIN more : more[i] \in Plain
    BY <1>4 DEF AppendsRegular, Plain
  <2>2. more \in Seq(Plain)
    BY <2>1
  <2> QED BY <1>3, <2>1, <2>2, ConcatSeq DEF PlainInv
<1>5. CASE PopEvent
  BY <1>3, <1>5 DEF PopEvent, PlainInv
<1>6. CASE PushesEntryPoint \/ PushesFinalEvent
  <2>1. PICK e \in Plain : PushFront(e)
    BY <1>1, <1>2, <1>6 DEF PushesEntryPoint, PushesFinalEvent, PlainInv
  <2> QED BY <1>3, <2>1 DEF PushFront, PlainInv
<1>7. CASE ClearsQueue
  <2>1. PICK e \in Plain : mPendingEvents' = <<e>>
    BY <1>1, <1>7 DEF ClearsQueue
  <2> QED BY <1>3, <2>1 DEF PlainInv
<1> QED BY <1>4, <1>5, <1>6, <1>7, QueueMoves

-----------------------------------------------------------------------------
(* Which states may be active together *)

Parallel(p) ==
    \E i, j \in DOMAIN EntryPoints : i # j /\ EntryPoints[i].parent = p /\ EntryPoints[j].parent = p

Exclusive(S) == \A s, t \in S : s # t /\ Parent[s] = Parent[t] => Parallel(Parent[s])

OneTree(S) == \E r \in States : Parent[r] = NoState /\ S \subseteq Below(r)

TogetherInv == Exclusive(Kept) /\ OneTree(Kept)

LEMMA SeveralAreParallel ==
    ASSUME EngineInv, pc = "enter", dispatch.event.transitionType = "ENTRYPOINT", Several
    PROVE  Parallel(single.from)
<1>1. PICK i, j \in single.matching : i # j
  BY DEF Several
<1>2. /\ single.matching \subseteq DOMAIN EntryPoints
      /\ \A k \in single.matching : Parent[Matched(k).to] = single.from
  BY DEF EngineInv, TypeOK, ChosenInv, Handling, Places
<1>3. \A k \in single.matching : EntryPoints[k].parent = single.from
  BY <1>2, EntryPointsAssumption DEF Matched, TransitionOf, ExternalTransition
<1> QED BY <1>1, <1>2, <1>3 DEF Parallel

LEMMA TogetherReplaced ==
    ASSUME EngineInv, Outward, TogetherInv, NEW to, Replaces(to)
    PROVE  TogetherInv'
<1>1. /\ to \in States /\ single.from \in Kept /\ Parent[to] = Parent[single.from]
      /\ Active \cap Below(single.from) \subseteq {single.from}
      /\ Kept' = (Active \ {single.from}) \cup {to}
      /\ Active \subseteq Kept /\ Kept \subseteq States /\ single.from \in States
  BY ActiveIsKept DEF Replaces
<1>2. Exclusive(Kept')
  BY <1>1 DEF TogetherInv, Exclusive
<1>3. PICK r \in States : Parent[r] = NoState /\ Kept \subseteq Below(r)
  BY DEF TogetherInv, OneTree
<1>4. CASE Parent[single.from] = NoState
  <2>1. Ancestors[single.from] = {} /\ single.from \in Below(r)
    BY <1>1, <1>3, <1>4, NoParentNoAncestors
  <2>2. single.from = r
    BY <2>1 DEF Below, IsSubstateOf
  <2>3. Kept' = {to}
    BY <1>1, <1>3, <2>2
  <2> QED BY <1>1, <1>2, <1>4, <2>3 DEF TogetherInv, OneTree, Below
<1>5. CASE Parent[single.from] # NoState
  <2>1. r \in Ancestors[single.from]
    BY <1>1, <1>3, <1>5 DEF Below, IsSubstateOf
  <2>2. r \in {Parent[to]} \cup Ancestors[Parent[to]] /\ Parent[to] \in Ancestors[to]
    BY <1>1, <1>5, <2>1, AncestorsOfChild
  <2>3. r \in Ancestors[to]
    BY <1>1, <2>2, AncestorsOfAncestor
  <2>4. to \in Below(r)
    BY <1>1, <2>3 DEF Below, IsSubstateOf
  <2>5. Kept' \subseteq Below(r)
    BY <1>1, <1>3, <2>4
  <2> QED BY <1>2, <1>3, <2>5 DEF TogetherInv, OneTree
<1> QED BY <1>4, <1>5

LEMMA TogetherOpened ==
    ASSUME EngineInv, TogetherInv, NEW to, OpensUp(to)
    PROVE  TogetherInv'
<1>1. /\ to \in States /\ single.from \in Active /\ Parent[to] = single.from
      /\ HasActiveChild(single.from) => Parallel(single.from)
      /\ Kept' = Active \cup {to}
      /\ Active \subseteq Kept /\ Kept \subseteq States
  BY ActiveIsKept, SeveralAreParallel DEF OpensUp
<1>2. Exclusive(Kept')
  BY <1>1 DEF TogetherInv, Exclusive, HasActiveChild
<1>3. PICK r \in States : Parent[r] = NoState /\ Kept \subseteq Below(r)
  BY DEF TogetherInv, OneTree
<1>4. to \in Below(r)
  BY <1>1, <1>3, ChildBelow
<1> QED BY <1>1, <1>2, <1>3, <1>4 DEF TogetherInv, OneTree

LEMMA TogetherInvStep ==
    Lateral => (/\ EngineInv /\ ParentsInv /\ LateralInv /\ TogetherInv /\ [Next]_vars
                => TogetherInv')
<1> SUFFICES ASSUME Lateral, EngineInv, ParentsInv, LateralInv, TogetherInv, [Next]_vars
             PROVE  TogetherInv'
  OBVIOUS
<1>1. CASE Kept' \subseteq Kept
  BY <1>1 DEF TogetherInv, Exclusive, OneTree
<1>2. CASE Kept' = {Initial}
  <2>1. Parent[Initial] = NoState /\ Initial \in States /\ Initial \in Below(Initial)
    BY NamesAssumption DEF Lateral, Outward, Below
  <2> QED BY <1>2, <2>1 DEF TogetherInv, Exclusive, OneTree
<1> QED BY <1>1, <1>2, KeptMoves, TogetherReplaced, TogetherOpened DEF Lateral

-----------------------------------------------------------------------------
(* Entering a composite state *)

EntryFirst ==
    mPendingEvents # <<>> /\ Head(mPendingEvents).transitionType = "ENTRYPOINT"

Unentered(S) == {s \in S : HasSubstates(s) /\ \A t \in S : Parent[t] # s}

\* The states of the snapshot that are still to be asked.
Rest(n) == {dispatch.snapshot[i] : i \in 1 .. n}

\* A sibling of the state just left is about to be entered ...
Replacing(s) ==
    /\ IsRegular /\ s = Parent[single.from]
    /\ \/ pc = "leave"
       \/ pc = "exit" /\ single.exitAllowed /\ single.todo = {} /\ External # {}
       \/ pc = "enter" /\ single.todo # {}

\* ... or the event in hand has yet to open the state, or does it now.
InHand(s) ==
    /\ ~ IsRegular
    /\ \/ pc = "scan" /\ s \in Rest(dispatch.it)
       \/ pc \in Handling /\ s \in Rest(dispatch.it - 1)
       \/ pc = "exit" /\ External # {} /\ s = single.from
       \/ pc = "enter" /\ single.todo # {} /\ s = single.from

\* Why a composite state may be active without any of its substates.
Excused(s) ==
    \/ EntryFirst
    \/ pc \in {"bootEntry", "rollback"}
    \/ pc = "entered" /\ s = Entered
    \/ pc = "leave" /\ s \in Below(single.from)
    \/ Replacing(s)
    \/ InHand(s)

EnterInv ==
    /\ pc = "bootEntry" => Active = {Initial}
    /\ pc \in Exiting \cup {"exit"} /\ IsRegular =>
          Unentered(single.before) = {} \/ EntryFirst
    /\ pc \in Handling \cup {"scan"} /\ ~ IsRegular => dispatch.accepted \subseteq Active
    /\ \A s \in Unentered(Active) : Excused(s)

LegalInv ==
    /\ EngineInv /\ ParentsInv /\ LateralInv
    /\ AskedInv /\ TogetherInv /\ PlainInv

LEMMA AppendKeepsFirst ==
    ASSUME TypeOK, AppendsRegular, EntryFirst
    PROVE  EntryFirst'
<1>1. PICK more \in Seq(PendingEventInfo) : mPendingEvents' = mPendingEvents \o more
  BY DEF AppendsRegular
<1>2. /\ mPendingEvents \in Seq(PendingEventInfo) /\ mPendingEvents # <<>>
      /\ Head(mPendingEvents).transitionType = "ENTRYPOINT"
  BY Frames DEF EntryFirst
<1>3. mPendingEvents' # <<>> /\ Head(mPendingEvents') = Head(mPendingEvents)
  BY <1>1, <1>2
<1> QED BY <1>2, <1>3 DEF EntryFirst

LEMMA PushedFirst ==
    ASSUME TypeOK, PushesEntryPoint
    PROVE  EntryFirst'
<1>1. PICK e : PushFront(EntryPointOf(e))
  BY DEF PushesEntryPoint
<1>2. /\ EntryPointOf(e).transitionType = "ENTRYPOINT"
      /\ mPendingEvents' = <<EntryPointOf(e)>> \o mPendingEvents
      /\ mPendingEvents \in Seq(PendingEventInfo)
  BY <1>1, Frames DEF PushFront, EntryPointOf
<1>3. mPendingEvents' # <<>> /\ Head(mPendingEvents') = EntryPointOf(e)
  BY <1>2
<1> QED BY <1>2, <1>3 DEF EntryFirst

\* An ENTRYPOINT event keeps its place but for these steps.
LEMMA FirstStays ==
    ASSUME HistoryStates = {}, MayClear = {}, TypeOK, [Next]_vars, EntryFirst,
           ~ PopEvent, ~ EnteredFinalState
    PROVE  EntryFirst'
BY QueueMoves, AppendKeepsFirst, PushedFirst

\* Some entry point of a composite state applies, whatever the event.
LEMMA SomethingOpens ==
    ASSUME Opens, NEW s \in States, HasSubstates(s), NEW e, NEW truth
    PROVE  GetEntryPoints(s, e, truth) # {}
BY DEF Opens, GetEntryPoints, EntryMatches, Holds

\* Above an active state every state has an active child.
LEMMA ChildHeld ==
    ASSUME NEW S \in SUBSET States, \A t \in S : Parent[t] \in S \cup {NoState},
           NEW s \in S, NEW p \in Ancestors[s]
    PROVE  \E t \in S : Parent[t] = p
BY ChildOnTheWay, ClosedHoldsAncestors

\* Steps that leave the active states alone, outside of handleSingleTransition.
LEMMA EnterDispatching ==
    ASSUME Composed, LegalInv, EnterInv,
           \/ EnterInitialState \/ StartEntryPoints \/ DispatchEvents \/ PopEvent
           \/ SkipState \/ FinishEvent \/ ClearDispatching
    PROVE  EnterInv'
<1>0. /\ TypeOK /\ HistoryStates = {} /\ MayClear = {} /\ [Next]_vars
      /\ dispatch.event.transitionType \in {"REGULAR", "ENTRYPOINT"}
      /\ dispatch \in DispatchLocals
  <2>1. dispatch.event.transitionType \in {"REGULAR", "ENTRYPOINT"}
    BY Frames DEF LegalInv, EngineInv, UnforcedInv, Unforced, PendingEventInfo
  <2> QED BY <2>1, Frames DEF LegalInv, EngineInv, Composed, Lateral, Outward, Next, DispatcherStep
<1>1. CASE EnterInitialState
  <2>1. mActiveStates' = <<Initial>> /\ pc' = "bootEntry"
    BY <1>1 DEF EnterInitialState, LegalInv, EngineInv, ActiveInv
  <2>2. Active' = {Initial}
    BY <2>1 DEF Active, ToSet
  <2> QED BY <2>1, <2>2 DEF EnterInv, Excused, Exiting, Handling, Entering
<1>2. CASE StartEntryPoints
  <2>1. Active' = {Initial} /\ pc' = "idle"
    BY <1>2 DEF StartEntryPoints, EnterInv, Active
  <2>2. ASSUME NEW s \in Unentered(Active') PROVE Excused(s)'
    <3>1. HasSubstates(Initial) /\ s = Initial
      BY <2>1, <2>2 DEF Unentered
    <3>2. \A truth : GetEntryPoints(Initial, NoEvent, truth) # {}
      BY <3>1, SomethingOpens, NamesAssumption DEF Composed
    <3>3. PushesEntryPoint
      BY <1>2, <3>2 DEF StartEntryPoints, PushesEntryPoint
    <3> QED BY <1>0, <3>3, PushedFirst DEF Excused
  <2> QED BY <2>1, <2>2 DEF EnterInv, Exiting, Handling, Entering
<1>3. CASE DispatchEvents \/ ClearDispatching
  <2>1. /\ mActiveStates' = mActiveStates /\ mPendingEvents' = mPendingEvents
        /\ pc \in {"idle", "clear"} /\ pc' \in {"idle", "clear", "pop"}
    BY <1>3 DEF DispatchEvents, ClearDispatching
  <2>2. ASSUME NEW s \in Unentered(Active) PROVE EntryFirst
    <3>1. Excused(s)
      BY DEF EnterInv
    <3> QED BY <2>1, <3>1 DEF Excused, Replacing, InHand, Handling, Exiting, Entering
  <2>3. Active' = Active /\ EntryFirst' = EntryFirst
    BY <2>1 DEF Active, EntryFirst
  <2> QED BY <2>1, <2>2, <2>3 DEF EnterInv, Excused, Exiting, Handling, Entering
<1>4. CASE PopEvent
  <2>1. /\ mActiveStates' = mActiveStates /\ pc = "pop" /\ pc' = "scan"
        /\ dispatch'.snapshot = mActiveStates /\ dispatch'.it = Len(mActiveStates)
        /\ dispatch'.event = Head(mPendingEvents) /\ dispatch'.accepted = {}
        /\ Active' = Active
    BY <1>4 DEF PopEvent, Active
  <2>2. ASSUME NEW s \in Unentered(Active) PROVE Excused(s)'
    <3>1. Excused(s)
      BY DEF EnterInv
    <3>2. EntryFirst
      BY <2>1, <3>1 DEF Excused, Replacing, InHand, Handling, Exiting, Entering
    <3>3. ~ IsRegular'
      BY <2>1, <3>2 DEF EntryFirst, IsRegular
    <3>4. s \in Rest(dispatch.it)'
      BY <1>0, <2>1, Frames DEF Rest, Unentered, Active, ToSet
    <3> QED BY <2>1, <3>3, <3>4 DEF Excused, InHand
  <2> QED BY <2>1, <2>2 DEF EnterInv, Exiting
<1>5. CASE SkipState
  <2>1. /\ mActiveStates' = mActiveStates /\ pc = "scan" /\ pc' = "scan" /\ PassedOver
        /\ dispatch'.snapshot = dispatch.snapshot /\ dispatch'.it = dispatch.it - 1
        /\ dispatch'.event = dispatch.event /\ dispatch'.accepted = dispatch.accepted
        /\ Active' = Active /\ IsRegular' = IsRegular /\ dispatch.it \in Nat
    BY <1>0, <1>5 DEF SkipState, Active, DispatchLocals, IsRegular
  <2>2. ASSUME NEW s \in Unentered(Active) PROVE Excused(s)'
    <3>1. Excused(s)
      BY DEF EnterInv
    <3>2. EntryFirst \/ (~ IsRegular /\ s \in Rest(dispatch.it))
      BY <2>1, <3>1 DEF Excused, Replacing, InHand, Handling, Exiting, Entering
    <3>3. CASE EntryFirst
      <4>1. EntryFirst'
        BY <1>0, <1>5, <3>3, FirstStays DEF PopEvent, SkipState, EnteredFinalState
      <4> QED BY <4>1 DEF Excused
    <3>4. CASE ~ IsRegular /\ s \in Rest(dispatch.it)
      <4>1. PICK i \in 1 .. dispatch.it : s = dispatch.snapshot[i]
        BY <3>4 DEF Rest
      <4>2. CASE i = dispatch.it
        <5>1. s = Scanned /\ s \in Active /\ Active \in SUBSET States
          BY <1>0, <4>1, <4>2, Frames DEF Scanned, Unentered, Active, ToSet
        <5>2. PICK a \in dispatch.accepted : IsSubstateOf(s, a)
          BY <2>1, <5>1 DEF PassedOver
        <5>3. a \in Active /\ ParentsActive
          BY <2>1, <3>4 DEF EnterInv, LegalInv, ParentsInv
        <5>4. \E t \in Active : Parent[t] = s
          BY <5>1, <5>2, <5>3, ChildHeld DEF ParentsActive, IsSubstateOf
        <5> QED BY <5>4 DEF Unentered
      <4>3. CASE i # dispatch.it
        <5>1. i \in 1 .. dispatch.it - 1
          BY <2>1, <4>3
        <5>2. s \in Rest(dispatch.it)'
          BY <2>1, <4>1, <5>1 DEF Rest
        <5> QED BY <2>1, <3>4, <5>2 DEF Excused, InHand
      <4> QED BY <4>2, <4>3
    <3> QED BY <3>2, <3>3, <3>4
  <2> QED BY <2>1, <2>2 DEF EnterInv, Exiting
<1>6. CASE FinishEvent
  <2>1. /\ mActiveStates' = mActiveStates /\ mPendingEvents' = mPendingEvents
        /\ pc = "scan" /\ dispatch.it = 0 /\ pc' = "clear"
        /\ Active' = Active /\ EntryFirst' = EntryFirst
    BY <1>6 DEF FinishEvent, Active, EntryFirst, queueVars
  <2>2. ASSUME NEW s \in Unentered(Active) PROVE EntryFirst
    <3>1. Excused(s)
      BY DEF EnterInv
    <3>2. Rest(dispatch.it) = {}
      BY <2>1 DEF Rest
    <3> QED BY <2>1, <3>1, <3>2 DEF Excused, Replacing, InHand, Handling, Exiting, Entering
  <2> QED BY <2>1, <2>2 DEF EnterInv, Excused, Exiting, Handling, Entering
<1> QED BY <1>1, <1>2, <1>3, <1>4, <1>5, <1>6

\* A state begins to handle the event, and ends.
LEMMA EnterBeginning ==
    ASSUME Composed, LegalInv, EnterInv, BeginTransition
    PROVE  EnterInv'
<1>0. /\ TypeOK /\ HistoryStates = {} /\ MayClear = {} /\ [Next]_vars /\ Lateral /\ EngineInv
      /\ pc = "scan" /\ pc' \in {"exit", "end"} /\ dispatch' = dispatch
      /\ mActiveStates' = mActiveStates /\ mPendingEvents' = mPendingEvents
      /\ Active' = Active /\ EntryFirst' = EntryFirst /\ IsRegular' = IsRegular
      /\ Scanned \in States /\ dispatch.it \in Nat
  <2>1. /\ dispatch.it \in DOMAIN dispatch.snapshot /\ dispatch.snapshot \in Seq(States)
        /\ dispatch.it \in Nat
    BY Frames DEF BeginTransition, DispatchLocals, LegalInv, EngineInv
  <2>2. /\ pc = "scan" /\ pc' \in {"exit", "end"} /\ dispatch' = dispatch
        /\ mActiveStates' = mActiveStates /\ mPendingEvents' = mPendingEvents
    BY BeginAsked DEF BeginTransition, queueVars
  <2>3. [Next]_vars
    BY DEF Next, DispatcherStep
  <2>4. Active' = Active /\ EntryFirst' = EntryFirst /\ IsRegular' = IsRegular
    BY <2>2 DEF Active, EntryFirst, IsRegular
  <2> QED BY <2>1, <2>2, <2>3, <2>4
          DEF LegalInv, EngineInv, Composed, Lateral, Outward, Scanned
<1>1. PICK truth \in SUBSET Conditions :
        /\ single'.matching = MatchingTransitions(Scanned, dispatch.event, truth)
        /\ single'.from = Scanned /\ single'.before = Active
        /\ pc' = IF single'.matching = {} THEN "end" ELSE "exit"
  BY DEF BeginTransition, NoTransition
<1>2. ASSUME NEW s \in Unentered(Active) PROVE EntryFirst \/ InHand(s)
  <2>1. Excused(s)
    BY DEF EnterInv
  <2> QED BY <1>0, <2>1 DEF Excused, Replacing
<1>3. ASSUME NEW s \in Unentered(Active), ~ IsRegular, s \in Rest(dispatch.it)
      PROVE  InHand(s)'
  <2>1. PICK i \in 1 .. dispatch.it : s = dispatch.snapshot[i]
    BY <1>3 DEF Rest
  <2>2. CASE i = dispatch.it
    <3>1. s = Scanned /\ HasSubstates(s) /\ \A t \in Active : Parent[t] # s
      BY <1>3, <2>1, <2>2 DEF Scanned, Unentered
    <3>2. dispatch.event.transitionType = "ENTRYPOINT"
      BY <1>0, <1>3, Frames DEF IsRegular, EngineInv, UnforcedInv, Unforced, PendingEventInfo
    <3>3. single'.matching = GetEntryPoints(Scanned, dispatch.event.id, truth)
      BY <1>1, <3>1, <3>2 DEF MatchingTransitions
    <3>4. single'.matching # {} /\ pc' = "exit"
      BY <1>0, <1>1, <3>1, <3>3, SomethingOpens DEF Composed
    <3>5. PICK k \in single'.matching : TRUE
      BY <3>4
    <3>6. k \in DOMAIN EntryPoints /\ Parent[EntryPoints[k].state] = Scanned
      BY <3>3, <3>5, EntryPointsAssumption DEF GetEntryPoints, EntryMatches
    <3>7. Matched(k)' = ExternalTransition(Scanned, EntryPoints[k].state)
      BY <1>0, <1>1, <3>2 DEF Matched, TransitionOf
    <3>8. k \in External'
      BY <3>5, <3>7 DEF External, IsInternalSelf, ExternalTransition
    <3> QED BY <1>0, <1>1, <1>3, <3>1, <3>4, <3>8 DEF InHand
  <2>3. CASE i # dispatch.it
    <3>1. i \in 1 .. dispatch.it - 1
      BY <1>0, <2>3
    <3>2. s \in Rest(dispatch.it - 1)'
      BY <1>0, <2>1, <3>1 DEF Rest
    <3> QED BY <1>0, <1>3, <3>2 DEF InHand, Handling
  <2> QED BY <2>2, <2>3
<1>4. \A s \in Unentered(Active) : Excused(s)'
  <2>1. ASSUME NEW s \in Unentered(Active), InHand(s) PROVE InHand(s)'
    BY <1>0, <1>3, <2>1 DEF InHand, Handling, Exiting, Entering
  <2> QED BY <1>0, <1>2, <2>1 DEF Excused
<1>5. IsRegular => Unentered(Active) = {} \/ EntryFirst
  BY <1>2 DEF InHand
<1> QED BY <1>0, <1>1, <1>4, <1>5 DEF EnterInv, Exiting

LEMMA EnterEnding ==
    ASSUME Composed, LegalInv, EnterInv, EndTransition
    PROVE  EnterInv'
<1>1. /\ TypeOK /\ HistoryStates = {} /\ MayClear = {} /\ [Next]_vars
      /\ dispatch \in DispatchLocals
  BY Frames DEF LegalInv, EngineInv, Composed, Lateral, Outward, Next, DispatcherStep
<1>2. /\ pc = "end" /\ pc' = "scan" /\ Active' = Active /\ mPendingEvents' = mPendingEvents
      /\ dispatch'.event = dispatch.event /\ dispatch'.snapshot = dispatch.snapshot
      /\ dispatch'.it = dispatch.it - 1
      /\ dispatch'.accepted \subseteq dispatch.accepted \cup {single.from}
      /\ IsRegular' = IsRegular /\ EntryFirst' = EntryFirst
      /\ Rest(dispatch.it)' = Rest(dispatch.it - 1)
  BY <1>1 DEF EndTransition, DispatchLocals, Active, IsRegular, EntryFirst, Rest, queueVars
<1>3. ~ IsRegular => single.from \in Active
  BY <1>2 DEF LegalInv, ParentsInv, Handling
<1>4. ASSUME NEW s \in Unentered(Active) PROVE Excused(s)'
  <2>1. Excused(s)
    BY DEF EnterInv
  <2> QED BY <1>2, <2>1 DEF Excused, Replacing, InHand
<1> QED BY <1>2, <1>3, <1>4 DEF EnterInv, Exiting, Handling

LEMMA EnterExiting ==
    ASSUME Composed, LegalInv, EnterInv, ExitingStep
    PROVE  EnterInv'
<1>0. /\ TypeOK /\ EngineInv /\ LateralInv /\ ParentsInv /\ Outward
      /\ HistoryStates = {} /\ MayClear = {} /\ [Next]_vars
      /\ single \in SingleLocals
  <2>1. [Next]_vars
    BY DEF Next, DispatcherStep, ExitingStep
  <2> QED BY <2>1, Frames DEF LegalInv, EngineInv, Composed, Lateral, Outward
<1>1. /\ pc \in Exiting \cup {"exit"} /\ dispatch' = dispatch /\ IsRegular' = IsRegular
      /\ single'.from = single.from /\ single'.before = single.before
      /\ External' = External /\ single.from \in States
  BY <1>0, ExitingFrame, Frames DEF IsRegular
<1>2. EntryFirst => EntryFirst'
  <2>1. ~ PopEvent /\ ~ EnteredFinalState
    BY <1>1 DEF PopEvent, EnteredFinalState, Exiting
  <2> QED BY <1>0, <2>1, FirstStays
<1>3. /\ pc' \in Exiting \cup {"exit"} /\ IsRegular' =>
            Unentered(single'.before) = {} \/ EntryFirst'
      /\ ~ pc' = "bootEntry"
  <2>1. pc' # "bootEntry"
    BY DEF ExitingStep, NextExit, ExitsDone, ExitState, RefuseExit, NoMoreToExit, LeaveState,
       RollbackState, ExitDone, Exiting
  <2> QED BY <1>1, <1>2, <2>1 DEF EnterInv
<1>4. ~ IsRegular => Active' = Active
  <2> SUFFICES ASSUME ~ IsRegular PROVE mActiveStates' = mActiveStates
    BY DEF Active
  <2>1. pc \notin Exiting
    BY <1>0 DEF EngineInv, ChosenInv
  <2>2. ~ LeaveState /\ ~ RollbackState /\ ~ EnterInitialState /\ ~ EnterState /\ ~ ReenterState
    BY <1>1, <2>1 DEF LeaveState, RollbackState, EnterInitialState, EnterState, ReenterState,
       Exiting
  <2> QED BY <1>0, <2>2, ActiveStatesKept
<1>5. pc' \in Handling \cup {"scan"} /\ ~ IsRegular' => dispatch'.accepted \subseteq Active'
  BY <1>1, <1>4 DEF EnterInv, Handling
<1>6. SUFFICES \A s \in Unentered(Active') : Excused(s)'
  BY <1>3, <1>5 DEF EnterInv
<1>7. ASSUME NEW s \in Unentered(Active)
      PROVE  EntryFirst \/ pc = "rollback" \/ (pc = "leave" /\ s \in Below(single.from))
             \/ Replacing(s) \/ InHand(s)
  BY <1>1 DEF EnterInv, Excused, Exiting
<1>8. CASE NextExit \/ ExitState \/ RefuseExit \/ NoMoreToExit
  <2>1. /\ Active' = Active /\ pc \in {"exit", "exiting"}
        /\ pc = "exit" => single.todo # {}
    BY <1>8 DEF NextExit, ExitState, RefuseExit, NoMoreToExit, Active
  <2>2. IsRegular
    BY <1>0, <2>1 DEF EngineInv, ChosenInv, Exiting
  <2> QED BY <1>2, <1>7, <2>1, <2>2 DEF Replacing, InHand, Excused
<1>9. CASE ExitsDone
  <2>1. /\ pc = "exit" /\ Active' = Active
        /\ \/ pc' = "end" /\ ~ single.exitAllowed
           \/ pc' = "enter" /\ single'.todo = External
    BY <1>0, <1>9 DEF ExitsDone, SingleLocals, Active
  <2>2. ASSUME NEW s \in Unentered(Active), Replacing(s) PROVE Replacing(s)'
    BY <1>1, <2>1, <2>2 DEF Replacing
  <2>3. ~ IsRegular => single.exitAllowed
    BY <1>0, <2>1 DEF LateralInv, Handling
  <2>4. ASSUME NEW s \in Unentered(Active), InHand(s) PROVE InHand(s)'
    <3>1. ~ IsRegular /\ pc' = "enter" /\ single'.todo = External
      BY <2>1, <2>3, <2>4 DEF InHand
    <3>2. s \in Rest(dispatch.it - 1) \/ (External # {} /\ s = single.from)
      BY <2>1, <2>4 DEF InHand
    <3>3. Rest(dispatch.it - 1)' = Rest(dispatch.it - 1)
      BY <1>1 DEF Rest
    <3> QED BY <1>1, <3>1, <3>2, <3>3 DEF InHand, Handling
  <2> QED BY <1>2, <1>7, <2>1, <2>2, <2>4 DEF Excused
<1>10. CASE LeaveState
  <2> DEFINE x == single.exited[single.at]
  <2>1. /\ pc = "leave" /\ pc' = "leave" /\ Active' = Active \ {x}
        /\ single.at \in DOMAIN single.exited
    BY <1>0, <1>10, LeaveStateEffect
  <2>2. IsRegular /\ x \in Below(single.from)
    <3>1. x \in ToSet(single.exited)
      BY <2>1 DEF ToSet
    <3> QED BY <1>0, <2>1, <3>1 DEF EngineInv, ChosenInv, LeaveInv, Exiting
  <2> HIDE DEF x
  <2>3. ASSUME NEW s \in Unentered(Active') PROVE Excused(s)'
    <3>1. CASE s \in Below(single.from)
      BY <1>1, <2>1, <3>1 DEF Excused, Below
    <3>2. CASE s \notin Below(single.from) /\ s \in Unentered(Active)
      <4>1. EntryFirst \/ s = Parent[single.from]
        BY <1>7, <2>1, <2>2, <3>2 DEF Replacing, InHand
      <4> QED BY <1>1, <1>2, <2>1, <2>2, <4>1 DEF Excused, Replacing
    <3>3. CASE s \notin Below(single.from) /\ s \notin Unentered(Active)
      <4>1. s \in Active /\ HasSubstates(s) /\ \A t \in Active' : Parent[t] # s
        BY <2>1, <2>3 DEF Unentered
      <4>2. PICK t \in Active : Parent[t] = s
        BY <3>3, <4>1 DEF Unentered
      <4>3. t = x
        BY <2>1, <4>1, <4>2
      <4>4. t = single.from
        <5>1. t # single.from => single.from \in Ancestors[t] /\ t \in States
          BY <2>2, <4>3 DEF Below, IsSubstateOf
        <5>2. s # NoState /\ s \in States
          <6>1. Active \subseteq States
            BY <1>0, Frames DEF Active, ToSet
          <6> QED BY <4>1, <6>1, NamesAssumption
        <5>3. t # single.from => single.from \in {s} \cup Ancestors[s]
          BY <4>2, <5>1, <5>2, AncestorsOfChild
        <5> QED BY <3>3, <5>2, <5>3 DEF Below, IsSubstateOf
      <4> QED BY <1>1, <2>1, <2>2, <4>2, <4>4 DEF Excused, Replacing
    <3> QED BY <3>1, <3>2, <3>3
  <2> QED BY <2>3
<1>11. CASE RollbackState
  <2>1. pc' = "rollback"
    BY <1>11 DEF RollbackState
  <2> QED BY <2>1 DEF Excused
<1>12. CASE ExitDone
  <2>1. /\ pc \in {"leave", "rollback"} /\ pc' = "exit" /\ Active' = Active
        /\ single' = single
    BY <1>12 DEF ExitDone, Active
  <2>2. ParentsInv' /\ CancelInv' /\ IsRegular
    <3>1. CancelInv'
      BY <1>0, CancelInvStep DEF EngineInv
    <3> QED BY <1>0, <2>1, <3>1, ParentsInvStep DEF EngineInv, ChosenInv, Exiting
  <2>3. CASE pc = "leave"
    <3>1. /\ single.exitAllowed /\ single.todo = {} /\ External # {}
      BY <1>0, <2>3 DEF EngineInv, CancelInv, LateralInv, Exiting
    <3>2. Active \cap Below(single.from) = {}
      <4>1. External' # {} /\ single'.todo = {}
        BY <1>1, <2>1, <3>1
      <4>2. single'.exitAllowed /\ IsRegular' /\ pc' = "exit"
        BY <1>1, <2>1, <2>2, <3>1
      <4>3. Active' \cap Below(single.from)' = {}
        BY <2>2, <4>1, <4>2 DEF ParentsInv
      <4> QED BY <2>1, <4>3 DEF Below
    <3>3. ASSUME NEW s \in Unentered(Active) PROVE EntryFirst \/ s = Parent[single.from]
      <4>1. s \notin Below(single.from)
        BY <3>2 DEF Unentered
      <4> QED BY <1>7, <2>2, <2>3, <4>1 DEF Replacing, InHand
    <3> QED BY <1>1, <1>2, <2>1, <2>2, <3>1, <3>3 DEF Excused, Replacing
  <2>4. CASE pc = "rollback"
    <3>1. ~ single.exitAllowed
      BY <1>0, <2>4 DEF EngineInv, CancelInv
    <3>2. Active = single.before
      BY <2>1, <2>2, <3>1 DEF CancelInv
    <3>3. Unentered(Active) = {} \/ EntryFirst
      BY <2>2, <2>4, <3>2 DEF EnterInv, Exiting
    <3> QED BY <1>2, <2>1, <3>3 DEF Excused
  <2> QED BY <2>1, <2>3, <2>4
<1> QED BY <1>8, <1>9, <1>10, <1>11, <1>12 DEF ExitingStep

\* When a final state reports completion no composite state waits to be opened.
LEMMA FinishedMeansEntered ==
    ASSUME Composed, LegalInv, pc = "entered", Entered \in FinalStates,
           Parent[Entered] # NoState, ~ HasActiveChildren(Parent[Entered])
    PROVE  Unentered(Active) = {}
<1> DEFINE p == Parent[Entered]
<1>1. /\ Entered \in Active /\ ParentsActive /\ Active \subseteq Kept /\ Kept \subseteq States
      /\ OneTree(Kept)
  BY ActiveIsKept DEF LegalInv, LateralInv, ParentsInv, TogetherInv
<1>2. p \in Active /\ Parent[p] = NoState
  BY <1>1 DEF ParentsActive, Composed, Finals
<1>3. PICK r \in States : Parent[r] = NoState /\ Active \subseteq Below(r)
  BY <1>1 DEF OneTree
<1>4. p = r
  <2>1. Ancestors[p] = {} /\ p \in Below(r)
    BY <1>1, <1>2, <1>3, NoParentNoAncestors
  <2> QED BY <2>1 DEF Below, IsSubstateOf
<1> SUFFICES ASSUME NEW s \in Unentered(Active) PROVE FALSE
  OBVIOUS
<1>5. s \in Active /\ HasSubstates(s) /\ \A t \in Active : Parent[t] # s
  BY DEF Unentered
<1>6. s # p
  BY <1>1, <1>5
<1>7. p \in Ancestors[s]
  BY <1>3, <1>4, <1>5, <1>6 DEF Below, IsSubstateOf
<1>8. s \notin FinalStates
  BY <1>5 DEF Composed, Finals
<1> QED BY <1>5, <1>7, <1>8 DEF HasActiveChildren, IsSubstateOf

LEMMA EnterEntering ==
    ASSUME Composed, LegalInv, EnterInv, EnteringStep
    PROVE  EnterInv'
<1>0. /\ TypeOK /\ EngineInv /\ LateralInv /\ ParentsInv /\ Outward
      /\ HistoryStates = {} /\ MayClear = {} /\ [Next]_vars
      /\ single \in SingleLocals /\ ~ PopEvent
  <2>1. [Next]_vars
    BY DEF Next, DispatcherStep, EnteringStep
  <2>2. EngineInv /\ Outward
    BY DEF LegalInv, Composed, Lateral
  <2>3. ~ PopEvent
    BY <2>2, EnteringFrame DEF PopEvent, Entering, EngineInv
  <2> QED BY <2>1, <2>2, <2>3, Frames DEF LegalInv, EngineInv, Composed, Outward
<1>1. /\ pc \in {"enter", "entered"} /\ pc' \in {"enter", "entered", "end"}
      /\ dispatch' = dispatch /\ IsRegular' = IsRegular
      /\ single'.from = single.from /\ single.from \in States
      /\ Rest(dispatch.it - 1)' = Rest(dispatch.it - 1)
  <2>1. dispatch' = dispatch /\ single'.from = single.from
    BY <1>0, EnteringFrame
  <2>2. pc \in {"enter", "entered"} /\ pc' \in {"enter", "entered", "end"}
    BY <1>0, PlainEntering DEF EnterState, EntriesDone, EnteredFinalState, EnteredState
  <2>3. Rest(dispatch.it - 1)' = Rest(dispatch.it - 1) /\ IsRegular' = IsRegular
    BY <2>1 DEF Rest, IsRegular
  <2> QED BY <1>0, <2>1, <2>2, <2>3, Frames
<1>2. SUFFICES /\ ~ IsRegular => Active \subseteq Active'
               /\ \A s \in Unentered(Active') : Excused(s)'
  BY <1>1 DEF EnterInv, Exiting, Handling, Entering
<1>3. ASSUME NEW s \in Unentered(Active)
      PROVE  EntryFirst \/ (pc = "entered" /\ s = Entered) \/ Replacing(s) \/ InHand(s)
  BY <1>1 DEF EnterInv, Excused
<1>4. CASE EnterState
  <2>1. PICK i \in single.todo : EntersTarget(i)
    BY <1>0, <1>4, EnterStateEffect
  <2> DEFINE to == Matched(i).to
  <2>2. /\ pc = "enter" /\ pc' = "entered" /\ Entered' = to
        /\ Active' = (IF IsRegular THEN Active \ {single.from} ELSE Active) \cup {to}
        /\ ~ IsRegular => Parent[to] = single.from
        /\ i \in single.matching
    BY <1>4, <2>1 DEF EntersTarget, EnterState
  <2>3. IsRegular => Parent[to] = Parent[single.from]
    <3> SUFFICES ASSUME IsRegular PROVE Parent[to] = Parent[single.from]
      OBVIOUS
    <3>1. i \in Places(dispatch.event) /\ Matched(i).from = single.from
      BY <1>0, <2>2 DEF EngineInv, TypeOK, ChosenInv, Handling
    <3>2. i \in DOMAIN Transitions /\ to = Transitions[i].to
          /\ Transitions[i].from = single.from
      BY <3>1 DEF IsRegular, Places, Matched, TransitionOf
    <3> QED BY <3>2 DEF Composed, Lateral, Siblings
  <2>4. EntryFirst => EntryFirst'
    <3>1. ~ EnteredFinalState
      BY <2>2 DEF EnteredFinalState
    <3> QED BY <1>0, <3>1, FirstStays
  <2> HIDE DEF to
  <2>5. ASSUME NEW s \in Unentered(Active') PROVE Excused(s)'
    <3>1. s \in Active' /\ HasSubstates(s) /\ \A t \in Active' : Parent[t] # s
      BY DEF Unentered
    <3>2. CASE s = to
      BY <2>2, <3>2 DEF Excused
    <3>3. CASE s # to
      <4>1. to \in Active' /\ s # Parent[to] /\ s \in Active
        BY <2>2, <3>1, <3>3
      <4>2. ASSUME NEW t \in Active, Parent[t] = s PROVE FALSE
        BY <2>2, <2>3, <3>1, <4>1, <4>2
      <4>3. s \in Unentered(Active)
        BY <3>1, <4>1, <4>2 DEF Unentered
      <4>4. ~ Replacing(s)
        BY <2>3, <4>1 DEF Replacing
      <4>5. InHand(s) => InHand(s)'
        <5>1. InHand(s) => s \in Rest(dispatch.it - 1)
          BY <2>2, <4>1 DEF InHand
        <5> QED BY <1>1, <2>2, <5>1 DEF InHand, Handling, Entering
      <4> QED BY <1>3, <2>2, <2>4, <4>3, <4>4, <4>5 DEF Excused
    <3> QED BY <3>2, <3>3
  <2> QED BY <2>2, <2>5
<1>5. CASE EntriesDone
  <2>1. pc = "enter" /\ single.todo = {} /\ pc' = "end" /\ Active' = Active
        /\ mPendingEvents' = mPendingEvents
    BY <1>5 DEF EntriesDone, Active, queueVars
  <2>2. EntryFirst => EntryFirst'
    BY <2>1 DEF EntryFirst
  <2>3. ASSUME NEW s \in Unentered(Active) PROVE EntryFirst \/ InHand(s)'
    BY <1>1, <1>3, <2>1 DEF Replacing, InHand, Handling
  <2> QED BY <2>1, <2>2, <2>3 DEF Excused
<1>6. CASE EnteredFinalState \/ EnteredState
  <2>1. /\ pc = "entered" /\ pc' = "enter" /\ Active' = Active /\ single'.todo = single.todo
    BY <1>0, <1>6 DEF EnteredFinalState, EnteredState, Active, SingleLocals
  <2>2. ASSUME NEW s \in Unentered(Active), s # Entered
        PROVE  EntryFirst \/ InHand(s)'
    BY <1>1, <1>3, <2>1, <2>2 DEF Replacing, InHand, Handling
  <2>3. CASE EnteredState
    <3>1. PICK truth \in SUBSET Conditions :
              \/ GetEntryPoints(Entered, dispatch.event.id, truth) # {}
                 /\ PushFront(EntryPointOf(dispatch.event))
              \/ GetEntryPoints(Entered, dispatch.event.id, truth) = {}
      <4>1. ~ dispatch.event.ignoreEntryPoints
        BY DEF LegalInv, PlainInv, Plain
      <4> QED BY <2>3, <4>1 DEF EnteredState
    <3>2. CASE PushFront(EntryPointOf(dispatch.event))
      <4>1. EntryFirst'
        BY <1>0, <3>2, PushedFirst DEF PushesEntryPoint
      <4> QED BY <2>1, <4>1 DEF Excused
    <3>3. CASE GetEntryPoints(Entered, dispatch.event.id, truth) = {}
      <4>1. ~ HasSubstates(Entered)
        <5>1. Entered \in Active /\ Active \subseteq States
          BY <1>0, <2>1, Frames DEF LateralInv, Active, ToSet
        <5> QED BY <3>3, <5>1, SomethingOpens DEF Composed
      <4>2. EntryFirst => EntryFirst'
        <5>1. ~ EnteredFinalState
          BY <2>3 DEF EnteredState, EnteredFinalState
        <5> QED BY <1>0, <5>1, FirstStays
      <4> QED BY <2>1, <2>2, <4>1, <4>2 DEF Excused, Unentered
    <3> QED BY <3>1, <3>2, <3>3
  <2>4. CASE EnteredFinalState
    <3>1. CASE Parent[Entered] # NoState /\ ~ HasActiveChildren(Parent[Entered])
      <4>1. Unentered(Active) = {}
        BY <2>4, <3>1, FinishedMeansEntered DEF EnteredFinalState
      <4> QED BY <2>1, <4>1
    <3>2. CASE ~ (Parent[Entered] # NoState /\ ~ HasActiveChildren(Parent[Entered]))
      <4>1. EntryFirst => EntryFirst'
        BY <2>4, <3>2 DEF EnteredFinalState, EntryFirst
      <4>2. ~ HasSubstates(Entered)
        BY <2>4 DEF EnteredFinalState, Composed, Finals
      <4> QED BY <2>1, <2>2, <4>1, <4>2 DEF Excused, Unentered
    <3> QED BY <3>1, <3>2
  <2> QED BY <1>6, <2>3, <2>4
<1> QED BY <1>0, <1>4, <1>5, <1>6, PlainEntering

\* What clients do is seen in the queue alone.
LEMMA ElsewhereFrame ==
    ASSUME [Next]_vars, ~ DispatcherStep
    PROVE  UNCHANGED <<mActiveStates, mHistoryData, pc, dispatch, single>>
BY WaitStepFrame DEF Next, ClientStep, Post, Emit, vars

LEMMA EnterInvStep ==
    Composed => (LegalInv /\ EnterInv /\ [Next]_vars => EnterInv')
<1> SUFFICES ASSUME Composed, LegalInv, EnterInv, [Next]_vars PROVE EnterInv'
  OBVIOUS
<1>1. CASE DispatcherStep
  <2>1. ~ RefuseEntry /\ ~ ReenterState
    BY DEF RefuseEntry, ReenterState, LegalInv, ParentsInv, Composed, Lateral, Outward
  <2> QED BY <1>1, <2>1, EnterDispatching, EnterBeginning, EnterEnding, EnterExiting,
             EnterEntering DEF DispatcherStep, ExitingStep, EnteringStep
<1>2. CASE ~ DispatcherStep
  <2>1. UNCHANGED <<mActiveStates, mHistoryData, pc, dispatch, single>>
    BY <1>2, ElsewhereFrame
  <2>2. EntryFirst => EntryFirst'
    <3>1. ~ PopEvent /\ ~ EnteredFinalState
      BY <1>2 DEF DispatcherStep
    <3> QED BY <3>1, FirstStays DEF Composed, Lateral, Outward, LegalInv, EngineInv
  <2>3. /\ Active' = Active /\ IsRegular' = IsRegular /\ External' = External
        /\ Entered' = Entered /\ \A n : Rest(n)' = Rest(n)
    BY <2>1 DEF Active, IsRegular, External, Matched, Entered, CurTransition, Rest
  <2>4. ASSUME NEW s, Excused(s) PROVE Excused(s)'
    <3>1. InHand(s) => InHand(s)'
      BY <2>1, <2>3 DEF InHand
    <3>2. Replacing(s) => Replacing(s)'
      BY <2>1, <2>3 DEF Replacing
    <3>3. s \in Below(single.from) => s \in Below(single.from)'
      BY <2>1 DEF Below
    <3> QED BY <2>1, <2>2, <2>3, <2>4, <3>1, <3>2, <3>3 DEF Excused
  <2> QED BY <2>1, <2>2, <2>3, <2>4 DEF EnterInv
<1> QED BY <1>1, <1>2

LEMMA SettledIsLegal ==
    ASSUME LegalInv, EnterInv
    PROVE  LegalConfiguration
<1> SUFFICES ASSUME Settled PROVE ParentsActive /\ CompositesEntered /\ RegionsExclusive
  BY DEF LegalConfiguration
<1>1. pc = "idle" /\ ~ EntryFirst
  BY DEF Settled, EntryFirst
<1>2. ParentsActive
  BY <1>1 DEF LegalInv, ParentsInv
<1>3. CompositesEntered
  <2> SUFFICES ASSUME NEW s \in Unentered(Active) PROVE FALSE
    BY DEF CompositesEntered, Unentered
  <2>1. Excused(s)
    BY DEF EnterInv
  <2> QED BY <1>1, <2>1 DEF Excused, Replacing, InHand, Handling, Exiting, Entering
<1>4. RegionsExclusive
  <2>1. Exclusive(Active)
    BY <1>1 DEF LegalInv, TogetherInv, Kept, Exiting
  <2> QED BY <2>1 DEF Exclusive, Parallel, RegionsExclusive
<1> QED BY <1>2, <1>3, <1>4

LEMMA LegalInvHolds == Lateral => (Spec => []LegalInv)
<1> SUFFICES ASSUME Lateral PROVE Spec => []LegalInv
  OBVIOUS
<1>1. Init => ParentsInv /\ LateralInv /\ AskedInv /\ TogetherInv /\ PlainInv
  <2> SUFFICES ASSUME Init PROVE ParentsInv /\ LateralInv /\ AskedInv /\ TogetherInv /\ PlainInv
    OBVIOUS
  <2>1. Active = {} /\ pc = "boot" /\ dispatch = NotDispatching /\ mPendingEvents = <<>>
    BY DEF Init, Active, ToSet
  <2>2. ParentsInv /\ LateralInv /\ AskedInv
    BY <2>1 DEF ParentsInv, LateralInv, AskedInv, ParentsActive, Handling, Exiting, Entering
  <2>3. Kept = {}
    BY <2>1 DEF Kept, Exiting
  <2>4. TogetherInv
    BY <2>3, NamesAssumption DEF TogetherInv, Exclusive, OneTree, Lateral, Outward
  <2>5. PlainInv
    <3>1. Regular(NoEvent, NoClient) \in PendingEventInfo
      BY RegularEvent
    <3> QED BY <2>1, <3>1 DEF PlainInv, Plain, NotDispatching, Regular
  <2> QED BY <2>2, <2>4, <2>5
<1>2. /\ EngineInv /\ ParentsInv /\ LateralInv /\ AskedInv /\ TogetherInv /\ PlainInv
      /\ [Next]_vars
      => ParentsInv' /\ LateralInv' /\ AskedInv' /\ TogetherInv' /\ PlainInv'
  BY ParentsInvStep, LateralInvStep, AskedInvStep, TogetherInvStep, PlainInvStep
     DEF Lateral, Outward, EngineInv
<1>3. Spec => []EngineInv
  BY EngineInvHolds DEF Lateral, Outward
<1>4. /\ EngineInv /\ ParentsInv /\ LateralInv /\ AskedInv /\ TogetherInv /\ PlainInv
      => LegalInv
  BY DEF LegalInv
<1> QED BY <1>1, <1>2, <1>3, <1>4, PTL DEF Spec

\* Before an event is taken that does not belong to a transition under way, the
\* active states are a legal configuration, whatever callbacks refuse to exit,
\* conditions answer, actions raise and clients post meanwhile: the ENTRYPOINT
\* events that open a composite state level by level stay ahead of every other.
THEOREM ConfigurationsAreLegal == Composed => (Spec => []LegalConfiguration)
<1> SUFFICES ASSUME Composed PROVE Spec => []LegalConfiguration
  OBVIOUS
<1>1. Init => EnterInv
  BY DEF Init, EnterInv, Unentered, Active, ToSet, Exiting, Entering, Handling
<1>2. LegalInv /\ EnterInv /\ [Next]_vars => EnterInv'
  BY EnterInvStep
<1>3. LegalInv /\ EnterInv => LegalConfiguration
  BY SettledIsLegal
<1>4. Spec => []LegalInv
  BY LegalInvHolds DEF Composed
<1> QED BY <1>1, <1>2, <1>3, <1>4, PTL DEF Spec

-----------------------------------------------------------------------------
(* Structures without parallel states: the active states are a chain *)

Chain(S) == \A s, t \in S : s = t \/ s \in Ancestors[t] \/ t \in Ancestors[s]

Asked == Rest(Len(dispatch.snapshot))

ChainInv ==
    /\ Chain(Kept)
    /\ Chain(Asked) /\ NoDuplicate(dispatch.snapshot)
    /\ pc \in Handling \cup {"scan"} /\ ~ IsRegular => Asked \subseteq Active
    /\ pc \in Handling => ~ Several

LEMMA SameParentSameAncestors ==
    ASSUME NEW s \in States, NEW t \in States, Parent[s] = Parent[t]
    PROVE  Ancestors[s] \subseteq Ancestors[t]
<1>1. CASE Parent[s] = NoState
  BY <1>1, NoParentNoAncestors
<1>2. CASE Parent[s] # NoState
  <2>1. Parent[t] \in Ancestors[t] /\ Ancestors[s] \subseteq {Parent[t]} \cup Ancestors[Parent[t]]
    BY <1>2, AncestorsOfChild
  <2> QED BY <2>1, AncestorsOfAncestor
<1> QED BY <1>1, <1>2

LEMMA ChainReplaced ==
    ASSUME EngineInv, Chain(Kept), NEW to, Replaces(to)
    PROVE  Chain(Kept')
<1>1. /\ to \in States /\ single.from \in Kept /\ Parent[to] = Parent[single.from]
      /\ Active \cap Below(single.from) \subseteq {single.from}
      /\ Kept' = (Active \ {single.from}) \cup {to}
      /\ Active \subseteq Kept /\ Kept \subseteq States /\ single.from \in States
  BY ActiveIsKept DEF Replaces
<1>2. ASSUME NEW t \in Active, t # single.from PROVE t \in Ancestors[to]
  <2>1. t \in Ancestors[single.from] \/ single.from \in Ancestors[t]
    BY <1>1, <1>2 DEF Chain
  <2>2. single.from \notin Ancestors[t]
    BY <1>1, <1>2 DEF Below, IsSubstateOf
  <2> QED BY <1>1, <2>1, <2>2, SameParentSameAncestors
<1> QED BY <1>1, <1>2 DEF Chain

LEMMA ChainOpened ==
    ASSUME EngineInv, ParentsInv, Chain(Kept), ~ Several, NEW to, OpensUp(to)
    PROVE  Chain(Kept')
<1>1. /\ to \in States /\ single.from \in Active /\ Parent[to] = single.from
      /\ ~ HasActiveChild(single.from) /\ pc = "enter" /\ Kept' = Active \cup {to}
      /\ Active \subseteq Kept /\ Kept \subseteq States
  BY ActiveIsKept DEF OpensUp
<1>2. single.from \in Ancestors[to] /\ Ancestors[single.from] \subseteq Ancestors[to]
  <2>1. single.from \in Ancestors[to]
    BY <1>1, AncestorsOfChild, NamesAssumption
  <2> QED BY <1>1, <2>1, AncestorsOfAncestor
<1>3. ASSUME NEW t \in Active PROVE t \in Ancestors[to]
  <2>1. t = single.from \/ t \in Ancestors[single.from] \/ single.from \in Ancestors[t]
    BY <1>1 DEF Chain
  <2>2. single.from \notin Ancestors[t]
    <3> SUFFICES ASSUME single.from \in Ancestors[t] PROVE FALSE
      OBVIOUS
    <3>1. \A u \in Active : Parent[u] \in Active \cup {NoState}
      BY <1>1 DEF ParentsInv, ParentsActive
    <3>2. Active \in SUBSET States
      BY <1>1
    <3>3. \E u \in Active : Parent[u] = single.from
      BY <3>1, <3>2, ChildHeld
    <3> QED BY <1>1, <3>3 DEF HasActiveChild
  <2> QED BY <1>2, <2>1, <2>2
<1> QED BY <1>1, <1>3 DEF Chain

LEMMA OneAtMost ==
    ASSUME Serial, EngineInv, BeginTransition
    PROVE  ~ Several'
<1>1. PICK truth \in SUBSET Conditions :
        single'.matching = MatchingTransitions(Scanned, dispatch.event, truth)
  BY DEF BeginTransition, NoTransition
<1>2. CASE IsRegular
  <2>1. LateralInv'
    BY LateralBegin DEF Serial
  <2>2. pc' \in Handling /\ IsRegular'
    BY <1>2, BeginAsked DEF Handling, IsRegular
  <2> QED BY <2>1, <2>2 DEF LateralInv
<1>3. CASE ~ IsRegular
  <2>1. /\ dispatch.event.transitionType = "ENTRYPOINT"
        /\ dispatch.event.id \in Events \cup {NoEvent}
    BY <1>3, Frames DEF IsRegular, EngineInv, UnforcedInv, Unforced, PendingEventInfo
  <2>2. Scanned \in States
    <3>1. dispatch.it \in DOMAIN dispatch.snapshot /\ dispatch.snapshot \in Seq(States)
      BY Frames DEF BeginTransition, DispatchLocals, EngineInv
    <3> QED BY <3>1 DEF Scanned
  <2>3. single'.matching \subseteq GetEntryPoints(Scanned, dispatch.event.id, truth)
    BY <1>1, <2>1 DEF MatchingTransitions
  <2> QED BY <2>1, <2>2, <2>3 DEF Serial, OneEntry, Several
<1> QED BY <1>2, <1>3

\* An event is in hand until it is finished.
LEMMA HandlingBefore ==
    ASSUME [Next]_vars, pc' \in Handling \cup {"scan"}, ~ PopEvent
    PROVE  pc \in Handling \cup {"scan"}
<1>1. CASE DispatcherStep
  BY <1>1 DEF DispatcherStep, EnterInitialState, StartEntryPoints, DispatchEvents, SkipState,
     BeginTransition, EndTransition, FinishEvent, ClearDispatching, NextExit, ExitsDone,
     ExitState, RefuseExit, NoMoreToExit, LeaveState, RollbackState, ExitDone, EnterState,
     RefuseEntry, ReenterState, ReenterDone, EntriesDone, EnteredFinalState,
     EnteredEmptyHistory, EnteredHistory, RestoreState, RestoreLastGroup, RestoreParent,
     EnteredState, Handling, Exiting, Entering
<1>2. CASE ~ DispatcherStep
  BY <1>2, ElsewhereFrame
<1> QED BY <1>1, <1>2

LEMMA ChainInvStep ==
    Serial => (LegalInv /\ ChainInv /\ [Next]_vars => ChainInv')
<1> SUFFICES ASSUME Serial, LegalInv, ChainInv, [Next]_vars PROVE ChainInv'
  OBVIOUS
<1>0. /\ TypeOK /\ EngineInv /\ ParentsInv /\ LateralInv /\ Lateral /\ Outward
      /\ dispatch \in DispatchLocals
  <2>1. TypeOK
    BY DEF LegalInv, EngineInv
  <2> QED BY <2>1, Frames DEF LegalInv, Serial, Lateral
<1>1. Chain(Kept')
  <2>1. CASE Kept' \subseteq Kept
    BY <2>1 DEF ChainInv, Chain
  <2>2. CASE Kept' = {Initial}
    BY <2>2 DEF Chain
  <2>3. ASSUME NEW to, Replaces(to) PROVE Chain(Kept')
    BY <1>0, <2>3, ChainReplaced DEF ChainInv
  <2>4. ASSUME NEW to, OpensUp(to) PROVE Chain(Kept')
    <3>1. ~ Several
      BY <2>4 DEF ChainInv, OpensUp, Handling
    <3> QED BY <1>0, <2>4, <3>1, ChainOpened DEF ChainInv
  <2> QED BY <1>0, <2>1, <2>2, <2>3, <2>4, KeptMoves
<1>2. Chain(Asked') /\ NoDuplicate(dispatch'.snapshot)
  <2>1. CASE PopEvent
    <3>1. dispatch'.snapshot = mActiveStates /\ pc = "pop"
      BY <2>1 DEF PopEvent
    <3>2. Asked' = Active
      BY <1>0, <3>1, Frames DEF Asked, Rest, Active, ToSet
    <3>3. Chain(Active)
      BY <1>0, ActiveIsKept DEF ChainInv, Chain
    <3> QED BY <1>0, <3>1, <3>2, <3>3 DEF EngineInv, ActiveInv, NoDuplicateActive, NoDuplicate
  <2>2. CASE FinishEvent
    <3>1. dispatch'.snapshot = <<>>
      BY <2>2 DEF FinishEvent, NotDispatching
    <3>2. Asked' = {}
      BY <3>1 DEF Asked, Rest
    <3> QED BY <3>1, <3>2 DEF Chain, NoDuplicate
  <2>3. CASE ~ PopEvent /\ ~ FinishEvent
    <3>1. dispatch'.snapshot = dispatch.snapshot
      BY <1>0, <2>3, SnapshotKept
    <3> QED BY <3>1 DEF ChainInv, Asked, Rest
  <2> QED BY <2>1, <2>2, <2>3
<1>3. pc' \in Handling \cup {"scan"} /\ ~ IsRegular' => Asked' \subseteq Active'
  <2>1. CASE PopEvent
    <3>1. dispatch'.snapshot = mActiveStates /\ mActiveStates' = mActiveStates
      BY <2>1 DEF PopEvent
    <3> QED BY <1>0, <3>1, Frames DEF Asked, Rest, Active, ToSet
  <2>2. CASE FinishEvent
    BY <2>2 DEF FinishEvent, Handling, Exiting, Entering
  <2>3. CASE ~ PopEvent /\ ~ FinishEvent
    <3>1. Asked' = Asked /\ IsRegular' = IsRegular
      BY <1>0, <2>3, SnapshotKept DEF Asked, Rest, IsRegular
    <3> SUFFICES ASSUME pc' \in Handling \cup {"scan"}, ~ IsRegular
                 PROVE  Asked \subseteq Active'
      BY <3>1
    <3>2. CASE EnterState
      <4>1. PICK i \in single.todo : EntersTarget(i)
        BY <1>0, <3>2, EnterStateEffect
      <4>2. Active \subseteq Active' /\ pc \in Handling
        BY <3>2, <4>1 DEF EntersTarget, EnterState, Handling
      <4> QED BY <4>2 DEF ChainInv
    <3>3. ~ LeaveState /\ ~ RollbackState
      BY <1>0 DEF LeaveState, RollbackState, EngineInv, ChosenInv, Exiting
    <3>4. ~ EnterInitialState /\ ~ ReenterState
      BY <1>0 DEF EnterInitialState, ReenterState, ParentsInv, Handling, Exiting, Entering
    <3>5. CASE ~ EnterState
      <4>1. mActiveStates' = mActiveStates
        BY <3>3, <3>4, <3>5, ActiveStatesKept
      <4>2. pc \in Handling \cup {"scan"}
        BY <2>3, HandlingBefore
      <4> QED BY <4>1, <4>2 DEF ChainInv, Active
    <3> QED BY <3>2, <3>5
  <2> QED BY <2>1, <2>2, <2>3
<1>4. pc' \in Handling => ~ Several'
  <2>1. CASE BeginTransition
    BY <1>0, <2>1, OneAtMost
  <2>2. CASE ExitingStep \/ EnteringStep
    <3>1. pc \in Handling /\ single'.matching = single.matching
      BY <1>0, <2>2, ExitingFrame, EnteringFrame DEF Handling
    <3> QED BY <3>1 DEF ChainInv, Several
  <2>3. CASE ~ BeginTransition /\ ~ ExitingStep /\ ~ EnteringStep
    BY <2>3, OtherSteps DEF ChainInv, Several
  <2> QED BY <2>1, <2>2, <2>3
<1> QED BY <1>1, <1>2, <1>3, <1>4 DEF ChainInv

-----------------------------------------------------------------------------
(* What DONE_OK says to the client that waits *)

\* No two events of the list answer the same client.
OwnersDiffer(list) ==
    \A i, j \in DOMAIN list :
        list[i].waiter = list[j].waiter => i = j \/ list[i].waiter = NoClient

Owner == dispatch.event.waiter

\* A follow-up of the event in hand is in the queue.
LeftOver == Owner # NoClient /\ OwedIn(mPendingEvents, Owner)

\* None of the states still to be asked can add to what was done for the event:
\* those that are active are around the one that has just been entered.
NothingToAdd ==
    single.todo = {} /\ Rest(dispatch.it - 1) \cap Active \subseteq Ancestors[single.from]

OwnersInv ==
    /\ OwnersDiffer(mPendingEvents)
    /\ \A c \in Clients :
          transitionStatus[c] = "DONE_OK" => Owner # c /\ ~ OwedIn(mPendingEvents, c)

\* A follow-up event is pushed in the last step made for an event, and from then
\* on the result of the event is PENDING.
ResultInv ==
    /\ LeftOver => \/ pc = "scan" /\ dispatch.res = "PENDING"
                   \/ pc \in {"enter", "end"} /\ single.res = "PENDING"
    /\ pc \in Handling => dispatch.res # "PENDING"
    /\ pc \in Exiting \cup {"exit", "entered"} => single.res # "PENDING"
    /\ pc = "entered" => NothingToAdd
    /\ pc \in {"enter", "end"} /\ single.res = "PENDING" => NothingToAdd
    /\ pc = "scan" /\ dispatch.res = "PENDING" =>
          \A s \in Rest(dispatch.it) \cap Active : \E t \in dispatch.accepted : s \in Ancestors[t]

SyncInv == OwnersInv /\ ResultInv

LEMMA OwnersPushed ==
    ASSUME NEW S, NEW list \in Seq(S), NEW e \in S, OwnersDiffer(list),
           e.waiter = NoClient \/ ~ OwedIn(list, e.waiter)
    PROVE  /\ OwnersDiffer(<<e>> \o list)
           /\ \A w : OwedIn(<<e>> \o list, w) => w = e.waiter \/ OwedIn(list, w)
<1> DEFINE longer == <<e>> \o list
<1>1. /\ DOMAIN longer = 1 .. Len(list) + 1 /\ longer[1] = e
      /\ \A i \in 2 .. Len(list) + 1 : i - 1 \in DOMAIN list /\ longer[i] = list[i - 1]
      /\ Len(list) \in Nat
  OBVIOUS
<1> HIDE DEF longer
<1>2. \A i \in DOMAIN longer : i = 1 \/ (i \in 2 .. Len(list) + 1 /\ i - 1 \in DOMAIN list)
  BY <1>1
<1>3. ASSUME NEW w, OwedIn(longer, w) PROVE w = e.waiter \/ OwedIn(list, w)
  BY <1>1, <1>2, <1>3 DEF OwedIn
<1>4. ASSUME NEW i \in DOMAIN longer, NEW j \in DOMAIN longer,
             longer[i].waiter = longer[j].waiter, i # j
      PROVE  longer[i].waiter = NoClient
  <2>1. CASE i = 1 \/ j = 1
    BY <1>1, <1>2, <1>4, <2>1 DEF OwedIn
  <2>2. CASE i # 1 /\ j # 1
    <3>1. i - 1 \in DOMAIN list /\ j - 1 \in DOMAIN list /\ i - 1 # j - 1
      BY <1>1, <1>4, <2>2
    <3>2. longer[i] = list[i - 1] /\ longer[j] = list[j - 1]
      BY <1>1, <1>2, <2>2
    <3> QED BY <1>4, <3>1, <3>2 DEF OwnersDiffer
  <2> QED BY <2>1, <2>2
<1> QED BY <1>3, <1>4 DEF longer, OwnersDiffer

LEMMA OwnersAppended ==
    ASSUME NEW S, NEW list \in Seq(S), NEW more \in Seq(S), OwnersDiffer(list),
           \A i \in DOMAIN more : more[i].waiter = NoClient
    PROVE  /\ OwnersDiffer(list \o more)
           /\ \A w : w # NoClient /\ OwedIn(list \o more, w) => OwedIn(list, w)
<1> DEFINE longer == list \o more
<1>1. \A i \in DOMAIN longer :
          \/ i \in DOMAIN list /\ longer[i] = list[i]
          \/ i - Len(list) \in DOMAIN more /\ longer[i] = more[i - Len(list)]
  OBVIOUS
<1> HIDE DEF longer
<1>2. \A i \in DOMAIN longer :
          (i \in DOMAIN list /\ longer[i] = list[i]) \/ longer[i].waiter = NoClient
  BY <1>1
<1>3. OwnersDiffer(longer)
  BY <1>2 DEF OwnersDiffer
<1>4. \A w : w # NoClient /\ OwedIn(longer, w) => OwedIn(list, w)
  BY <1>2 DEF OwedIn
<1> QED BY <1>3, <1>4 DEF longer

LEMMA OwnersPosted ==
    ASSUME NEW S, NEW list \in Seq(S), NEW e \in S, OwnersDiffer(list),
           e.waiter = NoClient \/ ~ OwedIn(list, e.waiter)
    PROVE  /\ OwnersDiffer(Append(list, e))
           /\ \A w : OwedIn(Append(list, e), w) => w = e.waiter \/ OwedIn(list, w)
<1> DEFINE longer == Append(list, e)
<1>1. \A i \in DOMAIN longer :
          (i \in DOMAIN list /\ longer[i] = list[i]) \/ (i = Len(list) + 1 /\ longer[i] = e)
  OBVIOUS
<1> HIDE DEF longer
<1>2. OwnersDiffer(longer)
  BY <1>1 DEF OwnersDiffer, OwedIn
<1>3. \A w : OwedIn(longer, w) => w = e.waiter \/ OwedIn(list, w)
  BY <1>1 DEF OwedIn
<1> QED BY <1>2, <1>3 DEF longer

LEMMA OwnersTail ==
    ASSUME NEW S, NEW list \in Seq(S), list # <<>>, OwnersDiffer(list)
    PROVE  /\ OwnersDiffer(Tail(list))
           /\ \A w : OwedIn(Tail(list), w) => OwedIn(list, w)
           /\ Head(list).waiter = NoClient \/ ~ OwedIn(Tail(list), Head(list).waiter)
           /\ OwedIn(list, Head(list).waiter)
<1> DEFINE rest == Tail(list)
<1>1. /\ \A i \in DOMAIN rest : i \in Nat \ {0} /\ i + 1 \in DOMAIN list /\ rest[i] = list[i + 1]
      /\ 1 \in DOMAIN list /\ Head(list) = list[1]
  OBVIOUS
<1> HIDE DEF rest
<1>2. OwnersDiffer(rest)
  <2> SUFFICES ASSUME NEW i \in DOMAIN rest, NEW j \in DOMAIN rest,
                      rest[i].waiter = rest[j].waiter, i # j
               PROVE  rest[i].waiter = NoClient
    BY DEF OwnersDiffer
  <2>1. i + 1 \in DOMAIN list /\ j + 1 \in DOMAIN list /\ i + 1 # j + 1
    BY <1>1
  <2> QED BY <1>1, <2>1 DEF OwnersDiffer
<1>3. \A w : OwedIn(rest, w) => OwedIn(list, w)
  BY <1>1 DEF OwedIn
<1>4. list[1].waiter = NoClient \/ ~ OwedIn(rest, list[1].waiter)
  <2> SUFFICES ASSUME NEW i \in DOMAIN rest, rest[i].waiter = list[1].waiter
               PROVE  list[1].waiter = NoClient
    BY DEF OwedIn
  <2>1. i + 1 \in DOMAIN list /\ i + 1 # 1
    BY <1>1
  <2> QED BY <1>1, <2>1 DEF OwnersDiffer
<1> QED BY <1>1, <1>2, <1>3, <1>4 DEF rest, OwedIn

\* Steps that add nothing a client waits for.
LEMMA UnownedAdded ==
    ASSUME TypeOK, OwnersInv, AppendsUnowned, dispatch'.event = dispatch.event,
           transitionStatus' = transitionStatus
    PROVE  OwnersInv' /\ (LeftOver' => LeftOver)
<1>1. PICK more \in Seq(PendingEventInfo) :
          /\ mPendingEvents' = mPendingEvents \o more
          /\ \A i \in DOMAIN more : more[i].waiter = NoClient
  BY DEF AppendsUnowned
<1>2. /\ OwnersDiffer(mPendingEvents')
      /\ \A w : w # NoClient /\ OwedIn(mPendingEvents', w) => OwedIn(mPendingEvents, w)
  BY <1>1, Frames, OwnersAppended DEF OwnersInv
<1>3. Owner' = Owner
  BY DEF Owner
<1>4. \A c \in Clients : c # NoClient
  BY ClientsAssumption
<1> QED BY <1>2, <1>3, <1>4 DEF OwnersInv, LeftOver

\* When a state has been entered, no other state that is active and still to be
\* asked lies beside it or below it.
LEMMA NothingToAddEntering ==
    ASSUME Serial, LegalInv, ChainInv, EnterState
    PROVE  NothingToAdd'
<1>0. /\ TypeOK /\ EngineInv /\ ParentsInv /\ LateralInv /\ Outward /\ Lateral
      /\ pc = "enter" /\ pc \in Handling
  BY DEF LegalInv, EngineInv, Serial, Lateral, EnterState, Handling
<1>1. PICK i \in single.todo : EntersTarget(i)
  BY <1>0, EnterStateEffect
<1> DEFINE to == Matched(i).to
<1>2. /\ i \in single.matching /\ to \in States
      /\ Active' = (IF IsRegular THEN Active \ {single.from} ELSE Active) \cup {to}
      /\ ~ IsRegular => Parent[to] = single.from
      /\ single'.todo = single.todo \ {i} /\ single'.from = single.from
  BY <1>0, <1>1, Frames DEF EntersTarget, SingleLocals
<1> HIDE DEF to
<1>3. dispatch' = dispatch /\ single.todo \subseteq single.matching
  BY <1>0 DEF EnterState, EngineInv, ChosenInv
<1>4. single'.todo = {}
  BY <1>0, <1>1, <1>2, <1>3 DEF ChainInv, Several
<1>5. /\ dispatch.it \in DOMAIN dispatch.snapshot /\ dispatch.snapshot \in Seq(States)
      /\ single.from = dispatch.snapshot[dispatch.it] /\ single.from \in States
  BY <1>0, Frames DEF DispatchLocals, TypeOK, LegalInv, AskedInv
<1>6. ASSUME NEW t \in Rest(dispatch.it - 1)
      PROVE  t # single.from /\ t \in Asked /\ t \in States
  <2>1. PICK k \in 1 .. dispatch.it - 1 : t = dispatch.snapshot[k]
    BY DEF Rest
  <2>2. k \in DOMAIN dispatch.snapshot /\ k # dispatch.it /\ k \in 1 .. Len(dispatch.snapshot)
    BY <1>5, <2>1
  <2> QED BY <1>5, <2>1, <2>2 DEF ChainInv, NoDuplicate, Asked, Rest
<1>7. single.from \in Asked
  BY <1>5 DEF Asked, Rest
<1> SUFFICES ASSUME NEW t \in Rest(dispatch.it - 1), t \in Active'
             PROVE  t \in Ancestors[single.from]
  BY <1>2, <1>3, <1>4 DEF NothingToAdd, Rest
<1>8. Chain(Kept) /\ Active \subseteq Kept
  BY <1>0, ActiveIsKept DEF ChainInv
<1>9. CASE IsRegular
  <2>1. CASE t = to
    <3>1. Parent[to] = Parent[single.from]
      <4>1. Matched(i).from = single.from /\ i \in DOMAIN Transitions
        BY <1>0, <1>2, <1>9 DEF EngineInv, ChosenInv, TypeOK, Places, IsRegular
      <4>2. Matched(i).from = Transitions[i].from /\ Matched(i).to = Transitions[i].to
        BY <1>9 DEF Matched, TransitionOf, IsRegular
      <4> QED BY <1>0, <4>1, <4>2 DEF to, Lateral, Siblings
    <3>2. Ancestors[to] \subseteq Ancestors[single.from]
      BY <1>2, <1>5, <3>1, SameParentSameAncestors
    <3>3. t \in Ancestors[single.from] \/ single.from \in Ancestors[t]
      BY <1>6, <1>7 DEF ChainInv, Chain
    <3> QED BY <1>0, <1>2, <1>5, <2>1, <3>2, <3>3 DEF Outward, Acyclic
  <2>2. CASE t # to
    <3>1. t \in Active
      BY <1>2, <1>9, <2>2
    <3>2. single.from \in Kept
      BY <1>0, <1>1, <1>9 DEF Kept, Exiting
    <3>3. t \in Ancestors[single.from] \/ single.from \in Ancestors[t]
      BY <1>6, <1>8, <3>1, <3>2 DEF Chain
    <3>4. Active \cap Below(single.from) \subseteq {single.from}
      BY <1>0, <1>1, <1>9 DEF ParentsInv
    <3> QED BY <1>6, <3>1, <3>3, <3>4 DEF Below, IsSubstateOf
  <2> QED BY <2>1, <2>2
<1>10. CASE ~ IsRegular
  <2>1. ~ HasActiveChild(single.from)
    BY <1>0, <1>1, <1>10 DEF LateralInv, ChainInv
  <2>2. Asked \subseteq Active
    BY <1>0, <1>10 DEF ChainInv
  <2>3. t # to
    BY <1>2, <1>6, <1>10, <2>1, <2>2 DEF HasActiveChild
  <2>4. t \in Active /\ single.from \in Active
    BY <1>0, <1>2, <1>10, <2>3 DEF ParentsInv
  <2>5. t \in Ancestors[single.from] \/ single.from \in Ancestors[t]
    BY <1>6, <1>8, <2>4 DEF Chain
  <2>6. \A u \in Active : Parent[u] \in Active \cup {NoState}
    BY <1>0 DEF ParentsInv, ParentsActive
  <2>7. Active \in SUBSET States
    BY <1>0, ActiveIsKept
  <2>8. single.from \notin Ancestors[t]
    <3> SUFFICES ASSUME single.from \in Ancestors[t] PROVE FALSE
      OBVIOUS
    <3>1. \E u \in Active : Parent[u] = single.from
      BY <2>4, <2>6, <2>7, ChildHeld
    <3> QED BY <2>1, <3>1 DEF HasActiveChild
  <2> QED BY <2>5, <2>8
<1> QED BY <1>9, <1>10

LEMMA SyncEntering ==
    ASSUME Serial, LegalInv, ChainInv, SyncInv, EnteringStep
    PROVE  SyncInv'
<1>0. /\ TypeOK /\ EngineInv /\ ParentsInv /\ LateralInv /\ Outward /\ PlainInv
      /\ OwnersInv /\ ResultInv
  BY DEF LegalInv, EngineInv, Serial, Lateral, SyncInv
<1>1. dispatch' = dispatch /\ pc \in Handling /\ pc' \in Handling
  BY <1>0, EnteringFrame DEF Handling
<1>2. transitionStatus' = transitionStatus
  BY DEF EnteringStep, EnterState, RefuseEntry, ReenterState, ReenterDone, EntriesDone,
     EnteredFinalState, EnteredEmptyHistory, EnteredHistory, RestoreState,
     RestoreLastGroup, RestoreParent, EnteredState, clientVars
<1>3. Owner' = Owner /\ Owner \in Clients \cup {NoClient}
  BY <1>0, <1>1, Frames DEF Owner, PendingEventInfo
<1>4. CASE EnterState
  <2>1. NothingToAdd'
    BY <1>4, NothingToAddEntering
  <2>2. OwnersInv' /\ (LeftOver' => LeftOver)
    BY <1>0, <1>1, <1>2, <1>4, AppendingSteps, UnownedAdded
  <2>3. pc = "enter" /\ pc' = "entered" /\ single'.res = single.res /\ single.todo # {}
    BY <1>0, <1>4, Frames DEF EnterState, SingleLocals
  <2>4. single.res # "PENDING"
    BY <1>0, <2>3 DEF ResultInv, NothingToAdd
  <2>5. ~ LeftOver
    BY <1>0, <2>3, <2>4 DEF ResultInv
  <2>6. ResultInv'
    BY <1>0, <1>1, <2>1, <2>2, <2>3, <2>4, <2>5 DEF ResultInv
  <2> QED BY <2>2, <2>6 DEF SyncInv
<1>5. CASE EntriesDone
  <2>1. OwnersInv' /\ (LeftOver' => LeftOver)
    BY <1>0, <1>1, <1>2, <1>5, AppendingSteps, UnownedAdded
  <2>2. /\ pc = "enter" /\ pc' = "end" /\ single' = single /\ mActiveStates' = mActiveStates
    BY <1>5 DEF EntriesDone
  <2>3. NothingToAdd' <=> NothingToAdd
    BY <1>1, <2>2 DEF NothingToAdd, Rest, Active
  <2>4. ResultInv'
    BY <1>0, <1>1, <2>1, <2>2, <2>3 DEF ResultInv, Exiting
  <2> QED BY <2>1, <2>4 DEF SyncInv
<1>6. CASE EnteredFinalState \/ EnteredState
  <2>1. /\ pc = "entered" /\ pc' = "enter" /\ mActiveStates' = mActiveStates
        /\ single'.todo = single.todo /\ single'.from = single.from
    BY <1>0, <1>6, Frames DEF EnteredFinalState, EnteredState, SingleLocals
  <2>2. NothingToAdd' /\ ~ LeftOver
    <3>1. NothingToAdd' <=> NothingToAdd
      BY <1>1, <2>1 DEF NothingToAdd, Rest, Active
    <3> QED BY <1>0, <2>1, <3>1 DEF ResultInv
  <2>3. \/ mPendingEvents' = mPendingEvents
        \/ /\ \E event \in PendingEventInfo : PushFront(event) /\ event.waiter = NoClient
        \/ /\ \E event \in PendingEventInfo : PushFront(event) /\ event.waiter = Owner
           /\ single'.res = "PENDING"
    <3>1. CASE EnteredFinalState
      <4> DEFINE id == IF FinalEvent[Entered] # NoEvent
                       THEN FinalEvent[Entered] ELSE dispatch.event.id
      <4>1. id \in Events \cup {NoEvent}
        <5>1. dispatch.event.id \in Events \cup {NoEvent}
          BY <1>0, Frames DEF PendingEventInfo
        <5> QED BY <3>1, <5>1, FinalAssumption DEF EnteredFinalState, FinalStates
      <4>2. PushFront(Regular(id, NoClient)) \/ UNCHANGED mPendingEvents
        BY <3>1 DEF EnteredFinalState
      <4>3. /\ Regular(id, NoClient) \in PendingEventInfo
            /\ Regular(id, NoClient).waiter = NoClient
        BY <4>1, RegularEvent DEF Regular
      <4> QED BY <4>2, <4>3
    <3>2. CASE EnteredState
      <4>1. ~ dispatch.event.ignoreEntryPoints
        BY <1>0 DEF PlainInv, Plain
      <4>2. /\ EntryPointOf(dispatch.event) \in PendingEventInfo
            /\ EntryPointOf(dispatch.event).waiter = Owner
        BY <1>0, Frames, EntryPointEvent DEF EntryPointOf, Owner
      <4>3. \/ mPendingEvents' = mPendingEvents
            \/ PushFront(EntryPointOf(dispatch.event)) /\ single'.res = "PENDING"
        BY <1>0, <3>2, <4>1, Frames DEF EnteredState, SingleLocals
      <4> QED BY <4>2, <4>3
    <3> QED BY <1>6, <3>1, <3>2
  <2>4. CASE mPendingEvents' = mPendingEvents
    <3>1. OwnersInv' /\ (LeftOver' => LeftOver)
      BY <1>0, <1>1, <1>2, <2>4, NothingAppended, UnownedAdded
    <3>2. ResultInv'
      BY <1>0, <1>1, <2>1, <2>2, <3>1 DEF ResultInv, Exiting
    <3> QED BY <3>1, <3>2 DEF SyncInv
  <2>5. ASSUME NEW event \in PendingEventInfo, PushFront(event),
               \/ event.waiter = NoClient
               \/ event.waiter = Owner /\ single'.res = "PENDING"
        PROVE  SyncInv'
    <3>1. event.waiter = NoClient \/ ~ OwedIn(mPendingEvents, event.waiter)
      BY <2>2, <2>5 DEF LeftOver
    <3>2. /\ OwnersDiffer(mPendingEvents')
          /\ \A w : OwedIn(mPendingEvents', w) => w = event.waiter \/ OwedIn(mPendingEvents, w)
      BY <1>0, <2>5, <3>1, Frames, OwnersPushed DEF PushFront, OwnersInv
    <3>3. OwnersInv'
      <4>1. \A c \in Clients : c # NoClient
        BY ClientsAssumption
      <4> QED BY <1>0, <1>2, <1>3, <2>5, <3>2, <4>1 DEF OwnersInv
    <3>4. LeftOver' => single'.res = "PENDING"
      BY <1>3, <2>2, <2>5, <3>2 DEF LeftOver
    <3>5. ResultInv'
      BY <1>0, <1>1, <2>1, <2>2, <3>4 DEF ResultInv, Exiting
    <3> QED BY <3>3, <3>5 DEF SyncInv
  <2> QED BY <2>3, <2>4, <2>5
<1> QED BY <1>0, <1>4, <1>5, <1>6, PlainEntering

LEMMA SyncExiting ==
    ASSUME Serial, LegalInv, SyncInv, ExitingStep
    PROVE  SyncInv'
<1>0. TypeOK /\ OwnersInv /\ ResultInv
  BY DEF LegalInv, EngineInv, SyncInv
<1>1. /\ dispatch' = dispatch /\ pc \in Exiting \cup {"exit"} /\ pc \in Handling
      /\ pc' \in Exiting \cup {"exit", "enter", "end"}
  BY <1>0, ExitingFrame, ZenonT(40) DEF ExitingStep, NextExit, ExitsDone, ExitState, RefuseExit,
     NoMoreToExit, LeaveState, RollbackState, ExitDone, Exiting, Handling
<1>2. transitionStatus' = transitionStatus
  BY DEF ExitingStep, NextExit, ExitsDone, ExitState, RefuseExit, NoMoreToExit,
     LeaveState, RollbackState, ExitDone, clientVars
<1>3. single'.res = single.res \/ single'.res = "CANCELED"
  BY <1>0, Frames DEF ExitingStep, NextExit, ExitsDone, ExitState, RefuseExit,
     NoMoreToExit, LeaveState, RollbackState, ExitDone, SingleLocals
<1>4. OwnersInv' /\ (LeftOver' => LeftOver)
  BY <1>0, <1>1, <1>2, AppendingSteps, UnownedAdded DEF ExitingStep
<1>5. ~ LeftOver /\ single.res # "PENDING" /\ dispatch.res # "PENDING"
  BY <1>0, <1>1 DEF ResultInv, Exiting
<1>6. ResultInv'
  BY <1>1, <1>3, <1>4, <1>5 DEF ResultInv, Exiting
<1> QED BY <1>4, <1>6 DEF SyncInv

\* A state begins to handle the event only when no other has left its follow-up.
LEMMA SyncBegin ==
    ASSUME LegalInv, SyncInv, BeginTransition
    PROVE  SyncInv'
<1>0. TypeOK /\ OwnersInv /\ ResultInv
  BY DEF LegalInv, EngineInv, SyncInv
<1>1. /\ dispatch' = dispatch /\ transitionStatus' = transitionStatus
      /\ pc = "scan" /\ pc' \in {"exit", "end"}
      /\ single'.res \in {"DONE_OK", "DONE_FAILED"}
  BY DEF BeginTransition, clientVars, NoTransition
<1>2. OwnersInv' /\ (LeftOver' => LeftOver)
  BY <1>0, <1>1, AppendingSteps, UnownedAdded
<1>3. dispatch.res # "PENDING"
  <2> SUFFICES ASSUME dispatch.res = "PENDING" PROVE FALSE
    OBVIOUS
  <2>1. Scanned \in Rest(dispatch.it) \cap Active
    BY <1>0, Frames DEF BeginTransition, PassedOver, Scanned, Rest
  <2>2. \E t \in dispatch.accepted : Scanned \in Ancestors[t]
    BY <1>0, <1>1, <2>1 DEF ResultInv
  <2> QED BY <2>2 DEF BeginTransition, PassedOver, IsSubstateOf
<1>4. ~ LeftOver
  BY <1>0, <1>1, <1>3 DEF ResultInv
<1>5. ResultInv'
  BY <1>1, <1>2, <1>3, <1>4 DEF ResultInv, Exiting
<1> QED BY <1>2, <1>5 DEF SyncInv

LEMMA SyncEnd ==
    ASSUME LegalInv, SyncInv, EndTransition
    PROVE  SyncInv'
<1>0. TypeOK /\ OwnersInv /\ ResultInv
  BY DEF LegalInv, EngineInv, SyncInv
<1>1. /\ pc = "end" /\ pc \in Handling /\ pc' = "scan"
      /\ transitionStatus' = transitionStatus /\ mActiveStates' = mActiveStates
      /\ dispatch'.event = dispatch.event /\ dispatch'.snapshot = dispatch.snapshot
      /\ dispatch'.it = dispatch.it - 1
      /\ dispatch'.res = MergeResult(dispatch.res, single.res)
      /\ single.res = "PENDING" => dispatch'.accepted = dispatch.accepted \cup {single.from}
  BY <1>0, Frames DEF EndTransition, DispatchLocals, Handling, Accepted, clientVars
<1>2. OwnersInv' /\ (LeftOver' => LeftOver)
  BY <1>0, <1>1, AppendingSteps, UnownedAdded
<1>3. dispatch'.res = "PENDING" <=> single.res = "PENDING"
  BY <1>0, <1>1 DEF ResultInv, MergeResult, Accepted
<1>4. LeftOver => single.res = "PENDING"
  BY <1>0, <1>1 DEF ResultInv
<1>5. ASSUME single.res = "PENDING", NEW s \in Rest(dispatch.it)' \cap Active'
      PROVE  \E t \in dispatch'.accepted : s \in Ancestors[t]
  <2>1. s \in Rest(dispatch.it - 1) \cap Active
    BY <1>1, <1>5 DEF Rest, Active
  <2>2. s \in Ancestors[single.from]
    BY <1>0, <1>1, <1>5, <2>1 DEF ResultInv, NothingToAdd
  <2> QED BY <1>1, <1>5, <2>2
<1>6. ResultInv'
  BY <1>1, <1>2, <1>3, <1>4, <1>5 DEF ResultInv, Handling, Exiting, Entering
<1> QED BY <1>2, <1>6 DEF SyncInv

LEMMA SyncSkip ==
    ASSUME LegalInv, SyncInv, SkipState
    PROVE  SyncInv'
<1>0. TypeOK /\ OwnersInv /\ ResultInv
  BY DEF LegalInv, EngineInv, SyncInv
<1>1. /\ pc = "scan" /\ pc' = "scan" /\ dispatch.it \in Nat
      /\ transitionStatus' = transitionStatus /\ mActiveStates' = mActiveStates
      /\ dispatch'.event = dispatch.event /\ dispatch'.snapshot = dispatch.snapshot
      /\ dispatch'.it = dispatch.it - 1 /\ dispatch'.res = dispatch.res
      /\ dispatch'.accepted = dispatch.accepted
  BY <1>0, Frames DEF SkipState, DispatchLocals, clientVars
<1>2. OwnersInv' /\ (LeftOver' => LeftOver)
  BY <1>0, <1>1, AppendingSteps, UnownedAdded
<1>3. Rest(dispatch.it)' \subseteq Rest(dispatch.it) /\ Active' = Active
  BY <1>1 DEF Rest, Active
<1>4. ResultInv'
  BY <1>0, <1>1, <1>2, <1>3 DEF ResultInv, Handling, Exiting, Entering
<1> QED BY <1>2, <1>4 DEF SyncInv

\* The event taken from the queue brings its owner along.
LEMMA SyncPop ==
    ASSUME LegalInv, SyncInv, PopEvent
    PROVE  SyncInv'
<1>0. TypeOK /\ OwnersInv /\ ResultInv
  BY DEF LegalInv, EngineInv, SyncInv
<1>1. /\ pc' = "scan" /\ transitionStatus' = transitionStatus
      /\ dispatch'.res = "DONE_FAILED" /\ Owner' = Head(mPendingEvents).waiter
      /\ mPendingEvents # <<>> /\ mPendingEvents' = Tail(mPendingEvents)
  BY DEF PopEvent, clientVars, Owner
<1>2. /\ OwnersDiffer(mPendingEvents')
      /\ \A w : OwedIn(mPendingEvents', w) => OwedIn(mPendingEvents, w)
      /\ Owner' = NoClient \/ ~ OwedIn(mPendingEvents', Owner')
      /\ OwedIn(mPendingEvents, Owner')
  BY <1>0, <1>1, Frames, OwnersTail DEF OwnersInv
<1>3. OwnersInv' /\ ~ LeftOver'
  BY <1>0, <1>1, <1>2 DEF OwnersInv, LeftOver
<1>4. ResultInv'
  BY <1>1, <1>3 DEF ResultInv, Handling, Exiting, Entering
<1> QED BY <1>3, <1>4 DEF SyncInv

\* The answer is DONE_OK only when nothing more is to come.
LEMMA SyncFinish ==
    ASSUME LegalInv, SyncInv, FinishEvent
    PROVE  SyncInv'
<1>0. TypeOK /\ OwnersInv /\ ResultInv
  BY DEF LegalInv, EngineInv, SyncInv
<1>1. /\ pc = "scan" /\ pc' = "clear" /\ mPendingEvents' = mPendingEvents
      /\ dispatch'.res = "DONE_FAILED" /\ Owner' = NoClient
      /\ \A c \in Clients : transitionStatus'[c] = IF c = Owner THEN dispatch.res
                                                   ELSE transitionStatus[c]
  BY DEF FinishEvent, NotDispatching, Regular, Owner, queueVars
<1>2. \A c \in Clients : c # NoClient
  BY ClientsAssumption
<1>3. ASSUME NEW c \in Clients, transitionStatus'[c] = "DONE_OK"
      PROVE  ~ OwedIn(mPendingEvents, c)
  <2>1. CASE c = Owner
    BY <1>0, <1>1, <1>2, <1>3, <2>1 DEF ResultInv, LeftOver
  <2>2. CASE c # Owner
    BY <1>0, <1>1, <1>3, <2>2 DEF OwnersInv
  <2> QED BY <2>1, <2>2
<1>4. OwnersInv' /\ ~ LeftOver'
  BY <1>0, <1>1, <1>2, <1>3 DEF OwnersInv, LeftOver
<1>5. ResultInv'
  BY <1>1, <1>4 DEF ResultInv, Handling, Exiting, Entering
<1> QED BY <1>4, <1>5 DEF SyncInv

\* Steps that only change what is in the queue, for nobody that is answered yet.
LEMMA ResultElsewhere ==
    ASSUME SyncInv, UNCHANGED <<mActiveStates, pc, dispatch, single>>, LeftOver' => LeftOver
    PROVE  ResultInv'
<1>1. NothingToAdd' <=> NothingToAdd
  BY DEF NothingToAdd, Rest, Active
<1>2. Rest(dispatch.it)' = Rest(dispatch.it) /\ Active' = Active
  BY DEF Rest, Active
<1> QED BY <1>1, <1>2 DEF ResultInv, SyncInv

LEMMA SyncPost ==
    ASSUME LegalInv, SyncInv, NEW c \in Clients, NEW e \in Posted,
           NEW clearQueue \in BOOLEAN, NEW sync \in BOOLEAN,
           sync => StatusIsFree(c), Post(c, e, clearQueue, sync)
    PROVE  SyncInv'
<1> DEFINE w     == IF sync THEN c ELSE NoClient
           event == Regular(e, w)
           kept  == IF clearQueue THEN <<>> ELSE mPendingEvents
<1>0. TypeOK /\ OwnersInv /\ ResultInv /\ mPendingEvents \in Seq(PendingEventInfo)
  BY Frames DEF LegalInv, EngineInv, SyncInv
<1>1. /\ event \in PendingEventInfo /\ event.waiter = w
      /\ w = NoClient \/ (w = c /\ sync)
  BY ClientsAssumption, RegularEvent DEF Regular
<1>2. /\ kept \in Seq(PendingEventInfo) /\ OwnersDiffer(kept)
      /\ \A u : OwedIn(kept, u) => OwedIn(mPendingEvents, u)
  <2>1. CASE clearQueue
    <3>1. kept = <<>> /\ <<>> \in Seq(PendingEventInfo) /\ DOMAIN <<>> = {}
      BY <2>1
    <3> QED BY <3>1 DEF OwnersDiffer, OwedIn
  <2>2. CASE ~ clearQueue
    BY <1>0, <2>2 DEF OwnersInv
  <2> QED BY <2>1, <2>2
<1>3. w = NoClient \/ (~ OwedIn(mPendingEvents, w) /\ Owner # w)
  BY <1>1 DEF StatusIsFree, OwedIn, Owner
<1>4. mPendingEvents' = Append(kept, event)
  BY DEF Post
<1>5. /\ UNCHANGED <<mActiveStates, pc, dispatch, single>>
      /\ \A d \in Clients : transitionStatus'[d] = "DONE_OK" =>
            d # w /\ transitionStatus[d] = "DONE_OK"
  <2>1. UNCHANGED <<mActiveStates, pc, dispatch, single>>
    BY DEF Post
  <2>2. ASSUME NEW d \in Clients, transitionStatus'[d] = "DONE_OK"
        PROVE  ~ (sync /\ d = c) /\ transitionStatus[d] = "DONE_OK"
    BY <2>2 DEF Post
  <2> QED BY <2>1, <2>2, ClientsAssumption
<1> HIDE DEF w, event, kept
<1>6. /\ OwnersDiffer(mPendingEvents')
      /\ \A u : OwedIn(mPendingEvents', u) => u = w \/ OwedIn(mPendingEvents, u)
  BY <1>0, <1>1, <1>2, <1>3, <1>4, OwnersPosted
<1>7. Owner' = Owner
  BY <1>5 DEF Owner
<1>8. OwnersInv'
  BY <1>0, <1>5, <1>6, <1>7 DEF OwnersInv
<1>9. LeftOver' => LeftOver
  BY <1>3, <1>6, <1>7 DEF LeftOver
<1> QED BY <1>5, <1>8, <1>9, ResultElsewhere DEF SyncInv

LEMMA SyncClients ==
    ASSUME LegalInv, SyncInv, NEW c \in Clients, ClientStep(c)
    PROVE  SyncInv'
<1>0. TypeOK /\ OwnersInv
  BY DEF LegalInv, EngineInv, SyncInv
<1>1. CASE Emit(c) \/ WaitStep(c)
  <2>1. /\ UNCHANGED <<mActiveStates, pc, dispatch, single, mPendingEvents>>
        /\ transitionStatus' = transitionStatus
    BY <1>1, WaitStepFrame DEF Emit, queueVars
  <2>2. OwnersInv' /\ (LeftOver' => LeftOver)
    BY <1>0, <2>1, NothingAppended, UnownedAdded
  <2> QED BY <2>1, <2>2, ResultElsewhere DEF SyncInv
<1>2. ASSUME NEW e \in Posted, NEW clearQueue \in BOOLEAN, NEW sync \in BOOLEAN,
             sync => StatusIsFree(c), Post(c, e, clearQueue, sync)
      PROVE  SyncInv'
  BY <1>2, SyncPost
<1> QED BY <1>1, <1>2 DEF ClientStep

\* Between events: nobody's event is in hand.
LEMMA SyncBetween ==
    ASSUME LegalInv, SyncInv,
           EnterInitialState \/ StartEntryPoints \/ DispatchEvents \/ ClearDispatching
    PROVE  SyncInv'
<1>0. TypeOK /\ OwnersInv /\ ResultInv
  BY DEF LegalInv, EngineInv, SyncInv
<1>1. /\ pc \in {"boot", "bootEntry", "idle", "clear"}
      /\ pc' \in {"bootEntry", "idle", "pop", "clear"}
      /\ dispatch' = dispatch /\ transitionStatus' = transitionStatus
  BY DEF EnterInitialState, StartEntryPoints, DispatchEvents, ClearDispatching, clientVars
<1>2. OwnersInv' /\ (LeftOver' => LeftOver)
  <2>1. CASE AppendsUnowned
    BY <1>0, <1>1, <2>1, UnownedAdded
  <2>2. CASE EnterInitialState \/ DispatchEvents \/ ClearDispatching
    BY <1>0, <2>1, <2>2, AppendingSteps
  <2>3. CASE StartEntryPoints
    <3> DEFINE event == EntryPointOf(Regular(NoEvent, NoClient))
    <3>1. event \in PendingEventInfo /\ event.waiter = NoClient
      <4>1. Regular(NoEvent, NoClient) \in PendingEventInfo
        BY RegularEvent
      <4> QED BY <4>1, EntryPointEvent DEF EntryPointOf, Regular
    <3>2. PushFront(event) \/ UNCHANGED mPendingEvents
      BY <2>3 DEF StartEntryPoints
    <3> HIDE DEF event
    <3>3. CASE PushFront(event)
      <4>1. /\ OwnersDiffer(mPendingEvents')
            /\ \A w : OwedIn(mPendingEvents', w) => w = NoClient \/ OwedIn(mPendingEvents, w)
        BY <1>0, <3>1, <3>3, Frames, OwnersPushed DEF PushFront, OwnersInv
      <4>2. Owner' = Owner
        BY <1>1 DEF Owner
      <4>3. \A c \in Clients : c # NoClient
        BY ClientsAssumption
      <4> QED BY <1>0, <1>1, <4>1, <4>2, <4>3 DEF OwnersInv, LeftOver
    <3> QED BY <1>0, <2>1, <3>2, <3>3, NothingAppended
  <2> QED BY <2>2, <2>3
<1>3. ~ LeftOver
  BY <1>0, <1>1 DEF ResultInv
<1>4. ResultInv'
  BY <1>1, <1>2, <1>3 DEF ResultInv, Handling, Exiting, Entering
<1> QED BY <1>2, <1>4 DEF SyncInv

LEMMA SyncInvStep ==
    Serial => (LegalInv /\ ChainInv /\ SyncInv /\ [Next]_vars => SyncInv')
<1> SUFFICES ASSUME Serial, LegalInv, ChainInv, SyncInv, [Next]_vars PROVE SyncInv'
  OBVIOUS
<1>1. CASE EnterInitialState \/ StartEntryPoints \/ DispatchEvents \/ ClearDispatching
  BY <1>1, SyncBetween
<1>2. CASE ExitingStep
  BY <1>2, SyncExiting
<1>3. CASE EnteringStep
  BY <1>3, SyncEntering
<1>4. CASE UNCHANGED vars
  <2>1. /\ UNCHANGED <<mActiveStates, pc, dispatch, single, mPendingEvents>>
        /\ transitionStatus' = transitionStatus
    BY <1>4 DEF vars, queueVars, clientVars
  <2>2. TypeOK /\ OwnersInv
    BY DEF LegalInv, EngineInv, SyncInv
  <2>3. OwnersInv' /\ (LeftOver' => LeftOver)
    BY <2>1, <2>2, NothingAppended, UnownedAdded
  <2> QED BY <2>1, <2>3, ResultElsewhere DEF SyncInv
<1> QED BY <1>1, <1>2, <1>3, <1>4, SyncBegin, SyncEnd, SyncSkip, SyncPop, SyncFinish,
           SyncClients DEF Next, DispatcherStep, ExitingStep, EnteringStep

\* transitionSync answers true only when its transition has come to rest: the
\* initial states of composite states on the way have been entered, and nothing
\* of it waits in the queue. In a structure without parallel states one follow-up
\* event at most is due for an event, and the last transition made for it pushes
\* it: the result stays PENDING until that event, which holds the same lock, is
\* through. Exits may be refused and the queue may be cleared.
THEOREM TrueMeansFinished == Serial => (Spec => []SyncTrueMeansFinished)
<1> SUFFICES ASSUME Serial PROVE Spec => []SyncTrueMeansFinished
  OBVIOUS
<1>1. Lateral
  BY DEF Serial
<1>2. Spec => []LegalInv
  BY <1>1, LegalInvHolds
<1>3. Init => ChainInv /\ SyncInv
  <2> SUFFICES ASSUME Init PROVE ChainInv /\ SyncInv
    OBVIOUS
  <2>1. /\ Active = {} /\ Kept = {} /\ Asked = {} /\ dispatch.snapshot = <<>>
        /\ pc = "boot" /\ mPendingEvents = <<>> /\ Owner = NoClient
        /\ \A c \in Clients : transitionStatus[c] # "DONE_OK"
    BY DEF Init, Active, ToSet, Kept, Asked, Rest, NotDispatching, Exiting, Owner, Regular
  <2>2. ChainInv
    BY <2>1 DEF ChainInv, Chain, NoDuplicate, Handling, Exiting, Entering
  <2>3. OwnersInv /\ ~ LeftOver
    BY <2>1 DEF OwnersInv, OwnersDiffer, LeftOver
  <2>4. ResultInv
    BY <2>1, <2>3 DEF ResultInv, Handling, Exiting, Entering
  <2> QED BY <2>2, <2>3, <2>4 DEF SyncInv
<1>4. LegalInv /\ ChainInv /\ SyncInv /\ [Next]_vars => ChainInv' /\ SyncInv'
  BY ChainInvStep, SyncInvStep
<1>5. SyncInv => SyncTrueMeansFinished
  BY DEF SyncInv, OwnersInv, SyncTrueMeansFinished, AnswerDue, Carries, Owner, OwedIn
<1> QED BY <1>2, <1>3, <1>4, <1>5, PTL DEF Spec
=============================================================================
