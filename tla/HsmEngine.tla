------------------------------ MODULE HsmEngine ------------------------------
(***************************************************************************)
(* HierarchicalStateMachine::Impl at run time: the queue of pending events *)
(* that any thread may append to, and the dispatcher's thread that takes   *)
(* one event per emission and carries out its transitions (HsmImpl.cpp).   *)
(*                                                                         *)
(* A step of the dispatcher ends where another thread can see or change    *)
(* something: at every callback of the program, and at every lock and      *)
(* unlock of the event queue.  `pc` names where the dispatcher stands.     *)
(*                                                                         *)
(* The dispatcher is what IHsmEventDispatcher promises: one thread that    *)
(* calls the event handler once for each emission.                         *)
(***************************************************************************)
EXTENDS HsmStructure, SequencesExt

CONSTANTS
    Clients,      \* threads that call transition() and its variants
    NoClient,     \* the owner of an event nobody waits for
    MayClear,     \* clients that pass clearQueue = true
    MaySync,      \* clients that pass sync = true
    MayTimeOut,   \* those of them that pass a timeoutMs
    Posted,       \* bound: the events clients post
    MaxPending,   \* bound: clients post only to a queue shorter than this
    MaxEmitted    \* bound: clients post only while fewer emissions wait

ASSUME ClientsAssumption ==
    /\ NoClient \notin Clients
    /\ MayClear \subseteq Clients
    /\ MaySync \subseteq Clients
    /\ MayTimeOut \subseteq MaySync
    /\ Posted \subseteq Events
    /\ MaxPending \in Nat
    /\ MaxEmitted \in Nat

VARIABLES
    mActiveStates,    \* list of active states, the most recently added last
    mPendingEvents,   \* list of pending events, the next one first
    mHistoryData,     \* previousActiveStates of each history state
    emitted,          \* emitEvent() calls the dispatcher has yet to serve
    pc,               \* where the dispatcher's thread stands
    dispatch,         \* locals of dispatchEvents() and doTransition()
    single,           \* locals of handleSingleTransition() and below
    client,           \* where each client stands in transitionEx()
    transitionStatus  \* what a client that waits will read, per client

queueVars  == <<mPendingEvents, emitted>>
clientVars == <<client, transitionStatus>>
vars == <<mActiveStates, mHistoryData, pc, dispatch, single, queueVars, clientVars>>

-----------------------------------------------------------------------------
Status == {"PENDING", "DONE_OK", "DONE_FAILED", "CANCELED"}

PendingEventInfo ==
    [id : Events \cup {NoEvent},
     transitionType : {"REGULAR", "ENTRYPOINT", "FORCED"},
     forced : Seq(TransitionInfo),      \* forcedTransitionsInfo
     ignoreEntryPoints : BOOLEAN,
     waiter : Clients \cup {NoClient}]  \* who holds the other end of cvLock

Regular(e, c) ==
    [id |-> e, transitionType |-> "REGULAR", forced |-> <<>>,
     ignoreEntryPoints |-> FALSE, waiter |-> c]

\* Mutant: the copy of the event forgets who waits.
EntryPointUnowned(event) ==
    [event EXCEPT !.transitionType = "ENTRYPOINT", !.forced = <<>>, !.waiter = NoClient]

EntryPointOf(event) ==
    [id |-> event.id, transitionType |-> "ENTRYPOINT", forced |-> <<>>,
     ignoreEntryPoints |-> event.ignoreEntryPoints, waiter |-> event.waiter]

ForcedOf(event, transitions, ignore) ==
    [id |-> event.id, transitionType |-> "FORCED", forced |-> transitions,
     ignoreEntryPoints |-> ignore, waiter |-> event.waiter]

NotDispatching ==
    [event |-> Regular(NoEvent, NoClient), snapshot |-> <<>>, it |-> 0,
     accepted |-> {}, res |-> "DONE_FAILED"]

\* Transitions are named by their place in the list they come from: `matching`
\* are those to take, `todo` those still to come, `cur` the one being carried
\* out.  `at` is an iterator; `before` is auxiliary, for the properties.
NoTransition ==
    [from |-> Initial, matching |-> {}, todo |-> {}, cur |-> 0,
     res |-> "DONE_FAILED", exitAllowed |-> TRUE, exited |-> <<>>,
     touched |-> {}, at |-> 0, group |-> <<>>, ignore |-> FALSE, before |-> {}]

\* The list that numbers the transitions of `event`.
Places(event) ==
    CASE event.transitionType = "REGULAR"    -> DOMAIN Transitions
      [] event.transitionType = "ENTRYPOINT" -> DOMAIN EntryPoints
      [] event.transitionType = "FORCED"     -> DOMAIN event.forced

\* The transition of state `s` that `i` names, when it handles `event`.
TransitionOf(s, event, i) ==
    CASE event.transitionType = "REGULAR" ->
           [from |-> Transitions[i].from, to |-> Transitions[i].to,
            internal |-> Transitions[i].internal]
      [] event.transitionType = "ENTRYPOINT" -> ExternalTransition(s, EntryPoints[i].state)
      [] event.transitionType = "FORCED" -> event.forced[i]

\* Where handleSingleTransition runs, and where it carries out one transition.
Exiting  == {"exiting", "leave", "rollback"}
Entering == {"entered", "reenter", "restore", "restoreParent"}
Handling == Exiting \cup Entering \cup {"exit", "enter", "end"}

DispatchLocals ==
    [event : PendingEventInfo, snapshot : Seq(States), it : Nat,
     accepted : SUBSET States, res : Status]

SingleLocals ==
    [from : States, matching : SUBSET Nat, todo : SUBSET Nat, cur : Nat,
     res : Status, exitAllowed : BOOLEAN, exited : Seq(States),
     touched : SUBSET HistoryStates, at : Nat, group : Seq(TransitionInfo),
     ignore : BOOLEAN, before : SUBSET States]

TypeOK ==
    /\ mActiveStates \in Seq(States)
    /\ mPendingEvents \in Seq(PendingEventInfo)
    /\ mHistoryData \in [HistoryStates -> Seq(States)]
    /\ emitted \in Nat
    /\ pc \in Handling \cup {"boot", "bootEntry", "idle", "pop", "scan", "clear"}
    /\ dispatch \in DispatchLocals
    /\ single \in SingleLocals
    /\ client \in [Clients -> {"ready", "emit", "emitSync", "wait", "falling", "asleep"}]
    /\ transitionStatus \in [Clients -> Status]
    \* No iterator points outside of its list.
    /\ dispatch.it <= Len(dispatch.snapshot)
    /\ pc \in Handling => /\ dispatch.it > 0
                          /\ single.todo \subseteq Places(dispatch.event)
                          /\ single.matching \subseteq Places(dispatch.event)
    /\ pc \in Exiting \cup Entering => single.cur \in Places(dispatch.event)
    /\ pc = "exiting" => single.at \in 1 .. Len(mActiveStates) + 1
    /\ pc \in {"leave", "rollback", "reenter", "restore"} => single.at > 0
    /\ pc \in {"restore", "restoreParent"} =>
          TransitionOf(single.from, dispatch.event, single.cur).to \in HistoryStates

-----------------------------------------------------------------------------
Active == ToSet(mActiveStates)

\* std::list::remove; the list never holds a state twice (NoDuplicateActive).
Without(list, s) ==
    IF s \in ToSet(list)
    THEN RemoveAt(list, CHOOSE i \in DOMAIN list : list[i] = s)
    ELSE list

\* addActiveState
AddActiveState(list, s) == IF s \in ToSet(list) THEN list ELSE Append(list, s)

\* Mutant: the old state is always removed.
SwapActiveState(list, old, new) == AddActiveState(Without(list, old), new)

\* replaceActiveState: a state stays active when its own substate is entered.
ReplaceActiveState(list, old, new) ==
    AddActiveState(IF IsSubstateOf(old, new) THEN list ELSE Without(list, old), new)

\* executeStateAction: TRANSITION actions call transition() on this thread.
ExecuteStateAction(s, trigger) ==
    LET raised == RaisedOn[trigger][s]
    IN  /\ mPendingEvents' = mPendingEvents \o
                             [i \in DOMAIN raised |-> Regular(raised[i], NoClient)]
        /\ emitted' = emitted + Len(raised)

\* onStateEntering does nothing at all for a state that is active.
OnStateEntering(list, s) ==
    IF s \in ToSet(list) THEN UNCHANGED queueVars ELSE ExecuteStateAction(s, "ENTRY")

\* The rollbacks and the startup enter a state whatever onEntering answers; a
\* state that refuses does not get its actions executed.
EnterRegardless(list, s) ==
    \/ OnStateEntering(list, s)
    \/ s \in CanRefuseEntry \ ToSet(list) /\ UNCHANGED queueVars

\* Mutant: other regions are not looked at.
HasNoActiveChildren(parent) == FALSE

\* hasActiveChildren(parent, false)
HasActiveChildren(parent) ==
    \E s \in Active \ FinalStates : IsSubstateOf(parent, s)

\* Mutant: a follow-up event queues up behind those of the clients.
PushBack(event) == mPendingEvents' = Append(mPendingEvents, event)

\* HSM_SYNC_EVENTS_QUEUE; emplace_front
PushFront(event) == mPendingEvents' = <<event>> \o mPendingEvents

Init ==
    /\ mActiveStates = <<>>
    /\ mPendingEvents = <<>>
    /\ mHistoryData = [h \in HistoryStates |-> <<>>]
    /\ emitted = 0
    /\ pc = "boot"
    /\ dispatch = NotDispatching
    /\ single = NoTransition
    /\ client = [c \in Clients |-> "ready"]
    /\ transitionStatus = [c \in Clients |-> "DONE_FAILED"]

-----------------------------------------------------------------------------
(* Threads that call transition(), transitionSync(), transitionEx().       *)

\* PendingEventInfo::unlock notifies without taking cvLock: it wakes up those that
\* sleep already, not one that is about to.
Notified(answered) ==
    [c \in Clients |-> IF c \in answered /\ client[c] = "asleep" THEN "wait" ELSE client[c]]

\* The queue is emptied and appended to under one lock.  A REGULAR event that
\* is dropped answers the client that waits for it; the others do not.
Post(c, e, clearQueue, sync) ==
    LET dropped == {mPendingEvents[i].waiter :
                      i \in {j \in DOMAIN mPendingEvents :
                               /\ clearQueue
                               /\ mPendingEvents[j].transitionType = "REGULAR"}}
        kept    == IF clearQueue THEN <<>> ELSE mPendingEvents
    IN  /\ client[c] = "ready"
        /\ pc # "restore"                             \* the queue is locked
        /\ Len(mPendingEvents) < MaxPending /\ emitted < MaxEmitted   \* bounds
        /\ mPendingEvents' = Append(kept, Regular(e, IF sync THEN c ELSE NoClient))
        /\ client' = [Notified(dropped) EXCEPT ![c] = IF sync THEN "emitSync" ELSE "emit"]
        /\ transitionStatus' =
             [d \in Clients |-> IF sync /\ d = c THEN "PENDING"
                                ELSE IF d \in dropped THEN "DONE_FAILED"
                                ELSE transitionStatus[d]]
        /\ UNCHANGED <<mActiveStates, mHistoryData, emitted, pc, dispatch, single>>

\* Nothing of an earlier call of `c` is left that could answer a new one.  The
\* code gives each call a status of its own; here a client has one to reuse.
StatusIsFree(c) ==
    /\ dispatch.event.waiter # c
    /\ \A i \in DOMAIN mPendingEvents : mPendingEvents[i].waiter # c

Emit(c) ==
    /\ client[c] \in {"emit", "emitSync"}
    /\ emitted' = emitted + 1
    /\ client' = [client EXCEPT ![c] = IF @ = "emit" THEN "ready" ELSE "wait"]
    /\ UNCHANGED <<mActiveStates, mPendingEvents, mHistoryData, pc, dispatch,
                   single, transitionStatus>>

\* PendingEventInfo::wait, under cvLock: the client looks at its status ...
WaitMoves(c, from, to) ==
    /\ client[c] = from
    /\ client' = [client EXCEPT ![c] = to]
    /\ UNCHANGED <<mActiveStates, mHistoryData, pc, dispatch, single, queueVars,
                   transitionStatus>>

\* ... and answers status = DONE_OK ...
Return(c) == transitionStatus[c] # "PENDING" /\ WaitMoves(c, "wait", "ready")

\* ... or goes to sleep, in two steps, until it is woken or its time is over.
StayPending(c) == transitionStatus[c] = "PENDING" /\ WaitMoves(c, "wait", "falling")

FallAsleep(c) == WaitMoves(c, "falling", "asleep")

WakeUp(c) == WaitMoves(c, "asleep", "wait")      \* for no reason

TimeOut(c) == c \in MayTimeOut /\ WaitMoves(c, "asleep", "ready")

WaitStep(c) == Return(c) \/ StayPending(c) \/ FallAsleep(c) \/ WakeUp(c) \/ TimeOut(c)

ClientStep(c) ==
    \/ \E e \in Posted, clearQueue, sync \in BOOLEAN :
         /\ clearQueue => c \in MayClear
         /\ sync => c \in MaySync /\ StatusIsFree(c)
         /\ Post(c, e, clearQueue, sync)
    \/ Emit(c)
    \/ WaitStep(c)

-----------------------------------------------------------------------------
(* handleStartup.  initialize() calls it on the thread of its caller: here *)
(* the dispatcher serves no emission before it has returned, as with every *)
(* dispatcher whose loop runs on that same thread.                         *)

EnterInitialState ==
    /\ pc = "boot"
    /\ EnterRegardless(mActiveStates, Initial)
    /\ mActiveStates' = Append(mActiveStates, Initial)
    /\ pc' = "bootEntry"
    /\ UNCHANGED <<mHistoryData, dispatch, single, clientVars>>

StartEntryPoints ==
    /\ pc = "bootEntry"
    /\ \E truth \in SUBSET Conditions :
         IF GetEntryPoints(Initial, NoEvent, truth) # {}
         THEN PushFront(EntryPointOf(Regular(NoEvent, NoClient)))
         ELSE UNCHANGED mPendingEvents
    /\ emitted' = IF mPendingEvents' # <<>> THEN emitted + 1 ELSE emitted
    /\ pc' = "idle"
    /\ UNCHANGED <<mActiveStates, mHistoryData, dispatch, single, clientVars>>

-----------------------------------------------------------------------------
(* dispatchEvents and doTransition                                         *)

\* Mutant: an emission is taken for an event.
DispatchEventsUnchecked ==
    /\ pc = "idle"
    /\ emitted > 0
    /\ emitted' = emitted - 1
    /\ pc' = "pop"
    /\ UNCHANGED <<mActiveStates, mPendingEvents, mHistoryData, dispatch, single,
                   clientVars>>

DispatchEvents ==
    /\ pc = "idle"
    /\ emitted > 0
    /\ emitted' = emitted - 1
    /\ pc' = IF mPendingEvents = <<>> THEN "clear" ELSE "pop"
    /\ UNCHANGED <<mActiveStates, mPendingEvents, mHistoryData, dispatch, single,
                   clientVars>>

\* The queue was seen to hold an event before it was locked.
PopEvent ==
    /\ pc = "pop"
    /\ mPendingEvents # <<>>
    /\ dispatch' = [event |-> Head(mPendingEvents), snapshot |-> mActiveStates,
                    it |-> Len(mActiveStates), accepted |-> {},
                    res |-> "DONE_FAILED"]
    /\ mPendingEvents' = Tail(mPendingEvents)
    /\ pc' = "scan"
    /\ UNCHANGED <<mActiveStates, mHistoryData, emitted, single, clientVars>>

\* Mutant: the states are tried from the first to the last.
ScannedForward == dispatch.snapshot[Len(dispatch.snapshot) - dispatch.it + 1]

\* The states that were active when the event was taken are tried from the
\* last to the first.  One that is no longer active, or whose substate has
\* accepted the event, is passed over.
Scanned == dispatch.snapshot[dispatch.it]

PassedOver ==
    \/ Scanned \notin Active
    \/ \E s \in dispatch.accepted : IsSubstateOf(Scanned, s)

\* determineTargetState
MatchingTransitions(s, event, truth) ==
    CASE event.transitionType = "REGULAR" -> FindTransitionTarget(s, event.id, truth)
      [] event.transitionType = "ENTRYPOINT" ->
           IF \E a \in Active : a # s /\ Parent[a] = s THEN {}
           ELSE GetEntryPoints(s, event.id, truth)
      [] event.transitionType = "FORCED" -> DOMAIN event.forced

\* Mutant: an off-by-one in the loop over the snapshot.
SkipTwoStates ==
    /\ pc = "scan" /\ dispatch.it > 0
    /\ PassedOver
    /\ dispatch' = [dispatch EXCEPT !.it = @ - 2]
    /\ UNCHANGED <<mActiveStates, mHistoryData, pc, single, queueVars, clientVars>>

SkipState ==
    /\ pc = "scan" /\ dispatch.it > 0
    /\ PassedOver
    /\ dispatch' = [dispatch EXCEPT !.it = @ - 1]
    /\ UNCHANGED <<mActiveStates, mHistoryData, pc, single, queueVars, clientVars>>

\* handleSingleTransition up to and including executeSelfTransitions
BeginTransition ==
    /\ pc = "scan" /\ dispatch.it > 0
    /\ ~ PassedOver
    /\ \E truth \in SUBSET Conditions :
         LET matching == MatchingTransitions(Scanned, dispatch.event, truth)
             external == {i \in matching :
                            ~ IsInternalSelf(TransitionOf(Scanned, dispatch.event, i))}
             exits    == IF dispatch.event.transitionType = "REGULAR"
                         THEN external ELSE {}
         IN  /\ single' = [NoTransition EXCEPT
                             !.from = Scanned, !.matching = matching, !.todo = exits,
                             !.res = IF external # matching
                                     THEN "DONE_OK" ELSE "DONE_FAILED",
                             !.before = Active]
             /\ pc' = IF matching = {} THEN "end" ELSE "exit"
    /\ UNCHANGED <<mActiveStates, mHistoryData, dispatch, queueVars, clientVars>>

Accepted == {"PENDING", "DONE_OK"}

\* Mutant: a transition still under way counts as finished.
MergeAsDone(res, new) == IF new \in Accepted THEN "DONE_OK" ELSE res

\* The result of one state's transition in that of the event: PENDING stays.
MergeResult(res, new) == IF new \in Accepted /\ res # "PENDING" THEN new ELSE res

EndTransition ==
    /\ pc = "end"
    /\ dispatch' = [dispatch EXCEPT
         !.it = @ - 1,
         !.accepted = IF single.res \in Accepted THEN @ \cup {single.from} ELSE @,
         !.res = MergeResult(@, single.res)]
    /\ single' = NoTransition
    /\ pc' = "scan"
    /\ UNCHANGED <<mActiveStates, mHistoryData, queueVars, clientVars>>

\* doTransition returns; PendingEventInfo::unlock answers the waiting client.
FinishEvent ==
    /\ pc = "scan" /\ dispatch.it = 0
    /\ transitionStatus' = [c \in Clients |-> IF c = dispatch.event.waiter
                                              THEN dispatch.res
                                              ELSE transitionStatus[c]]
    /\ client' = Notified(IF dispatch.res = "PENDING" THEN {} ELSE {dispatch.event.waiter})
    /\ dispatch' = NotDispatching
    /\ pc' = "clear"
    /\ UNCHANGED <<mActiveStates, mHistoryData, single, queueVars>>

\* Mutant: no emission for what is left in the queue.
ClearDispatchingSilently ==
    /\ pc = "clear"
    /\ pc' = "idle"
    /\ UNCHANGED <<mActiveStates, mHistoryData, dispatch, single, queueVars, clientVars>>

ClearDispatching ==
    /\ pc = "clear"
    /\ emitted' = IF mPendingEvents # <<>> THEN emitted + 1 ELSE emitted
    /\ pc' = "idle"
    /\ UNCHANGED <<mActiveStates, mPendingEvents, mHistoryData, dispatch, single,
                   clientVars>>

-----------------------------------------------------------------------------
(* executeExitTransition                                                   *)

Matched(i) == TransitionOf(single.from, dispatch.event, i)

CurTransition == Matched(single.cur)

External == {i \in single.matching : ~ IsInternalSelf(Matched(i))}

\* Matching transitions are taken in their order.
IsNext(i) == i \in single.todo /\ \A j \in single.todo : i <= j

NextExit ==
    /\ pc = "exit"
    /\ \E i \in single.todo :
         /\ IsNext(i)
         /\ single' = [single EXCEPT !.cur = i, !.todo = @ \ {i},
                                     !.at = Len(mActiveStates) + 1]
    /\ pc' = "exiting"
    /\ UNCHANGED <<mActiveStates, mHistoryData, dispatch, queueVars, clientVars>>

ExitsDone ==
    /\ pc = "exit" /\ single.todo = {}
    /\ IF single.exitAllowed
       THEN single' = [single EXCEPT !.todo = External] /\ pc' = "enter"
       ELSE single' = [single EXCEPT !.res = "CANCELED"] /\ pc' = "end"
    /\ UNCHANGED <<mActiveStates, mHistoryData, dispatch, queueVars, clientVars>>

\* The states the transition leaves, from the last active one to the first.
ToExit ==
    {i \in 1 .. single.at - 1 : \/ mActiveStates[i] = CurTransition.from
                                \/ IsSubstateOf(CurTransition.from, mActiveStates[i])}

ExitState ==
    /\ pc = "exiting"
    /\ \E i \in ToExit :
         /\ \A j \in ToExit : j <= i
         /\ ExecuteStateAction(mActiveStates[i], "EXIT")
         /\ single' = [single EXCEPT !.exited = Append(@, mActiveStates[i]),
                                     !.at = i, !.exitAllowed = TRUE]
    /\ UNCHANGED <<mActiveStates, mHistoryData, pc, dispatch, clientVars>>

\* Mutant: a refused exit does not roll back.
RefuseExitAndLeave ==
    /\ pc = "exiting"
    /\ \E i \in ToExit : mActiveStates[i] \in CanRefuseExit
    /\ single' = [single EXCEPT !.exitAllowed = FALSE, !.at = 1]
    /\ pc' = "leave"
    /\ UNCHANGED <<mActiveStates, mHistoryData, dispatch, queueVars, clientVars>>

RefuseExit ==
    /\ pc = "exiting"
    /\ \E i \in ToExit :
         /\ \A j \in ToExit : j <= i
         /\ mActiveStates[i] \in CanRefuseExit
    /\ single' = [single EXCEPT !.exitAllowed = FALSE, !.at = 1]
    /\ pc' = "rollback"
    /\ UNCHANGED <<mActiveStates, mHistoryData, dispatch, queueVars, clientVars>>

NoMoreToExit ==
    /\ pc = "exiting" /\ ToExit = {}
    /\ single' = [single EXCEPT !.at = 1, !.touched = {}]
    /\ pc' = IF single.exitAllowed THEN "leave" ELSE "rollback"
    /\ UNCHANGED <<mActiveStates, mHistoryData, dispatch, queueVars, clientVars>>

\* updateHistory, for one exited state `s`: the parents from `s` up to `top`,
\* or up to the root when `top` is not above `s`.
HistoryParents(top, s) ==
    {p \in Ancestors[s] : IsSubstateOf(top, s) => p = top \/ IsSubstateOf(top, p)}

Remembered(h, s) ==
    IF History[h].type = "SHALLOW" THEN ChildTowards(History[h].parent, s) ELSE s

\* Mutant: what an earlier transition stored is kept.
UpdateHistoryKeeping(top, s, touched) ==
    [h \in HistoryStates |->
       IF History[h].parent \in HistoryParents(top, s)
       THEN AddActiveState(mHistoryData[h], Remembered(h, s)) ELSE mHistoryData[h]]

\* A history is emptied the first time a transition updates it.
UpdateHistory(top, s, touched) ==
    [h \in HistoryStates |->
       IF History[h].parent \in HistoryParents(top, s)
       THEN AddActiveState(IF h \in touched THEN mHistoryData[h] ELSE <<>>,
                           Remembered(h, s))
       ELSE mHistoryData[h]]

LeaveState ==
    /\ pc = "leave"
    /\ single.at <= Len(single.exited)
    /\ LET s == single.exited[single.at]
       IN  /\ mHistoryData' = UpdateHistory(CurTransition.from, s, single.touched)
           /\ mActiveStates' = Without(mActiveStates, s)
           /\ single' = [single EXCEPT
                !.at = @ + 1,
                !.touched = @ \cup {h \in HistoryStates :
                     History[h].parent \in HistoryParents(CurTransition.from, s)}]
    /\ UNCHANGED <<pc, dispatch, queueVars, clientVars>>

\* Mutant: the state is not taken off the list first.
RollbackAppending ==
    /\ pc = "rollback"
    /\ single.at <= Len(single.exited)
    /\ LET s == single.exited[single.at]
       IN  /\ EnterRegardless(Without(mActiveStates, s), s)
           /\ mActiveStates' = Append(mActiveStates, s)
    /\ single' = [single EXCEPT !.at = @ + 1]
    /\ UNCHANGED <<mHistoryData, pc, dispatch, clientVars>>

\* An exit was refused: the states already exited are entered again.
RollbackState ==
    /\ pc = "rollback"
    /\ single.at <= Len(single.exited)
    /\ LET s    == single.exited[single.at]
           rest == Without(mActiveStates, s)
       IN  /\ EnterRegardless(rest, s)
           /\ mActiveStates' = Append(rest, s)
    /\ single' = [single EXCEPT !.at = @ + 1]
    /\ UNCHANGED <<mHistoryData, pc, dispatch, clientVars>>

ExitDone ==
    /\ pc \in {"leave", "rollback"}
    /\ single.at > Len(single.exited)
    /\ pc' = "exit"
    /\ UNCHANGED <<mActiveStates, mHistoryData, dispatch, single, queueVars, clientVars>>

-----------------------------------------------------------------------------
(* processExternalTransition                                               *)

EnterState ==
    /\ pc = "enter"
    /\ \E i \in single.todo :
         /\ IsNext(i)
         /\ OnStateEntering(mActiveStates, Matched(i).to)
         /\ mActiveStates' = ReplaceActiveState(mActiveStates, single.from, Matched(i).to)
         /\ single' = [single EXCEPT !.cur = i, !.todo = @ \ {i}]
    /\ pc' = "entered"
    /\ UNCHANGED <<mHistoryData, dispatch, clientVars>>

RefuseEntry ==
    /\ pc = "enter"
    /\ \E i \in single.todo :
         /\ IsNext(i)
         /\ Matched(i).to \in CanRefuseEntry \ Active
         /\ single' = [single EXCEPT !.cur = i, !.todo = @ \ {i}, !.at = 1,
                                     !.res = "DONE_FAILED"]
    /\ pc' = "reenter"
    /\ UNCHANGED <<mActiveStates, mHistoryData, dispatch, queueVars, clientVars>>

\* An entry was refused: the exited states are entered again.
ReenterState ==
    /\ pc = "reenter"
    /\ single.at <= Len(single.exited)
    /\ LET s == single.exited[single.at]
       IN  /\ EnterRegardless(mActiveStates, s)
           /\ mActiveStates' = AddActiveState(mActiveStates, s)
    /\ single' = [single EXCEPT !.at = @ + 1]
    /\ UNCHANGED <<mHistoryData, pc, dispatch, clientVars>>

ReenterDone ==
    /\ pc = "reenter" /\ single.at > Len(single.exited)
    /\ pc' = "enter"
    /\ UNCHANGED <<mActiveStates, mHistoryData, dispatch, single, queueVars, clientVars>>

EntriesDone ==
    /\ pc = "enter" /\ single.todo = {}
    /\ pc' = "end"
    /\ UNCHANGED <<mActiveStates, mHistoryData, dispatch, single, queueVars, clientVars>>

Entered == CurTransition.to

\* processFinalStateTransition: the composite state's event, once all its
\* regions have come to a final state.
EnteredFinalState ==
    /\ pc = "entered" /\ Entered \in FinalStates
    /\ IF Parent[Entered] # NoState /\ ~ HasActiveChildren(Parent[Entered])
       THEN PushFront(Regular(IF FinalEvent[Entered] # NoEvent
                              THEN FinalEvent[Entered] ELSE dispatch.event.id, NoClient))
       ELSE UNCHANGED mPendingEvents
    /\ single' = [single EXCEPT !.res = "DONE_OK"]
    /\ pc' = "enter"
    /\ UNCHANGED <<mActiveStates, mHistoryData, emitted, dispatch, clientVars>>

\* transitionToDefaultHistoryState
EnteredEmptyHistory ==
    /\ pc = "entered" /\ Entered \in HistoryStates \ FinalStates
    /\ mHistoryData[Entered] = <<>>
    /\ LET event  == dispatch.event
           target == History[Entered].target
           forced(s, ignore) ==
               ForcedOf(event, <<ExternalTransition(Entered, s)>>, ignore)
           parent == History[Entered].parent
       IN  mPendingEvents' =
             (IF target = NoState
              THEN <<forced(parent, event.ignoreEntryPoints)>>
              ELSE <<forced(parent, TRUE),
                     forced(target, event.ignoreEntryPoints \/ target = parent)>>)
             \o mPendingEvents
    /\ single' = [single EXCEPT !.res = "PENDING"]
    /\ pc' = "enter"
    /\ UNCHANGED <<mActiveStates, mHistoryData, emitted, dispatch, clientVars>>

\* transitionToPreviousActiveStates takes the lock of the queue ...
EnteredHistory ==
    /\ pc = "entered" /\ Entered \in HistoryStates \ FinalStates
    /\ mHistoryData[Entered] # <<>>
    /\ single' = [single EXCEPT !.res = "PENDING", !.at = 1, !.group = <<>>,
                                !.ignore = FALSE]
    /\ pc' = "restore"
    /\ UNCHANGED <<mActiveStates, mHistoryData, dispatch, queueVars, clientVars>>

\* ... groups the remembered states, a parent starting a group after its child ...
RestoreState ==
    /\ pc = "restore"
    /\ single.at <= Len(mHistoryData[Entered])
    /\ LET previous == mHistoryData[Entered]
           k        == single.at
           edge     == ExternalTransition(Entered, previous[k])
       IN  IF k > 1 /\ IsSubstateOf(previous[k], previous[k - 1])
           THEN /\ PushFront(ForcedOf(dispatch.event, single.group, single.ignore))
                /\ single' = [single EXCEPT !.at = k + 1, !.group = <<edge>>,
                                            !.ignore = TRUE]
           ELSE /\ single' = [single EXCEPT !.at = k + 1, !.group = Append(@, edge),
                                            !.ignore = FALSE]
                /\ UNCHANGED mPendingEvents
    /\ UNCHANGED <<mActiveStates, mHistoryData, emitted, pc, dispatch, clientVars>>

\* Mutant: the last group is dropped.
RestoreNoLastGroup ==
    /\ pc = "restore"
    /\ single.at > Len(mHistoryData[Entered])
    /\ mHistoryData' = [mHistoryData EXCEPT ![Entered] = <<>>]
    /\ pc' = "restoreParent"
    /\ UNCHANGED <<mActiveStates, mPendingEvents, emitted, dispatch, single, clientVars>>

\* ... pushes the last group, releases the lock and forgets them ...
RestoreLastGroup ==
    /\ pc = "restore"
    /\ single.at > Len(mHistoryData[Entered])
    /\ PushFront(ForcedOf(dispatch.event, single.group, single.ignore))
    /\ mHistoryData' = [mHistoryData EXCEPT ![Entered] = <<>>]
    /\ pc' = "restoreParent"
    /\ UNCHANGED <<mActiveStates, emitted, dispatch, single, clientVars>>

\* ... and takes it again to put the parent of the history in front of them.
RestoreParent ==
    /\ pc = "restoreParent"
    /\ PushFront(ForcedOf(dispatch.event,
                          <<ExternalTransition(Entered, History[Entered].parent)>>, TRUE))
    /\ pc' = "enter"
    /\ UNCHANGED <<mActiveStates, mHistoryData, emitted, dispatch, single, clientVars>>

\* An ordinary state: its entry points are taken by an event of their own.
EnteredState ==
    /\ pc = "entered" /\ Entered \notin HistoryStates \cup FinalStates
    /\ \E truth \in SUBSET Conditions :
         LET opened == GetEntryPoints(Entered, dispatch.event.id, truth) # {}
             ignore == dispatch.event.ignoreEntryPoints
         IN  /\ IF ~ ignore /\ opened
                THEN PushFront(EntryPointOf(dispatch.event))
                ELSE UNCHANGED mPendingEvents
             /\ single' = [single EXCEPT !.res = IF ignore \/ opened THEN "PENDING"
                                                 ELSE "DONE_OK"]
    /\ pc' = "enter"
    /\ UNCHANGED <<mActiveStates, mHistoryData, emitted, dispatch, clientVars>>

-----------------------------------------------------------------------------
DispatcherStep ==
    \/ EnterInitialState \/ StartEntryPoints
    \/ DispatchEvents \/ PopEvent \/ SkipState \/ BeginTransition \/ EndTransition
    \/ FinishEvent \/ ClearDispatching
    \/ NextExit \/ ExitsDone \/ ExitState \/ RefuseExit \/ NoMoreToExit
    \/ LeaveState \/ RollbackState \/ ExitDone
    \/ EnterState \/ RefuseEntry \/ ReenterState \/ ReenterDone \/ EntriesDone
    \/ EnteredFinalState \/ EnteredEmptyHistory \/ EnteredHistory
    \/ RestoreState \/ RestoreLastGroup \/ RestoreParent \/ EnteredState

Next == DispatcherStep \/ \E c \in Clients : ClientStep(c)

Spec == Init /\ [][Next]_vars

\* The dispatcher's thread runs, and so does a client that has posted.
Fairness ==
    /\ WF_vars(DispatcherStep)
    /\ \A c \in Clients :
         /\ WF_vars(Emit(c)) /\ WF_vars(TimeOut(c))
         /\ WF_vars(Return(c) \/ StayPending(c) \/ FallAsleep(c))

FairSpec == Spec /\ Fairness
=============================================================================
