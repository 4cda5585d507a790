---------------------------- MODULE DispatcherSTD ----------------------------
(***************************************************************************)
(* HsmEventDispatcherSTD without its timers: a thread of its own waits for *)
(* emissions, enqueued events and actions of any other thread and serves   *)
(* them (HsmEventDispatcherSTD.cpp, HsmEventDispatcherBase.cpp).           *)
(*                                                                         *)
(* A step ends where the code takes or releases a lock, reads without one, *)
(* or calls a handler.  Sections under mHandlersSync and                   *)
(* mEnqueuedEventsSync are single steps; mEmitSync has an owner, because   *)
(* the dispatcher holds it from its last look at the queues until it is    *)
(* blocked.                                                                *)
(***************************************************************************)
EXTENDS Naturals, Sequences, FiniteSets, SequencesExt, ListErase

CONSTANTS
    Handlers,       \* HandlerID_t of the state machines
    NoHandler,      \* INVALID_HSM_DISPATCHER_HANDLER_ID
    Signals,        \* EventID_t that interrupts enqueue
    Clients,        \* threads that use the dispatcher
    CacheSize,      \* eventsCacheSize: what mEnqueuedEvents reserves at first
    MayStop,        \* whether stop() is called at all
    MayRelease,     \* handlers whose state machine is released
    MayEnqueue,     \* handlers whose state machine is used from interrupts
    MayAct,         \* whether enqueueAction() is called at all
    MaxPending,     \* bound: emissions are made to a queue shorter than this
    MaxEnqueued,    \* bound: as many events are enqueued at most
    MaxActions      \* bound: as many actions wait at most

ASSUME DispatcherAssumption ==
    /\ NoHandler \notin Handlers
    /\ IsFiniteSet(Clients)
    /\ CacheSize \in Nat /\ MaxPending \in Nat /\ MaxEnqueued \in Nat /\ MaxActions \in Nat
    /\ MayStop \in BOOLEAN /\ MayAct \in BOOLEAN
    /\ MayRelease \subseteq Handlers /\ MayEnqueue \subseteq Handlers

VARIABLES
    mEventHandlers,    \* registered handlers
    mPendingEvents,    \* emissions, the oldest first
    mEnqueuedEvents,   \* enqueued events, the oldest first
    capacity,          \* of mEnqueuedEvents: how many it has memory for
    mPendingActions,   \* how many actions wait
    mStopDispatcher,
    mEmitSync,         \* whether the dispatcher holds this mutex
    pc,                \* where the dispatcher's thread stands
    events,            \* its local list of emissions
    currentEvents,     \* its local list of enqueued events
    actions,           \* its local list of actions, counted
    prevHandlerID,     \* the handler whose callback for enqueued events it holds
    handlers,          \* eventHandlersCopy
    current,           \* the handler being called
    hsm,               \* how far release() of each state machine has come
    client             \* where each client stands

shared == <<mEventHandlers, mPendingEvents, mEnqueuedEvents, capacity, mPendingActions,
            mStopDispatcher>>
locals == <<events, currentEvents, actions, prevHandlerID, handlers, current>>
vars == <<shared, mEmitSync, pc, locals, hsm, client>>

EnqueuedEventInfo == [handlerID : Handlers, eventID : Signals]

TypeOK ==
    /\ mEventHandlers \subseteq Handlers
    /\ mPendingEvents \in Seq(Handlers)
    /\ mEnqueuedEvents \in Seq(EnqueuedEventInfo)
    /\ capacity \in Nat
    /\ mPendingActions \in Nat /\ actions \in Nat
    /\ mStopDispatcher \in BOOLEAN
    /\ mEmitSync \in BOOLEAN
    /\ pc \in {"loop", "takeActions", "runActions", "events", "takeEvents", "enqueued",
               "callbacks", "copy", "handle", "called", "flagged", "running", "sleep",
               "decide", "block", "blocked", "woken", "exit", "terminated"}
    /\ events \in Seq(Handlers)
    /\ currentEvents \in Seq(EnqueuedEventInfo)
    /\ prevHandlerID \in Handlers \cup {NoHandler}
    /\ handlers \subseteq Handlers
    /\ current \in Handlers \cup {NoHandler}
    /\ hsm \in [Handlers -> {"live", "stopped", "removed", "erased", "unregistered",
                            "released"}]
    /\ client \in [Clients -> {"ready", "enqueue", "notify"}]

Init ==
    /\ mEventHandlers = Handlers
    /\ mPendingEvents = <<>> /\ mEnqueuedEvents = <<>> /\ mPendingActions = 0
    /\ capacity = CacheSize
    /\ mStopDispatcher = FALSE /\ mEmitSync = FALSE
    /\ pc = "loop"
    /\ events = <<>> /\ currentEvents = <<>> /\ actions = 0
    /\ prevHandlerID = NoHandler /\ handlers = {} /\ current = NoHandler
    /\ hsm = [h \in Handlers |-> "live"]
    /\ client = [c \in Clients |-> "ready"]

\* The handlers of enqueued events that are registered.
mEnqueuedEventHandlers ==
    {h \in Handlers : hsm[h] \in {"live", "stopped", "removed", "erased"}}

\* The flag a state machine sets for the time of dispatchEvents().
mIsDispatching(h) == current = h /\ pc \in {"flagged", "running"}

\* mEmitEvent.notify()
WakeDispatcher == pc' = IF pc = "blocked" THEN "woken" ELSE pc

\* The threads past the comparison of enqueueEvent().
Enqueuing == {c \in Clients : client[c] = "enqueue"}

\* The capacities a full std::vector may grow to: larger ones, up to twice the old one,
\* which is what libstdc++ and libc++ allocate.
Grown(n) == n + 1 .. 2 * n

-----------------------------------------------------------------------------
(* Threads that use the dispatcher                                         *)

\* Emitting: the append is under the lock, the notification is not.
EmitEvent(c, h) ==
    /\ client[c] = "ready"
    /\ ~ mEmitSync
    /\ Len(mPendingEvents) < MaxPending                               \* bound
    /\ mPendingEvents' = Append(mPendingEvents, h)
    /\ client' = [client EXCEPT ![c] = "notify"]
    /\ UNCHANGED <<mEventHandlers, mEnqueuedEvents, mPendingActions, mStopDispatcher,
                   capacity, mEmitSync, pc, locals, hsm>>

\* enqueueEvent looks at the size without the lock, also while another thread's append
\* moves a full array, when the comparison may come out either way ...
CheckCapacity(c) ==
    /\ client[c] = "ready"
    /\ MayEnqueue # {}
    /\ Len(mEnqueuedEvents) + Cardinality(Enqueuing) < MaxEnqueued     \* bound
    /\ Len(mEnqueuedEvents) < capacity \/ Enqueuing # {}
    /\ client' = [client EXCEPT ![c] = "enqueue"]
    /\ UNCHANGED <<mEventHandlers, mPendingEvents, mEnqueuedEvents, capacity,
                   mPendingActions, mStopDispatcher, mEmitSync, pc, locals, hsm>>

\* ... and appends under a lock that the waiting dispatcher does not hold.  An array
\* that is full grows, and stays as large.
EnqueueEvent(c, h, e) ==
    /\ client[c] = "enqueue" /\ h \in MayEnqueue
    /\ mEnqueuedEvents' = Append(mEnqueuedEvents, [handlerID |-> h, eventID |-> e])
    /\ IF Len(mEnqueuedEvents) < capacity THEN UNCHANGED capacity
                                          ELSE capacity' \in Grown(capacity)
    /\ client' = [client EXCEPT ![c] = "notify"]
    /\ UNCHANGED <<mEventHandlers, mPendingEvents, mPendingActions, mStopDispatcher,
                   mEmitSync, pc, locals, hsm>>

EnqueueAction(c) ==
    /\ client[c] = "ready" /\ MayAct
    /\ ~ mEmitSync
    /\ mPendingActions < MaxActions                                   \* bound
    /\ mPendingActions' = mPendingActions + 1
    /\ client' = [client EXCEPT ![c] = "notify"]
    /\ UNCHANGED <<mEventHandlers, mPendingEvents, mEnqueuedEvents, mStopDispatcher,
                   capacity, mEmitSync, pc, locals, hsm>>

NotifyDispatcher(c) ==
    /\ client[c] = "notify"
    /\ WakeDispatcher
    /\ client' = [client EXCEPT ![c] = "ready"]
    /\ UNCHANGED <<shared, mEmitSync, locals, hsm>>

ClientStep(c) ==
    \/ \E h \in Handlers : EmitEvent(c, h)
    \/ CheckCapacity(c)
    \/ \E h \in Handlers, e \in Signals : EnqueueEvent(c, h, e)
    \/ EnqueueAction(c)
    \/ NotifyDispatcher(c)

\* HierarchicalStateMachine::release(): mStopDispatching first, then the handlers
\* are unregistered under one lock after the other, then it waits.
Release(h) ==
    /\ hsm[h] = "live" /\ h \in MayRelease
    /\ hsm' = [hsm EXCEPT ![h] = "stopped"]
    /\ UNCHANGED <<shared, mEmitSync, pc, locals, client>>

RemovePending(h) ==
    /\ hsm[h] = "stopped"
    /\ ~ mEmitSync
    /\ mPendingEvents' = Without(mPendingEvents, PlacesOf(mPendingEvents, h))
    /\ hsm' = [hsm EXCEPT ![h] = "removed"]
    /\ UNCHANGED <<mEventHandlers, mEnqueuedEvents, mPendingActions, mStopDispatcher,
                   capacity, mEmitSync, pc, locals, client>>

EraseHandler(h) ==
    /\ hsm[h] = "removed"
    /\ mEventHandlers' = mEventHandlers \ {h}
    /\ hsm' = [hsm EXCEPT ![h] = "erased"]
    /\ UNCHANGED <<mPendingEvents, mEnqueuedEvents, mPendingActions, mStopDispatcher,
                   capacity, mEmitSync, pc, locals, client>>

EraseEnqueuedHandler(h) ==
    /\ hsm[h] = "erased"
    /\ hsm' = [hsm EXCEPT ![h] = "unregistered"]
    /\ UNCHANGED <<shared, mEmitSync, pc, locals, client>>

\* Mutant: it does not wait for the dispatcher.
ReturnAtOnce(h) ==
    /\ hsm[h] = "unregistered"
    /\ hsm' = [hsm EXCEPT ![h] = "released"]
    /\ UNCHANGED <<shared, mEmitSync, pc, locals, client>>

\* Mutant: it waits for the other value of the flag.
ReturnOnceDispatching(h) ==
    /\ hsm[h] = "unregistered"
    /\ mIsDispatching(h)
    /\ hsm' = [hsm EXCEPT ![h] = "released"]
    /\ UNCHANGED <<shared, mEmitSync, pc, locals, client>>

ReleaseReturns(h) ==
    /\ hsm[h] = "unregistered"
    /\ ~ mIsDispatching(h)
    /\ hsm' = [hsm EXCEPT ![h] = "released"]
    /\ UNCHANGED <<shared, mEmitSync, pc, locals, client>>

\* Mutant: nobody is notified.
StopQuietly ==
    /\ MayStop /\ ~ mStopDispatcher
    /\ ~ mEmitSync
    /\ mStopDispatcher' = TRUE
    /\ mEventHandlers' = {}
    /\ UNCHANGED <<mPendingEvents, mEnqueuedEvents, mPendingActions, capacity, mEmitSync,
                   pc, locals, hsm, client>>

\* stop() notifies while it holds mEmitSync.
Stop ==
    /\ MayStop /\ ~ mStopDispatcher
    /\ ~ mEmitSync
    /\ mStopDispatcher' = TRUE
    /\ mEventHandlers' = {}
    /\ WakeDispatcher
    /\ UNCHANGED <<mPendingEvents, mEnqueuedEvents, mPendingActions, capacity, mEmitSync,
                   locals, hsm, client>>

-----------------------------------------------------------------------------
(* doDispatching, the dispatcher's thread                                  *)

Loop ==
    /\ pc = "loop"
    /\ pc' = IF mStopDispatcher THEN "exit"
             ELSE IF mPendingActions > 0 THEN "takeActions" ELSE "events"
    /\ UNCHANGED <<shared, mEmitSync, locals, hsm, client>>

TakeActions ==
    /\ pc = "takeActions" /\ ~ mEmitSync
    /\ actions' = mPendingActions
    /\ mPendingActions' = 0
    /\ pc' = "runActions"
    /\ UNCHANGED <<mEventHandlers, mPendingEvents, mEnqueuedEvents, mStopDispatcher,
                   capacity, mEmitSync, events, currentEvents, prevHandlerID, handlers,
                   current, hsm, client>>

RunAction ==
    /\ pc = "runActions" /\ actions > 0
    /\ actions' = actions - 1
    /\ UNCHANGED <<shared, mEmitSync, pc, events, currentEvents, prevHandlerID, handlers,
                   current, hsm, client>>

ActionsDone ==
    /\ pc = "runActions" /\ actions = 0
    /\ pc' = "events"
    /\ UNCHANGED <<shared, mEmitSync, locals, hsm, client>>

SeePending ==
    /\ pc = "events"
    /\ pc' = IF mPendingEvents = <<>> THEN "enqueued" ELSE "takeEvents"
    /\ UNCHANGED <<shared, mEmitSync, locals, hsm, client>>

\* Mutant: the copied list is not emptied.
TakeCopyOfPending ==
    /\ pc = "takeEvents" /\ ~ mEmitSync
    /\ events' = mPendingEvents
    /\ pc' = "enqueued"
    /\ UNCHANGED <<shared, mEmitSync, currentEvents, actions, prevHandlerID, handlers,
                   current, hsm, client>>

TakePending ==
    /\ pc = "takeEvents" /\ ~ mEmitSync
    /\ events' = mPendingEvents
    /\ mPendingEvents' = <<>>
    /\ pc' = "enqueued"
    /\ UNCHANGED <<mEventHandlers, mEnqueuedEvents, mPendingActions, mStopDispatcher,
                   capacity, mEmitSync, currentEvents, actions, prevHandlerID, handlers,
                   current, hsm, client>>

TakeEnqueued ==
    /\ pc = "enqueued"
    /\ IF mStopDispatcher \/ mEnqueuedEvents = <<>>
       THEN pc' = "copy" /\ UNCHANGED <<mEnqueuedEvents, currentEvents>>
       ELSE /\ currentEvents' = mEnqueuedEvents
            /\ mEnqueuedEvents' = <<>>
            /\ pc' = "callbacks"
    /\ UNCHANGED <<mEventHandlers, mPendingEvents, mPendingActions, mStopDispatcher,
                   capacity, mEmitSync, events, actions, prevHandlerID, handlers, current,
                   hsm, client>>

\* The last enqueued event is delivered first.  A callback that is not registered
\* any more is called all the same: it is empty, and the program ends.
DeliverEnqueued ==
    /\ pc = "callbacks" /\ currentEvents # <<>> /\ ~ mStopDispatcher
    /\ ~ mEmitSync
    /\ LET h == Last(currentEvents).handlerID
       IN  /\ pc' = IF h \in mEnqueuedEventHandlers \cup {prevHandlerID}
                    THEN pc ELSE "terminated"
           \* The state machine posts the event and emits, unless it is stopped.
           /\ mPendingEvents' = IF hsm[h] = "live" THEN Append(mPendingEvents, h)
                                                   ELSE mPendingEvents
           /\ prevHandlerID' = h
    /\ currentEvents' = Front(currentEvents)
    /\ UNCHANGED <<mEventHandlers, mEnqueuedEvents, mPendingActions, mStopDispatcher,
                   capacity, mEmitSync, events, actions, handlers, current, hsm, client>>

EnqueuedDone ==
    /\ pc = "callbacks" /\ (currentEvents = <<>> \/ mStopDispatcher)
    /\ currentEvents' = <<>>
    /\ prevHandlerID' = NoHandler
    /\ pc' = "copy"
    /\ UNCHANGED <<shared, mEmitSync, events, actions, handlers, current, hsm, client>>

CopyHandlers ==
    /\ pc = "copy"
    /\ IF mStopDispatcher \/ events = <<>>
       THEN pc' = "sleep" /\ events' = <<>> /\ UNCHANGED handlers
       ELSE pc' = "handle" /\ handlers' = mEventHandlers /\ UNCHANGED events
    /\ UNCHANGED <<shared, mEmitSync, currentEvents, actions, prevHandlerID, current, hsm,
                   client>>

\* An emission whose handler is not in the copy is passed over, and so is that of a
\* stopped machine, whose handler answers FALSE and leaves the copy.
NextEvent ==
    /\ pc = "handle" /\ events # <<>> /\ ~ mStopDispatcher
    /\ LET h == Head(events)
       IN  IF h \in handlers /\ hsm[h] = "live"
           THEN pc' = "called" /\ current' = h /\ UNCHANGED handlers
           ELSE handlers' = handlers \ {h} /\ UNCHANGED <<pc, current>>
    /\ events' = Tail(events)
    /\ UNCHANGED <<shared, mEmitSync, currentEvents, actions, prevHandlerID, hsm, client>>

\* The state machine sets its flag ...
StartDispatching ==
    /\ pc = "called"
    /\ pc' = "flagged"
    /\ UNCHANGED <<shared, mEmitSync, locals, hsm, client>>

\* ... unless release() has taken mDispatcher away by the time it looks.
DispatcherIsGone ==
    /\ pc = "called" /\ hsm[current] \in {"unregistered", "released"}
    /\ pc' = "handle" /\ current' = NoHandler
    /\ UNCHANGED <<shared, mEmitSync, events, currentEvents, actions, prevHandlerID,
                   handlers, hsm, client>>

\* Mutant: mStopDispatching is not read again.
DispatchUnchecked ==
    /\ pc = "flagged"
    /\ pc' = "running" /\ UNCHANGED current
    /\ UNCHANGED <<shared, mEmitSync, events, currentEvents, actions, prevHandlerID,
                   handlers, hsm, client>>

\* With the flag set it reads mStopDispatching again before it handles an event.
DispatchUnlessStopped ==
    /\ pc = "flagged"
    /\ IF hsm[current] = "live" THEN pc' = "running" /\ UNCHANGED current
                                ELSE pc' = "handle" /\ current' = NoHandler
    /\ UNCHANGED <<shared, mEmitSync, events, currentEvents, actions, prevHandlerID,
                   handlers, hsm, client>>

EventsDone ==
    /\ pc = "handle" /\ (events = <<>> \/ mStopDispatcher)
    /\ events' = <<>>
    /\ pc' = "sleep"
    /\ UNCHANGED <<shared, mEmitSync, currentEvents, actions, prevHandlerID, handlers,
                   current, hsm, client>>

\* dispatchEvents() ends; it emits once more when events are left.
ReturnFromHandler ==
    /\ pc = "running"
    /\ \/ UNCHANGED mPendingEvents
       \/ /\ ~ mEmitSync
          /\ Len(mPendingEvents) < MaxPending                         \* bound
          /\ mPendingEvents' = Append(mPendingEvents, current)
    /\ current' = NoHandler
    /\ pc' = "handle"
    /\ UNCHANGED <<mEventHandlers, mEnqueuedEvents, mPendingActions, mStopDispatcher,
                   capacity, mEmitSync, events, currentEvents, actions, prevHandlerID,
                   handlers, hsm, client>>

GoToSleep ==
    /\ pc = "sleep"
    /\ IF mStopDispatcher
       THEN pc' = "loop" /\ UNCHANGED mEmitSync
       ELSE /\ ~ mEmitSync
            /\ IF mPendingEvents = <<>> THEN pc' = "decide" /\ mEmitSync' = TRUE
                                        ELSE pc' = "loop" /\ UNCHANGED mEmitSync
    /\ UNCHANGED <<shared, locals, hsm, client>>

\* Mutants: the predicate forgets the emissions, or the enqueued events.
WorkEnqueued == mEnqueuedEvents # <<>> \/ mStopDispatcher

WorkEmitted == mPendingEvents # <<>> \/ mStopDispatcher

\* The predicate of mEmitEvent.wait().
WorkToDo == mPendingEvents # <<>> \/ mEnqueuedEvents # <<>> \/ mStopDispatcher

Decide ==
    /\ pc = "decide"
    /\ IF WorkToDo THEN pc' = "loop" /\ mEmitSync' = FALSE
                   ELSE pc' = "block" /\ UNCHANGED mEmitSync
    /\ UNCHANGED <<shared, locals, hsm, client>>

\* The condition variable releases the mutex as it blocks.
Block ==
    /\ pc = "block"
    /\ pc' = "blocked"
    /\ mEmitSync' = FALSE
    /\ UNCHANGED <<shared, locals, hsm, client>>

SpuriousWakeup ==
    /\ pc = "blocked"
    /\ pc' = "woken"
    /\ UNCHANGED <<shared, mEmitSync, locals, hsm, client>>

WakeUp ==
    /\ pc = "woken" /\ ~ mEmitSync
    /\ pc' = "decide"
    /\ mEmitSync' = TRUE
    /\ UNCHANGED <<shared, locals, hsm, client>>

DispatcherStep ==
    \/ Loop \/ TakeActions \/ RunAction \/ ActionsDone \/ SeePending \/ TakePending
    \/ TakeEnqueued \/ DeliverEnqueued \/ EnqueuedDone \/ CopyHandlers \/ NextEvent
    \/ StartDispatching \/ DispatcherIsGone \/ DispatchUnlessStopped \/ ReturnFromHandler
    \/ EventsDone \/ GoToSleep \/ Decide \/ Block \/ WakeUp

ReleaseStep(h) ==
    \/ Release(h) \/ RemovePending(h) \/ EraseHandler(h) \/ EraseEnqueuedHandler(h)
    \/ ReleaseReturns(h)

Next ==
    /\ pc # "terminated"
    /\ \/ DispatcherStep \/ SpuriousWakeup \/ Stop
       \/ \E c \in Clients : ClientStep(c)
       \/ \E h \in Handlers : ReleaseStep(h)

Spec == Init /\ [][Next]_vars

\* The dispatcher's thread runs, and so does one that has appended, or that waits in
\* release() for a flag nobody sets again.
Fairness ==
    /\ WF_vars(DispatcherStep)
    /\ \A c \in Clients : /\ WF_vars(NotifyDispatcher(c))
                          /\ WF_vars(\E h \in Handlers, e \in Signals : EnqueueEvent(c, h, e))
    /\ \A h \in Handlers : WF_vars(ReleaseReturns(h))

FairSpec == Spec /\ Fairness
-----------------------------------------------------------------------------
\* No wake-up of an emission is lost: the dispatcher never blocks over a queue
\* that holds an emission unless the thread that appended it is about to notify.
NeverSleepsOnEvents ==
    pc \in {"block", "blocked"} /\ mPendingEvents # <<>> =>
        \E c \in Clients : client[c] = "notify"

\* An enqueued event that a dispatcher awake or being woken can see is delivered: the
\* only one that may be missed arrives between the last look and the sleep.
EnqueuedSeenAwake ==
    pc \in {"loop", "woken"} /\ mEnqueuedEvents # <<>> ~>
        mEnqueuedEvents = <<>> \/ mStopDispatcher

\* stop() reaches the dispatcher wherever it stands.
Stops == mStopDispatcher ~> pc = "exit"

\* Once release() has returned, no event of the state machine is being handled and
\* none will be (the object may be deleted).
ReleasedIsQuiet ==
    \A h \in Handlers : hsm[h] = "released" => ~ (current = h /\ pc = "running")

\* release() called from any thread but the dispatcher's returns.
ReleaseEnds == \A h \in Handlers : hsm[h] = "unregistered" ~> hsm[h] = "released"

\* The promise of emitEvent().  Emissions taken from the list but not served yet
\* are still waiting; what stop() leaves behind is canceled.
Promise == INSTANCE EventDispatcher WITH
    queue   <- IF mStopDispatcher THEN <<>> ELSE events \o mPendingEvents,
    serving <- current,
    leaving <- {h \in Handlers : hsm[h] # "live"},
    running <- ~ mStopDispatcher

EmissionsServed == Promise!Spec

-----------------------------------------------------------------------------
\* An event that an interrupt enqueued is delivered.
EnqueuedDelivered == mEnqueuedEvents # <<>> ~> mEnqueuedEvents = <<>>

\* An action is executed.
ActionsExecuted == mPendingActions > 0 ~> mPendingActions = 0

\* The queue for interrupts never grows beyond the memory reserved for it.
WithinCacheSize == capacity = CacheSize

\* Enqueued events are delivered in the order of emitEvent(): the oldest first.
OldestFirst ==
    [][DeliverEnqueued => currentEvents' = Tail(currentEvents)]_vars
=============================================================================
