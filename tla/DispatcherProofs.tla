-------------------------- MODULE DispatcherProofs --------------------------
(***************************************************************************)
(* Safety of HsmEventDispatcherSTD for every set of state machines, every  *)
(* number of client threads and every bound.                               *)
(***************************************************************************)
EXTENDS DispatcherSTD, ListEraseProofs

-----------------------------------------------------------------------------
\* The dispatcher holds mEmitSync from its look at the queue until it is blocked,
\* so that whoever appends does so before the look or after the thread is ready to
\* be notified.
SleepInv ==
    /\ client \in [Clients -> {"ready", "enqueue", "notify"}]
    /\ pc \in {"decide", "block"} => mEmitSync
    /\ pc = "block" => mPendingEvents = <<>>
    /\ pc = "blocked" /\ mPendingEvents # <<>> => \E c \in Clients : client[c] = "notify"

LEMMA SleepInvByDispatcher ==
    ASSUME SleepInv, DispatcherStep
    PROVE  SleepInv'
<1> USE DEF SleepInv, shared, locals
<1>1. CASE Loop \/ TakeActions \/ RunAction \/ ActionsDone \/ SeePending \/ TakePending
  BY <1>1 DEF Loop, TakeActions, RunAction, ActionsDone, SeePending, TakePending
<1>2. CASE TakeEnqueued \/ DeliverEnqueued \/ EnqueuedDone \/ CopyHandlers
  BY <1>2 DEF TakeEnqueued, DeliverEnqueued, EnqueuedDone, CopyHandlers
<1>3. CASE \/ NextEvent \/ StartDispatching \/ DispatcherIsGone
           \/ DispatchUnlessStopped \/ ReturnFromHandler \/ EventsDone
  BY <1>3 DEF NextEvent, StartDispatching, DispatcherIsGone, DispatchUnlessStopped,
     ReturnFromHandler, EventsDone
<1>4. CASE GoToSleep \/ Block \/ WakeUp
  BY <1>4 DEF GoToSleep, Block, WakeUp
<1>5. CASE Decide
  BY <1>5 DEF Decide, WorkToDo
<1> QED BY <1>1, <1>2, <1>3, <1>4, <1>5 DEF DispatcherStep

LEMMA SleepInvByClient ==
    ASSUME SleepInv, NEW c \in Clients, ClientStep(c)
    PROVE  SleepInv'
<1> USE DEF SleepInv, shared, locals
<1>1. CASE \E h \in Handlers : EmitEvent(c, h)
  BY <1>1 DEF EmitEvent
<1>2. CASE CheckCapacity(c)
  BY <1>2 DEF CheckCapacity
<1>3. CASE \E h \in Handlers, e \in Signals : EnqueueEvent(c, h, e)
  BY <1>3 DEF EnqueueEvent
<1>4. CASE EnqueueAction(c)
  BY <1>4 DEF EnqueueAction
<1>5. CASE NotifyDispatcher(c)
  BY <1>5 DEF NotifyDispatcher, WakeDispatcher
<1> QED BY <1>1, <1>2, <1>3, <1>4, <1>5 DEF ClientStep

LEMMA SleepInvByRelease ==
    ASSUME SleepInv, NEW h \in Handlers, ReleaseStep(h)
    PROVE  SleepInv'
<1> USE DEF SleepInv, shared, locals
<1>1. CASE RemovePending(h)
  BY <1>1, NothingToErase DEF RemovePending
<1>2. CASE Release(h) \/ EraseHandler(h) \/ EraseEnqueuedHandler(h) \/ ReleaseReturns(h)
  BY <1>2 DEF Release, EraseHandler, EraseEnqueuedHandler, ReleaseReturns
<1> QED BY <1>1, <1>2 DEF ReleaseStep

\* The dispatcher's thread never blocks in doDispatching over an emission whose
\* notification has already been spent.
THEOREM NoLostWakeup == Spec => []NeverSleepsOnEvents
<1>1. Init => SleepInv
  BY DEF Init, SleepInv
<1>2. SleepInv /\ [Next]_vars => SleepInv'
  <2> SUFFICES ASSUME SleepInv, [Next]_vars PROVE SleepInv'
    OBVIOUS
  <2>1. CASE SpuriousWakeup \/ Stop
    BY <2>1 DEF SleepInv, SpuriousWakeup, Stop, WakeDispatcher, shared, locals
  <2>2. CASE UNCHANGED vars
    BY <2>2 DEF SleepInv, vars, shared
  <2> QED BY <2>1, <2>2, SleepInvByDispatcher, SleepInvByClient, SleepInvByRelease DEF Next
<1>3. SleepInv => NeverSleepsOnEvents
  BY DEF SleepInv, NeverSleepsOnEvents
<1> QED BY <1>1, <1>2, <1>3, PTL DEF Spec

-----------------------------------------------------------------------------
\* The flag of a machine is looked at after mStopDispatching was set, and
\* mStopDispatching after the flag: one of the two sees the other.
QuietInv ==
    /\ DOMAIN hsm = Handlers
    /\ ReleasedIsQuiet

LEMMA QuietInvByDispatcher ==
    ASSUME QuietInv, DispatcherStep
    PROVE  QuietInv'
<1> USE DEF QuietInv, ReleasedIsQuiet
<1>1. hsm' = hsm
  BY DEF DispatcherStep, Loop, TakeActions, RunAction, ActionsDone, SeePending,
     TakePending, TakeEnqueued, DeliverEnqueued, EnqueuedDone, CopyHandlers, NextEvent,
     StartDispatching, DispatcherIsGone, DispatchUnlessStopped, ReturnFromHandler,
     EventsDone, GoToSleep, Decide, Block, WakeUp
<1>2. CASE DispatchUnlessStopped
  BY <1>1, <1>2 DEF DispatchUnlessStopped
<1>3. CASE ~ DispatchUnlessStopped
  <2>1. pc' = "running" => pc = "running" /\ current' = current
    BY <1>3 DEF DispatcherStep, Loop, TakeActions, RunAction, ActionsDone, SeePending,
       TakePending, TakeEnqueued, DeliverEnqueued, EnqueuedDone, CopyHandlers, NextEvent,
       StartDispatching, DispatcherIsGone, ReturnFromHandler, EventsDone, GoToSleep, Decide,
       Block, WakeUp
  <2> QED BY <1>1, <2>1
<1> QED BY <1>2, <1>3

LEMMA QuietInvByRelease ==
    ASSUME QuietInv, NEW h \in Handlers, ReleaseStep(h)
    PROVE  QuietInv'
<1> USE DEF QuietInv, ReleasedIsQuiet, locals
<1>1. CASE ReleaseReturns(h)
  BY <1>1 DEF ReleaseReturns, mIsDispatching
<1>2. CASE Release(h) \/ RemovePending(h) \/ EraseHandler(h) \/ EraseEnqueuedHandler(h)
  BY <1>2 DEF Release, RemovePending, EraseHandler, EraseEnqueuedHandler
<1> QED BY <1>1, <1>2 DEF ReleaseStep

\* After release() has returned to its caller, dispatchEvents of that machine does
\* not carry out transitions, whenever its emissions were made and taken.
THEOREM ReleasedStaysQuiet == Spec => []ReleasedIsQuiet
<1>1. Init => QuietInv
  BY DEF Init, QuietInv, ReleasedIsQuiet
<1>2. QuietInv /\ [Next]_vars => QuietInv'
  <2> SUFFICES ASSUME QuietInv, [Next]_vars PROVE QuietInv'
    OBVIOUS
  <2>1. CASE SpuriousWakeup \/ Stop \/ (\E c \in Clients : ClientStep(c))
    <3>1. hsm' = hsm /\ current' = current /\ (pc' = "running" => pc = "running")
      BY <2>1 DEF SpuriousWakeup, Stop, ClientStep, EmitEvent, CheckCapacity,
         EnqueueEvent, EnqueueAction, NotifyDispatcher, WakeDispatcher, locals
    <3> QED BY <3>1 DEF QuietInv, ReleasedIsQuiet
  <2>2. CASE UNCHANGED vars
    BY <2>2 DEF QuietInv, ReleasedIsQuiet, vars, locals
  <2> QED BY <2>1, <2>2, QuietInvByDispatcher, QuietInvByRelease DEF Next
<1>3. QuietInv => ReleasedIsQuiet
  BY DEF QuietInv
<1> QED BY <1>1, <1>2, <1>3, PTL DEF Spec

-----------------------------------------------------------------------------
(* The promise of emitEvent()                                              *)

\* Where the thread has a handler called, and where it may have emissions of its own.
Calling == {"called", "flagged", "running"}
Serving == {"enqueued", "callbacks", "copy", "handle", "terminated"} \cup Calling

\* As long as stop() has not been called, a machine that is not being released has a
\* handler, also in the copy that a round works on.
ServingInv ==
    /\ mPendingEvents \in Seq(Handlers) /\ events \in Seq(Handlers)
    /\ mEnqueuedEvents \in Seq(EnqueuedEventInfo) /\ currentEvents \in Seq(EnqueuedEventInfo)
    /\ DOMAIN hsm = Handlers
    /\ current \in Handlers \cup {NoHandler}
    /\ current # NoHandler <=> pc \in Calling
    /\ events # <<>> => pc \in Serving
    /\ \A h \in Handlers :
          ~ mStopDispatcher /\ hsm[h] = "live" =>
              /\ h \in mEventHandlers
              /\ pc \in {"handle"} \cup Calling => h \in handlers

LEMMA ServingInvByDispatcher ==
    ASSUME ServingInv, DispatcherStep
    PROVE  ServingInv'
<1> USE DispatcherAssumption DEF ServingInv, Calling, Serving, shared, locals
<1>1. CASE Loop \/ TakeActions \/ RunAction \/ ActionsDone \/ SeePending
  BY <1>1 DEF Loop, TakeActions, RunAction, ActionsDone, SeePending
<1>2. CASE TakePending
  BY <1>2, EmptySeq DEF TakePending
<1>3. CASE TakeEnqueued
  BY <1>3, EmptySeq DEF TakeEnqueued
<1>4. CASE DeliverEnqueued
  <2>1. /\ Last(currentEvents) \in EnqueuedEventInfo
        /\ Front(currentEvents) \in Seq(EnqueuedEventInfo)
    BY <1>4, FrontAndLast DEF DeliverEnqueued
  <2>2. Last(currentEvents).handlerID \in Handlers
    BY <2>1 DEF EnqueuedEventInfo
  <2>3. mPendingEvents' \in Seq(Handlers)
    BY <1>4, <2>2, AppendProperties DEF DeliverEnqueued
  <2> QED BY <1>4, <2>1, <2>3 DEF DeliverEnqueued
<1>5. CASE EnqueuedDone
  BY <1>5, EmptySeq DEF EnqueuedDone
<1>10. CASE CopyHandlers
  BY <1>10, EmptySeq DEF CopyHandlers
<1>6. CASE NextEvent
  <2>1. Head(events) \in Handlers /\ Tail(events) \in Seq(Handlers)
    BY <1>6, HeadTailProperties DEF NextEvent
  <2> QED BY <1>6, <2>1 DEF NextEvent
<1>7. CASE StartDispatching \/ DispatcherIsGone \/ DispatchUnlessStopped
  BY <1>7 DEF StartDispatching, DispatcherIsGone, DispatchUnlessStopped
<1>11. CASE EventsDone
  BY <1>11, EmptySeq DEF EventsDone
<1>8. CASE ReturnFromHandler
  <2>1. current \in Handlers
    BY <1>8 DEF ReturnFromHandler
  <2>2. mPendingEvents' \in Seq(Handlers)
    <3>1. mPendingEvents' \in {mPendingEvents, Append(mPendingEvents, current)}
      BY <1>8 DEF ReturnFromHandler
    <3>2. Append(mPendingEvents, current) \in Seq(Handlers)
      BY <2>1, AppendProperties
    <3> QED BY <3>1, <3>2
  <2> QED BY <1>8, <2>2 DEF ReturnFromHandler
<1>9. CASE GoToSleep \/ Decide \/ Block \/ WakeUp
  BY <1>9 DEF GoToSleep, Decide, Block, WakeUp
<1> QED BY <1>1, <1>2, <1>3, <1>4, <1>5, <1>6, <1>7, <1>8, <1>9, <1>10, <1>11
      DEF DispatcherStep

LEMMA ServingInvByOthers ==
    ASSUME ServingInv,
           \/ SpuriousWakeup \/ Stop \/ UNCHANGED vars
           \/ \E c \in Clients : ClientStep(c)
           \/ \E h \in Handlers : ReleaseStep(h)
    PROVE  ServingInv'
<1> USE DEF ServingInv, Calling, Serving, shared, locals
<1>1. CASE SpuriousWakeup \/ Stop \/ UNCHANGED vars
  BY <1>1 DEF SpuriousWakeup, Stop, WakeDispatcher, vars
<1>2. ASSUME NEW c \in Clients, ClientStep(c) PROVE ServingInv'
  <2>1. ASSUME NEW h \in Handlers, EmitEvent(c, h) PROVE ServingInv'
    BY <2>1, AppendProperties DEF EmitEvent
  <2>2. ASSUME NEW h \in Handlers, NEW e \in Signals, EnqueueEvent(c, h, e) PROVE ServingInv'
    <3>1. [handlerID |-> h, eventID |-> e] \in EnqueuedEventInfo
      BY DEF EnqueuedEventInfo
    <3>2. mEnqueuedEvents' \in Seq(EnqueuedEventInfo)
      BY <2>2, <3>1, AppendProperties DEF EnqueueEvent
    <3> QED BY <2>2, <3>2 DEF EnqueueEvent
  <2>3. CASE CheckCapacity(c) \/ EnqueueAction(c) \/ NotifyDispatcher(c)
    BY <2>3 DEF CheckCapacity, EnqueueAction, NotifyDispatcher, WakeDispatcher
  <2> QED BY <1>2, <2>1, <2>2, <2>3 DEF ClientStep
<1>3. ASSUME NEW h \in Handlers, ReleaseStep(h) PROVE ServingInv'
  <2>1. CASE RemovePending(h)
    BY <2>1, WithoutTyped DEF RemovePending
  <2>2. CASE Release(h) \/ EraseHandler(h) \/ EraseEnqueuedHandler(h) \/ ReleaseReturns(h)
    BY <2>2 DEF Release, EraseHandler, EraseEnqueuedHandler, ReleaseReturns
  <2> QED BY <1>3, <2>1, <2>2 DEF ReleaseStep
<1> QED BY <1>1, <1>2, <1>3

LEMMA ServingInvHolds == Spec => []ServingInv
<1>1. Init => ServingInv
  BY DispatcherAssumption, EmptySeq DEF Init, ServingInv, Calling
<1>2. ServingInv /\ [Next]_vars => ServingInv'
  BY ServingInvByDispatcher, ServingInvByOthers DEF Next
<1> QED BY <1>1, <1>2, PTL DEF Spec

\* The promise's list of emissions loses elements as the dispatcher's does.
LEMMA PromiseErases ==
    ASSUME NEW s, NEW places
    PROVE  Promise!Without(s, places) = Without(s, places)
<1>1. \A S : Promise!Cardinality(S) = Cardinality(S)
  BY Zenon DEF Promise!Cardinality, Cardinality
<1> DEFINE left == DOMAIN s \ places
           rank == [i \in left |-> Cardinality({j \in left : j <= i})]
           rankThere == [i \in left |-> Promise!Cardinality({j \in left : j <= i})]
<1>2. rankThere = rank
  BY <1>1
<1>3. /\ Without(s, places) =
             [n \in 1 .. Cardinality(left) |-> s[CHOOSE i \in left : rank[i] = n]]
      /\ Promise!Without(s, places) =
             [n \in 1 .. Promise!Cardinality(left) |-> s[CHOOSE i \in left : rankThere[i] = n]]
  BY DEF Without, Promise!Without
<1> HIDE DEF left, rank, rankThere
<1> QED BY <1>1, <1>2, <1>3

LEMMA EmittedInPromise ==
    ASSUME ServingInv, NEW h \in Handlers,
           mPendingEvents' = Append(mPendingEvents, h), events' = events,
           mStopDispatcher' = mStopDispatcher, current' = current, hsm' = hsm
    PROVE  Promise!Next \/ UNCHANGED Promise!vars
<1>1. CASE mStopDispatcher
  BY <1>1 DEF Promise!vars
<1>2. CASE ~ mStopDispatcher
  <2>1. events \o Append(mPendingEvents, h) = Append(events \o mPendingEvents, h)
    BY DEF ServingInv
  <2>2. Promise!EmitEvent(h)
    BY <1>2, <2>1 DEF Promise!EmitEvent
  <2> QED BY <2>2 DEF Promise!Next
<1> QED BY <1>1, <1>2

LEMMA PromiseByDispatcher ==
    ASSUME ServingInv, DispatcherStep
    PROVE  Promise!Next \/ UNCHANGED Promise!vars
<1> USE DEF shared, locals
<1>0. events \in Seq(Handlers) /\ mPendingEvents \in Seq(Handlers)
  BY DEF ServingInv
<1>1. CASE \/ Loop \/ TakeActions \/ RunAction \/ ActionsDone \/ SeePending \/ TakeEnqueued
           \/ EnqueuedDone \/ StartDispatching \/ GoToSleep \/ Decide \/ Block \/ WakeUp
  BY <1>1 DEF Loop, TakeActions, RunAction, ActionsDone, SeePending, TakeEnqueued,
     EnqueuedDone, StartDispatching, GoToSleep, Decide, Block, WakeUp, Promise!vars
<1>2. CASE TakePending
  <2>1. events = <<>> /\ events' = mPendingEvents /\ mPendingEvents' = <<>>
    BY <1>2 DEF TakePending, ServingInv, Serving, Calling
  <2>2. events' \o mPendingEvents' = events \o mPendingEvents
    BY <1>0, <2>1, ConcatEmptySeq
  <2> QED BY <1>2, <2>2 DEF TakePending, Promise!vars
<1>3. CASE DeliverEnqueued
  <2>1. Last(currentEvents) \in EnqueuedEventInfo
    BY <1>3, FrontAndLast DEF DeliverEnqueued, ServingInv
  <2>1a. Last(currentEvents).handlerID \in Handlers
    BY <2>1 DEF EnqueuedEventInfo
  <2>2. CASE hsm[Last(currentEvents).handlerID] = "live"
    BY <1>3, <2>1a, <2>2, EmittedInPromise DEF DeliverEnqueued
  <2>3. CASE hsm[Last(currentEvents).handlerID] # "live"
    BY <1>3, <2>3 DEF DeliverEnqueued, Promise!vars
  <2> QED BY <2>2, <2>3
<1>4. CASE CopyHandlers \/ EventsDone
  BY <1>4 DEF CopyHandlers, EventsDone, Promise!vars
<1>5. CASE NextEvent
  <2> DEFINE h == Head(events)
             queue == events \o mPendingEvents
  <2>1. /\ events # <<>> /\ ~ mStopDispatcher /\ mStopDispatcher' = mStopDispatcher
        /\ events' = Tail(events) /\ mPendingEvents' = mPendingEvents /\ hsm' = hsm
        /\ pc = "handle"
    BY <1>5 DEF NextEvent
  <2>2. /\ queue \in Seq(Handlers) /\ queue # <<>> /\ 1 \in DOMAIN queue
        /\ Head(queue) = h /\ queue[1] = h
        /\ Tail(queue) = Tail(events) \o mPendingEvents
    BY <1>0, <2>1
  <2>3. current = NoHandler
    BY <2>1 DEF ServingInv, Calling
  <2>4. CASE h \in handlers /\ hsm[h] = "live"
    <3>1. current' = h
      BY <1>5, <2>4 DEF NextEvent
    <3>2. Promise!Serve
      BY <2>1, <2>2, <2>3, <3>1 DEF Promise!Serve
    <3> QED BY <3>2 DEF Promise!Next
  <2>5. CASE ~ (h \in handlers /\ hsm[h] = "live")
    <3>1. h \in Handlers
      BY <1>0, <2>1, HeadTailProperties
    <3>2. hsm[h] # "live"
      BY <2>1, <2>5, <3>1 DEF ServingInv
    <3>3. current' = current
      BY <1>5, <2>5 DEF NextEvent
    <3>4. Tail(events) \o mPendingEvents = Without(queue, {1})
      BY <2>2, WithoutFirst
    <3>5. {1} \in SUBSET {i \in DOMAIN queue : queue[i] \in {g \in Handlers : hsm[g] # "live"}}
      BY <2>2, <3>1, <3>2
    <3>6. Promise!Drop
      BY <2>1, <3>3, <3>4, <3>5, PromiseErases DEF Promise!Drop
    <3> QED BY <3>6 DEF Promise!Next
  <2> QED BY <2>4, <2>5
<1>6. CASE DispatcherIsGone
  <2>1. Promise!Return
    BY <1>6 DEF DispatcherIsGone, Promise!Return, ServingInv, Calling
  <2> QED BY <2>1 DEF Promise!Next
<1>7. CASE DispatchUnlessStopped
  <2>1. CASE hsm[current] = "live"
    BY <1>7, <2>1 DEF DispatchUnlessStopped, Promise!vars
  <2>2. CASE hsm[current] # "live"
    <3>1. Promise!Return
      BY <1>7, <2>2 DEF DispatchUnlessStopped, Promise!Return, ServingInv, Calling
    <3> QED BY <3>1 DEF Promise!Next
  <2> QED BY <2>1, <2>2
<1>8. CASE ReturnFromHandler
  <2>1. /\ current # NoHandler /\ current' = NoHandler /\ events' = events
        /\ mStopDispatcher' = mStopDispatcher /\ hsm' = hsm
        /\ mPendingEvents' = mPendingEvents \/ mPendingEvents' = Append(mPendingEvents, current)
    BY <1>8 DEF ReturnFromHandler, ServingInv, Calling
  <2>2. events \o Append(mPendingEvents, current) = Append(events \o mPendingEvents, current)
    BY <1>0, <2>1 DEF ServingInv
  <2>3. Promise!Return
    BY <2>1, <2>2 DEF Promise!Return
  <2> QED BY <2>3 DEF Promise!Next
<1> QED BY <1>1, <1>2, <1>3, <1>4, <1>5, <1>6, <1>7, <1>8 DEF DispatcherStep

LEMMA PromiseByRelease ==
    ASSUME ServingInv, NEW h \in Handlers, ReleaseStep(h)
    PROVE  Promise!Next \/ UNCHANGED Promise!vars
<1> USE DEF shared, locals
<1>0. DOMAIN hsm = Handlers
  BY DEF ServingInv
<1>a. events \in Seq(Handlers) /\ mPendingEvents \in Seq(Handlers)
  BY DEF ServingInv
<1>1. CASE Release(h)
  <2>1. /\ hsm' = [hsm EXCEPT ![h] = "stopped"]
        /\ UNCHANGED <<mStopDispatcher, events, mPendingEvents, current>>
    BY <1>1 DEF Release
  <2>2. {g \in Handlers : hsm'[g] # "live"} = {g \in Handlers : hsm[g] # "live"} \cup {h}
    BY <1>0, <2>1
  <2>3. Promise!Unregister(h)
    BY <2>1, <2>2 DEF Promise!Unregister
  <2> QED BY <2>3 DEF Promise!Next
<1>2. CASE RemovePending(h)
  <2>1. /\ hsm[h] = "stopped" /\ hsm' = [hsm EXCEPT ![h] = "removed"]
        /\ UNCHANGED <<mStopDispatcher, events, current>>
        /\ mPendingEvents' = Without(mPendingEvents, PlacesOf(mPendingEvents, h))
    BY <1>2 DEF RemovePending
  <2>2. {g \in Handlers : hsm'[g] # "live"} = {g \in Handlers : hsm[g] # "live"}
    BY <1>0, <2>1
  <2>3. CASE mStopDispatcher \/ events \o mPendingEvents' = events \o mPendingEvents
    BY <2>1, <2>2, <2>3 DEF Promise!vars
  <2>4. CASE ~ mStopDispatcher /\ events \o mPendingEvents' # events \o mPendingEvents
    <3> DEFINE queue == events \o mPendingEvents
    <3>1. PICK places \in SUBSET PlacesOf(queue, h) :
             places # {} /\ events \o mPendingEvents' = Without(queue, places)
      <4>1. \/ events \o Without(mPendingEvents, PlacesOf(mPendingEvents, h))
                  = events \o mPendingEvents
            \/ \E places \in SUBSET PlacesOf(events \o mPendingEvents, h) :
                  /\ places # {}
                  /\ events \o Without(mPendingEvents, PlacesOf(mPendingEvents, h))
                        = Without(events \o mPendingEvents, places)
        BY <1>a, ErasedFromSecond, Zenon
      <4> QED BY <2>1, <2>4, <4>1, Zenon
    <3>2. places \in SUBSET {i \in DOMAIN queue : queue[i] \in {g \in Handlers : hsm[g] # "live"}}
      BY <2>1, <3>1 DEF PlacesOf
    <3>3. Promise!Drop
      <4> HIDE DEF queue
      <4>1. Promise!Without(queue, places) = Without(queue, places)
        BY PromiseErases
      <4> QED BY <2>1, <2>2, <2>4, <3>1, <3>2, <4>1 DEF Promise!Drop, queue
    <3> QED BY <3>3 DEF Promise!Next
  <2> QED BY <2>3, <2>4
<1>3. CASE EraseHandler(h) \/ EraseEnqueuedHandler(h) \/ ReleaseReturns(h)
  <2>1. /\ hsm[h] # "live" /\ \E to \in {"erased", "unregistered", "released"} :
                                   hsm' = [hsm EXCEPT ![h] = to]
        /\ UNCHANGED <<mStopDispatcher, events, mPendingEvents, current>>
    BY <1>3 DEF EraseHandler, EraseEnqueuedHandler, ReleaseReturns
  <2>2. {g \in Handlers : hsm'[g] # "live"} = {g \in Handlers : hsm[g] # "live"}
    BY <1>0, <2>1
  <2> QED BY <2>1, <2>2 DEF Promise!vars
<1> QED BY <1>1, <1>2, <1>3 DEF ReleaseStep

LEMMA PromiseByOthers ==
    ASSUME ServingInv,
           SpuriousWakeup \/ Stop \/ UNCHANGED vars \/ \E c \in Clients : ClientStep(c)
    PROVE  Promise!Next \/ UNCHANGED Promise!vars
<1> USE DEF shared, locals
<1>1. CASE SpuriousWakeup \/ UNCHANGED vars
  BY <1>1 DEF SpuriousWakeup, vars, Promise!vars
<1>2. CASE Stop
  <2>1. Promise!Stop
    BY <1>2 DEF Stop, Promise!Stop
  <2> QED BY <2>1 DEF Promise!Next
<1>3. ASSUME NEW c \in Clients, ClientStep(c) PROVE Promise!Next \/ UNCHANGED Promise!vars
  <2>1. ASSUME NEW h \in Handlers, EmitEvent(c, h)
        PROVE  Promise!Next \/ UNCHANGED Promise!vars
    BY <2>1, EmittedInPromise DEF EmitEvent
  <2>2. CASE \/ CheckCapacity(c) \/ EnqueueAction(c) \/ NotifyDispatcher(c)
             \/ \E h \in Handlers, e \in Signals : EnqueueEvent(c, h, e)
    <3>1. UNCHANGED <<mStopDispatcher, events, mPendingEvents, current, hsm>>
      BY <2>2 DEF CheckCapacity, EnqueueEvent, EnqueueAction, NotifyDispatcher
    <3> QED BY <3>1 DEF Promise!vars
  <2> QED BY <1>3, <2>1, <2>2 DEF ClientStep
<1> QED BY <1>1, <1>2, <1>3

\* The dispatcher keeps the promise of emitEvent(), as far as it is about safety:
\* emissions are served one at a time, each once and in the order they were made;
\* only those of a machine that is being released, or all by stop(), are given up.
THEOREM EmissionsServedSafely == Spec => Promise!Safety
<1>1. Init => Promise!Init
  <2> SUFFICES ASSUME Init PROVE Promise!Init
    OBVIOUS
  <2>1. mStopDispatcher = FALSE /\ events \o mPendingEvents = <<>> /\ current = NoHandler
    BY EmptySeq, ConcatEmptySeq DEF Init
  <2>2. {h \in Handlers : hsm[h] # "live"} = {}
    BY DEF Init
  <2> QED BY <2>1, <2>2 DEF Promise!Init
<1>2. ServingInv /\ [Next]_vars => [Promise!Next]_(Promise!vars)
  BY PromiseByDispatcher, PromiseByRelease, PromiseByOthers DEF Next
<1> QED BY <1>1, <1>2, ServingInvHolds, PTL DEF Spec, Promise!Safety
=============================================================================
