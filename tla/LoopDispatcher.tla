---------------------------- MODULE LoopDispatcher ----------------------------
(***************************************************************************)
(* The dispatchers that serve their events on a loop they do not own: that *)
(* of GLib, GLibmm or Qt, the loop() of an Arduino sketch, or a task of    *)
(* FreeRTOS (HsmEventDispatcherGLib.cpp and its siblings).  What differs   *)
(* is how the loop learns of work - a byte in a pipe, a posted event, a    *)
(* task notification, nothing - and what start() and stop() do to that     *)
(* channel; the rest is HsmEventDispatcherBase::dispatchPendingEvents().   *)
(*                                                                         *)
(* One of the callers is the loop itself: handlers and actions run on it   *)
(* and use the dispatcher.  A caller's stack holds what is left of the     *)
(* calls it is in, since FreeRTOS delivers enqueued events, which emit, in *)
(* the middle of emitEvent().                                              *)
(***************************************************************************)
EXTENDS Naturals, Sequences, FiniteSets, SequencesExt, ListErase

CONSTANTS
    Platforms,      \* a subset of AllPlatforms
    Handlers,       \* HandlerID_t of the state machines
    NoHandler,      \* INVALID_HSM_DISPATCHER_HANDLER_ID
    Clients,        \* threads, tasks or interrupts other than the loop
    Loop,           \* the loop as a caller
    MayRelease,     \* handlers whose state machine is released
    MayEnqueue,     \* handlers whose state machine is used from interrupts
    MayRestart,     \* whether start() is called after stop()
    CacheSize,      \* eventsCacheSize: what mEnqueuedEvents reserves at first
    PipeSize,       \* notifications a pipe holds
    MaxCalls        \* bound: calls that emit, enqueue, release or stop

AllPlatforms == {"GLib", "GLibmm", "Qt", "Arduino", "FreeRTOS"}

ASSUME LoopAssumption ==
    /\ Platforms \subseteq AllPlatforms
    /\ NoHandler \notin Handlers
    /\ Loop \notin Clients
    /\ MayRelease \subseteq Handlers /\ MayEnqueue \subseteq Handlers
    /\ MayRestart \in BOOLEAN
    /\ CacheSize \in Nat /\ PipeSize \in Nat /\ MaxCalls \in Nat

VARIABLES
    platform,
    channel,           \* "none", "open", or "half": only its write end is open
    wakeups,           \* notifications in the channel
    started,           \* what the owner did last: "never", "started", "stopped"
    mStopDispatcher,
    mEventHandlers,    \* registered handlers
    mPendingEvents,    \* emissions, the oldest first
    mEnqueuedEvents,   \* handlers of the enqueued events, the oldest first
    capacity,          \* of mEnqueuedEvents: how many it has memory for
    overlapped,        \* auxiliary: whether two callers were ever between the comparison
                       \* with it and the append
    mPendingActions,   \* how many actions wait
    pc,                \* where the loop stands
    events,            \* its local list of emissions
    actions,           \* its local list of actions, counted
    handlers,          \* eventHandlersCopy
    current,           \* the handler being called
    hsm,               \* how far release() of each state machine has come
    stack,             \* what is left of the calls of each caller
    calls              \* how many calls were made

queues == <<mPendingEvents, mEnqueuedEvents, mPendingActions>>
memory == <<capacity, overlapped>>
control == <<channel, wakeups, started, mStopDispatcher>>
locals == <<events, actions, handlers, current>>
vars == <<platform, control, mEventHandlers, queues, memory, pc, locals, hsm, stack,
          calls>>

Callers == Clients \cup {Loop}

Operations == [op : {"emit", "deliver", "again", "append", "enqueue", "act", "notify"},
               handler : Handlers \cup {NoHandler}]

Op(op, h) == [op |-> op, handler |-> h]

TypeOK ==
    /\ platform \in AllPlatforms
    /\ channel \in {"none", "open", "half"}
    /\ wakeups \in Nat
    /\ started \in {"never", "started", "stopped"}
    /\ mStopDispatcher \in BOOLEAN
    /\ mEventHandlers \subseteq Handlers
    /\ mPendingEvents \in Seq(Handlers)
    /\ mEnqueuedEvents \in Seq(Handlers) /\ capacity \in Nat /\ overlapped \in BOOLEAN
    /\ mPendingActions \in Nat /\ actions \in Nat
    /\ pc \in {"idle", "actions", "perform", "take", "enqueued", "copy", "handle",
               "running", "exited", "terminated"}
    /\ events \in Seq(Handlers)
    /\ handlers \subseteq Handlers
    /\ current \in Handlers \cup {NoHandler}
    /\ hsm \in [Handlers -> {"live", "stopped", "removed", "unregistered"}]
    /\ stack \in [Callers -> Seq(Operations)]
    /\ calls \in Nat

Init ==
    /\ platform \in Platforms
    /\ channel = "none" /\ wakeups = 0 /\ started = "never" /\ mStopDispatcher = FALSE
    /\ mEventHandlers = Handlers
    /\ mPendingEvents = <<>> /\ mEnqueuedEvents = <<>> /\ mPendingActions = 0
    /\ capacity = CacheSize /\ overlapped = FALSE
    /\ pc = "idle"
    /\ events = <<>> /\ actions = 0
    /\ handlers = {} /\ current = NoHandler
    /\ hsm = [h \in Handlers |-> "live"]
    /\ stack = [c \in Callers |-> <<>>]
    /\ calls = 0

-----------------------------------------------------------------------------
(* start() and stop()                                                      *)

\* GLib and GLibmm make a new channel, which is empty; Qt registers a type of events,
\* once.  None of them resets mStopDispatcher.
OpenPipe ==
    /\ platform = "GLib" /\ channel = "none"
    /\ channel' = "open" /\ wakeups' = 0
    /\ UNCHANGED <<mStopDispatcher, pc>>

ConnectDispatcher ==
    /\ platform = "GLibmm" /\ channel = "none"
    /\ channel' = "open" /\ wakeups' = 0
    /\ UNCHANGED <<mStopDispatcher, pc>>

RegisterEventType ==
    /\ platform = "Qt"
    /\ channel' = "open"
    /\ UNCHANGED <<mStopDispatcher, wakeups, pc>>

StartSketch ==
    /\ platform = "Arduino"
    /\ channel' = "open" /\ mStopDispatcher' = FALSE /\ pc' = "idle"
    /\ UNCHANGED wakeups

\* A new task of FreeRTOS that is preferred to its creator looks at mStopDispatcher
\* before start() resets it, and ends if an earlier stop() has left it set.
StartTask ==
    /\ platform = "FreeRTOS" /\ channel = "none"
    /\ mStopDispatcher' = FALSE
    /\ wakeups' = 0
    /\ \/ channel' = "open" /\ pc' = "actions"
       \/ mStopDispatcher /\ channel' = "none" /\ pc' = "exited"

Start ==
    /\ stack[Loop] = <<>>
    /\ started = "never" \/ (MayRestart /\ started = "stopped")
    /\ pc \in {"idle", "exited"}
    /\ started' = "started"
    /\ OpenPipe \/ ConnectDispatcher \/ RegisterEventType \/ StartSketch \/ StartTask
    /\ UNCHANGED <<platform, memory, mEventHandlers, queues, locals, hsm, stack, calls>>

\* A caller is free to call: a client outside of its calls, the loop in a handler or an
\* action, and the sketch also between two rounds of its loop.
Free(c) ==
    /\ started # "never"
    /\ calls < MaxCalls                                               \* bound
    /\ stack[c] = <<>>
    /\ c = Loop => \/ pc = "running"
                   \/ pc = "perform" /\ actions > 0
                   \/ pc = "idle" /\ platform = "Arduino"

\* GLib closes its pipe, the end it reads from first.
StopGLib ==
    /\ platform = "GLib"
    /\ channel' = IF channel = "open" THEN "half" ELSE channel
    /\ mEventHandlers' = {}
    /\ UNCHANGED wakeups

\* GLibmm drops the Glib::Dispatcher.
StopGLibmm ==
    /\ platform = "GLibmm"
    /\ channel' = "none"
    /\ mEventHandlers' = {}
    /\ UNCHANGED wakeups

StopQt ==
    /\ platform = "Qt"
    /\ mEventHandlers' = {}
    /\ UNCHANGED <<channel, wakeups>>

\* FreeRTOS notifies its task, if there is one.
StopFreeRTOS ==
    /\ platform = "FreeRTOS"
    /\ mEventHandlers' = {}
    /\ wakeups' = IF channel = "open" THEN wakeups + 1 ELSE wakeups
    /\ UNCHANGED channel

StopArduino ==
    /\ platform = "Arduino"
    /\ UNCHANGED <<channel, mEventHandlers, wakeups>>

Stop(c) ==
    /\ Free(c) /\ ~ mStopDispatcher
    /\ mStopDispatcher' = TRUE
    /\ started' = "stopped"
    /\ StopGLib \/ StopGLibmm \/ StopQt \/ StopFreeRTOS \/ StopArduino
    /\ calls' = calls + 1
    /\ UNCHANGED <<platform, memory, queues, pc, locals, hsm, stack>>

ClosePipe ==
    /\ channel = "half"
    /\ channel' = "none"
    /\ UNCHANGED <<platform, memory, wakeups, started, mStopDispatcher,
                   mEventHandlers, queues, pc, locals, hsm, stack, calls>>

-----------------------------------------------------------------------------
(* Calls                                                                   *)

\* A caller goes on with the operation on top of its stack, which may lead to others.
Top(c) == Last(stack[c])
Calling(c, op) == stack[c] # <<>> /\ Top(c).op = op
Proceed(c, ops) == stack' = [stack EXCEPT ![c] = Front(stack[c]) \o ops]

\* What emitEvent() of each platform asks for before it appends: the pipe's write end,
\* the connection, the type of events, the flag, or the task.
Accepts == IF platform = "Arduino" THEN ~ mStopDispatcher ELSE channel # "none"

\* emitEvent() of FreeRTOS delivers the enqueued events before it appends.
Emission(h) ==
    IF ~ Accepts THEN <<>>
    ELSE <<Op(IF platform = "FreeRTOS" THEN "emit" ELSE "append", h)>>

EmitEvent(c, h) ==
    /\ Free(c)
    /\ platform = "Arduino" => c = Loop
    /\ stack' = [stack EXCEPT ![c] = Emission(h)]
    /\ calls' = calls + 1
    /\ UNCHANGED <<platform, memory, control, mEventHandlers, queues, pc, locals, hsm>>

\* The callers between the comparison and the append.
Enqueuing == {c \in Callers : Calling(c, "enqueue")}

\* Mutant: the comparison lets one event too many pass.
EnqueueLoosely(c, h) ==
    /\ Free(c) /\ h \in MayEnqueue
    /\ Len(mEnqueuedEvents) <= capacity \/ Enqueuing # {}
    /\ stack' = [stack EXCEPT ![c] = <<Op("enqueue", h)>>]
    /\ overlapped' = (overlapped \/ Enqueuing # {})
    /\ calls' = calls + 1
    /\ UNCHANGED <<platform, capacity, control, mEventHandlers, queues, pc, locals, hsm>>

\* While another caller's append moves a full array, the comparison may come out either
\* way.
EnqueueEvent(c, h) ==
    /\ Free(c) /\ h \in MayEnqueue
    /\ Len(mEnqueuedEvents) < capacity \/ Enqueuing # {}
    /\ stack' = [stack EXCEPT ![c] = <<Op("enqueue", h)>>]
    /\ overlapped' = (overlapped \/ Enqueuing # {})
    /\ calls' = calls + 1
    /\ UNCHANGED <<platform, capacity, control, mEventHandlers, queues, pc, locals, hsm>>

EnqueueAction(c) ==
    /\ Free(c)
    /\ platform = "Arduino" => c = Loop
    /\ stack' = [stack EXCEPT ![c] = <<Op("act", NoHandler)>>]
    /\ calls' = calls + 1
    /\ UNCHANGED <<platform, memory, control, mEventHandlers, queues, pc, locals, hsm>>

\* release() of a state machine: it stops dispatching, then its handler leaves the list
\* of emissions and the tables.
Release(c, h) ==
    /\ Free(c) /\ h \in MayRelease /\ hsm[h] = "live"
    /\ hsm' = [hsm EXCEPT ![h] = "stopped"]
    /\ calls' = calls + 1
    /\ UNCHANGED <<platform, memory, control, mEventHandlers, queues, pc, locals,
                   stack>>

RemovePending(h) ==
    /\ hsm[h] = "stopped"
    /\ hsm' = [hsm EXCEPT ![h] = "removed"]
    /\ mPendingEvents' = Without(mPendingEvents, PlacesOf(mPendingEvents, h))
    /\ UNCHANGED <<platform, memory, control, mEventHandlers, mEnqueuedEvents,
                   mPendingActions, pc, locals, stack, calls>>

UnregisterHandlers(h) ==
    /\ hsm[h] = "removed"
    /\ hsm' = [hsm EXCEPT ![h] = "unregistered"]
    /\ mEventHandlers' = mEventHandlers \ {h}
    /\ UNCHANGED <<platform, memory, control, queues, pc, locals, stack, calls>>

\* dispatchEnqueuedEvents() copies the enqueued events and delivers the last one first.
\* It looks a callback up only when the handler differs from that of the event before.
Batch ==
    IF mStopDispatcher THEN <<>>
    ELSE [i \in DOMAIN mEnqueuedEvents |->
            LET h == mEnqueuedEvents[i]
                held == i < Len(mEnqueuedEvents) /\ mEnqueuedEvents[i + 1] = h
            IN  Op(IF held THEN "again" ELSE "deliver", h)]

TakeEnqueuedEvents == mEnqueuedEvents' = IF mStopDispatcher THEN mEnqueuedEvents ELSE <<>>

\* FreeRTOS: the caller's task delivers the enqueued events first.
DeliverFirst(c) ==
    /\ Calling(c, "emit")
    /\ Proceed(c, <<Op("append", Top(c).handler)>> \o Batch)
    /\ TakeEnqueuedEvents
    /\ UNCHANGED <<platform, memory, control, mEventHandlers, mPendingEvents,
                   mPendingActions, pc, locals, hsm, calls>>

\* The callback of a state machine posts the event and emits in turn.  The callback of
\* one that is not registered any more is empty, and the program ends.
DeliverEnqueued(c) ==
    /\ Calling(c, "deliver") \/ Calling(c, "again")
    /\ LET h == Top(c).handler
           empty == Top(c).op = "deliver" /\ hsm[h] = "unregistered"
       IN  /\ pc' = IF ~ mStopDispatcher /\ empty THEN "terminated" ELSE pc
           /\ Proceed(c, IF ~ mStopDispatcher /\ hsm[h] = "live" THEN Emission(h) ELSE <<>>)
    /\ UNCHANGED <<platform, memory, control, mEventHandlers, queues, locals, hsm,
                   calls>>

AppendEmission(c) ==
    /\ Calling(c, "append")
    /\ mPendingEvents' = Append(mPendingEvents, Top(c).handler)
    /\ Proceed(c, <<Op("notify", NoHandler)>>)
    /\ UNCHANGED <<platform, memory, control, mEventHandlers, mEnqueuedEvents,
                   mPendingActions, pc, locals, hsm, calls>>

\* The capacities a full std::vector may grow to; it keeps what it has got.
Grown(n) == n + 1 .. 2 * n

AppendEnqueued(c) ==
    /\ Calling(c, "enqueue")
    /\ mEnqueuedEvents' = Append(mEnqueuedEvents, Top(c).handler)
    /\ IF Len(mEnqueuedEvents) < capacity THEN UNCHANGED capacity
                                          ELSE capacity' \in Grown(capacity)
    /\ Proceed(c, <<Op("notify", NoHandler)>>)
    /\ UNCHANGED <<platform, overlapped, control, mEventHandlers, mPendingEvents,
                   mPendingActions, pc, locals, hsm, calls>>

AppendAction(c) ==
    /\ Calling(c, "act")
    /\ mPendingActions' = mPendingActions + 1
    /\ Proceed(c, <<Op("notify", NoHandler)>>)
    /\ UNCHANGED <<platform, memory, control, mEventHandlers, mPendingEvents,
                   mEnqueuedEvents, pc, locals, hsm, calls>>

\* A full pipe makes the writer wait.
HasRoom == wakeups < PipeSize

\* A write to a pipe nobody reads from raises SIGPIPE, which ends the program.
WriteToPipe ==
    /\ platform = "GLib"
    /\ channel = "open" => HasRoom
    /\ wakeups' = IF channel = "open" THEN wakeups + 1 ELSE wakeups
    /\ pc' = IF channel = "half" THEN "terminated" ELSE pc

\* The Glib::Dispatcher, a pipe too, of a stopped dispatcher is null.
EmitOnDispatcher ==
    /\ platform = "GLibmm"
    /\ channel = "open" => HasRoom
    /\ wakeups' = IF channel = "open" THEN wakeups + 1 ELSE wakeups
    /\ pc' = IF channel = "none" THEN "terminated" ELSE pc

PostToLoop ==
    /\ platform = "Qt"
    /\ wakeups' = wakeups + 1
    /\ UNCHANGED pc

NotifyTask ==
    /\ platform = "FreeRTOS"
    /\ wakeups' = IF channel = "open" THEN wakeups + 1 ELSE wakeups
    /\ UNCHANGED pc

NotifyNobody ==
    /\ platform = "Arduino"
    /\ UNCHANGED <<wakeups, pc>>

NotifyDispatcherAboutEvent(c) ==
    /\ Calling(c, "notify")
    /\ Proceed(c, <<>>)
    /\ WriteToPipe \/ EmitOnDispatcher \/ PostToLoop \/ NotifyTask \/ NotifyNobody
    /\ UNCHANGED <<platform, memory, channel, started, mStopDispatcher,
                   mEventHandlers, queues, locals, hsm, calls>>

CallStep(c) ==
    \/ DeliverFirst(c) \/ DeliverEnqueued(c)
    \/ AppendEmission(c) \/ AppendEnqueued(c) \/ AppendAction(c)
    \/ NotifyDispatcherAboutEvent(c)

-----------------------------------------------------------------------------
(* The loop                                                                *)

LoopAt(at) == pc = at /\ stack[Loop] = <<>>

\* Mutant: the pipe is emptied, for nothing if it was about something else.
DispatchIfPending ==
    /\ platform \in {"GLib", "GLibmm"} /\ channel = "open"
    /\ LoopAt("idle") /\ wakeups > 0 /\ ~ mStopDispatcher
    /\ wakeups' = 0
    /\ pc' = IF mPendingEvents = <<>> THEN "idle" ELSE "actions"
    /\ UNCHANGED <<platform, memory, channel, started, mStopDispatcher,
                   mEventHandlers, queues, locals, hsm, stack, calls>>

\* GLib reads one byte and then looks at everything; a stopped dispatcher removes its
\* source instead.
OnPipeDataAvailable ==
    /\ platform \in {"GLib", "GLibmm"} /\ channel = "open"
    /\ LoopAt("idle") /\ wakeups > 0 /\ ~ mStopDispatcher
    /\ wakeups' = wakeups - 1
    /\ pc' = "actions"
    /\ UNCHANGED <<platform, memory, channel, started, mStopDispatcher,
                   mEventHandlers, queues, locals, hsm, stack, calls>>

CustomEvent ==
    /\ platform = "Qt"
    /\ LoopAt("idle") /\ wakeups > 0
    /\ wakeups' = wakeups - 1
    /\ pc' = IF mStopDispatcher THEN "idle" ELSE "actions"
    /\ UNCHANGED <<platform, memory, channel, started, mStopDispatcher,
                   mEventHandlers, queues, locals, hsm, stack, calls>>

DispatchEvents ==
    /\ platform = "Arduino" /\ started # "never"
    /\ LoopAt("idle") /\ ~ mStopDispatcher
    /\ pc' = "actions"
    /\ UNCHANGED <<platform, memory, control, mEventHandlers, queues, locals, hsm,
                   stack, calls>>

\* The task waits for a notification, and takes all there are, unless it sees
\* emissions; it ends once it sees that it is stopped.
DoDispatching ==
    /\ platform = "FreeRTOS" /\ channel = "open" /\ LoopAt("idle")
    /\ \/ mStopDispatcher /\ pc' = "exited" /\ channel' = "none" /\ UNCHANGED wakeups
       \/ /\ ~ mStopDispatcher /\ mPendingEvents # <<>>
          /\ pc' = "actions" /\ UNCHANGED <<channel, wakeups>>
       \/ /\ ~ mStopDispatcher /\ mPendingEvents = <<>> /\ wakeups > 0
          /\ wakeups' = 0
          /\ pc' = "actions" /\ UNCHANGED channel
    /\ UNCHANGED <<platform, memory, started, mStopDispatcher, mEventHandlers, queues,
                   locals, hsm, stack, calls>>

DispatchPendingActions ==
    /\ LoopAt("actions")
    /\ actions' = mPendingActions
    /\ mPendingActions' = 0
    /\ pc' = "perform"
    /\ UNCHANGED <<platform, memory, control, mEventHandlers, mPendingEvents,
                   mEnqueuedEvents, events, handlers, current, hsm, stack, calls>>

\* An action may use the dispatcher before it returns.
ActionReturns ==
    /\ LoopAt("perform")
    /\ IF actions > 0 THEN actions' = actions - 1 /\ UNCHANGED pc
                      ELSE pc' = "take" /\ UNCHANGED actions
    /\ UNCHANGED <<platform, memory, control, mEventHandlers, queues, events,
                   handlers, current, hsm, stack, calls>>

\* Mutant: the copied list is not emptied.
TakeCopyOfPending ==
    /\ LoopAt("take")
    /\ events' = mPendingEvents
    /\ pc' = "enqueued"
    /\ UNCHANGED <<platform, memory, control, mEventHandlers, queues, actions,
                   handlers, current, hsm, stack, calls>>

TakePendingEvents ==
    /\ LoopAt("take")
    /\ events' = mPendingEvents
    /\ mPendingEvents' = <<>>
    /\ pc' = "enqueued"
    /\ UNCHANGED <<platform, memory, control, mEventHandlers, mEnqueuedEvents,
                   mPendingActions, actions, handlers, current, hsm, stack, calls>>

\* Mutant: they are left for a later round that nobody asks for.
PostponeEnqueuedEvents ==
    /\ LoopAt("enqueued")
    /\ pc' = IF events = <<>> /\ mEnqueuedEvents # <<>> THEN "idle" ELSE "copy"
    /\ UNCHANGED <<platform, memory, control, mEventHandlers, queues, locals, hsm,
                   stack, calls>>

\* The loop goes on once the events it has taken are delivered.
DispatchEnqueuedEvents ==
    /\ LoopAt("enqueued")
    /\ stack' = [stack EXCEPT ![Loop] = Batch]
    /\ TakeEnqueuedEvents
    /\ pc' = "copy"
    /\ UNCHANGED <<platform, memory, control, mEventHandlers, mPendingEvents,
                   mPendingActions, locals, hsm, calls>>

CopyHandlers ==
    /\ LoopAt("copy")
    /\ IF mStopDispatcher \/ events = <<>>
       THEN pc' = "idle" /\ events' = <<>> /\ UNCHANGED handlers
       ELSE pc' = "handle" /\ handlers' = mEventHandlers /\ UNCHANGED events
    /\ UNCHANGED <<platform, memory, control, mEventHandlers, queues, actions,
                   current, hsm, stack, calls>>

\* The handler of a stopped machine answers FALSE and leaves the copy.
CallHandler ==
    /\ LoopAt("handle") /\ events # <<>> /\ ~ mStopDispatcher
    /\ LET h == Head(events)
       IN  IF h \in handlers /\ hsm[h] = "live"
           THEN pc' = "running" /\ current' = h /\ UNCHANGED handlers
           ELSE handlers' = handlers \ {h} /\ UNCHANGED <<pc, current>>
    /\ events' = Tail(events)
    /\ UNCHANGED <<platform, memory, control, mEventHandlers, queues, actions, hsm,
                   stack, calls>>

HandlerReturns ==
    /\ LoopAt("running")
    /\ current' = NoHandler
    /\ pc' = "handle"
    /\ UNCHANGED <<platform, memory, control, mEventHandlers, queues, events, actions,
                   handlers, hsm, stack, calls>>

EventsDone ==
    /\ LoopAt("handle") /\ (events = <<>> \/ mStopDispatcher)
    /\ events' = <<>>
    /\ pc' = "idle"
    /\ UNCHANGED <<platform, memory, control, mEventHandlers, queues, actions,
                   handlers, current, hsm, stack, calls>>

LoopStep ==
    \/ OnPipeDataAvailable \/ CustomEvent \/ DispatchEvents \/ DoDispatching
    \/ DispatchPendingActions \/ ActionReturns \/ TakePendingEvents
    \/ DispatchEnqueuedEvents \/ CopyHandlers \/ CallHandler
    \/ HandlerReturns \/ EventsDone

Next ==
    /\ pc # "terminated"
    /\ \/ Start \/ ClosePipe \/ LoopStep
       \/ \E h \in Handlers : RemovePending(h) \/ UnregisterHandlers(h)
       \/ \E c \in Callers : \/ Stop(c) \/ EnqueueAction(c) \/ CallStep(c)
                             \/ \E h \in Handlers : \/ EmitEvent(c, h) \/ EnqueueEvent(c, h)
                                                    \/ Release(c, h)

Spec == Init /\ [][Next]_vars

\* The framework runs its loop, the sketch calls dispatchEvents(), the scheduler runs a
\* task that is not blocked, and a caller goes on with its call.
Fairness == WF_vars(LoopStep) /\ \A c \in Callers : WF_vars(CallStep(c))

FairSpec == Spec /\ Fairness

-----------------------------------------------------------------------------
\* No wake-up is lost, on any of the channels: a loop that waits while there is work
\* has a notification in its channel or a caller that is about to send one.
Notifying == \E c \in Callers : \E i \in DOMAIN stack[c] : stack[c][i].op = "notify"

Work == mPendingEvents # <<>> \/ mEnqueuedEvents # <<>> \/ mPendingActions > 0

NoWakeupLost ==
    pc = "idle" /\ Work /\ channel = "open" /\ ~ mStopDispatcher /\ platform # "Arduino"
        => wakeups > 0 \/ Notifying

\* The queue for interrupts has the memory it was given, and holds no more than that, as
\* long as no two callers have compared and not appended yet at the same time.
GrowsOnlyByOverlap ==
    ~ overlapped => capacity = CacheSize /\ Len(mEnqueuedEvents) <= CacheSize

\* Actions are executed and the events of interrupts delivered, unless stop() comes first.
WorkIsDone ==
    /\ mPendingActions > 0 ~> mPendingActions = 0 \/ mStopDispatcher
    /\ mEnqueuedEvents # <<>> ~> mEnqueuedEvents = <<>> \/ mStopDispatcher

\* The promise of emitEvent(), as kept by a loop that calls handlers on itself.
Promise == INSTANCE EventDispatcher WITH
    queue   <- IF mStopDispatcher THEN <<>> ELSE events \o mPendingEvents,
    serving <- IF pc = "terminated" THEN NoHandler ELSE current,
    leaving <- {h \in Handlers : hsm[h] # "live"},
    running <- ~ mStopDispatcher

EmissionsServed == Promise!Spec

\* Using the dispatcher while it is being stopped does not end the program.
StopIsSafe == pc # "terminated"

\* After a start() that returned TRUE, emissions are served until stop().
StartedServes == started = "started" /\ mPendingEvents # <<>> ~>
                     mPendingEvents = <<>> \/ started # "started"
=============================================================================
