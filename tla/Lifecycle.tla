------------------------------ MODULE Lifecycle ------------------------------
(***************************************************************************)
(* The life of a state machine: initialize(), events and timers, release() *)
(* (HsmImpl.cpp), against a dispatcher that has a thread or a task of its  *)
(* own, or that serves the loop the owner runs.  release() ends with a     *)
(* wait for dispatchEvents(), on an AtomicFlag that each platform builds   *)
(* from other parts (os/stl, os/freertos, os/arduino).                     *)
(*                                                                         *)
(* Which states an event leads to is HsmEngine's; here an event is handled *)
(* or not, and what matters is when.                                       *)
(***************************************************************************)
EXTENDS Naturals, Sequences

CONSTANTS
    Hosts,             \* a subset of AllHosts
    Clients,           \* threads that post events and start the timer
    Owner,             \* the thread that initializes and releases
    MayReleaseInside,  \* whether a callback of the machine releases it
    MaxPosts           \* bound: events posted and timers started

AllHosts == {"STD", "FreeRTOS", "Loop", "Arduino"}

Nobody == "nobody"
Dispatcher == "dispatcher"
Posters == Clients \cup {Owner}

ASSUME LifecycleAssumption ==
    /\ Hosts \subseteq AllHosts
    /\ Owner \notin Clients \cup {Nobody, Dispatcher}
    /\ MayReleaseInside \in BOOLEAN
    /\ MaxPosts \in Nat

VARIABLES
    host,
    owner,            \* where the owner stands in initialize() and release()
    inside,           \* whether release() was called by a callback
    poster,           \* where each thread stands in transition()
    posts,            \* how many events were posted, or timers started
    mDispatcher,      \* whether the reference to the dispatcher is set
    mStopDispatching,
    registered,       \* handlers the dispatcher knows: "events", "timer"
    mPendingEvents,   \* events of the state machine
    active,           \* whether the initial state is in mActiveStates
    emissions,        \* emissions in the dispatcher's queue
    mActiveTimer,     \* whether a timer of the machine runs in the dispatcher
    pc,               \* where the dispatcher stands
    mValue,           \* mIsDispatching, the flag,
    mSync,            \* the thread that holds its mutex,
    token             \* and whether its semaphore is given (FreeRTOS)

machine == <<mDispatcher, mStopDispatching, mPendingEvents, active>>
tables == <<registered, emissions, mActiveTimer>>
flag == <<mValue, mSync, token>>
lifeVars == <<host, owner, inside, poster, posts, machine, tables, pc, flag>>

LifeTypeOK ==
    /\ host \in AllHosts
    /\ owner \in {"new", "registerEvents", "registerTimer", "entering", "activate",
                  "changed", "entry", "emit", "ready", "removeEmissions",
                  "unregisterEvents", "unregisterTimer", "reset", "wait", "lock",
                  "waiting", "asleep", "relock", "released"}
    /\ inside \in BOOLEAN
    /\ poster \in [Posters -> {"ready", "append", "emit", "timer"}]
    /\ posts \in Nat
    /\ mDispatcher \in BOOLEAN /\ mStopDispatching \in BOOLEAN /\ active \in BOOLEAN
    /\ registered \subseteq {"events", "timer"}
    /\ mPendingEvents \in Seq({"posted", "entry"})
    /\ emissions \in Nat
    /\ mActiveTimer \in BOOLEAN
    /\ pc \in {"idle", "called", "dispatch", "flagged", "check", "transition", "more",
               "clear", "notify"}
    /\ mValue \in BOOLEAN /\ token \in BOOLEAN
    /\ mSync \in {Nobody, Owner, Dispatcher}

LifeInit ==
    /\ host \in Hosts
    /\ owner = "new" /\ inside = FALSE
    /\ poster = [p \in Posters |-> "ready"] /\ posts = 0
    /\ mDispatcher = FALSE /\ mStopDispatching = FALSE
    /\ mPendingEvents = <<>> /\ active = FALSE
    /\ registered = {} /\ emissions = 0 /\ mActiveTimer = FALSE
    /\ pc = "idle"
    /\ mValue = FALSE /\ mSync = Nobody /\ token = FALSE

\* A dispatcher without a thread runs on the owner's, between its calls; a callback that
\* releases the machine suspends the dispatcher's thread.
OwnThread == host \in {"STD", "FreeRTOS"}
OwnerRuns == poster[Owner] = "ready" /\ (OwnThread \/ inside \/ pc = "idle")
DispatcherRuns ==
    IF inside THEN owner = "released"
    ELSE OwnThread \/ (owner \in {"ready", "released"} /\ poster[Owner] = "ready")

\* emitEvent() with the id of a handler that is not registered reaches nobody.
Emit == emissions' = IF "events" \in registered THEN emissions + 1 ELSE emissions

-----------------------------------------------------------------------------
(* initialize()                                                            *)

\* The dispatcher's thread runs from here on, and other threads find a dispatcher.
Initialize ==
    /\ owner = "new"
    /\ mDispatcher' = TRUE
    /\ owner' = "registerEvents"
    /\ UNCHANGED <<host, inside, poster, posts, mStopDispatching, mPendingEvents, active,
                   tables, pc, flag>>

CreateHandlers ==
    /\ \/ /\ owner = "registerEvents" /\ owner' = "registerTimer"
          /\ registered' = registered \cup {"events"}
       \/ /\ owner = "registerTimer" /\ owner' = "entering"
          /\ registered' = registered \cup {"timer"}
    /\ UNCHANGED <<host, inside, poster, posts, machine, emissions, mActiveTimer, pc, flag>>

\* handleStartup(): the callbacks of the initial state, which may post events, run
\* before and after it becomes active.
StartupCallbackReturns ==
    /\ OwnerRuns
    /\ \/ owner = "entering" /\ owner' = "activate"
       \/ owner = "changed" /\ owner' = "entry"
    /\ UNCHANGED <<host, inside, poster, posts, machine, tables, pc, flag>>

Activate ==
    /\ owner = "activate"
    /\ active' = TRUE
    /\ owner' = "changed"
    /\ UNCHANGED <<host, inside, poster, posts, mDispatcher, mStopDispatching,
                   mPendingEvents, tables, pc, flag>>

\* The initial state has an entry point whose condition holds, or none.
PushEntryPoint ==
    /\ owner = "entry"
    /\ mPendingEvents' \in {mPendingEvents, <<"entry">> \o mPendingEvents}
    /\ owner' = "emit"
    /\ UNCHANGED <<host, inside, poster, posts, mDispatcher, mStopDispatching, active,
                   tables, pc, flag>>

\* Mutant: it emits for an entry point only.
EmitEntryPoint ==
    /\ owner = "emit"
    /\ IF mPendingEvents # <<>> /\ Head(mPendingEvents) = "entry"
       THEN Emit ELSE UNCHANGED emissions
    /\ owner' = "ready"
    /\ UNCHANGED <<host, inside, poster, posts, machine, registered, mActiveTimer, pc, flag>>

\* An event may have been posted before the handler had an id: the emission covers it.
EmitStartup ==
    /\ owner = "emit"
    /\ IF mPendingEvents = <<>> THEN UNCHANGED emissions ELSE Emit
    /\ owner' = "ready"
    /\ UNCHANGED <<host, inside, poster, posts, machine, registered, mActiveTimer, pc, flag>>

-----------------------------------------------------------------------------
(* transition() and startTimer() of any thread                             *)

\* The owner calls from the startup callbacks and once initialize() has returned.
MayCall(p) ==
    /\ poster[p] = "ready"
    /\ posts < MaxPosts                                               \* bound
    /\ mDispatcher
    /\ p = Owner => /\ owner \in {"entering", "changed", "ready"}
                    /\ OwnThread \/ pc = "idle"
    /\ p # Owner => host # "Arduino"

Transition(p) ==
    /\ MayCall(p)
    /\ poster' = [poster EXCEPT ![p] = "append"]
    /\ posts' = posts + 1
    /\ UNCHANGED <<host, owner, inside, machine, tables, pc, flag>>

PostEvent(p) ==
    /\ poster[p] = "append"
    /\ mPendingEvents' = Append(mPendingEvents, "posted")
    /\ poster' = [poster EXCEPT ![p] = "emit"]
    /\ UNCHANGED <<host, owner, inside, posts, mDispatcher, mStopDispatching, active,
                   tables, pc, flag>>

EmitPosted(p) ==
    /\ poster[p] = "emit"
    /\ Emit
    /\ poster' = [poster EXCEPT ![p] = "ready"]
    /\ UNCHANGED <<host, owner, inside, posts, machine, registered, mActiveTimer, pc, flag>>

StartTimer(p) ==
    /\ MayCall(p)
    /\ poster' = [poster EXCEPT ![p] = "timer"]
    /\ posts' = posts + 1
    /\ UNCHANGED <<host, owner, inside, machine, tables, pc, flag>>

\* Mutant: the dispatcher does not ask whose timer it is.
ActivateAnyTimer(p) ==
    /\ poster[p] = "timer"
    /\ mActiveTimer' = TRUE
    /\ poster' = [poster EXCEPT ![p] = "ready"]
    /\ UNCHANGED <<host, owner, inside, posts, machine, registered, emissions, pc, flag>>

\* The dispatcher starts timers of registered handlers only.
ActivateTimer(p) ==
    /\ poster[p] = "timer"
    /\ mActiveTimer' = (mActiveTimer \/ "timer" \in registered)
    /\ poster' = [poster EXCEPT ![p] = "ready"]
    /\ UNCHANGED <<host, owner, inside, posts, machine, registered, emissions, pc, flag>>

\* dispatchTimerEvent() of a single-shot timer, under the lock unregisterTimerHandler()
\* takes: the event is posted unless the machine is being released.
DispatchTimerEvent ==
    /\ mActiveTimer
    /\ DispatcherRuns /\ (OwnThread \/ pc = "idle")
    /\ mActiveTimer' = FALSE
    /\ IF mStopDispatching \/ ~ mDispatcher
       THEN UNCHANGED <<mPendingEvents, emissions>>
       ELSE mPendingEvents' = Append(mPendingEvents, "posted") /\ Emit
    /\ UNCHANGED <<host, owner, inside, poster, posts, mDispatcher, mStopDispatching,
                   active, registered, pc, flag>>

-----------------------------------------------------------------------------
(* release()                                                               *)

\* The owner calls it, or a callback of the machine does.
Release ==
    /\ \/ owner = "ready" /\ OwnerRuns /\ UNCHANGED inside
       \/ /\ MayReleaseInside /\ pc = "transition" /\ owner = "ready" /\ ~ inside
          /\ poster[Owner] = "ready"
          /\ inside' = TRUE
    /\ mStopDispatching' = TRUE
    /\ owner' = "removeEmissions"
    /\ UNCHANGED <<host, poster, posts, mDispatcher, mPendingEvents, active, tables, pc,
                   flag>>

\* unregisterEventHandler(), in its two sections, unregisterTimerHandler(), and the
\* reference to the dispatcher.
Unregister ==
    /\ \/ /\ owner = "removeEmissions" /\ owner' = "unregisterEvents"
          /\ emissions' = 0
          /\ UNCHANGED <<registered, mActiveTimer, mDispatcher>>
       \/ /\ owner = "unregisterEvents" /\ owner' = "unregisterTimer"
          /\ registered' = registered \ {"events"}
          /\ UNCHANGED <<emissions, mActiveTimer, mDispatcher>>
       \/ /\ owner = "unregisterTimer" /\ owner' = "reset"
          /\ registered' = registered \ {"timer"}
          /\ mActiveTimer' = FALSE
          /\ UNCHANGED <<emissions, mDispatcher>>
       \/ /\ owner = "reset" /\ owner' = "wait"
          /\ mDispatcher' = FALSE
          /\ UNCHANGED tables
    /\ UNCHANGED <<host, inside, poster, posts, mStopDispatching, mPendingEvents, active,
                   pc, flag>>

\* AtomicFlag::wait(true) of Arduino does nothing, the others look at the flag first.
LookAtFlag ==
    /\ owner = "wait"
    /\ owner' = IF host = "Arduino" \/ ~ mValue THEN "released" ELSE "lock"
    /\ UNCHANGED <<host, inside, poster, posts, machine, tables, pc, flag>>

LockFlag ==
    /\ owner = "lock" /\ mSync = Nobody
    /\ mSync' = Owner
    /\ owner' = "waiting"
    /\ UNCHANGED <<host, inside, poster, posts, machine, tables, pc, mValue, token>>

\* The predicate: under the mutex with the STL, which gives it up as it blocks; after
\* the mutex was given up with FreeRTOS.
WaitForFlag ==
    /\ owner = "waiting"
    /\ mSync' = Nobody
    /\ owner' = IF host = "FreeRTOS" \/ mValue THEN "asleep" ELSE "released"
    /\ UNCHANGED <<host, inside, poster, posts, machine, tables, pc, mValue, token>>

\* With FreeRTOS a token that an earlier notify() has left ends the wait, whatever the
\* flag says.
TakeToken ==
    /\ owner = "asleep" /\ host = "FreeRTOS"
    /\ ~ mValue \/ token
    /\ token' = (token /\ ~ mValue)
    /\ owner' = "relock"
    /\ UNCHANGED <<host, inside, poster, posts, machine, tables, pc, mValue, mSync>>

\* The mutex is taken again, and given up by the destructor of the UniqueLock.
RelockFlag ==
    /\ owner = "relock" /\ mSync = Nobody
    /\ owner' = "released"
    /\ UNCHANGED <<host, inside, poster, posts, machine, tables, pc, flag>>

OwnerStep ==
    \/ Initialize \/ CreateHandlers \/ StartupCallbackReturns \/ Activate
    \/ PushEntryPoint \/ EmitStartup
    \/ Unregister \/ LookAtFlag \/ LockFlag \/ WaitForFlag \/ TakeToken \/ RelockFlag

-----------------------------------------------------------------------------
(* The dispatcher's thread, and dispatchEvents()                           *)

\* A copy of the handlers is taken with the emission: it may outlive the registration.
Serve ==
    /\ pc = "idle" /\ emissions > 0
    /\ emissions' = emissions - 1
    /\ pc' = IF "events" \in registered THEN "called" ELSE "idle"
    /\ UNCHANGED <<host, owner, inside, poster, posts, machine, registered, mActiveTimer,
                   flag>>

\* The handler looks at mStopDispatching, dispatchEvents() at the dispatcher.
CallHandler ==
    /\ \/ pc = "called" /\ pc' = IF mStopDispatching THEN "idle" ELSE "dispatch"
       \/ pc = "dispatch" /\ ~ mDispatcher /\ pc' = "idle"
    /\ UNCHANGED <<host, owner, inside, poster, posts, machine, tables, flag>>

TestAndSet ==
    /\ pc = "dispatch" /\ mDispatcher
    /\ mValue' = TRUE
    /\ pc' = IF mValue THEN "idle" ELSE "flagged"
    /\ UNCHANGED <<host, owner, inside, poster, posts, machine, tables, mSync, token>>

LockDispatching ==
    /\ pc = "flagged" /\ mSync = Nobody
    /\ mSync' = Dispatcher
    /\ pc' = "check"
    /\ UNCHANGED <<host, owner, inside, poster, posts, machine, tables, mValue, token>>

\* Mutant: mStopDispatching is not read again under the flag.
TakeEventUnchecked ==
    /\ pc = "check"
    /\ IF mPendingEvents = <<>>
       THEN pc' = "more" /\ UNCHANGED mPendingEvents
       ELSE pc' = "transition" /\ mPendingEvents' = Tail(mPendingEvents)
    /\ UNCHANGED <<host, owner, inside, poster, posts, mDispatcher, mStopDispatching,
                   active, tables, flag>>

TakeEvent ==
    /\ pc = "check"
    /\ IF mStopDispatching
       THEN pc' = "clear" /\ UNCHANGED mPendingEvents
       ELSE IF mPendingEvents = <<>>
       THEN pc' = "more" /\ UNCHANGED mPendingEvents
       ELSE pc' = "transition" /\ mPendingEvents' = Tail(mPendingEvents)
    /\ UNCHANGED <<host, owner, inside, poster, posts, mDispatcher, mStopDispatching,
                   active, tables, flag>>

TransitionDone ==
    /\ pc = "transition"
    /\ pc' = "more"
    /\ UNCHANGED <<host, owner, inside, poster, posts, machine, tables, flag>>

EmitMore ==
    /\ pc = "more"
    /\ IF mStopDispatching \/ mPendingEvents = <<>> THEN UNCHANGED emissions ELSE Emit
    /\ pc' = "clear"
    /\ UNCHANGED <<host, owner, inside, poster, posts, machine, registered, mActiveTimer,
                   flag>>

ClearFlag ==
    /\ pc = "clear"
    /\ mValue' = FALSE
    /\ pc' = "notify"
    /\ UNCHANGED <<host, owner, inside, poster, posts, machine, tables, mSync, token>>

\* Mutant: nobody is told.
UnlockOnly ==
    /\ pc = "notify"
    /\ mSync' = Nobody
    /\ pc' = "idle"
    /\ UNCHANGED <<host, owner, inside, poster, posts, machine, tables, mValue, token>>

\* notify() and the end of the UniqueLock, which the caller has held since it set the
\* flag.  A condition variable of the STL wakes who waits, a semaphore remembers.
NotifyFlag ==
    /\ pc = "notify"
    /\ token' = (host = "FreeRTOS")
    /\ owner' = IF owner = "asleep" /\ host # "FreeRTOS" THEN "lock" ELSE owner
    /\ mSync' = Nobody
    /\ pc' = "idle"
    /\ UNCHANGED <<host, inside, poster, posts, machine, tables, mValue>>

DispatcherStep ==
    \/ Serve \/ CallHandler \/ TestAndSet \/ LockDispatching \/ TakeEvent
    \/ TransitionDone \/ EmitMore \/ ClearFlag \/ NotifyFlag

PosterStep(p) == PostEvent(p) \/ EmitPosted(p) \/ ActivateTimer(p)

LifeNext ==
    \/ OwnerRuns /\ OwnerStep
    \/ Release
    \/ DispatcherRuns /\ DispatcherStep
    \/ DispatchTimerEvent
    \/ \E p \in Posters : Transition(p) \/ StartTimer(p) \/ PosterStep(p)

LifeSpec == LifeInit /\ [][LifeNext]_lifeVars

\* Every thread runs; whether the machine is released, or anything posted, is open.
Fairness ==
    /\ WF_lifeVars(OwnerRuns /\ OwnerStep)
    /\ WF_lifeVars(DispatcherRuns /\ DispatcherStep)
    /\ \A p \in Posters : WF_lifeVars(PosterStep(p))

FairSpec == LifeSpec /\ Fairness

-----------------------------------------------------------------------------
\* After release() has returned no event is being handled, although the wait may have
\* ended early or never begun, and no timer of the machine is left in the dispatcher.
ReleasedIsIdle ==
    owner = "released" => pc \notin {"transition", "more"} /\ ~ mActiveTimer

\* release() returns.
ReleaseReturns == owner = "removeEmissions" ~> owner = "released"

\* Every event is taken from the queue, those posted before the handler was registered
\* and those that startup leaves included, unless the machine is released.
EventsAreTaken == mPendingEvents # <<>> ~> mPendingEvents = <<>> \/ mStopDispatching

\* No event is handled before the initial state is active.
HandledWhenActive == pc = "transition" => active
=============================================================================
