# hsmcpp in TLA+

A verification development for [hsmcpp](../src), a C++ library of hierarchical state
machines.  It models the library from the registration of states to the release of a
machine: the engine that carries out transitions, the queue of events that any thread
may post to, the event dispatchers of all platforms with their timers, and the `Variant`
that carries arguments.  TLC checks the models on small instances; TLAPS proves the
central invariants for every state machine and any number of threads.

Paths below are relative to the repository root, `src/src/HsmImpl.cpp` and so on.

## 1. The system

An application registers states, transitions, callbacks and timers with a
`HierarchicalStateMachine` and initialises it with a dispatcher.  From then on

    client thread --transition()--> mPendingEvents --emitEvent()--> dispatcher thread
    dispatcher thread --dispatchEvents()--> transition engine --callbacks--> application
    timers thread --handler--> transition() --> ...

| Component | State | Operations | Modelled by |
|---|---|---|---|
| Structure (`HsmImpl.cpp`, `HsmImplTypes.hpp`) | states, substates, entry points, transitions, final and history states, state actions | `findTransitionTarget`, `getEntryPoints`, `isSubstateOf`, ... | `HsmStructure` (a parameter and the queries) |
| Registration (`HsmImpl.cpp`) | the same tables, while they are built | `registerState`, `registerSubstate`, `registerTransition`, ..., `setInitialState` | `Registration` |
| Transition engine (`HsmImpl.cpp`) | `mActiveStates`, `mHistoryData`, the locals of a dispatch | `dispatchEvents`, `doTransition`, exits, entries, entry points, history, final states, rollbacks | `HsmEngine` |
| Pending events, synchronous calls (`HsmImpl.cpp`, `HsmImplTypes.cpp`) | `mPendingEvents`, a status and a condition variable per synchronous call | `transition`, `transitionSync`, `transitionEx`, `transitionWithQueueClear`; `wait`, `unlock` | `HsmEngine` |
| Life cycle (`HsmImpl.cpp`) | `mDispatcher`, `mStopDispatching`, `mIsDispatching`, handler ids | `initialize`, `handleStartup`, `release` | `Lifecycle`; `DispatcherSTD` (release of one of two machines) |
| Queries (`HsmImpl.cpp`) | none | `isTransitionPossible`, `isStateActive`, `getActiveStates` | not modelled |
| Dispatcher base: queues (`HsmEventDispatcherBase.cpp`) | `mPendingEvents` (emissions), `mEnqueuedEvents`, `mPendingActions`, handler tables | `emitEvent`, `enqueueEvent`, `enqueueAction`, `dispatchPendingEvents`, `unregisterX` | `DispatcherSTD`, `LoopDispatcher`; promise in `EventDispatcher` |
| Dispatcher base: timers | `mActiveTimers`, `mTimerHandlers` | `startTimer`, `restartTimer`, `stopTimer`, `handleTimerEvent`, `unregisterX` | `TimersSTD`, `NativeTimers` |
| STD dispatcher (`HsmEventDispatcherSTD.cpp`) | two threads, `mEmitEvent`, `mTimerEvent`, `mRunningTimers` | `doDispatching`, `handleTimers`, `startTimerImpl`, `stopTimerImpl`, `stop` | `DispatcherSTD`, `TimersSTD` |
| GLib, GLibmm, Qt, FreeRTOS, Arduino dispatchers: events | a pipe, a `Glib::Dispatcher`, posted Qt events, task notifications, nothing | `start`, `stop`, `emitEvent`, `notifyDispatcherAboutEvent`, the loop | `LoopDispatcher` |
| the same: timers | `mNativeTimerHandlers`, `mRunningTimers`, the timers of the framework | `startTimerImpl`, `stopTimerImpl`, the timer callbacks, `stop` | `NativeTimers` |
| OS layer (`src/src/os`) | mutexes, condition variables, flags | `AtomicFlag` with `wait`, `notify` | `Lifecycle` (`AtomicFlag` on three platforms); the others where they are used |
| `Variant` (`variant.cpp`, `variant.hpp`) | a type, a shared block of memory, a copier and a comparer | constructors, assignments, moves, getters; comparisons, conversions | `VariantStore`, `VariantValue` |
| Logging, public API, tools | a log file | forwarding | not modelled |

### What is hard in it

* **Two queues, one wake-up.**  An event goes to the machine's queue, a wake-up to the
  dispatcher's; the queue is looked at without its lock, and may be cleared by one
  thread while another posts and the dispatcher works.
* **A transition is many events.**  Entering a composite state, a history or a final
  state queues a follow-up event in front of the others.  Atomicity depends on that
  order, and on nobody taking the follow-up out of the queue.
* **Callbacks that refuse.**  `onExiting` and `onEntering` may answer false in the
  middle of a transition; what was exited must come back.
* **A synchronous caller** sleeps on a status that other threads write, may time out,
  and may have its event dropped.
* **Sleeping threads.**  The dispatcher and the timers thread decide to sleep while
  other threads append and notify; `release()` and `stop()` arrive at any time.
* **Locks** that are taken one under the other, in more than one order.
* **Loops of others.**  A dispatcher on a foreign loop is woken through a pipe, a posted
  event or a task notification, while the loop's own handlers use it again.
* **Two tables of timers**, the library's and the framework's, that change one after the
  other while native timers fire, on a thread that may not be the caller's.
* **A start that overlaps with service.**  `initialize()` registers handlers on a
  dispatcher that runs, and then enters the initial state.
* **Shared memory behind a value.**  A `Variant` is copied as a value, and shares its
  block with the client that asked for a pointer.

### What makes each part correct

* Engine: the active states are a legal configuration between events, listed once
  each; an exit that is refused leaves things as they were; a state is left only with
  its consent; inner transitions go first; a composite state completes when all its
  regions have; a history brings back what was active.
* Queue: no event is left without a wake-up, none is popped from an empty list; every
  synchronous caller is owed an answer, is answered in the end, and `true` means done.
* Dispatcher: emissions are served each once, in order; nothing of a released machine
  is handled; `stop()` and `release()` come to an end; the queue for interrupts
  allocates nothing, unless callers overlap.
* Timers: the table of active timers and the table of running ones agree; a timer
  expires, on time, to a handler that is registered; no call blocks for ever.  The same
  is asked of the tables of native timers.
* Loops: whenever there is work, the loop is awake or about to be woken.
* Life cycle: events posted during startup are not forgotten; `release()` returns, and
  leaves nothing running.
* Registration: what the engine walks without a bound is a forest.
* `Variant`: type, content and copier agree; values do not share memory; comparisons order
  the keys of a map; a conversion that has a way back finds it.

## 2. The modules

    HsmStructure --- HsmEngine --- HsmProperties --- HsmHistory
                          |              |                |
                   HsmEngineProofs   MCNested         MCHistory
                                     MCParallel       MCHistoryParallel
                                     MCSync
                                     (all with MCStructure)

    ListErase --- EventDispatcher  (abstract)
       | \             ^ refined by
       |  \------ DispatcherSTD --- DispatcherProofs        TimersSTD --- MCTimers
       |  \----- LoopDispatcher --- LoopProofs                     \--- TimersProofs
       ListEraseProofs (used by DispatcherProofs and LoopProofs)

    Registration --- MachineProofs --- Lifecycle        NativeTimers --- NativeTimersProofs

    VariantStore --- VariantProofs
              \--- MCVariant --- VariantValue

**`HsmStructure`.**  The registered structure is a set of constants with assumptions:
`Parent` (`mSubstates` read from the child), `EntryPoints`, `Transitions`,
`FinalEvent`, `History`, `RaisedOn` (state actions that post events) and the states
whose callbacks may refuse.  Conditions are names whose truth is chosen anew at each
evaluation, since a condition callback may answer differently each time.  Ancestors are
the least set closed under `Parent`, so that no recursion is needed.

**`HsmEngine`.**  One variable for each member of `Impl` that changes at run time, and
`pc`, `dispatch` and `single` for the position and the locals of the dispatcher's
thread (`dispatchEvents`/`doTransition`, and `handleSingleTransition` and below).  A
step ends at every callback of the program and at every lock and unlock of the event
queue: in between no other thread can see or change anything.  A transition is named by
its place in the list it comes from.

| Action | Code |
|---|---|
| `EnterInitialState`, `StartEntryPoints` | `handleStartup` |
| `Post`, `Emit`, `Return`, `StayPending`, `FallAsleep`, `WakeUp`, `TimeOut` | `transitionEx`, `PendingEventInfo::wait` |
| `DispatchEvents`, `PopEvent`, `ClearDispatching` | `dispatchEvents` |
| `SkipState`, `BeginTransition`, `EndTransition`, `FinishEvent` | `doTransition`, `handleSingleTransition`, `unlock` |
| `NextExit`, `ExitState`, `RefuseExit`, `NoMoreToExit`, `LeaveState`, `RollbackState`, `ExitDone`, `ExitsDone` | `executeExitTransition`, `updateHistory` |
| `EnterState`, `RefuseEntry`, `ReenterState`, `ReenterDone`, `EntriesDone` | `processExternalTransition` |
| `EnteredState` | entry points of an entered composite state |
| `EnteredFinalState` | `processFinalStateTransition` |
| `EnteredEmptyHistory`, `EnteredHistory`, `RestoreState`, `RestoreLastGroup`, `RestoreParent` | `transitionToDefaultHistoryState`, `transitionToPreviousActiveStates` |

The dispatcher of this module is what `IHsmEventDispatcher` promises: one thread that
calls the handler once for each emission.  `emitted` counts the emissions of one
machine, `EventDispatcher` states the promise and `DispatcherSTD` is shown to keep it.

**`HsmProperties`** has what is asked of the engine, and at its end the kinds of structures
that some of the theorems are about (`Lateral`, `Composed`, `Serial`); `MCParallel` and
`MCSync` assume them, so that TLC confirms that the structures of the runs are of those
kinds.  **`HsmHistory`** adds an auxiliary variable with the states a history is to bring
back.

**`EventDispatcher`** is the abstract dispatcher: a queue of emissions served one at a
time; **`DispatcherSTD`** the thread that implements it, with `emitEvent`,
`enqueueEvent`, `enqueueAction`, `stop`, and `release()` of the state machines.
`mEmitSync` has an owner because the thread holds it from its last look at the queues
until it is blocked; sections under the other mutexes are single steps.  `capacity` is what
`mEnqueuedEvents` has memory for: `enqueueEvent()` compares with it before it takes the
lock, a vector that overflows grows by an amount that is left open (`Grown`), and
`clear()` keeps what it has got.

**`TimersSTD`** has the calls of the timers API, the timers thread and `stop()`.  Locks
have owners because they are taken one under the other.  `mRunningTimers` holds the
ticks each timer has left.  A thread may be as late as it likes.

**`LoopDispatcher`** has the dispatchers that are served by a loop they do not own.  The
platform is chosen in the initial state; what is common (the queues and
`dispatchPendingEvents`, in steps that end at each unlock) is written once, and each platform has
its own `start`, `stop`, notification and loop: the pipe of GLib, whose callback reads one
byte and serves everything; `Glib::Dispatcher`; the posted events of Qt; the notified task of
FreeRTOS; the sketch that calls `dispatchEvents()` on Arduino.  The callers are other threads and the loop itself, inside
of a handler or an action; each has a stack of what is left of its call, since FreeRTOS
delivers enqueued events, which emit, within `emitEvent()`.  The loop and that caller deliver
them in the same way (`Batch`, `DeliverEnqueued`): the callback of a machine that was
unregistered since is empty, and calling it ends the program.  `enqueueEvent()` is the one of
the base class: it compares with `capacity` before it takes the lock.  `overlapped` is an
auxiliary variable, which records that two callers were between that comparison and their
append at once.

**`NativeTimers`** has `startTimer` ... `stop` of those five dispatchers with the timers of
their frameworks: GLib sources that are destroyed, a `QTimer` that is created by an event
and deleted later, FreeRTOS timers that are found, changed and deleted in separate sections
free of interrupts, and the polled table of Arduino.  A timer may fire whenever it is
armed.  `call` holds the call under way, and `call.next` the part of it that comes next:
`startTimer` of a timer that runs is a stop and then a start.  `lost` marks the timers that
fall victim to one of two flaws of the code, so that the properties can be asked of all others: a timer started while the entry of its last
expiry is about to be erased (`ExpiryRace`), and one whose start meets a full queue of
FreeRTOS timer commands, so that `xTimerStart` or `xTimerChangePeriod` fails.  `xTimerStop`
may fail for the same reason.

**`Lifecycle`** follows one machine from `initialize()` to the end of `release()`, against
a dispatcher with a thread (`STD`), a task (`FreeRTOS`), or a loop that the owner runs, with
threads that post events and start a timer.  `release()` ends with
`mIsDispatching.wait()`; `AtomicFlag` is modelled with the parts each platform builds it
from: a flag, a mutex and a condition variable of the STL; a semaphore on FreeRTOS, where a
wake-up given early is kept; nothing that waits on Arduino.  Which states an event leads
to is `HsmEngine`'s business.

**`Registration`** has every `registerX` call, with the checks of
`HSM_ENABLE_SAFE_STRUCTURE` and without.  It is what establishes the assumptions on the
parents in `HsmStructure`.

**`VariantStore`** has the memory behind Variants: who refers to which block, through
every constructor, copy, move, getter and write through a pointer that was got.  That a block
lives as long as something refers to it is `std::shared_ptr`'s own promise and part of the
model (`Store`).  A Variant may be assigned an element of the value it holds: the assignment
frees the element before it has read it all, unless a pointer of the client keeps the block.
What is read then is undefined; `AssignElement` has what the destructor leaves as one of the
outcomes, and the constant `AssignsOwnElements` says whether clients do this.
**`VariantValue`** is pure: what values are, `operator==` and `operator<`, `compare`,
`toInt64`, `toDouble`, `toBool`, `toString`, the containers.  Integers wrap at `Width`
bits, doubles are multiples of a grain with a mantissa of `Mantissa` bits, text is a list
of tokens, each a numeral or a word.  Its comparisons recur into containers with RECURSIVE
operators: only TLC uses it, and `VariantProofs` rests on `VariantStore` alone.
**`MCVariant`** puts them together: what two Variants hold at the same time is what the
comparisons are asked about.

## 3. What the runs check

All runs: `tlc -config X.cfg M`.  State counts are of the complete graphs.

| Run | Instance | Shows |
|---|---|---|
| `nested` (`MCNested`, 722k states) | `F`, `P{*A,Q{*B,C}}`; `P`, `A`, `B` may refuse to exit, `F` to be entered; a condition, an internal transition, a deep history, a state action; a client that clears the queue, waits, times out | `NoDuplicateActive`, `CanceledRestores`, `PopNeverEmpty`, `EmissionCoversPending` |
| `parallel` (`MCParallel`, 55k) | `P{*Q{*B,C} \|\| *A}` with final states | `LegalConfiguration`, `InnerTransitionsFirst`, `FinalEventWaits` |
| `history` (`MCHistory`, 630k) | deep and shallow history of a nested state, with and without default target, refused exits and entries | `TypeOK`, `HistoryRemembers`, `HistoryRestored`, `LeavesOnlyByExit` |
| `sync` (`MCSync`, 361k) | `A`, `P{*B}`, `C` (the machine of `tests/testcases/04_multithreaded.cpp`), two synchronous clients, one of them with a timeout | `NoOrphanWaiter`, `SyncTrueMeansFinished`, and under fairness `SyncDecided` |
| `dispatcher` (`DispatcherSTD`, 226k) | two machines, one of which is released, `stop()`, a client that emits, enqueues events and actions | `NeverSleepsOnEvents`, `ReleasedIsQuiet`; under fairness `Stops`, `ReleaseEnds`, `EnqueuedSeenAwake` and the refinement `EmissionsServed` |
| `timers` (`MCTimers`, 731k) | two timers of intervals 1 and 2, single-shot and periodic; two clients that start, restart, stop and unregister; `stop()` | `ActiveMatchesRunning`, `CallbackIsRegistered` |
| `loops` (`LoopDispatcher`, 164k) | five platforms; two machines, one released, one used from interrupts; two threads and the loop itself as callers; `stop()` | `NoWakeupLost`, `GrowsOnlyByOverlap`; under fairness `WorkIsDone` and the refinement `EmissionsServed` |
| `native_timers` (`NativeTimers`, 159k) | five platforms; a timer that is started, restarted and stopped by the thread that fires it or by another one; a full queue of timer commands; `stop()` | `ActiveTicks`, `ArmedIsRegistered`; under fairness `SingleShotExpires` |
| `lifecycle` (`Lifecycle`, 98k) | four hosts; two threads that post or start a timer, the owner | `ReleasedIsIdle`; under fairness `ReleaseReturns`, `EventsAreTaken` |
| `registration` (`Registration`, 611k) | four states, three substates, two entry points, with and without the safe build, in any order | `SubstatesFormForest`, `EntryPointsInside` |
| `variant` (`MCVariant`, 74k) | two Variants, a pointer, samples of each type | `TypeMatchesContent`, `OwnStorage`, `ChangesStayLocal`, `ComparisonsOrder`, `RoundTrips` |
| `timers_deadlock` (`MCTimers`) | see below | violated: `CallsReturn` |

### Where the code and its documentation disagree

One run is violated: `timers_deadlock` (`CallsReturn`).  `startTimer` takes `mHandlersSync`
and then `mRunningTimersSync`, an expiring timer the other way round, and neither thread
returns.

Further disagreements were met.  The properties that show them are in the modules, with a
configuration beside the runs where it is not that of a run with another constant:

| Configuration | Property | What happens |
|---|---|---|
| `EntryPointDropped.cfg` (`MCSync`) | `LegalConfiguration` | A client that clears the queue while `P` is being entered removes the queued entry point of `P`: `P` stays active with no substate.  `clearPendingEvents` (`HsmImpl.cpp:1559`) says entry point transitions are atomic, and then clears the whole list. |
| `WaiterAsleep.cfg` (`MCSync`) | `SyncReturns` | `unlock()` writes the status and notifies without the mutex the caller waits with.  Between the caller's look at the status and its sleep the notification is lost; without a timeout it never returns. |
| `DeepHistoryParallel.cfg` (`MCHistoryParallel`) | `HistoryRestored` | Two regions, one of them nested, were active; `transitionToPreviousActiveStates` groups the remembered states by comparing neighbours, and what is active afterwards is something else. |
| `DispatcherLimits.cfg` (`DispatcherSTD`) | `ActionsExecuted` | The predicate of `mEmitEvent.wait` does not look at `mPendingActions`: the notification of `enqueueAction()` wakes the thread, and it sleeps on until something else is emitted. |
| `TimerForgotten.cfg` (`MCTimers`) | `TimersExpire` | The timers thread finds no timer, releases its lock and then waits without a predicate; a timer started in between has sent its only notification, and never expires. |
| `FreeRTOSTimerLost.cfg` (`NativeTimers`) | `StartedTicks` | A timer is started again between the end of its handler and the erasure of its entry on the timer task (`HsmEventDispatcherFreeRTOS.cpp:291`): the entry of the running timer goes, and when that expires no identifier is found for it and nobody is called.  `hsm.hpp:571` says a timer that runs is restarted. |
| `ArduinoPeriodic.cfg` (`NativeTimers`) | `StartedTicks` | `handleTimers` erases every timer that has expired (`HsmEventDispatcherArduino.cpp:108`); a periodic one stays active and fires once.  `hsm.hpp:577` says it restarts. |
| `LoopDispatcher.cfg` with | `StopIsSafe` | `stop()` of another thread closes the pipe (`HsmEventDispatcherGLib.cpp:124`), or deletes the `Glib::Dispatcher` (`HsmEventDispatcherGLibmm.cpp:149`), while a caller is about to notify through it.  `emitEvent` and `enqueueEvent` are documented as thread-safe (`IHsmEventDispatcher.hpp:144,162`). |
| the same, `MayRestart = TRUE` | `StartedServes` | After `stop()` a second `start()` does not take `mStopDispatcher` back, and nothing is served. |
| `Lifecycle.cfg`, `Hosts = {"STD"}` | `HandledWhenActive` | Handlers are registered before `handleStartup`: an event that another thread posts is handled before the initial state is active (`HsmImpl.cpp:128`). |
| `Lifecycle.cfg`, `MayReleaseInside = TRUE` | `ReleaseReturns` | `release()` from a callback waits for the flag that its own `dispatchEvents()` would clear (`HsmImpl.cpp:190`); `hsm.hpp:108-110` tells to call it from the dispatcher's thread. |
| `Registration.cfg` with | `TopLevelListed` | `isTopState` has its comparison inverted (`HsmImpl.cpp:1621-1625`): `registerState` adds a state to the top level states only when it is among them, so the list that `HsmImpl.hpp:228` describes stays empty. |
| `MCVariant.cfg` with | `NumeralIsTrue` | `toBool()` reads a text with `stoll`: the numeral of an unsigned integer beyond the signed range is false, where `variant.hpp:418-419` promises true for any number other than 0. |
| `WaiterOrphaned.cfg` (`MCSync`) | `NoOrphanWaiter` | `clearPendingEvents` answers the callers of REGULAR events only; the one whose transition is under way loses its follow-up event and its answer. |
| `MCHistory.cfg` with `target = "P"` for a history of `P` | `NoOrphanWaiter`, `LegalConfiguration` | A history whose default target is its own parent: both events that `transitionToDefaultHistoryState` pushes (`HsmImpl.cpp:1428-1464`) ignore entry points, so that `P` stays active without a substate, and a synchronous caller is never answered. |
| `RegionKilled.cfg` (`MCHistoryParallel`) | `LeavesOnlyByExit` | A FORCED event applies to every state of the snapshot, and removes states of another region without `onExiting`. |
| `ParentBeforeChild.cfg` (`MCNested`) | `InnerTransitionsFirst` | The rollback after a refused exit appends parents behind their children; from then on the parent is asked first. |
| `MCParallel.cfg` with | `SyncTrueMeansFinished` | Of several entry points taken by one event the last result counts; `true` may be answered while a nested entry is still queued. |
| `DispatcherLimits.cfg` with | `EnqueuedDelivered` | An event enqueued between the dispatcher's last look and its sleep waits for the next emission.  `EnqueuedSeenAwake` shows that no other window exists. |
| `DispatcherLimits.cfg` with | `WithinCacheSize` | Two threads pass the comparison for one free place, and the vector grows; since its memory is kept (`HsmEventDispatcherBase.cpp:295-297`), the larger capacity is the limit from then on.  `GrowsOnlyByOverlap` shows that nothing else makes it grow. |
| `DispatcherLimits.cfg` with | `OldestFirst` | Enqueued events are delivered in reverse order; `emitEvent()` delivers the oldest first. |
| `LoopDispatcher.cfg`, `MayEnqueue` with the machine that is released | `StopIsSafe` | The callback of an event that a machine enqueued before it was unregistered is empty, and calling it throws (`HsmEventDispatcherBase.cpp:307`). |
| `VariantEquality.cfg` (`MCVariant`) | `DifferentTypesNeverEqual` | `variant.hpp:600-601` says "Variants of different types will always compare as not equal."; `operator==` converts numbers of different types and compares their values (`variant.cpp:203`), as `tests/testcases/20_variant.cpp:941` expects. |
| `VariantOrder.cfg` (`MCVariant`) | `GreaterAsDocumented` | `variant.hpp:619-620` says "vector or list values are compared by size (A.size() > B.size())" and "other types are not supported and false is always returned"; `operator>` compares item by item whatever the sizes, also maps, pairs and bytes (`variant.cpp:182`, `variant.hpp:889-900`). |
| `MCVariant.cfg`, `AssignsOwnElements = TRUE` | `TypeMatchesContent` | `v = element` where the element is part of what `v` holds: `data` is replaced, which frees the element, and then its type and copier are read (`variant.cpp:135-138`). |
| `StopDeadlock.cfg` (`MCTimers`) | `StopReturns` | `stop()` holds `mEmitSync` and waits for `mHandlersSync`; an expiring timer holds that and waits for `mEmitSync` in the handler's `emitEvent()`. |
| `TimerFiresEarly.cfg` (`MCTimers`) | `FiresOnlyWhenDue` | After its wait has timed out the thread looks whether the timer runs, not whether it is due: one restarted in between fires at once. |
| `RestartIgnored.cfg` (`MCTimers`) | `RestartRevives` | `restartTimer()` does nothing for a single-shot timer that has expired; the interface says it restarts it. |

`ComparisonsOrder` is therefore not what the interface says of the comparisons: it is what a
`std::map` with Variants for keys (`VariantMap_t`) needs of them, and what the test expects
of numbers.

The passing runs are asked where these do not reach: `LegalConfiguration` where
nobody clears the queue, `InnerTransitionsFirst` where no exit is refused,
`HistoryRestored` and `LeavesOnlyByExit` where the history's parent has no parallel
regions, `SyncTrueMeansFinished` where one entry point is taken at a time.
`FinalEventWaits` is asked where no client posts the event of a final state, since it
recognises that event by its name.  For `LegalConfiguration`, `InnerTransitionsFirst` and
`SyncTrueMeansFinished` these conditions are hypotheses of theorems (section 4).

### Bounds

* Machines of 4 to 9 states and two levels of nesting: enough for a transition to exit
  and enter two levels, to be refused after an inner state has been exited, for two
  regions of different depth, and for a follow-up event of a follow-up event.
* `MaxPending = 2`, `MaxEmitted = 2`: clients post only to a shorter queue, the engine's
  own follow-up events go beyond it.  Two are enough for a foreign event in front of,
  behind and in the place of a follow-up event.
* Two clients where they can disturb each other (`sync`, `timers`, `loops`); one in `nested`,
  `parallel`, `history` and `dispatcher`, against the dispatcher's thread, a releasing
  thread and a stopping one.  The theorems drop this bound for the properties they prove.
* `CacheSize = 1`: the queue for interrupts is full with one event.  In `loops` the three
  callers overflow it and use it with the capacity it has grown to.
* `loops`: three calls (`MaxCalls`) of three callers, so that one is made from a handler that
  another led to, and `stop()` falls between; a pipe of six bytes (`PipeSize`) is never
  full with three calls.  A full pipe, which takes 64 KiB of notifications, makes a loop
  that writes into it wait for itself: with `PipeSize = 1` `WorkIsDone` fails on GLib.
* `native_timers`: one timer, since timers share nothing but the lock; four calls, and four
  native timers (`MaxSources`) for those created and not yet deleted.
* `lifecycle`: three events or timers (`MaxPosts`) of three threads: one during startup, one
  that is served when `release()` comes, one behind it.
* `registration`: four states, so that a cycle of three parents would be possible beside a
  state that is not in it; three pairs close it.  Other calls than those that build the
  hierarchy do not touch it; one of each is enough (`MaxOthers`).
* `variant`: narrow integers have two bits, wide ones four; the sign and the width differ as
  with 8 to 64 bits.  Four blocks: one for each Variant and pointer, and a copy under way.
  The two Variants are alike (`SYMMETRY`; the run has no liveness property).
* Timers of one and two ticks, so that one expires while the other waits; three calls
  (`MaxCalls`) reach start, restart or stop, and unregister.

A synchronous client of the engine has one status to reuse, where the code gives each call
its own: it posts again only when nothing of its earlier call is left (`StatusIsFree`).

### Fairness

Safety needs none.  The liveness runs assume that threads which can take a step do: the
dispatcher's and the timers thread (`WF` of all their steps, as one thread), a client that
has appended and is to notify, that is inside of a call, or that looks at its status, a
`release()` that waits for the flag to fall, `stop()` once it has begun, and the passing
of time.  Nothing is assumed of clients that may make a call but need not, nor of spurious
wake-ups.  In `SyncReturns` and `TimersExpire` a thread that sleeps is not woken for no
reason, as a condition variable promises nothing of the kind.

`loops` assumes that the framework runs its loop (or the sketch calls `dispatchEvents()`, or
the scheduler runs the task) when there is something for it to do, and that callers go on
with their calls: `WF` of `LoopStep`, and of `CallStep` of each caller.  `native_timers`
assumes that the threads run, and `SF` of each native timer: a timer that is armed again and
again by restarts would otherwise be disabled before each expiry; the frameworks fire what is
due.  `lifecycle` has `WF` of the owner inside of its calls, of the dispatcher and of the
posters; nobody has to post or to release.

`CHECK_DEADLOCK FALSE` is set where the modelled program ends: in `dispatcher` and `loops`
after `stop()`, in the configurations of timers and in `registration` after the last of the
bounded calls, in `lifecycle` after `release()`.

## 4. What is proved

`tlapm X.tla`.  The theorems hold for every value of the constants that satisfies the
named assumptions of `HsmStructure` (names are distinct, an entry point names its own
parent, ...), of `HsmEngine` (`ClientsAssumption`) and of `DispatcherSTD` and `TimersSTD`:
every registered machine, any number of threads, any bound.  The same goes for
`RegistrationAssumption`, `LoopAssumption`, `LifecycleAssumption`, `StoreAssumption` and
`NativeAssumption`.

| Theorem | Property | Inductive invariant |
|---|---|---|
| `TypeCorrect` (`HsmEngineProofs`) | `TypeOK` | `TypeOK` itself |
| `ActiveStatesUnique` | `NoDuplicateActive` | `ActiveInv`: the list is empty until startup, the only place that appends without a look |
| `QueueHoldsWhatWasSeen` | `PopNeverEmpty` | itself: clearing and posting are under one lock |
| `EveryEventIsServed` | `EmissionCoversPending` | itself, with `TypeOK` |
| `CancelingRestores` | `CanceledRestores` | `CancelInv` |
| `NobodyForgotten` | `NoOrphanWaiter`, under `NothingDropped` | `WaitInv` |
| `HistoriesAreExact` | `LeftWhole => HistoryRemembers`, under `Acyclic` | `ChosenInv`, `LeaveInv` and `CancelInv` |
| `OnlyHistoriesForce` | every step of an event that is not FORCED takes from the active states only exited ones | `ChosenInv`, `LeaveInv` |
| `LeavingCallsExit` | `LeavesOnlyByExit`, without history states | the same, with `UnforcedInv` |
| `ParentsStayActive` | `ParentsActive` but while states are taken off the list, under `Outward` | `ParentsInv` |
| `InnerStatesAskedFirst` | `InnerTransitionsFirst`, under `Outward` and without refused exits | `InnerInv`, with `ParentsInv` |
| `ConfigurationsAreLegal` | `LegalConfiguration`, under `Composed` | `EnterInv`, with `LegalInv` |
| `TrueMeansFinished` | `SyncTrueMeansFinished`, under `Serial` | `SyncInv` and `ChainInv`, with `LegalInv` |
| `NoLostWakeup` (`DispatcherProofs`) | `NeverSleepsOnEvents` | `SleepInv` |
| `ReleasedStaysQuiet` | `ReleasedIsQuiet` | `QuietInv` |
| `EmissionsServedSafely` | `Promise!Safety`, the safety part of the refinement `EmissionsServed` | `ServingInv` |
| `TablesAgree` (`TimersProofs`) | `ActiveMatchesRunning` | `TablesInv` |
| `HandlerOutlivesItsCall` | `CallbackIsRegistered` | `HandlerInv` |
| `ActiveTimersTick` (`NativeTimersProofs`) | `ActiveTicks` | `NativeInv` |
| `ArmedTimersAreRegistered` | `ArmedIsRegistered` | the same |
| `NoWakeupIsLost` (`LoopProofs`) | `NoWakeupLost` | `LoopInv` |
| `GrowthNeedsOverlap` | `GrowsOnlyByOverlap` | `CapacityInv`, with `LoopInv` |
| `EmissionsServedSafely` (`LoopProofs`) | the same promise, under `StaysStopped` | `ServingInv`, with `LoopInv` |
| `ReleaseLeavesNothing` (`MachineProofs`) | `ReleasedIsIdle`, unless a callback releases | `ReleaseInv` |
| `SafeStructureIsForest` | `SubstatesFormForest` | `RegistrationInv` |
| `EntryPointsBelong` | `EntryPointsInside` | the same |
| `ContentHasItsType` (`VariantProofs`) | `TypeMatchesContent`, under `~AssignsOwnElements` | `StoreInv` |
| `CopiesAreDeep` | `OwnStorage` | the same |
| `OthersStayAsTheyAre` | `ChangesStayLocal` (every step) | the same |

* `TypeOK` of the engine is more than types: iterators stay inside of their lists, the
  transitions named by `todo`, `matching` and `cur` exist in the list of the event that is
  being dispatched, a history is restored only for a history state.  Every other proof
  about the engine starts from it.  The lists are handled by lemmas: what `RemoveAt` and
  appending keep of a list without duplicates (`WithoutState`, `AppendState`, `AddState`,
  `ReplaceState`).
* `CancelInv` says, at every point of an exit, that what was active at the beginning is
  active still or among the exited states, and that a rollback has brought back those it
  has passed.  The property alone speaks only of the end.
* `WaitInv`: whatever leaves the entry points or the rest of a transition to a later event
  (`ignoreEntryPoints`, a result PENDING) has that event behind it in the queue, for the same
  caller (`Followed`, `Unfinished`).  The property alone does not survive the end of a
  dispatch, which answers nobody when the result is PENDING.
* `ChosenInv` and `LeaveInv` follow the exits of a transition.  All that is exited is at or
  below the state that is left; of the active states below it those behind the iterator have
  been exited already, so that when the iterator arrives none is left out.  `HistoriesSoFar`
  says that each history holds exactly what `Remembered` gives for the states taken off so
  far.  Ancestors are a least set, so what is needed of them (`ChildOnTheWay`,
  `AncestorsOfChild`) follows from a set closed under `Parent`, without induction.
* `UnforcedInv`: without histories no FORCED event is ever in the queue or in hand.
* `ParentsInv` says where the parent of an active state may be missing, namely while the
  exited states are taken off the list or put back, and what makes up for it: `single.before`
  is closed under parents; all that is active below the state being left is still to be taken
  off; the states around it stay active until the target is entered.  The target's parent is
  one of these (`OutwardTarget`).
* `InnerInv`: no active state is listed behind one of its substates (`Inward`), and the
  snapshot, which is asked from its end, inherits that order.  A state is entered at the end
  of the list when nothing below it is active.
* `LegalInv` collects what the next two theorems share.  `Kept` are the active states with
  those that a transition under way has taken off the list; every step leaves `Kept` alone,
  makes it smaller, replaces a state by one with the same parent, or adds a child to a state
  that has none, or several to one with parallel regions (`KeptMoves`).  `TogetherInv` says
  that the regions in `Kept` are exclusive and that it is one tree, `LateralInv` that one
  transition at a time is carried out for an event that is not an ENTRYPOINT.
* `EnterInv` gives a reason for every composite state that is active without a substate
  (`Excused`): the ENTRYPOINT event that opens it is first in the queue, or it is in hand and
  the state is still to be asked, or a substate has just been left for a sibling, or the state
  has been entered a moment ago.  Only the first is left between events, which is what
  `Settled` excludes.  The hard step is the pass of an ENTRYPOINT event over the snapshot: it asks
  every composite state that waits (`InHand`), and a composite state that is entered on the way
  pushes an ENTRYPOINT event of its own.
* `ChainInv`: without parallel states the active states are a chain of ancestors, those of
  the snapshot too, and one transition at most is carried out for an ENTRYPOINT event.
* `SyncInv`: the events in the queue have different owners; whoever has read DONE_OK has none
  there or in hand (`OwnersInv`).  A follow-up event is pushed in the last step made for its
  event: the states still to be asked that are active are all around the one just entered
  (`NothingToAdd`), and the scan passes them over because a substate has accepted the event.
  So nothing can replace the result PENDING, and the event's owner is not answered
  (`ResultInv`).
* `TablesInv` says how the tables of timers differ while a call is in the middle of them: a
  timer is active exactly if it runs once the steps left of the call are done (`WillRun`).
* `Promise!Safety`: the initial states of a dispatcher are those of `EventDispatcher`, and
  every step is one of its steps or a stutter.  `ServingInv` gives the guards of the abstract
  step (a live machine has a handler, in the copy a round works on too); what
  `release()` takes out of `mPendingEvents` is what the abstract step takes out of the
  emissions of both lists (`WithoutConcat` in `ListEraseProofs`).
* `SleepInv` adds that the thread owns `mEmitSync` from its look at the queue until it is
  blocked; an append falls before the look or after the block, where the notification
  that follows reaches the thread.
* `QuietInv` is the property and the domain of `hsm`: `release()` sets `mStopDispatching`
  and then reads the flag, the dispatcher sets the flag and then reads `mStopDispatching`.
* `CapacityInv` of the loops adds that, without an overlap, one caller at most is past the
  comparison of `enqueueEvent()`, in no other call (`EnqueuesAlone`), and that the place it
  has seen is still free: only it appends, and deliveries only take.
* `NativeInv` speaks of the moments between the two tables, of which the properties say nothing.
  A timer that is active and not about to be started has a native timer that is armed, or that
  has fired and whose handler comes next (`WillTick`); what a call has found in the table
  (`call.found`) is still so when the call uses it, unless the timer is `lost`; an entry names
  a native timer of its own timer.  For Qt with another thread
  (`ByAnother`) nothing is claimed, as in `ActiveTicks` itself: the timer is created by an
  event that no mutex covers.
* `HandlerInv` adds that active timers belong to a registered handler, and that the thread
  owns `mHandlersSync` while it calls.
* `LoopInv`: the loop looks once in a round for each kind of work.  What is there after that
  look came later, so its notification is in the channel or still owed by a caller
  (`ProceedKeeps`: a caller forgets what it owes only by sending it).  `StartInv` covers the
  channel that `start()` makes empty: before the first `start()` the queues are, and after
  a later one nothing is served.
* `ReleaseInv`: while a transition runs, the flag is set and its mutex taken, and no
  transition begins once `mStopDispatching` is set; each way in which the wait can end,
  too early or not, has looked at one of the two or runs on the dispatcher's own thread.
* `RegistrationInv` adds to the forest that a link names states, and that the list of
  entry points is well typed.  The step that matters is `LinkKeepsForest`: a state without
  a parent gets one that is neither itself nor below it, so that a cycle through the new
  link would make the child an ancestor of its parent.
* `StoreInv`: the domains of the tables, `OwnStorage`, and that neither a Variant nor a
  pointer refers to a free block (`Holding`, `PointersHold`), which is why a new block is one
  that nobody refers to.  That type, copier and content agree is part of it only under
  `~AssignsOwnElements`; `CopiesAreDeep` and `OthersStayAsTheyAre` do without.

Some theorems have hypotheses, each for a reason that lies in the code:

* `NothingDropped` (`NobodyForgotten`): nobody clears the queue (`WaiterOrphaned.cfg` shows
  what happens otherwise), and no history has its own parent as its default target
  (section 3).
* `Acyclic` (`HistoriesAreExact`): parents form a forest, which is what
  `SafeStructureIsForest` says of the registration in the safe build.
* `LeftWhole` (the same): of a composite state with a history that is left, the part that was
  active when the transition began was whole: some child of it, and with each state all those
  between.  Where the configuration has a gap, as after a FORCED event among parallel regions,
  `updateHistory` walks up the registered parents: a shallow history stores the child on that
  way, active or not, and the history of a state without an active child keeps what it held.
  Transitions of `MCHistory` leave whole states and store histories all the time.
* `HistoryStates = {}` (`LeavingCallsExit`): `RegionKilled.cfg` shows a FORCED event that
  removes states which were never asked.  `OnlyHistoriesForce` has no hypothesis, and says
  that there is no other cause.
* `Outward` (`ParentsStayActive` and the next three): no histories, since a FORCED event enters
  the states it names in an order of its own; no refused entries, since what was exited is then
  appended again from the inside out; transitions
  that lead beside their source or beside a state around it, since a target deeper in another
  branch is entered without the states around it (only `EntryPoints` enter level by level).
* `CanRefuseExit = {}` (`InnerStatesAskedFirst`): `ParentBeforeChild.cfg`.  The other theorems
  about configurations and answers allow refused exits.
* `Lateral` (`ConfigurationsAreLegal`, `TrueMeansFinished`): transitions between siblings, one
  for an event in a state.  A transition to an outer level leaves the parent of its source
  active without a substate, because only the source is exited; two matching transitions of one
  state make two siblings active.
* `Composed` (`ConfigurationsAreLegal`): an entry point without condition in each composite
  state, since otherwise nothing need be entered; final states in the outermost composite state
  only, because the event of a final state is put in front of the ENTRYPOINT events that other
  regions wait for; and nobody clears the queue (`EntryPointDropped.cfg`).
* `OneEntry` (`TrueMeansFinished`): with parallel regions two follow-up events of one owner
  are queued, and the first to finish answers (section 3, `MCParallel.cfg` with
  `SyncTrueMeansFinished`).  Clearing the queue is allowed here.
* `~AssignsOwnElements` (`ContentHasItsType`): the code leaves undefined what a Variant becomes
  that is assigned an element of its own (section 3).
* `StaysStopped` (`EmissionsServedSafely` of the loops): `start()` of Arduino and FreeRTOS sets
  `mStopDispatcher` back, so that emissions which the stop gave up are served after all.
* `ReleasedIsIdle` "unless a callback releases": `ReleaseReturns` of section 3.

Only model-checked:

* liveness, the fair part of `EmissionsServed` included: the prover has no fairness and no
  `ENABLED`;
* `FinalEventWaits`: it recognises the event of a final state by its name, so that a theorem
  would have to exclude every other source of that name (clients, actions of states, events
  that an entry point carries on) and transitions out of final states;
* `HistoryRestored`: what `transitionToPreviousActiveStates` brings back depends on the order in
  which remembered states are neighbours, and fails for parallel regions
  (`DeepHistoryParallel.cfg`);
* what `VariantValue` computes (`ComparisonsOrder`, `RoundTrips`): induction over data is out
  of the prover's reach, and RECURSIVE operators are in `VariantValue` and `MCVariant` only,
  which no proof uses.

## 5. What is not modelled

* The states the initial callbacks and transitions lead to, in `Lifecycle`; a startup
  against a dispatcher that runs, in `HsmEngine`: each has the other's part abstracted.
* `release()` against the engine: `dispatchEvents` looks at `mStopDispatching` before and after
  a transition (`HsmImpl.cpp:644,660`), which is part of `Lifecycle` and `DispatcherSTD`, and
  `doTransition` ends with DONE_FAILED for an event during which the dispatcher has gone
  (`HsmImpl.cpp:1109-1113`), which is part of no module.  Nor is a thread in `transitionSync`
  whose machine is released: `release()` leaves the queue as it is, and answers nobody.
* The unlocked `push_front` of `transitionToDefaultHistoryState` is one step here; in the
  code it races with clients that append.
* `isTransitionPossible` and the other queries; `isTimerRunning`.  They change nothing, and
  `isTransitionPossible` promises no more than its loop says.
* Arguments of events and callbacks, failed transitions' callbacks, logging: no property
  looks at them.  Actions of states are those that post events; those on timers would
  join the engine with `TimersSTD`.
* `start()` and `join()` of the STD dispatcher, whose thread runs from the first state on;
  `join()` of FreeRTOS; failures of `start()`.
* The deletion of a dispatcher: `deleteSafe` hands the object to the main loop of the
  framework, which is assumed to outlive its events.
* A FreeRTOS timer that was created and could be neither started nor deleted: nothing refers
  to it.
* `StopIsSafe` and `StartedServes` fail (section 3); the runs ask what holds between one
  `start()` and `stop()`.
* Comparisons and conversions of mixed types that no order is expected of; doubles beyond
  the mantissa chosen.  A move from an element of the Variant's own container:
  as the copy (section 2), it reads what it has freed.
* The public class, which forwards to `Impl`; the tools, which share no state with it.

## 6. Plan

1. `LegalConfiguration` with histories, and with transitions to outer levels where those leave
   whole configurations; `HistoryRestored` for structures without parallel states.
2. `FinalEventWaits`, with final events told apart by where they come from.
3. The assumptions of `HsmStructure`, and `Acyclic`, from `RegistrationInv`.
4. The engine with the startup of `Lifecycle`, and with actions of states on timers.
5. The deletion of dispatchers, and `join()` of FreeRTOS.
