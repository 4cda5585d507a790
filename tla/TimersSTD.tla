------------------------------ MODULE TimersSTD ------------------------------
(***************************************************************************)
(* The timers of HsmEventDispatcherSTD: threads that start, restart, stop  *)
(* and unregister timers (HsmEventDispatcherBase.cpp, 128-207), the thread *)
(* that waits for the next one to expire (HsmEventDispatcherSTD.cpp,       *)
(* 164-241) and a thread that calls stop().                                *)
(*                                                                         *)
(* Locks have owners where a thread takes a second lock under them.  Time  *)
(* is counted in ticks: mRunningTimers holds what is left of each timer,   *)
(* and a thread may be as late as it likes.                                *)
(***************************************************************************)
EXTENDS Integers, Sequences, SequencesExt

CONSTANTS
    Timers,         \* TimerID_t
    Interval,       \* intervalMs of each timer, in ticks
    Kinds,          \* "single" (isSingleShot) and "periodic"
    Clients,        \* threads that use timers
    TimersThread,   \* mTimersThread
    Stopper,        \* the thread that calls stop()
    NoThread,       \* owner of a lock that is free
    NoCall,         \* a client outside of the API
    Operations,     \* which of "start", "restart", "stop", "unregister" are called
    MayStop,        \* whether stop() is called at all
    MaxCalls        \* bound: so many calls are made at most

ASSUME TimersAssumption ==
    /\ Interval \in [Timers -> Nat \ {0}]
    /\ Kinds \subseteq {"single", "periodic"}
    /\ Operations \subseteq {"start", "restart", "stop", "unregister"}
    /\ TimersThread # NoThread /\ Stopper # NoThread /\ NoThread \notin Clients
    /\ TimersThread # Stopper /\ {TimersThread, Stopper} \cap Clients = {}
    /\ MayStop \in BOOLEAN /\ MaxCalls \in Nat

VARIABLES
    mTimerHandlers,         \* whether the state machine's timer handler is registered
    mActiveTimers,          \* the kind of each active timer
    mRunningTimers,         \* what is left of each running timer
    mNotifiedTimersThread,
    mStopDispatcher,
    mHandlersSync, mRunningTimersSync, mEmitSync,   \* who owns each lock
    pc,                     \* where the timers thread stands
    waitingTimerId,         \* the timer it waits for
    waitDuration,           \* how long it still will
    call,                   \* what each client has called
    todo,                   \* what it still does under mHandlersSync
    stopper,                \* where stop() stands
    calls,                  \* how many calls were made
    expired                 \* single-shot timers that expired, for RestartRevives

tables == <<mTimerHandlers, mActiveTimers, mRunningTimers>>
locks == <<mHandlersSync, mRunningTimersSync, mEmitSync>>
thread == <<pc, waitingTimerId, waitDuration>>
clientVars == <<call, todo, calls>>
vars == <<tables, locks, thread, clientVars, mNotifiedTimersThread, mStopDispatcher,
          stopper, expired>>

\* Who owns a lock follows from where the threads stand; a client has something left
\* to do only while it holds mHandlersSync.
TypeOK ==
    /\ mTimerHandlers \in BOOLEAN
    /\ DOMAIN mActiveTimers \subseteq Timers
    /\ \A t \in DOMAIN mActiveTimers : mActiveTimers[t] \in Kinds
    /\ DOMAIN mRunningTimers \subseteq Timers
    /\ \A t \in DOMAIN mRunningTimers : mRunningTimers[t] \in 0 .. Interval[t]
    /\ mNotifiedTimersThread \in BOOLEAN /\ mStopDispatcher \in BOOLEAN
    /\ pc \in {"none", "loop", "falling", "asleep", "timed", "fallingTimed", "asleepTimed",
               "elapsed", "fire", "handler", "exit"}
    /\ waitingTimerId \in Timers /\ waitDuration \in Nat
    /\ stopper \in {"idle", "unregister", "notify", "done"}
    /\ mHandlersSync \in Clients \cup {TimersThread, NoThread}
    /\ mHandlersSync = TimersThread <=> pc = "handler"
    /\ mRunningTimersSync = IF pc \in {"fire", "handler"} THEN TimersThread ELSE NoThread
    /\ mEmitSync = IF stopper \in {"unregister", "notify"} THEN Stopper ELSE NoThread
    /\ \A c \in Clients : todo[c] # <<>> => mHandlersSync = c /\ call[c] # NoCall
    /\ calls \in Nat /\ expired \subseteq Timers

Init ==
    /\ mTimerHandlers = TRUE
    /\ mActiveTimers = <<>> /\ mRunningTimers = <<>>
    /\ mNotifiedTimersThread = FALSE /\ mStopDispatcher = FALSE
    /\ mHandlersSync = NoThread /\ mRunningTimersSync = NoThread /\ mEmitSync = NoThread
    /\ pc = "none" /\ waitingTimerId \in Timers /\ waitDuration = 0
    /\ call = [c \in Clients |-> NoCall]
    /\ todo = [c \in Clients |-> <<>>]
    /\ stopper = "idle"
    /\ calls = 0 /\ expired = {}

Active  == DOMAIN mActiveTimers
Running == DOMAIN mRunningTimers

Erased(table, t) == [u \in DOMAIN table \ {t} |-> table[u]]

\* operator[] of a map, assigned to.
Assigned(table, t, value) ==
    [u \in DOMAIN table \cup {t} |-> IF u = t THEN value ELSE table[u]]

\* notifyTimersThread
NotifyTimersThread ==
    /\ mNotifiedTimersThread' = TRUE
    /\ pc' = CASE pc = "asleep" -> "loop" [] pc = "asleepTimed" -> "timed" [] OTHER -> pc

-----------------------------------------------------------------------------
(* startTimer, restartTimer, stopTimer, unregisterTimerHandler             *)

Requests ==
    [op : Operations \cap {"start"}, timer : Timers, kind : Kinds]
    \cup [op : Operations \ {"start"}, timer : Timers]

CallAPI(c) ==
    /\ call[c] = NoCall
    /\ calls < MaxCalls                                               \* bound
    /\ \E request \in Requests : call' = [call EXCEPT ![c] = request]
    /\ calls' = calls + 1
    /\ UNCHANGED <<tables, locks, thread, todo, mNotifiedTimersThread, mStopDispatcher,
                   stopper, expired>>

\* stopTimerImpl and startTimerImpl
StopTimerImpl(t) == <<[do |-> "erase", timer |-> t], [do |-> "notify", timer |-> t]>>
StartTimerImpl(t) ==
    <<[do |-> "spawn", timer |-> t], [do |-> "insert", timer |-> t],
      [do |-> "notify", timer |-> t]>>

\* Mutant: the timers of the handler keep running.
UnregisterHandlerOnly(c) ==
    /\ mTimerHandlers' = FALSE
    /\ UNCHANGED <<mActiveTimers, todo>>

UnregisterTimerHandler(c) ==
    /\ mTimerHandlers' = FALSE
    /\ mActiveTimers' = <<>>
    /\ LET timers == SetToSeq(Active)
       IN  todo' = [todo EXCEPT ![c] =
              [i \in 1 .. 2 * Len(timers) |->
                 StopTimerImpl(timers[(i + 1) \div 2])[2 - (i % 2)]]]

StartTimer(c, t, kind) ==
    /\ UNCHANGED mTimerHandlers
    /\ IF mTimerHandlers
       THEN /\ mActiveTimers' = Assigned(mActiveTimers, t, kind)
            /\ todo' = [todo EXCEPT ![c] =
                  IF t \in Active THEN StopTimerImpl(t) \o StartTimerImpl(t)
                                  ELSE StartTimerImpl(t)]
       ELSE UNCHANGED <<mActiveTimers, todo>>

RestartTimer(c, t) ==
    /\ UNCHANGED <<mTimerHandlers, mActiveTimers>>
    /\ todo' = IF t \in Active
               THEN [todo EXCEPT ![c] = StopTimerImpl(t) \o StartTimerImpl(t)] ELSE todo

\* Mutant: the timer is not taken off the running ones.
DeactivateTimer(c, t) ==
    /\ UNCHANGED <<mTimerHandlers, todo>>
    /\ mActiveTimers' = Erased(mActiveTimers, t)

StopTimer(c, t) ==
    /\ UNCHANGED mTimerHandlers
    /\ mActiveTimers' = Erased(mActiveTimers, t)
    /\ todo' = IF t \in Active THEN [todo EXCEPT ![c] = StopTimerImpl(t)] ELSE todo

\* Each call takes mHandlersSync for all it does.
EnterCall(c) ==
    /\ call[c] # NoCall /\ mHandlersSync = NoThread
    /\ mHandlersSync' = c
    /\ \/ call[c].op = "start" /\ StartTimer(c, call[c].timer, call[c].kind)
       \/ call[c].op = "restart" /\ RestartTimer(c, call[c].timer)
       \/ call[c].op = "stop" /\ StopTimer(c, call[c].timer)
       \/ call[c].op = "unregister" /\ UnregisterTimerHandler(c)
    /\ expired' = expired \ (IF call[c].op \in {"start", "stop"} THEN {call[c].timer}
                             ELSE IF call[c].op = "unregister" THEN Timers ELSE {})
    /\ UNCHANGED <<mRunningTimers, mRunningTimersSync, mEmitSync, thread, call, calls,
                   mNotifiedTimersThread, mStopDispatcher, stopper>>

Proceed(c, do) ==
    /\ todo[c] # <<>> /\ Head(todo[c]).do = do
    /\ todo' = [todo EXCEPT ![c] = Tail(@)]
    /\ UNCHANGED <<mTimerHandlers, mActiveTimers, locks, waitingTimerId, waitDuration, call,
                   calls, mStopDispatcher, stopper, expired>>

EraseRunning(c) ==
    /\ Proceed(c, "erase")
    /\ mRunningTimersSync = NoThread
    /\ mRunningTimers' = Erased(mRunningTimers, Head(todo[c]).timer)
    /\ UNCHANGED <<pc, mNotifiedTimersThread>>

\* The thread is created with the first timer.
SpawnThread(c) ==
    /\ Proceed(c, "spawn")
    /\ pc' = IF pc = "none" THEN "loop" ELSE pc
    /\ UNCHANGED <<mRunningTimers, mNotifiedTimersThread>>

InsertRunning(c) ==
    /\ Proceed(c, "insert")
    /\ mRunningTimersSync = NoThread
    /\ LET t == Head(todo[c]).timer
       IN  mRunningTimers' = Assigned(mRunningTimers, t, Interval[t])
    /\ UNCHANGED <<pc, mNotifiedTimersThread>>

Notify(c) ==
    /\ Proceed(c, "notify")
    /\ NotifyTimersThread
    /\ UNCHANGED mRunningTimers

LeaveCall(c) ==
    /\ mHandlersSync = c /\ todo[c] = <<>>
    /\ mHandlersSync' = NoThread
    /\ call' = [call EXCEPT ![c] = NoCall]
    /\ UNCHANGED <<tables, mRunningTimersSync, mEmitSync, thread, todo, calls,
                   mNotifiedTimersThread, mStopDispatcher, stopper, expired>>

InCall(c) ==
    \/ EnterCall(c) \/ EraseRunning(c) \/ SpawnThread(c) \/ InsertRunning(c) \/ Notify(c)
    \/ LeaveCall(c)

-----------------------------------------------------------------------------
(* stop(): mEmitSync, and under it mHandlersSync                           *)

BeginStop ==
    /\ MayStop /\ stopper = "idle" /\ mEmitSync = NoThread
    /\ mEmitSync' = Stopper
    /\ mStopDispatcher' = TRUE
    /\ stopper' = "unregister"
    /\ UNCHANGED <<tables, mHandlersSync, mRunningTimersSync, thread, clientVars,
                   mNotifiedTimersThread, expired>>

UnregisterAllEventHandlers ==
    /\ stopper = "unregister" /\ mHandlersSync = NoThread
    /\ stopper' = "notify"
    /\ UNCHANGED <<tables, locks, thread, clientVars, mNotifiedTimersThread,
                   mStopDispatcher, expired>>

EndStop ==
    /\ stopper = "notify"
    /\ NotifyTimersThread
    /\ mEmitSync' = NoThread
    /\ stopper' = "done"
    /\ UNCHANGED <<tables, mHandlersSync, mRunningTimersSync, waitingTimerId, waitDuration,
                   clientVars, mStopDispatcher, expired>>

-----------------------------------------------------------------------------
(* handleTimers                                                            *)

\* Under mRunningTimersSync: the timer that expires first is waited for, unless its
\* time is over already.
ChooseTimer ==
    /\ pc = "loop" /\ ~ mStopDispatcher
    /\ mRunningTimersSync = NoThread
    /\ \E t \in Running :
         /\ \A u \in Running : mRunningTimers[t] <= mRunningTimers[u]
         /\ waitingTimerId' = t
         /\ waitDuration' = mRunningTimers[t]
         /\ IF mRunningTimers[t] > 0
            THEN pc' = "timed" /\ UNCHANGED mNotifiedTimersThread
            ELSE pc' = "elapsed" /\ mNotifiedTimersThread' = FALSE
    /\ UNCHANGED <<tables, locks, clientVars, mStopDispatcher, stopper, expired>>

NoTimerToChoose ==
    /\ pc = "loop" /\ ~ mStopDispatcher
    /\ mRunningTimersSync = NoThread
    /\ Running = {}
    /\ pc' = "falling"
    /\ UNCHANGED <<tables, locks, waitingTimerId, waitDuration, clientVars,
                   mNotifiedTimersThread, mStopDispatcher, stopper, expired>>

Exit ==
    /\ pc = "loop" /\ mStopDispatcher
    /\ pc' = "exit"
    /\ UNCHANGED <<tables, locks, waitingTimerId, waitDuration, clientVars,
                   mNotifiedTimersThread, mStopDispatcher, stopper, expired>>

\* wait_for with its predicate, which says whether the wait was cut short.
LookAtFlag ==
    /\ pc = "timed"
    /\ pc' = IF mNotifiedTimersThread THEN "loop"
             ELSE IF waitDuration = 0 THEN "elapsed" ELSE "fallingTimed"
    /\ waitDuration' = IF mNotifiedTimersThread THEN 0 ELSE waitDuration
    /\ mNotifiedTimersThread' = FALSE
    /\ UNCHANGED <<tables, locks, waitingTimerId, clientVars, mStopDispatcher, stopper,
                   expired>>

Moves(from, to) ==
    /\ pc = from /\ pc' = to
    /\ UNCHANGED <<tables, locks, waitingTimerId, waitDuration, clientVars,
                   mNotifiedTimersThread, mStopDispatcher, stopper, expired>>

\* The mutex of the condition variable is a local one: whoever notifies does not
\* take it.  The wait for a first timer has no predicate either.
FallAsleep == Moves("falling", "asleep") \/ Moves("fallingTimed", "asleepTimed")

TimeOut == waitDuration = 0 /\ Moves("asleepTimed", "timed")

SpuriousWakeup == Moves("asleep", "loop") \/ Moves("asleepTimed", "timed")

TakeElapsed ==
    /\ pc = "elapsed" /\ mRunningTimersSync = NoThread
    /\ IF waitingTimerId \in Running
       THEN pc' = "fire" /\ mRunningTimersSync' = TimersThread
       ELSE pc' = "loop" /\ UNCHANGED mRunningTimersSync
    /\ UNCHANGED <<tables, mHandlersSync, mEmitSync, waitingTimerId, waitDuration,
                   clientVars, mNotifiedTimersThread, mStopDispatcher, stopper, expired>>

\* handleTimerEvent, under mRunningTimersSync and mHandlersSync.  A timer that is not
\* active, which ActiveMatchesRunning rules out, would be dropped.
HandleTimerEvent ==
    /\ pc = "fire" /\ mHandlersSync = NoThread
    /\ IF waitingTimerId \in Active
       THEN /\ mHandlersSync' = TimersThread
            /\ pc' = "handler"
            /\ UNCHANGED <<mRunningTimers, mRunningTimersSync>>
       ELSE /\ mRunningTimers' = Erased(mRunningTimers, waitingTimerId)
            /\ mRunningTimersSync' = NoThread
            /\ pc' = "loop"
            /\ UNCHANGED mHandlersSync
    /\ UNCHANGED <<mTimerHandlers, mActiveTimers, mEmitSync, waitingTimerId, waitDuration,
                   clientVars, mNotifiedTimersThread, mStopDispatcher, stopper, expired>>

\* The state machine's handler emits an event, which takes mEmitSync.
HandlerReturns ==
    /\ pc = "handler" /\ mEmitSync = NoThread
    /\ IF mActiveTimers[waitingTimerId] = "single"
       THEN /\ mActiveTimers' = Erased(mActiveTimers, waitingTimerId)
            /\ mRunningTimers' = Erased(mRunningTimers, waitingTimerId)
            /\ expired' = expired \cup {waitingTimerId}
       ELSE /\ \E left \in 0 .. Interval[waitingTimerId] :      \* counted from the wake-up
                 mRunningTimers' = [mRunningTimers EXCEPT ![waitingTimerId] = left]
            /\ UNCHANGED <<mActiveTimers, expired>>
    /\ mHandlersSync' = NoThread /\ mRunningTimersSync' = NoThread
    /\ pc' = "loop"
    /\ UNCHANGED <<mTimerHandlers, mEmitSync, waitingTimerId, waitDuration, clientVars,
                   mNotifiedTimersThread, mStopDispatcher, stopper>>

TimersThreadStep ==
    \/ ChooseTimer \/ NoTimerToChoose \/ Exit \/ LookAtFlag \/ FallAsleep \/ TimeOut
    \/ TakeElapsed \/ HandleTimerEvent \/ HandlerReturns

\* Time passes.
Tick ==
    /\ waitDuration > 0 \/ \E t \in Running : mRunningTimers[t] > 0
    /\ mRunningTimers' = [t \in Running |-> IF mRunningTimers[t] > 0
                                            THEN mRunningTimers[t] - 1 ELSE 0]
    /\ waitDuration' = IF waitDuration > 0 THEN waitDuration - 1 ELSE 0
    /\ UNCHANGED <<mTimerHandlers, mActiveTimers, locks, pc, waitingTimerId, clientVars,
                   mNotifiedTimersThread, mStopDispatcher, stopper, expired>>

Next ==
    \/ \E c \in Clients : CallAPI(c) \/ InCall(c)
    \/ BeginStop \/ UnregisterAllEventHandlers \/ EndStop
    \/ TimersThreadStep \/ SpuriousWakeup \/ Tick

Spec == Init /\ [][Next]_vars

\* Every thread runs, and time passes.
Fairness ==
    /\ WF_vars(TimersThreadStep) /\ WF_vars(Tick)
    /\ \A c \in Clients : WF_vars(InCall(c))
    /\ WF_vars(UnregisterAllEventHandlers) /\ WF_vars(EndStop)

FairSpec == Spec /\ Fairness
-----------------------------------------------------------------------------
\* The two tables agree whenever nobody is between them: the timers isTimerRunning
\* answers for are those the thread will wake up for.
ActiveMatchesRunning ==
    mHandlersSync = NoThread /\ mRunningTimersSync = NoThread => Active = Running

\* A timer event is delivered to a handler that is registered for as long as it is
\* being called ("should lock the whole block", HsmEventDispatcherBase.cpp:260).
CallbackIsRegistered == pc = "handler" => mTimerHandlers

\* startTimer and its like return to their callers.
CallsReturn == \A c \in Clients : call[c] # NoCall ~> call[c] = NoCall

\* stop() returns to its caller.
StopReturns == stopper # "idle" ~> stopper = "done"

\* A timer that runs expires, or is stopped, in the end.
TimersExpire == \A t \in Timers : t \in Running ~> t \notin Running

\* A timer's event is delivered only when its interval is over, counted from the
\* last start or restart.
FiresOnlyWhenDue == pc = "handler" => mRunningTimers[waitingTimerId] = 0

\* restartTimer also restarts a single-shot timer that has expired.
RestartRevives ==
    [][\A c \in Clients :
         call[c] # NoCall /\ call'[c] = NoCall =>
           (call[c].op = "restart" /\ call[c].timer \in expired => call[c].timer \in Running)
      ]_vars
=============================================================================
