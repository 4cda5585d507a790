------------------------------- MODULE NativeTimers -------------------------------
(* The timers of the dispatchers that use those of a framework: GLib, GLibmm,   *)
(* Qt and FreeRTOS, and Arduino, which polls them.  The base class keeps the    *)
(* active timers (HsmEventDispatcherBase.cpp, 146-207 and 255-284); each        *)
(* dispatcher keeps a table of native timers beside it.                         *)
(*                                                                              *)
(* One thread fires the native timers: the main loop, or the timer task of      *)
(* FreeRTOS.  Timers are started and stopped by that thread, or by another one. *)
(* A native timer that is armed may fire at any time.                           *)
EXTENDS Naturals, Sequences, FiniteSets

CONSTANTS
    Timers,         \* TimerID_t
    NoTimer,        \* INVALID_HSM_TIMER_ID
    Platforms,      \* the dispatchers that are checked
    QueueFills,     \* whether the queue of FreeRTOS timer commands may be full
    MaxSources,     \* bound: so many native timers exist at most
    MaxCalls        \* bound: so many calls are made at most

ASSUME NativeAssumption ==
    /\ NoTimer \notin Timers
    /\ Platforms \subseteq {"GLib", "GLibmm", "Qt", "FreeRTOS", "Arduino"}
    /\ QueueFills \in BOOLEAN /\ MaxSources \in Nat \ {0} /\ MaxCalls \in Nat

Kinds == {"single", "periodic"}
Sources == 1 .. MaxSources
NoSource == 0

VARIABLES
    platform,       \* the dispatcher; it does not change
    callers,        \* who uses timers: the "loop" or another "task"; nor does this
    mActiveTimers,  \* the kind of each active timer, "none" for the others
    native,         \* mNativeTimerHandlers (mRunningTimers), NoSource for no entry
    source,         \* the native timers
    posted,         \* the creations that Qt's main thread was asked for
    loop,           \* what the thread that fires timers is about to do
    call,           \* the call under way, which holds mHandlersSync
    calls,          \* how many calls were made
    stopped,        \* whether stop() was called
    lost            \* the timers that fell victim to a known race (see ExpiryRace)

frozen == <<platform, callers>>
vars == <<frozen, mActiveTimers, native, source, posted, loop, call, calls, stopped, lost>>

(* A native timer exists, "armed" to fire, in its callback ("firing"), "idle"   *)
(* when it is kept to be started again, or "doomed" when its deletion waits for *)
(* the main loop.                                                               *)
NoCallback == [at |-> "idle", timer |-> NoTimer, source |-> NoSource]
NoCall == [op |-> "none", timer |-> NoTimer, kind |-> "none", next |-> "done", found |-> NoSource]
Unused == [state |-> "free", timer |-> NoTimer, kind |-> "none"]

TypeOK ==
    /\ platform \in Platforms /\ callers \in {"loop", "task"}
    /\ mActiveTimers \in [Timers -> Kinds \cup {"none"}]
    /\ native \in [Timers -> Sources \cup {NoSource}]
    /\ source \in [Sources -> [state : {"free", "armed", "firing", "idle", "doomed"},
                               timer : Timers \cup {NoTimer}, kind : Kinds \cup {"none"}]]
    /\ \A i \in Sources : source[i].state = "free" <=> source[i] = Unused
    /\ \A i \in Sources : source[i].state = "firing" => loop.source = i
    /\ posted \in Seq(Timers \X Kinds) /\ (posted # << >> => platform = "Qt" /\ callers = "task")
    /\ loop.at \in {"idle", "lookup", "handle", "erase"}
    /\ callers = "loop" => loop = NoCallback \/ call = NoCall
    /\ calls \in 0 .. MaxCalls /\ stopped \in BOOLEAN /\ lost \subseteq Timers

(* FreeRTOS calls timers back on a task of its own; Arduino has one thread *)
Init ==
    /\ platform \in Platforms /\ callers \in {"loop", "task"}
    /\ platform = "FreeRTOS" => callers = "task"
    /\ platform = "Arduino" => callers = "loop"
    /\ mActiveTimers = [t \in Timers |-> "none"] /\ native = [t \in Timers |-> NoSource]
    /\ source = [i \in Sources |-> Unused] /\ posted = << >>
    /\ loop = NoCallback /\ call = NoCall /\ calls = 0 /\ stopped = FALSE /\ lost = {}

Armed(t, k) == [state |-> "armed", timer |-> t, kind |-> k]
Spare == CHOOSE i \in Sources : source[i] = Unused
HasSpare == \E i \in Sources : source[i] = Unused

(* A new native timer, entered in the table *)
Create(t, k) ==
    /\ HasSpare
    /\ source' = [source EXCEPT ![Spare] = Armed(t, k)]
    /\ native' = [native EXCEPT ![t] = Spare]

(* What becomes of a native timer that is given up: it is destroyed, or only    *)
(* when the main loop of Qt comes to it.                                        *)
GivenUp(i) == IF platform = "Qt" THEN [source[i] EXCEPT !.state = "doomed"] ELSE Unused
GiveUp(i) == source' = IF i = NoSource THEN source ELSE [source EXCEPT ![i] = GivenUp(i)]

-------------------------------------------------------------------------------
(* A call.  mHandlersSync is held from its first step to its last.  A call of   *)
(* the loop's own thread is made from a callback of the state machine, between  *)
(* two timers.                                                                  *)
Begin(op, t, k, first) ==
    /\ call = NoCall /\ calls < MaxCalls
    /\ callers = "loop" => loop = NoCallback
    /\ calls' = calls + 1
    /\ call' = [op |-> op, timer |-> t, kind |-> k, next |-> first, found |-> NoSource]
    /\ UNCHANGED <<frozen, native, source, posted, loop, stopped>>

StartTimer(t, k) ==
    /\ Begin("start", t, k, IF mActiveTimers[t] # "none" THEN "stop" ELSE "start")
    /\ mActiveTimers' = [mActiveTimers EXCEPT ![t] = k]
    /\ lost' = lost \ {t}

RestartTimer(t) ==
    /\ mActiveTimers[t] # "none"
    /\ Begin("restart", t, mActiveTimers[t], "stop")
    /\ lost' = lost \ {t}
    /\ UNCHANGED mActiveTimers

(* The table is out of reach until mHandlersSync is free, so the entry may as   *)
(* well be erased before stopTimerImpl as after it.                             *)
StopTimer(t) ==
    /\ mActiveTimers[t] # "none"
    /\ Begin("stop", t, "none", "stop")
    /\ mActiveTimers' = [mActiveTimers EXCEPT ![t] = "none"]
    /\ UNCHANGED lost

Return ==
    /\ call # NoCall /\ call.next = "done"
    /\ call' = NoCall
    /\ UNCHANGED <<frozen, mActiveTimers, native, source, posted, loop, calls, stopped, lost>>

Todo(step) == call.next = step
Done == call' = [call EXCEPT
            !.next = IF @ \in {"stop", "use stop"} /\ call.op # "stop" THEN "start" ELSE "done"]

(* The loop has handled a single-shot timer, or one that was stopped, and will  *)
(* erase the entry of its identifier next, whatever that is by then: a timer    *)
(* started in between is taken for running already, or its entry is forgotten.  *)
ExpiryRace(t) == loop.at = "erase" /\ loop.timer = t
NoteRace == lost' = IF ExpiryRace(call.timer) THEN lost \cup {call.timer} ELSE lost

-------------------------------------------------------------------------------
(* HsmEventDispatcherGLib *)
GLibStartTimerImpl(t, k) ==
    IF native[t] = NoSource THEN Create(t, k) ELSE UNCHANGED <<native, source>>

GLibStopWithoutErase(t) == GiveUp(native[t]) /\ UNCHANGED native
GLibStopWithoutDestroy(t) == native' = [native EXCEPT ![t] = NoSource] /\ UNCHANGED source

GLibStopTimerImpl(t) ==
    /\ GiveUp(native[t])
    /\ native' = [native EXCEPT ![t] = NoSource]

(* The callback's result says whether GLib keeps the timer; the entry is erased *)
(* without the timer being destroyed.                                           *)
GLibKeep == source[loop.source].state = "firing"
GLibErase ==
    /\ native' = IF loop.timer = NoTimer THEN native ELSE [native EXCEPT ![loop.timer] = NoSource]
    /\ source' = IF GLibKeep THEN [source EXCEPT ![loop.source] = Unused] ELSE source

(* HsmEventDispatcherGLibmm: a sigc::connection that is erased stays connected  *)
GLibmmStartTimerImpl(t, k) == GLibStartTimerImpl(t, k)
GLibmmStopTimerImpl(t) == GLibStopTimerImpl(t)
GLibmmErase == GLibErase

(* HsmEventDispatcherQt: another thread only asks for the QTimer *)
QtStartTimerImpl(t, k) ==
    IF native[t] # NoSource THEN UNCHANGED <<native, source, posted>>
    ELSE IF callers = "loop" THEN Create(t, k) /\ UNCHANGED posted
    ELSE posted' = Append(posted, <<t, k>>) /\ UNCHANGED <<native, source>>

QtCreateTimer ==
    /\ posted # << >> /\ loop = NoCallback
    /\ Create(Head(posted)[1], Head(posted)[2])
    /\ posted' = Tail(posted)
    /\ UNCHANGED <<frozen, mActiveTimers, loop, call, calls, stopped, lost>>

QtStopTimerImpl(t) ==
    /\ GiveUp(native[t])
    /\ native' = [native EXCEPT ![t] = NoSource]

QtErase ==
    /\ GiveUp(native[loop.timer])
    /\ native' = [native EXCEPT ![loop.timer] = NoSource]

QtDeferredDelete(i) ==
    /\ source[i].state = "doomed" /\ loop.source # i
    /\ source' = [source EXCEPT ![i] = Unused]
    /\ UNCHANGED <<frozen, mActiveTimers, native, posted, loop, call, calls, stopped, lost>>

(* HsmEventDispatcherFreeRTOS: the entry is looked up in a section without      *)
(* interrupts and used after it.  Freed memory is read when the timer task      *)
(* erases it in between; it then still holds the handle.                        *)
FreeRTOSFind ==
    /\ Todo("start") \/ Todo("stop")
    /\ platform = "FreeRTOS"
    /\ call' = [call EXCEPT !.found = native[call.timer],
                            !.next = IF @ = "start" THEN "use start" ELSE "use stop"]
    /\ IF Todo("start") THEN NoteRace ELSE UNCHANGED lost
    /\ UNCHANGED <<frozen, mActiveTimers, native, source, posted, loop, calls, stopped>>

FreeRTOSStartTimerImpl(t, k) ==
    IF call.found = NoSource THEN Create(t, k)
    ELSE /\ source' = [source EXCEPT ![call.found] = Armed(t, k)] /\ UNCHANGED native

(* The queue of commands is full, and nothing waits for it: xTimerStart fails,  *)
(* or xTimerChangePeriod, for a timer with another interval.  The entry goes;   *)
(* xTimerDelete may fail then, and xTimerStart succeed after xTimerChangePeriod *)
(* has failed.  The mode is changed without the queue.                          *)
FreeRTOSStartFails(t, k) ==
    /\ native' = [native EXCEPT ![t] = NoSource]
    /\ IF call.found = NoSource THEN UNCHANGED source
       ELSE \E left \in {Unused, Armed(t, k), [source[call.found] EXCEPT !.kind = k]} :
                source' = [source EXCEPT ![call.found] = left]

(* xTimerStop fails when the queue is full, and nobody learns of it *)
FreeRTOSStopTimerImpl ==
    /\ \/ source' = IF call.found = NoSource THEN source
                    ELSE [source EXCEPT ![call.found].state = "idle"]
       \/ QueueFills /\ UNCHANGED source
    /\ UNCHANGED native

(* onTimerEvent finds the identifier by the handle *)
FreeRTOSLookUp ==
    /\ loop.at = "lookup"
    /\ loop' = [loop EXCEPT !.at = "handle",
                            !.timer = IF \E t \in Timers : native[t] = loop.source
                                      THEN CHOOSE t \in Timers : native[t] = loop.source
                                      ELSE NoTimer]
    /\ UNCHANGED <<frozen, mActiveTimers, native, source, posted, call, calls, stopped, lost>>

(* The entry goes, the native timer stays *)
FreeRTOSErase ==
    /\ native' = IF loop.timer = NoTimer THEN native ELSE [native EXCEPT ![loop.timer] = NoSource]
    /\ UNCHANGED source

(* HsmEventDispatcherArduino *)
ArduinoStartTimerImpl(t, k) ==
    IF native[t] = NoSource THEN Create(t, k)
    ELSE source' = [source EXCEPT ![native[t]] = Armed(t, k)] /\ UNCHANGED native
ArduinoStopTimerImpl(t) ==
    /\ GiveUp(native[t])
    /\ native' = [native EXCEPT ![t] = NoSource]

ArduinoErase ==
    /\ GiveUp(native[loop.timer])
    /\ native' = [native EXCEPT ![loop.timer] = NoSource]

-------------------------------------------------------------------------------
(* The steps of a call, and of a native timer that fires *)
StartTimerImpl ==
    LET t == call.timer k == call.kind
    IN  /\ \/ Todo("start") /\ platform # "FreeRTOS" /\ NoteRace
           \/ Todo("use start") /\ UNCHANGED lost
        /\ \/ platform = "GLib" /\ GLibStartTimerImpl(t, k)
           \/ platform = "GLibmm" /\ GLibmmStartTimerImpl(t, k)
           \/ platform = "Qt" /\ QtStartTimerImpl(t, k)
           \/ platform = "FreeRTOS" /\ FreeRTOSStartTimerImpl(t, k)
           \/ platform = "Arduino" /\ ArduinoStartTimerImpl(t, k)
        /\ platform # "Qt" => UNCHANGED posted
        /\ Done
        /\ UNCHANGED <<frozen, mActiveTimers, loop, calls, stopped>>

CommandQueueFull ==
    /\ QueueFills /\ platform = "FreeRTOS" /\ Todo("use start")
    /\ FreeRTOSStartFails(call.timer, call.kind)
    /\ lost' = lost \cup {call.timer}
    /\ Done
    /\ UNCHANGED <<frozen, mActiveTimers, posted, loop, calls, stopped>>

StopTimerImpl ==
    /\ \/ Todo("stop") /\ platform # "FreeRTOS"
       \/ Todo("use stop")
    /\ \/ platform = "GLib" /\ GLibStopTimerImpl(call.timer)
       \/ platform = "GLibmm" /\ GLibmmStopTimerImpl(call.timer)
       \/ platform = "Qt" /\ QtStopTimerImpl(call.timer)
       \/ platform = "FreeRTOS" /\ FreeRTOSStopTimerImpl
       \/ platform = "Arduino" /\ ArduinoStopTimerImpl(call.timer)
    /\ Done
    /\ UNCHANGED <<frozen, mActiveTimers, posted, loop, calls, stopped, lost>>

(* A native timer that fires once is idle from then on, except that GLib waits  *)
(* for the callback's result.  Arduino does not look at timers once stopped.    *)
Fired(i) ==
    CASE platform \in {"GLib", "GLibmm"} -> [source[i] EXCEPT !.state = "firing"]
      [] platform \in {"Qt", "FreeRTOS"} /\ source[i].kind = "single" ->
             [source[i] EXCEPT !.state = IF @ = "doomed" THEN "doomed" ELSE "idle", !.kind = "none"]
      [] OTHER -> source[i]

Fire(i) ==
    /\ source[i].state \in {"armed", "doomed"} /\ source[i].kind \in Kinds
    /\ loop = NoCallback /\ (callers = "loop" => call = NoCall)
    /\ platform = "Arduino" => ~stopped
    /\ source' = [source EXCEPT ![i] = Fired(i)]
    /\ loop' = [at |-> IF platform = "FreeRTOS" THEN "lookup" ELSE "handle",
                timer |-> source[i].timer, source |-> i]
    /\ UNCHANGED <<frozen, mActiveTimers, native, posted, call, calls, stopped, lost>>

(* handleTimerEvent, under mHandlersSync: a single-shot timer is not active any *)
(* more, and what is left to do depends on the interval that is returned.       *)
(* Arduino compares it with true.                                               *)
ActiveKind(t) == IF t = NoTimer THEN "none" ELSE mActiveTimers[t]
KeepsRunning(t) == ActiveKind(t) = "periodic" /\ platform # "Arduino"
(* Mutant: a single-shot timer stays active. *)
HandleWithoutErase ==
    /\ loop.at = "handle" /\ call = NoCall
    /\ loop' = IF KeepsRunning(loop.timer) THEN NoCallback ELSE [loop EXCEPT !.at = "erase"]
    /\ source' = IF KeepsRunning(loop.timer) /\ source[loop.source].state = "firing"
                 THEN [source EXCEPT ![loop.source].state = "armed"] ELSE source
    /\ UNCHANGED <<frozen, mActiveTimers, native, posted, call, calls, stopped, lost>>

HandleTimerEvent ==
    /\ loop.at = "handle" /\ call = NoCall
    /\ mActiveTimers' = [t \in Timers |->
           IF t = loop.timer /\ mActiveTimers[t] = "single" THEN "none" ELSE mActiveTimers[t]]
    /\ IF KeepsRunning(loop.timer)
       THEN /\ loop' = NoCallback
            /\ source' = IF source[loop.source].state = "firing"
                         THEN [source EXCEPT ![loop.source].state = "armed"] ELSE source
       ELSE /\ loop' = [loop EXCEPT !.at = "erase"] /\ UNCHANGED source
    /\ UNCHANGED <<frozen, native, posted, call, calls, stopped, lost>>

EraseTimer ==
    /\ loop.at = "erase"
    /\ \/ platform = "GLib" /\ GLibErase
       \/ platform = "GLibmm" /\ GLibmmErase
       \/ platform = "Qt" /\ QtErase
       \/ platform = "FreeRTOS" /\ FreeRTOSErase
       \/ platform = "Arduino" /\ ArduinoErase
    /\ loop' = NoCallback
    /\ UNCHANGED <<frozen, mActiveTimers, posted, call, calls, stopped, lost>>

(* stop() gives up what is in the table, and does not look at mActiveTimers.    *)
(* Arduino's only sets the flag.                                                *)
UnregisterAllTimerHandlers ==
    /\ source' = [i \in Sources |->
           IF \E t \in Timers : native[t] = i THEN GivenUp(i) ELSE source[i]]
    /\ native' = [t \in Timers |-> NoSource]

Stop ==
    /\ ~stopped /\ call = NoCall /\ (callers = "loop" => loop = NoCallback)
    /\ stopped' = TRUE
    /\ IF platform = "Arduino" THEN UNCHANGED <<native, source>> ELSE UnregisterAllTimerHandlers
    /\ UNCHANGED <<frozen, mActiveTimers, posted, loop, call, calls, lost>>

InCall == StartTimerImpl \/ StopTimerImpl \/ CommandQueueFull \/ FreeRTOSFind \/ Return
InCallback == FreeRTOSLookUp \/ HandleTimerEvent \/ EraseTimer

Next ==
    \/ \E t \in Timers, k \in Kinds : StartTimer(t, k)
    \/ \E t \in Timers : RestartTimer(t) \/ StopTimer(t)
    \/ StartTimerImpl \/ StopTimerImpl \/ CommandQueueFull \/ FreeRTOSFind \/ Return
    \/ \E i \in Sources : Fire(i) \/ QtDeferredDelete(i)
    \/ FreeRTOSLookUp \/ HandleTimerEvent \/ EraseTimer \/ QtCreateTimer \/ Stop

Spec == Init /\ [][Next]_vars

(* Every thread runs, and a native timer that is armed fires *)
Fairness ==
    /\ WF_vars(InCall) /\ WF_vars(InCallback) /\ WF_vars(QtCreateTimer)
    /\ \A i \in Sources : SF_vars(Fire(i)) /\ WF_vars(QtDeferredDelete(i))

FairSpec == Spec /\ Fairness
-------------------------------------------------------------------------------
(* Whenever nobody is between the two tables, a timer that is active, so that   *)
(* isTimerRunning() says it runs, has a native timer that will fire.  Left out  *)
(* are the two ways to lose it that the code has (lost), periodic timers of     *)
(* Arduino, and Qt with another thread.                                         *)
Quiet == loop = NoCallback /\ call = NoCall /\ posted = << >> /\ ~stopped
Ticks(t) == \E i \in Sources : source[i].state = "armed" /\ source[i].timer = t
ActiveTicks ==
    Quiet /\ ~(platform = "Qt" /\ callers = "task") =>
        \A t \in Timers \ lost :
            mActiveTimers[t] # "none" /\ ~(platform = "Arduino" /\ mActiveTimers[t] = "periodic")
                => Ticks(t)

(* When the timers are used by the thread that fires them, a native timer that  *)
(* is armed is in the table: stopTimer() and stop() can reach it, no timer has  *)
(* two, and none is left that calls back into a dispatcher that was deleted.    *)
ArmedIsRegistered ==
    callers = "loop" /\ Quiet =>
        \A i \in Sources : source[i].state = "armed" => native[source[i].timer] = i

(* A single-shot timer expires, unless it is stopped or made periodic, also     *)
(* when it is restarted from the callbacks of others.                           *)
SingleShotExpires ==
    \A t \in Timers :
        callers = "loop" /\ mActiveTimers[t] = "single" ~> mActiveTimers[t] # "single" \/ stopped

(* "If timer with this ID is already running it will be restarted with new      *)
(* settings", from any thread (hsm.hpp:571): what startTimer() has been called  *)
(* for ticks when the call is over.                                             *)
StartedTicks ==
    Quiet => \A t \in Timers : mActiveTimers[t] # "none" => Ticks(t)
===============================================================================
