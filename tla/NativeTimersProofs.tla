--------------------------- MODULE NativeTimersProofs ---------------------------
(***************************************************************************)
(* The table of active timers and the table of native timers agree, on     *)
(* every platform and for any timers, calls and native timers.             *)
(***************************************************************************)
EXTENDS NativeTimers, TLAPS

-----------------------------------------------------------------------------
(* The invariant                                                           *)

NativeTimer ==
    [state : {"free", "armed", "firing", "idle", "doomed"},
     timer : Timers \cup {NoTimer}, kind : Kinds \cup {"none"}]

Callbacks ==
    [at : {"idle", "lookup", "handle", "erase"}, timer : Timers \cup {NoTimer},
     source : Sources \cup {NoSource}]

TimerCalls ==
    [op : {"start", "restart", "stop", "none"}, timer : Timers \cup {NoTimer},
     kind : Kinds \cup {"none"}, next : {"stop", "use stop", "start", "use start", "done"},
     found : Sources \cup {NoSource}]

TablesTyped ==
    /\ mActiveTimers \in [Timers -> Kinds \cup {"none"}]
    /\ native \in [Timers -> Sources \cup {NoSource}]
    /\ source \in [Sources -> NativeTimer]
    /\ loop \in Callbacks /\ call \in TimerCalls
    /\ stopped \in BOOLEAN /\ lost \subseteq Timers

\* Who may do what when.  With Qt this is about callers on the dispatcher's own thread:
\* the creation of a timer that another thread asks for is not covered by any mutex.
ThreadsInv ==
    /\ platform \in {"GLib", "GLibmm", "Qt", "FreeRTOS", "Arduino"}
    /\ callers \in {"loop", "task"}
    /\ platform = "FreeRTOS" => callers = "task"
    /\ platform \in {"Qt", "Arduino"} => callers = "loop"
    /\ posted = << >>
    /\ loop.at = "idle" <=> loop = NoCallback
    /\ loop.at # "idle" => loop.source \in Sources
    /\ call.op = "none" => call = NoCall
    /\ call.op # "none" => call.timer \in Timers
    /\ call.op = "stop" => call.next \in {"stop", "use stop", "done"}
    /\ call.next \in {"use stop", "use start"} => platform = "FreeRTOS"
    /\ callers = "loop" => loop = NoCallback \/ call = NoCall

\* The entry of a timer names a native timer of its own, which exists.  One in its callback
\* is the one that the loop's thread is about.
TableInv ==
    /\ \A t \in Timers : native[t] # NoSource =>
          /\ source[native[t]].timer = t
          /\ source[native[t]].state \in {"armed", "firing", "idle"}
    /\ \A i \in Sources :
          /\ source[i].state # "free" => source[i].timer \in Timers
          /\ source[i].state \in {"armed", "firing"} => source[i].kind \in Kinds
          /\ source[i].state = "doomed" => platform = "Qt"
          /\ source[i].state = "firing" =>
                /\ platform \in {"GLib", "GLibmm"}
                /\ loop.source = i /\ loop.timer = source[i].timer
    /\ loop.at = "lookup" => platform = "FreeRTOS"
    /\ loop.timer = NoTimer /\ loop.at # "idle" => platform = "FreeRTOS"

\* A call will start the native timer of t, or has yet to stop it.
Starting(t) == call.timer = t /\ call.op \in {"start", "restart"} /\ call.next # "done"
Stopping(t) == call.timer = t /\ call.next \in {"stop", "use stop"}

\* What a call knows of the tables stays true until it uses it, except for a race that is
\* on record.  Where an entry is taken for a timer that runs, an inactive timer has no entry
\* that nobody will erase: starting it would have no effect.
UnderWayInv ==
    /\ call.next \in {"use stop", "use start"} /\ call.found # NoSource =>
          source[call.found].timer = call.timer
    /\ call.op \in {"start", "restart"} /\ call.next # "done" =>
          call.kind = mActiveTimers[call.timer] /\ call.kind \in Kinds
    /\ call.op = "stop" => mActiveTimers[call.timer] = "none"
    /\ call.next = "use start" /\ call.timer \notin lost =>
          call.found = native[call.timer] /\ ~ ExpiryRace(call.timer)
    /\ platform \in {"GLib", "GLibmm", "Qt"} =>
          \A t \in Timers :
              mActiveTimers[t] = "none" \/ Starting(t) =>
                  native[t] = NoSource \/ ExpiryRace(t) \/ Stopping(t)

\* The native timer of t is armed for it, or has fired, is handled next and finds t active;
\* nobody is about to erase the entry.
WillTick(t) ==
    /\ native[t] # NoSource
    /\ ~ ExpiryRace(t)
    /\ \/ /\ \/ source[native[t]].state = "armed"
             \/ source[native[t]].state = "firing" /\ loop.at = "handle"
          /\ source[native[t]].kind = mActiveTimers[t]
       \/ /\ source[native[t]].state = "idle" /\ platform \in {"Qt", "FreeRTOS"}
          /\ loop.source = native[t] /\ mActiveTimers[t] = "single"
          /\ loop.at = "lookup" \/ (loop.at = "handle" /\ loop.timer = t)

\* t is active, not in the middle of a call that starts it, and none of the cases in which
\* the code loses it.
Wanted(t) ==
    /\ t \notin lost /\ ~ Starting(t)
    /\ mActiveTimers[t] # "none"
    /\ ~ (platform = "Arduino" /\ mActiveTimers[t] = "periodic")

TicksInv == ~ stopped => \A t \in Timers : Wanted(t) => WillTick(t)

\* With a single thread no native timer is armed without an entry that leads to it.
RegisteredInv ==
    callers = "loop" =>
        /\ \A i \in Sources :
              source[i].state \in {"armed", "firing"} => native[source[i].timer] = i
        /\ loop # NoCallback /\ platform \in {"GLib", "GLibmm"} =>
              source[loop.source].state = "firing"

ByAnother == platform = "Qt" /\ callers = "task"

ServedInv == TablesTyped /\ ThreadsInv /\ TableInv /\ UnderWayInv /\ TicksInv /\ RegisteredInv

NativeInv == ByAnother \/ ServedInv

-----------------------------------------------------------------------------
(* Records and tables                                                      *)

LEMMA Constants ==
    /\ NoSource \notin Sources
    /\ NoTimer \notin Timers
    /\ "none" \notin Kinds
BY NativeAssumption DEF NoSource, Sources, Kinds

LEMMA RecordFields ==
    /\ Unused \in NativeTimer
    /\ Unused.state = "free" /\ Unused.timer = NoTimer /\ Unused.kind = "none"
    /\ NoCallback \in Callbacks
    /\ NoCallback.at = "idle" /\ NoCallback.timer = NoTimer /\ NoCallback.source = NoSource
    /\ NoCall \in TimerCalls
    /\ NoCall.op = "none" /\ NoCall.timer = NoTimer /\ NoCall.next = "done"
    /\ \A t \in Timers, k \in Kinds :
          /\ Armed(t, k) \in NativeTimer
          /\ Armed(t, k).state = "armed" /\ Armed(t, k).timer = t /\ Armed(t, k).kind = k
<1>1. /\ Unused \in NativeTimer
      /\ Unused.state = "free" /\ Unused.timer = NoTimer /\ Unused.kind = "none"
  BY DEF Unused, NativeTimer
<1>2. /\ NoCallback \in Callbacks
      /\ NoCallback.at = "idle" /\ NoCallback.timer = NoTimer /\ NoCallback.source = NoSource
  BY DEF NoCallback, Callbacks
<1>3. /\ NoCall \in TimerCalls
      /\ NoCall.op = "none" /\ NoCall.timer = NoTimer /\ NoCall.next = "done"
  BY DEF NoCall, TimerCalls
<1>4. ASSUME NEW t \in Timers, NEW k \in Kinds
      PROVE  /\ Armed(t, k) \in NativeTimer
             /\ Armed(t, k).state = "armed" /\ Armed(t, k).timer = t /\ Armed(t, k).kind = k
  BY DEF Armed, NativeTimer
<1> QED
  BY <1>1, <1>2, <1>3, <1>4

LEMMA ChangedState ==
    ASSUME NEW r \in NativeTimer, NEW s \in {"free", "armed", "firing", "idle", "doomed"}
    PROVE  /\ [r EXCEPT !.state = s] \in NativeTimer
           /\ [r EXCEPT !.state = s].state = s
           /\ [r EXCEPT !.state = s].timer = r.timer
           /\ [r EXCEPT !.state = s].kind = r.kind
BY DEF NativeTimer

LEMMA GivenUpTimer ==
    ASSUME TablesTyped, NEW i \in Sources
    PROVE  /\ GivenUp(i) \in NativeTimer
           /\ GivenUp(i).state = IF platform = "Qt" THEN "doomed" ELSE "free"
           /\ platform = "Qt" => GivenUp(i).timer = source[i].timer
<1>1. source[i] \in NativeTimer
  BY DEF TablesTyped
<1>2. CASE platform = "Qt"
  <2>1. GivenUp(i) = [source[i] EXCEPT !.state = "doomed"]
    BY <1>2 DEF GivenUp
  <2> QED
    BY <1>1, <1>2, <2>1 DEF NativeTimer
<1>3. CASE platform # "Qt"
  BY <1>3, RecordFields DEF GivenUp
<1> QED
  BY <1>2, <1>3

\* What the operations on the tables change, entry by entry.
LEMMA GiveUpTable ==
    ASSUME TablesTyped, NEW i \in Sources \cup {NoSource}, GiveUp(i)
    PROVE  /\ source' \in [Sources -> NativeTimer]
           /\ \A j \in Sources :
                 /\ j # i => source'[j] = source[j]
                 /\ j = i => /\ source'[j].state = IF platform = "Qt" THEN "doomed" ELSE "free"
                             /\ platform = "Qt" => source'[j].timer = source[j].timer
<1>1. source \in [Sources -> NativeTimer]
  BY DEF TablesTyped
<1>2. CASE i = NoSource
  BY <1>1, <1>2, Constants DEF GiveUp
<1>3. CASE i \in Sources
  <2>1. source' = [source EXCEPT ![i] = GivenUp(i)]
    BY <1>3, Constants DEF GiveUp
  <2> QED
    BY <1>1, <1>3, <2>1, GivenUpTimer
<1> QED
  BY <1>2, <1>3

LEMMA CreateTable ==
    ASSUME TablesTyped, NEW t \in Timers, NEW k \in Kinds, Create(t, k)
    PROVE  /\ source' \in [Sources -> NativeTimer]
           /\ native' \in [Timers -> Sources \cup {NoSource}]
           /\ \E i \in Sources :
                 /\ source[i].state = "free"
                 /\ source'[i] = Armed(t, k) /\ native'[t] = i
                 /\ \A j \in Sources \ {i} : source'[j] = source[j]
                 /\ \A u \in Timers \ {t} : native'[u] = native[u]
<1>1. PICK i \in Sources : /\ source[i] = Unused
                           /\ source' = [source EXCEPT ![i] = Armed(t, k)]
                           /\ native' = [native EXCEPT ![t] = i]
  BY DEF Create, HasSpare, Spare
<1> QED
  BY <1>1, RecordFields DEF TablesTyped

LEMMA SetCallback ==
    ASSUME loop \in Callbacks, NEW a \in {"lookup", "handle", "erase"},
           NEW t \in Timers \cup {NoTimer}
    PROVE  /\ [loop EXCEPT !.at = a] \in Callbacks
           /\ [loop EXCEPT !.at = a].at = a
           /\ [loop EXCEPT !.at = a].timer = loop.timer
           /\ [loop EXCEPT !.at = a].source = loop.source
           /\ [loop EXCEPT !.at = a, !.timer = t] \in Callbacks
           /\ [loop EXCEPT !.at = a, !.timer = t].at = a
           /\ [loop EXCEPT !.at = a, !.timer = t].timer = t
           /\ [loop EXCEPT !.at = a, !.timer = t].source = loop.source
BY DEF Callbacks

LEMMA DoneCall ==
    ASSUME call \in TimerCalls, Done
    PROVE  /\ call' \in TimerCalls
           /\ call'.op = call.op /\ call'.timer = call.timer /\ call'.kind = call.kind
           /\ call'.found = call.found
           /\ call'.next = IF call.next \in {"stop", "use stop"} /\ call.op # "stop"
                           THEN "start" ELSE "done"
BY DEF TimerCalls, Done

LEMMA StateSet ==
    ASSUME source \in [Sources -> NativeTimer], NEW i \in Sources,
           NEW s \in {"free", "armed", "firing", "idle", "doomed"},
           source' = [source EXCEPT ![i].state = s]
    PROVE  /\ source' \in [Sources -> NativeTimer]
           /\ \A j \in Sources \ {i} : source'[j] = source[j]
           /\ source'[i].state = s
           /\ source'[i].timer = source[i].timer
           /\ source'[i].kind = source[i].kind
<1>1. source[i] \in NativeTimer
  OBVIOUS
<1> DEFINE r == [source[i] EXCEPT !.state = s]
<1>2. source' = [source EXCEPT ![i] = r]
  OBVIOUS
<1>3. r \in NativeTimer /\ r.state = s /\ r.timer = source[i].timer /\ r.kind = source[i].kind
  BY <1>1, ChangedState
<1> HIDE DEF r
<1> QED
  BY <1>2, <1>3

\* Steps that leave the loop's thread where it is keep TableInv if they put nothing into its
\* callback and leave the entries right.
LEMMA TableKeeps ==
    ASSUME TableInv, UNCHANGED <<platform, loop>>,
           \A i \in Sources :
              \/ source'[i] = source[i]
              \/ source'[i].state = "free"
              \/ source'[i].state = "idle" /\ source'[i].timer \in Timers
              \/ source'[i].state = "doomed" /\ source'[i].timer \in Timers /\ platform = "Qt"
              \/ source'[i].state = "armed" /\ source'[i].timer \in Timers
                                           /\ source'[i].kind \in Kinds,
           \A t \in Timers : native'[t] # NoSource =>
              /\ source'[native'[t]].timer = t
              /\ source'[native'[t]].state \in {"armed", "firing", "idle"}
    PROVE  TableInv'
<1>1. ASSUME NEW i \in Sources
      PROVE  /\ source'[i].state # "free" => source'[i].timer \in Timers
             /\ source'[i].state \in {"armed", "firing"} => source'[i].kind \in Kinds
             /\ source'[i].state = "doomed" => platform = "Qt"
             /\ source'[i].state = "firing" =>
                   /\ platform \in {"GLib", "GLibmm"}
                   /\ loop.source = i /\ loop.timer = source'[i].timer
  <2>1. CASE source'[i] = source[i]
    BY <2>1 DEF TableInv
  <2>2. CASE source'[i] # source[i]
    BY <2>2
  <2> QED
    BY <2>1, <2>2
<1>2. platform' = platform /\ loop' = loop
  OBVIOUS
<1>3. loop.at = "lookup" => platform = "FreeRTOS"
  BY DEF TableInv
<1>4. loop.timer = NoTimer /\ loop.at # "idle" => platform = "FreeRTOS"
  BY DEF TableInv
<1> QED
  BY <1>1, <1>2, <1>3, <1>4 DEF TableInv

-----------------------------------------------------------------------------
(* Calls                                                                   *)

LEMMA InitServed == Init => NativeInv
<1> SUFFICES ASSUME Init, ~ ByAnother PROVE ServedInv
  BY DEF NativeInv
<1>1. TablesTyped
  BY RecordFields DEF Init, TablesTyped
<1>2. ThreadsInv
  BY NativeAssumption, RecordFields DEF Init, ThreadsInv, ByAnother
<1>3. TableInv /\ UnderWayInv /\ TicksInv /\ RegisteredInv
  BY RecordFields, Constants
     DEF Init, TableInv, UnderWayInv, TicksInv, RegisteredInv, Wanted, Starting
<1> QED
  BY <1>1, <1>2, <1>3 DEF ServedInv

\* A call begins.
LEMMA BeginServed ==
    ASSUME ServedInv, NEW t \in Timers, NEW k \in Kinds,
           StartTimer(t, k) \/ RestartTimer(t) \/ StopTimer(t)
    PROVE  ServedInv'
<1> USE DEF ServedInv
<1>1. /\ call = NoCall /\ (callers = "loop" => loop = NoCallback)
      /\ UNCHANGED <<platform, callers, native, source, posted, loop, stopped>>
  BY DEF StartTimer, RestartTimer, StopTimer, Begin, frozen
<1>2. /\ call.op = "none" /\ call.next = "done"
      /\ \A u \in Timers : ~ Starting(u) /\ ~ Stopping(u)
  BY <1>1, RecordFields DEF Starting, Stopping
<1>3. CASE StartTimer(t, k) \/ RestartTimer(t)
  <2>1. /\ call' \in TimerCalls /\ call'.op \in {"start", "restart"} /\ call'.timer = t
        /\ call'.next \in {"stop", "start"} /\ call'.kind \in Kinds
        /\ mActiveTimers' = [mActiveTimers EXCEPT ![t] = call'.kind]
        /\ call'.next = "start" => mActiveTimers[t] = "none"
        /\ lost' = lost \ {t}
    <3>1. CASE StartTimer(t, k)
      BY <3>1 DEF StartTimer, Begin, TablesTyped, TimerCalls
    <3>2. CASE RestartTimer(t)
      <4>1. mActiveTimers[t] \in Kinds
        BY <3>2 DEF RestartTimer, TablesTyped
      <4> QED
        BY <3>2, <4>1 DEF RestartTimer, Begin, TablesTyped, TimerCalls
    <3> QED
      BY <1>3, <3>1, <3>2
  <2>2. TablesTyped' /\ ThreadsInv' /\ TableInv' /\ RegisteredInv'
    BY <1>1, <2>1, RecordFields DEF TablesTyped, ThreadsInv, TableInv, RegisteredInv
  <2>3. UnderWayInv'
    BY <1>1, <1>2, <2>1, Constants DEF UnderWayInv, ExpiryRace, Starting, Stopping, TablesTyped
  <2>4. TicksInv'
    BY <1>1, <1>2, <2>1 DEF TicksInv, Wanted, WillTick, ExpiryRace, Starting, TablesTyped
  <2> QED
    BY <2>2, <2>3, <2>4
<1>4. CASE StopTimer(t)
  <2>1. /\ call' \in TimerCalls /\ call'.op = "stop" /\ call'.timer = t /\ call'.next = "stop"
        /\ mActiveTimers' = [mActiveTimers EXCEPT ![t] = "none"]
        /\ lost' = lost
    BY <1>4 DEF StopTimer, Begin, TimerCalls
  <2>2. TablesTyped' /\ ThreadsInv' /\ TableInv' /\ RegisteredInv'
    BY <1>1, <2>1, RecordFields DEF TablesTyped, ThreadsInv, TableInv, RegisteredInv
  <2>3. UnderWayInv'
    BY <1>1, <1>2, <2>1, Constants DEF UnderWayInv, ExpiryRace, Starting, Stopping, TablesTyped
  <2>4. TicksInv'
    BY <1>1, <1>2, <2>1 DEF TicksInv, Wanted, WillTick, ExpiryRace, Starting, TablesTyped
  <2> QED
    BY <2>2, <2>3, <2>4
<1> QED
  BY <1>3, <1>4

LEMMA ReturnServed == ServedInv /\ Return => ServedInv'
<1> SUFFICES ASSUME ServedInv, Return PROVE ServedInv'
  OBVIOUS
<1> USE DEF ServedInv
<1>1. /\ call' = NoCall /\ call.next = "done"
      /\ UNCHANGED <<platform, callers, native, source, posted, loop, stopped, mActiveTimers,
                     lost>>
  BY DEF Return, frozen
<1>2. TablesTyped' /\ ThreadsInv' /\ TableInv' /\ RegisteredInv'
  BY <1>1, RecordFields DEF TablesTyped, ThreadsInv, TableInv, RegisteredInv
<1>3. UnderWayInv'
  BY <1>1, RecordFields DEF UnderWayInv, ExpiryRace, Starting, Stopping
<1>4. TicksInv'
  BY <1>1, RecordFields DEF TicksInv, Wanted, WillTick, ExpiryRace, Starting
<1> QED
  BY <1>2, <1>3, <1>4

\* What is found stays the entry of the timer, unless the erase of an expired timer that is
\* due now comes in between, which NoteRace records.
LEMMA FindServed == ServedInv /\ FreeRTOSFind => ServedInv'
<1> SUFFICES ASSUME ServedInv, FreeRTOSFind PROVE ServedInv'
  OBVIOUS
<1> USE DEF ServedInv
<1>1. /\ platform = "FreeRTOS" /\ call.next \in {"start", "stop"}
      /\ UNCHANGED <<platform, callers, native, source, posted, loop, stopped, mActiveTimers>>
  BY DEF FreeRTOSFind, frozen, Todo
<1>2. call.op # "none" /\ call.timer \in Timers
  BY <1>1, RecordFields DEF ThreadsInv
<1>3. /\ call' \in TimerCalls /\ call'.op = call.op /\ call'.timer = call.timer
      /\ call'.kind = call.kind /\ call'.found = native[call.timer]
      /\ call'.next = IF call.next = "start" THEN "use start" ELSE "use stop"
  BY <1>1, <1>2 DEF FreeRTOSFind, TablesTyped, TimerCalls
<1>4. /\ lost' \subseteq Timers /\ lost \subseteq lost'
      /\ call.next = "start" /\ call.timer \notin lost' => ~ ExpiryRace(call.timer)
  BY <1>1, <1>2 DEF FreeRTOSFind, NoteRace, Todo, TablesTyped
<1>5. TablesTyped' /\ ThreadsInv' /\ TableInv' /\ RegisteredInv'
  BY <1>1, <1>2, <1>3, <1>4, RecordFields DEF TablesTyped, ThreadsInv, TableInv, RegisteredInv
<1>6. UnderWayInv'
  BY <1>1, <1>2, <1>3, <1>4 DEF UnderWayInv, ExpiryRace, TableInv
<1>7. TicksInv'
  BY <1>1, <1>2, <1>3, <1>4 DEF TicksInv, Wanted, WillTick, ExpiryRace, Starting
<1> QED
  BY <1>5, <1>6, <1>7

\* Only the timer of the call loses its native timer, and it is to be started again, or is
\* not active any more.
LEMMA StopImplServed == ServedInv /\ StopTimerImpl => ServedInv'
<1> SUFFICES ASSUME ServedInv, StopTimerImpl PROVE ServedInv'
  OBVIOUS
<1> USE DEF ServedInv
<1> DEFINE t == call.timer
<1>1. /\ call.next \in {"stop", "use stop"} /\ Done
      /\ UNCHANGED <<platform, callers, posted, loop, stopped, mActiveTimers, lost>>
  BY DEF StopTimerImpl, frozen, Todo
<1>2. t \in Timers /\ call.op # "none" /\ call # NoCall
  BY <1>1, RecordFields DEF ThreadsInv
<1>3. /\ call' \in TimerCalls
      /\ call'.op = call.op /\ call'.timer = t /\ call'.kind = call.kind
      /\ call'.next = IF call.op # "stop" THEN "start" ELSE "done"
  BY <1>1, DoneCall DEF TablesTyped
<1>4. CASE platform # "FreeRTOS"
  <2>1. GiveUp(native[t]) /\ native' = [native EXCEPT ![t] = NoSource]
    BY <1>4 DEF StopTimerImpl, GLibStopTimerImpl, GLibmmStopTimerImpl, QtStopTimerImpl,
                ArduinoStopTimerImpl
  <2>2. native[t] \in Sources \cup {NoSource}
    BY <1>2 DEF TablesTyped
  <2>3. /\ source' \in [Sources -> NativeTimer]
        /\ \A j \in Sources :
              /\ j # native[t] => source'[j] = source[j]
              /\ j = native[t] => /\ source'[j].state = IF platform = "Qt" THEN "doomed" ELSE "free"
                                  /\ platform = "Qt" => source'[j].timer = source[j].timer
    BY <2>1, <2>2, GiveUpTable
  <2>4. TablesTyped'
    BY <1>1, <1>3, <2>1, <2>3, Constants DEF TablesTyped
  <2>5. ThreadsInv'
    BY <1>1, <1>2, <1>3, <1>4, RecordFields DEF ThreadsInv
  <2>6. \A u \in Timers : native'[u] # NoSource =>
            u # t /\ native'[u] = native[u] /\ native[u] \in Sources /\ native[u] # native[t]
    BY <1>2, <2>1, Constants DEF TablesTyped, TableInv
  <2>7. TableInv'
    <3>1. \A i \in Sources :
             \/ source'[i] = source[i]
             \/ source'[i].state = "free"
             \/ source'[i].state = "doomed" /\ source'[i].timer = t /\ platform = "Qt"
      BY <1>2, <2>2, <2>3, Constants DEF TableInv
    <3>2. \A u \in Timers : native'[u] # NoSource =>
             native'[u] = native[u] /\ source'[native[u]] = source[native[u]]
      BY <2>3, <2>6
    <3>3. \A u \in Timers : native'[u] # NoSource =>
             /\ source'[native'[u]].timer = u
             /\ source'[native'[u]].state \in {"armed", "firing", "idle"}
      BY <2>6, <3>2 DEF TableInv
    <3> QED
      BY <1>1, <1>2, <3>1, <3>3, TableKeeps
  <2>8. UnderWayInv'
    BY <1>1, <1>2, <1>3, <2>1, <2>6, Constants
       DEF UnderWayInv, ExpiryRace, Starting, Stopping, TablesTyped
  <2>9. TicksInv'
    <3>1. ASSUME NEW u \in Timers, Wanted(u)' PROVE u # t /\ Wanted(u)
      BY <1>1, <1>2, <1>3, <3>1 DEF Wanted, Starting, UnderWayInv, TablesTyped, TimerCalls
    <3>2. ASSUME NEW u \in Timers \ {t}, WillTick(u) PROVE WillTick(u)'
      <4>1. native'[u] = native[u] /\ native[u] # NoSource /\ source'[native[u]] = source[native[u]]
        BY <1>2, <2>1, <2>3, <2>6, <3>2 DEF WillTick, TablesTyped
      <4> QED
        BY <1>1, <3>2, <4>1 DEF WillTick, ExpiryRace
    <3> QED
      BY <1>1, <3>1, <3>2 DEF TicksInv
  <2>10. RegisteredInv'
    <3>1. ASSUME NEW j \in Sources, callers = "loop", source'[j].state \in {"armed", "firing"}
          PROVE  native'[source'[j].timer] = j
      <4>1. j # native[t] /\ source'[j] = source[j] /\ native[source[j].timer] = j
        BY <2>3, <3>1 DEF RegisteredInv
      <4> QED
        BY <1>2, <2>1, <4>1 DEF TablesTyped
    <3> QED
      BY <1>1, <1>2, <3>1, RecordFields DEF RegisteredInv, ThreadsInv
  <2> QED
    BY <2>4, <2>5, <2>7, <2>8, <2>9, <2>10
<1>5. CASE platform = "FreeRTOS"
  <2>1. /\ native' = native /\ callers = "task" /\ call.next = "use stop"
        /\ \/ source' = source
           \/ call.found # NoSource /\ source' = [source EXCEPT ![call.found].state = "idle"]
    BY <1>5 DEF StopTimerImpl, FreeRTOSStopTimerImpl, ThreadsInv, Todo
  <2>2. /\ source' \in [Sources -> NativeTimer]
        /\ \A j \in Sources :
              /\ j # call.found => source'[j] = source[j]
              /\ j = call.found => /\ source'[j] = source[j] \/ source'[j].state = "idle"
                                   /\ source'[j].timer = source[j].timer
    <3>1. source \in [Sources -> NativeTimer] /\ call.found \in Sources \cup {NoSource}
      BY DEF TablesTyped, TimerCalls
    <3>2. CASE source' = source
      BY <3>1, <3>2
    <3>3. CASE source' # source
      BY <2>1, <3>1, <3>3, StateSet
    <3> QED
      BY <3>2, <3>3
  <2>3. \A u \in Timers : u # t /\ native[u] # NoSource => native[u] # call.found
    BY <1>1, <2>1 DEF TableInv, UnderWayInv
  <2>4. call.found \in Sources => source[call.found].timer = t
    BY <1>1, <2>1, Constants DEF UnderWayInv
  <2>5. TablesTyped'
    BY <1>1, <1>3, <2>1, <2>2 DEF TablesTyped
  <2>10. ThreadsInv'
    BY <1>1, <1>2, <1>3, <1>5, <2>1, RecordFields DEF ThreadsInv
  <2>6. TableInv'
    <3>1. \A i \in Sources :
             \/ source'[i] = source[i]
             \/ source'[i].state = "idle" /\ source'[i].timer = t
      BY <2>2, <2>4
    <3>2. \A u \in Timers : native[u] # NoSource =>
             /\ source'[native[u]].timer = u
             /\ source'[native[u]].state \in {"armed", "firing", "idle"}
      BY <2>2 DEF TableInv, TablesTyped
    <3> QED
      BY <1>1, <1>2, <2>1, <3>1, <3>2, TableKeeps
  <2>7. UnderWayInv'
    BY <1>1, <1>2, <1>3, <1>5, <2>1 DEF UnderWayInv
  <2>8. TicksInv'
    <3>1. ASSUME NEW u \in Timers, Wanted(u)' PROVE u # t /\ Wanted(u)
      BY <1>1, <1>2, <1>3, <3>1 DEF Wanted, Starting, UnderWayInv, TablesTyped, TimerCalls
    <3>2. ASSUME NEW u \in Timers \ {t}, WillTick(u) PROVE WillTick(u)'
      <4>1. native[u] # NoSource /\ source'[native[u]] = source[native[u]]
        BY <2>2, <2>3, <3>2 DEF WillTick, TablesTyped
      <4> QED
        BY <1>1, <2>1, <3>2, <4>1 DEF WillTick, ExpiryRace
    <3> QED
      BY <1>1, <3>1, <3>2 DEF TicksInv
  <2>9. RegisteredInv'
    BY <1>1, <2>1 DEF RegisteredInv
  <2> QED
    BY <2>5, <2>10, <2>6, <2>7, <2>8, <2>9
<1> QED
  BY <1>4, <1>5

\* The timer is lost, and no other.
LEMMA QueueFullServed == ServedInv /\ CommandQueueFull => ServedInv'
<1> SUFFICES ASSUME ServedInv, CommandQueueFull PROVE ServedInv'
  OBVIOUS
<1> USE DEF ServedInv
<1> DEFINE t == call.timer
<1>1. /\ platform = "FreeRTOS" /\ callers = "task" /\ call.next = "use start" /\ Done
      /\ lost' = lost \cup {t} /\ native' = [native EXCEPT ![t] = NoSource]
      /\ UNCHANGED <<platform, callers, posted, loop, stopped, mActiveTimers>>
  BY DEF CommandQueueFull, FreeRTOSStartFails, frozen, Todo, ThreadsInv
<1>2. t \in Timers /\ call.op # "none" /\ call # NoCall
  BY <1>1, RecordFields DEF ThreadsInv
<1>3. /\ call' \in TimerCalls
      /\ call'.op = call.op /\ call'.timer = t /\ call'.kind = call.kind
      /\ call'.next = "done"
  BY <1>1, DoneCall DEF TablesTyped
<1>4. /\ source' \in [Sources -> NativeTimer]
      /\ \A j \in Sources :
            /\ j # call.found => source'[j] = source[j]
            /\ j = call.found => /\ source'[j].state \in {"free", "idle", "armed"}
                                 /\ source'[j].state # "free" => source'[j].kind \in Kinds
                                 /\ source'[j].state # "free" => source'[j].timer = t
  <2>1. source \in [Sources -> NativeTimer] /\ call.found \in Sources \cup {NoSource}
    BY DEF TablesTyped, TimerCalls
  <2>2. CASE call.found = NoSource
    BY <2>1, <2>2, Constants DEF CommandQueueFull, FreeRTOSStartFails
  <2>3. CASE call.found # NoSource
    <3> DEFINE found == source[call.found]
    <3>1. PICK left \in {Unused, Armed(t, call.kind), [found EXCEPT !.kind = call.kind]} :
             source' = [source EXCEPT ![call.found] = left]
      BY <2>3 DEF CommandQueueFull, FreeRTOSStartFails
    <3>2. /\ found \in NativeTimer /\ found.timer = t
          /\ found.state \in {"free", "armed", "idle"} /\ call.kind \in Kinds
      <4>1. call.found \in Sources /\ found \in NativeTimer /\ found.timer = t
        BY <1>1, <2>1, <2>3 DEF UnderWayInv
      <4>2. found.state \in {"free", "armed", "firing", "idle", "doomed"}
        BY <4>1 DEF NativeTimer
      <4>3. found.state # "doomed" /\ found.state # "firing"
        BY <1>1, <4>1 DEF TableInv
      <4>4. call.op \in {"start", "restart"}
        BY <1>1, <1>2 DEF ThreadsInv, TablesTyped, TimerCalls
      <4>5. call.kind \in Kinds
        BY <1>1, <4>4 DEF UnderWayInv
      <4> QED
        BY <4>1, <4>2, <4>3, <4>5
    <3>3. /\ left \in NativeTimer
          /\ left.state \in {"free", "idle", "armed"}
          /\ left.state # "free" => left.timer = t /\ left.kind \in Kinds
      BY <1>2, <3>1, <3>2, RecordFields DEF NativeTimer
    <3> QED
      BY <2>1, <2>3, <3>1, <3>3
  <2> QED
    BY <2>2, <2>3
<1>5. call.found \in Sources => source[call.found].timer = t
  BY <1>1, Constants DEF UnderWayInv
<1>6. \A u \in Timers : native'[u] # NoSource =>
          u # t /\ native'[u] = native[u] /\ native[u] \in Sources /\ native[u] # call.found
  <2>1. \A u \in Timers : native'[u] # NoSource =>
            u # t /\ native'[u] = native[u] /\ native[u] \in Sources
    BY <1>1, <1>2, Constants DEF TablesTyped
  <2> QED
    BY <1>5, <2>1, Constants DEF TableInv
<1>7. TablesTyped' /\ ThreadsInv'
  BY <1>1, <1>2, <1>3, <1>4, RecordFields DEF TablesTyped, ThreadsInv
<1>8. TableInv'
  <2>1. \A i \in Sources :
           \/ source'[i] = source[i]
           \/ source'[i].state = "free"
           \/ /\ source'[i].state \in {"idle", "armed"} /\ source'[i].timer = t
              /\ source'[i].kind \in Kinds
    BY <1>4, <1>5
  <2>2. \A u \in Timers : native'[u] # NoSource =>
           native'[u] = native[u] /\ source'[native[u]] = source[native[u]]
    BY <1>4, <1>6
  <2>3. \A u \in Timers : native'[u] # NoSource =>
           /\ source'[native'[u]].timer = u
           /\ source'[native'[u]].state \in {"armed", "firing", "idle"}
    BY <1>6, <2>2 DEF TableInv
  <2> QED
    BY <1>1, <1>2, <2>1, <2>3, TableKeeps
<1>9. UnderWayInv'
  BY <1>1, <1>2, <1>3 DEF UnderWayInv
<1>10. TicksInv'
  <2>1. ASSUME NEW u \in Timers, Wanted(u)' PROVE u # t /\ Wanted(u)
    BY <1>1, <1>2, <1>3, <2>1 DEF Wanted, Starting, UnderWayInv
  <2>2. ASSUME NEW u \in Timers \ {t}, WillTick(u) PROVE WillTick(u)'
    <3>1. native'[u] = native[u] /\ native[u] # NoSource /\ source'[native[u]] = source[native[u]]
      BY <1>1, <1>4, <1>6, <2>2 DEF WillTick, TablesTyped
    <3> QED
      BY <1>1, <2>2, <3>1 DEF WillTick, ExpiryRace
  <2> QED
    BY <1>1, <2>1, <2>2 DEF TicksInv
<1>11. RegisteredInv'
  BY <1>1 DEF RegisteredInv
<1> QED
  BY <1>7, <1>8, <1>9, <1>10, <1>11

\* What startTimerImpl does: a native timer is made, one is started anew, or none.
Made(t, k, i) ==
    /\ source[i].state = "free" /\ source'[i] = Armed(t, k) /\ native'[t] = i
    /\ \A j \in Sources \ {i} : source'[j] = source[j]
    /\ \A u \in Timers \ {t} : native'[u] = native[u]

Rearmed(t, k, i) ==
    /\ source'[i] = Armed(t, k) /\ native' = native
    /\ \A j \in Sources \ {i} : source'[j] = source[j]

LEMMA StartTables ==
    ASSUME ServedInv, StartTimerImpl
    PROVE  /\ call.timer \in Timers /\ call.kind \in Kinds
           /\ call.op \in {"start", "restart"} /\ call.kind = mActiveTimers[call.timer]
           /\ source' \in [Sources -> NativeTimer]
           /\ native' \in [Timers -> Sources \cup {NoSource}]
           /\ posted' = << >>
           /\ LET found == IF platform = "FreeRTOS" THEN call.found ELSE native[call.timer]
              IN  \/ found = NoSource /\ \E i \in Sources : Made(call.timer, call.kind, i)
                  \/ /\ platform \in {"Arduino", "FreeRTOS"}
                     /\ found \in Sources /\ source[found].timer = call.timer
                     /\ Rearmed(call.timer, call.kind, found)
                  \/ /\ platform \in {"GLib", "GLibmm", "Qt"}
                     /\ found # NoSource /\ UNCHANGED <<source, native>>
<1> USE DEF ServedInv
<1> DEFINE t == call.timer
           k == call.kind
<1>1. call.next \in {"start", "use start"}
  BY DEF StartTimerImpl, Todo
<1>2. t \in Timers /\ call.op \in {"start", "restart"} /\ k = mActiveTimers[t] /\ k \in Kinds
  BY <1>1, RecordFields DEF ThreadsInv, UnderWayInv, TablesTyped, TimerCalls
<1>3. /\ source \in [Sources -> NativeTimer] /\ call.found \in Sources \cup {NoSource}
      /\ native \in [Timers -> Sources \cup {NoSource}]
  BY DEF TablesTyped, TimerCalls
<1>4. ASSUME Create(t, k)
      PROVE  /\ source' \in [Sources -> NativeTimer]
             /\ native' \in [Timers -> Sources \cup {NoSource}]
             /\ \E i \in Sources : Made(t, k, i)
  <2> HIDE DEF t, k
  <2> QED
    BY <1>2, <1>4, CreateTable DEF Made
<1>5. ASSUME NEW i \in Sources, source' = [source EXCEPT ![i] = Armed(t, k)], native' = native
      PROVE  source' \in [Sources -> NativeTimer] /\ Rearmed(t, k, i)
  BY <1>2, <1>3, <1>5, RecordFields DEF Rearmed
<1>6. platform \in {"GLib", "GLibmm", "Arduino", "FreeRTOS"} => posted' = << >>
  BY DEF StartTimerImpl, ThreadsInv
<1>7. CASE platform \in {"GLib", "GLibmm"}
  <2>1. IF native[t] = NoSource THEN Create(t, k) ELSE UNCHANGED <<native, source>>
    BY <1>7 DEF StartTimerImpl, GLibmmStartTimerImpl, GLibStartTimerImpl
  <2> QED
    BY <1>2, <1>3, <1>4, <1>6, <1>7, <2>1
<1>8. CASE platform = "Qt"
  <2>1. /\ posted' = posted
        /\ IF native[t] = NoSource THEN Create(t, k) ELSE UNCHANGED <<native, source>>
    BY <1>8 DEF StartTimerImpl, QtStartTimerImpl, ThreadsInv
  <2>2. posted' = << >>
    BY <2>1 DEF ThreadsInv
  <2> QED
    BY <1>2, <1>3, <1>4, <1>8, <2>1, <2>2
<1>9. CASE platform = "Arduino"
  <2>1. IF native[t] = NoSource THEN Create(t, k)
        ELSE source' = [source EXCEPT ![native[t]] = Armed(t, k)] /\ native' = native
    BY <1>9 DEF StartTimerImpl, ArduinoStartTimerImpl
  <2>2. /\ native[t] \in Sources \cup {NoSource}
        /\ native[t] # NoSource => source[native[t]].timer = t
    BY <1>2, <1>3 DEF TableInv
  <2> HIDE DEF t, k
  <2>3. CASE native[t] = NoSource
    BY <1>2, <1>3, <1>4, <1>6, <1>9, <2>1, <2>3 DEF t, k
  <2>4. CASE native[t] # NoSource
    <3>1. source' \in [Sources -> NativeTimer] /\ Rearmed(t, k, native[t]) /\ native' = native
      BY <1>5, <2>1, <2>2, <2>4
    <3> QED
      BY <1>2, <1>3, <1>6, <1>9, <2>2, <2>4, <3>1 DEF t, k
  <2> QED
    BY <2>3, <2>4
<1>10. CASE platform = "FreeRTOS"
  <2>1. /\ IF call.found = NoSource THEN Create(t, k)
           ELSE source' = [source EXCEPT ![call.found] = Armed(t, k)] /\ native' = native
        /\ call.next = "use start"
    BY <1>10 DEF StartTimerImpl, FreeRTOSStartTimerImpl, Todo
  <2>2. call.found # NoSource => source[call.found].timer = t
    BY <2>1 DEF UnderWayInv
  <2>3. CASE call.found = NoSource
    BY <1>2, <1>3, <1>4, <1>6, <1>10, <2>1, <2>3
  <2>4. CASE call.found # NoSource
    <3>1. source' \in [Sources -> NativeTimer] /\ Rearmed(t, k, call.found) /\ native' = native
      BY <1>3, <1>5, <2>1, <2>4
    <3> QED
      BY <1>2, <1>3, <1>6, <1>10, <2>2, <2>4, <3>1
  <2> QED
    BY <2>3, <2>4
<1> QED
  BY <1>7, <1>8, <1>9, <1>10 DEF ThreadsInv

\* The timer of the call ticks afterwards, and the others as before: an entry that is taken
\* for one of a timer that runs is only met in a race.
LEMMA StartImplServed == ServedInv /\ StartTimerImpl => ServedInv'
<1> SUFFICES ASSUME ServedInv, StartTimerImpl PROVE ServedInv'
  OBVIOUS
<1> USE DEF ServedInv
<1> DEFINE t == call.timer
           k == call.kind
           found == IF platform = "FreeRTOS" THEN call.found ELSE native[t]
<1>1. /\ call.next \in {"start", "use start"} /\ Done
      /\ UNCHANGED <<platform, callers, loop, stopped, mActiveTimers>>
  BY DEF StartTimerImpl, frozen, Todo
<1>2. /\ t \in Timers /\ k \in Kinds /\ k = mActiveTimers[t]
      /\ call.op \in {"start", "restart"} /\ call # NoCall
      /\ source' \in [Sources -> NativeTimer]
      /\ native' \in [Timers -> Sources \cup {NoSource}]
      /\ posted' = << >>
      /\ \/ found = NoSource /\ \E i \in Sources : Made(t, k, i)
         \/ /\ platform \in {"Arduino", "FreeRTOS"}
            /\ found \in Sources /\ source[found].timer = t
            /\ Rearmed(t, k, found)
         \/ /\ platform \in {"GLib", "GLibmm", "Qt"}
            /\ found # NoSource /\ UNCHANGED <<source, native>>
  BY StartTables, RecordFields
<1>3. /\ call' \in TimerCalls
      /\ call'.op = call.op /\ call'.timer = t /\ call'.kind = k /\ call'.next = "done"
  BY <1>1, DoneCall DEF TablesTyped
<1>4. /\ lost' \subseteq Timers /\ lost \subseteq lost' /\ lost' \ lost \subseteq {t}
      /\ t \notin lost' => ~ ExpiryRace(t) /\ found = native[t]
  BY <1>1, <1>2 DEF StartTimerImpl, NoteRace, Todo, TablesTyped, UnderWayInv, ThreadsInv
<1>5. \A u \in Timers \ {t} :
         /\ native'[u] = native[u]
         /\ native[u] # NoSource => source'[native[u]] = source[native[u]]
  <2>1. CASE \E i \in Sources : Made(t, k, i)
    BY <2>1 DEF Made, TableInv, TablesTyped
  <2>2. CASE found \in Sources /\ source[found].timer = t /\ Rearmed(t, k, found)
    <3>1. \A u \in Timers \ {t} : native[u] # NoSource => native[u] \in Sources \ {found}
      BY <2>2 DEF TableInv, TablesTyped
    <3> HIDE DEF found
    <3> QED
      BY <2>2, <3>1 DEF Rearmed
  <2> QED
    BY <1>2, <2>1, <2>2
<1>6. \/ native'[t] = NoSource
      \/ native'[t] \in Sources /\ source'[native'[t]] = Armed(t, k)
      \/ native'[t] = native[t] /\ source'[native[t]] = source[native[t]]
  <2>1. CASE \E i \in Sources : Made(t, k, i)
    BY <2>1 DEF Made
  <2>2. CASE found \in Sources /\ source[found].timer = t /\ Rearmed(t, k, found)
    <3> HIDE DEF found
    <3>1. /\ native' = native /\ source'[found] = Armed(t, k)
          /\ \A j \in Sources \ {found} : source'[j] = source[j]
      BY <2>2 DEF Rearmed
    <3>2. native[t] \in Sources \cup {NoSource}
      BY <1>2 DEF TablesTyped
    <3> QED
      BY <3>1, <3>2
  <2> QED
    BY <1>2, <2>1, <2>2
<1>7. TablesTyped'
  BY <1>1, <1>2, <1>3, <1>4 DEF TablesTyped
<1>8. ThreadsInv'
  BY <1>1, <1>2, <1>3 DEF ThreadsInv
<1>9. TableInv'
  <2>0. \A i \in Sources : source'[i] = source[i] \/ source'[i] = Armed(t, k)
    BY <1>2 DEF Made, Rearmed
  <2>1. \A i \in Sources :
           \/ source'[i] = source[i]
           \/ source'[i].state = "armed" /\ source'[i].timer \in Timers
                                        /\ source'[i].kind \in Kinds
    BY <1>2, <2>0, RecordFields
  <2>2. ASSUME NEW u \in Timers, native'[u] # NoSource
        PROVE  /\ source'[native'[u]].timer = u
               /\ source'[native'[u]].state \in {"armed", "firing", "idle"}
    <3>1. CASE u # t
      BY <1>5, <2>2, <3>1 DEF TableInv
    <3>2. CASE u = t
      BY <1>2, <1>6, <2>2, <3>2, RecordFields DEF TableInv
    <3> QED
      BY <3>1, <3>2
  <2> QED
    BY <1>1, <2>1, <2>2, TableKeeps
<1>10. UnderWayInv'
  <2>1. ASSUME NEW u \in Timers, platform \in {"GLib", "GLibmm", "Qt"}, mActiveTimers[u] = "none"
        PROVE  native'[u] = NoSource \/ ExpiryRace(u)
    <3>1. u # t
      BY <1>2, <2>1, Constants
    <3> QED
      BY <1>5, <2>1, <3>1 DEF UnderWayInv, Stopping
  <2> QED
    BY <1>1, <1>2, <1>3, <2>1 DEF UnderWayInv, ExpiryRace, Starting, Stopping
<1>11. TicksInv'
  <2>1. ASSUME NEW u \in Timers \ {t}, Wanted(u)' PROVE Wanted(u)
    BY <1>1, <1>3, <1>4, <2>1 DEF Wanted, Starting
  <2>2. ASSUME NEW u \in Timers \ {t}, WillTick(u) PROVE WillTick(u)'
    <3>1. native'[u] = native[u] /\ native[u] # NoSource /\ source'[native[u]] = source[native[u]]
      BY <1>5, <2>2 DEF WillTick
    <3> QED
      BY <1>1, <2>2, <3>1 DEF WillTick, ExpiryRace
  <2>3. ASSUME NEW u \in Timers, u = t, u \notin lost' PROVE WillTick(u)'
    <3>1. ~ ExpiryRace(u) /\ found = native[u]
      BY <1>4, <2>3
    <3>2. native'[u] \in Sources /\ source'[native'[u]] = Armed(u, mActiveTimers[u])
      <4>1. CASE \E i \in Sources : Made(t, k, i)
        BY <1>2, <2>3, <4>1 DEF Made
      <4>2. CASE found \in Sources /\ Rearmed(t, k, found)
        BY <1>2, <2>3, <3>1, <4>2 DEF Rearmed
      <4>3. ~ (platform \in {"GLib", "GLibmm", "Qt"} /\ found # NoSource)
        BY <1>1, <1>2, <2>3, <3>1 DEF UnderWayInv, Starting, Stopping, ThreadsInv
      <4> QED
        BY <1>2, <4>1, <4>2, <4>3
    <3>3. mActiveTimers[u] \in Kinds
      BY <1>2, <2>3
    <3>4. native'[u] # NoSource
      BY <3>2, Constants
    <3>5. source'[native'[u]].state = "armed" /\ source'[native'[u]].kind = mActiveTimers[u]
      BY <3>2, <3>3, RecordFields
    <3> QED
      BY <1>1, <3>1, <3>4, <3>5 DEF WillTick, ExpiryRace
  <2>4. ASSUME NEW u \in Timers, ~ stopped, Wanted(u)' PROVE WillTick(u)'
    <3>1. CASE u = t
      <4>1. u \notin lost'
        BY <2>4 DEF Wanted
      <4> QED
        BY <2>3, <3>1, <4>1
    <3>2. CASE u # t
      BY <2>1, <2>2, <2>4, <3>2 DEF TicksInv
    <3> QED
      BY <3>1, <3>2
  <2> QED
    BY <1>1, <2>4 DEF TicksInv
<1>12. RegisteredInv'
  <2>1. ASSUME NEW j \in Sources, callers = "loop", source'[j].state \in {"armed", "firing"}
        PROVE  native'[source'[j].timer] = j
    <3>1. found = native[t]
      BY <2>1 DEF ThreadsInv
    <3>2. CASE \E i \in Sources : Made(t, k, i) /\ found = NoSource
      <4>1. PICK i \in Sources : Made(t, k, i)
        BY <3>2
      <4>2. CASE j = i
        BY <4>1, <4>2, RecordFields, <1>2 DEF Made
      <4>3. CASE j # i
        <5>1. source'[j] = source[j] /\ native[source[j].timer] = j
          BY <2>1, <4>1, <4>3 DEF Made, RegisteredInv
        <5>2. source[j].timer \in Timers \ {t}
          BY <2>1, <3>1, <3>2, <5>1, Constants DEF TableInv
        <5> QED
          BY <4>1, <5>1, <5>2 DEF Made
      <4> QED
        BY <4>2, <4>3
    <3>3. CASE found \in Sources /\ Rearmed(t, k, found)
      <4>1. CASE j = found
        BY <1>2, <3>1, <3>3, <4>1, RecordFields DEF Rearmed
      <4>2. CASE j # found
        BY <2>1, <3>3, <4>2 DEF Rearmed, RegisteredInv
      <4> QED
        BY <4>1, <4>2
    <3>4. CASE UNCHANGED <<source, native>>
      BY <2>1, <3>4 DEF RegisteredInv
    <3> QED
      BY <1>2, <3>2, <3>3, <3>4
  <2> QED
    BY <1>1, <1>2, <2>1 DEF RegisteredInv, ThreadsInv
<1> QED
  BY <1>7, <1>8, <1>9, <1>10, <1>11, <1>12

-----------------------------------------------------------------------------
(* Native timers that fire, and stop()                                     *)

FiresOnce(i) == platform \in {"Qt", "FreeRTOS"} /\ source[i].kind = "single"

LEMMA FiredTimer ==
    ASSUME TablesTyped, NEW i \in Sources, source[i].state \in {"armed", "doomed"}
    PROVE  /\ Fired(i) \in NativeTimer /\ Fired(i).timer = source[i].timer
           /\ platform \in {"GLib", "GLibmm"} =>
                 Fired(i).state = "firing" /\ Fired(i).kind = source[i].kind
           /\ FiresOnce(i) =>
                 Fired(i).state = IF source[i].state = "doomed" THEN "doomed" ELSE "idle"
           /\ platform \notin {"GLib", "GLibmm"} /\ ~ FiresOnce(i) =>
                 Fired(i) = source[i]
<1>1. source[i] \in NativeTimer
  BY DEF TablesTyped
<1>2. CASE platform \in {"GLib", "GLibmm"}
  <2>1. Fired(i) = [source[i] EXCEPT !.state = "firing"]
    BY <1>2 DEF Fired
  <2> DEFINE r == [source[i] EXCEPT !.state = "firing"]
  <2>2. /\ r \in NativeTimer /\ r.state = "firing"
        /\ r.timer = source[i].timer /\ r.kind = source[i].kind
    BY <1>1, ChangedState
  <2>3. Fired(i) = r
    BY <2>1
  <2> HIDE DEF r
  <2> QED
    BY <1>2, <2>2, <2>3 DEF FiresOnce
<1>3. CASE FiresOnce(i)
  <2>1. Fired(i) = [source[i] EXCEPT !.state = IF @ = "doomed" THEN "doomed" ELSE "idle",
                                     !.kind = "none"]
    BY <1>3 DEF Fired, FiresOnce
  <2> QED
    BY <1>1, <1>3, <2>1 DEF NativeTimer, FiresOnce
<1>4. CASE platform \notin {"GLib", "GLibmm"} /\ ~ FiresOnce(i)
  <2>1. Fired(i) = source[i]
    BY <1>4 DEF Fired, FiresOnce
  <2> QED
    BY <1>1, <1>4, <2>1
<1> QED
  BY <1>2, <1>3, <1>4

\* A timer whose native timer has fired for the last time still is to be handled.
LEMMA FireServed == ASSUME ServedInv, NEW i \in Sources, Fire(i) PROVE ServedInv'
<1> USE DEF ServedInv
<1>1. /\ source[i].state \in {"armed", "doomed"} /\ source[i].kind \in Kinds
      /\ loop = NoCallback /\ (callers = "loop" => call = NoCall)
      /\ UNCHANGED <<platform, callers, native, posted, call, stopped, mActiveTimers, lost>>
  BY DEF Fire, frozen
<1>2. source[i] \in NativeTimer /\ source[i].timer \in Timers
  BY <1>1 DEF TablesTyped, TableInv
<1>3. /\ loop' \in Callbacks /\ loop'.timer = source[i].timer /\ loop'.source = i
      /\ loop'.at = IF platform = "FreeRTOS" THEN "lookup" ELSE "handle"
  BY <1>2 DEF Fire, Callbacks
<1>4. /\ source' = [source EXCEPT ![i] = Fired(i)]
      /\ source \in [Sources -> NativeTimer] /\ source' \in [Sources -> NativeTimer]
  BY <1>1, FiredTimer DEF Fire, TablesTyped
<1> DEFINE r == source'[i]
<1>5. /\ \A j \in Sources \ {i} : source'[j] = source[j]
      /\ r.timer = source[i].timer
      /\ platform \in {"GLib", "GLibmm"} => r.state = "firing" /\ r.kind = source[i].kind
      /\ FiresOnce(i) =>
            r.state = IF source[i].state = "doomed" THEN "doomed" ELSE "idle"
      /\ platform \notin {"GLib", "GLibmm"} /\ ~ FiresOnce(i) =>
            r = source[i]
  BY <1>1, <1>4, FiredTimer
<1> HIDE DEF r
<1>6. \A j \in Sources : source[j].state # "firing"
  BY <1>1, RecordFields, Constants DEF TableInv
<1>7. source[i].state = "doomed" => platform = "Qt"
  BY DEF TableInv
<1>8. TablesTyped'
  BY <1>1, <1>3, <1>4 DEF TablesTyped
<1>9. ThreadsInv'
  BY <1>1, <1>3, RecordFields DEF ThreadsInv
<1>10. TableInv'
  <2>1. ASSUME NEW u \in Timers, native[u] # NoSource
        PROVE  /\ source'[native[u]].timer = u
               /\ source'[native[u]].state \in {"armed", "firing", "idle"}
    <3>1. /\ native[u] \in Sources /\ source[native[u]].timer = u
          /\ source[native[u]].state \in {"armed", "firing", "idle"}
      BY <2>1 DEF TablesTyped, TableInv
    <3>2. CASE native[u] = i
      BY <1>1, <1>5, <3>1, <3>2 DEF r, ThreadsInv, FiresOnce
    <3>3. CASE native[u] # i
      BY <1>5, <3>1, <3>3
    <3> QED
      BY <3>2, <3>3
  <2>2. ASSUME NEW j \in Sources
        PROVE  /\ source'[j].state # "free" => source'[j].timer \in Timers
               /\ source'[j].state \in {"armed", "firing"} => source'[j].kind \in Kinds
               /\ source'[j].state = "doomed" => platform = "Qt"
               /\ source'[j].state = "firing" =>
                     /\ platform \in {"GLib", "GLibmm"}
                     /\ loop'.source = j /\ loop'.timer = source'[j].timer
    <3>1. CASE j = i
      <4>1. r.timer \in Timers /\ r.timer = loop'.timer /\ loop'.source = i
        BY <1>2, <1>3, <1>5
      <4>2. r.state \in {"armed", "firing"} => r.kind \in Kinds
        BY <1>1, <1>5 DEF FiresOnce
      <4>3. r.state = "doomed" => platform = "Qt"
        BY <1>1, <1>5, <1>7 DEF FiresOnce
      <4>4. r.state = "firing" => platform \in {"GLib", "GLibmm"}
        BY <1>1, <1>5 DEF FiresOnce
      <4> QED
        BY <3>1, <4>1, <4>2, <4>3, <4>4 DEF r
    <3>2. CASE j # i
      <4>1. source'[j] = source[j]
        BY <1>5, <3>2
      <4> QED
        BY <1>6, <4>1 DEF TableInv
    <3> QED
      BY <3>1, <3>2
  <2> QED
    BY <1>1, <1>2, <1>3, <2>1, <2>2, Constants DEF TableInv
<1>11. UnderWayInv'
  <2>1. \A j \in Sources : source'[j].timer = source[j].timer
    BY <1>5 DEF r
  <2>2. \A u : ~ ExpiryRace(u) /\ ~ ExpiryRace(u)'
    BY <1>1, <1>3, RecordFields DEF ExpiryRace
  <2>3. call.found \in Sources \cup {NoSource}
    BY DEF TablesTyped, TimerCalls
  <2> QED
    BY <1>1, <2>1, <2>2, <2>3 DEF UnderWayInv, Starting, Stopping
<1>12. TicksInv'
  <2>1. ASSUME NEW u \in Timers, WillTick(u) PROVE WillTick(u)'
    <3>1. /\ native[u] \in Sources /\ source[native[u]].timer = u
          /\ source[native[u]].state = "armed" /\ source[native[u]].kind = mActiveTimers[u]
      BY <1>1, <2>1, RecordFields DEF WillTick, TablesTyped, TableInv
    <3>2. CASE native[u] # i
      BY <1>1, <1>3, <1>5, <3>1, <3>2, Constants DEF WillTick, ExpiryRace
    <3>3. CASE native[u] = i
      <4>1. native'[u] = i /\ native'[u] # NoSource /\ mActiveTimers'[u] = source[i].kind
        BY <1>1, <3>1, <3>3, Constants
      <4>2. loop'.timer = u /\ loop'.source = i /\ loop'.at \in {"lookup", "handle"}
        BY <1>3, <3>1, <3>3
      <4>3. \/ r.state = "armed" /\ r.kind = source[i].kind
            \/ r.state = "firing" /\ loop'.at = "handle" /\ r.kind = source[i].kind
            \/ r.state = "idle" /\ platform \in {"Qt", "FreeRTOS"} /\ source[i].kind = "single"
        BY <1>3, <1>5, <3>1, <3>3 DEF FiresOnce
      <4> QED
        BY <1>1, <4>1, <4>2, <4>3 DEF WillTick, ExpiryRace, r
    <3> QED
      BY <3>2, <3>3
  <2> QED
    BY <1>1, <2>1 DEF TicksInv, Wanted, Starting
<1>13. RegisteredInv'
  <2>1. ASSUME NEW j \in Sources, callers = "loop", source'[j].state \in {"armed", "firing"}
        PROVE  native[source'[j].timer] = j
    <3>1. CASE j = i
      <4>1. source[i].state = "armed"
        BY <1>1, <1>5, <1>7, <2>1, <3>1 DEF r, FiresOnce
      <4> QED
        BY <1>5, <2>1, <3>1, <4>1 DEF RegisteredInv, r
    <3>2. CASE j # i
      BY <1>5, <2>1, <3>2 DEF RegisteredInv
    <3> QED
      BY <3>1, <3>2
  <2> QED
    BY <1>1, <1>3, <1>5, <2>1 DEF RegisteredInv, r, FiresOnce
<1> QED
  BY <1>8, <1>9, <1>10, <1>11, <1>12, <1>13

LEMMA DeleteServed == ASSUME ServedInv, NEW i \in Sources, QtDeferredDelete(i) PROVE ServedInv'
<1> USE DEF ServedInv
<1>1. /\ source[i].state = "doomed" /\ platform = "Qt"
      /\ source' = [source EXCEPT ![i] = Unused]
      /\ UNCHANGED <<platform, callers, native, posted, loop, call, stopped, mActiveTimers,
                     lost>>
  BY DEF QtDeferredDelete, frozen, TableInv
<1>2. /\ source' \in [Sources -> NativeTimer] /\ source'[i].state = "free"
      /\ \A j \in Sources \ {i} : source'[j] = source[j]
  BY <1>1, RecordFields DEF TablesTyped
<1>3. \A u \in Timers : native[u] # NoSource =>
         /\ native[u] \in Sources /\ source'[native[u]] = source[native[u]]
         /\ source'[native[u]].timer = u
         /\ source'[native[u]].state \in {"armed", "firing", "idle"}
  BY <1>1, <1>2 DEF TablesTyped, TableInv
<1>4. TablesTyped' /\ ThreadsInv'
  BY <1>1, <1>2 DEF TablesTyped, ThreadsInv
<1>5. TableInv'
  BY <1>1, <1>2, <1>3, TableKeeps
<1>6. UnderWayInv'
  BY <1>1 DEF UnderWayInv, ExpiryRace, Starting, Stopping, ThreadsInv
<1>7. TicksInv'
  <2>1. ASSUME NEW u \in Timers, WillTick(u) PROVE WillTick(u)'
    BY <1>1, <1>3, <2>1 DEF WillTick, ExpiryRace
  <2> QED
    BY <1>1, <2>1 DEF TicksInv, Wanted, Starting
<1>8. RegisteredInv'
  BY <1>1, <1>2 DEF RegisteredInv
<1> QED
  BY <1>4, <1>5, <1>6, <1>7, <1>8

\* The handle leads to one identifier at most.
LEMMA LookUpServed == ServedInv /\ FreeRTOSLookUp => ServedInv'
<1> SUFFICES ASSUME ServedInv, FreeRTOSLookUp PROVE ServedInv'
  OBVIOUS
<1> USE DEF ServedInv
<1> DEFINE found == IF \E t \in Timers : native[t] = loop.source
                    THEN CHOOSE t \in Timers : native[t] = loop.source ELSE NoTimer
<1>1. /\ loop.at = "lookup" /\ loop' = [loop EXCEPT !.at = "handle", !.timer = found]
      /\ UNCHANGED <<platform, callers, native, source, posted, call, stopped, mActiveTimers,
                     lost>>
  BY DEF FreeRTOSLookUp, frozen
<1>2. platform = "FreeRTOS" /\ callers = "task" /\ loop.source \in Sources
  BY <1>1 DEF TableInv, ThreadsInv
<1>3. found \in Timers \cup {NoTimer}
  OBVIOUS
<1>4. \A u \in Timers : native[u] = loop.source => found = u
  <2>1. \A u, v \in Timers : native[u] = loop.source /\ native[v] = loop.source => u = v
    BY <1>2, Constants DEF TableInv
  <2> QED
    BY <2>1
<1> HIDE DEF found
<1>5. /\ loop' \in Callbacks /\ loop'.at = "handle" /\ loop'.timer = found
      /\ loop'.source = loop.source
  BY <1>1, <1>3, SetCallback DEF TablesTyped
<1>6. TablesTyped' /\ ThreadsInv'
  BY <1>1, <1>2, <1>5, RecordFields DEF TablesTyped, ThreadsInv
<1>7. TableInv'
  <2>1. \A i \in Sources : source[i].state # "firing"
    BY <1>2 DEF TableInv
  <2>2. platform = "FreeRTOS" /\ platform' = platform /\ UNCHANGED <<native, source>>
    BY <1>1, <1>2
  <2> QED
    BY <2>1, <2>2 DEF TableInv
<1>8. UnderWayInv'
  BY <1>1, <1>2, <1>5 DEF UnderWayInv, ExpiryRace
<1>9. TicksInv'
  <2>1. ASSUME NEW u \in Timers, WillTick(u) PROVE WillTick(u)'
    <3>1. native[u] # NoSource /\ source[native[u]].state # "firing"
      BY <1>2, <2>1 DEF WillTick, TableInv, TablesTyped
    <3> QED
      BY <1>1, <1>2, <1>4, <1>5, <2>1, <3>1 DEF WillTick, ExpiryRace
  <2> QED
    BY <1>1, <2>1 DEF TicksInv, Wanted, Starting
<1>10. RegisteredInv'
  BY <1>1, <1>2 DEF RegisteredInv
<1> QED
  BY <1>6, <1>7, <1>8, <1>9, <1>10

\* Timers that go on have their native timer armed again; the others are not active any
\* more when their entry is about to be erased.
LEMMA HandleServed == ServedInv /\ HandleTimerEvent => ServedInv'
<1> SUFFICES ASSUME ServedInv, HandleTimerEvent PROVE ServedInv'
  OBVIOUS
<1> USE DEF ServedInv
<1> DEFINE lt == loop.timer
           ls == loop.source
<1>1. /\ loop.at = "handle" /\ call = NoCall /\ ls \in Sources
      /\ UNCHANGED <<platform, callers, native, posted, call, stopped, lost>>
      /\ mActiveTimers' = [t \in Timers |->
           IF t = loop.timer /\ mActiveTimers[t] = "single" THEN "none" ELSE mActiveTimers[t]]
  BY DEF HandleTimerEvent, frozen, ThreadsInv
<1>2. /\ call.op = "none" /\ call.next = "done"
      /\ \A u \in Timers : ~ Starting(u) /\ ~ Stopping(u) /\ ~ Starting(u)' /\ ~ Stopping(u)'
      /\ \A u \in Timers : ~ ExpiryRace(u)
  BY <1>1, RecordFields DEF Starting, Stopping, ExpiryRace
<1>3. mActiveTimers' \in [Timers -> Kinds \cup {"none"}]
  BY <1>1 DEF TablesTyped
<1>4. CASE KeepsRunning(lt)
  <2>1. /\ loop' = NoCallback /\ lt \in Timers /\ mActiveTimers[lt] = "periodic"
        /\ source' = IF source[ls].state = "firing"
                     THEN [source EXCEPT ![ls].state = "armed"] ELSE source
    BY <1>4 DEF HandleTimerEvent, KeepsRunning, ActiveKind, TablesTyped, Callbacks
  <2>2. mActiveTimers' = mActiveTimers
    BY <1>1, <2>1 DEF TablesTyped
  <2>3. /\ source' \in [Sources -> NativeTimer]
        /\ \A j \in Sources : source'[j].timer = source[j].timer /\ source'[j].kind = source[j].kind
        /\ \A j \in Sources : \/ j = ls /\ source[j].state = "firing" /\ source'[j].state = "armed"
                              \/ source'[j] = source[j] /\ (j # ls \/ source[j].state # "firing")
    <3>1. source \in [Sources -> NativeTimer]
      BY DEF TablesTyped
    <3>2. CASE source[ls].state = "firing"
      <4>1. source' = [source EXCEPT ![ls].state = "armed"]
        BY <2>1, <3>2
      <4> HIDE DEF ls
      <4> QED
        BY <1>1, <3>1, <3>2, <4>1, StateSet DEF ls
    <3>3. CASE source[ls].state # "firing"
      BY <2>1, <3>1, <3>3
    <3> QED
      BY <3>2, <3>3
  <2>4. \A j \in Sources : source'[j].state # "firing"
    BY <2>3 DEF TableInv
  <2>5. TablesTyped' /\ ThreadsInv'
    BY <1>1, <1>3, <2>1, <2>3, RecordFields DEF TablesTyped, ThreadsInv
  <2>6. TableInv'
    <3>1. ASSUME NEW u \in Timers, native[u] # NoSource
          PROVE  /\ source'[native[u]].timer = u
                 /\ source'[native[u]].state \in {"armed", "firing", "idle"}
      <4>1. /\ native[u] \in Sources /\ source[native[u]].timer = u
            /\ source[native[u]].state \in {"armed", "firing", "idle"}
        BY <3>1 DEF TablesTyped, TableInv
      <4> QED
        BY <2>3, <4>1
    <3>2. ASSUME NEW j \in Sources
          PROVE  /\ source'[j].state # "free" => source'[j].timer \in Timers
                 /\ source'[j].state \in {"armed", "firing"} => source'[j].kind \in Kinds
                 /\ source'[j].state = "doomed" => platform = "Qt"
      <4>1. source'[j].timer = source[j].timer /\ source'[j].kind = source[j].kind
        BY <2>3
      <4>2. \/ source[j].state = "firing" /\ source'[j].state = "armed"
            \/ source'[j].state = source[j].state
        BY <2>3
      <4> QED
        BY <4>1, <4>2 DEF TableInv
    <3> QED
      BY <1>1, <2>1, <2>4, <3>1, <3>2, RecordFields DEF TableInv
  <2>7. UnderWayInv'
    <3>1. call'.next = "done" /\ call'.op = "none"
      BY <1>1, <1>2
    <3> QED
      BY <1>1, <1>2, <2>2, <3>1 DEF UnderWayInv
  <2>8. TicksInv'
    <3>1. ASSUME NEW u \in Timers, Wanted(u), WillTick(u) PROVE WillTick(u)'
      <4>1. native[u] \in Sources /\ native[u] # NoSource /\ source[native[u]].timer = u
        BY <3>1 DEF WillTick, TablesTyped, TableInv
      <4>2. ~ (mActiveTimers[u] = "single" /\ lt = u)
        BY <2>1
      <4>3. /\ source[native[u]].state \in {"armed", "firing"}
            /\ source[native[u]].kind = mActiveTimers[u]
        BY <1>1, <3>1, <4>2 DEF WillTick
      <4>4. source'[native[u]].state = "armed" /\ source'[native[u]].kind = mActiveTimers[u]
        BY <2>3, <2>4, <4>1, <4>3
      <4>5. loop'.at = "idle"
        BY <2>1, RecordFields
      <4> QED
        BY <1>1, <2>2, <4>1, <4>4, <4>5 DEF WillTick, ExpiryRace
    <3> QED
      BY <1>1, <1>2, <2>2, <3>1 DEF TicksInv, Wanted
  <2>9. RegisteredInv'
    <3>1. ASSUME NEW j \in Sources, callers = "loop", source'[j].state \in {"armed", "firing"}
          PROVE  native[source'[j].timer] = j
      BY <2>3, <3>1 DEF RegisteredInv
    <3> QED
      BY <1>1, <2>1, <3>1 DEF RegisteredInv
  <2> QED
    BY <2>5, <2>6, <2>7, <2>8, <2>9
<1>5. CASE ~ KeepsRunning(lt)
  <2>1. source' = source /\ loop' = [loop EXCEPT !.at = "erase"]
    BY <1>5 DEF HandleTimerEvent
  <2>2. /\ loop' \in Callbacks /\ loop'.at = "erase" /\ loop'.timer = lt /\ loop'.source = ls
    BY <2>1, SetCallback, NativeAssumption DEF TablesTyped
  <2>3. loop' # NoCallback /\ loop # NoCallback
    BY <1>1, <2>2, RecordFields
  <2>4. TablesTyped' /\ ThreadsInv'
    BY <1>1, <1>3, <2>1, <2>2, <2>3 DEF TablesTyped, ThreadsInv
  <2>5. TableInv'
    BY <1>1, <2>1, <2>2 DEF TableInv
  <2>6. UnderWayInv'
    <3>1. call'.next = "done" /\ call'.op = "none"
      BY <1>1, <1>2
    <3>2. ASSUME NEW u \in Timers, platform \in {"GLib", "GLibmm", "Qt"}, mActiveTimers'[u] = "none"
          PROVE  native[u] = NoSource \/ ExpiryRace(u)'
      <4>1. CASE u = lt
        BY <2>2, <4>1 DEF ExpiryRace
      <4>2. CASE u # lt
        BY <1>1, <1>2, <3>2, <4>2 DEF UnderWayInv
      <4> QED
        BY <4>1, <4>2
    <3> QED
      BY <1>1, <1>2, <3>1, <3>2 DEF UnderWayInv
  <2>7. TicksInv'
    <3>1. ASSUME NEW u \in Timers, ~ stopped, Wanted(u)' PROVE WillTick(u)'
      <4>1. mActiveTimers'[u] # "none" /\ mActiveTimers'[u] = mActiveTimers[u]
        BY <1>1, <3>1 DEF Wanted
      <4>2. Wanted(u) /\ WillTick(u)
        BY <1>1, <1>2, <3>1, <4>1 DEF Wanted, TicksInv
      <4>3. u # lt
        <5>1. SUFFICES ASSUME u = lt PROVE FALSE
          OBVIOUS
        <5>2. mActiveTimers[u] = "periodic"
          BY <1>1, <4>1, <5>1 DEF TablesTyped, Kinds
        <5>3. platform = "Arduino"
          BY <1>5, <5>1, <5>2, Constants DEF KeepsRunning, ActiveKind
        <5> QED
          BY <4>2, <5>2, <5>3 DEF Wanted
      <4>4. native[u] \in Sources /\ source[native[u]].timer = u
        BY <4>2 DEF WillTick, TablesTyped, TableInv
      <4>5. source[native[u]].state # "firing"
        BY <4>3, <4>4 DEF TableInv
      <4>6. source[native[u]].state = "armed" /\ source[native[u]].kind = mActiveTimers[u]
        BY <1>1, <4>2, <4>3, <4>5 DEF WillTick
      <4> QED
        BY <1>1, <2>1, <2>2, <4>1, <4>2, <4>3, <4>6 DEF WillTick, ExpiryRace
    <3> QED
      BY <1>1, <3>1 DEF TicksInv
  <2>8. RegisteredInv'
    BY <1>1, <2>1, <2>2, <2>3 DEF RegisteredInv
  <2> QED
    BY <2>4, <2>5, <2>6, <2>7, <2>8
<1> QED
  BY <1>4, <1>5

LEMMA EraseTables ==
    ASSUME ServedInv, EraseTimer
    PROVE  /\ source' \in [Sources -> NativeTimer]
           /\ native' \in [Timers -> Sources \cup {NoSource}]
           /\ loop.timer \in Timers => native'[loop.timer] = NoSource
           /\ \A u \in Timers : u # loop.timer => native'[u] = native[u]
           /\ \A u \in Timers : u # loop.timer /\ native[u] # NoSource =>
                  source'[native[u]] = source[native[u]]
           /\ \A i \in Sources :
                  \/ source'[i] = source[i]
                  \/ source'[i].state = "free"
                  \/ source'[i].state = "doomed" /\ source'[i].timer \in Timers /\ platform = "Qt"
           /\ \A i \in Sources : source'[i].state # "firing"
           /\ callers = "loop" /\ loop.timer \in Timers /\ native[loop.timer] # NoSource =>
                  source'[native[loop.timer]].state \in {"free", "doomed"}
<1> USE DEF ServedInv
<1> DEFINE lt == loop.timer
           ls == loop.source
<1>1. loop.at = "erase" /\ ls \in Sources /\ loop # NoCallback /\ lt \in Timers \cup {NoTimer}
  BY RecordFields DEF EraseTimer, ThreadsInv, TablesTyped, Callbacks
<1>2. /\ source \in [Sources -> NativeTimer] /\ native \in [Timers -> Sources \cup {NoSource}]
      /\ \A u, v \in Timers : native[u] # NoSource /\ native[u] = native[v] => u = v
  BY DEF TablesTyped, TableInv
<1>3. platform # "FreeRTOS" => lt \in Timers
  BY <1>1 DEF TableInv
<1>4. CASE platform \in {"GLib", "GLibmm"}
  <2>1. native' = [native EXCEPT ![lt] = NoSource]
    BY <1>3, <1>4, Constants DEF EraseTimer, GLibErase, GLibmmErase
  <2>2. source' = IF source[ls].state = "firing" THEN [source EXCEPT ![ls] = Unused] ELSE source
    BY <1>4 DEF EraseTimer, GLibErase, GLibmmErase, GLibKeep
  <2>3. /\ source' \in [Sources -> NativeTimer]
        /\ source[ls].state = "firing" => source'[ls].state = "free"
        /\ \A i \in Sources : i # ls \/ source[i].state # "firing" => source'[i] = source[i]
    BY <1>1, <1>2, <2>2, RecordFields
  <2>4. \A i \in Sources : source[i].state = "firing" => i = ls /\ source[i].timer = lt
    BY DEF TableInv
  <2>5. ASSUME NEW u \in Timers, u # lt, native[u] # NoSource
        PROVE  source'[native[u]] = source[native[u]]
    <3>1. native[u] \in Sources /\ source[native[u]].timer = u
      BY <1>2, <2>5 DEF TableInv
    <3> QED
      BY <2>3, <2>4, <2>5, <3>1
  <2>6. callers = "loop" => native[lt] = ls /\ source[ls].state = "firing"
    BY <1>1, <1>4, <2>4 DEF RegisteredInv
  <2> QED
    BY <1>2, <1>3, <1>4, <2>1, <2>3, <2>4, <2>5, <2>6
<1>5. CASE platform \in {"Qt", "Arduino"}
  <2>1. GiveUp(native[lt]) /\ native' = [native EXCEPT ![lt] = NoSource]
    BY <1>5 DEF EraseTimer, QtErase, ArduinoErase
  <2>2. native[lt] \in Sources \cup {NoSource} /\ lt \in Timers
    BY <1>2, <1>3, <1>5
  <2>3. /\ source' \in [Sources -> NativeTimer]
        /\ \A j \in Sources :
              /\ j # native[lt] => source'[j] = source[j]
              /\ j = native[lt] => /\ source'[j].state = IF platform = "Qt" THEN "doomed" ELSE "free"
                                   /\ platform = "Qt" => source'[j].timer = source[j].timer
    BY <2>1, <2>2, GiveUpTable
  <2>4. \A i \in Sources : source[i].state # "firing"
    BY <1>5 DEF TableInv
  <2>5. native[lt] # NoSource => source[native[lt]].timer = lt
    BY <2>2 DEF TableInv
  <2>6. ASSUME NEW u \in Timers, u # lt, native[u] # NoSource
        PROVE  source'[native[u]] = source[native[u]]
    BY <1>2, <2>2, <2>3, <2>6
  <2>7. ASSUME NEW i \in Sources
        PROVE  /\ \/ source'[i] = source[i]
                  \/ source'[i].state = "free"
                  \/ source'[i].state = "doomed" /\ source'[i].timer \in Timers /\ platform = "Qt"
               /\ source'[i].state # "firing"
    <3>1. CASE i = native[lt]
      BY <2>2, <2>3, <2>5, <3>1, Constants
    <3>2. CASE i # native[lt]
      BY <2>3, <2>4, <3>2
    <3> QED
      BY <3>1, <3>2
  <2>8. native[lt] # NoSource => source'[native[lt]].state \in {"free", "doomed"}
    BY <2>2, <2>3
  <2> QED
    BY <1>2, <2>1, <2>2, <2>3, <2>6, <2>7, <2>8
<1>6. CASE platform = "FreeRTOS"
  <2>1. /\ source' = source /\ callers = "task"
        /\ native' = IF lt = NoTimer THEN native ELSE [native EXCEPT ![lt] = NoSource]
    BY <1>6 DEF EraseTimer, FreeRTOSErase, ThreadsInv
  <2>2. \A i \in Sources : source[i].state # "firing"
    BY <1>6 DEF TableInv
  <2> QED
    BY <1>1, <1>2, <2>1, <2>2, Constants
<1> QED
  BY <1>4, <1>5, <1>6 DEF ThreadsInv

\* The entry that goes is the one of a timer that is not active, or on record as lost.
LEMMA EraseServed == ServedInv /\ EraseTimer => ServedInv'
<1> SUFFICES ASSUME ServedInv, EraseTimer PROVE ServedInv'
  OBVIOUS
<1> USE DEF ServedInv
<1>1. /\ loop.at = "erase" /\ loop' = NoCallback
      /\ UNCHANGED <<platform, callers, posted, call, stopped, mActiveTimers, lost>>
  BY DEF EraseTimer, frozen
<1>2. loop'.at = "idle" /\ loop # NoCallback /\ \A u : ~ ExpiryRace(u)'
  BY <1>1, RecordFields DEF ExpiryRace
<1>3. TablesTyped' /\ ThreadsInv'
  BY <1>1, <1>2, EraseTables, RecordFields DEF TablesTyped, ThreadsInv
<1>4. ASSUME NEW u \in Timers, native'[u] # NoSource
      PROVE  u # loop.timer /\ native'[u] = native[u] /\ source'[native[u]] = source[native[u]]
  BY <1>4, EraseTables
<1>5. TableInv'
  <2>1. ASSUME NEW u \in Timers, native'[u] # NoSource
        PROVE  /\ source'[native'[u]].timer = u
               /\ source'[native'[u]].state \in {"armed", "firing", "idle"}
    BY <1>4, <2>1 DEF TableInv
  <2>2. ASSUME NEW i \in Sources
        PROVE  /\ source'[i].state # "free" => source'[i].timer \in Timers
               /\ source'[i].state \in {"armed", "firing"} => source'[i].kind \in Kinds
               /\ source'[i].state = "doomed" => platform = "Qt"
    BY EraseTables DEF TableInv
  <2>3. \A i \in Sources : source'[i].state # "firing"
    BY EraseTables
  <2> QED
    BY <1>1, <1>2, <2>1, <2>2, <2>3 DEF TableInv
<1>6. UnderWayInv'
  <2>1. call.next \in {"use stop", "use start"} => source' = source
    BY <1>1, Constants DEF EraseTimer, ThreadsInv, FreeRTOSErase
  <2>2. call.next = "use start" /\ call.timer \notin lost => native'[call.timer] = native[call.timer]
    <3>1. SUFFICES ASSUME call.next = "use start", call.timer \notin lost
                   PROVE  native'[call.timer] = native[call.timer]
      OBVIOUS
    <3>2. call.timer \in Timers /\ call.timer # loop.timer
      BY <1>1, <3>1, RecordFields DEF UnderWayInv, ExpiryRace, ThreadsInv
    <3> QED
      BY <3>2, EraseTables
  <2>3. ASSUME NEW u \in Timers, platform \in {"GLib", "GLibmm", "Qt"},
               mActiveTimers[u] = "none" \/ Starting(u)
        PROVE  native'[u] = NoSource \/ Stopping(u)
    BY <1>4, <2>3 DEF UnderWayInv, ExpiryRace
  <2> QED
    BY <1>1, <1>2, <2>1, <2>2, <2>3 DEF UnderWayInv, Starting, Stopping
<1>7. TicksInv'
  <2>1. ASSUME NEW u \in Timers, WillTick(u) PROVE WillTick(u)'
    <3>1. u # loop.timer /\ native[u] # NoSource
      BY <1>1, <2>1 DEF WillTick, ExpiryRace
    <3>2. native'[u] = native[u] /\ source'[native[u]] = source[native[u]]
      BY <3>1, EraseTables
    <3>3. source[native[u]].state = "armed" /\ source[native[u]].kind = mActiveTimers[u]
      BY <1>1, <2>1 DEF WillTick
    <3> QED
      BY <1>1, <1>2, <3>1, <3>2, <3>3 DEF WillTick
  <2> QED
    BY <1>1, <2>1 DEF TicksInv, Wanted, Starting
<1>8. RegisteredInv'
  <2>1. ASSUME NEW j \in Sources, callers = "loop", source'[j].state \in {"armed", "firing"}
        PROVE  native'[source'[j].timer] = j
    <3>1. source'[j] = source[j] /\ native[source[j].timer] = j /\ source[j].timer \in Timers
      BY <2>1, EraseTables DEF RegisteredInv, TableInv
    <3>2. source[j].timer # loop.timer
      BY <2>1, <3>1, EraseTables, Constants
    <3> QED
      BY <3>1, <3>2, EraseTables
  <2> QED
    BY <1>1, <2>1 DEF RegisteredInv
<1> QED
  BY <1>3, <1>5, <1>6, <1>7, <1>8

LEMMA StopServed == ServedInv /\ Stop => ServedInv'
<1> SUFFICES ASSUME ServedInv, Stop PROVE ServedInv'
  OBVIOUS
<1> USE DEF ServedInv
<1>1. /\ call = NoCall /\ stopped' = TRUE /\ (callers = "loop" => loop = NoCallback)
      /\ UNCHANGED <<platform, callers, posted, loop, call, mActiveTimers, lost>>
  BY DEF Stop, frozen
<1>2. call.op = "none" /\ call.next = "done"
  BY <1>1, RecordFields
<1>3. TicksInv'
  BY <1>1 DEF TicksInv
<1>4. CASE platform = "Arduino"
  <2>1. UNCHANGED <<native, source>>
    BY <1>4 DEF Stop
  <2> QED
    BY <1>1, <1>3, <2>1
          DEF TablesTyped, ThreadsInv, TableInv, UnderWayInv, RegisteredInv, ExpiryRace, Starting,
              Stopping
<1>5. CASE platform # "Arduino"
  <2>1. /\ native' = [t \in Timers |-> NoSource]
        /\ source' = [i \in Sources |->
                IF \E t \in Timers : native[t] = i THEN GivenUp(i) ELSE source[i]]
    BY <1>5 DEF Stop, UnregisterAllTimerHandlers
  <2>2. source' \in [Sources -> NativeTimer] /\ native' \in [Timers -> Sources \cup {NoSource}]
    BY <2>1, GivenUpTimer DEF TablesTyped
  <2>3. TablesTyped'
    BY <1>1, <2>2 DEF TablesTyped
  <2>4. ThreadsInv'
    BY <1>1 DEF ThreadsInv
  <2>5. ASSUME NEW i \in Sources
        PROVE  \/ source'[i] = source[i] /\ \A t \in Timers : native[t] # i
               \/ source'[i].state = "free"
               \/ source'[i].state = "doomed" /\ source'[i].timer \in Timers /\ platform = "Qt"
    <3>1. CASE \E t \in Timers : native[t] = i
      <4>1. source[i].timer \in Timers /\ source'[i] = GivenUp(i)
        BY <2>1, <3>1, Constants DEF TableInv
      <4> QED
        BY <4>1, GivenUpTimer
    <3>2. CASE ~ \E t \in Timers : native[t] = i
      BY <2>1, <3>2
    <3> QED
      BY <3>1, <3>2
  <2>6. TableInv'
    BY <1>1, <2>1, <2>5, TableKeeps
  <2>7. UnderWayInv'
    BY <1>1, <1>2, <2>1 DEF UnderWayInv
  <2>8. RegisteredInv'
    <3>1. ASSUME NEW j \in Sources, callers = "loop", source'[j].state \in {"armed", "firing"}
          PROVE  FALSE
      <4>1. source'[j] = source[j] /\ \A t \in Timers : native[t] # j
        BY <2>5, <3>1
      <4>2. native[source[j].timer] = j /\ source[j].timer \in Timers
        BY <3>1, <4>1 DEF RegisteredInv, TableInv
      <4> QED
        BY <4>1, <4>2
    <3> QED
      BY <1>1, <3>1 DEF RegisteredInv
  <2> QED
    BY <1>3, <2>3, <2>4, <2>6, <2>7, <2>8
<1> QED
  BY <1>4, <1>5

-----------------------------------------------------------------------------
LEMMA NativeStep == NativeInv /\ [Next]_vars => NativeInv'
<1> SUFFICES ASSUME NativeInv, [Next]_vars PROVE NativeInv'
  OBVIOUS
<1>1. UNCHANGED <<platform, callers>>
  BY DEF Next, vars, frozen, StartTimer, RestartTimer, StopTimer, Begin, StartTimerImpl,
         StopTimerImpl, CommandQueueFull, FreeRTOSFind, Return, Fire, QtDeferredDelete,
         FreeRTOSLookUp, HandleTimerEvent, EraseTimer, QtCreateTimer, Stop
<1>2. CASE ByAnother
  BY <1>1, <1>2 DEF NativeInv, ByAnother
<1>3. CASE ~ ByAnother
  <2>1. ServedInv
    BY <1>3 DEF NativeInv
  <2>2. SUFFICES ServedInv'
    BY DEF NativeInv
  <2>3. ~ QtCreateTimer
    BY <2>1 DEF QtCreateTimer, ServedInv, ThreadsInv
  <2>4. CASE UNCHANGED vars
    <3>1. UNCHANGED <<platform, callers, mActiveTimers, native, source, posted, loop, call,
                      stopped, lost>>
      BY <2>4 DEF vars, frozen
    <3>2. TablesTyped' /\ ThreadsInv' /\ TableInv' /\ RegisteredInv'
      BY <2>1, <3>1 DEF ServedInv, TablesTyped, ThreadsInv, TableInv, RegisteredInv
    <3>3. UnderWayInv'
      BY <2>1, <3>1 DEF ServedInv, UnderWayInv, ExpiryRace, Starting, Stopping
    <3>4. TicksInv'
      BY <2>1, <3>1 DEF ServedInv, TicksInv, ExpiryRace, Starting, Wanted, WillTick
    <3> QED
      BY <3>2, <3>3, <3>4 DEF ServedInv
  <2>5. CASE \E t \in Timers, k \in Kinds : StartTimer(t, k)
    BY <2>1, <2>5, BeginServed
  <2>6. CASE \E t \in Timers : RestartTimer(t) \/ StopTimer(t)
    <3>1. "single" \in Kinds
      BY DEF Kinds
    <3> QED
      BY <2>1, <2>6, <3>1, BeginServed
  <2>7. CASE StartTimerImpl \/ StopTimerImpl \/ CommandQueueFull \/ FreeRTOSFind \/ Return
    BY <2>1, <2>7, StartImplServed, StopImplServed, QueueFullServed, FindServed, ReturnServed
  <2>8. CASE \E i \in Sources : Fire(i) \/ QtDeferredDelete(i)
    BY <2>1, <2>8, FireServed, DeleteServed
  <2>9. CASE FreeRTOSLookUp \/ HandleTimerEvent \/ EraseTimer \/ Stop
    BY <2>1, <2>9, LookUpServed, HandleServed, EraseServed, StopServed
  <2> QED
    BY <2>3, <2>4, <2>5, <2>6, <2>7, <2>8, <2>9 DEF Next
<1> QED
  BY <1>2, <1>3

\* With GLib, GLibmm, FreeRTOS and Arduino, and Qt when the state machine runs on the
\* dispatcher's thread: a timer that isTimerRunning() tells of has a native timer that will
\* fire, once nobody is between the two tables, for any number of timers, calls and native
\* timers.  What the code loses is left out by name: timers whose startTimerImpl met the
\* erase of their expired predecessor or a full command queue, and periodic timers of
\* Arduino.
THEOREM ActiveTimersTick == Spec => []ActiveTicks
<1>1. NativeInv => ActiveTicks
  <2> SUFFICES ASSUME NativeInv, Quiet, ~ ByAnother, NEW t \in Timers \ lost,
                      mActiveTimers[t] # "none",
                      ~ (platform = "Arduino" /\ mActiveTimers[t] = "periodic")
               PROVE  Ticks(t)
    BY DEF ActiveTicks, ByAnother
  <2> USE DEF NativeInv, ServedInv
  <2>1. Wanted(t) /\ ~ stopped /\ loop.at = "idle"
    BY RecordFields DEF Quiet, Wanted, Starting
  <2>2. WillTick(t)
    BY <2>1 DEF TicksInv
  <2>3. native[t] \in Sources /\ source[native[t]].state = "armed" /\ source[native[t]].timer = t
    BY <2>1, <2>2 DEF WillTick, TablesTyped, TableInv
  <2> QED
    BY <2>3 DEF Ticks
<1> QED
  BY <1>1, InitServed, NativeStep, PTL DEF Spec

\* When one thread uses the timers and fires them, a native timer that is armed is always in
\* the table that stopTimerImpl() and stop() go by.
THEOREM ArmedTimersAreRegistered == Spec => []ArmedIsRegistered
<1>1. NativeInv => ArmedIsRegistered
  BY DEF NativeInv, ServedInv, ArmedIsRegistered, ByAnother, RegisteredInv
<1> QED
  BY <1>1, InitServed, NativeStep, PTL DEF Spec
=================================================================================
