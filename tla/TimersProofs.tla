----------------------------- MODULE TimersProofs -----------------------------
(***************************************************************************)
(* What TimersSTD shows on small instances, proved for any number of       *)
(* timers and of threads that use them.                                    *)
(***************************************************************************)
EXTENDS TimersSTD, TLAPS, FiniteSetTheorems, SequenceTheorems

\* Timers are active for a registered handler only, and the thread that calls the
\* handler keeps others from unregistering it.
HandlerInv ==
    /\ Active # {} => mTimerHandlers
    /\ pc = "handler" => mHandlersSync = TimersThread /\ mTimerHandlers

LEMMA ErasedShrinks ==
    ASSUME NEW table, NEW t
    PROVE  DOMAIN Erased(table, t) \subseteq DOMAIN table
BY DEF Erased

\* What a call does first, under mHandlersSync, keeps timers and handlers together.
LEMMA EnteringKeepsHandlers ==
    ASSUME HandlerInv, NEW c \in Clients, EnterCall(c)
    PROVE  HandlerInv'
<1>1. pc' = pc /\ pc # "handler"
  BY TimersAssumption DEF HandlerInv, EnterCall, thread
<1>2. CASE StartTimer(c, call[c].timer, call[c].kind)
  BY <1>1, <1>2 DEF HandlerInv, StartTimer, Active
<1>3. CASE RestartTimer(c, call[c].timer)
  BY <1>1, <1>3 DEF HandlerInv, RestartTimer, Active
<1>4. CASE StopTimer(c, call[c].timer)
  <2>1. Active' \subseteq Active
    BY <1>4, ErasedShrinks DEF StopTimer, Active
  <2>2. QED
    BY <1>1, <1>4, <2>1 DEF HandlerInv, StopTimer
<1>5. CASE UnregisterTimerHandler(c)
  <2>1. Active' = {}
    BY <1>5 DEF UnregisterTimerHandler, Active
  <2>2. QED
    BY <1>1, <2>1 DEF HandlerInv
<1>6. QED
  BY <1>2, <1>3, <1>4, <1>5 DEF EnterCall

LEMMA HandlerInvStep ==
    ASSUME HandlerInv, [Next]_vars
    PROVE  HandlerInv'
<1>1. ASSUME NEW c \in Clients, CallAPI(c) \/ EraseRunning(c) \/ InsertRunning(c)
      PROVE  HandlerInv'
  BY <1>1 DEF HandlerInv, CallAPI, EraseRunning, InsertRunning, Proceed, Active,
              tables, locks, thread
<1>2. ASSUME NEW c \in Clients, EnterCall(c)
      PROVE  HandlerInv'
  BY <1>2, EnteringKeepsHandlers
<1>3. ASSUME NEW c \in Clients, SpawnThread(c) \/ Notify(c)
      PROVE  HandlerInv'
  <2>1. pc' = "handler" => pc = "handler"
    BY <1>3 DEF SpawnThread, Notify, NotifyTimersThread
  <2>2. QED
    BY <1>3, <2>1 DEF HandlerInv, SpawnThread, Notify, Proceed, Active, locks
<1>4. ASSUME NEW c \in Clients, LeaveCall(c)
      PROVE  HandlerInv'
  BY <1>4, TimersAssumption DEF HandlerInv, LeaveCall, Active, tables, thread
<1>5. CASE BeginStop \/ UnregisterAllEventHandlers
  BY <1>5 DEF HandlerInv, BeginStop, UnregisterAllEventHandlers, Active, tables, locks, thread
<1>6. CASE EndStop
  <2>1. pc' = "handler" => pc = "handler"
    BY <1>6 DEF EndStop, NotifyTimersThread
  <2>2. QED
    BY <1>6, <2>1 DEF HandlerInv, EndStop, Active, tables
<1>7. CASE ChooseTimer \/ NoTimerToChoose \/ Exit \/ LookAtFlag \/ TakeElapsed
  BY <1>7 DEF HandlerInv, ChooseTimer, NoTimerToChoose, Exit, LookAtFlag, TakeElapsed,
              Active, tables, locks
<1>8. CASE FallAsleep \/ TimeOut \/ SpuriousWakeup
  BY <1>8 DEF HandlerInv, FallAsleep, TimeOut, SpuriousWakeup, Moves, Active, tables, locks
<1>9. CASE HandleTimerEvent
  BY <1>9, ErasedShrinks DEF HandlerInv, HandleTimerEvent, Active
<1>10. CASE HandlerReturns
  BY <1>10 DEF HandlerInv, HandlerReturns
<1>11. CASE Tick
  BY <1>11 DEF HandlerInv, Tick, Active, locks
<1>12. CASE UNCHANGED vars
  BY <1>12 DEF HandlerInv, Active, vars, tables, locks, thread
<1>13. QED
  BY <1>1, <1>2, <1>3, <1>4, <1>5, <1>6, <1>7, <1>8, <1>9, <1>10, <1>11, <1>12
  DEF Next, InCall, TimersThreadStep

\* A timer handler that is being called stays registered until it returns, as the
\* note on the lock in handleTimerEvent wants it (HsmEventDispatcherBase.cpp:260).
THEOREM HandlerOutlivesItsCall == Spec => []CallbackIsRegistered
<1>1. Init => HandlerInv
  BY DEF Init, HandlerInv, Active
<1>2. HandlerInv /\ [Next]_vars => HandlerInv'
  BY HandlerInvStep
<1>3. HandlerInv => CallbackIsRegistered
  BY DEF HandlerInv, CallbackIsRegistered
<1>4. QED
  BY <1>1, <1>2, <1>3, PTL DEF Spec

-----------------------------------------------------------------------------
(* The two tables of timers *)

Steps == [do : {"erase", "spawn", "insert", "notify"}, timer : Timers]

Touches(step, do, t) == step.do = do /\ step.timer = t

\* The timer `t` runs once the steps are done, with these timers running now.
WillRun(running, steps, t) ==
    \/ t \in running /\ \A j \in DOMAIN steps : ~ Touches(steps[j], "erase", t)
    \/ \E i \in DOMAIN steps :
         /\ Touches(steps[i], "insert", t)
         /\ \A j \in DOMAIN steps : i < j => ~ Touches(steps[j], "erase", t)

LEMMA NothingLeft == \A running, t : WillRun(running, <<>>, t) <=> t \in running
BY DEF WillRun

\* Every element of a finite set is in its sequence.
LEMMA SetToSeqHoldsAll ==
    ASSUME NEW S, IsFiniteSet(S)
    PROVE  /\ SetToSeq(S) \in Seq(S)
           /\ \A x \in S : \E k \in 1 .. Len(SetToSeq(S)) : SetToSeq(S)[k] = x
<1> DEFINE n == Cardinality(S)
           list == SetToSeq(S)
<1>1. n \in Nat /\ ExistsBijection(1 .. n, S)
  BY FS_CardinalityType
<1>2. \E f \in [1 .. n -> S] : IsInjective(f)
  BY <1>1 DEF ExistsBijection, Bijection, Injection
<1>3. list \in [1 .. n -> S] /\ IsInjective(list)
  BY <1>2 DEF SetToSeq
<1> HIDE DEF list
<1>4. Len(list) = n /\ list \in Seq(S)
  BY <1>1, <1>3
<1>5. list \in Injection(1 .. n, S) /\ Cardinality(1 .. n) = n
  BY <1>1, <1>3, FS_Interval DEF Injection
<1> HIDE DEF n
<1>6. list \in Surjection(1 .. n, S)
  <2>1. Cardinality(1 .. n) = Cardinality(S)
    BY <1>5 DEF n
  <2> QED BY <1>5, <2>1, FS_Injection
<1> QED BY <1>4, <1>6 DEF Surjection, list

\* unregisterTimerHandler stops every active timer and starts none.
LEMMA UnregisterStopsAll ==
    ASSUME NEW S \in SUBSET Timers, IsFiniteSet(S), NEW steps,
           LET timers == SetToSeq(S)
           IN  steps = [i \in 1 .. 2 * Len(timers) |->
                          StopTimerImpl(timers[(i + 1) \div 2])[2 - (i % 2)]]
    PROVE  /\ steps \in Seq(Steps)
           /\ \A t \in S : \E j \in DOMAIN steps : Touches(steps[j], "erase", t)
           /\ \A j \in DOMAIN steps : steps[j].do # "insert"
<1> DEFINE timers == SetToSeq(S)
           n == Len(timers)
<1>1. /\ timers \in Seq(S) /\ n \in Nat
      /\ \A x \in S : \E k \in 1 .. n : timers[k] = x
      /\ steps = [i \in 1 .. 2 * n |-> StopTimerImpl(timers[(i + 1) \div 2])[2 - (i % 2)]]
  BY SetToSeqHoldsAll
<1>2. \A k \in 1 .. n : timers[k] \in S
  BY <1>1
<1> HIDE DEF timers, n
<1>3. ASSUME NEW i \in 1 .. 2 * n
      PROVE  /\ (i + 1) \div 2 \in 1 .. n
             /\ i % 2 \in {0, 1}
  BY <1>1
<1>4. ASSUME NEW i \in 1 .. 2 * n
      PROVE  steps[i] \in Steps /\ steps[i].do \in {"erase", "notify"}
  <2> DEFINE t == timers[(i + 1) \div 2]
  <2>1. t \in Timers
    BY <1>2, <1>3
  <2>2. steps[i] = StopTimerImpl(t)[2 - (i % 2)]
    BY <1>1
  <2> HIDE DEF t
  <2>3. 2 - (i % 2) \in {1, 2}
    BY <1>3
  <2> QED BY <2>1, <2>2, <2>3 DEF StopTimerImpl, Steps
<1>5. ASSUME NEW t \in S
      PROVE  \E j \in DOMAIN steps : Touches(steps[j], "erase", t)
  <2>1. PICK k \in 1 .. n : timers[k] = t
    BY <1>1
  <2> DEFINE j == 2 * k - 1
  <2>2. j \in 1 .. 2 * n /\ (j + 1) \div 2 = k /\ j % 2 = 1
    BY <1>1
  <2> HIDE DEF j
  <2>a. steps[j] = StopTimerImpl(timers[(j + 1) \div 2])[2 - (j % 2)] /\ j \in DOMAIN steps
    BY <1>1, <2>2
  <2>b. 2 - (j % 2) = 1
    BY <2>2
  <2>3. steps[j] = StopTimerImpl(t)[1] /\ j \in DOMAIN steps
    BY <2>1, <2>2, <2>a, <2>b
  <2>4. StopTimerImpl(t)[1] = [do |-> "erase", timer |-> t]
    BY DEF StopTimerImpl
  <2>5. Touches(steps[j], "erase", t)
    BY <2>3, <2>4 DEF Touches
  <2> QED BY <2>3, <2>5
<1>6. steps \in Seq(Steps) /\ DOMAIN steps = 1 .. 2 * n
  <2> DEFINE m == 2 * n
  <2>1. m \in Nat /\ DOMAIN steps = 1 .. m
    BY <1>1
  <2>2. \A i \in 1 .. m : steps[i] \in Steps
    BY <1>4
  <2>3. steps = [i \in 1 .. m |-> steps[i]]
    BY <1>1
  <2> HIDE DEF m
  <2>4. steps \in [1 .. m -> Steps]
    BY <2>2, <2>3
  <2>5. steps \in Seq(Steps)
    BY <2>1, <2>4
  <2> QED BY <2>1, <2>5 DEF m
<1> QED BY <1>4, <1>5, <1>6

\* A timer that is active is stopped before it is started again.
LEMMA StoppingAndStarting ==
    ASSUME NEW t \in Timers
    PROVE  LET steps == StopTimerImpl(t) \o StartTimerImpl(t)
           IN  /\ steps \in Seq(Steps) /\ DOMAIN steps = 1 .. 5
               /\ \A j \in 1 .. 5 : steps[j].timer = t
               /\ steps[1].do = "erase" /\ steps[4].do = "insert"
               /\ \A j \in 2 .. 5 : steps[j].do # "erase"
<1> DEFINE first == StopTimerImpl(t)
           last  == StartTimerImpl(t)
           steps == first \o last
<1>1. /\ first \in Seq(Steps) /\ Len(first) = 2
      /\ \A j \in 1 .. 2 : first[j].timer = t
      /\ first[1].do = "erase" /\ first[2].do = "notify"
  BY DEF StopTimerImpl, Steps
<1>2. /\ last \in Seq(Steps) /\ Len(last) = 3
      /\ \A j \in 1 .. 3 : last[j].timer = t
      /\ last[1].do = "spawn" /\ last[2].do = "insert" /\ last[3].do = "notify"
  BY DEF StartTimerImpl, Steps
<1> HIDE DEF first, last
<1>3. /\ steps \in Seq(Steps) /\ Len(steps) = Len(first) + Len(last)
      /\ \A j \in 1 .. Len(first) + Len(last) :
           steps[j] = IF j <= Len(first) THEN first[j] ELSE last[j - Len(first)]
  BY <1>1, <1>2, ConcatProperties, Zenon
<1> HIDE DEF steps
<1>4. /\ steps \in Seq(Steps) /\ Len(steps) = 5
      /\ \A j \in 1 .. 5 : steps[j] = IF j <= 2 THEN first[j] ELSE last[j - 2]
  BY <1>1, <1>2, <1>3
<1>5. /\ steps[1] = first[1] /\ steps[2] = first[2]
      /\ steps[3] = last[1] /\ steps[4] = last[2] /\ steps[5] = last[3]
  BY <1>4
<1>6. \A j \in 1 .. 5 : j = 1 \/ j = 2 \/ j = 3 \/ j = 4 \/ j = 5
  OBVIOUS
<1>7. \A j \in 1 .. 5 : steps[j].timer = t
  BY <1>1, <1>2, <1>5, <1>6
<1>8. /\ steps[1].do = "erase" /\ steps[4].do = "insert"
      /\ \A j \in 2 .. 5 : steps[j].do # "erase"
  BY <1>1, <1>2, <1>5, <1>6
<1> QED BY <1>4, <1>7, <1>8 DEF steps, first, last

\* What is left to do after the first step leads to the same timers.
LEMMA StepDone ==
    ASSUME NEW running, NEW steps \in Seq(Steps), steps # <<>>, NEW t
    PROVE  LET u   == Head(steps).timer
               now == CASE Head(steps).do = "erase"  -> running \ {u}
                        [] Head(steps).do = "insert" -> running \cup {u}
                        [] OTHER -> running
           IN  WillRun(now, Tail(steps), t) <=> WillRun(running, steps, t)
<1> DEFINE u    == Head(steps).timer
           rest == Tail(steps)
           now  == CASE Head(steps).do = "erase"  -> running \ {u}
                     [] Head(steps).do = "insert" -> running \cup {u}
                     [] OTHER -> running
<1>1. /\ 1 \in DOMAIN steps /\ Head(steps) = steps[1]
      /\ \A i \in DOMAIN rest : i + 1 \in DOMAIN steps /\ rest[i] = steps[i + 1]
      /\ \A i \in DOMAIN steps \ {1} : i - 1 \in DOMAIN rest /\ rest[i - 1] = steps[i]
      /\ DOMAIN steps \subseteq Nat \ {0} /\ DOMAIN rest \subseteq Nat \ {0}
  OBVIOUS
<1>2. (Head(steps).do = "erase" => now = running \ {u})
      /\ (Head(steps).do = "insert" => now = running \cup {u})
      /\ (Head(steps).do \notin {"erase", "insert"} => now = running)
  OBVIOUS
<1> HIDE DEF rest, now
<1>3. ASSUME WillRun(running, steps, t) PROVE WillRun(now, rest, t)
  <2>1. CASE t \in running /\ \A j \in DOMAIN steps : ~ Touches(steps[j], "erase", t)
    <3>1. t \in now
      BY <1>1, <1>2, <2>1 DEF Touches
    <3>2. \A j \in DOMAIN rest : ~ Touches(rest[j], "erase", t)
      BY <1>1, <2>1
    <3> QED BY <3>1, <3>2 DEF WillRun
  <2>2. ASSUME NEW i \in DOMAIN steps, Touches(steps[i], "insert", t),
               \A j \in DOMAIN steps : i < j => ~ Touches(steps[j], "erase", t)
        PROVE  WillRun(now, rest, t)
    <3>1. CASE i = 1
      <4>1. t \in now
        BY <1>1, <1>2, <2>2, <3>1 DEF Touches
      <4>2. \A j \in DOMAIN rest : ~ Touches(rest[j], "erase", t)
        <5> TAKE j \in DOMAIN rest
        <5>1. j + 1 \in DOMAIN steps /\ rest[j] = steps[j + 1] /\ 1 < j + 1
          BY <1>1
        <5> QED BY <2>2, <3>1, <5>1
      <4> QED BY <4>1, <4>2 DEF WillRun
    <3>2. CASE i # 1
      <4>1. i - 1 \in DOMAIN rest /\ Touches(rest[i - 1], "insert", t)
        BY <1>1, <2>2, <3>2
      <4>2. \A j \in DOMAIN rest : i - 1 < j => ~ Touches(rest[j], "erase", t)
        <5> SUFFICES ASSUME NEW j \in DOMAIN rest, i - 1 < j
                     PROVE  ~ Touches(rest[j], "erase", t)
          OBVIOUS
        <5>1. j + 1 \in DOMAIN steps /\ rest[j] = steps[j + 1] /\ i < j + 1
          BY <1>1
        <5> QED BY <2>2, <5>1
      <4> QED BY <4>1, <4>2 DEF WillRun
    <3> QED BY <3>1, <3>2
  <2> QED BY <1>3, <2>1, <2>2 DEF WillRun
<1>4. ASSUME WillRun(now, rest, t) PROVE WillRun(running, steps, t)
  <2>1. CASE t \in now /\ \A j \in DOMAIN rest : ~ Touches(rest[j], "erase", t)
    <3>1. \A j \in DOMAIN steps : 1 < j => ~ Touches(steps[j], "erase", t)
      <4> SUFFICES ASSUME NEW j \in DOMAIN steps, 1 < j
                   PROVE  ~ Touches(steps[j], "erase", t)
        OBVIOUS
      <4>1. j - 1 \in DOMAIN rest /\ rest[j - 1] = steps[j]
        BY <1>1
      <4> QED BY <2>1, <4>1
    <3>2. CASE Touches(steps[1], "insert", t)
      BY <1>1, <3>1, <3>2 DEF WillRun
    <3>3. CASE ~ Touches(steps[1], "insert", t)
      <4>1. t \in running /\ ~ Touches(steps[1], "erase", t)
        BY <1>1, <1>2, <2>1, <3>3 DEF Touches
      <4>2. \A j \in DOMAIN steps : j = 1 \/ 1 < j
        BY <1>1
      <4> QED BY <3>1, <4>1, <4>2 DEF WillRun
    <3> QED BY <3>2, <3>3
  <2>2. ASSUME NEW i \in DOMAIN rest, Touches(rest[i], "insert", t),
               \A j \in DOMAIN rest : i < j => ~ Touches(rest[j], "erase", t)
        PROVE  WillRun(running, steps, t)
    <3>1. i + 1 \in DOMAIN steps /\ Touches(steps[i + 1], "insert", t)
      BY <1>1, <2>2
    <3>2. \A j \in DOMAIN steps : i + 1 < j => ~ Touches(steps[j], "erase", t)
      <4> SUFFICES ASSUME NEW j \in DOMAIN steps, i + 1 < j
                   PROVE  ~ Touches(steps[j], "erase", t)
        OBVIOUS
      <4>1. j # 1 /\ j - 1 \in DOMAIN rest /\ rest[j - 1] = steps[j] /\ i < j - 1
        BY <1>1
      <4> QED BY <2>2, <4>1
    <3> QED BY <3>1, <3>2 DEF WillRun
  <2> QED BY <1>4, <2>1, <2>2 DEF WillRun
<1> QED BY <1>3, <1>4 DEF now, rest

\* While a thread holds mHandlersSync, what it still has to do makes the running
\* timers those that are active; at all other times they are the same.
TablesInv ==
    /\ call \in [Clients -> Requests \cup {NoCall}]
    /\ todo \in [Clients -> Seq(Steps)]
    /\ Active \subseteq Timers /\ IsFiniteSet(Active)
    /\ \A c \in Clients : todo[c] # <<>> => mHandlersSync = c
    /\ pc = "handler" => mHandlersSync = TimersThread
    /\ mHandlersSync \notin Clients => Active = Running
    /\ \A c \in Clients :
         mHandlersSync = c => \A t : t \in Active <=> WillRun(Running, todo[c], t)

\* The steps that neither table nor the lock of the handlers notices.
LEMMA TablesUntouched ==
    ASSUME TablesInv, UNCHANGED <<todo, mHandlersSync>>,
           call' \in [Clients -> Requests \cup {NoCall}],
           Active' = Active, Running' = Running, pc' = "handler" => pc = "handler"
    PROVE  TablesInv'
BY DEF TablesInv

LEMMA ErasedDomain == \A table, t : DOMAIN Erased(table, t) = DOMAIN table \ {t}
BY DEF Erased

LEMMA AssignedDomain ==
    \A table, t, value : DOMAIN Assigned(table, t, value) = DOMAIN table \cup {t}
BY DEF Assigned

\* What a call has to do is decided under the lock, with the tables in agreement.
LEMMA EnteringCall ==
    ASSUME TablesInv, NEW c \in Clients, EnterCall(c)
    PROVE  TablesInv'
<1> DEFINE t == call[c].timer
<1>1. /\ Active = Running /\ mHandlersSync' = c /\ \A d \in Clients : todo[d] = <<>>
      /\ call[c] \in Requests
  BY TimersAssumption DEF TablesInv, EnterCall
<1>2. /\ Running' = Running /\ pc' = pc /\ pc # "handler" /\ call' = call
  BY TimersAssumption DEF EnterCall, TablesInv, thread, Running
<1>3. call[c].op # "unregister" => t \in Timers
  BY <1>1 DEF Requests
<1> DEFINE Decided(steps) ==
               \A u : u \in Active' <=> WillRun(Running', steps, u)
<1>4. ASSUME NEW steps \in Seq(Steps), todo' = [todo EXCEPT ![c] = steps],
             Active' \subseteq Timers, IsFiniteSet(Active'),
             \A u : u \in Active' <=> WillRun(Running', steps, u)
      PROVE  TablesInv'
  <2>1. /\ todo' \in [Clients -> Seq(Steps)] /\ todo'[c] = steps
        /\ \A d \in Clients \ {c} : todo'[d] = <<>>
    BY <1>1, <1>4 DEF TablesInv
  <2> QED BY <1>1, <1>2, <1>4, <2>1 DEF TablesInv
<1>5. ASSUME UNCHANGED todo, Active' = Active PROVE TablesInv'
  <2>1. todo'[c] = <<>> /\ \A u : WillRun(Running', <<>>, u) <=> u \in Running'
    BY <1>1, <1>5, NothingLeft
  <2> QED BY <1>1, <1>2, <1>5, <2>1 DEF TablesInv
<1> HIDE DEF t
<1>6. CASE call[c].op = "start" /\ StartTimer(c, t, call[c].kind)
  <2>1. CASE ~ mTimerHandlers
    BY <1>5, <1>6, <2>1 DEF StartTimer, Active
  <2>2. CASE mTimerHandlers
    <3>1. Active' = Active \cup {t}
      BY <1>6, <2>2, AssignedDomain DEF StartTimer, Active
    <3>2. t \in Timers
      BY <1>3, <1>6
    <3>3. Active' \subseteq Timers /\ IsFiniteSet(Active')
      BY <3>1, <3>2, FS_AddElement DEF TablesInv
    <3>4. CASE t \in Active
      <4> DEFINE steps == StopTimerImpl(t) \o StartTimerImpl(t)
      <4>1. todo' = [todo EXCEPT ![c] = steps]
        BY <1>6, <2>2, <3>4 DEF StartTimer
      <4>2. /\ steps \in Seq(Steps) /\ DOMAIN steps = 1 .. 5
            /\ \A j \in 1 .. 5 : steps[j].timer = t
            /\ steps[1].do = "erase" /\ steps[4].do = "insert"
            /\ \A j \in 2 .. 5 : steps[j].do # "erase"
        BY <3>2, StoppingAndStarting
      <4> HIDE DEF steps
      <4>3. \A u : u \in Active' <=> WillRun(Running', steps, u)
        BY <1>1, <1>2, <3>1, <4>2 DEF WillRun, Touches
      <4> QED BY <1>4, <3>3, <4>1, <4>2, <4>3
    <3>5. CASE t \notin Active
      <4> DEFINE steps == StartTimerImpl(t)
      <4>1. todo' = [todo EXCEPT ![c] = steps]
        BY <1>6, <2>2, <3>5 DEF StartTimer
      <4>2. /\ steps \in Seq(Steps) /\ DOMAIN steps = 1 .. 3
            /\ \A j \in 1 .. 3 : steps[j].timer = t /\ steps[j].do # "erase"
            /\ steps[2].do = "insert"
        BY <3>2 DEF StartTimerImpl, Steps
      <4> HIDE DEF steps
      <4>3. \A u : u \in Active' <=> WillRun(Running', steps, u)
        BY <1>1, <1>2, <3>1, <4>2 DEF WillRun, Touches
      <4> QED BY <1>4, <3>3, <4>1, <4>2, <4>3
    <3> QED BY <3>4, <3>5
  <2> QED BY <2>1, <2>2
<1>7. CASE call[c].op = "restart" /\ RestartTimer(c, t)
  <2>1. Active' = Active
    BY <1>7 DEF RestartTimer, Active
  <2>2. CASE t \notin Active
    BY <1>5, <1>7, <2>1, <2>2 DEF RestartTimer
  <2>3. CASE t \in Active
    <3> DEFINE steps == StopTimerImpl(t) \o StartTimerImpl(t)
    <3>1. todo' = [todo EXCEPT ![c] = steps]
      BY <1>7, <2>3 DEF RestartTimer
    <3>2. /\ steps \in Seq(Steps) /\ DOMAIN steps = 1 .. 5
          /\ \A j \in 1 .. 5 : steps[j].timer = t
          /\ steps[1].do = "erase" /\ steps[4].do = "insert"
          /\ \A j \in 2 .. 5 : steps[j].do # "erase"
      BY <1>3, <1>7, StoppingAndStarting
    <3> HIDE DEF steps
    <3>3. \A u : u \in Active' <=> WillRun(Running', steps, u)
      BY <1>1, <1>2, <2>1, <2>3, <3>2 DEF WillRun, Touches
    <3> QED BY <1>4, <2>1, <3>1, <3>2, <3>3 DEF TablesInv
  <2> QED BY <2>2, <2>3
<1>8. CASE call[c].op = "stop" /\ StopTimer(c, t)
  <2>1. Active' = Active \ {t}
    BY <1>8, ErasedDomain DEF StopTimer, Active
  <2>2. CASE t \notin Active
    BY <1>5, <1>8, <2>1, <2>2 DEF StopTimer
  <2>3. CASE t \in Active
    <3> DEFINE steps == StopTimerImpl(t)
    <3>1. todo' = [todo EXCEPT ![c] = steps]
      BY <1>8, <2>3 DEF StopTimer
    <3>2. /\ steps \in Seq(Steps) /\ DOMAIN steps = 1 .. 2
          /\ \A j \in 1 .. 2 : steps[j].timer = t /\ steps[j].do # "insert"
          /\ steps[1].do = "erase"
      BY <1>3, <1>8 DEF StopTimerImpl, Steps
    <3> HIDE DEF steps
    <3>3. \A u : u \in Active' <=> WillRun(Running', steps, u)
      BY <1>1, <1>2, <2>1, <3>2 DEF WillRun, Touches
    <3>4. Active' \subseteq Timers /\ IsFiniteSet(Active')
      BY <2>1, FS_Subset DEF TablesInv
    <3> QED BY <1>4, <3>1, <3>2, <3>3, <3>4
  <2> QED BY <2>2, <2>3
<1>9. CASE UnregisterTimerHandler(c)
  <2> DEFINE timers == SetToSeq(Active)
             steps  == [i \in 1 .. 2 * Len(timers) |->
                          StopTimerImpl(timers[(i + 1) \div 2])[2 - (i % 2)]]
  <2>1. Active' = {} /\ todo' = [todo EXCEPT ![c] = steps]
    BY <1>9 DEF UnregisterTimerHandler, Active
  <2>2. /\ steps \in Seq(Steps)
        /\ \A u \in Active : \E j \in DOMAIN steps : Touches(steps[j], "erase", u)
        /\ \A j \in DOMAIN steps : steps[j].do # "insert"
    BY UnregisterStopsAll DEF TablesInv
  <2> HIDE DEF steps, timers
  <2>3. \A u : u \in Active' <=> WillRun(Running', steps, u)
    BY <1>1, <1>2, <2>1, <2>2 DEF WillRun, Touches
  <2>4. IsFiniteSet(Active')
    BY <2>1, FS_EmptySet
  <2> QED BY <1>4, <2>1, <2>2, <2>3, <2>4
<1> QED BY <1>6, <1>7, <1>8, <1>9 DEF EnterCall, t

\* One step under the lock: the table of running timers follows its plan.
LEMMA CarryingOut ==
    ASSUME TablesInv, NEW c \in Clients,
           EraseRunning(c) \/ SpawnThread(c) \/ InsertRunning(c) \/ Notify(c)
    PROVE  TablesInv'
<1> DEFINE steps == todo[c]
           u     == Head(steps).timer
<1>1. /\ steps \in Seq(Steps) /\ steps # <<>> /\ mHandlersSync = c
      /\ todo' = [todo EXCEPT ![c] = Tail(steps)]
      /\ Active' = Active /\ UNCHANGED <<call, mHandlersSync>>
  BY DEF TablesInv, EraseRunning, SpawnThread, InsertRunning, Notify, Proceed, Active, locks
<1>2. Running' = CASE Head(steps).do = "erase"  -> Running \ {u}
                   [] Head(steps).do = "insert" -> Running \cup {u}
                   [] OTHER -> Running
  <2>1. CASE EraseRunning(c)
    BY <2>1, ErasedDomain DEF EraseRunning, Proceed, Running
  <2>2. CASE InsertRunning(c)
    BY <2>2, AssignedDomain DEF InsertRunning, Proceed, Running
  <2>3. CASE SpawnThread(c) \/ Notify(c)
    BY <2>3 DEF SpawnThread, Notify, Proceed, Running
  <2> QED BY <2>1, <2>2, <2>3
<1> HIDE DEF steps
<1>3. \A t : WillRun(Running', Tail(steps), t) <=> WillRun(Running, steps, t)
  BY <1>1, <1>2, StepDone
<1>4. /\ todo' \in [Clients -> Seq(Steps)] /\ todo'[c] = Tail(steps)
      /\ \A d \in Clients : todo'[d] # <<>> => d = c
  BY <1>1 DEF TablesInv, steps
<1>5. pc' = "handler" => pc = "handler"
  BY DEF EraseRunning, SpawnThread, InsertRunning, Notify, NotifyTimersThread
<1> QED BY <1>1, <1>3, <1>4, <1>5 DEF TablesInv, steps

LEMMA TablesInvStep ==
    ASSUME TablesInv, [Next]_vars
    PROVE  TablesInv'
<1>1. ASSUME NEW c \in Clients, CallAPI(c) PROVE TablesInv'
  <2>1. call' \in [Clients -> Requests \cup {NoCall}]
    BY <1>1 DEF CallAPI, TablesInv
  <2> QED BY <1>1, <2>1, TablesUntouched DEF CallAPI, tables, locks, thread, Active, Running
<1>2. ASSUME NEW c \in Clients, InCall(c), ~ LeaveCall(c) PROVE TablesInv'
  BY <1>2, EnteringCall, CarryingOut DEF InCall
<1>3. ASSUME NEW c \in Clients, LeaveCall(c) PROVE TablesInv'
  <2>1. /\ mHandlersSync = c /\ todo[c] = <<>> /\ mHandlersSync' = NoThread
        /\ call' \in [Clients -> Requests \cup {NoCall}]
        /\ Active' = Active /\ Running' = Running /\ UNCHANGED <<todo, pc>>
    BY <1>3 DEF LeaveCall, TablesInv, tables, thread, Active, Running
  <2>2. Active = Running
    BY <2>1, NothingLeft DEF TablesInv
  <2> QED BY <2>1, <2>2, TimersAssumption DEF TablesInv
<1>4. CASE \/ BeginStop \/ UnregisterAllEventHandlers \/ EndStop
           \/ ChooseTimer \/ NoTimerToChoose \/ Exit \/ LookAtFlag \/ FallAsleep
           \/ TimeOut \/ TakeElapsed \/ SpuriousWakeup \/ UNCHANGED vars
  <2>1. /\ UNCHANGED <<todo, mHandlersSync, call, mActiveTimers, mRunningTimers>>
        /\ pc' = "handler" => pc = "handler"
    BY <1>4 DEF BeginStop, UnregisterAllEventHandlers, EndStop, NotifyTimersThread,
       ChooseTimer, NoTimerToChoose, Exit, LookAtFlag, FallAsleep, TimeOut, TakeElapsed,
       SpuriousWakeup, Moves, vars, tables, locks, thread, clientVars
  <2> QED BY <2>1, TablesUntouched DEF TablesInv, Active, Running
<1>5. CASE Tick
  <2>1. Running' = Running
    BY <1>5 DEF Tick, Running
  <2> QED BY <1>5, <2>1, TablesUntouched DEF TablesInv, Tick, locks, clientVars, Active
<1>6. CASE HandleTimerEvent
  <2>1. /\ Active = Running /\ Active' = Active /\ UNCHANGED <<call, todo>>
        /\ mHandlersSync = NoThread
        /\ \/ mHandlersSync' = TimersThread /\ Running' = Running
           \/ mHandlersSync' = NoThread /\ Running' = Running \ {waitingTimerId}
              /\ waitingTimerId \notin Active /\ pc' = "loop"
    BY <1>6, TimersAssumption, ErasedDomain
       DEF TablesInv, HandleTimerEvent, clientVars, Active, Running
  <2>2. Running' = Running
    BY <2>1
  <2> QED BY <2>1, <2>2, TimersAssumption DEF TablesInv
<1>7. CASE HandlerReturns
  <2>1. /\ Active = Running /\ mHandlersSync' = NoThread /\ pc' = "loop"
        /\ UNCHANGED <<call, todo>> /\ \A c \in Clients : todo[c] = <<>>
    BY <1>7, TimersAssumption DEF TablesInv, HandlerReturns, clientVars
  <2>2. CASE mActiveTimers[waitingTimerId] = "single"
    <3>1. Active' = Active \ {waitingTimerId} /\ Running' = Running \ {waitingTimerId}
      BY <1>7, <2>2, ErasedDomain DEF HandlerReturns, Active, Running
    <3>2. IsFiniteSet(Active') /\ Active' \subseteq Timers
      BY <3>1, FS_Subset DEF TablesInv
    <3> QED BY <2>1, <3>1, <3>2, TimersAssumption DEF TablesInv
  <2>3. CASE mActiveTimers[waitingTimerId] # "single"
    <3>1. Active' = Active /\ Running' = Running
      BY <1>7, <2>3 DEF HandlerReturns, Active, Running
    <3> QED BY <2>1, <3>1, TimersAssumption DEF TablesInv
  <2> QED BY <2>2, <2>3
<1> QED BY <1>1, <1>2, <1>3, <1>4, <1>5, <1>6, <1>7 DEF Next, TimersThreadStep

\* The two tables of timers agree whenever no call is under way between them: the
\* timers the base holds for active are those its timers thread will fire, through
\* expiry, restarts, a handler that is unregistered with its timers, and stop(),
\* for any number of timers and of threads that use them at once.
THEOREM TablesAgree == Spec => []ActiveMatchesRunning
<1>1. Init => TablesInv
  <2> SUFFICES ASSUME Init PROVE TablesInv
    OBVIOUS
  <2>1. Active = {} /\ Running = {} /\ \A c \in Clients : todo[c] = <<>>
    BY DEF Init, Active, Running
  <2>2. todo \in [Clients -> Seq(Steps)] /\ call \in [Clients -> Requests \cup {NoCall}]
    BY DEF Init
  <2>3. mHandlersSync \notin Clients /\ pc = "none"
    BY TimersAssumption DEF Init
  <2> QED BY <2>1, <2>2, <2>3, FS_EmptySet DEF TablesInv
<1>2. TablesInv /\ [Next]_vars => TablesInv'
  BY TablesInvStep
<1>3. TablesInv => ActiveMatchesRunning
  BY TimersAssumption DEF TablesInv, ActiveMatchesRunning
<1> QED BY <1>1, <1>2, <1>3, PTL DEF Spec
=============================================================================
