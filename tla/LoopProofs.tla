------------------------------ MODULE LoopProofs ------------------------------
(***************************************************************************)
(* No channel loses a wake-up, and the loops keep the promise of           *)
(* emitEvent(): for any state machines, any callers and any calls.         *)
(***************************************************************************)
EXTENDS LoopDispatcher, ListEraseProofs

Names == Handlers \cup {NoHandler}

\* What the steps of the calls need to know of the variables they work on.
CallsInv ==
    /\ wakeups \in Nat
    /\ mEnqueuedEvents \in Seq(Names)
    /\ stack \in [Callers -> Seq(Operations)]

\* Before the first start() nothing can be in the queues, so that no notification is
\* missing in the channel that start() makes.  After a later one nothing is served.
StartInv ==
    /\ started = "never" =>
          /\ channel = "none" /\ wakeups = 0 /\ pc = "idle"
          /\ mPendingEvents = <<>> /\ mEnqueuedEvents = <<>> /\ mPendingActions = 0
          /\ \A c \in Callers : stack[c] = <<>>
    /\ started = "stopped" => mStopDispatcher

\* The loop looks for each kind of work once in a round.  What is there after that look
\* came later, with a notification of its own.
Watched == channel = "open" /\ ~ mStopDispatcher /\ platform # "Arduino"
LateRound == {"copy", "handle", "running", "idle"}

WakeInv ==
    Watched =>
        \/ wakeups > 0
        \/ Notifying
        \/ /\ pc \in {"perform", "take", "enqueued"} \cup LateRound => ~ mPendingActions > 0
           /\ pc \in {"enqueued"} \cup LateRound => mPendingEvents = <<>>
           /\ pc \in LateRound => mEnqueuedEvents = <<>>

LoopInv == CallsInv /\ StartInv /\ WakeInv

-----------------------------------------------------------------------------
\* Stacks of operations

LEMMA OperationTyped ==
    ASSUME NEW op \in {"emit", "deliver", "again", "append", "enqueue", "act", "notify"},
           NEW h \in Names
    PROVE  Op(op, h) \in Operations /\ <<Op(op, h)>> \in Seq(Operations)
BY DEF Op, Operations, Names

LEMMA EmissionTyped ==
    ASSUME NEW h \in Names
    PROVE  Emission(h) \in Seq(Operations)
BY OperationTyped DEF Emission

LEMMA BatchTyped ==
    ASSUME mEnqueuedEvents \in Seq(Names)
    PROVE  Batch \in Seq(Operations)
<1>1. \A i \in DOMAIN mEnqueuedEvents :
         /\ Op("again", mEnqueuedEvents[i]) \in Operations
         /\ Op("deliver", mEnqueuedEvents[i]) \in Operations
  BY OperationTyped
<1>2. DOMAIN mEnqueuedEvents = 1 .. Len(mEnqueuedEvents) /\ Len(mEnqueuedEvents) \in Nat
  OBVIOUS
<1> QED
  BY <1>1, <1>2, EmptySeq DEF Batch

\* A caller that goes on with its call forgets the notification it owes only by sending
\* it, and owes the one that it puts on its stack.
LEMMA ProceedKeeps ==
    ASSUME stack \in [Callers -> Seq(Operations)],
           NEW c \in Callers, stack[c] # <<>>,
           NEW ops \in Seq(Operations), Proceed(c, ops)
    PROVE  /\ stack' \in [Callers -> Seq(Operations)]
           /\ Notifying /\ Top(c).op # "notify" => Notifying'
           /\ (\E i \in DOMAIN ops : ops[i].op = "notify") => Notifying'
<1> DEFINE s == stack[c]  f == Front(s)  t == f \o ops
<1>1. s \in Seq(Operations) /\ s # <<>>
  OBVIOUS
<1>2. /\ f \in Seq(Operations) /\ Len(f) = Len(s) - 1
      /\ \A i \in 1 .. Len(s) - 1 : f[i] = s[i]
  BY <1>1, FrontAndLast
<1> HIDE DEF f
<1>3. /\ t \in Seq(Operations) /\ Len(t) = Len(f) + Len(ops)
      /\ \A i \in 1 .. Len(f) + Len(ops) : t[i] = IF i <= Len(f) THEN f[i] ELSE ops[i - Len(f)]
  BY <1>2, ConcatProperties
<1>4. stack' = [stack EXCEPT ![c] = t]
  BY DEF Proceed, f
<1> HIDE DEF t
<1>5. stack' \in [Callers -> Seq(Operations)] /\ stack'[c] = t
      /\ \A d \in Callers \ {c} : stack'[d] = stack[d]
  BY <1>3, <1>4
<1>6. ASSUME Notifying, Top(c).op # "notify"
      PROVE  Notifying'
  <2>1. PICK d \in Callers : \E i \in DOMAIN stack[d] : stack[d][i].op = "notify"
    BY <1>6 DEF Notifying
  <2>2. CASE d # c
    BY <1>5, <2>1, <2>2 DEF Notifying
  <2>3. CASE d = c
    <3>1. PICK i \in 1 .. Len(s) : i # Len(s) /\ s[i].op = "notify" /\ Len(s) \in Nat
      BY <1>1, <1>6, <2>1, <2>3 DEF Top, Last
    <3>2. i \in 1 .. Len(t) /\ t[i] = s[i]
      <4> HIDE DEF s
      <4>1. i \in 1 .. Len(s) - 1 /\ Len(ops) \in Nat
        BY <3>1
      <4>2. f[i] = s[i] /\ i <= Len(f) /\ i \in 1 .. Len(f) + Len(ops)
        BY <1>2, <3>1, <4>1
      <4>3. t[i] = f[i]
        BY <1>3, <4>2
      <4> QED
        BY <1>3, <4>2, <4>3
    <3>3. t[i].op = "notify" /\ i \in DOMAIN t
      BY <1>3, <3>1, <3>2
    <3> QED
      BY <1>5, <3>3 DEF Notifying
  <2> QED
    BY <2>2, <2>3
<1>7. ASSUME NEW i \in DOMAIN ops, ops[i].op = "notify"
      PROVE  Notifying'
  <2>1. Len(f) \in Nat /\ Len(ops) \in Nat /\ i \in 1 .. Len(ops)
    BY <1>2
  <2>2. Len(f) + i \in 1 .. Len(t) /\ t[Len(f) + i] = ops[i]
    BY <1>3, <2>1
  <2> QED
    BY <1>3, <1>5, <1>7, <2>2 DEF Notifying
<1> QED
  BY <1>5, <1>6, <1>7

\* A caller that begins a call owed nothing before.
LEMMA BeginKeeps ==
    ASSUME stack \in [Callers -> Seq(Operations)],
           NEW c \in Callers, stack[c] = <<>>,
           NEW ops \in Seq(Operations), stack' = [stack EXCEPT ![c] = ops]
    PROVE  /\ stack' \in [Callers -> Seq(Operations)]
           /\ Notifying => Notifying'
<1>1. stack' \in [Callers -> Seq(Operations)]
  OBVIOUS
<1>2. ASSUME Notifying PROVE Notifying'
  <2>1. PICK d \in Callers : \E i \in DOMAIN stack[d] : stack[d][i].op = "notify"
    BY <1>2 DEF Notifying
  <2>2. d # c
    BY <2>1
  <2> QED
    BY <2>1, <2>2 DEF Notifying
<1> QED
  BY <1>1, <1>2

-----------------------------------------------------------------------------
LEMMA CallsInit == Init => LoopInv
BY LoopAssumption, EmptySeq
   DEF Init, LoopInv, CallsInv, StartInv, WakeInv, Operations, Watched

\* What the steps of the owner and of release() do, and calls as they begin.
LEMMA BeginStep ==
    ASSUME LoopInv, NEW c \in Callers,
           \/ Stop(c) \/ EnqueueAction(c)
           \/ \E h \in Handlers : EmitEvent(c, h) \/ EnqueueEvent(c, h) \/ Release(c, h)
    PROVE  LoopInv'
<1> USE DEF LoopInv, queues, control, locals
<1>0. Free(c) /\ Handlers \subseteq Names /\ NoHandler \in Names
  BY DEF Stop, EnqueueAction, EmitEvent, EnqueueEvent, Release, Names
<1>1. CASE Stop(c)
  <2>1. UNCHANGED <<mEnqueuedEvents, stack>> /\ mStopDispatcher' /\ started' = "stopped"
    BY <1>1 DEF Stop
  <2>2. wakeups' \in Nat
    BY <1>1 DEF Stop, StopGLib, StopGLibmm, StopQt, StopFreeRTOS, StopArduino, CallsInv
  <2> QED
    BY <2>1, <2>2 DEF CallsInv, StartInv, WakeInv, Watched
<1>2. ASSUME NEW h \in Handlers, Release(c, h)
      PROVE  LoopInv'
  BY <1>2 DEF Release, Free, CallsInv, StartInv, WakeInv, Watched, Notifying
<1>3. ASSUME NEW ops \in Seq(Operations), stack' = [stack EXCEPT ![c] = ops],
             UNCHANGED <<platform, control, queues, pc, locals>>
      PROVE  LoopInv'
  <2>1. stack' \in [Callers -> Seq(Operations)] /\ (Notifying => Notifying')
    BY <1>0, <1>3, BeginKeeps DEF Free, CallsInv
  <2> QED
    BY <1>0, <1>3, <2>1 DEF Free, CallsInv, StartInv, WakeInv, Watched
<1>4. ASSUME NEW h \in Handlers, EmitEvent(c, h)
      PROVE  LoopInv'
  BY <1>0, <1>3, <1>4, EmissionTyped DEF EmitEvent
<1>5. ASSUME NEW h \in Handlers, EnqueueEvent(c, h)
      PROVE  LoopInv'
  BY <1>0, <1>3, <1>5, OperationTyped DEF EnqueueEvent
<1>6. CASE EnqueueAction(c)
  BY <1>0, <1>3, <1>6, OperationTyped DEF EnqueueAction
<1> QED
  BY <1>1, <1>2, <1>4, <1>5, <1>6

\* start() finds empty queues, or a dispatcher that stays stopped.
LEMMA StartStep == LoopInv /\ Start => LoopInv'
<1> SUFFICES ASSUME LoopInv, Start PROVE LoopInv'
  OBVIOUS
<1> USE DEF LoopInv, queues, locals
<1>1. CallsInv' /\ StartInv'
  BY DEF Start, OpenPipe, ConnectDispatcher, RegisterEventType, StartSketch, StartTask,
         CallsInv, StartInv
<1>2. CASE platform \in {"Arduino", "FreeRTOS"}
  <2>1. ~ Watched' \/ pc' = "actions"
    BY <1>2 DEF Start, OpenPipe, ConnectDispatcher, RegisterEventType, StartSketch,
                StartTask, Watched
  <2> QED
    BY <1>1, <2>1 DEF WakeInv, LateRound
<1>3. CASE platform \notin {"Arduino", "FreeRTOS"}
  <2>1. UNCHANGED <<platform, pc, mStopDispatcher, queues>>
    BY <1>3 DEF Start, OpenPipe, ConnectDispatcher, RegisterEventType, StartSketch, StartTask
  <2> QED
    BY <1>1, <2>1 DEF Start, StartInv, WakeInv, Watched
<1> QED
  BY <1>1, <1>2, <1>3

LEMMA ClosePipeStep == LoopInv /\ ClosePipe => LoopInv'
BY DEF ClosePipe, locals, queues, LoopInv, CallsInv, StartInv, WakeInv, Watched, Notifying

LEMMA ReleaseStep ==
    ASSUME LoopInv, NEW h \in Handlers, RemovePending(h) \/ UnregisterHandlers(h)
    PROVE  LoopInv'
<1> USE DEF LoopInv, queues, control, locals
<1>1. CASE UnregisterHandlers(h)
  BY <1>1 DEF UnregisterHandlers, CallsInv, StartInv, WakeInv, Watched, Notifying
<1>2. CASE RemovePending(h)
  <2>1. mPendingEvents = <<>> => mPendingEvents' = <<>>
    BY <1>2, NothingToErase DEF RemovePending
  <2> QED
    BY <1>2, <2>1 DEF RemovePending, CallsInv, StartInv, WakeInv, Watched, Notifying
<1> QED
  BY <1>1, <1>2

\* A caller that has appended owes the notification; once it is sent, the channel has it.
LEMMA CallStepKeeps ==
    ASSUME LoopInv, NEW c \in Callers, CallStep(c)
    PROVE  LoopInv'
<1> USE DEF LoopInv, control, locals
<1>0. /\ stack[c] # <<>> /\ started # "never" /\ Top(c) \in Operations
      /\ Top(c).handler \in Names
  <2>1. stack[c] # <<>>
    BY DEF CallStep, DeliverFirst, DeliverEnqueued, AppendEmission, AppendEnqueued,
           AppendAction, NotifyDispatcherAboutEvent, Calling
  <2>2. stack[c] \in Seq(Operations)
    BY DEF CallsInv
  <2>3. Top(c) \in Operations
    BY <2>1, <2>2, FrontAndLast DEF Top
  <2>4. Top(c).handler \in Names
    BY <2>3 DEF Operations, Names
  <2>5. started # "never"
    BY <2>1 DEF StartInv
  <2> QED
    BY <2>1, <2>3, <2>4, <2>5
<1>1. ASSUME NEW ops \in Seq(Operations), Proceed(c, ops),
             UNCHANGED <<platform, control, locals>>, pc' \in {pc, "terminated"},
             mEnqueuedEvents' \in Seq(Names),
             \/ UNCHANGED queues /\ Top(c).op # "notify"
             \/ Top(c).op # "notify" /\ mEnqueuedEvents' = <<>>
                                    /\ UNCHANGED <<mPendingEvents, mPendingActions>>
             \/ \E i \in DOMAIN ops : ops[i].op = "notify"
      PROVE  LoopInv'
  <2>1. /\ stack' \in [Callers -> Seq(Operations)]
        /\ Notifying /\ Top(c).op # "notify" => Notifying'
        /\ (\E i \in DOMAIN ops : ops[i].op = "notify") => Notifying'
    BY <1>0, <1>1, ProceedKeeps DEF CallsInv
  <2>2. CallsInv' /\ StartInv'
    BY <1>0, <1>1, <2>1 DEF CallsInv, StartInv
  <2> QED
    BY <1>0, <1>1, <2>1, <2>2 DEF WakeInv, Watched, LateRound, queues
<1>2. CASE DeliverFirst(c)
  <2> DEFINE ops == <<Op("append", Top(c).handler)>> \o Batch
  <2>1. ops \in Seq(Operations)
    BY <1>0, OperationTyped, BatchTyped, ConcatProperties DEF CallsInv
  <2>2. /\ Proceed(c, ops) /\ Top(c).op # "notify"
        /\ UNCHANGED <<platform, control, mPendingEvents, mPendingActions, pc, locals>>
        /\ mEnqueuedEvents' \in {mEnqueuedEvents, <<>>}
    BY <1>2 DEF DeliverFirst, TakeEnqueuedEvents, Calling
  <2>3. mEnqueuedEvents' \in Seq(Names)
    BY <2>2, EmptySeq DEF CallsInv
  <2> HIDE DEF ops
  <2> QED
    BY <1>1, <2>1, <2>2, <2>3 DEF queues
<1>3. CASE DeliverEnqueued(c)
  <2>1. PICK ops \in Seq(Operations) : Proceed(c, ops)
    BY <1>0, <1>3, EmissionTyped, EmptySeq DEF DeliverEnqueued
  <2>2. /\ Top(c).op # "notify" /\ pc' \in {pc, "terminated"}
        /\ UNCHANGED <<platform, control, queues, locals>>
    BY <1>3 DEF DeliverEnqueued, Calling
  <2> QED
    BY <1>1, <2>1, <2>2 DEF queues, CallsInv
<1>4. CASE AppendEmission(c) \/ AppendEnqueued(c) \/ AppendAction(c)
  <2> DEFINE ops == <<Op("notify", NoHandler)>>
  <2>1. ops \in Seq(Operations) /\ \E i \in DOMAIN ops : ops[i].op = "notify"
    BY OperationTyped DEF Names, Op
  <2>2. Proceed(c, ops) /\ UNCHANGED <<platform, control, pc, locals>>
    BY <1>4 DEF AppendEmission, AppendEnqueued, AppendAction
  <2>3. mEnqueuedEvents' \in Seq(Names)
    <3>1. mEnqueuedEvents \in Seq(Names) /\ Append(mEnqueuedEvents, Top(c).handler) \in Seq(Names)
      BY <1>0 DEF CallsInv
    <3> QED
      BY <1>4, <3>1 DEF AppendEmission, AppendEnqueued, AppendAction
  <2> QED
    BY <1>1, <2>1, <2>2, <2>3
<1>5. CASE NotifyDispatcherAboutEvent(c)
  <2>1. stack' \in [Callers -> Seq(Operations)]
    <3>1. <<>> \in Seq(Operations) /\ Proceed(c, <<>>)
      BY <1>5 DEF NotifyDispatcherAboutEvent
    <3> QED
      BY <1>0, <3>1, ProceedKeeps DEF CallsInv
  <2>2. wakeups' \in Nat /\ (Watched' => wakeups' > 0)
    BY <1>5 DEF NotifyDispatcherAboutEvent, WriteToPipe, EmitOnDispatcher, PostToLoop,
                NotifyTask, NotifyNobody, CallsInv, Watched
  <2> QED
    BY <1>0, <1>5, <2>1, <2>2
       DEF NotifyDispatcherAboutEvent, queues, CallsInv, StartInv, WakeInv
<1> QED
  BY <1>2, <1>3, <1>4, <1>5 DEF CallStep

-----------------------------------------------------------------------------
\* The loop: a round begins with a notification and looks for all kinds of work.
LEMMA LoopStepKeeps == LoopInv /\ LoopStep => LoopInv'
<1> SUFFICES ASSUME LoopInv, LoopStep PROVE LoopInv'
  OBVIOUS
<1> USE DEF LoopInv, control, locals, queues, LoopAt
<1>0. started # "never"
  BY DEF StartInv, LoopStep, OnPipeDataAvailable, CustomEvent, DispatchEvents, DoDispatching,
         DispatchPendingActions, ActionReturns, TakePendingEvents, DispatchEnqueuedEvents,
         CopyHandlers, CallHandler, HandlerReturns, EventsDone, CallsInv
<1>1. CASE OnPipeDataAvailable \/ CustomEvent \/ DispatchEvents \/ DoDispatching
  <2>1. wakeups' \in Nat /\ (Watched' => pc' = "actions")
        /\ UNCHANGED <<started, mStopDispatcher, mEnqueuedEvents, stack>>
    BY <1>1 DEF OnPipeDataAvailable, CustomEvent, DispatchEvents, DoDispatching, CallsInv,
                Watched
  <2> QED
    BY <1>0, <2>1 DEF CallsInv, StartInv, WakeInv, LateRound
<1>2. CASE DispatchPendingActions \/ ActionReturns \/ TakePendingEvents
  <2>1. UNCHANGED <<platform, control, mEnqueuedEvents, stack>>
    BY <1>2 DEF DispatchPendingActions, ActionReturns, TakePendingEvents
  <2>2. /\ pc' \in {"perform", "take", "enqueued"}
        /\ pc' = "perform" => mPendingActions' = 0 \/ UNCHANGED <<pc, queues>>
        /\ pc' = "take" => UNCHANGED queues /\ pc = "perform"
        /\ pc' = "enqueued" => mPendingEvents' = <<>> /\ UNCHANGED mPendingActions /\ pc = "take"
    BY <1>2 DEF DispatchPendingActions, ActionReturns, TakePendingEvents
  <2>3. UNCHANGED <<Watched, Notifying>>
    BY <2>1 DEF Watched, Notifying
  <2> QED
    BY <1>0, <2>1, <2>2, <2>3 DEF CallsInv, StartInv, WakeInv, LateRound
<1>3. CASE DispatchEnqueuedEvents
  <2>1. Batch \in Seq(Operations) /\ Loop \in Callers
    BY BatchTyped DEF CallsInv, Callers
  <2>2. stack' \in [Callers -> Seq(Operations)] /\ (Notifying => Notifying')
    BY <1>3, <2>1, BeginKeeps DEF DispatchEnqueuedEvents, CallsInv
  <2>3. /\ UNCHANGED <<platform, control, mPendingEvents, mPendingActions>>
        /\ pc = "enqueued" /\ pc' = "copy"
        /\ mEnqueuedEvents' \in {mEnqueuedEvents, <<>>}
        /\ ~ mStopDispatcher => mEnqueuedEvents' = <<>>
    BY <1>3 DEF DispatchEnqueuedEvents, TakeEnqueuedEvents
  <2> QED
    BY <1>0, <2>2, <2>3, EmptySeq DEF CallsInv, StartInv, WakeInv, LateRound, Watched
<1>5. CASE CopyHandlers \/ CallHandler \/ HandlerReturns \/ EventsDone
  <2>1. UNCHANGED <<platform, control, queues, stack>>
    BY <1>5 DEF CopyHandlers, CallHandler, HandlerReturns, EventsDone
  <2>2. pc \in LateRound /\ pc' \in LateRound
    BY <1>5 DEF CopyHandlers, CallHandler, HandlerReturns, EventsDone, LateRound
  <2> QED
    BY <1>0, <2>1, <2>2 DEF CallsInv, StartInv, WakeInv, Watched, Notifying
<1> QED
  BY <1>1, <1>2, <1>3, <1>5 DEF LoopStep

-----------------------------------------------------------------------------
LEMMA LoopInvHolds == Spec => []LoopInv
<1>1. LoopInv /\ [Next]_vars => LoopInv'
  <2> SUFFICES ASSUME LoopInv, [Next]_vars PROVE LoopInv'
    OBVIOUS
  <2>1. CASE UNCHANGED vars
    BY <2>1 DEF vars, control, queues, locals, LoopInv, CallsInv, StartInv, WakeInv, Watched,
                Notifying
  <2>2. CASE Next
    <3>1. CASE Start \/ ClosePipe \/ LoopStep
      BY <3>1, StartStep, ClosePipeStep, LoopStepKeeps
    <3>2. ASSUME NEW h \in Handlers, RemovePending(h) \/ UnregisterHandlers(h)
          PROVE  LoopInv'
      BY <3>2, ReleaseStep
    <3>3. ASSUME NEW c \in Callers,
                 \/ Stop(c) \/ EnqueueAction(c)
                 \/ \E h \in Handlers : EmitEvent(c, h) \/ EnqueueEvent(c, h) \/ Release(c, h)
          PROVE  LoopInv'
      BY <3>3, BeginStep
    <3>4. ASSUME NEW c \in Callers, CallStep(c)
          PROVE  LoopInv'
      BY <3>4, CallStepKeeps
    <3> QED
      BY <2>2, <3>1, <3>2, <3>3, <3>4 DEF Next
  <2> QED
    BY <2>1, <2>2
<1> QED
  BY CallsInit, <1>1, PTL DEF Spec

\* A loop that is served and waits while there is work has a notification in its channel,
\* or a caller that is about to send one: on every platform, for any number of callers.
THEOREM NoWakeupIsLost == Spec => []NoWakeupLost
<1>1. LoopInv => NoWakeupLost
  BY DEF LoopInv, WakeInv, Watched, LateRound, NoWakeupLost, Work
<1> QED
  BY LoopInvHolds, <1>1, PTL

-----------------------------------------------------------------------------
(* The memory of the queue for interrupts                                  *)

\* Who enqueues is in no other call, and whoever is alone past the comparison still has
\* the place it found: nobody else appends, and the deliveries only empty the queue.
EnqueuesAlone ==
    \A c \in Callers : \A i \in DOMAIN stack[c] :
        stack[c][i].op = "enqueue" => Len(stack[c]) = 1

CapacityInv ==
    /\ EnqueuesAlone
    /\ GrowsOnlyByOverlap
    /\ ~ overlapped => /\ \A c, d \in Enqueuing : c = d
                       /\ Enqueuing # {} => Len(mEnqueuedEvents) < CacheSize

Appends(ops) == \E i \in DOMAIN ops : ops[i].op = "enqueue"

\* Neither a delivery nor an emission leads to enqueueEvent().
LEMMA NothingEnqueued ==
    ASSUME LoopInv
    PROVE  /\ ~ Appends(<<>>) /\ ~ Appends(Batch)
           /\ \A h \in Names : ~ Appends(Emission(h))
           /\ \A h \in Names : \A op \in {"append", "act", "notify"} : ~ Appends(<<Op(op, h)>>)
<1>1. CASE mStopDispatcher
  BY <1>1 DEF Appends, Emission, Batch, Op
<1>2. CASE ~ mStopDispatcher
  <2>1. DOMAIN Batch = DOMAIN mEnqueuedEvents
    BY <1>2 DEF Batch
  <2>2. \A i \in DOMAIN mEnqueuedEvents : Batch[i].op \in {"again", "deliver"}
    BY <1>2 DEF Batch, Op
  <2> QED
    BY <2>1, <2>2 DEF Appends, Emission, Op
<1> QED
  BY <1>1, <1>2

LEMMA OthersKeepEnqueuing ==
    ASSUME LoopInv, EnqueuesAlone, NEW c \in Callers,
           NEW ops \in Seq(Operations), ~ Appends(ops),
           \/ stack[c] # <<>> /\ Proceed(c, ops)
           \/ stack[c] = <<>> /\ stack' = [stack EXCEPT ![c] = ops]
    PROVE  EnqueuesAlone' /\ Enqueuing' \subseteq Enqueuing \ {c}
<1>1. stack[c] \in Seq(Operations) /\ stack \in [Callers -> Seq(Operations)]
  BY DEF LoopInv, CallsInv
<1>2. PICK t \in Seq(Operations) : stack' = [stack EXCEPT ![c] = t] /\ ~ Appends(t)
  <2>1. CASE stack[c] = <<>>
    BY <2>1
  <2>2. CASE stack[c] # <<>>
    <3> DEFINE s == stack[c]  f == Front(s)  t == f \o ops
    <3>1. /\ f \in Seq(Operations) /\ Len(f) = Len(s) - 1
          /\ \A i \in 1 .. Len(s) - 1 : f[i] = s[i]
      BY <1>1, <2>2, FrontAndLast
    <3>2. s \in Seq(Operations) /\ \A i \in 1 .. Len(s) : s[i].op = "enqueue" => Len(s) = 1
      BY <1>1 DEF EnqueuesAlone
    <3>3. stack' = [stack EXCEPT ![c] = t]
      BY <2>2 DEF Proceed
    <3> HIDE DEF s, f
    <3>4. /\ t \in Seq(Operations) /\ Len(t) = Len(f) + Len(ops)
          /\ \A i \in 1 .. Len(f) + Len(ops) : t[i] = IF i <= Len(f) THEN f[i] ELSE ops[i - Len(f)]
      BY <3>1, ConcatProperties
    <3> HIDE DEF t
    <3>5. \A i \in 1 .. Len(f) : f[i].op # "enqueue"
      BY <3>1, <3>2
    <3>6. \A i \in 1 .. Len(ops) : ops[i].op # "enqueue"
      BY DEF Appends
    <3>7. ASSUME NEW i \in 1 .. Len(t) PROVE t[i].op # "enqueue"
      <4>1. CASE i <= Len(f)
        BY <3>1, <3>4, <3>5, <4>1
      <4>2. CASE ~ (i <= Len(f))
        <5>1. i - Len(f) \in 1 .. Len(ops)
          BY <3>1, <3>4, <4>2
        <5> QED BY <3>4, <3>6, <4>2, <5>1
      <4> QED BY <4>1, <4>2
    <3>8. ~ Appends(t)
      BY <3>4, <3>7 DEF Appends
    <3> QED BY <3>3, <3>4, <3>8
  <2> QED BY <2>1, <2>2
<1>3. stack'[c] = t /\ \A d \in Callers \ {c} : stack'[d] = stack[d]
  BY <1>1, <1>2
<1>4. EnqueuesAlone'
  BY <1>2, <1>3 DEF EnqueuesAlone, Appends
<1>5. ~ Calling(c, "enqueue")'
  <2>1. t # <<>> => Len(t) \in DOMAIN t
    BY <1>2
  <2> QED BY <1>2, <1>3, <2>1 DEF Calling, Top, Last, Appends
<1>6. \A d \in Callers \ {c} : Calling(d, "enqueue")' <=> Calling(d, "enqueue")
  BY <1>3 DEF Calling, Top
<1> QED BY <1>4, <1>5, <1>6 DEF Enqueuing, Callers

\* What appends nothing to the queue leaves its memory as it is.
LEMMA CapacityKept ==
    ASSUME LoopInv, CapacityInv, UNCHANGED memory,
           mEnqueuedEvents' \in {mEnqueuedEvents, <<>>},
           EnqueuesAlone', Enqueuing' \subseteq Enqueuing
    PROVE  CapacityInv'
<1>1. /\ CacheSize \in Nat /\ Len(mEnqueuedEvents) \in Nat /\ Len(mEnqueuedEvents') \in Nat
      /\ Len(mEnqueuedEvents') <= Len(mEnqueuedEvents)
  <2>1. CacheSize \in Nat /\ mEnqueuedEvents \in Seq(Names)
    BY LoopAssumption DEF LoopInv, CallsInv
  <2>2. Len(mEnqueuedEvents) \in Nat /\ Len(<<>>) = 0
    BY <2>1
  <2> QED BY <2>1, <2>2
<1> QED BY <1>1 DEF CapacityInv, GrowsOnlyByOverlap, memory

LEMMA CapacityByCaller ==
    ASSUME LoopInv, CapacityInv, NEW c \in Callers,
           \/ EnqueueAction(c) \/ CallStep(c)
           \/ \E h \in Handlers : EmitEvent(c, h) \/ EnqueueEvent(c, h)
    PROVE  CapacityInv'
<1> USE DEF queues, memory
<1>0. /\ stack \in [Callers -> Seq(Operations)] /\ mEnqueuedEvents \in Seq(Names)
      /\ EnqueuesAlone /\ CacheSize \in Nat /\ Len(mEnqueuedEvents) \in Nat
      /\ Handlers \subseteq Names /\ NoHandler \in Names /\ <<>> \in Seq(Operations)
  BY LoopAssumption, EmptySeq DEF LoopInv, CallsInv, CapacityInv, Names
<1>1. ASSUME NEW ops \in Seq(Operations), ~ Appends(ops),
             \/ stack[c] # <<>> /\ Proceed(c, ops)
             \/ stack[c] = <<>> /\ stack' = [stack EXCEPT ![c] = ops],
             UNCHANGED memory, mEnqueuedEvents' \in {mEnqueuedEvents, <<>>}
      PROVE  CapacityInv'
  BY <1>0, <1>1, OthersKeepEnqueuing, CapacityKept
<1>2. ASSUME stack[c] # <<>> PROVE Top(c) \in Operations /\ Top(c).handler \in Names
  <2>1. Top(c) \in Operations
    BY <1>0, <1>2, FrontAndLast DEF Top
  <2> QED BY <2>1 DEF Operations, Names
<1>3. ASSUME NEW h \in Handlers, EmitEvent(c, h) PROVE CapacityInv'
  BY <1>0, <1>1, <1>3, NothingEnqueued, EmissionTyped DEF EmitEvent, Free
<1>4. CASE EnqueueAction(c)
  BY <1>0, <1>1, <1>4, NothingEnqueued, OperationTyped DEF EnqueueAction, Free
<1>5. CASE DeliverFirst(c)
  <2> DEFINE ops == <<Op("append", Top(c).handler)>> \o Batch
  <2>1. stack[c] # <<>>
    BY <1>5 DEF DeliverFirst, Calling
  <2>2. /\ <<Op("append", Top(c).handler)>> \in Seq(Operations) /\ Batch \in Seq(Operations)
        /\ ~ Appends(<<Op("append", Top(c).handler)>>) /\ ~ Appends(Batch)
    BY <1>0, <1>2, <2>1, OperationTyped, BatchTyped, NothingEnqueued
  <2>3. ops \in Seq(Operations) /\ ~ Appends(ops)
    <3> DEFINE a == <<Op("append", Top(c).handler)>>
    <3> HIDE DEF a
    <3> QED BY <2>2, ConcatProperties DEF Appends, a
  <2>4. /\ Proceed(c, ops) /\ UNCHANGED memory
        /\ mEnqueuedEvents' \in {mEnqueuedEvents, <<>>}
    BY <1>5 DEF DeliverFirst, TakeEnqueuedEvents
  <2> HIDE DEF ops
  <2> QED BY <1>1, <2>1, <2>3, <2>4
<1>6. CASE DeliverEnqueued(c)
  <2>1. stack[c] # <<>> /\ UNCHANGED memory /\ UNCHANGED mEnqueuedEvents
    BY <1>6 DEF DeliverEnqueued, Calling
  <2>2. PICK ops \in {Emission(Top(c).handler), <<>>} : Proceed(c, ops)
    BY <1>6 DEF DeliverEnqueued
  <2>3. ops \in Seq(Operations) /\ ~ Appends(ops)
    BY <1>0, <1>2, <2>1, EmissionTyped, NothingEnqueued
  <2> QED BY <1>1, <2>1, <2>2, <2>3
<1>7. CASE AppendEmission(c) \/ AppendAction(c)
  <2>1. stack[c] # <<>> /\ UNCHANGED memory /\ UNCHANGED mEnqueuedEvents
        /\ Proceed(c, <<Op("notify", NoHandler)>>)
    BY <1>7 DEF AppendEmission, AppendAction, Calling
  <2> QED BY <1>0, <1>1, <2>1, OperationTyped, NothingEnqueued
<1>8. CASE NotifyDispatcherAboutEvent(c)
  <2>1. stack[c] # <<>> /\ UNCHANGED memory /\ UNCHANGED mEnqueuedEvents /\ Proceed(c, <<>>)
    BY <1>8 DEF NotifyDispatcherAboutEvent, Calling
  <2> QED BY <1>0, <1>1, <2>1, NothingEnqueued
<1>9. ASSUME NEW h \in Handlers, EnqueueEvent(c, h) PROVE CapacityInv'
  <2> DEFINE ops == <<Op("enqueue", h)>>
  <2>1. /\ stack[c] = <<>> /\ stack' = [stack EXCEPT ![c] = ops]
        /\ UNCHANGED <<capacity, mEnqueuedEvents>>
        /\ Len(mEnqueuedEvents) < capacity \/ Enqueuing # {}
        /\ overlapped' = (overlapped \/ Enqueuing # {})
    BY <1>9 DEF EnqueueEvent, Free
  <2>2. ops \in Seq(Operations) /\ Len(ops) = 1
    BY <1>0, OperationTyped
  <2> HIDE DEF ops
  <2>3. stack'[c] = ops /\ \A d \in Callers \ {c} : stack'[d] = stack[d]
    BY <1>0, <2>1
  <2>4. EnqueuesAlone'
    BY <1>0, <2>2, <2>3 DEF EnqueuesAlone
  <2>5. Enqueuing' \subseteq Enqueuing \cup {c}
    BY <2>3 DEF Enqueuing, Calling, Top
  <2>6. ASSUME ~ overlapped'
        PROVE  /\ capacity' = CacheSize /\ Len(mEnqueuedEvents') < CacheSize
               /\ \A d, e \in Enqueuing' : d = e
    BY <2>1, <2>5, <2>6 DEF CapacityInv, GrowsOnlyByOverlap
  <2> QED BY <1>0, <2>1, <2>4, <2>6 DEF CapacityInv, GrowsOnlyByOverlap
<1>10. CASE AppendEnqueued(c)
  <2>1. /\ stack[c] # <<>> /\ c \in Enqueuing
        /\ Proceed(c, <<Op("notify", NoHandler)>>)
        /\ mEnqueuedEvents' = Append(mEnqueuedEvents, Top(c).handler)
        /\ overlapped' = overlapped
        /\ Len(mEnqueuedEvents) < capacity => capacity' = capacity
    BY <1>10 DEF AppendEnqueued, Calling, Enqueuing
  <2>2. EnqueuesAlone' /\ Enqueuing' \subseteq Enqueuing \ {c}
    BY <1>0, <2>1, OperationTyped, NothingEnqueued, OthersKeepEnqueuing
  <2>3. Len(mEnqueuedEvents') = Len(mEnqueuedEvents) + 1
    BY <1>0, <1>2, <2>1
  <2>4. ASSUME ~ overlapped
        PROVE  /\ capacity' = CacheSize /\ Len(mEnqueuedEvents') <= CacheSize
               /\ Enqueuing' = {}
    <3>1. capacity = CacheSize /\ Len(mEnqueuedEvents) < CacheSize
      BY <2>1, <2>4 DEF CapacityInv, GrowsOnlyByOverlap
    <3>2. Enqueuing' = {}
      BY <2>1, <2>2, <2>4 DEF CapacityInv
    <3> QED BY <1>0, <2>1, <2>3, <3>1, <3>2
  <2> QED BY <2>1, <2>2, <2>4 DEF CapacityInv, GrowsOnlyByOverlap
<1> QED
  BY <1>3, <1>4, <1>5, <1>6, <1>7, <1>8, <1>9, <1>10 DEF CallStep

LEMMA CapacityByOthers ==
    ASSUME LoopInv, CapacityInv,
           \/ Start \/ ClosePipe \/ LoopStep \/ UNCHANGED vars
           \/ \E h \in Handlers : RemovePending(h) \/ UnregisterHandlers(h)
           \/ \E c \in Callers : Stop(c) \/ \E h \in Handlers : Release(c, h)
    PROVE  CapacityInv'
<1> USE DEF queues, locals
<1>1. CASE DispatchEnqueuedEvents
  <2>1. stack[Loop] = <<>> /\ Loop \in Callers /\ Batch \in Seq(Operations)
    BY <1>1, BatchTyped DEF DispatchEnqueuedEvents, LoopAt, Callers, LoopInv, CallsInv
  <2>2. /\ stack' = [stack EXCEPT ![Loop] = Batch] /\ UNCHANGED memory
        /\ mEnqueuedEvents' \in {mEnqueuedEvents, <<>>}
    BY <1>1 DEF DispatchEnqueuedEvents, TakeEnqueuedEvents
  <2>3. EnqueuesAlone' /\ Enqueuing' \subseteq Enqueuing \ {Loop}
    BY <2>1, <2>2, NothingEnqueued, OthersKeepEnqueuing DEF CapacityInv
  <2> QED BY <2>2, <2>3, CapacityKept
<1>2. CASE ~ DispatchEnqueuedEvents
  <2>1. UNCHANGED <<mEnqueuedEvents, stack, memory>>
    <3>1. CASE Start
      BY <3>1 DEF Start
    <3>2. CASE ClosePipe \/ UNCHANGED vars
      BY <3>2 DEF ClosePipe, vars
    <3>3. CASE LoopStep
      BY <1>2, <3>3 DEF LoopStep, OnPipeDataAvailable, CustomEvent, DispatchEvents,
         DoDispatching, DispatchPendingActions, ActionReturns, TakePendingEvents,
         CopyHandlers, CallHandler, HandlerReturns, EventsDone
    <3>4. CASE \E h \in Handlers : RemovePending(h) \/ UnregisterHandlers(h)
      BY <3>4 DEF RemovePending, UnregisterHandlers
    <3>5. CASE \E c \in Callers : Stop(c) \/ \E h \in Handlers : Release(c, h)
      BY <3>5 DEF Stop, Release
    <3> QED BY <3>1, <3>2, <3>3, <3>4, <3>5
  <2>2. Enqueuing' = Enqueuing /\ EnqueuesAlone'
    BY <2>1 DEF Enqueuing, Calling, Top, CapacityInv, EnqueuesAlone
  <2> QED BY <2>1, <2>2, CapacityKept
<1> QED BY <1>1, <1>2

\* The memory that the constructor reserves is enough for enqueueEvent(), until two
\* callers are between its comparison and its append at once: for any number of callers,
\* and whatever the vector grows to.
THEOREM GrowthNeedsOverlap == Spec => []GrowsOnlyByOverlap
<1>1. Init => CapacityInv
  BY LoopAssumption, EmptySeq
     DEF Init, CapacityInv, EnqueuesAlone, Enqueuing, Calling, GrowsOnlyByOverlap
<1>2. LoopInv /\ CapacityInv /\ [Next]_vars => CapacityInv'
  BY CapacityByCaller, CapacityByOthers DEF Next
<1>3. CapacityInv => GrowsOnlyByOverlap
  BY DEF CapacityInv
<1> QED BY LoopInvHolds, <1>1, <1>2, <1>3, PTL DEF Spec

-----------------------------------------------------------------------------
(* The promise of emitEvent()                                              *)

\* Calls about a handler, and calls about none.
Calls ==
    [op : {"emit", "deliver", "again", "append", "enqueue"}, handler : Handlers]
        \cup [op : {"act", "notify"}, handler : {NoHandler}]

\* Only start() of Arduino and FreeRTOS takes back what stop() has cancelled.
StaysStopped == ~ MayRestart \/ Platforms \cap {"Arduino", "FreeRTOS"} = {}

\* The loop serves one handler at a time, and as long as it has not been stopped a
\* machine that is not being released has a handler, also in the copy of a round.
ServingInv ==
    /\ platform \in Platforms
    /\ mPendingEvents \in Seq(Handlers) /\ events \in Seq(Handlers)
    /\ mEnqueuedEvents \in Seq(Handlers)
    /\ stack \in [Callers -> Seq(Calls)]
    /\ DOMAIN hsm = Handlers
    /\ current \in Handlers \cup {NoHandler}
    /\ pc = "running" => current # NoHandler
    /\ current # NoHandler => pc \in {"running", "terminated"}
    /\ events # <<>> => pc \in {"enqueued", "copy", "handle", "running", "terminated"}
    /\ started = "never" => ~ mStopDispatcher
    /\ \A h \in Handlers :
          ~ mStopDispatcher /\ hsm[h] = "live" =>
              /\ h \in mEventHandlers
              /\ pc \in {"handle", "running"} => h \in handlers

LEMMA CallTyped ==
    ASSUME NEW h \in Handlers
    PROVE  /\ \A op \in {"emit", "deliver", "again", "append", "enqueue"} :
                  Op(op, h) \in Calls /\ <<Op(op, h)>> \in Seq(Calls)
           /\ \A op \in {"act", "notify"} :
                  Op(op, NoHandler) \in Calls /\ <<Op(op, NoHandler)>> \in Seq(Calls)
           /\ Emission(h) \in Seq(Calls)
<1>1. \A op \in {"emit", "deliver", "again", "append", "enqueue"} : Op(op, h) \in Calls
  BY DEF Op, Calls
<1>2. \A op \in {"act", "notify"} : Op(op, NoHandler) \in Calls
  BY DEF Op, Calls
<1> QED
  BY <1>1, <1>2 DEF Emission

LEMMA BatchOfCalls ==
    ASSUME mEnqueuedEvents \in Seq(Handlers)
    PROVE  Batch \in Seq(Calls)
<1>1. \A i \in DOMAIN mEnqueuedEvents :
         /\ Op("again", mEnqueuedEvents[i]) \in Calls
         /\ Op("deliver", mEnqueuedEvents[i]) \in Calls
  BY CallTyped
<1>2. DOMAIN mEnqueuedEvents = 1 .. Len(mEnqueuedEvents) /\ Len(mEnqueuedEvents) \in Nat
  OBVIOUS
<1> QED
  BY <1>1, <1>2, EmptySeq DEF Batch

\* A caller on its way has calls of the right kind left.
LEMMA TopTyped ==
    ASSUME ServingInv, NEW c \in Callers, stack[c] # <<>>
    PROVE  /\ Top(c) \in Calls
           /\ Top(c).op \notin {"act", "notify"} => Top(c).handler \in Handlers
           /\ \A ops \in Seq(Calls) : Proceed(c, ops) => stack' \in [Callers -> Seq(Calls)]
<1>1. stack[c] \in Seq(Calls)
  BY DEF ServingInv
<1>2. Top(c) \in Calls /\ Front(stack[c]) \in Seq(Calls)
  BY <1>1, FrontAndLast DEF Top
<1>3. Top(c).op \notin {"act", "notify"} => Top(c).handler \in Handlers
  BY <1>2 DEF Calls
<1>4. ASSUME NEW ops \in Seq(Calls), Proceed(c, ops)
      PROVE  stack' \in [Callers -> Seq(Calls)]
  <2>1. Front(stack[c]) \o ops \in Seq(Calls)
    BY <1>2, ConcatProperties
  <2> QED
    BY <1>4, <2>1 DEF Proceed, ServingInv
<1> QED
  BY <1>2, <1>3, <1>4

LEMMA StartChange ==
    ASSUME ServingInv, LoopInv, StaysStopped, Start
    PROVE  mStopDispatcher' = mStopDispatcher \/ (~ mStopDispatcher /\ ~ mStopDispatcher')
<1>1. CASE platform \in {"Arduino", "FreeRTOS"}
  <2>1. started = "never"
    BY <1>1 DEF Start, ServingInv, StaysStopped
  <2>2. ~ mStopDispatcher /\ ~ mStopDispatcher'
    BY <1>1, <2>1 DEF Start, OpenPipe, ConnectDispatcher, RegisterEventType, StartSketch,
                      StartTask, ServingInv
  <2> QED
    BY <2>2
<1>2. CASE platform \notin {"Arduino", "FreeRTOS"}
  BY <1>2 DEF Start, OpenPipe, ConnectDispatcher, RegisterEventType, StartSketch, StartTask
<1> QED
  BY <1>1, <1>2

LEMMA ServingInvByOwner ==
    ASSUME ServingInv, LoopInv, StaysStopped,
           \/ Start \/ ClosePipe
           \/ \E c \in Callers : Stop(c)
           \/ \E h \in Handlers : RemovePending(h) \/ UnregisterHandlers(h)
           \/ \E c \in Callers, h \in Handlers : Release(c, h)
    PROVE  ServingInv'
<1> USE DEF ServingInv, queues, control, locals
<1>1. CASE Start
  <2>1. mStopDispatcher' = mStopDispatcher \/ (~ mStopDispatcher /\ ~ mStopDispatcher')
    BY <1>1, StartChange
  <2>2. /\ pc \in {"idle", "exited"} /\ pc' \in {"idle", "actions", "exited"}
        /\ started' # "never"
    BY <1>1 DEF Start, OpenPipe, ConnectDispatcher, RegisterEventType, StartSketch,
                StartTask
  <2>3. UNCHANGED <<platform, mEventHandlers, queues, locals, hsm, stack>>
    BY <1>1 DEF Start
  <2> QED
    BY <2>1, <2>2, <2>3
<1>2. CASE ClosePipe
  BY <1>2 DEF ClosePipe
<1>3. ASSUME NEW c \in Callers, Stop(c)
      PROVE  ServingInv'
  BY <1>3 DEF Stop
<1>4. ASSUME NEW h \in Handlers, RemovePending(h)
      PROVE  ServingInv'
  BY <1>4, WithoutTyped DEF RemovePending
<1>5. ASSUME NEW h \in Handlers, UnregisterHandlers(h)
      PROVE  ServingInv'
  BY <1>5 DEF UnregisterHandlers
<1>6. ASSUME NEW c \in Callers, NEW h \in Handlers, Release(c, h)
      PROVE  ServingInv'
  BY <1>6 DEF Release
<1> QED
  BY <1>1, <1>2, <1>3, <1>4, <1>5, <1>6

LEMMA ServingInvByCaller ==
    ASSUME ServingInv, NEW c \in Callers,
           \/ EnqueueAction(c) \/ CallStep(c)
           \/ \E h \in Handlers : EmitEvent(c, h) \/ EnqueueEvent(c, h)
    PROVE  ServingInv'
<1> USE DEF ServingInv, queues, control, locals
<1>1. CASE EnqueueAction(c)
  <2>1. <<Op("act", NoHandler)>> \in Seq(Calls)
    BY DEF Op, Calls
  <2> QED
    BY <1>1, <2>1 DEF EnqueueAction
<1>2. ASSUME NEW h \in Handlers, EmitEvent(c, h)
      PROVE  ServingInv'
  BY <1>2, CallTyped DEF EmitEvent
<1>3. ASSUME NEW h \in Handlers, EnqueueEvent(c, h)
      PROVE  ServingInv'
  BY <1>3, CallTyped DEF EnqueueEvent
<1>4. <<Op("notify", NoHandler)>> \in Seq(Calls) /\ <<>> \in Seq(Calls)
  BY DEF Op, Calls
<1>5. CASE DeliverFirst(c)
  <2> DEFINE append == <<Op("append", Top(c).handler)>>
  <2>1. Top(c).handler \in Handlers /\ stack[c] # <<>>
    BY <1>5, TopTyped DEF DeliverFirst, Calling
  <2>2. append \o Batch \in Seq(Calls)
    BY <2>1, CallTyped, BatchOfCalls, ConcatProperties
  <2>3. stack' \in [Callers -> Seq(Calls)]
    <3> HIDE DEF append
    <3>1. Proceed(c, append \o Batch)
      BY <1>5 DEF DeliverFirst, append
    <3> QED
      BY <2>1, <2>2, <3>1, TopTyped
  <2>4. mEnqueuedEvents' \in Seq(Handlers)
    BY <1>5, EmptySeq DEF DeliverFirst, TakeEnqueuedEvents
  <2> QED
    BY <1>5, <2>3, <2>4 DEF DeliverFirst
<1>6. CASE DeliverEnqueued(c)
  <2>1. Top(c).handler \in Handlers /\ stack[c] # <<>>
    BY <1>6, TopTyped DEF DeliverEnqueued, Calling
  <2>2. Emission(Top(c).handler) \in Seq(Calls)
    BY <2>1, CallTyped
  <2>3. stack' \in [Callers -> Seq(Calls)]
    BY <1>4, <1>6, <2>1, <2>2, TopTyped DEF DeliverEnqueued
  <2> QED
    BY <1>6, <2>3 DEF DeliverEnqueued
<1>7. CASE AppendEmission(c) \/ AppendEnqueued(c) \/ AppendAction(c)
  <2>1. stack[c] # <<>> /\ Proceed(c, <<Op("notify", NoHandler)>>)
    BY <1>7 DEF AppendEmission, AppendEnqueued, AppendAction, Calling
  <2>2. stack' \in [Callers -> Seq(Calls)]
    BY <1>4, <2>1, TopTyped
  <2>3. ~ AppendAction(c) => Top(c).handler \in Handlers
    BY <1>7, <2>1, TopTyped DEF AppendEmission, AppendEnqueued, Calling
  <2>4. mPendingEvents' \in Seq(Handlers) /\ mEnqueuedEvents' \in Seq(Handlers)
    <3>1. CASE AppendEmission(c)
      BY <2>3, <3>1, AppendProperties DEF AppendEmission, AppendAction, Calling
    <3>2. CASE AppendEnqueued(c)
      BY <2>3, <3>2, AppendProperties DEF AppendEnqueued, AppendAction, Calling
    <3>3. CASE AppendAction(c)
      BY <3>3 DEF AppendAction
    <3> QED
      BY <1>7, <3>1, <3>2, <3>3
  <2> QED
    BY <1>7, <2>2, <2>4 DEF AppendEmission, AppendEnqueued, AppendAction
<1>8. CASE NotifyDispatcherAboutEvent(c)
  <2>1. stack[c] # <<>> /\ Proceed(c, <<>>)
    BY <1>8 DEF NotifyDispatcherAboutEvent, Calling
  <2>2. stack' \in [Callers -> Seq(Calls)]
    BY <1>4, <2>1, TopTyped
  <2>3. pc' \in {pc, "terminated"}
    BY <1>8 DEF NotifyDispatcherAboutEvent, WriteToPipe, EmitOnDispatcher, PostToLoop,
                NotifyTask, NotifyNobody
  <2> QED
    BY <1>8, <2>2, <2>3 DEF NotifyDispatcherAboutEvent
<1> QED
  BY <1>1, <1>2, <1>3, <1>5, <1>6, <1>7, <1>8 DEF CallStep

LEMMA ServingInvByLoop ==
    ASSUME ServingInv, LoopInv, LoopStep
    PROVE  ServingInv'
<1> USE LoopAssumption DEF ServingInv, queues, control, locals, LoopAt
<1>1. CASE \/ OnPipeDataAvailable \/ CustomEvent \/ DispatchEvents \/ DoDispatching
           \/ DispatchPendingActions \/ ActionReturns
  <2>1. /\ UNCHANGED <<mPendingEvents, events, mEnqueuedEvents, stack, hsm,
                       current, started, mStopDispatcher, mEventHandlers, handlers, platform>>
        /\ pc \in {"idle", "actions", "perform"}
        /\ pc' \in {"idle", "exited", "actions", "perform", "take"}
    BY <1>1 DEF OnPipeDataAvailable, CustomEvent, DispatchEvents, DoDispatching,
                DispatchPendingActions, ActionReturns
  <2> QED
    BY <2>1
<1>2. CASE TakePendingEvents
  BY <1>2, EmptySeq DEF TakePendingEvents
<1>3. CASE DispatchEnqueuedEvents
  <2>1. stack' \in [Callers -> Seq(Calls)]
    BY <1>3, BatchOfCalls DEF DispatchEnqueuedEvents
  <2> QED
    BY <1>3, <2>1, EmptySeq DEF DispatchEnqueuedEvents, TakeEnqueuedEvents
<1>5. CASE CopyHandlers
  BY <1>5, EmptySeq DEF CopyHandlers
<1>6. CASE CallHandler
  <2>1. Head(events) \in Handlers /\ Tail(events) \in Seq(Handlers)
    BY <1>6, HeadTailProperties DEF CallHandler
  <2> QED
    BY <1>6, <2>1 DEF CallHandler
<1>7. CASE HandlerReturns
  BY <1>7 DEF HandlerReturns
<1>8. CASE EventsDone
  BY <1>8, EmptySeq DEF EventsDone
<1> QED
  BY <1>1, <1>2, <1>3, <1>5, <1>6, <1>7, <1>8 DEF LoopStep

LEMMA ServingInvHolds == StaysStopped => (Spec => []ServingInv)
<1> SUFFICES ASSUME StaysStopped PROVE Spec => []ServingInv
  OBVIOUS
<1>1. Init => ServingInv
  BY LoopAssumption, EmptySeq DEF Init, ServingInv
<1>2. ServingInv /\ LoopInv /\ [Next]_vars => ServingInv'
  <2> SUFFICES ASSUME ServingInv, LoopInv, [Next]_vars PROVE ServingInv'
    OBVIOUS
  <2>1. CASE UNCHANGED vars
    BY <2>1 DEF vars, queues, control, locals, ServingInv
  <2> QED
    BY <2>1, ServingInvByOwner, ServingInvByCaller, ServingInvByLoop DEF Next
<1> QED
  BY <1>1, <1>2, LoopInvHolds, PTL DEF Spec

\* The promise's list of emissions loses elements as the loop's does.
LEMMA PromiseErases ==
    ASSUME NEW s, NEW places
    PROVE  Promise!Without(s, places) = Without(s, places)
<1>1. \A S : Promise!Cardinality(S) = Cardinality(S)
  BY Zenon DEF Promise!Cardinality, Cardinality
<1> DEFINE left == DOMAIN s \ places
           rank == [i \in left |-> Cardinality({j \in left : j <= i})]
           rankThere == [i \in left |-> Promise!Cardinality({j \in left : j <= i})]
<1>2. rankThere = rank
  BY <1>1
<1>3. /\ Without(s, places) =
             [n \in 1 .. Cardinality(left) |-> s[CHOOSE i \in left : rank[i] = n]]
      /\ Promise!Without(s, places) =
             [n \in 1 .. Promise!Cardinality(left) |-> s[CHOOSE i \in left : rankThere[i] = n]]
  BY DEF Without, Promise!Without
<1> HIDE DEF left, rank, rankThere
<1> QED
  BY <1>1, <1>2, <1>3

\* start() and stop(), and release().
LEMMA PromiseByOwner ==
    ASSUME ServingInv, LoopInv, StaysStopped, pc # "terminated",
           \/ Start \/ ClosePipe
           \/ \E c \in Callers : Stop(c)
           \/ \E c \in Callers, h \in Handlers : Release(c, h)
           \/ \E h \in Handlers : RemovePending(h) \/ UnregisterHandlers(h)
    PROVE  Promise!Next \/ UNCHANGED Promise!vars
<1> USE DEF queues, control, locals
<1>0. DOMAIN hsm = Handlers
  BY DEF ServingInv
<1>1. events \in Seq(Handlers) /\ mPendingEvents \in Seq(Handlers)
  BY DEF ServingInv
<1>2. CASE Start
  <2>1. mStopDispatcher' = mStopDispatcher \/ (~ mStopDispatcher /\ ~ mStopDispatcher')
    BY <1>2, StartChange
  <2>2. pc' # "terminated" /\ UNCHANGED <<queues, locals, hsm>>
    BY <1>2 DEF Start, OpenPipe, ConnectDispatcher, RegisterEventType, StartSketch, StartTask
  <2> QED
    BY <2>1, <2>2 DEF Promise!vars
<1>3. CASE ClosePipe
  BY <1>3 DEF ClosePipe, Promise!vars
<1>4. ASSUME NEW c \in Callers, Stop(c)
      PROVE  Promise!Next \/ UNCHANGED Promise!vars
  <2>1. Promise!Stop
    BY <1>4 DEF Stop, Promise!Stop
  <2> QED
    BY <2>1 DEF Promise!Next
<1>5. ASSUME NEW c \in Callers, NEW h \in Handlers, Release(c, h)
      PROVE  Promise!Next \/ UNCHANGED Promise!vars
  <2>1. /\ hsm' = [hsm EXCEPT ![h] = "stopped"]
        /\ UNCHANGED <<mStopDispatcher, events, mPendingEvents, current, pc>>
    BY <1>5 DEF Release
  <2>2. {g \in Handlers : hsm'[g] # "live"} = {g \in Handlers : hsm[g] # "live"} \cup {h}
    BY <1>0, <2>1
  <2>3. Promise!Unregister(h)
    BY <2>1, <2>2 DEF Promise!Unregister
  <2> QED
    BY <2>3 DEF Promise!Next
<1>6. ASSUME NEW h \in Handlers, UnregisterHandlers(h)
      PROVE  Promise!Next \/ UNCHANGED Promise!vars
  <2>1. /\ hsm[h] = "removed" /\ hsm' = [hsm EXCEPT ![h] = "unregistered"]
        /\ UNCHANGED <<mStopDispatcher, events, mPendingEvents, current, pc>>
    BY <1>6 DEF UnregisterHandlers
  <2>2. {g \in Handlers : hsm'[g] # "live"} = {g \in Handlers : hsm[g] # "live"}
    BY <1>0, <2>1
  <2> QED
    BY <2>1, <2>2 DEF Promise!vars
<1>7. ASSUME NEW h \in Handlers, RemovePending(h)
      PROVE  Promise!Next \/ UNCHANGED Promise!vars
  <2>1. /\ hsm[h] = "stopped" /\ hsm' = [hsm EXCEPT ![h] = "removed"]
        /\ UNCHANGED <<mStopDispatcher, events, current, pc>>
        /\ mPendingEvents' = Without(mPendingEvents, PlacesOf(mPendingEvents, h))
    BY <1>7 DEF RemovePending
  <2>2. {g \in Handlers : hsm'[g] # "live"} = {g \in Handlers : hsm[g] # "live"}
    BY <1>0, <2>1
  <2>3. CASE mStopDispatcher \/ events \o mPendingEvents' = events \o mPendingEvents
    BY <2>1, <2>2, <2>3 DEF Promise!vars
  <2>4. CASE ~ mStopDispatcher /\ events \o mPendingEvents' # events \o mPendingEvents
    <3> DEFINE queue == events \o mPendingEvents
    <3>1. PICK places \in SUBSET PlacesOf(queue, h) :
             places # {} /\ events \o mPendingEvents' = Without(queue, places)
      <4>1. \/ events \o Without(mPendingEvents, PlacesOf(mPendingEvents, h))
                  = events \o mPendingEvents
            \/ \E places \in SUBSET PlacesOf(events \o mPendingEvents, h) :
                  /\ places # {}
                  /\ events \o Without(mPendingEvents, PlacesOf(mPendingEvents, h))
                        = Without(events \o mPendingEvents, places)
        BY <1>1, ErasedFromSecond, Zenon
      <4> QED
        BY <2>1, <2>4, <4>1, Zenon
    <3>2. places \in SUBSET {i \in DOMAIN queue : queue[i] \in {g \in Handlers : hsm[g] # "live"}}
      BY <2>1, <3>1 DEF PlacesOf
    <3>3. Promise!Drop
      <4> HIDE DEF queue
      <4>1. Promise!Without(queue, places) = Without(queue, places)
        BY PromiseErases
      <4> QED
        BY <2>1, <2>2, <2>4, <3>1, <3>2, <4>1 DEF Promise!Drop, queue
    <3> QED
      BY <3>3 DEF Promise!Next
  <2> QED
    BY <2>3, <2>4
<1> QED
  BY <1>2, <1>3, <1>4, <1>5, <1>6, <1>7

LEMMA PromiseByCaller ==
    ASSUME ServingInv, NEW c \in Callers, pc # "terminated",
           \/ EnqueueAction(c) \/ CallStep(c)
           \/ \E h \in Handlers : EmitEvent(c, h) \/ EnqueueEvent(c, h)
    PROVE  Promise!Next \/ UNCHANGED Promise!vars
<1> USE DEF queues, control, locals
<1>1. CASE \/ EnqueueAction(c) \/ \E h \in Handlers : EmitEvent(c, h) \/ EnqueueEvent(c, h)
           \/ DeliverFirst(c) \/ AppendEnqueued(c) \/ AppendAction(c)
  <2>1. UNCHANGED <<mStopDispatcher, events, mPendingEvents, current, pc, hsm>>
    BY <1>1 DEF EnqueueAction, EmitEvent, EnqueueEvent, DeliverFirst, AppendEnqueued,
                AppendAction
  <2> QED
    BY <2>1 DEF Promise!vars
<1>2. CASE AppendEmission(c)
  <2> DEFINE h == Top(c).handler
  <2>1. /\ mPendingEvents' = Append(mPendingEvents, h)
        /\ UNCHANGED <<mStopDispatcher, events, current, pc, hsm>>
    BY <1>2 DEF AppendEmission
  <2>2. h \in Handlers
    BY <1>2, TopTyped DEF AppendEmission, Calling
  <2> HIDE DEF h
  <2>3. CASE mStopDispatcher
    BY <2>1, <2>3 DEF Promise!vars
  <2>4. CASE ~ mStopDispatcher
    <3>1. events \o Append(mPendingEvents, h) = Append(events \o mPendingEvents, h)
      BY <2>2 DEF ServingInv
    <3>2. Promise!EmitEvent(h)
      BY <2>1, <2>4, <3>1 DEF Promise!EmitEvent
    <3> QED
      BY <2>2, <3>2 DEF Promise!Next
  <2> QED
    BY <2>3, <2>4
\* A program that ends while a handler runs has it return.
<1>3. CASE NotifyDispatcherAboutEvent(c) \/ DeliverEnqueued(c)
  <2>1. /\ UNCHANGED <<mStopDispatcher, events, mPendingEvents, current, hsm>>
        /\ pc' \in {pc, "terminated"}
    BY <1>3 DEF NotifyDispatcherAboutEvent, WriteToPipe, EmitOnDispatcher, PostToLoop,
                NotifyTask, NotifyNobody, DeliverEnqueued
  <2>2. CASE pc' = pc \/ current = NoHandler
    BY <2>1, <2>2 DEF Promise!vars
  <2>3. CASE pc' = "terminated" /\ current # NoHandler
    <3>1. Promise!Return
      BY <2>1, <2>3 DEF Promise!Return
    <3> QED
      BY <3>1 DEF Promise!Next
  <2> QED
    BY <2>1, <2>2, <2>3
<1> QED
  BY <1>1, <1>2, <1>3 DEF CallStep

LEMMA PromiseByLoop ==
    ASSUME ServingInv, pc # "terminated", LoopStep
    PROVE  Promise!Next \/ UNCHANGED Promise!vars
<1> USE DEF queues, control, locals, LoopAt
<1>1. events \in Seq(Handlers) /\ mPendingEvents \in Seq(Handlers)
  BY DEF ServingInv
<1>2. CASE \/ OnPipeDataAvailable \/ CustomEvent \/ DispatchEvents \/ DoDispatching
           \/ DispatchPendingActions \/ ActionReturns \/ DispatchEnqueuedEvents
  <2>1. /\ UNCHANGED <<mStopDispatcher, events, mPendingEvents, current, hsm>>
        /\ pc' # "terminated"
    BY <1>2 DEF OnPipeDataAvailable, CustomEvent, DispatchEvents, DoDispatching,
                DispatchPendingActions, ActionReturns, DispatchEnqueuedEvents
  <2> QED
    BY <2>1 DEF Promise!vars
<1>3. CASE TakePendingEvents
  <2>1. events = <<>> /\ events' = mPendingEvents /\ mPendingEvents' = <<>>
    BY <1>3 DEF TakePendingEvents, ServingInv
  <2>2. events' \o mPendingEvents' = events \o mPendingEvents
    BY <1>1, <2>1, ConcatEmptySeq
  <2> QED
    BY <1>3, <2>2 DEF TakePendingEvents, Promise!vars
<1>4. CASE CopyHandlers \/ EventsDone
  <2>1. /\ UNCHANGED <<mStopDispatcher, mPendingEvents, current, hsm>>
        /\ mStopDispatcher \/ events' = events
        /\ pc' # "terminated"
    BY <1>4 DEF CopyHandlers, EventsDone
  <2> QED
    BY <2>1 DEF Promise!vars
<1>5. CASE CallHandler
  <2> DEFINE h == Head(events)
             queue == events \o mPendingEvents
  <2>1. /\ events # <<>> /\ ~ mStopDispatcher /\ mStopDispatcher' = mStopDispatcher
        /\ events' = Tail(events) /\ mPendingEvents' = mPendingEvents /\ hsm' = hsm
        /\ pc = "handle" /\ pc' # "terminated"
    BY <1>5 DEF CallHandler
  <2>2. /\ queue \in Seq(Handlers) /\ queue # <<>> /\ 1 \in DOMAIN queue
        /\ Head(queue) = h /\ queue[1] = h
        /\ Tail(queue) = Tail(events) \o mPendingEvents
    BY <1>1, <2>1
  <2>3. current = NoHandler
    BY <2>1 DEF ServingInv
  <2>4. CASE h \in handlers /\ hsm[h] = "live"
    <3>1. current' = h
      BY <1>5, <2>4 DEF CallHandler
    <3>2. Promise!Serve
      BY <2>1, <2>2, <2>3, <3>1 DEF Promise!Serve
    <3> QED
      BY <3>2 DEF Promise!Next
  <2>5. CASE ~ (h \in handlers /\ hsm[h] = "live")
    <3>1. h \in Handlers
      BY <1>1, <2>1, HeadTailProperties
    <3>2. hsm[h] # "live"
      BY <2>1, <2>5, <3>1 DEF ServingInv
    <3>3. current' = current
      BY <1>5, <2>5 DEF CallHandler
    <3>4. Tail(events) \o mPendingEvents = Without(queue, {1})
      BY <2>2, WithoutFirst
    <3>5. {1} \in SUBSET {i \in DOMAIN queue : queue[i] \in {g \in Handlers : hsm[g] # "live"}}
      BY <2>2, <3>1, <3>2
    <3>6. Promise!Drop
      BY <2>1, <3>3, <3>4, <3>5, PromiseErases DEF Promise!Drop
    <3> QED
      BY <3>6 DEF Promise!Next
  <2> QED
    BY <2>4, <2>5
<1>6. CASE HandlerReturns
  <2>1. /\ current # NoHandler /\ current' = NoHandler /\ pc' = "handle"
        /\ UNCHANGED <<mStopDispatcher, events, mPendingEvents, hsm>>
    BY <1>6 DEF HandlerReturns, ServingInv
  <2>2. Promise!Return
    BY <2>1 DEF Promise!Return
  <2> QED
    BY <2>2 DEF Promise!Next
<1> QED
  BY <1>2, <1>3, <1>4, <1>5, <1>6 DEF LoopStep

\* The loops of GLib, GLibmm, Qt, an Arduino sketch and FreeRTOS keep the promise of
\* emitEvent(), as far as it is about safety: emissions are served one at a time, each
\* once and in the order they were made, also by a program that SIGPIPE ends.  Only a
\* second start() on Arduino and FreeRTOS is left out: it resets mStopDispatcher, and
\* what stop() cancelled is served after all.
THEOREM EmissionsServedSafely == StaysStopped => (Spec => Promise!Safety)
<1> SUFFICES ASSUME StaysStopped PROVE Spec => Promise!Safety
  OBVIOUS
<1>1. Init => Promise!Init
  <2> SUFFICES ASSUME Init PROVE Promise!Init
    OBVIOUS
  <2>1. /\ mStopDispatcher = FALSE /\ events \o mPendingEvents = <<>>
        /\ current = NoHandler
    BY EmptySeq, ConcatEmptySeq DEF Init
  <2>2. {h \in Handlers : hsm[h] # "live"} = {}
    BY DEF Init
  <2> QED
    BY <2>1, <2>2 DEF Promise!Init
<1>2. ServingInv /\ LoopInv /\ [Next]_vars => [Promise!Next]_(Promise!vars)
  <2>1. ASSUME UNCHANGED vars PROVE UNCHANGED Promise!vars
    BY <2>1 DEF vars, queues, control, locals, Promise!vars
  <2> QED
    BY <2>1, PromiseByOwner, PromiseByCaller, PromiseByLoop DEF Next
<1> QED
  BY <1>1, <1>2, LoopInvHolds, ServingInvHolds, PTL DEF Spec, Promise!Safety
=============================================================================
