--------------------------- MODULE EventDispatcher ---------------------------
(***************************************************************************)
(* What IHsmEventDispatcher promises of emitEvent(): emissions are served  *)
(* one at a time, each once, in the order they were made, as long as the   *)
(* dispatcher runs.  Those of a handler that is being unregistered may be  *)
(* dropped; stop() cancels all that are not being handled.                 *)
(*                                                                         *)
(* HsmEngine builds on this promise: its `emitted` counts the entries of   *)
(* `queue` for one state machine.                                          *)
(***************************************************************************)
EXTENDS Naturals, Sequences, ListErase

CONSTANTS
    Handlers,     \* registered event handlers, one per state machine
    NoHandler

VARIABLES
    queue,        \* emissions that wait, the oldest first
    serving,      \* the handler that is being called
    leaving,      \* handlers that are being unregistered
    running       \* stop() has not been called

vars == <<queue, serving, leaving, running>>

Init ==
    /\ queue = <<>>
    /\ serving = NoHandler
    /\ leaving = {}
    /\ running = TRUE

EmitEvent(h) ==
    /\ running
    /\ queue' = Append(queue, h)
    /\ UNCHANGED <<serving, leaving, running>>

\* Serving ends with the handler's return.  It may have emitted by itself.
Return ==
    /\ serving # NoHandler
    /\ serving' = NoHandler
    /\ queue' = queue \/ (running /\ queue' = Append(queue, serving))
    /\ UNCHANGED <<leaving, running>>

Serve ==
    /\ serving = NoHandler
    /\ queue # <<>>
    /\ serving' = Head(queue)
    /\ queue' = Tail(queue)
    /\ UNCHANGED <<leaving, running>>

\* Emissions of handlers that are leaving are given up.
Drop ==
    /\ \E places \in SUBSET {i \in DOMAIN queue : queue[i] \in leaving} :
         places # {} /\ queue' = Without(queue, places)
    /\ UNCHANGED <<serving, leaving, running>>

Unregister(h) ==
    /\ leaving' = leaving \cup {h}
    /\ UNCHANGED <<queue, serving, running>>

Stop ==
    /\ running' = FALSE
    /\ queue' = <<>>
    /\ UNCHANGED <<serving, leaving>>

Next ==
    \/ \E h \in Handlers : EmitEvent(h) \/ Unregister(h)
    \/ Serve \/ Return \/ Drop \/ Stop

\* What may happen, and in which order.
Safety == Init /\ [][Next]_vars

\* "Dispatcher should initiate processing of the new event as soon as possible."
Fairness == WF_vars(Serve \/ Drop) /\ WF_vars(Return)

Spec == Safety /\ Fairness
=============================================================================
