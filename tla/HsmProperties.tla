---------------------------- MODULE HsmProperties ----------------------------
(***************************************************************************)
(* What the transition engine is relied on for.  The runs say of which     *)
(* registered structures each property is asked.                           *)
(***************************************************************************)
EXTENDS HsmEngine

\* mActiveStates never lists a state twice: std::list::remove, the checks of
\* isStateActive and the order in which onStateExiting is called all count on
\* it, while states are appended in four places (startup, entry, rollback,
\* re-entry) and only two of them look first.
NoDuplicateActive ==
    \A i, j \in DOMAIN mActiveStates : mActiveStates[i] = mActiveStates[j] => i = j

\* dispatchEvents reads empty() without the lock and pops later, under it: the
\* list must not be empty by then, whatever other threads did to it, clearing
\* it included.
PopNeverEmpty == pc = "pop" => mPendingEvents # <<>>

\* An event never stays in the queue with nobody left to serve it: a wake-up
\* has been sent, is about to be sent by the thread that posted, or the
\* dispatcher is still in dispatchEvents and looks again before it leaves.
EmissionCoversPending ==
    mPendingEvents # <<>> /\ pc = "idle" =>
        \/ emitted > 0
        \/ \E c \in Clients : client[c] \in {"emit", "emitSync"}

\* A transition canceled by onExiting leaves active exactly the states that
\* were active when it began: those already exited are entered again.
CanceledRestores ==
    pc = "end" /\ single.res = "CANCELED" => Active = single.before

-----------------------------------------------------------------------------
\* Between events: what follows in the queue does not belong to a transition
\* that is under way.
Settled ==
    /\ pc = "idle"
    /\ mPendingEvents # <<>> => Head(mPendingEvents).transitionType = "REGULAR"

ParentsActive == \A s \in Active : Parent[s] \in Active \cup {NoState}

CompositesEntered ==
    \A s \in Active : HasSubstates(s) => \E t \in Active : Parent[t] = s

\* Only a composite state with several entry points has parallel children.
RegionsExclusive ==
    \A s, t \in Active :
        s # t /\ Parent[s] = Parent[t] =>
            \E i, j \in DOMAIN EntryPoints : /\ i # j
                                             /\ EntryPoints[i].parent = Parent[s]
                                             /\ EntryPoints[j].parent = Parent[s]

\* Entering a composite state is atomic: before the next event is taken, the
\* active states are those of a legal statechart configuration, although each
\* level is entered by an event of its own that goes through the same queue.
LegalConfiguration ==
    Settled => ParentsActive /\ CompositesEntered /\ RegionsExclusive

\* A state stops being active only after its onExiting agreed (it is in the
\* list of exited states); a history state is never exited, only replaced.
LeavesOnlyByExit ==
    [][Active \ Active' \subseteq ToSet(single.exited) \cup HistoryStates]_vars

\* Inner transitions have priority over those of the states around them: when
\* a state begins to leave for an event, none of its substates that accepts
\* the event unconditionally is still to be asked.
Unconditional(s, e) ==
    \E i \in DOMAIN Transitions : /\ Transitions[i].from = s
                                  /\ Transitions[i].onEvent = e
                                  /\ Transitions[i].guard.cond = NoCondition
                                  /\ ~ HasSubstates(Transitions[i].to)

InnerTransitionsFirst ==
    pc = "exit" /\ dispatch.event.transitionType = "REGULAR" =>
        \A i \in 1 .. dispatch.it - 1 :
            ~ /\ IsSubstateOf(single.from, dispatch.snapshot[i])
              /\ dispatch.snapshot[i] \in Active
              /\ Unconditional(dispatch.snapshot[i], dispatch.event.id)

\* A composite state reports completion only when every region has come to a
\* final state, whichever region was last.  (Asked where no client posts and
\* no action raises the event of a final state.)
FinalEventWaits ==
    \A f \in FinalStates, i \in DOMAIN mPendingEvents :
        mPendingEvents[i].id = FinalEvent[f] =>
            \A s \in Active : IsSubstateOf(Parent[f], s) => s \in FinalStates

\* A transition that leaves a state with a history stores there exactly the
\* states it found active: all of them (DEEP) or the direct children (SHALLOW).
HistoryRemembers ==
    pc = "leave" /\ single.at > Len(single.exited) =>
        \A h \in HistoryStates :
            History[h].parent \in ToSet(single.exited) =>
                ToSet(mHistoryData[h]) =
                    {s \in single.before :
                        IF History[h].type = "DEEP"
                        THEN IsSubstateOf(History[h].parent, s)
                        ELSE Parent[s] = History[h].parent}

-----------------------------------------------------------------------------
Carries(event, c) == event.waiter = c

\* Something that can still answer client `c` is in the queue or in progress.
AnswerDue(c) ==
    \/ Carries(dispatch.event, c)
    \/ \E i \in DOMAIN mPendingEvents : Carries(mPendingEvents[i], c)

\* transitionEx with sync = true, from the post to the return.
IsWaiting(c) == client[c] \in {"emitSync", "wait", "falling", "asleep"}

\* A client that waits for an answer is owed one by some event.
NoOrphanWaiter ==
    \A c \in Clients : IsWaiting(c) /\ transitionStatus[c] = "PENDING" => AnswerDue(c)

\* transitionSync returns true only when the transition has finished: no part
\* of it waits in the queue.
SyncTrueMeansFinished ==
    \A c \in Clients : IsWaiting(c) /\ transitionStatus[c] = "DONE_OK" => ~ AnswerDue(c)

\* The dispatcher decides every synchronous call in the end (whether the thread
\* that waits gets to know is another question).
SyncDecided ==
    \A c \in Clients : IsWaiting(c) ~> ~ IsWaiting(c) \/ transitionStatus[c] # "PENDING"

\* Every synchronous call returns in the end.
SyncReturns == \A c \in Clients : IsWaiting(c) ~> ~ IsWaiting(c)

-----------------------------------------------------------------------------
(* Of which structures some of this is a theorem                           *)

\* No state is its own ancestor.
Acyclic == \A s \in States : s \notin Ancestors[s]

\* Transitions lead to a state beside their source, or beside or above one of
\* the states around it; nothing refuses to be entered and nothing is forced.
Outward ==
    /\ HistoryStates = {} /\ CanRefuseEntry = {}
    /\ Acyclic /\ Parent[Initial] = NoState
    /\ \A i \in DOMAIN Transitions :
           Parent[Transitions[i].to] \in Ancestors[Transitions[i].from] \cup {NoState}

\* Transitions lead to a state beside their source.
Siblings ==
    \A i \in DOMAIN Transitions : Parent[Transitions[i].to] = Parent[Transitions[i].from]

\* An event finds one transition of a state at most.
OneRegular ==
    \A s \in States, e \in Events, truth \in SUBSET Conditions :
        \A i, j \in FindTransitionTarget(s, e, truth) : i = j

Lateral == Outward /\ Siblings /\ OneRegular

\* Something can always be entered in a composite state, and final states are
\* ordinary states of the outermost composite state.
Opens ==
    \A s \in States : HasSubstates(s) =>
        \E i \in DOMAIN EntryPoints :
            /\ EntryPoints[i].parent = s /\ EntryPoints[i].onEvent = NoEvent
            /\ EntryPoints[i].guard.cond = NoCondition

Finals ==
    \A f \in FinalStates :
        ~ HasSubstates(f) /\ (Parent[f] = NoState \/ Parent[Parent[f]] = NoState)

\* Parallel states that are entered as a whole; nobody clears the queue.
Composed == Lateral /\ Opens /\ Finals /\ MayClear = {}

\* No parallel states: one entry point of a composite state applies at most.
OneEntry ==
    \A s \in States, e \in Events \cup {NoEvent}, truth \in SUBSET Conditions :
        \A i, j \in GetEntryPoints(s, e, truth) : i = j

Serial == Lateral /\ OneEntry

\* Clearing the queue drops what is left of a transition under way with nobody
\* told; a history whose default target is its own parent state pushes two
\* events that both leave the entry points to someone else.
NothingDropped ==
    /\ MayClear = {}
    /\ \A h \in HistoryStates : History[h].target # History[h].parent
=============================================================================
