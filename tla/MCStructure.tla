----------------------------- MODULE MCStructure -----------------------------
(* Shorthand for the structures of the MC modules. *)
EXTENDS HsmProperties

Always == [cond |-> NoCondition, expected |-> TRUE]
If(c)  == [cond |-> c, expected |-> TRUE]

Entry(p, s)  == [parent |-> p, state |-> s, onEvent |-> NoEvent, guard |-> Always]

On(s, e, t) == [from |-> s, to |-> t, onEvent |-> e, internal |-> FALSE, guard |-> Always]
OnIf(s, e, t, g) == [On(s, e, t) EXCEPT !.guard = g]
Internal(s, e)   == [On(s, e, s) EXCEPT !.internal = TRUE]

\* The parent relation from the children of each composite state.
Tree(children) ==
    [s \in States |->
       IF \E p \in DOMAIN children : s \in children[p]
       THEN CHOOSE p \in DOMAIN children : s \in children[p] ELSE NoState]

NoFinal   == [s \in {} |-> NoEvent]
NoHistory == [s \in {} |-> [parent |-> s, type |-> "DEEP", target |-> NoState]]
NoActions == [t \in {"ENTRY", "EXIT"} |-> [s \in States |-> <<>>]]
Raises(t, s, e) == [NoActions EXCEPT ![t][s] = <<e>>]
=============================================================================
