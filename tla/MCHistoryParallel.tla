-------------------------- MODULE MCHistoryParallel --------------------------
(***************************************************************************)
(* F and P { *A || *Q { *B, C } } with a deep history H of P and, beside   *)
(* it, a history K of Q that the state X of Q's region returns through.    *)
(***************************************************************************)
EXTENDS HsmHistory, MCStructure

RegionsParent ==
    Tree([p \in {"P", "Q"} |-> IF p = "P" THEN {"A", "Q", "X"} ELSE {"B", "C"}])

RegionsEntryPoints == <<Entry("P", "A"), Entry("P", "Q"), Entry("Q", "B")>>

RegionsTransitions ==
    <<On("F", "go", "P"), On("B", "next", "C"), On("P", "back", "F"),
      On("F", "deep", "H"), On("Q", "leave", "X"), On("X", "deep", "K")>>

RegionsHistories ==
    [h \in {"H", "K"} |->
        IF h = "H" THEN [parent |-> "P", type |-> "DEEP", target |-> NoState]
                   ELSE [parent |-> "Q", type |-> "SHALLOW", target |-> NoState]]
=============================================================================
