------------------------------ MODULE MCHistory ------------------------------
(***************************************************************************)
(* F and P { *A, Q { *B, C } } with a deep history H and a shallow history *)
(* S of P; H falls back to the entry point of P, S to Q.                   *)
(***************************************************************************)
EXTENDS HsmHistory, MCStructure

HistoryParent == Tree([p \in {"P", "Q"} |-> IF p = "P" THEN {"A", "Q"} ELSE {"B", "C"}])

HistoryEntryPoints == <<Entry("P", "A"), Entry("Q", "B")>>

HistoryTransitions ==
    <<On("F", "go", "P"), On("A", "go", "Q"), On("B", "go", "C"),
      On("P", "back", "F"), On("F", "deep", "H"), On("F", "shallow", "S")>>

Histories ==
    [h \in {"H", "S"} |->
        IF h = "H" THEN [parent |-> "P", type |-> "DEEP", target |-> NoState]
                   ELSE [parent |-> "P", type |-> "SHALLOW", target |-> "Q"]]

\* This structure is one of those the theorem on histories is about.
ASSUME HistoryTreeAssumption == Acyclic
=============================================================================
