------------------------------ MODULE MCNested ------------------------------
(***************************************************************************)
(* F and P { *A, Q { *B, C } }: transitions between levels, a conditional  *)
(* transition, an internal one, a deep history H of P, an action that      *)
(* posts an event, callbacks that refuse.                                  *)
(***************************************************************************)
EXTENDS MCStructure

NestedParent == Tree([p \in {"P", "Q"} |-> IF p = "P" THEN {"A", "Q"} ELSE {"B", "C"}])

NestedEntryPoints == <<Entry("P", "A"), Entry("Q", "B")>>

NestedTransitions ==
    <<On("F", "go", "P"), On("A", "go", "Q"), OnIf("B", "go", "C", If("cond")),
      Internal("C", "go"), On("Q", "back", "A"), On("P", "back", "F"),
      On("C", "out", "B"), On("P", "out", "P"), On("F", "out", "H")>>

NestedHistory ==
    [h \in {"H"} |-> [parent |-> "P", type |-> "DEEP", target |-> NoState]]

NestedActions == Raises("ENTRY", "C", "out")
=============================================================================
