----------------------------- MODULE MCParallel -----------------------------
(***************************************************************************)
(* F and P { *Q { *B, C } || *A, final states Y, Z }: two regions, one of  *)
(* them composite, an event both regions react to, completion of P.        *)
(***************************************************************************)
EXTENDS MCStructure

ParallelParent ==
    Tree([p \in {"P", "Q"} |-> IF p = "P" THEN {"A", "Q", "Y", "Z"} ELSE {"B", "C"}])

ParallelEntryPoints == <<Entry("P", "Q"), Entry("P", "A"), Entry("Q", "B")>>

ParallelTransitions ==
    <<On("F", "go", "P"), On("A", "step", "Z"), On("B", "step", "C"),
      On("Q", "out", "Y"), On("P", "out", "F"), On("P", "done", "F"),
      On("C", "go", "B"), On("P", "go", "P")>>

ParallelFinal == [s \in {"Y", "Z"} |-> IF s = "Z" THEN "done" ELSE NoEvent]

\* This structure is one of those the theorems on configurations are about.
ASSUME ParallelAssumption == Composed
=============================================================================
