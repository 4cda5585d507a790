------------------------------- MODULE MCSync -------------------------------
(***************************************************************************)
(* A, P { *B } and C, as in tests/testcases/04_multithreaded.cpp, with two *)
(* threads that may wait for their transitions, give up waiting, or clear  *)
(* the queue.                                                              *)
(***************************************************************************)
EXTENDS MCStructure

SyncParent == Tree([p \in {"P"} |-> {"B"}])

SyncEntryPoints == <<Entry("P", "B")>>

SyncTransitions == <<On("A", "E1", "P"), On("P", "E2", "C"), On("C", "E1", "A")>>

\* This structure is one of those the theorems on waiting clients are about.
ASSUME SyncAssumption == Serial /\ NothingDropped
=============================================================================
