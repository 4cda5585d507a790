------------------------------ MODULE ListErase ------------------------------
(***************************************************************************)
(* std::list::remove and erase: the list `s` without the elements at       *)
(* `places`.  Stated without recursion, so that it can be reasoned about.  *)
(***************************************************************************)
EXTENDS Naturals, Sequences, FiniteSets

Without(s, places) ==
    LET left == DOMAIN s \ places
        rank == [i \in left |-> Cardinality({j \in left : j <= i})]
    IN  [n \in 1 .. Cardinality(left) |-> s[CHOOSE i \in left : rank[i] = n]]

\* The places of `s` that hold `x`.
PlacesOf(s, x) == {i \in DOMAIN s : s[i] = x}
=============================================================================
