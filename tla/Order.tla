--------------------------------- MODULE Order ---------------------------------
(* A set in the order of a strict total order on it.  Pure: no state. *)
EXTENDS Naturals, FiniteSets

\* For small sets; the community modules' SetToSortSeq chooses among all sequences.
Sorted(S, Before(_, _)) ==
  [i \in 1 .. Cardinality(S) |->
     CHOOSE x \in S : Cardinality({y \in S : Before(y, x)}) = i - 1]
=============================================================================
