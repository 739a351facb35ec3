------------------------------ MODULE Sorting -------------------------------
(* A set sorted by a key that tells its elements apart, as sorted(_, key=_) *)
(* of the code does: the element that many others precede is that far on.  *)
EXTENDS Integers, FiniteSets

Preceding(x, S, key) == {y \in S : key[y] < key[x]}

SortBy(S, key) ==
  [i \in 1 .. Cardinality(S) |-> CHOOSE x \in S : Cardinality(Preceding(x, S, key)) = i - 1]
=============================================================================
