------------------------------- MODULE Lists -------------------------------
(***************************************************************************)
(* Lists from which elements are erased while the others keep their order: *)
(* std::erase_if and its like.                                             *)
(***************************************************************************)
EXTENDS Integers, FiniteSets

(* The n-th of a set of numbers, in increasing order.                      *)
Nth(I, n) == CHOOSE i \in I : Cardinality({ j \in I : j <= i }) = n

(* What is left of a list when the elements at the places I are kept.      *)
Kept(list, I) == [n \in 1 .. Cardinality(I) |-> list[Nth(I, n)]]

(* What is left of a list when an element is erased.                       *)
Without(list, e) == Kept(list, { i \in DOMAIN list : list[i] # e })
=============================================================================
