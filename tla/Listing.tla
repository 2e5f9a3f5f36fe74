------------------------------- MODULE Listing -------------------------------
(* List comprehensions: some elements of a list, in their order.              *)
EXTENDS Naturals, Sequences, FiniteSets

(* The n-th of some positions of a list. *)
Nth(positions, n) == CHOOSE i \in positions : Cardinality({j \in positions : j <= i}) = n

(* [x for x in list if ...]: what the list has at some of its positions. *)
Picked(list, positions) == [n \in 1 .. Cardinality(positions) |-> list[Nth(positions, n)]]
==============================================================================
