----------------------------- MODULE Selection -----------------------------
(***************************************************************************)
(* What a filter makes of a list: the elements at the places it keeps, in  *)
(* their order.  The nth is the one with n places kept up to its own.      *)
(***************************************************************************)
EXTENDS Naturals, FiniteSets

PlaceOf(places, n) == CHOOSE i \in places : Cardinality({j \in places : j <= i}) = n
Chosen(list, places) == [n \in 1 .. Cardinality(places) |-> list[PlaceOf(places, n)]]

=============================================================================
