------------------------------- MODULE Lines -------------------------------
(* Sets put in line by an order, which is a set of pairs.                      *)
EXTENDS Integers, FiniteSets

\* In each place the one that as many come before.
InLine(set, before) ==
    [n \in 1..Cardinality(set) |->
        CHOOSE x \in set : Cardinality({y \in set : <<y, x>> \in before}) = n - 1]

\* The places of a list that are kept, in their order.
Ascending(places) == InLine(places, {ij \in places \X places : ij[1] < ij[2]})
Kept(list, places) == [n \in DOMAIN Ascending(places) |-> list[Ascending(places)[n]]]
=============================================================================
