--------------------------------- MODULE Sorting ---------------------------------
(***************************************************************************)
(* Python's sorted, which RouteMemory and Ranking use: the indices of I in *)
(* order, when ahead gives for each the set of those that come before it;  *)
(* and its list comprehensions with a condition, for Tariff: the elements  *)
(* of s at the indices of I, in their order.                               *)
(***************************************************************************)
EXTENDS Integers, FiniteSets

InOrder(I, ahead) ==
    [n \in 1..Cardinality(I) |-> CHOOSE i \in I : Cardinality(ahead[i]) = n - 1]

Selected(s, I) ==
    LET order == InOrder(I, [i \in I |-> {j \in I : j < i}])
    IN  [n \in DOMAIN order |-> s[order[n]]]
===============================================================================
