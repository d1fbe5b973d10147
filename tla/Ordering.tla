------------------------------ MODULE Ordering ------------------------------
(* A set in an order, as "ORDER BY" and the sorts of the code give it. *)
EXTENDS Integers, FiniteSets

\* From what goes before what; each element stands behind those before it.
Ordered(S, Less(_, _)) ==
  [r \in 1..Cardinality(S) |->
     CHOOSE x \in S : Cardinality({y \in S : Less(y, x)}) = r - 1]
=============================================================================
