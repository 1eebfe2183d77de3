-------------------------------- MODULE Ranks --------------------------------
(***************************************************************************)
(* The members of a finite set in their order, for an order that is a set  *)
(* of pairs: what the program makes with sorted(), or by taking the lines  *)
(* of a text one after the other.                                          *)
(***************************************************************************)
EXTENDS Naturals, FiniteSets

\* The order of numbers.
Less(S) == {p \in S \X S : p[1] < p[2]}

\* How many members there are up to x, and the sequence of all of them.
Rank(S, R, x) == Cardinality({y \in S : y = x \/ <<y, x>> \in R})
Ranked(S, R) == [n \in 1..Cardinality(S) |-> CHOOSE x \in S : Rank(S, R, x) = n]
=============================================================================
