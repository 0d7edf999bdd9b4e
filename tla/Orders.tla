-------------------------------- MODULE Orders --------------------------------
(***************************************************************************)
(* What Python's sorted returns, for an order given as a set of pairs.     *)
(***************************************************************************)
EXTENDS Naturals, FiniteSets

(* The members of S, each in the place that those before it leave it.      *)
Sorted(S, before) ==
    [n \in 1..Cardinality(S) |->
        CHOOSE x \in S : Cardinality({y \in S : <<y, x>> \in before}) = n - 1]

Rising(S) == {pair \in S \X S : pair[1] < pair[2]}
=============================================================================
