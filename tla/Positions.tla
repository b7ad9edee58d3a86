----------------------------- MODULE Positions -----------------------------
(***************************************************************************)
(* Erasing from a vector or a list: what is left, by position.             *)
(***************************************************************************)
EXTENDS Integers, Sequences, FiniteSets

\* The n-th of a set of positions, from the front.
Nth(S, n) == CHOOSE i \in S : Cardinality({j \in S : j <= i}) = n

\* What is left of s for each set of positions: the elements there, in their order.
Selection(s) ==
    [S \in SUBSET (DOMAIN s) |-> [n \in 1..Cardinality(S) |-> s[Nth(S, n)]]]
Select(s, S) == Selection(s)[S]
=============================================================================
