----------------------------- MODULE Positions -----------------------------
(***************************************************************************)
(* The elements of a sequence at some of its positions, in their order.    *)
(* It is written with ranks, not with recursion or sorting, so that proofs *)
(* can use it.                                                             *)
(***************************************************************************)
EXTENDS Naturals, FiniteSets

Rank(K, i) == Cardinality({j \in K : j <= i})

Nth(K, n) == CHOOSE i \in K : Rank(K, i) = n

ElementsAt(s, K) == [n \in 1..Cardinality(K) |-> s[Nth(K, n)]]

=============================================================================
