--------------------------------- MODULE Pick ---------------------------------
(* The elements of a sequence at some of its positions, in their order: what *)
(* is left of a vector after a loop that copies, or erases, some of it.      *)
EXTENDS Integers, Sequences, FiniteSets

\* The k-th of the positions K.
Nth(K, k) == CHOOSE n \in K : Cardinality({m \in K : m <= n}) = k

Pick(s, K) == [k \in 1 .. Cardinality(K) |-> s[Nth(K, k)]]
==============================================================================
