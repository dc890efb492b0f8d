------------------------------ MODULE MCKvGroup ------------------------------
(* KvGroup for TLC: the nodes are interchangeable.                         *)
EXTENDS KvGroup, TLC

Symmetry == Permutations(Nodes)
==============================================================================
