------------------------------ MODULE MCRegistry ------------------------------
(* Registry for TLC: two clusters.                                         *)
EXTENDS Registry

CONSTANTS b1, b2, b3

TwoGroups == [b \in Backends |-> IF b = b3 THEN 2 ELSE 1]
==============================================================================
