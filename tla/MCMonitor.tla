------------------------------ MODULE MCMonitor ------------------------------
(* Monitor for TLC: two clusters.                                          *)
EXTENDS Monitor

CONSTANTS b1, b2, b3

TwoGroups == [b \in Backends |-> IF b = b3 THEN 2 ELSE 1]
==============================================================================
