------------------------------- MODULE MCSmtp --------------------------------
(* Smtp for TLC.  Each user lives in a cluster of its own, so that an       *)
(* answer for one is of no use for the other; sessions are interchangeable. *)
EXTENDS Smtp, TLC

CONSTANTS u1, u2

Clusters == [u \in Users |-> IF u = u1 THEN "g1" ELSE "g2"]

Symmetry == Permutations(Sessions)
==============================================================================
