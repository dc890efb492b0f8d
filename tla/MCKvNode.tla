------------------------------ MODULE MCKvNode -------------------------------
(* KvNode for TLC.  Users and values are interchangeable (the special       *)
(* column is a key, the special value is Empty): states that differ by a    *)
(* renaming of them are checked once, in the runs without liveness.         *)
EXTENDS KvNode, TLC

Symmetry == Permutations(Users) \cup Permutations(Values)
==============================================================================
