------------------------------- MODULE MCChunk -------------------------------
(* Chunk for TLC.  Keys are interchangeable, and so are values.            *)
EXTENDS Chunk, TLC

Symmetry == Permutations(Keys) \cup Permutations(Values)
==============================================================================
