----------------------------- MODULE MCFrontends -----------------------------
(* Frontends for TLC.                                                      *)
EXTENDS Frontends, TLC

Symmetry == Permutations(Fds) \cup Permutations(Fronts) \cup Permutations(Browsers)
==============================================================================
