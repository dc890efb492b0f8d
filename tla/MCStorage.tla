------------------------------ MODULE MCStorage ------------------------------
(* Storage for TLC: a new user, and one with a folder and a file in it;    *)
(* sessions are interchangeable.                                           *)
EXTENDS Storage, TLC

CONSTANTS a, b

Trees ==
    { [latest |-> 1, ents |-> {}],
      [latest |-> 3, ents |-> { [dir |-> 1, name |-> a, id |-> 2, file |-> FALSE],
                                [dir |-> 2, name |-> b, id |-> 3, file |-> TRUE] }] }

Symmetry == Permutations(Sessions)
==============================================================================
