------------------------------ MODULE MCMailbox ------------------------------
(* Mailbox for TLC.  Threads and mails are interchangeable.                 *)
EXTENDS Mailbox, TLC

\* Pick is the SelectSeq of the standard modules.
Few == UNION {[1 .. n -> 1 .. 3] : n \in 0 .. 4}
ASSUME PickIsSelectSeq ==
    \A s \in Few, e \in 1 .. 3 :
        Pick(s, {n \in DOMAIN s : s[n] # e}) = SelectSeq(s, LAMBDA x : x # e)

Symmetry == Permutations(Workers) \cup Permutations(Bodies)
==============================================================================
