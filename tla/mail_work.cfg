SPECIFICATION FairSpec
CONSTANTS
    Users = {u1, u2}
    Readers = {u2}
    Bodies = {m1, m2, m3}
    Workers = {w1, w2}
    MaxLen = 3
    Hazards = {"link", "silent", "refused"}
INVARIANTS TypeOK NoMailLost NoMailTwice IdsUnique
PROPERTY WorkEnds
CHECK_DEADLOCK FALSE
