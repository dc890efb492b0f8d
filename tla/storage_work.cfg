SPECIFICATION FairSpec
CONSTANTS
    a = a
    b = b
    Names = {a, b}
    Sessions = {s1, s2}
    Start <- Trees
    MaxAttempt = 1
    MaxRequests = 3
    MaxFaults = 1
    Hazards = {"link", "silent"}
INVARIANTS TypeOK TreeIntact UploadsKept ContentMatches
PROPERTIES RequestsEnd DoneUnlessBroken
CHECK_DEADLOCK FALSE
