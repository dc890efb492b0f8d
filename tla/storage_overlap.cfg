SPECIFICATION Spec
CONSTANTS
    a = a
    b = b
    Names = {a, b}
    Sessions = {s1, s2}
    Start <- Trees
    MaxAttempt = 1
    MaxRequests = 2
    MaxFaults = 0
    Hazards = {"overlap"}
INVARIANT DeletedGone
CHECK_DEADLOCK FALSE
