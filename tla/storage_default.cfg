SPECIFICATION Spec
CONSTANTS
    a = a
    b = b
    Names = {a, b}
    Sessions = {s1, s2}
    Start <- Trees
    MaxAttempt = 1
    MaxRequests = 2
    MaxFaults = 1
    Hazards = {"link"}
PROPERTY SuccessMeansDone
CHECK_DEADLOCK FALSE
