SPECIFICATION Spec
CONSTANTS
    Fronts = {f1, f2}
    Browsers = {b1}
    Fds = {d1, d2}
    None = None
    Passwords = {p1}
    Hazards = {"race"}
    CookieLimit = 1
    MaxRequests = 1
    MaxFaults = 1
INVARIANT SelectsFrontend
CHECK_DEADLOCK FALSE
