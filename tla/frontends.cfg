SPECIFICATION FairSpec
CONSTANTS
    Fronts = {f1, f2}
    Browsers = {b1, b2}
    Fds = {d1, d2}
    None = None
    Passwords = {p1}
    Hazards = {"race", "silent"}
    CookieLimit = 0
    MaxRequests = 4
    MaxFaults = 1
INVARIANTS TypeOK RegistryExact AccountWhole
PROPERTIES FilesNotReset BrowserServed
CHECK_DEADLOCK FALSE
