SPECIFICATION Spec
CONSTANTS
    u1 = u1
    u2 = u2
    Sessions = {s1, s2}
    Users = {u1, u2}
    Accounts = {u1, u2}
    GroupOf <- Clusters
    MaxMails = 1
    MaxRcpts = 2
    Hazards = {"overlap"}
CHECK_DEADLOCK FALSE
INVARIANT AllRecipients
