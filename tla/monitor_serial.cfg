SPECIFICATION FairSpec
CONSTANTS
    b1 = b1
    b2 = b2
    b3 = b3
    Backends = {b1, b2, b3}
    GroupOf <- TwoGroups
    Fds = {f1, f2, f3}
    None = None
    Hazards = {}
    MaxNet = 1
INVARIANTS TypeOK ListsAgree PrimaryServes NodesInformed
PROPERTIES PrimaryStable NodeJoins
