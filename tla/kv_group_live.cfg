SPECIFICATION FairSpec
CONSTANTS
    Nodes = {n1, n2}
    None = None
    MaxWrites = 1
    MaxFaults = 2
    Hazards = {"overlap", "partial", "backlog", "stale"}
PROPERTIES SyncEnds
CHECK_DEADLOCK FALSE
