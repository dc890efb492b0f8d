SPECIFICATION Spec
CONSTANTS
    Nodes = {n1, n2}
    None = None
    MaxWrites = 2
    MaxFaults = 1
    Hazards = {"stale"}
SYMMETRY Symmetry
PROPERTIES SyncAligns
CHECK_DEADLOCK FALSE
