SPECIFICATION Spec
CONSTANTS
    Nodes = {n1, n2, n3}
    None = None
    MaxWrites = 2
    MaxFaults = 1
    Hazards = {}
SYMMETRY Symmetry
INVARIANTS TypeOK GroupAgrees AckedKept
PROPERTIES SyncAligns
CHECK_DEADLOCK FALSE
