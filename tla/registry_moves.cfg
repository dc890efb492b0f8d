SPECIFICATION Spec
CONSTANTS
    b1 = b1
    b2 = b2
    b3 = b3
    Backends = {b1, b2, b3}
    GroupOf <- TwoGroups
    None = None
    Capacity = 4
    Hazards = {"moves"}
INVARIANT OneElement
CHECK_DEADLOCK FALSE
