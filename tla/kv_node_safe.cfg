SPECIFICATION Spec
CONSTANTS
    Users = {u1, u2}
    Keys = {pwd}
    Pwd = pwd
    Values = {a, b}
    Empty = Empty
    NoVal = NoVal
    Period = 3
    MaxSeq = 4
    Hazards = {"stale", "window"}
SYMMETRY Symmetry
INVARIANTS TypeOK SeqInSync ReadCacheFresh Durable
PROPERTY ImplementsKvMap
