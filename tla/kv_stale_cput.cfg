SPECIFICATION Spec
CONSTANTS
    Users = {u1}
    Keys = {pwd}
    Pwd = pwd
    Values = {a}
    Empty = Empty
    NoVal = NoVal
    Period = 3
    MaxSeq = 3
    Hazards = {"stale"}
INVARIANT RecoverySucceeds
