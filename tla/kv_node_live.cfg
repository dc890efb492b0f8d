SPECIFICATION FairSpec
CONSTANTS
    Users = {u1}
    Keys = {pwd}
    Pwd = pwd
    Values = {a}
    Empty = Empty
    NoVal = NoVal
    Period = 3
    MaxSeq = 2
    Hazards = {"stale", "window", "stray", "early", "earlyKill", "restartGap"}
PROPERTY RecoveryEnds
