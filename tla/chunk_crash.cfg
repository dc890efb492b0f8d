SPECIFICATION Spec
CONSTANTS
    Keys = {k1, k2}
    Values = {v1, v2}
    Empty = Empty
    NoVal = NoVal
    Limit = 1
    MaxChunk = 2
    MaxRecords = 2
    CrashAt = {"idle", "append", "indexed", "listing", "truncate"}
SYMMETRY Symmetry
INVARIANTS TypeOK ChunksDurable Compact
