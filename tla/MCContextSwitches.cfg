SPECIFICATION LiveSpec
CONSTANTS
    p1 = p1
    p2 = p2
    Proc = {p1, p2}
    MaxTime = 2
    MaxCount = 2
    MaxPast = 2
    Warn = 0
    Crit = 1
INVARIANTS
    TypeOK
    HolderOwnsFile
    NeverOverstates
    DisjointClaims
PROPERTIES
    Serialised
    StateRecovers
