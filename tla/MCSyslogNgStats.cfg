SPECIFICATION Spec
CONSTANTS
    p1 = p1
    p2 = p2
    d1 = d1
    Proc = {p1, p2}
    Dests = {d1}
    Types <- DroppedTypes
    Calendars <- CalendarOf
    MaxCount = 2
    Warn = 1
    Crit = 2
SYMMETRY Symmetry
INVARIANTS
    TypeOK
    NothingCountedTwice
    OkHidesNothing
