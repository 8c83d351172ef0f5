SPECIFICATION Host
CONSTANTS
    None = None
    MaxGen = 5
    MaxFaults = 1
    Unreadable = Unreadable
    Left = Left
    c1 = c1
    p1 = p1
    p2 = p2
    alias = alias
INVARIANTS
    ShownIsCurrent
PROPERTIES
    WorkEnds
CHECK_DEADLOCK FALSE
