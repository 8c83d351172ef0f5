SPECIFICATION Host
CONSTANTS
    Procs = {p1, p2}
    Keys = {k1, k2}
    Profiles = {d1, d2}
    Builds = {b1, b2}
    This = b1
    Kinds = {"commit", "rotate", "delete", "reset", "open", "anchored", "status"}
    ExistsFails = FALSE
    MaxOps = 2
    MaxFaults = 2
    None = None
    Unreadable = Unreadable
    Left = Left
    Digests = {1, 2}
    MaxDirs = 2
    MaxTimes = 3
    Nothing = Nothing
    Garbage = Garbage
SYMMETRY Symmetry
INVARIANTS
    
    ReadersTruthful
    FreshnessTruthful

    
CHECK_DEADLOCK FALSE
