SPECIFICATION Host
CONSTANTS
    MAX_TIMEOUT_MS = 3
    Grain = 3
    Parts = 2
    MaxMessages = 2
    None = None
    Targets = {"sddm", "plasma-lock"}
    Modules = {"absent", "new"}
    QueriesMayFail = FALSE
    MaxRuns = 2
    Procs = {p1, p2}
    c1 = c1
    c2 = c2
    alias = alias
    Unread = Unread
SYMMETRY Symmetry
INVARIANTS
    OneDeadline
    SuccessIsGranted
    
    
PROPERTIES
    SelectionAsReported
    OthersKept
CHECK_DEADLOCK FALSE
