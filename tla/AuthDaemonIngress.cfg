SPECIFICATION Spec
CONSTANTS
    Conns = {c1, c2, c3}
    u1 = u1
    u2 = u2
    t1 = t1
    Users = {u1, u2}
    Root = Root
    Targets = {t1}
    Requests <- Queries
    FileIds = {f1}
    NoFile = NoFile
    None = None
    Reaper = Reaper
    MaxActive = 2
    MaxPerUid = 1
    ConnTimeout = 1
    Reserve = 1
    Window = 2
    AttemptsPerWindow = 1
    MaxClock = 0
    Faults = {"gone", "stop"}
SYMMETRY Symmetry
INVARIANTS
    PermitsExact
    QueueNeverFull
CHECK_DEADLOCK FALSE
