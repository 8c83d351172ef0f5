SPECIFICATION Spec
CONSTANTS
    Conns = {c1}
    u1 = u1
    u2 = u2
    t1 = t1
    Users = {u1}
    Root = Root
    Targets = {t1}
    Requests <- AuthByUser
    FileIds = {f1, f2}
    NoFile = NoFile
    None = None
    Reaper = Reaper
    MaxActive = 2
    MaxPerUid = 2
    ConnTimeout = 2
    Reserve = 1
    Window = 2
    AttemptsPerWindow = 1
    MaxClock = 1
    Faults = {}
PROPERTIES
    VerdictIsAnswered
CHECK_DEADLOCK FALSE
