SPECIFICATION Host
CONSTANTS
    Procs = {p1, p2}
    u1 = u1
    u2 = u2
    t0 = t0
    Users = {u1, u2}
    Targets = {t0, t1, t2}
    Kinds = {"enable", "resync", "disable", "delete", "set", "unset"}
    None = None
    Partial = Partial
    MaxRuns = 3
    MaxFaults = 3
SYMMETRY Symmetry
INVARIANTS
    ProfilesUsable
    
    SingleFailureRestores
PROPERTIES
    ChangesConfined
    AttemptSeesOneProfile
CHECK_DEADLOCK FALSE
