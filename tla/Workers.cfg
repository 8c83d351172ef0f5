SPECIFICATION Host
CONSTANTS
    Workers = {"w1", "w2"}
    Sessions = {"w1"}
    Keys = {1, 2}
    Faces = {"Ann", "Ben"}
    Payloads <- Requests
    Extractions = {"NoFace", "Runtime"}
    Vaults <- AnyVault
    MaxRequests = 2
    MaxUpgrades = 1
    MaxFaults = 1
    Base = 2
    Maximum = 5
    Sends <- AnySend
    Capacity = 4
    MaxFrames = 3
    Paths = {1, 2, 3, 4, 5}
    MAX_MANIFEST_ENTRIES = 2
    MAX_ARTIFACT_BYTES = 3
    MAX_MANIFEST_BYTES = 5
    Releases <- AnyRelease
    Strays <- AnyStray
    Expected <- Reviewed
    MaxChanges = 3
    EditBytes = {0, 1, 2, 3, 129, 130, 255}
    MaxEdits = 2
    Nothing = Nothing
    None = None
    Unreadable = Unreadable
INVARIANTS
    ParsersExact
    OneReleaseLoads
    VerdictOfStoredProfile
    EffectsAsReported
    RepliesFit
PROPERTIES
    ImplementsChannel
    WorkEnds
CHECK_DEADLOCK FALSE
