SPECIFICATION Spec
CONSTANTS
    Paths = {p, q}
    UserPaths = {p}
    RemotePaths = {p, q}
    MaxRev = 4
    MaxRemote = 4
    MaxEdits = 1
    MaxCrashes = 0
    MaxDrops = 1
    MaxItemsPerCall = 2
    MaxPendingLive = 1
    MaxDeferred = 1
    MaxDrainItems = 2
CONSTRAINT TwoSegments
INVARIANTS
    AckInv
PROPERTIES
    CursorsAdvance
