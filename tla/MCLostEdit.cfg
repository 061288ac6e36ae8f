SPECIFICATION Spec
CONSTANTS
    Paths = {p}
    UserPaths = {p}
    RemotePaths = {p}
    MaxRev = 2
    MaxRemote = 2
    MaxEdits = 2
    MaxCrashes = 0
    MaxDrops = 0
    MaxItemsPerCall = 2
    MaxPendingLive = 1
    MaxDeferred = 1
    MaxDrainItems = 2
INVARIANTS
    EditsAccounted
