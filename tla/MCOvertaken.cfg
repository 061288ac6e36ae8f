SPECIFICATION Spec
CONSTANTS
    Paths = {u, r}
    UserPaths = {u}
    RemotePaths = {r}
    MaxRev = 3
    MaxRemote = 2
    MaxEdits = 1
    MaxCrashes = 0
    MaxDrops = 0
    MaxItemsPerCall = 2
    MaxPendingLive = 1
    MaxDeferred = 1
    MaxDrainItems = 2
INVARIANT
    AckSafety
