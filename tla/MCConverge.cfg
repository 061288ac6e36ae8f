SPECIFICATION FairSpec
CONSTANTS
    Paths = {u, r}
    UserPaths = {u}
    RemotePaths = {r}
    MaxRev = 3
    MaxRemote = 2
    MaxEdits = 1
    MaxCrashes = 1
    MaxDrops = 0
    MaxItemsPerCall = 2
    MaxPendingLive = 1
    MaxDeferred = 1
    MaxDrainItems = 2
INVARIANTS
    NoEcho
    QuiescentInSync
PROPERTIES
    Converges
