SPECIFICATION Spec
CONSTANTS
    Paths = {p}
    UserPaths = {p}
    RemotePaths = {p}
    MaxRev = 2
    MaxRemote = 2
    MaxEdits = 1
    MaxCrashes = 1
    MaxDrops = 0
    MaxItemsPerCall = 2
    MaxPendingLive = 1
    MaxDeferred = 1
    MaxDrainItems = 2
PROPERTIES
    DeletionKept
