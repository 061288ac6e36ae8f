SPECIFICATION Spec
CONSTANTS
    Paths = {u, r}
    UserPaths = {u}
    RemotePaths = {r}
    MaxRev = 3
    MaxRemote = 2
    MaxEdits = 1
    MaxCrashes = 1
    MaxDrops = 1
    MaxItemsPerCall = 2
    MaxPendingLive = 2
    MaxDeferred = 2
    MaxDrainItems = 2
INVARIANTS
    AckInv
    AckedUnlessOvertaken
PROPERTIES
    CursorsAdvance
