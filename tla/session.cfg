SPECIFICATION SessionSpec
CONSTANTS
    Collections = {"t1", "t2", "t3"}
    ModelOf <- MCModelOf
    Windows <- MCWindows
    Providers = {"m1"}
    Items = 3
    MaxPendingRanges = 1
    MaxInflightModels = 1
    CoalesceSpan = 2
    MaxOperationItems = 2
    MaxSubmits = 3
    MaxModelChanges = 1
    Hashes = {"i", "j", "k", "l"}
    Chunks <- MCChunks
    Publishers = {p1, p2}
    Subscribers = {s1}
    MaxEntries = 2
    MaxResource = 2
    MaxTotal = 3
    Ceilings = {1, 2}
    MaxPublications = 3
    MaxReferences = 1
    NodeIds = {1, 2, 3, 4}
    ModelIds = {1}
    MaxDepth = 2
    MaxNodes = 3
    MaxModels = 1
    MaxOps = 4
    WireMax = 9
    MaxItems = 3
    MaxCached = 3
    MaxBatch = 2
    Swallows = FALSE
INVARIANTS
    RetainedReaches TreeWellFormed ReplicaSame SnapshotExact
PROPERTIES
    LatestWindowAnswered
CHECK_DEADLOCK FALSE
