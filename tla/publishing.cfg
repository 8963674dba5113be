SPECIFICATION PublishingSpec
CONSTANTS
    Pids = {1, 2, 3}
    Pages = {1, 3}
    InitialProcesses <- MCProcesses
    InitialPages <- MCPages
    Access = "pinned"
    RecordLimit = 2
    UncertainLimit = 1
    MaxStart = 2
    MaxBoot = 2
    MaxChanges = 2
    MaxFaults = 1
    MaxScans = 2
    Batch = 2
    MaxPlanOps = 3
    MaxBytes = 12
    OpBytes = 1
    IdBytes = 1
    RowBytes = 2
    TextBytes = 2
    PublishedLimit = 3
    SnapshotBytes = 12
    MatchingPids = {2}
    Memory <- MCMemory
    Swap <- MCSwap
    MaxClicks = 2
    MaxIncidents = 2
    MaxRefusals = 1
    f1 = f1
    f2 = f2
    f3 = f3
    bad = bad
    Pairs = {f1, f2, f3}
    Refused = {bad}
    Requests <- MCRequests
    Unavailable = {"failed"}
    MaxFields = 2
    MaxInFlight = 1
    MaxAbandoned = 2
    MaxAge = 1
    MinInterval = 1
    ReadDeadline = 1
    MaxTime = 2
    MaxReads = 3
    k1 = k1
    k2 = k2
    NoConn = NoConn
    Keys <- MCKeys
    CommitKinds <- MCPriorities
    Clients = {a, b}
    Conns = {c1, c2}
    MaxOps = 2
    Capacity = 1
    MaxTrackedStale = 1
    MaxEntries = 1
    MaxAttempts = 1
    MaxRevision = 2
    MaxIncarnation = 1
    MaxDrops = 1
SYMMETRY PeerSymmetry
INVARIANTS
    PublicationsExact OneInstance PresentIsRecent
    NeverDiverges NothingMissed ReplicaFaithful
PROPERTIES
    NoRowBlinks ReadingsMoveForward NoFalseExit
CHECK_DEADLOCK FALSE
