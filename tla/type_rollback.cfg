SPECIFICATION DaemonSpec
CONSTANTS
  Foci = {"life"}
  Classes <- LogicalChannelClass
  ServiceCycle <- SERVICE_CYCLE
  MaxServiceGap <- max_service_gap
  Servers = {"s1", "s2"}
  Scenes <- MCScenes
  Argv <- MCArgv
  Paths <- MCPaths
  DefaultPath = "default.sock"
  MaxLaunches = 3
  MaxCrashes = 1
  MaxRemovals = 1
  MaxConns = 1
  Clients = {"c1"}
  Creators = {"k1", "k2"}
  Capabilities <- MCCapabilities
  Requests <- MCRequests
  MaxAttempts = 1
  MaxCommits = 1
  MaxCreates = 2
  Snapshots <- MCSnapshots
  ClientLimits <- MCClientLimits
  ServerFrame = 30
  CodecLimit = 40
  MaxOperations = 5
  VarintBase = 8
  Pids = {1, 2, 3}
  Denylist = {1}
  Owners <- MCOwners
  BusySets <- MCBusySets
  Viewers = {"v1"}
  MaxBirths = 3
  MaxSelects = 1
  MaxClientSelections = 1
  BatchItems = 1
  Users = {"u1", "u2"}
  GalleryEvents <- MCGalleryEvents
  Lags = {1}
  TraceLimit = 4
  TransactionRows = 2
  SampleWindow = 2
  BuildOps = 9
  MaxRevision = 7
  MaxFaults = 1
  MaxVisits = 2
INVARIANT
  TypesDecodable
CHECK_DEADLOCK FALSE
