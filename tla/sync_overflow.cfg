SPECIFICATION Spec
CONSTANTS
  k1 = k1
  k2 = k2
  NoConn = NoConn
  Keys <- MCKeys
  CommitKinds <- MCKinds
  Clients = {a}
  Conns = {c1}
  MaxOps = 2
  Capacity = 1
  MaxTrackedStale = 2
  MaxEntries = 2
  MaxAttempts = 1
  MaxRevision = 3
  MaxIncarnation = 1
  MaxDrops = 1
PROPERTIES OverflowForcesResync
CHECK_DEADLOCK FALSE
