SPECIFICATION ResumptionSpec
CONSTANTS
  k1 = k1
  k2 = k2
  NoConn = NoConn
  Keys <- MCKeys
  CommitKinds <- MCKinds
  Clients = {a}
  Conns = {c1}
  MaxOps = 2
  Capacity = 1
  MaxTrackedStale = 2
  MaxEntries = 1
  MaxAttempts = 1
  MaxRevision = 2
  MaxIncarnation = 2
  MaxDrops = 1
  Connections = {d1, d2}
  Editors = {1}
  Events = {"a1", "a2", "b1", "go"}
  Event <- MCEvent
  MaxStreams = 1
  MaxPanics = 1
  MaxChanges = 1
  MaxResyncs = 1
INVARIANTS NewerTextWins EffectOnce
PROPERTIES FollowsHistory EventuallySynced
CHECK_DEADLOCK FALSE
