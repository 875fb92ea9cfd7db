SPECIFICATION RemoteSpec
CONSTANTS
  h1 = h1
  h2 = h2
  p1 = p1
  p2 = p2
  Handlers <- MCHandlers
  Procs <- MCOneProc
  LeaseMs = 1
  TtlMs = 1
  Skew = 1
  MaxClock = 2
  MaxEpoch = 2
  MaxRevision = 3
  MaxCommands = 2
CHECK_DEADLOCK FALSE
SYMMETRY MCRemoteSymmetry
INVARIANT RemoteTypeOK
INVARIANT ReleasedThereToo
INVARIANT CommandRunsOnce
INVARIANT OnlySurrenderedOutlive
INVARIANT OverlapWithinSkew
PROPERTY ImplementsHighWater
