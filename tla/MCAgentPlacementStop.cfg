SPECIFICATION FairAgentSpec
CONSTANTS
  o1 = o1
  o2 = o2
  c1 = c1
  p1 = p1
  p2 = p2
  Owners <- MCOwners
  Callers <- MCCallers
  Procs <- MCOneProc
  Nobody = Nobody
  LeaseMs = 1
  MaxClock = 2
  MaxEpoch = 2
  MaxRevision = 2
  MaxCrashes = 0
CHECK_DEADLOCK FALSE
PROPERTY StopResolves
