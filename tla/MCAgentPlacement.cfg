SPECIFICATION AgentSpec
CONSTANTS
  o1 = o1
  o2 = o2
  c1 = c1
  p1 = p1
  p2 = p2
  Owners <- MCOwners
  Callers <- MCCallers
  Procs <- MCProcs
  Nobody = Nobody
  LeaseMs = 2
  MaxClock = 3
  MaxEpoch = 2
  MaxRevision = 3
  MaxCrashes = 1
CHECK_DEADLOCK FALSE
SYMMETRY MCSymmetry
INVARIANT AgentTypeOK
INVARIANT LeaseWithinAuthority
 
INVARIANT FencedNeverRuns
