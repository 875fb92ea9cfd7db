SPECIFICATION Spec
CONSTANTS
  o1 = o1
  o2 = o2
  c1 = c1
  c2 = c2
  Owners <- MCOwners
  Callers <- MCCallers
  Nobody = Nobody
  LeaseMs = 2
  MaxClock = 4
  MaxEpoch = 2
  MaxRevision = 3
SYMMETRY MCSymmetry
INVARIANT TypeOK
INVARIANT GrantHonoured
PROPERTY SupersededOnlyWhenProvedStopped
PROPERTY EpochIsHighWater
PROPERTY ImplementsRegister
