SPECIFICATION FairLifecycleSpec
CONSTANTS
  c1 = c1
  Operators <- MCOperators
  Fleet = Fleet
  Nobody = Nobody
  Cleanups = 2
  MaxCrashes = 1
  MaxFaults = 1
INVARIANT ProjectTypeOK
 
PROPERTY PermittedWritesStand
 
