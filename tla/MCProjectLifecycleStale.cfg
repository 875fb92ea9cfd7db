SPECIFICATION LifecycleSpec
CONSTANTS
  c1 = c1
  Operators <- MCOperators
  Fleet = Fleet
  Nobody = Nobody
  Cleanups = 2
  MaxCrashes = 0
  MaxFaults = 0
PROPERTY StaleWriteNeverLands
