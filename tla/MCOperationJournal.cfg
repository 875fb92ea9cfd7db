SPECIFICATION FairJournalSpec
CONSTANTS
  m1 = m1
  m2 = m2
  k1 = k1
  k2 = k2
  Managers <- MCManagers
  Slots <- MCSlots
  Nobody = Nobody
  Deadline = 1
  Settle = 0
  Grace = 1
  MaxClock = 2
  MaxCalls = 3
  MaxFaults = 1
CHECK_DEADLOCK FALSE
INVARIANT JournalTypeOK
INVARIANT StartedAtMostOnce
 
PROPERTY ImplementsOperation
 
PROPERTY WaiterIsTold
