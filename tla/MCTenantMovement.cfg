SPECIFICATION FairMovementSpec
CONSTANTS
  s1 = s1
  s2 = s2
  Shards <- MCShards
  First = s1
  CatchUpRounds = 2
  SettlePasses = 2
  MaxMoves = 2
  MaxWrites = 4
  MaxMapUpdates = 1
  MaxFaults = 2
CHECK_DEADLOCK FALSE
INVARIANT MovementTypeOK
 
INVARIANT FenceHasMove
 
PROPERTY MoveFinishes
