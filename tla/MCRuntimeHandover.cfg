SPECIFICATION FairSpec
CONSTANTS
  r1 = r1
  r2 = r2
  q1 = q1
  q2 = q2
  Release <- MCRelease
  NoRelease = NoRelease
  Req <- MCReq
  QueueLimit = 1
  MaxEngines = 3
  MaxBoots = 2
CHECK_DEADLOCK FALSE
INVARIANT HandoverTypeOK
INVARIANT AdmittedReachOwner
INVARIANT HandlersFinishFirst
INVARIANT ActivationUncontended
INVARIANT ServingIsRecorded
INVARIANT JournalNeverRefuses
PROPERTY ImplementsOwnership
PROPERTY ReplacementSettles
PROPERTY QueuedLeaves
