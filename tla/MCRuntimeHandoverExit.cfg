SPECIFICATION Spec
CONSTANTS
  r1 = r1
  r2 = r2
  q1 = q1
  q2 = q2
  Release <- MCRelease
  NoRelease = NoRelease
  Req <- MCOneReq
  QueueLimit = 1
  MaxEngines = 4
  MaxBoots = 2
CHECK_DEADLOCK FALSE
SYMMETRY MCReleaseSymmetry
INVARIANT SelectedExitIsReported
