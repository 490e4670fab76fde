CONSTANTS
  Instances = {i1, i2}
  NoOne = NoOne
  Orphaned = Orphaned
  HalfInterval = 1
  MayStall = FALSE
SPECIFICATION FairSpec
INVARIANTS
  AtMostOneLeader
  LeaderWorkIsExclusive
PROPERTIES
  SomebodyLeads
CHECK_DEADLOCK FALSE
