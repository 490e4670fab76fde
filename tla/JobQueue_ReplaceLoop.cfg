\* A replacement enqueued on a track that stopped being ready meanwhile.
CONSTANTS
  Tracks = {t1}
  UserWorkers = {w1}
  UpgradeWorkers = {}
  Clients = {c1, c2}
  Purposes = {"reacquire", "recover"}
  MaxRuns = 2
  MaxFence = 3
  MayStall = FALSE
  AudioVanishes = TRUE
  Budget = 2
SPECIFICATION Spec
SYMMETRY Symmetry
PROPERTIES
  FailedReplaceLeavesQueue
CHECK_DEADLOCK FALSE
