\* Liveness: stalls, crashes, shutdowns and failures of the ledger happen, but at
\* most Budget times. MaxFence starves no request but the one excepted by
\* EveryRequestAnswered, a replacement that is run over and over.
CONSTANTS
  Tracks = {t1}
  UserWorkers = {w1}
  UpgradeWorkers = {u1}
  Clients = {c1}
  Purposes = {"retry", "reacquire", "recover", "plan"}
  MaxRuns = 2
  MaxFence = 12
  MayStall = TRUE
  AudioVanishes = TRUE
  Budget = 3
SPECIFICATION FairSpec
PROPERTIES
  FailedRunLeavesQueue
  EveryRequestAnswered
CHECK_DEADLOCK FALSE
