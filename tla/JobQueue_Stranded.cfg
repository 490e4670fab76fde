\* A worker that outlives its lease reverts a track that its successor has
\* already failed and settled.
CONSTANTS
  Tracks = {t1}
  UserWorkers = {w1, w2}
  UpgradeWorkers = {}
  Clients = {c1}
  Purposes = {}
  MaxRuns = 2
  MaxFence = 3
  MayStall = TRUE
  AudioVanishes = FALSE
  Budget = 1
SPECIFICATION Spec
SYMMETRY Symmetry
INVARIANTS
  PendingIsQueued
CHECK_DEADLOCK FALSE
