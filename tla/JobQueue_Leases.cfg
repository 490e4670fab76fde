\* One track, two user workers and an upgrade worker, two requests in flight,
\* every kind of job, workers that may outlive their lease.
CONSTANTS
  Tracks = {t1}
  UserWorkers = {w1, w2}
  UpgradeWorkers = {u1}
  Clients = {c1, c2}
  Purposes = {"retry", "reacquire", "recover", "plan"}
  MaxRuns = 2
  MaxFence = 3
  MayStall = TRUE
  AudioVanishes = TRUE
  Budget = 3
SPECIFICATION Spec
SYMMETRY Symmetry
INVARIANTS
  OneLeaseHolder
  AcceptedRequestStaysQueued
PROPERTIES
  OnlyLateRevertsStrand
  OutcomeLandsFromOwner
  ImplementsFencedLease
CHECK_DEADLOCK FALSE
