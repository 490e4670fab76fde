\* One track under all faults, or two tracks that share a canonical key; and
\* the walk over the candidates, and the cooldown of retries.
CONSTANTS
  Tracks = {t1, t2}
  Workers = {w1, w2}
  Deleters = {d1}
  MaxFence = 3
  Settings = {{"stall", "crash", "usageFails", "sweep"},
              {"stall", "crash", "usageFails", "recordFails", "storeFails"},
              {"usageFails", "recordFails"}, {"stall"}, {"vanish"}}
  Retries = {r1, r2, r3}
  Cooldown = 2
  Statement = 1
  MaxTime = 5
  Unreserved = Unreserved
  Ranked = 5
  Width = 2
  MaxAttempts = 8
  Slots = 1
  Source <- TwoSources
  Implausible = {}
  Outcomes = {"audio", "muxed", "betterMuxed", "fine", "weak", "other",
              "rejected", "unavailable"}
SPECIFICATION MCSpec
SYMMETRY Symmetry
INVARIANTS
  StagedAudioIsServed
  NoLeakedObject
  BestIsKept
  OnlySelectedIsLeft
  WindowIsKept
CHECK_DEADLOCK FALSE
