\* One track, one worker, the sweep on: no stall, no crash.
CONSTANTS
  Tracks = {t1}
  Workers = {w1}
  Deleters = {}
  MaxFence = 3
  Settings = {{"sweep"}}
SPECIFICATION Spec
SYMMETRY Symmetry
PROPERTIES
  SweepKeepsGrace
CHECK_DEADLOCK FALSE
